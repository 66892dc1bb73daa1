----------------------------- MODULE Connections -----------------------------
(***************************************************************************)
(* The server table and the connection maps of kernel/src/services.rs.       *)
(*                                                                         *)
(* A process names a server by a CID, a slot of its own connection map.  An   *)
(* entry of the map is an Option<NonZeroU8>: None (Unused here), 1 for a      *)
(* tombstone, or the server's slot in the server table plus two.  The map     *)
(* lives in the process's own page, the table in the kernel; create, connect, *)
(* disconnect, destroy and terminate keep them in step by hand.  The queue    *)
(* inside a server is the subject of module ServerQueue: here a server is its *)
(* address and its owner, and server.destroy() may refuse at any time (it      *)
(* does while the server holds unanswered messages).                          *)
(***************************************************************************)
EXTENDS Integers

CONSTANTS
    MaxProcesses,   \* slots of the process table; PIDs start at 1
    MaxServers,     \* slots of the server table
    MapLen,         \* slots of a connection map (32 in the code)
    SIDs,           \* server addresses
    NoServer,       \* a free slot of the server table
    NoSid           \* value of `granted` for a CID that is not handed out

ASSUME ConnectionsAssumption ==
    /\ MaxProcesses \in Nat \ {0}
    /\ MaxServers \in Nat
    /\ MapLen \in Nat
    /\ NoServer \notin [sid : SIDs, pid : 1 .. MaxProcesses]
    /\ NoSid \notin SIDs

PIDs == 1 .. MaxProcesses
ServerIdx == 0 .. MaxServers - 1
MapIdx == 0 .. MapLen - 1

Unused == 0
Tombstone == 1

\* Variant: the offset counts from one.
EntryFor_OneBased(sidx) == sidx + 3

EntryFor(sidx) == sidx + 2

VARIABLES
    processes,       \* the PIDs whose process is not Free
    servers,         \* the server table
    connection_map,  \* of each process
    granted          \* history: the SID a CID was handed out for, until the
                     \* process disconnects or the server is destroyed

vars == <<processes, servers, connection_map, granted>>

ServerRecord == [sid : SIDs, pid : PIDs]

TypeOK ==
    /\ processes \subseteq PIDs
    /\ servers \in [ServerIdx -> ServerRecord \cup {NoServer}]
    /\ connection_map \in [PIDs -> [MapIdx -> 0 .. MaxServers + 1]]
    /\ granted \in [PIDs -> [MapIdx -> SIDs \cup {NoSid}]]

\* ProcessInner::default()
EmptyMap == [c \in MapIdx |-> Unused]
NothingGranted == [c \in MapIdx |-> NoSid]

\* Only PID 1, the kernel's own process, exists.
Init ==
    /\ processes = {1}
    /\ servers = [x \in ServerIdx |-> NoServer]
    /\ connection_map = [p \in PIDs |-> EmptyMap]
    /\ granted = [p \in PIDs |-> NothingGranted]

Least(S) == CHOOSE x \in S : \A y \in S : x <= y

-----------------------------------------------------------------------------
(* connect_to_server *)

Serves(table, x, sid) == table[x] # NoServer /\ table[x].sid = sid

\* Variant: the search stops at the first free slot.
Existing_UpToFreeSlot(table, map, sid) ==
    {c \in MapIdx : /\ map[c] >= 2 /\ Serves(table, map[c] - 2, sid)
                    /\ \A d \in 0 .. c : map[d] # Unused}

\* The CIDs through which a process already reaches `sid`.
Existing(table, map, sid) ==
    {c \in MapIdx : map[c] >= 2 /\ Serves(table, map[c] - 2, sid)}

\* Variant: a tombstone counts as an empty slot.
FreeCids_ReusingTombstones(map) == {c \in MapIdx : map[c] < 2}

FreeCids(map) == {c \in MapIdx : map[c] = Unused}

Providers(table, sid) == {x \in ServerIdx : Serves(table, x, sid)}

\* The CID that connect_to_server returns, -1 for OutOfMemory or ServerNotFound.
ConnectedCid(table, map, sid) ==
    CASE Existing(table, map, sid) # {}                        -> Least(Existing(table, map, sid))
      [] /\ Existing(table, map, sid) = {}
         /\ FreeCids(map) # {} /\ Providers(table, sid) # {}    -> Least(FreeCids(map))
      [] OTHER                                                  -> -1

\* The map after the call.
connect_to_server(table, map, sid) ==
    LET c == ConnectedCid(table, map, sid)
    IN  IF c = -1 \/ Existing(table, map, sid) # {}
        THEN map
        ELSE [map EXCEPT ![c] = EntryFor(Least(Providers(table, sid)))]

Grant(g, c, sid) == IF c = -1 THEN g ELSE [g EXCEPT ![c] = sid]

Connects(table, pid, sid) ==
    /\ connection_map' =
           [connection_map EXCEPT ![pid] = connect_to_server(table, @, sid)]
    /\ granted' =
           [granted EXCEPT ![pid] =
                Grant(@, ConnectedCid(table, connection_map[pid], sid), sid)]

-----------------------------------------------------------------------------
(* Operations *)

\* create_process: the first Free entry of the process table.  On RISC-V the entry of a
\* process that has terminated is refused (module Memory); elsewhere it is used again, and
\* the connections are to be right in both cases.
CreateProcess ==
    /\ PIDs \ processes # {}
    /\ LET p == Least(PIDs \ processes)
       IN  /\ processes' = processes \cup {p}
           /\ connection_map' = [connection_map EXCEPT ![p] = EmptyMap]
           /\ granted' = [granted EXCEPT ![p] = NothingGranted]
    /\ UNCHANGED servers

\* CreateServer and CreateServerWithAddress.  The server is entered in the table
\* first and stays there when connecting to it fails; nothing looks for another
\* server with the same address.
CreateServer(pid, sid) ==
    /\ pid \in processes
    /\ \E x \in ServerIdx : servers[x] = NoServer
    /\ LET x == Least({y \in ServerIdx : servers[y] = NoServer})
           table == [servers EXCEPT ![x] = [sid |-> sid, pid |-> pid]]
       IN  servers' = table /\ Connects(table, pid, sid)
    /\ UNCHANGED processes

\* Connect and TryConnect; also ConnectForProcess, which names another process.
Connect(pid, sid) ==
    /\ pid \in processes
    /\ Connects(servers, pid, sid)
    /\ UNCHANGED <<processes, servers>>

\* disconnect_from_server, also of a tombstone
Disconnect(pid, c) ==
    /\ pid \in processes
    /\ connection_map[pid][c] # Unused
    /\ connection_map' = [connection_map EXCEPT ![pid][c] = Unused]
    /\ granted' = [granted EXCEPT ![pid][c] = NoSid]
    /\ UNCHANGED <<processes, servers>>

\* The entries of every live process that name server slot x, replaced by `value`.
Replaced(x, value) ==
    [p \in PIDs |-> [c \in MapIdx |->
        IF p \in processes /\ connection_map[p][c] = EntryFor(x)
        THEN value ELSE connection_map[p][c]]]

\* Variant: the clients' entries are left alone.
DestroyServer_KeepingEntries(pid, sid) ==
    /\ pid \in processes
    /\ \E x \in ServerIdx : servers[x] = [sid |-> sid, pid |-> pid]
    /\ LET x == Least({y \in ServerIdx : servers[y] = [sid |-> sid, pid |-> pid]})
       IN  servers' = [servers EXCEPT ![x] = NoServer]
    /\ UNCHANGED <<processes, connection_map, granted>>

\* destroy_server: the first server of the caller with this address.  Its clients'
\* CIDs become free.
DestroyServer(pid, sid) ==
    /\ pid \in processes
    /\ \E x \in ServerIdx : servers[x] = [sid |-> sid, pid |-> pid]
    /\ LET x == Least({y \in ServerIdx : servers[y] = [sid |-> sid, pid |-> pid]})
       IN  /\ servers' = [servers EXCEPT ![x] = NoServer]
           /\ connection_map' = Replaced(x, Unused)
           /\ granted' = [p \in PIDs |-> [c \in MapIdx |->
                  IF connection_map[p][c] = EntryFor(x) THEN NoSid ELSE granted[p][c]]]
    /\ UNCHANGED processes

\* Variant: the CID becomes free.
Buried_Freed(pid, entry) ==
    IF entry >= 2 /\ servers[entry - 2] # NoServer /\ servers[entry - 2].pid = pid
    THEN Unused ELSE entry

\* What terminate_process leaves in a connection map entry.
Buried(pid, entry) ==
    IF entry >= 2 /\ servers[entry - 2] # NoServer /\ servers[entry - 2].pid = pid
    THEN Tombstone ELSE entry

\* terminate_process: the clients of all its servers get a tombstone, and its own
\* map goes with its memory.
TerminateProcess(pid) ==
    /\ pid \in processes \ {1}
    /\ processes' = processes \ {pid}
    /\ servers' = [x \in ServerIdx |->
           IF servers[x] # NoServer /\ servers[x].pid = pid THEN NoServer ELSE servers[x]]
    /\ connection_map' = [p \in PIDs |->
           IF p = pid THEN EmptyMap
           ELSE [c \in MapIdx |-> Buried(pid, connection_map[p][c])]]
    /\ granted' = [granted EXCEPT ![pid] = NothingGranted]

Next ==
    \/ CreateProcess
    \/ \E pid \in PIDs, sid \in SIDs :
           CreateServer(pid, sid) \/ Connect(pid, sid) \/ DestroyServer(pid, sid)
    \/ \E pid \in PIDs, c \in MapIdx : Disconnect(pid, c)
    \/ \E pid \in PIDs : TerminateProcess(pid)

Spec == Init /\ [][Next]_vars

-----------------------------------------------------------------------------
(* Properties *)

\* Every connection of a live process names an occupied slot of the server table:
\* send_message's expect("server couldn't be located") and the indexing in
\* server_from_sidx cannot fail, however servers and processes come and go, and a
\* new server never inherits the connections of the slot's previous owner.
ConnectionsResolve ==
    \A p \in processes, c \in MapIdx :
        connection_map[p][c] >= 2 => servers[connection_map[p][c] - 2] # NoServer

\* A CID handed out for an address leads to a server with that address, or to a
\* tombstone once that server's process has terminated, until the process itself
\* disconnects or the server is destroyed: messages are never delivered to another
\* server because a table slot or a CID was used again.
CidKeepsItsServer ==
    \A p \in processes, c \in MapIdx :
        granted[p][c] # NoSid =>
            \/ connection_map[p][c] = Tombstone
            \/ /\ connection_map[p][c] >= 2
               /\ Serves(servers, connection_map[p][c] - 2, granted[p][c])

\* A CID whose server has died with its process is never given to another server
\* behind the back of the code that still holds it: connect_to_server steps over
\* tombstones.  A tombstone stays or becomes free, and is never turned into the entry of
\* another server.
TombstonesStay ==
    [][\A p \in processes \cap processes', c \in MapIdx :
           connection_map[p][c] = Tombstone => connection_map'[p][c] \in {Tombstone, Unused}]_vars

\* A process has one CID per address: connect_to_server finds the connection it
\* already has.  (So every part of a process shares it, and one Disconnect ends it
\* for all of them.)
OneCidPerAddress ==
    \A p \in processes, sid \in SIDs :
        \A c, d \in Existing(servers, connection_map[p], sid) : c = d

\* What xous-rs documents for CreateServerWithAddress: an address in use is refused.
\* (The code has no such test.)
AddressesUnique ==
    \A x, y \in ServerIdx :
        servers[x] # NoServer /\ servers[y] # NoServer /\ servers[x].sid = servers[y].sid
            => x = y
=============================================================================
