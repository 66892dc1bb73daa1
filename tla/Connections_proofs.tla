-------------------------- MODULE Connections_proofs --------------------------
(***************************************************************************)
(* Proofs about connections, for tables and maps of every size.              *)
(***************************************************************************)
EXTENDS Connections, WellFoundedInduction, TLAPS

\* A set of naturals that is not empty has a least element: the loops that take
\* the first free or the first matching slot return one.
LEMMA LeastIn ==
    ASSUME NEW S, S \subseteq Nat, S # {}
    PROVE  Least(S) \in S
<1> DEFINE R == OpToRel(<, Nat)
<1>1. IsWellFoundedOn(R, Nat)
    BY NatLessThanWellFounded
<1>2. \A y, z \in Nat : y < z => <<y, z>> \in R
    BY Zenon DEF OpToRel
<1> HIDE DEF R
<1>3. PICK x \in S : \A y \in S : ~(<<y, x>> \in R)
    BY <1>1, WFMin
<1>4. ASSUME NEW y \in S PROVE x <= y
  <2>1. x \in Nat /\ y \in Nat
      OBVIOUS
  <2>2. ~(y < x)
      BY <1>2, <1>3, <2>1, Zenon
  <2> QED BY <2>1, <2>2
<1>5. \E z \in S : \A y \in S : z <= y
    BY <1>4
<1> QED BY <1>5 DEF Least

-----------------------------------------------------------------------------
(* One process *)

Tables == [ServerIdx -> ServerRecord \cup {NoServer}]
Maps == [MapIdx -> 0 .. MaxServers + 1]
Grants == [MapIdx -> SIDs \cup {NoSid}]

\* What holds of the map and the history of one live process.
Resolves(table, map) ==
    \A c \in MapIdx : map[c] >= 2 => table[map[c] - 2] # NoServer
Keeps(table, map, g) ==
    \A c \in MapIdx : g[c] # NoSid =>
        \/ map[c] = Tombstone
        \/ map[c] >= 2 /\ Serves(table, map[c] - 2, g[c])
OneCid(table, map) ==
    \A sid \in SIDs : \A c, d \in Existing(table, map, sid) : c = d

Sound(table, map, g) ==
    /\ map \in Maps /\ g \in Grants
    /\ Resolves(table, map)
    /\ Keeps(table, map, g)
    /\ OneCid(table, map)

\* A fresh process has no connection.
LEMMA EmptySound ==
    ASSUME NEW table
    PROVE  Sound(table, EmptyMap, NothingGranted)
    BY ConnectionsAssumption DEF Sound, Maps, Grants, Resolves, Keeps, OneCid, Existing,
           EmptyMap, NothingGranted, Unused, MapIdx

\* connect_to_server keeps the map and the history sound.
LEMMA ConnectSound ==
    ASSUME NEW table \in Tables, NEW map, NEW g, NEW sid \in SIDs,
           Sound(table, map, g)
    PROVE  Sound(table, connect_to_server(table, map, sid),
                 Grant(g, ConnectedCid(table, map, sid), sid))
<1> DEFINE c == ConnectedCid(table, map, sid)
           E == Existing(table, map, sid)
           F == FreeCids(map)
           P == Providers(table, sid)
<1> USE ConnectionsAssumption
<1>0. E \subseteq MapIdx /\ F \subseteq MapIdx /\ P \subseteq ServerIdx
      /\ MapIdx \subseteq Nat /\ ServerIdx \subseteq Nat
    BY DEF Existing, FreeCids, Providers, MapIdx, ServerIdx
<1>1. CASE c = -1
  <2>1. /\ connect_to_server(table, map, sid) = map
        /\ Grant(g, c, sid) = g
      BY <1>1 DEF connect_to_server, Grant
  <2> QED BY <2>1
<1>2. CASE E # {}
  <2>1. c = Least(E) /\ c \in E
      BY <1>0, <1>2, LeastIn DEF ConnectedCid
  <2>2. c # -1 /\ c \in MapIdx
      BY <1>0, <2>1
  <2>3. /\ connect_to_server(table, map, sid) = map
        /\ Grant(g, c, sid) = [g EXCEPT ![c] = sid]
      BY <1>2, <2>2 DEF connect_to_server, Grant
  <2>4. map[c] >= 2 /\ Serves(table, map[c] - 2, sid)
      BY <2>1 DEF Existing
  <2> HIDE DEF c, E, F, P
  <2>5. [g EXCEPT ![c] = sid] \in Grants
      BY <2>2 DEF Sound, Grants
  <2>6. Keeps(table, map, [g EXCEPT ![c] = sid])
      BY <2>2, <2>4 DEF Sound, Keeps, Grants
  <2>7. Sound(table, map, [g EXCEPT ![c] = sid])
      BY <2>5, <2>6 DEF Sound
  <2> QED BY <2>3, <2>7 DEF c
<1>3. CASE c # -1 /\ E = {}
  <2>1. c = Least(F) /\ F # {} /\ P # {}
      BY <1>3 DEF ConnectedCid
  <2>2. c \in F /\ Least(P) \in P
      BY <1>0, <2>1, LeastIn
  <2>3. PICK x \in ServerIdx : x = Least(P) /\ Serves(table, x, sid)
      BY <2>2 DEF Providers
  <2>4. /\ connect_to_server(table, map, sid) = [map EXCEPT ![c] = EntryFor(x)]
        /\ Grant(g, c, sid) = [g EXCEPT ![c] = sid]
      BY <1>3, <2>3 DEF connect_to_server, Grant
  <2>5. c \in MapIdx /\ map[c] = Unused
      BY <2>2 DEF FreeCids
  <2>6. \A d \in MapIdx : map[d] >= 2 => ~Serves(table, map[d] - 2, sid)
      BY <1>3 DEF Existing
  <2>7. x + 2 \in 0 .. MaxServers + 1 /\ x + 2 >= 2 /\ (x + 2) - 2 = x
      BY DEF ServerIdx
  <2> HIDE DEF c, E, F, P
  <2> DEFINE map2 == [map EXCEPT ![c] = x + 2]
             g2 == [g EXCEPT ![c] = sid]
  <2>8. map2 \in Maps /\ g2 \in Grants
      BY <2>5, <2>7 DEF Sound, Maps, Grants
  <2>9. /\ map2[c] = x + 2 /\ g2[c] = sid
        /\ \A d \in MapIdx : d # c => map2[d] = map[d] /\ g2[d] = g[d]
      BY <2>5 DEF Sound, Maps, Grants
  <2> HIDE DEF map2, g2
  <2>10. Resolves(table, map2)
      BY <2>3, <2>7, <2>9 DEF Sound, Resolves, Serves
  <2>11. Keeps(table, map2, g2)
      BY <2>3, <2>7, <2>9 DEF Sound, Keeps
  <2>12. OneCid(table, map2)
    <3> SUFFICES ASSUME NEW t \in SIDs, NEW d \in Existing(table, map2, t),
                        NEW e \in Existing(table, map2, t)
                 PROVE  d = e
        BY DEF OneCid
    <3>1. /\ d \in MapIdx /\ map2[d] >= 2 /\ Serves(table, map2[d] - 2, t)
          /\ e \in MapIdx /\ map2[e] >= 2 /\ Serves(table, map2[e] - 2, t)
        BY DEF Existing
    <3>2. CASE d = c /\ e # c
        BY <2>3, <2>6, <2>7, <2>9, <3>1, <3>2 DEF Serves
    <3>3. CASE d # c /\ e = c
        BY <2>3, <2>6, <2>7, <2>9, <3>1, <3>3 DEF Serves
    <3>4. CASE d # c /\ e # c
      <4>1. d \in Existing(table, map, t) /\ e \in Existing(table, map, t)
          BY <2>9, <3>1, <3>4 DEF Existing
      <4> QED BY <4>1 DEF Sound, OneCid
    <3> QED BY <3>2, <3>3, <3>4
  <2>13. Sound(table, map2, g2)
      BY <2>8, <2>10, <2>11, <2>12 DEF Sound
  <2> QED BY <2>4, <2>13 DEF map2, g2, EntryFor, c
<1> QED BY <1>1, <1>2, <1>3

\* A slot that no map names can be filled or emptied: the other connections are not
\* affected.
LEMMA OtherSlotSound ==
    ASSUME NEW table \in Tables, NEW map, NEW g, Sound(table, map, g),
           NEW x \in ServerIdx, NEW r \in ServerRecord \cup {NoServer},
           \A c \in MapIdx : map[c] # EntryFor(x)
    PROVE  Sound([table EXCEPT ![x] = r], map, g)
<1> USE ConnectionsAssumption
<1> DEFINE table2 == [table EXCEPT ![x] = r]
<1>1. \A c \in MapIdx : map[c] >= 2 =>
          map[c] - 2 \in ServerIdx /\ map[c] - 2 # x /\ table2[map[c] - 2] = table[map[c] - 2]
  <2> SUFFICES ASSUME NEW c \in MapIdx, map[c] >= 2
               PROVE  map[c] - 2 \in ServerIdx /\ map[c] - 2 # x
                      /\ table2[map[c] - 2] = table[map[c] - 2]
      OBVIOUS
  <2>1. map[c] \in 0 .. MaxServers + 1
      BY DEF Sound, Maps
  <2>2. map[c] - 2 \in ServerIdx /\ map[c] - 2 # x
      BY <2>1 DEF ServerIdx, EntryFor
  <2> QED BY <2>2 DEF Tables
<1> HIDE DEF table2
<1>2. Resolves(table2, map)
    BY <1>1 DEF Sound, Resolves
<1>3. Keeps(table2, map, g)
    BY <1>1 DEF Sound, Keeps, Serves
<1>4. \A sid \in SIDs : Existing(table2, map, sid) = Existing(table, map, sid)
    BY <1>1 DEF Existing, Serves
<1>5. OneCid(table2, map)
    BY <1>4 DEF Sound, OneCid
<1>6. Sound(table2, map, g)
    BY <1>2, <1>3, <1>5 DEF Sound
<1> QED BY <1>6 DEF table2

\* Fewer connections: some entries are dropped or buried together with their
\* history, and the slots they named may be emptied.
LEMMA FewerSound ==
    ASSUME NEW table \in Tables, NEW map, NEW g, Sound(table, map, g),
           NEW table2 \in Tables, NEW map2 \in Maps, NEW g2 \in Grants,
           \A c \in MapIdx :
               \/ map2[c] = map[c] /\ g2[c] = g[c]
                  /\ (map[c] >= 2 => table2[map[c] - 2] = table[map[c] - 2])
               \/ map2[c] = Unused /\ g2[c] = NoSid
               \/ map2[c] = Tombstone
    PROVE  Sound(table2, map2, g2)
<1> USE ConnectionsAssumption DEF Unused, Tombstone
<1>1. Resolves(table2, map2)
    BY DEF Sound, Resolves
<1>2. Keeps(table2, map2, g2)
    BY DEF Sound, Keeps, Serves
<1>3. \A sid \in SIDs : Existing(table2, map2, sid) \subseteq Existing(table, map, sid)
    BY DEF Existing, Serves
<1>4. OneCid(table2, map2)
    BY <1>3 DEF Sound, OneCid
<1> QED BY <1>1, <1>2, <1>4 DEF Sound

-----------------------------------------------------------------------------
(* The inductive invariant *)

Inv ==
    /\ TypeOK
    /\ \A p \in processes : Sound(servers, connection_map[p], granted[p])

\* The three safety properties are the parts of Sound, process by process.
LEMMA InvImplies ==
    Inv => TypeOK /\ ConnectionsResolve /\ CidKeepsItsServer /\ OneCidPerAddress
    BY DEF Inv, Sound, Resolves, Keeps, OneCid, ConnectionsResolve, CidKeepsItsServer,
           OneCidPerAddress

\* At the start PID 1 exists and has no connection.
LEMMA InitInv == Init => Inv
<1> SUFFICES ASSUME Init PROVE Inv
    OBVIOUS
<1> USE ConnectionsAssumption
<1>1. /\ processes = {1} /\ 1 \in PIDs
      /\ servers \in Tables
      /\ connection_map = [p \in PIDs |-> EmptyMap]
      /\ granted = [p \in PIDs |-> NothingGranted]
    BY DEF Init, Tables, PIDs
<1>2. Sound(servers, EmptyMap, NothingGranted)
    BY EmptySound
<1>3. TypeOK
    BY <1>1, <1>2 DEF TypeOK, Sound, Maps, Grants, Tables
<1> QED BY <1>1, <1>2, <1>3 DEF Inv

\* Connecting a process through a table that is sound for it and for the others.
LEMMA ConnectsInv ==
    ASSUME NEW pid \in processes, NEW sid \in SIDs, NEW table \in Tables,
           TypeOK, \A p \in processes : Sound(table, connection_map[p], granted[p]),
           Connects(table, pid, sid), servers' = table, processes' = processes
    PROVE  Inv'
<1> DEFINE mp == connect_to_server(table, connection_map[pid], sid)
           gp == Grant(granted[pid], ConnectedCid(table, connection_map[pid], sid), sid)
<1>1. Sound(table, mp, gp)
    BY ConnectSound
<1>2. mp \in Maps /\ gp \in Grants
    BY <1>1 DEF Sound
<1>3. pid \in PIDs /\ connection_map \in [PIDs -> Maps] /\ granted \in [PIDs -> Grants]
      /\ processes \subseteq PIDs
    BY DEF TypeOK, Maps, Grants
<1>4. /\ connection_map' = [connection_map EXCEPT ![pid] = mp]
      /\ granted' = [granted EXCEPT ![pid] = gp]
    BY DEF Connects
<1> HIDE DEF mp, gp
<1>5. /\ connection_map' \in [PIDs -> Maps] /\ granted' \in [PIDs -> Grants]
      /\ connection_map'[pid] = mp /\ granted'[pid] = gp
      /\ \A q \in PIDs : q # pid =>
             connection_map'[q] = connection_map[q] /\ granted'[q] = granted[q]
    BY <1>2, <1>3, <1>4
<1>6. TypeOK'
    BY <1>3, <1>5 DEF TypeOK, Maps, Grants, Tables
<1>7. \A p \in processes : Sound(table, connection_map'[p], granted'[p])
    BY <1>1, <1>3, <1>5
<1> QED BY <1>6, <1>7 DEF Inv

\* Every operation preserves the invariant.
LEMMA NextInv == Inv /\ [Next]_vars => Inv'
<1> SUFFICES ASSUME Inv, [Next]_vars PROVE Inv'
    OBVIOUS
<1> USE ConnectionsAssumption
<1>0. /\ processes \subseteq PIDs /\ servers \in Tables
      /\ connection_map \in [PIDs -> Maps] /\ granted \in [PIDs -> Grants]
      /\ PIDs \subseteq Nat /\ ServerIdx \subseteq Nat
    BY DEF Inv, TypeOK, Tables, Maps, Grants, PIDs, ServerIdx
<1>1. CASE CreateProcess
  <2> DEFINE p == Least(PIDs \ processes)
  <2>1. p \in PIDs \ processes
      BY <1>0, <1>1, LeastIn DEF CreateProcess
  <2> HIDE DEF p
  <2>2. /\ processes' = processes \cup {p} /\ servers' = servers
        /\ connection_map' = [connection_map EXCEPT ![p] = EmptyMap]
        /\ granted' = [granted EXCEPT ![p] = NothingGranted]
      BY <1>1 DEF CreateProcess, p
  <2>3. Sound(servers, EmptyMap, NothingGranted)
      BY EmptySound
  <2>4. EmptyMap \in Maps /\ NothingGranted \in Grants
      BY <2>3 DEF Sound
  <2>5. /\ connection_map' \in [PIDs -> Maps] /\ granted' \in [PIDs -> Grants]
        /\ connection_map'[p] = EmptyMap /\ granted'[p] = NothingGranted
        /\ \A q \in PIDs : q # p =>
               connection_map'[q] = connection_map[q] /\ granted'[q] = granted[q]
      BY <1>0, <2>1, <2>2, <2>4
  <2>6. TypeOK'
      BY <1>0, <2>1, <2>2, <2>5 DEF TypeOK, Maps, Grants, Tables
  <2>7. \A q \in processes' : Sound(servers', connection_map'[q], granted'[q])
      BY <1>0, <2>2, <2>3, <2>5 DEF Inv
  <2> QED BY <2>6, <2>7 DEF Inv
<1>2. ASSUME NEW pid \in PIDs, NEW sid \in SIDs, CreateServer(pid, sid)
      PROVE  Inv'
  <2> DEFINE x == Least({y \in ServerIdx : servers[y] = NoServer})
             r == [sid |-> sid, pid |-> pid]
             table == [servers EXCEPT ![x] = r]
  <2>1. x \in ServerIdx /\ servers[x] = NoServer
    <3>1. {y \in ServerIdx : servers[y] = NoServer} \subseteq Nat
          /\ {y \in ServerIdx : servers[y] = NoServer} # {}
        BY <1>0, <1>2 DEF CreateServer
    <3> QED BY <3>1, LeastIn
  <2>2. /\ pid \in processes /\ servers' = table /\ processes' = processes
        /\ Connects(table, pid, sid)
      BY <1>2 DEF CreateServer
  <2> HIDE DEF x
  <2>3. r \in ServerRecord /\ table \in Tables
      BY <1>0, <2>1 DEF ServerRecord, Tables
  <2> HIDE DEF r
  <2>4. ASSUME NEW p \in processes
        PROVE  Sound(table, connection_map[p], granted[p])
    <3>1. Sound(servers, connection_map[p], granted[p])
        BY DEF Inv
    <3>2. \A c \in MapIdx : connection_map[p][c] # EntryFor(x)
        BY <2>1, <3>1 DEF Sound, Resolves, EntryFor, ServerIdx
    <3> QED BY <1>0, <2>1, <2>3, <3>1, <3>2, OtherSlotSound
  <2> HIDE DEF table
  <2> QED BY <2>2, <2>3, <2>4, ConnectsInv DEF Inv
<1>3. ASSUME NEW pid \in PIDs, NEW sid \in SIDs, Connect(pid, sid)
      PROVE  Inv'
    BY <1>0, <1>3, ConnectsInv DEF Inv, Connect
<1>4. ASSUME NEW pid \in PIDs, NEW sid \in SIDs, DestroyServer(pid, sid)
      PROVE  Inv'
  <2> DEFINE x == Least({y \in ServerIdx : servers[y] = [sid |-> sid, pid |-> pid]})
  <2>1. x \in ServerIdx
    <3>1. {y \in ServerIdx : servers[y] = [sid |-> sid, pid |-> pid]} \subseteq Nat
          /\ {y \in ServerIdx : servers[y] = [sid |-> sid, pid |-> pid]} # {}
        BY <1>0, <1>4 DEF DestroyServer
    <3> QED BY <3>1, LeastIn
  <2>2. /\ servers' = [servers EXCEPT ![x] = NoServer] /\ processes' = processes
        /\ connection_map' = Replaced(x, Unused)
        /\ granted' = [p \in PIDs |-> [c \in MapIdx |->
               IF connection_map[p][c] = EntryFor(x) THEN NoSid ELSE granted[p][c]]]
      BY <1>4 DEF DestroyServer
  <2> HIDE DEF x
  <2>3. servers' \in Tables
      BY <1>0, <2>1, <2>2 DEF Tables
  <2>4. connection_map' \in [PIDs -> Maps] /\ granted' \in [PIDs -> Grants]
      BY <1>0, <2>2 DEF Replaced, Unused, Maps, Grants
  <2>5. TypeOK'
      BY <1>0, <2>2, <2>3, <2>4 DEF TypeOK, Maps, Grants, Tables
  <2>6. ASSUME NEW p \in processes
        PROVE  Sound(servers', connection_map'[p], granted'[p])
    <3>1. Sound(servers, connection_map[p], granted[p])
        BY DEF Inv
    <3>2. p \in PIDs /\ connection_map'[p] \in Maps /\ granted'[p] \in Grants
        BY <1>0, <2>4
    <3>3. ASSUME NEW c \in MapIdx, connection_map[p][c] # EntryFor(x)
          PROVE  /\ connection_map'[p][c] = connection_map[p][c]
                 /\ granted'[p][c] = granted[p][c]
                 /\ connection_map[p][c] >= 2 =>
                        servers'[connection_map[p][c] - 2] = servers[connection_map[p][c] - 2]
      <4>1. connection_map[p][c] \in 0 .. MaxServers + 1
          BY <1>0, <3>2 DEF Maps
      <4>2. connection_map[p][c] - 2 # x
          BY <3>3, <4>1, <2>1 DEF EntryFor, ServerIdx
      <4>3. connection_map[p][c] >= 2 => connection_map[p][c] - 2 \in ServerIdx
          BY <4>1 DEF ServerIdx
      <4> QED BY <1>0, <2>2, <3>2, <3>3, <4>2, <4>3 DEF Replaced, Tables
    <3>4. ASSUME NEW c \in MapIdx, connection_map[p][c] = EntryFor(x)
          PROVE  connection_map'[p][c] = Unused /\ granted'[p][c] = NoSid
        BY <2>2, <3>2, <3>4 DEF Replaced
    <3> QED BY <1>0, <2>3, <3>1, <3>2, <3>3, <3>4, FewerSound
  <2> QED BY <2>2, <2>5, <2>6 DEF Inv
<1>5. ASSUME NEW pid \in PIDs, NEW c \in MapIdx, Disconnect(pid, c)
      PROVE  Inv'
  <2>1. /\ connection_map' = [connection_map EXCEPT ![pid][c] = Unused]
        /\ granted' = [granted EXCEPT ![pid][c] = NoSid]
        /\ processes' = processes /\ servers' = servers
      BY <1>5 DEF Disconnect
  <2>2. /\ connection_map' \in [PIDs -> Maps] /\ granted' \in [PIDs -> Grants]
      BY <1>0, <2>1 DEF Maps, Grants, Unused
  <2>3. TypeOK'
      BY <1>0, <2>1, <2>2 DEF TypeOK, Maps, Grants, Tables
  <2>4. ASSUME NEW p \in processes
        PROVE  Sound(servers, connection_map'[p], granted'[p])
    <3>1. Sound(servers, connection_map[p], granted[p])
        BY DEF Inv
    <3>2. p \in PIDs /\ connection_map'[p] \in Maps /\ granted'[p] \in Grants
        BY <1>0, <2>2
    <3>3. \A d \in MapIdx :
              \/ connection_map'[p][d] = connection_map[p][d] /\ granted'[p][d] = granted[p][d]
              \/ connection_map'[p][d] = Unused /\ granted'[p][d] = NoSid
        BY <1>0, <2>1, <3>2 DEF Maps, Grants
    <3> QED BY <1>0, <3>1, <3>2, <3>3, FewerSound
  <2> QED BY <2>1, <2>3, <2>4 DEF Inv
<1>6. ASSUME NEW pid \in PIDs, TerminateProcess(pid)
      PROVE  Inv'
  <2>1. /\ processes' = processes \ {pid}
        /\ servers' = [x \in ServerIdx |->
               IF servers[x] # NoServer /\ servers[x].pid = pid THEN NoServer ELSE servers[x]]
        /\ connection_map' = [p \in PIDs |->
               IF p = pid THEN EmptyMap
               ELSE [c \in MapIdx |-> Buried(pid, connection_map[p][c])]]
        /\ granted' = [granted EXCEPT ![pid] = NothingGranted]
      BY <1>6 DEF TerminateProcess
  <2>2. servers' \in Tables
      BY <1>0, <2>1 DEF Tables
  <2>3. EmptyMap \in Maps /\ NothingGranted \in Grants
      BY EmptySound DEF Sound
  <2>4. \A p \in PIDs : [c \in MapIdx |-> Buried(pid, connection_map[p][c])] \in Maps
      BY <1>0 DEF Buried, Tombstone, Maps
  <2>5. connection_map' \in [PIDs -> Maps] /\ granted' \in [PIDs -> Grants]
      BY <1>0, <2>1, <2>3, <2>4
  <2>6. TypeOK'
      BY <1>0, <2>1, <2>2, <2>5 DEF TypeOK, Maps, Grants, Tables
  <2>7. ASSUME NEW p \in processes \ {pid}
        PROVE  Sound(servers', connection_map'[p], granted'[p])
    <3>1. Sound(servers, connection_map[p], granted[p])
        BY DEF Inv
    <3>2. p \in PIDs /\ connection_map'[p] \in Maps /\ granted'[p] \in Grants
        BY <1>0, <2>5
    <3>3. granted'[p] = granted[p]
          /\ connection_map'[p] = [c \in MapIdx |-> Buried(pid, connection_map[p][c])]
        BY <1>0, <2>1, <3>2
    <3>4. ASSUME NEW c \in MapIdx, connection_map'[p][c] # Tombstone
          PROVE  /\ connection_map'[p][c] = connection_map[p][c]
                 /\ connection_map[p][c] >= 2 =>
                        servers'[connection_map[p][c] - 2] = servers[connection_map[p][c] - 2]
      <4>1. connection_map[p][c] \in 0 .. MaxServers + 1
          BY <1>0, <3>2 DEF Maps
      <4>2. connection_map[p][c] >= 2 => connection_map[p][c] - 2 \in ServerIdx
          BY <4>1 DEF ServerIdx
      <4> QED BY <2>1, <3>3, <3>4, <4>2 DEF Buried
    <3> QED BY <1>0, <2>2, <3>1, <3>2, <3>3, <3>4, FewerSound
  <2> QED BY <2>1, <2>6, <2>7 DEF Inv
<1>7. CASE UNCHANGED vars
    BY <1>7 DEF vars, Inv, TypeOK
<1> QED BY <1>1, <1>2, <1>3, <1>4, <1>5, <1>6, <1>7 DEF Next

\* A connection map in which no tombstone has become a connection.
Respects(map, map2) ==
    \A c \in MapIdx : map[c] = Tombstone => map2[c] \in {Tombstone, Unused}

\* connect_to_server only ever writes an unused entry.
LEMMA ConnectRespects ==
    ASSUME NEW table, NEW map \in Maps, NEW sid
    PROVE  Respects(map, connect_to_server(table, map, sid))
<1> DEFINE c == ConnectedCid(table, map, sid)
           F == FreeCids(map)
<1>1. CASE c = -1 \/ Existing(table, map, sid) # {}
    BY <1>1 DEF Respects, connect_to_server
<1>2. CASE c # -1 /\ Existing(table, map, sid) = {}
  <2>1. F # {} /\ c = Least(F)
      BY <1>2 DEF ConnectedCid
  <2>2. F \subseteq Nat
      BY ConnectionsAssumption DEF FreeCids, MapIdx
  <2>3. c \in MapIdx /\ map[c] = Unused
      BY <2>1, <2>2, LeastIn DEF FreeCids
  <2>4. connect_to_server(table, map, sid) =
            [map EXCEPT ![c] = EntryFor(Least(Providers(table, sid)))]
      BY <1>2 DEF connect_to_server
  <2> HIDE DEF c, F
  <2> QED BY <2>3, <2>4 DEF Respects, Maps, Tombstone, Unused
<1> QED BY <1>1, <1>2

\* No operation turns a tombstone of a process that stays alive into a connection.
LEMMA TombstonesStep ==
    ASSUME TypeOK, [Next]_vars,
           NEW p \in processes \cap processes'
    PROVE  Respects(connection_map[p], connection_map'[p])
<1> USE ConnectionsAssumption
<1>0. /\ p \in PIDs /\ processes \subseteq PIDs
      /\ connection_map \in [PIDs -> Maps] /\ connection_map[p] \in Maps
    BY DEF TypeOK, Maps
<1>1. ASSUME NEW table, NEW pid \in processes, NEW sid, Connects(table, pid, sid)
      PROVE  Respects(connection_map[p], connection_map'[p])
  <2> DEFINE map2 == connect_to_server(table, connection_map[pid], sid)
  <2>1. connection_map' = [connection_map EXCEPT ![pid] = map2]
      BY <1>1 DEF Connects
  <2>2. pid = p => Respects(connection_map[p], map2)
      BY <1>0, ConnectRespects
  <2> HIDE DEF map2
  <2>3. CASE pid = p
      BY <1>0, <2>1, <2>2, <2>3
  <2>4. CASE pid # p
      BY <1>0, <2>1, <2>4 DEF Respects
  <2> QED BY <2>3, <2>4
<1>2. CASE CreateProcess
  <2>1. PICK q : connection_map' = [connection_map EXCEPT ![q] = EmptyMap]
      BY <1>2 DEF CreateProcess
  <2>2. \A c \in MapIdx : EmptyMap[c] = Unused
      BY DEF EmptyMap
  <2> QED BY <1>0, <2>1, <2>2 DEF Respects
<1>3. CASE \E pid \in PIDs, sid \in SIDs : CreateServer(pid, sid)
    BY <1>1, <1>3 DEF CreateServer
<1>4. CASE \E pid \in PIDs, sid \in SIDs : Connect(pid, sid)
    BY <1>1, <1>4 DEF Connect
<1>5. CASE \E pid \in PIDs, sid \in SIDs : DestroyServer(pid, sid)
  <2>1. PICK x : connection_map' = Replaced(x, Unused)
      BY <1>5 DEF DestroyServer
  <2> QED BY <1>0, <2>1 DEF Replaced, Respects
<1>6. CASE \E pid \in PIDs, c \in MapIdx : Disconnect(pid, c)
    BY <1>0, <1>6 DEF Disconnect, Respects, Maps
<1>7. CASE \E pid \in PIDs : TerminateProcess(pid)
  <2>1. PICK pid : connection_map' = [q \in PIDs |->
            IF q = pid THEN EmptyMap
            ELSE [c \in MapIdx |-> Buried(pid, connection_map[q][c])]]
      BY <1>7 DEF TerminateProcess
  <2>2. \A c \in MapIdx : EmptyMap[c] = Unused
      BY DEF EmptyMap
  <2>3. Buried(pid, Tombstone) = Tombstone
      BY DEF Buried, Tombstone
  <2> QED BY <1>0, <2>1, <2>2, <2>3 DEF Respects
<1>8. CASE UNCHANGED vars
    BY <1>8 DEF vars, Respects
<1> QED BY <1>2, <1>3, <1>4, <1>5, <1>6, <1>7, <1>8 DEF Next

-----------------------------------------------------------------------------
(* Theorems *)

\* The invariant holds in every reachable state.
LEMMA InvariantHolds == Spec => []Inv
    BY InitInv, NextInv, PTL DEF Spec

\* Table, maps and history are well formed, whatever their sizes.
THEOREM ConnectionsTyped == Spec => []TypeOK
    BY InvariantHolds, InvImplies, PTL

\* No connection of a live process dangles, for tables of every size.
THEOREM NoDanglingConnection == Spec => []ConnectionsResolve
    BY InvariantHolds, InvImplies, PTL

\* A CID never leads to a server other than the one it was handed out for.
THEOREM NoMisdelivery == Spec => []CidKeepsItsServer
    BY InvariantHolds, InvImplies, PTL

\* A CID whose server died with its process is not given to another server until
\* its holder disconnects.
THEOREM TombstonesKept == Spec => TombstonesStay
<1>1. TypeOK /\ [Next]_vars =>
          [\A p \in processes \cap processes', c \in MapIdx :
              connection_map[p][c] = Tombstone =>
                  connection_map'[p][c] \in {Tombstone, Unused}]_vars
    BY TombstonesStep DEF Respects
<1> QED BY <1>1, ConnectionsTyped, PTL DEF Spec, TombstonesStay

\* A process has at most one connection to an address.
THEOREM ConnectionsShared == Spec => []OneCidPerAddress
    BY InvariantHolds, InvImplies, PTL
=============================================================================
