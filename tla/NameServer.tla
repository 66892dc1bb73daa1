----------------------------- MODULE NameServer -----------------------------
(***************************************************************************)
(* services/xous-names: the table from names to servers, the broker of         *)
(* connections, and the calls of api/xous-api-names that talk to it.           *)
(*                                                                         *)
(* A connection is made by the kernel (ConnectForProcess), which has the name  *)
(* server try again for as long as no server with that SID exists.  A handler  *)
(* is therefore two steps where it connects: up to the system call, and from   *)
(* its return.  Between them the name server handles nothing.                  *)
(*                                                                         *)
(* create_server_id yields 128 random bits, for SIDs and for disconnection     *)
(* tokens: here, the next number.                                            *)
(***************************************************************************)
EXTENDS Integers, Sequences, FiniteSets, SequencesExt

CONSTANTS
    Names,          \* server names
    Registrants,    \* processes that run a server each
    NameOf,         \* the name each of them registers
    LimitOf,        \* and its conn_limit, or Unlimited
    Clients,        \* threads that connect
    Cramped,        \* those whose process may have no free connection
    Mortal,         \* registrants and clients whose process may terminate
    QueueLen,       \* messages the server's queue holds
    MaxRegistrations,   \* bound: calls of register_name
    MaxCalls,       \* bound: calls of the clients
    Unlimited, None

\* A registration takes two of them, a disconnection one.
Ids == Nat

Connection == [sid : Ids, current_conns : Nat, max_conns : Nat \cup {Unlimited}, token : Ids]

ConnectOps == {"BlockingConnect", "TryConnect", "Lookup"}

\* A connect_for_process.
Call == [op : ConnectOps, client : Clients, name : Names, sid : Ids, token : Ids]

ASSUME NameServerAssumption ==
    /\ NameOf \in [Registrants -> Names]
    /\ LimitOf \in [Registrants -> Nat \cup {Unlimited}]
    /\ Cramped \subseteq Clients
    /\ Mortal \subseteq Clients \cup Registrants
    /\ Clients \cap Registrants = {}
    /\ Unlimited \notin Nat
    /\ None \notin Names \cup Connection \cup Call
    /\ QueueLen \in Nat \ {0} /\ MaxRegistrations \in Nat /\ MaxCalls \in Nat

\* A waiting client holds its buffer lent to the name server.
Waiter == [client : Clients, name : Names]

VARIABLES
    inbox,                  \* messages queued for the name server, oldest first
    name_table,             \* Connection of each registered name, or None
    waiting_connections,    \* clients blocked until their server registers
    connecting,             \* the connect_for_process under way, or None
    registered,             \* name whose waiters are being connected, or None
    panicked,               \* an expect or a panic! of the name server was reached
    servers,                \* kernel: SIDs of the servers that exist
    rstage,                 \* where each registrant is
    sid_of,                 \* the SID it was given
    cstage,                 \* where each client is
    grants,                 \* the connections given and not given back
    tokens,                 \* the same connections, and the ones given back since
    next_id,                \* the number taken last
    calls, registrations    \* bounds

nameVars == <<name_table, waiting_connections, connecting, registered, panicked>>
clientVars == <<rstage, sid_of, cstage, grants, tokens>>
bounds == <<calls, registrations>>
vars == <<inbox, nameVars, servers, clientVars, next_id, bounds>>

Grant == [client : Clients, name : Names, sid : Ids, token : Ids]

\* A client may be given the same connection again: its copies are numbered.
Copy == [grant : Grant, copy : Nat]

Message ==
    [op : ConnectOps, client : Clients, name : Names]
        \cup [op : {"Disconnect"}, client : Clients, grant : Grant]
        \cup [op : {"Register", "Unregister"}, from : Registrants]

TypeOK ==
    /\ inbox \in Seq(Message)
    /\ name_table \in [Names -> Connection \cup {None}]
    /\ waiting_connections \in Seq(Waiter)
    /\ connecting \in Call \cup {None}
    /\ registered \in Names \cup {None}
    /\ panicked \in BOOLEAN
    /\ servers \in SUBSET Ids
    /\ rstage \in [Registrants -> {"off", "registering", "named", "serving",
                                   "unregistering", "closing", "dead"}]
    /\ sid_of \in [Registrants -> Ids]
    /\ cstage \in [Clients -> {"idle", "calling", "dead"}]
    /\ tokens \in SUBSET Grant
    /\ grants \in SUBSET Copy
    /\ IsFiniteSet(grants)
    /\ next_id \in Ids
    /\ calls \in 0 .. MaxCalls
    /\ registrations \in 0 .. MaxRegistrations

Init ==
    /\ inbox = <<>>
    /\ name_table = [n \in Names |-> None]
    /\ waiting_connections = <<>>
    /\ connecting = None
    /\ registered = None
    /\ panicked = FALSE
    /\ servers = {}
    /\ rstage = [r \in Registrants |-> "off"]
    /\ sid_of = [r \in Registrants |-> 0]
    /\ cstage = [c \in Clients |-> "idle"]
    /\ grants = {}
    /\ tokens = {}
    /\ next_id = 0
    /\ calls = 0
    /\ registrations = 0

-----------------------------------------------------------------------------
(* The callers: api/xous-api-names.                                          *)

Send(m) ==
    /\ Len(inbox) < QueueLen
    /\ inbox' = Append(inbox, m)

register_name(r) ==
    /\ rstage[r] = "off"
    /\ registrations < MaxRegistrations
    /\ registrations' = registrations + 1
    /\ rstage' = [rstage EXCEPT ![r] = "registering"]
    /\ Send([op |-> "Register", from |-> r])
    /\ UNCHANGED <<nameVars, servers, sid_of, cstage, grants, tokens, next_id, calls>>

\* The second half of register_name: create_server_with_sid.
CreateServer(r) ==
    /\ rstage[r] = "named"
    /\ rstage' = [rstage EXCEPT ![r] = "serving"]
    /\ servers' = servers \cup {sid_of[r]}
    /\ UNCHANGED <<inbox, nameVars, sid_of, cstage, grants, tokens, next_id, bounds>>

\* A server ends with unregister_server and then destroy_server.
unregister_server(r) ==
    /\ rstage[r] = "serving"
    /\ rstage' = [rstage EXCEPT ![r] = "unregistering"]
    /\ Send([op |-> "Unregister", from |-> r])
    /\ UNCHANGED <<nameVars, servers, sid_of, cstage, grants, tokens, next_id, bounds>>

DestroyServer(r) ==
    /\ rstage[r] = "closing"
    /\ rstage' = [rstage EXCEPT ![r] = "off"]
    /\ servers' = servers \ {sid_of[r]}
    /\ UNCHANGED <<inbox, nameVars, sid_of, cstage, grants, tokens, next_id, bounds>>

\* request_connection_blocking, request_connection(_with_token), and the
\* TryConnect of the standard library.
request_connection(c, op, n) ==
    /\ cstage[c] = "idle"
    /\ calls < MaxCalls
    /\ calls' = calls + 1
    /\ cstage' = [cstage EXCEPT ![c] = "calling"]
    /\ Send([op |-> op, client |-> c, name |-> n])
    /\ UNCHANGED <<nameVars, servers, rstage, sid_of, grants, tokens, next_id, registrations>>

disconnect_with_token(c, g) ==
    /\ cstage[c] = "idle"
    /\ g.client = c
    /\ calls < MaxCalls
    /\ calls' = calls + 1
    /\ cstage' = [cstage EXCEPT ![c] = "calling"]
    /\ Send([op |-> "Disconnect", client |-> c, grant |-> g])
    /\ UNCHANGED <<nameVars, servers, rstage, sid_of, grants, tokens, next_id, registrations>>

\* A process ends.  The kernel removes its server; a message of it that is
\* queued is still delivered.
TerminateRegistrant(r) ==
    /\ r \in Mortal
    /\ rstage[r] # "dead"
    /\ rstage' = [rstage EXCEPT ![r] = "dead"]
    /\ servers' = IF rstage[r] \in {"serving", "unregistering", "closing"}
                    THEN servers \ {sid_of[r]} ELSE servers
    /\ UNCHANGED <<inbox, nameVars, sid_of, cstage, grants, tokens, next_id, bounds>>

TerminateClient(c) ==
    /\ c \in Mortal
    /\ cstage[c] # "dead"
    /\ cstage' = [cstage EXCEPT ![c] = "dead"]
    /\ UNCHANGED <<inbox, nameVars, servers, rstage, sid_of, grants, tokens, next_id, bounds>>

-----------------------------------------------------------------------------
(* The table: CheckedHashMap.                                                *)

Registered(n) == name_table[n] # None

\* CheckedHashMap::connect finds room.
HasRoom(e) == e.max_conns # Unlimited => e.current_conns < e.max_conns

Connectable(n) == Registered(n) /\ HasRoom(name_table[n])

Counted(n) == [name_table EXCEPT ![n].current_conns = @ + 1]

\* Variant: a connection that was not made stays counted.
Uncounted_Kept(sid) == name_table

\* CheckedHashMap::disconnect, by SID.
Uncounted(sid) ==
    [n \in Names |->
        IF Registered(n) /\ name_table[n].sid = sid /\ name_table[n].current_conns > 0
          THEN [name_table[n] EXCEPT !.current_conns = @ - 1]
          ELSE name_table[n]]

-----------------------------------------------------------------------------
(* The main loop.                                                            *)

\* The message is dropped, and its buffer goes back to the caller.  If the caller
\* has terminated the kernel refuses it, and Envelope::drop panics.
Answer(c) ==
    /\ cstage' = [cstage EXCEPT ![c] = IF @ = "dead" THEN "dead" ELSE "idle"]
    /\ panicked' = (cstage[c] = "dead")

AnswerRegistrant(r, to) ==
    /\ rstage' = [rstage EXCEPT ![r] = IF @ = "dead" THEN "dead" ELSE to]
    /\ panicked' = (rstage[r] = "dead")

Idle == connecting = None /\ registered = None /\ ~ panicked

Receive(ops) ==
    /\ Idle
    /\ inbox # <<>>
    /\ Head(inbox).op \in ops
    /\ inbox' = Tail(inbox)

Msg == Head(inbox)

\* The name is counted as connected, then the kernel is asked to connect.
StartConnect(op, c, n) ==
    /\ name_table' = Counted(n)
    /\ connecting' = [op |-> op, client |-> c, name |-> n,
                      sid |-> name_table[n].sid, token |-> name_table[n].token]

\* Variant: the waiting clients are not looked at.
Register_Forgetful ==
    /\ Receive({"Register"})
    /\ LET r == Msg.from  n == NameOf[r] IN
         /\ ~ Registered(n)
         /\ next_id' = next_id + 2
         /\ name_table' = [name_table EXCEPT ![n] =
                             [sid |-> next_id + 1, current_conns |-> 0,
                              max_conns |-> LimitOf[r], token |-> next_id + 2]]
         /\ sid_of' = [sid_of EXCEPT ![r] = next_id + 1]
         /\ AnswerRegistrant(r, "named")
    /\ UNCHANGED <<registered, waiting_connections, connecting, servers, cstage, grants,
                   tokens, bounds>>

\* Register of a new name: the caller gets a SID and its buffer, and only then
\* the clients waiting for the name are connected.
Register ==
    /\ Receive({"Register"})
    /\ LET r == Msg.from  n == NameOf[r] IN
         /\ ~ Registered(n)
         /\ next_id' = next_id + 2
         /\ name_table' = [name_table EXCEPT ![n] =
                             [sid |-> next_id + 1, current_conns |-> 0,
                              max_conns |-> LimitOf[r], token |-> next_id + 2]]
         /\ sid_of' = [sid_of EXCEPT ![r] = next_id + 1]
         /\ AnswerRegistrant(r, "named")
         /\ registered' = n
    /\ UNCHANGED <<waiting_connections, connecting, servers, cstage, grants, tokens, bounds>>

RegisterTaken ==
    /\ Receive({"Register"})
    /\ Registered(NameOf[Msg.from])
    /\ AnswerRegistrant(Msg.from, "off")
    /\ UNCHANGED <<name_table, waiting_connections, connecting, registered, servers, sid_of,
                   cstage, grants, tokens, next_id, bounds>>

WaitersFor(n) == {i \in DOMAIN waiting_connections : waiting_connections[i].name = n}

\* The loop runs from the youngest waiter to the oldest.
NextWaiter(n) == CHOOSE i \in WaitersFor(n) : \A j \in WaitersFor(n) : j <= i

ConnectWaiter ==
    /\ registered # None /\ connecting = None /\ ~ panicked
    /\ WaitersFor(registered) # {}
    /\ Connectable(registered)
    /\ LET i == NextWaiter(registered) IN
         /\ waiting_connections' = RemoveAt(waiting_connections, i)
         /\ StartConnect("BlockingConnect", waiting_connections[i].client, registered)
    /\ UNCHANGED <<inbox, registered, panicked, servers, clientVars, next_id, bounds>>

\* "resulted in `Wait` even though it ought to exist": no connection is left.
WaiterPanic ==
    /\ registered # None /\ connecting = None /\ ~ panicked
    /\ WaitersFor(registered) # {}
    /\ ~ Connectable(registered)
    /\ panicked' = TRUE
    /\ UNCHANGED <<inbox, name_table, waiting_connections, connecting, registered, servers,
                   clientVars, next_id, bounds>>

\* Variant: the loop may end before its last waiter.
RegisterDone_First ==
    /\ registered # None /\ connecting = None /\ ~ panicked
    /\ registered' = None
    /\ UNCHANGED <<inbox, name_table, waiting_connections, connecting, panicked, servers,
                   clientVars, next_id, bounds>>

RegisterDone ==
    /\ registered # None /\ connecting = None /\ ~ panicked
    /\ WaitersFor(registered) = {}
    /\ registered' = None
    /\ UNCHANGED <<inbox, name_table, waiting_connections, connecting, panicked, servers,
                   clientVars, next_id, bounds>>

\* CheckedHashMap::remove, by SID.  Whether it was found or not the caller goes on; if it
\* has terminated since the message was delivered, the unwrap of the answer panics.
Unregister ==
    /\ Receive({"Unregister"})
    /\ name_table' = [n \in Names |->
                        IF Registered(n) /\ name_table[n].sid = sid_of[Msg.from]
                          THEN None ELSE name_table[n]]
    /\ AnswerRegistrant(Msg.from, "closing")
    /\ UNCHANGED <<waiting_connections, connecting, registered, servers, sid_of,
                   cstage, grants, tokens, next_id, bounds>>

\* The call of a process that terminated while it was queued is no BlockingScalar any
\* more: the macro only logs it, and the name stays taken.
UnregisterIgnored ==
    /\ Receive({"Unregister"})
    /\ rstage[Msg.from] = "dead"
    /\ UNCHANGED <<nameVars, servers, clientVars, next_id, bounds>>

\* BlockingConnect, TryConnect, Lookup: the table has the name and has room.
Connect ==
    /\ Receive(ConnectOps)
    /\ Connectable(Msg.name)
    /\ StartConnect(Msg.op, Msg.client, Msg.name)
    /\ UNCHANGED <<waiting_connections, registered, panicked, servers, clientVars, next_id,
                   bounds>>

\* No such name, or no connection left: the client waits.
ConnectWaits ==
    /\ Receive({"BlockingConnect"})
    /\ ~ Connectable(Msg.name)
    /\ waiting_connections' =
           Append(waiting_connections, [client |-> Msg.client, name |-> Msg.name])
    /\ UNCHANGED <<name_table, connecting, registered, panicked, servers, clientVars,
                   next_id, bounds>>

\* TryConnect and Lookup are refused (ServerNotFound, AuthenticateRequest).
ConnectRefused ==
    /\ Receive({"TryConnect", "Lookup"})
    /\ ~ Connectable(Msg.name)
    /\ Answer(Msg.client)
    /\ UNCHANGED <<name_table, waiting_connections, connecting, registered, servers, rstage,
                   sid_of, grants, tokens, next_id, bounds>>

\* The first number that no copy of g has.
NextCopy(g) ==
    CHOOSE k \in 1 .. Cardinality(grants) + 1 : [grant |-> g, copy |-> k] \notin grants

\* The copy that is given back first.
LastCopy(g) ==
    {x \in grants : x.grant = g /\ \A y \in grants : y.grant = g => y.copy <= x.copy}

\* The kernel finds the process, a free connection (or one to that server) and the server.
ConnectSucceeds ==
    /\ connecting # None /\ ~ panicked
    /\ connecting.sid \in servers
    /\ cstage[connecting.client] # "dead"
    /\ LET g == [client |-> connecting.client, name |-> connecting.name,
                 sid |-> connecting.sid, token |-> connecting.token]
       IN  /\ grants' = grants \cup {[grant |-> g, copy |-> NextCopy(g)]}
           /\ tokens' = tokens \cup {g}
    /\ Answer(connecting.client)
    /\ connecting' = None
    /\ UNCHANGED <<inbox, name_table, waiting_connections, registered, servers, rstage,
                   sid_of, next_id, bounds>>

\* ProcessNotFound, or OutOfMemory if the process has no free connection just now.
\* (ServerNotFound is tried again.)
KernelRefuses == cstage[connecting.client] = "dead" \/ connecting.client \in Cramped

ConnectFails ==
    /\ connecting # None /\ ~ panicked
    /\ KernelRefuses
    /\ connecting.op # "Lookup"
    /\ name_table' = Uncounted(connecting.sid)
    /\ Answer(connecting.client)
    /\ connecting' = None
    /\ UNCHANGED <<inbox, waiting_connections, registered, servers, rstage, sid_of, grants,
                   tokens, next_id, bounds>>

\* Lookup: expect("can't broker connection").
LookupPanic ==
    /\ connecting # None /\ ~ panicked
    /\ KernelRefuses
    /\ connecting.op = "Lookup"
    /\ panicked' = TRUE
    /\ UNCHANGED <<inbox, name_table, waiting_connections, connecting, registered, servers,
                   clientVars, next_id, bounds>>

TokenFits(g) == Registered(g.name) /\ name_table[g.name].token = g.token

\* Variant: the token can be used again.
Disconnect_SameToken ==
    /\ Receive({"Disconnect"})
    /\ TokenFits(Msg.grant)
    /\ name_table' = [name_table EXCEPT ![Msg.grant.name].current_conns = 0]
    /\ grants' = grants \ LastCopy(Msg.grant)
    /\ Answer(Msg.client)
    /\ UNCHANGED <<waiting_connections, connecting, registered, servers, rstage, next_id,
                   sid_of, tokens, bounds>>

\* CheckedHashMap::disconnect_with_token: everybody's count goes, with a new token.  The
\* name server does not touch the client's CID: that the client gives it up together with
\* the token (xous::disconnect) is assumed of the client, and nothing enforces it.
Disconnect ==
    /\ Receive({"Disconnect"})
    /\ TokenFits(Msg.grant)
    /\ next_id' = next_id + 1
    /\ name_table' = [name_table EXCEPT ![Msg.grant.name].current_conns = 0,
                                        ![Msg.grant.name].token = next_id + 1]
    /\ grants' = grants \ LastCopy(Msg.grant)
    /\ Answer(Msg.client)
    /\ UNCHANGED <<waiting_connections, connecting, registered, servers, rstage, sid_of,
                   tokens, bounds>>

DisconnectRefused ==
    /\ Receive({"Disconnect"})
    /\ ~ TokenFits(Msg.grant)
    /\ Answer(Msg.client)
    /\ UNCHANGED <<name_table, waiting_connections, connecting, registered, servers, rstage,
                   sid_of, grants, tokens, next_id, bounds>>

-----------------------------------------------------------------------------

Serve ==
    \/ Register \/ RegisterTaken \/ ConnectWaiter \/ WaiterPanic \/ RegisterDone
    \/ Unregister \/ UnregisterIgnored
    \/ Connect \/ ConnectWaits \/ ConnectRefused
    \/ ConnectSucceeds \/ ConnectFails \/ LookupPanic
    \/ Disconnect \/ DisconnectRefused

Next ==
    \/ Serve
    \/ \E r \in Registrants :
         register_name(r) \/ CreateServer(r) \/ unregister_server(r) \/ DestroyServer(r)
           \/ TerminateRegistrant(r)
    \/ \E c \in Clients :
         \/ \E op \in ConnectOps, n \in Names : request_connection(c, op, n)
         \/ \E g \in tokens : disconnect_with_token(c, g)
         \/ TerminateClient(c)

Spec == Init /\ [][Next]_vars

\* The name server's loop runs, and a process that has just been given a SID
\* goes on to create the server: nothing stands between the two.
Fairness == WF_vars(Serve) /\ \A r \in Registrants : WF_vars(CreateServer(r))

FairSpec == Spec /\ Fairness

-----------------------------------------------------------------------------
(* Properties.                                                               *)

\* The connections to the server e in use, and those of them under its present token.
GivenBy(e) == {x \in grants : x.grant.sid = e.sid}

Current(e) == {x \in GivenBy(e) : x.grant.token = e.token}

Pending(sid) == IF connecting # None /\ connecting.sid = sid THEN 1 ELSE 0

\* current_conns counts the connections given out under the present token and
\* the one being made, through failed connects, disconnects and registrations
\* under the same name; so it never passes max_conns.
CountsAgree ==
    /\ TypeOK
    /\ \A n \in Names : Registered(n) =>
          LET e == name_table[n]
          IN  /\ e.current_conns = Cardinality(Current(e)) + Pending(e.sid)
              /\ e.max_conns # Unlimited => e.current_conns <= e.max_conns

\* A server that allows one connection has one client at a time, if clients give up their
\* CID when they disconnect: a token that has been used, or that belongs to an earlier
\* server of the name, frees nothing.
OneClient ==
    \A n \in Names : Registered(n) /\ name_table[n].max_conns = 1 =>
        Cardinality(GivenBy(name_table[n])) <= 1

\* A client in waiting_connections waits for a server that is not there, or
\* whose connections are limited: no registration passes it by.
NobodyPassedOver ==
    \A i \in DOMAIN waiting_connections :
        LET n == waiting_connections[i].name
        IN  Registered(n) /\ registered # n => name_table[n].max_conns # Unlimited

Stopped(n) ==
    \/ panicked
    \/ ~ Registered(n)
    \/ \E r \in Registrants : rstage[r] = "dead"

Wants(c, n) ==
    \/ \E i \in DOMAIN inbox : /\ inbox[i].op \in ConnectOps
                               /\ inbox[i].client = c /\ inbox[i].name = n
    \/ \E i \in DOMAIN waiting_connections :
           waiting_connections[i].client = c /\ waiting_connections[i].name = n
    \/ connecting # None /\ connecting.client = c /\ connecting.name = n

\* A client that asks for a registered server without a limit gets an answer,
\* although the name is registered before its server exists.
ConnectsAnswered ==
    \A c \in Clients, n \in Names :
        (Wants(c, n) /\ Registered(n) /\ name_table[n].max_conns = Unlimited)
            ~> (~ Wants(c, n) \/ Stopped(n))

\* "message connection attempt resulted in `Wait` even though it ought to exist".
WaitersFit == registered # None /\ connecting = None /\ WaitersFor(registered) # {}
                  => Connectable(registered)
=============================================================================
