-------------------------- MODULE NameServer_proofs --------------------------
(***************************************************************************)
(* Proofs about the name server: the count of a name's connections and the    *)
(* clients that wait for it, for any names, clients and limits.              *)
(***************************************************************************)
EXTENDS NameServer, FiniteSetTheorems, FunctionTheorems, SequenceTheorems, WellFoundedInduction,
        TLAPS

-----------------------------------------------------------------------------
(* The inductive invariant *)

\* No number is in use that create_server_id has yet to give.
IdsOK ==
    /\ \A n \in Names : Registered(n) =>
          name_table[n].sid <= next_id /\ name_table[n].token <= next_id
    /\ \A x \in grants : x.grant.sid <= next_id /\ x.grant.token <= next_id
    /\ \A g \in tokens : g.token <= next_id

\* A SID is that of one name.
SidsOK ==
    \A m, n \in Names :
        Registered(m) /\ Registered(n) /\ name_table[m].sid = name_table[n].sid => m = n

\* The table does not change under a connect_for_process.
CallOK ==
    connecting # None =>
        /\ Registered(connecting.name)
        /\ name_table[connecting.name].sid = connecting.sid
        /\ name_table[connecting.name].token = connecting.token

\* A token that fits is that of a connection to the present server, in use.
TokensOK ==
    \A g \in tokens : TokenFits(g) =>
        name_table[g.name].sid = g.sid /\ \E x \in grants : x.grant = g

\* A client gives back what it was given.
InboxOK == \A i \in DOMAIN inbox : inbox[i].op = "Disconnect" => inbox[i].grant \in tokens

\* A connection that is the only one a server allows has the present token.
SoloOK ==
    \A n \in Names : Registered(n) /\ name_table[n].max_conns = 1 =>
        \A x \in grants : x.grant.sid = name_table[n].sid =>
            x.grant.token = name_table[n].token

\* What CountsAgree says of a name.
EntryOK(n) ==
    /\ name_table[n].current_conns =
           Cardinality(Current(name_table[n])) + Pending(name_table[n].sid)
    /\ name_table[n].max_conns # Unlimited => name_table[n].current_conns <= name_table[n].max_conns

EntriesOK == \A n \in Names : Registered(n) => EntryOK(n)

TableOK == EntriesOK /\ NobodyPassedOver /\ IdsOK /\ SidsOK /\ CallOK /\ TokensOK /\ SoloOK

IInv == TypeOK /\ InboxOK /\ TableOK
-----------------------------------------------------------------------------
(* The queue *)

\* What the message at the head of the inbox is, by its opcode.
LEMMA HeadOK ==
    ASSUME TypeOK, inbox # <<>>
    PROVE  /\ Tail(inbox) \in Seq(Message)
           /\ Msg \in Message
           /\ Msg = inbox[1] /\ 1 \in DOMAIN inbox
           /\ Msg.op \in {"Register", "Unregister"} => Msg.from \in Registrants
           /\ Msg.op \in ConnectOps => Msg.client \in Clients /\ Msg.name \in Names
           /\ Msg.op = "Disconnect" => Msg.client \in Clients /\ Msg.grant \in Grant
<1>1. inbox \in Seq(Message)
  BY DEF TypeOK
<1>2. Tail(inbox) \in Seq(Message) /\ Head(inbox) = inbox[1] /\ 1 \in DOMAIN inbox /\ inbox[1] \in Message
  BY <1>1, HeadTailProperties, LenProperties, ElementOfSeq
<1> QED
  BY <1>2 DEF Msg, Message, ConnectOps

\* A message that is sent comes last.
LEMMA SendOK ==
    ASSUME TypeOK, NEW m \in Message, Send(m)
    PROVE  /\ inbox' \in Seq(Message)
           /\ \A i \in DOMAIN inbox' : inbox'[i] = m \/ (i \in DOMAIN inbox /\ inbox'[i] = inbox[i])
<1>1. inbox \in Seq(Message)
  BY DEF TypeOK
<1> QED
  BY <1>1, AppendProperties, LenProperties DEF Send

\* A message that is received leaves the others in their order.
LEMMA TailOK ==
    ASSUME TypeOK, inbox # <<>>, inbox' = Tail(inbox)
    PROVE  \A i \in DOMAIN inbox' : i + 1 \in DOMAIN inbox /\ inbox'[i] = inbox[i + 1]
<1>1. inbox \in Seq(Message)
  BY DEF TypeOK
<1> QED
  BY <1>1, HeadTailProperties, LenProperties

\* The waiting clients without the ith of them.
LEMMA WaiterRemoved ==
    ASSUME NEW S, NEW s \in Seq(S), NEW i \in DOMAIN s, NEW t, t = RemoveAt(s, i)
    PROVE  /\ t \in Seq(S)
           /\ \A j \in DOMAIN t : \E k \in DOMAIN s : t[j] = s[k]
<1>1. Len(s) \in Nat /\ DOMAIN s = 1 .. Len(s)
  BY LenProperties
<1>2. PICK a : a = SubSeq(s, 1, i - 1)
  OBVIOUS
<1>3. PICK b : b = SubSeq(s, i + 1, Len(s))
  OBVIOUS
<1>4. a \in Seq(S) /\ Len(a) = i - 1 /\ \A j \in 1 .. Len(a) : a[j] = s[j]
  BY <1>1, <1>2, SubSeqProperties
<1>5. b \in Seq(S) /\ Len(b) = Len(s) - i /\ \A j \in 1 .. Len(b) : b[j] = s[i + j]
  BY <1>1, <1>3, SubSeqProperties
<1>6. t = a \o b
  BY <1>2, <1>3 DEF RemoveAt
<1>7. t \in Seq(S) /\ Len(t) = Len(a) + Len(b)
  BY <1>4, <1>5, <1>6, ConcatProperties
<1>8. \A j \in 1 .. Len(a) + Len(b) : t[j] = IF j <= Len(a) THEN a[j] ELSE b[j - Len(a)]
  <2>1. \A j \in 1 .. Len(a) + Len(b) : (a \o b)[j] = IF j <= Len(a) THEN a[j] ELSE b[j - Len(a)]
    BY <1>4, <1>5, ConcatProperties, Zenon
  <2> QED
    BY <2>1, <1>6
<1>9. DOMAIN t = 1 .. Len(s) - 1
  BY <1>1, <1>4, <1>5, <1>7, LenProperties
<1>10. ASSUME NEW j \in DOMAIN t
       PROVE  \E k \in DOMAIN s : t[j] = s[k]
  <2>1. CASE j <= i - 1
    <3>1. j \in DOMAIN s /\ t[j] = s[j]
      BY <2>1, <1>1, <1>4, <1>5, <1>8, <1>9
    <3> QED
      BY <3>1
  <2>2. CASE ~ (j <= i - 1)
    <3>0. j \in 1 .. Len(a) + Len(b) /\ ~ (j <= Len(a)) /\ j - (i - 1) \in 1 .. Len(b)
      BY <2>2, <1>1, <1>4, <1>5, <1>9
    <3>1. t[j] = b[j - Len(a)] /\ Len(a) = i - 1
      BY <3>0, <1>4, <1>8
    <3>2. b[j - (i - 1)] = s[i + (j - (i - 1))]
      BY <3>0, <1>5
    <3>3. j + 1 \in DOMAIN s /\ t[j] = s[j + 1] /\ i + (j - (i - 1)) = j + 1
      BY <3>0, <3>1, <3>2, <1>1, <1>5, <1>9
    <3> QED
      BY <3>3
  <2> QED
    BY <2>1, <2>2
<1> QED
  BY <1>7, <1>10
-----------------------------------------------------------------------------
(* The connections in use *)

\* A copy that is given has a number of its own.
LEMMA NextCopyIsNew ==
    ASSUME IsFiniteSet(grants), NEW g
    PROVE  NextCopy(g) \in Nat /\ [grant |-> g, copy |-> NextCopy(g)] \notin grants
<1> DEFINE N == Cardinality(grants)
<1>1. N \in Nat
  BY FS_CardinalityType
<1>2. IsFiniteSet(1 .. N + 1) /\ Cardinality(1 .. N + 1) = N + 1
  BY <1>1, FS_Interval
<1>3. \E k \in 1 .. N + 1 : [grant |-> g, copy |-> k] \notin grants
  <2> SUFFICES ASSUME \A k \in 1 .. N + 1 : [grant |-> g, copy |-> k] \in grants
               PROVE  FALSE
    OBVIOUS
  <2> DEFINE f == [k \in 1 .. N + 1 |-> [grant |-> g, copy |-> k]]
  <2>1. f \in [1 .. N + 1 -> grants]
    OBVIOUS
  <2>2. Cardinality(grants) < Cardinality(1 .. N + 1)
    BY <1>1, <1>2
  <2>3. PICK x, y \in 1 .. N + 1 : x # y /\ f[x] = f[y]
    <3> HIDE DEF f
    <3> QED
      BY <2>1, <2>2, <1>2, FS_PigeonHole
  <2>4. f[x].copy = x /\ f[y].copy = y
    OBVIOUS
  <2> QED
    BY <2>3, <2>4
<1> QED
  BY <1>1, <1>3 DEF NextCopy

\* So many connections of a server are in use.
LEMMA CurrentFinite ==
    ASSUME TypeOK, NEW e
    PROVE  /\ IsFiniteSet(Current(e)) /\ Cardinality(Current(e)) \in Nat
           /\ IsFiniteSet(GivenBy(e)) /\ Cardinality(GivenBy(e)) \in Nat
<1>1. Current(e) \in SUBSET grants /\ GivenBy(e) \in SUBSET grants /\ IsFiniteSet(grants)
  BY DEF Current, GivenBy, TypeOK
<1>2. IsFiniteSet(Current(e)) /\ IsFiniteSet(GivenBy(e))
  BY <1>1, FS_Subset
<1> QED
  BY <1>2, FS_CardinalityType

\* A set of positions of a sequence that is not empty has a last one.
LEMMA LastPosition ==
    ASSUME NEW n \in Nat, NEW W, W \subseteq 1 .. n, W # {}
    PROVE  \E i \in W : \A j \in W : j <= i
<1>1. PICK T : T = {n - i : i \in W}
  OBVIOUS
<1>2. T \subseteq Nat /\ T # {}
  <2>1. \A i \in W : n - i \in Nat
    OBVIOUS
  <2>2. \A y \in T : \E i \in W : y = n - i
    BY <1>1
  <2>3. PICK i \in W : TRUE
    OBVIOUS
  <2>4. n - i \in T
    BY <1>1, <2>3
  <2> QED
    BY <2>1, <2>2, <2>4
<1>0. IsWellFoundedOn(OpToRel(<, Nat), Nat)
  BY NatLessThanWellFounded
<1>3. PICK x \in T : \A y \in T : ~ (<<y, x>> \in OpToRel(<, Nat))
  BY <1>0, <1>2, WFMin
<1>4. \A y \in T : ~ (y < x)
  BY <1>2, <1>3 DEF OpToRel
<1>5. PICK i \in W : x = n - i
  BY <1>1
<1>6. \A j \in W : n - j \in T /\ j \in Int
  BY <1>1
<1> QED
  BY <1>2, <1>4, <1>5, <1>6
-----------------------------------------------------------------------------
(* Types *)

\* TypeOK without the flag.
Types ==
    /\ inbox \in Seq(Message)
    /\ name_table \in [Names -> Connection \cup {None}]
    /\ waiting_connections \in Seq(Waiter)
    /\ connecting \in Call \cup {None}
    /\ registered \in Names \cup {None}
    /\ servers \in SUBSET Ids
    /\ rstage \in [Registrants -> {"off", "registering", "named", "serving",
                                   "unregistering", "closing", "dead"}]
    /\ sid_of \in [Registrants -> Ids]
    /\ cstage \in [Clients -> {"idle", "calling", "dead"}]
    /\ tokens \in SUBSET Grant
    /\ grants \in SUBSET Copy
    /\ IsFiniteSet(grants)
    /\ next_id \in Ids
    /\ calls \in 0 .. MaxCalls
    /\ registrations \in 0 .. MaxRegistrations

LEMMA TypesOK == TypeOK => Types
BY DEF TypeOK, Types

\* The flag is a Boolean after each step.
LEMMA FlagStep ==
    ASSUME TypeOK, Next
    PROVE  panicked' \in BOOLEAN
<1>1. ASSUME panicked' = panicked PROVE panicked' \in BOOLEAN
  BY <1>1, Zenon DEF TypeOK
<1>2. ASSUME NEW c, Answer(c) PROVE panicked' \in BOOLEAN
  BY <1>2, Zenon DEF Answer
<1>3. ASSUME NEW r, NEW to, AnswerRegistrant(r, to) PROVE panicked' \in BOOLEAN
  BY <1>3, Zenon DEF AnswerRegistrant
<1>4. ASSUME panicked' = TRUE PROVE panicked' \in BOOLEAN
  BY <1>4, Zenon
<1>5. CASE Serve
  <2>1. CASE Register
    BY <2>1, <1>3, Zenon DEF Register
  <2>2. CASE RegisterTaken
    BY <2>2, <1>3, Zenon DEF RegisterTaken
  <2>3. CASE ConnectRefused
    BY <2>3, <1>2, Zenon DEF ConnectRefused
  <2>4. CASE ConnectSucceeds
    BY <2>4, <1>2, Zenon DEF ConnectSucceeds
  <2>5. CASE ConnectFails
    BY <2>5, <1>2, Zenon DEF ConnectFails
  <2>6. CASE Disconnect
    BY <2>6, <1>2, Zenon DEF Disconnect
  <2>7. CASE DisconnectRefused
    BY <2>7, <1>2, Zenon DEF DisconnectRefused
  <2>8. CASE WaiterPanic \/ LookupPanic
    BY <2>8, <1>4, Zenon DEF WaiterPanic, LookupPanic
  <2>9. CASE ConnectWaiter \/ RegisterDone \/ Connect \/ ConnectWaits
    BY <2>9, <1>1 DEF ConnectWaiter, RegisterDone, Connect, ConnectWaits
  <2>10. CASE UnregisterIgnored
    BY <2>10, <1>1 DEF UnregisterIgnored, nameVars
  <2>11. CASE Unregister
    BY <2>11, <1>3, Zenon DEF Unregister
  <2> QED
    BY <2>1, <2>2, <2>3, <2>4, <2>5, <2>6, <2>7, <2>8, <2>9, <2>10, <2>11, <1>5 DEF Serve
<1>6. ASSUME NEW r \in Registrants,
             register_name(r) \/ CreateServer(r) \/ unregister_server(r) \/ DestroyServer(r)
               \/ TerminateRegistrant(r)
      PROVE  panicked' \in BOOLEAN
  BY <1>6, <1>1 DEF register_name, CreateServer, unregister_server, DestroyServer,
                    TerminateRegistrant, nameVars
<1>7. ASSUME NEW c \in Clients,
             \/ \E op \in ConnectOps, n \in Names : request_connection(c, op, n)
             \/ \E g \in tokens : disconnect_with_token(c, g)
             \/ TerminateClient(c)
      PROVE  panicked' \in BOOLEAN
  BY <1>7, <1>1 DEF request_connection, disconnect_with_token, TerminateClient, nameVars
<1> QED
  BY <1>5, <1>6, <1>7 DEF Next

\* NextWaiter is a position of a client that waits for n.
LEMMA NextWaiterOK ==
    ASSUME waiting_connections \in Seq(Waiter), NEW n, WaitersFor(n) # {}
    PROVE  NextWaiter(n) \in WaitersFor(n)
<1>1. PICK N \in Nat : DOMAIN waiting_connections = 1 .. N
  BY LenProperties
<1>2. WaitersFor(n) \subseteq 1 .. N
  BY <1>1 DEF WaitersFor
<1>3. \E i \in WaitersFor(n) : \A j \in WaitersFor(n) : j <= i
  BY <1>2, LastPosition
<1> QED
  BY <1>3, Zenon DEF NextWaiter

\* What a failed connection makes of the table.
LEMMA UncountedOK ==
    ASSUME TypeOK, NEW sid
    PROVE  /\ Uncounted(sid) \in [Names -> Connection \cup {None}]
           /\ \A n \in Names :
                IF Registered(n) /\ name_table[n].sid = sid /\ name_table[n].current_conns > 0
                  THEN Uncounted(sid)[n] = [name_table[n] EXCEPT !.current_conns = @ - 1]
                  ELSE Uncounted(sid)[n] = name_table[n]
<1>1. name_table \in [Names -> Connection \cup {None}]
  BY DEF TypeOK
<1>2. \A n \in Names :
          IF Registered(n) /\ name_table[n].sid = sid /\ name_table[n].current_conns > 0
            THEN Uncounted(sid)[n] = [name_table[n] EXCEPT !.current_conns = @ - 1]
            ELSE Uncounted(sid)[n] = name_table[n]
  BY DEF Uncounted
<1>3. ASSUME NEW n \in Names
      PROVE  Uncounted(sid)[n] \in Connection \cup {None}
  <2>1. CASE Registered(n) /\ name_table[n].sid = sid /\ name_table[n].current_conns > 0
    <3>1. PICK e \in Connection : e = name_table[n]
      BY <1>1, <2>1 DEF Registered
    <3>2. e.current_conns - 1 \in Nat
      BY <2>1, <3>1 DEF Connection
    <3>3. [e EXCEPT !.current_conns = @ - 1] \in Connection
      BY <3>1, <3>2 DEF Connection
    <3> QED
      BY <1>2, <2>1, <3>1, <3>3
  <2>2. CASE ~ (Registered(n) /\ name_table[n].sid = sid /\ name_table[n].current_conns > 0)
    BY <1>1, <1>2, <2>2
  <2> QED
    BY <2>1, <2>2
<1>4. Uncounted(sid) \in [Names -> Connection \cup {None}]
  BY <1>3 DEF Uncounted
<1> QED
  BY <1>2, <1>4

\* What the return of a connection makes of the table.
LEMMA DisconnectOK ==
    ASSUME TypeOK, NEW m \in Names, name_table[m] \in Connection,
           name_table' = [name_table EXCEPT ![m].current_conns = 0, ![m].token = next_id + 1]
    PROVE  /\ name_table' \in [Names -> Connection \cup {None}]
           /\ \A n \in Names : n # m => name_table'[n] = name_table[n]
           /\ name_table'[m] = [name_table[m] EXCEPT !.current_conns = 0, !.token = next_id + 1]
<1>1. name_table \in [Names -> Connection \cup {None}] /\ next_id + 1 \in Ids
  BY DEF TypeOK, Ids
<1>2. PICK e \in Connection : e = name_table[m]
  OBVIOUS
<1>3. [e EXCEPT !.current_conns = 0, !.token = next_id + 1] \in Connection
  BY <1>1 DEF Connection
<1>4. name_table' = [name_table EXCEPT ![m] = [e EXCEPT !.current_conns = 0, !.token = next_id + 1]]
  BY <1>1, <1>2
<1> QED
  BY <1>1, <1>2, <1>3, <1>4

\* A client waits for a name.
LEMMA WaiterNames ==
    ASSUME waiting_connections \in Seq(Waiter), NEW i \in DOMAIN waiting_connections
    PROVE  waiting_connections[i].name \in Names /\ waiting_connections[i].client \in Clients
<1>1. waiting_connections[i] \in Waiter
  OBVIOUS
<1> QED
  BY <1>1 DEF Waiter

\* What StartConnect makes of the table and of connecting.
LEMMA StartConnectTypes ==
    ASSUME TypeOK, NEW op \in ConnectOps, NEW c \in Clients, NEW n \in Names,
           Connectable(n), StartConnect(op, c, n)
    PROVE  name_table' \in [Names -> Connection \cup {None}] /\ connecting' \in Call
<1>1. name_table \in [Names -> Connection \cup {None}] /\ name_table[n] \in Connection
  BY DEF TypeOK, Connectable, Registered
<1> QED
  BY <1>1 DEF StartConnect, Counted, Connection, Call

\* A step keeps the types.
LEMMA TypesStep ==
    ASSUME TypeOK, Next
    PROVE  Types'
<1> USE NameServerAssumption
<1>1. Types
  BY TypesOK
<1>2. CASE Register
  <2>1. Msg.from \in Registrants /\ inbox' \in Seq(Message)
    BY <1>2, HeadOK DEF Register, Receive, Msg
  <2> QED
    BY <1>1, <1>2, <2>1 DEF Types, Register, AnswerRegistrant, Connection, Ids, bounds
<1>3. CASE RegisterTaken
  <2>1. Msg.from \in Registrants /\ inbox' \in Seq(Message)
    BY <1>3, HeadOK DEF RegisterTaken, Receive, Msg
  <2> QED
    BY <1>1, <1>3, <2>1 DEF Types, RegisterTaken, AnswerRegistrant, bounds
<1>4. CASE ConnectWaiter
  <2>1. PICK i : i = NextWaiter(registered) /\ i \in WaitersFor(registered)
    <3>1. WaitersFor(registered) # {}
      BY <1>4 DEF ConnectWaiter
    <3>2. waiting_connections \in Seq(Waiter)
      BY <1>1 DEF Types
    <3> QED
      BY <3>1, <3>2, NextWaiterOK
  <2>2. i \in DOMAIN waiting_connections
    BY <2>1 DEF WaitersFor
  <2>3. waiting_connections' \in Seq(Waiter) /\ waiting_connections[i] \in Waiter
    BY <1>1, <1>4, <2>1, <2>2, WaiterRemoved, ElementOfSeq, LenProperties DEF Types, ConnectWaiter
  <2>4. registered \in Names
    BY <1>1, <1>4 DEF Types, ConnectWaiter
  <2>5. name_table' \in [Names -> Connection \cup {None}] /\ connecting' \in Call
    BY <1>1, <1>4, <2>1, <2>3, <2>4, StartConnectTypes DEF Types, ConnectWaiter, Waiter, ConnectOps
  <2> QED
    BY <1>1, <1>4, <2>3, <2>5 DEF Types, ConnectWaiter, clientVars, bounds
<1>5. CASE WaiterPanic \/ LookupPanic
  BY <1>1, <1>5 DEF Types, WaiterPanic, LookupPanic, clientVars, bounds
<1>6. CASE RegisterDone
  BY <1>1, <1>6 DEF Types, RegisterDone, clientVars, bounds
<1>7. CASE Unregister
  <2>1. Msg.from \in Registrants /\ inbox' \in Seq(Message)
    BY <1>7, HeadOK DEF Unregister, Receive, Msg
  <2> QED
    BY <1>1, <1>7, <2>1 DEF Types, Unregister, AnswerRegistrant, bounds
<1>8. CASE UnregisterIgnored
  <2>1. inbox' \in Seq(Message)
    BY <1>8, HeadOK DEF UnregisterIgnored, Receive, Msg
  <2> QED
    BY <1>1, <1>8, <2>1 DEF Types, UnregisterIgnored, nameVars, clientVars, bounds
<1>9. CASE Connect
  <2>1. Msg.op \in ConnectOps /\ Msg.client \in Clients /\ Msg.name \in Names
        /\ inbox' \in Seq(Message)
    BY <1>9, HeadOK DEF Connect, Receive, Msg
  <2>2. name_table' \in [Names -> Connection \cup {None}] /\ connecting' \in Call
    BY <1>1, <1>9, <2>1, StartConnectTypes DEF Types, Connect
  <2> QED
    BY <1>1, <1>9, <2>1, <2>2 DEF Types, Connect, clientVars, bounds
<1>10. CASE ConnectWaits
  <2>1. Msg.client \in Clients /\ Msg.name \in Names /\ inbox' \in Seq(Message)
    BY <1>10, HeadOK DEF ConnectWaits, Receive, Msg, ConnectOps
  <2>2. waiting_connections' \in Seq(Waiter)
    BY <1>1, <1>10, <2>1 DEF Types, ConnectWaits, Waiter
  <2> QED
    BY <1>1, <1>10, <2>1, <2>2 DEF Types, ConnectWaits, clientVars, bounds
<1>11. CASE ConnectRefused
  <2>1. Msg.client \in Clients /\ inbox' \in Seq(Message)
    BY <1>11, HeadOK DEF ConnectRefused, Receive, Msg, ConnectOps
  <2> QED
    BY <1>1, <1>11, <2>1 DEF Types, ConnectRefused, Answer, bounds
<1>12. CASE ConnectSucceeds
  <2>1. connecting \in Call
    BY <1>1, <1>12 DEF Types, ConnectSucceeds
  <2>2. PICK g : g = [client |-> connecting.client, name |-> connecting.name,
                      sid |-> connecting.sid, token |-> connecting.token]
    OBVIOUS
  <2>3. g \in Grant /\ connecting.client \in Clients
    BY <2>1, <2>2 DEF Grant, Call
  <2>4. tokens' = tokens \cup {g} /\ grants' = grants \cup {[grant |-> g, copy |-> NextCopy(g)]}
    BY <1>12, <2>2 DEF ConnectSucceeds
  <2>5. NextCopy(g) \in Nat /\ IsFiniteSet(grants)
    BY <1>1, NextCopyIsNew DEF Types
  <2>6. [grant |-> g, copy |-> NextCopy(g)] \in Copy
    BY <2>3, <2>5 DEF Copy
  <2>7. grants' \in SUBSET Copy /\ tokens' \in SUBSET Grant
    BY <1>1, <2>3, <2>4, <2>6 DEF Types
  <2>8. IsFiniteSet(grants')
    BY <2>4, <2>5, FS_AddElement
  <2> QED
    BY <1>1, <1>12, <2>3, <2>7, <2>8 DEF Types, ConnectSucceeds, Answer, bounds
<1>13. CASE ConnectFails
  <2>1. connecting \in Call /\ connecting.client \in Clients
    BY <1>1, <1>13 DEF Types, ConnectFails, Call
  <2>2. name_table' \in [Names -> Connection \cup {None}]
    <3>1. name_table' = Uncounted(connecting.sid)
      BY <1>13 DEF ConnectFails
    <3> QED
      BY <3>1, UncountedOK
  <2> QED
    BY <1>1, <1>13, <2>1, <2>2 DEF Types, ConnectFails, Answer, bounds
<1>14. CASE Disconnect
  <2>1. Msg.client \in Clients /\ Msg.grant \in Grant /\ inbox' \in Seq(Message)
    BY <1>14, HeadOK DEF Disconnect, Receive, Msg
  <2>2. Msg.grant.name \in Names /\ name_table[Msg.grant.name] \in Connection
    BY <1>1, <1>14, <2>1 DEF Types, Disconnect, TokenFits, Registered, Grant
  <2>3. name_table' \in [Names -> Connection \cup {None}]
    BY <1>14, <2>1, <2>2, DisconnectOK DEF Disconnect
  <2>4. grants' \in SUBSET Copy /\ IsFiniteSet(grants')
    BY <1>1, <1>14, FS_Subset DEF Types, Disconnect
  <2> QED
    BY <1>1, <1>14, <2>1, <2>3, <2>4 DEF Types, Disconnect, Answer, bounds, Ids
<1>15. CASE DisconnectRefused
  <2>1. Msg.client \in Clients /\ inbox' \in Seq(Message)
    BY <1>15, HeadOK DEF DisconnectRefused, Receive, Msg
  <2> QED
    BY <1>1, <1>15, <2>1 DEF Types, DisconnectRefused, Answer, bounds
<1>16. ASSUME NEW r \in Registrants, register_name(r)
       PROVE  Types'
  <2>1. inbox' \in Seq(Message)
    BY <1>16, SendOK DEF register_name, Message
  <2> QED
    BY <1>1, <1>16, <2>1 DEF Types, register_name, nameVars
<1>17. ASSUME NEW r \in Registrants, unregister_server(r)
       PROVE  Types'
  <2>1. inbox' \in Seq(Message)
    BY <1>17, SendOK DEF unregister_server, Message
  <2> QED
    BY <1>1, <1>17, <2>1 DEF Types, unregister_server, nameVars, bounds
<1>18. ASSUME NEW r \in Registrants, CreateServer(r) \/ DestroyServer(r) \/ TerminateRegistrant(r)
       PROVE  Types'
  BY <1>1, <1>18 DEF Types, CreateServer, DestroyServer, TerminateRegistrant, nameVars, bounds
<1>19. ASSUME NEW c \in Clients, NEW op \in ConnectOps, NEW n \in Names, request_connection(c, op, n)
       PROVE  Types'
  <2>1. inbox' \in Seq(Message)
    BY <1>19, SendOK DEF request_connection, Message
  <2> QED
    BY <1>1, <1>19, <2>1 DEF Types, request_connection, nameVars
<1>20. ASSUME NEW c \in Clients, NEW g \in tokens, disconnect_with_token(c, g)
       PROVE  Types'
  <2>1. g \in Grant
    BY <1>1 DEF Types
  <2>2. inbox' \in Seq(Message)
    BY <1>20, <2>1, SendOK DEF disconnect_with_token, Message
  <2> QED
    BY <1>1, <1>20, <2>2 DEF Types, disconnect_with_token, nameVars
<1>21. ASSUME NEW c \in Clients, TerminateClient(c)
       PROVE  Types'
  BY <1>1, <1>21 DEF Types, TerminateClient, nameVars, bounds
<1> QED
  BY <1>2, <1>3, <1>4, <1>5, <1>6, <1>7, <1>8, <1>9, <1>10, <1>11, <1>12, <1>13, <1>14, <1>15,
     <1>16, <1>17, <1>18, <1>19, <1>20, <1>21 DEF Next, Serve

LEMMA TypeStep ==
    ASSUME TypeOK, [Next]_vars
    PROVE  TypeOK'
<1>1. CASE Next
  BY <1>1, TypesStep, FlagStep, Zenon DEF Types, TypeOK
<1>2. CASE UNCHANGED vars
  BY <1>2, Zenon DEF TypeOK, vars, nameVars, clientVars, bounds
<1> QED
  BY <1>1, <1>2
-----------------------------------------------------------------------------
(* The steps that leave every name with its server, its limit and its token *)

SameServers ==
    \A n \in Names :
        /\ Registered(n)' <=> Registered(n)
        /\ Registered(n) => /\ name_table'[n].sid = name_table[n].sid
                            /\ name_table'[n].token = name_table[n].token
                            /\ name_table'[n].max_conns = name_table[n].max_conns

LEMMA SameServersIds ==
    ASSUME IInv, SameServers, UNCHANGED <<grants, tokens, next_id>>
    PROVE  IdsOK' /\ SidsOK' /\ TokensOK' /\ SoloOK'
<1>1. IdsOK' /\ SidsOK' /\ SoloOK'
  BY DEF IInv, TableOK, SameServers, IdsOK, SidsOK, SoloOK
<1>2. ASSUME NEW g \in tokens, TokenFits(g)'
      PROVE  name_table'[g.name].sid = g.sid /\ \E x \in grants' : x.grant = g
  <2>1. g.name \in Names
    BY DEF IInv, TypeOK, Grant
  <2>2. TokenFits(g)
    BY <1>2, <2>1 DEF TokenFits, SameServers, Registered
  <2> QED
    BY <1>2, <2>1, <2>2 DEF IInv, TableOK, TokensOK, SameServers, TokenFits
<1>3. TokensOK'
  BY <1>2 DEF TokensOK
<1> QED
  BY <1>1, <1>3

\* Nobody is passed over as long as the waiting clients are among those that waited.
LEMMA SameServersWaiters ==
    ASSUME IInv, SameServers, registered' = registered,
           \A j \in DOMAIN waiting_connections' :
               \E k \in DOMAIN waiting_connections : waiting_connections'[j] = waiting_connections[k]
    PROVE  NobodyPassedOver'
<1> SUFFICES ASSUME NEW j \in DOMAIN waiting_connections', NEW n,
                    n = waiting_connections'[j].name, Registered(n)', registered # n
             PROVE  name_table'[n].max_conns # Unlimited
  BY DEF NobodyPassedOver, Registered
<1>1. PICK k \in DOMAIN waiting_connections : waiting_connections'[j] = waiting_connections[k]
  OBVIOUS
<1>2. waiting_connections[k] \in Waiter
  BY <1>1 DEF IInv, TypeOK
<1>3. n \in Names
  BY <1>1, <1>2 DEF Waiter
<1> QED
  BY <1>1, <1>3 DEF IInv, TableOK, NobodyPassedOver, SameServers, Registered

\* What StartConnect does to each name.
LEMMA Started ==
    ASSUME IInv, connecting = None, NEW op \in ConnectOps, NEW c \in Clients, NEW n \in Names,
           Connectable(n), StartConnect(op, c, n), UNCHANGED grants
    PROVE  SameServers /\ CallOK' /\ EntriesOK'
<1> USE NameServerAssumption
<1>1. name_table \in [Names -> Connection \cup {None}] /\ name_table[n] \in Connection
      /\ name_table' \in [Names -> Connection \cup {None}] /\ connecting' \in Call
  BY StartConnectTypes DEF IInv, TypeOK, Connectable, Registered
<1>2. PICK e \in Connection : e = name_table[n]
  BY <1>1
<1>3. PICK f : f = [e EXCEPT !.current_conns = @ + 1]
  OBVIOUS
<1>4. f \in Connection /\ f.sid = e.sid /\ f.token = e.token /\ f.max_conns = e.max_conns
      /\ f.current_conns = e.current_conns + 1
  BY <1>2, <1>3 DEF Connection
<1>5. name_table' = [name_table EXCEPT ![n] = f]
  BY <1>1, <1>2, <1>3 DEF StartConnect, Counted
<1>6. name_table'[n] = f /\ \A m \in Names : m # n => name_table'[m] = name_table[m]
  BY <1>1, <1>5
<1>7. SameServers
  BY <1>1, <1>2, <1>4, <1>6 DEF SameServers, Registered
<1>8. connecting' # None /\ connecting'.name = n /\ connecting'.sid = e.sid /\ connecting'.token = e.token
  BY <1>1, <1>2 DEF StartConnect
<1>9. CallOK'
  BY <1>1, <1>2, <1>4, <1>6, <1>8 DEF CallOK, Registered
<1>10. ASSUME NEW m \in Names, Registered(m)'
       PROVE  EntryOK(m)'
  <2>1. Registered(m) /\ EntryOK(m)
    BY <1>7, <1>10 DEF SameServers, IInv, TableOK, EntriesOK
  <2>2. Pending(name_table[m].sid) = 0
    BY DEF Pending
  <2>3. Current(name_table[m])' = Current(name_table[m])
    BY <1>7, <2>1 DEF Current, GivenBy, SameServers
  <2>4. CASE m = n
    <3>1. name_table'[m] = f /\ name_table[m] = e
      BY <1>2, <1>6, <2>4
    <3>2. Pending(name_table[m].sid)' = 1
      BY <1>2, <1>4, <1>8, <2>4, <3>1 DEF Pending
    <3>3. HasRoom(e)
      BY <1>2 DEF Connectable
    <3>4. Cardinality(Current(e)) \in Nat /\ e.current_conns \in Nat
          /\ e.max_conns \in Nat \cup {Unlimited}
      BY <1>2, CurrentFinite DEF IInv, Connection
    <3>5. e.current_conns = Cardinality(Current(e)) /\ Current(name_table[m])' = Current(e)
      BY <2>1, <2>2, <2>3, <3>1, <3>4 DEF EntryOK
    <3>6. f.current_conns = Cardinality(Current(e)) + 1
      BY <1>4, <3>5
    <3>7. f.max_conns # Unlimited => f.current_conns <= f.max_conns
      BY <1>4, <3>3, <3>4 DEF HasRoom
    <3> QED
      BY <3>1, <3>2, <3>5, <3>6, <3>7 DEF EntryOK
  <2>5. CASE m # n
    <3>1. name_table[m].sid # e.sid
      BY <2>1, <2>5, <1>2, Zenon DEF IInv, TableOK, SidsOK, Connectable
    <3>2. Pending(name_table[m].sid)' = 0
      BY <1>6, <1>8, <2>5, <3>1 DEF Pending
    <3> QED
      BY <1>6, <2>1, <2>2, <2>3, <2>5, <3>2 DEF EntryOK
  <2> QED
    BY <2>4, <2>5
<1>11. EntriesOK'
  BY <1>10 DEF EntriesOK
<1> QED
  BY <1>7, <1>9, <1>11
-----------------------------------------------------------------------------
(* TableOK, step by step *)

tableVars == <<name_table, waiting_connections, connecting, registered, grants, tokens, next_id>>

LEMMA TableUnchanged ==
    ASSUME IInv, UNCHANGED tableVars
    PROVE  TableOK'
<1>1. SameServers /\ UNCHANGED <<grants, tokens, next_id>>
  BY DEF SameServers, tableVars, Registered
<1>2. NobodyPassedOver' /\ CallOK'
  BY DEF IInv, TableOK, NobodyPassedOver, CallOK, tableVars, Registered
<1>3. EntriesOK'
  BY DEF IInv, TableOK, EntriesOK, EntryOK, tableVars, Registered, Current, GivenBy, Pending
<1> QED
  BY <1>1, <1>2, <1>3, SameServersIds DEF TableOK

LEMMA ConnectStep ==
    ASSUME IInv, Connect
    PROVE  TableOK'
<1>1. Msg.op \in ConnectOps /\ Msg.client \in Clients /\ Msg.name \in Names
  BY HeadOK DEF IInv, Connect, Receive, Msg
<1>2. SameServers /\ CallOK' /\ EntriesOK'
  BY <1>1, Started DEF Connect, Receive, Idle, clientVars
<1>3. IdsOK' /\ SidsOK' /\ TokensOK' /\ SoloOK'
  BY <1>2, SameServersIds DEF Connect, clientVars
<1>4. NobodyPassedOver'
  BY <1>2, SameServersWaiters DEF Connect
<1> QED
  BY <1>2, <1>3, <1>4 DEF TableOK

LEMMA ConnectWaiterStep ==
    ASSUME IInv, ConnectWaiter
    PROVE  TableOK'
<1>1. waiting_connections \in Seq(Waiter) /\ registered \in Names
  BY DEF IInv, TypeOK, ConnectWaiter
<1>2. PICK i \in DOMAIN waiting_connections : i = NextWaiter(registered)
  BY <1>1, NextWaiterOK DEF ConnectWaiter, WaitersFor
<1>3. PICK c \in Clients : c = waiting_connections[i].client
  BY <1>1, <1>2, WaiterNames
<1>4. SameServers /\ CallOK' /\ EntriesOK'
  BY <1>1, <1>2, <1>3, Started DEF ConnectWaiter, clientVars, ConnectOps
<1>5. IdsOK' /\ SidsOK' /\ TokensOK' /\ SoloOK'
  BY <1>4, SameServersIds DEF ConnectWaiter, clientVars
<1>6. waiting_connections' = RemoveAt(waiting_connections, i)
  BY <1>2 DEF ConnectWaiter
<1>7. \A j \in DOMAIN waiting_connections' :
          \E k \in DOMAIN waiting_connections : waiting_connections'[j] = waiting_connections[k]
  BY <1>1, <1>2, <1>6, WaiterRemoved
<1>8. NobodyPassedOver'
  BY <1>4, <1>7, SameServersWaiters DEF ConnectWaiter
<1> QED
  BY <1>4, <1>5, <1>8 DEF TableOK

LEMMA ConnectWaitsStep ==
    ASSUME IInv, ConnectWaits
    PROVE  TableOK'
<1> USE NameServerAssumption
<1>1. Msg.client \in Clients /\ Msg.name \in Names
  BY HeadOK DEF IInv, ConnectWaits, Receive, Msg, ConnectOps
<1>2. SameServers /\ UNCHANGED <<grants, tokens, next_id>>
  BY DEF SameServers, ConnectWaits, clientVars, Registered
<1>3. CallOK'
  BY DEF IInv, TableOK, CallOK, ConnectWaits, clientVars, Registered
<1>4. EntriesOK'
  BY DEF IInv, TableOK, EntriesOK, EntryOK, ConnectWaits, clientVars, Registered, Current, GivenBy,
         Pending
<1>5. PICK w : w = [client |-> Msg.client, name |-> Msg.name]
  OBVIOUS
<1>6. waiting_connections \in Seq(Waiter) /\ w \in Waiter
      /\ waiting_connections' = Append(waiting_connections, w)
  BY <1>1, <1>5 DEF IInv, TypeOK, ConnectWaits, Waiter
<1>7. \A j \in DOMAIN waiting_connections' :
          \/ waiting_connections'[j] = w
          \/ j \in DOMAIN waiting_connections /\ waiting_connections'[j] = waiting_connections[j]
  BY <1>6, AppendProperties, LenProperties
<1>8. Registered(w.name) => name_table[w.name].max_conns # Unlimited
  BY <1>5 DEF ConnectWaits, Connectable, HasRoom
<1>9. NobodyPassedOver'
  BY <1>7, <1>8 DEF IInv, TableOK, NobodyPassedOver, ConnectWaits, Registered
<1> QED
  BY <1>2, <1>3, <1>4, <1>9, SameServersIds DEF TableOK

LEMMA RegisterDoneStep ==
    ASSUME IInv, RegisterDone
    PROVE  TableOK'
<1>1. SameServers /\ UNCHANGED <<grants, tokens, next_id>>
  BY DEF SameServers, RegisterDone, clientVars, Registered
<1>2. CallOK'
  BY DEF IInv, TableOK, CallOK, RegisterDone, clientVars, Registered
<1>3. EntriesOK'
  BY DEF IInv, TableOK, EntriesOK, EntryOK, RegisterDone, clientVars, Registered, Current, GivenBy,
         Pending
<1>4. NobodyPassedOver'
  BY DEF IInv, TableOK, NobodyPassedOver, RegisterDone, Registered, WaitersFor
<1> QED
  BY <1>1, <1>2, <1>3, <1>4, SameServersIds DEF TableOK

LEMMA RegisterStep ==
    ASSUME IInv, Register
    PROVE  TableOK'
<1> USE NameServerAssumption
<1>1. Msg.from \in Registrants
  BY HeadOK DEF IInv, Register, Receive, Msg
<1>2. PICK n \in Names : n = NameOf[Msg.from]
  BY <1>1
<1>3. PICK limit \in Nat \cup {Unlimited} : limit = LimitOf[Msg.from]
  BY <1>1
<1>4. PICK e : e = [sid |-> next_id + 1, current_conns |-> 0, max_conns |-> limit,
                    token |-> next_id + 2]
  OBVIOUS
<1>5. name_table \in [Names -> Connection \cup {None}] /\ next_id \in Nat
  BY DEF IInv, TypeOK, Ids
<1>6. name_table' = [name_table EXCEPT ![n] = e] /\ next_id' = next_id + 2 /\ registered' = n
      /\ ~ Registered(n) /\ connecting = None
      /\ UNCHANGED <<waiting_connections, connecting, grants, tokens>>
  BY <1>2, <1>3, <1>4 DEF Register, Receive, Idle
<1>7. e \in Connection /\ e # None
  BY <1>4, <1>5 DEF Connection, Ids
<1>8. name_table'[n] = e /\ \A m \in Names : m # n => name_table'[m] = name_table[m]
  BY <1>5, <1>6
<1>9. \A m \in Names : name_table[m] # None =>
          name_table[m].sid \in Nat /\ name_table[m].token \in Nat
  BY <1>5 DEF Connection, Ids
<1>10. \A x \in grants : x.grant.sid \in Nat /\ x.grant.token \in Nat
  BY DEF IInv, TypeOK, Copy, Grant, Ids
<1>11. \A g \in tokens : g.token \in Nat /\ g.name \in Names
  BY DEF IInv, TypeOK, Grant, Ids
<1>12. IdsOK
  BY DEF IInv, TableOK
<1>13. IdsOK'
  <2>1. \A m \in Names : Registered(m)' =>
            name_table'[m].sid <= next_id' /\ name_table'[m].token <= next_id'
    BY <1>4, <1>5, <1>6, <1>8, <1>9, <1>12 DEF IdsOK, Registered
  <2>2. \A x \in grants' : x.grant.sid <= next_id' /\ x.grant.token <= next_id'
    BY <1>5, <1>6, <1>10, <1>12 DEF IdsOK
  <2>3. \A g \in tokens' : g.token <= next_id'
    BY <1>5, <1>6, <1>11, <1>12 DEF IdsOK
  <2> QED
    BY <2>1, <2>2, <2>3 DEF IdsOK
<1>14. SidsOK'
  BY <1>4, <1>5, <1>8, <1>9, <1>12 DEF IdsOK, SidsOK, Registered, IInv, TableOK
<1>15. TokensOK'
  BY <1>4, <1>5, <1>6, <1>8, <1>11, <1>12 DEF IdsOK, TokensOK, TokenFits, Registered, IInv, TableOK
<1>16. SoloOK'
  BY <1>4, <1>5, <1>6, <1>8, <1>10, <1>12 DEF IdsOK, SoloOK, Registered, IInv, TableOK
<1>17. CallOK'
  BY <1>6 DEF CallOK
<1>18. NobodyPassedOver'
  <2>1. \A i \in DOMAIN waiting_connections : waiting_connections[i].name \in Names
    BY WaiterNames DEF IInv, TypeOK
  <2>2. registered = None
    BY DEF Register, Receive, Idle
  <2> QED
    BY <1>6, <1>8, <2>1, <2>2 DEF NobodyPassedOver, Registered, IInv, TableOK
<1>19. ASSUME NEW m \in Names, Registered(m)'
       PROVE  EntryOK(m)'
  <2>1. CASE m = n
    <3>1. Current(name_table[m])' = {}
      BY <1>4, <1>5, <1>6, <1>8, <1>10, <1>12, <2>1 DEF IdsOK, Current, GivenBy
    <3>2. Pending(name_table[m].sid)' = 0
      BY <1>6 DEF Pending
    <3>3. Cardinality(Current(name_table[m])') = 0
      BY <3>1, FS_EmptySet
    <3>4. name_table'[m].current_conns = 0 /\ name_table'[m].max_conns \in Nat \cup {Unlimited}
      BY <1>3, <1>4, <1>8, <2>1
    <3> QED
      BY <3>2, <3>3, <3>4 DEF EntryOK
  <2>2. CASE m # n
    <3>1. name_table'[m] = name_table[m] /\ EntryOK(m)
      BY <1>8, <1>19, <2>2 DEF EntriesOK, IInv, TableOK, Registered
    <3>2. Current(name_table[m])' = Current(name_table[m])
      BY <1>6, <3>1 DEF Current, GivenBy
    <3>3. Pending(name_table[m].sid)' = Pending(name_table[m].sid)
      BY <1>6, <3>1 DEF Pending
    <3> QED
      BY <3>1, <3>2, <3>3 DEF EntryOK
  <2> QED
    BY <2>1, <2>2
<1>20. EntriesOK'
  BY <1>19 DEF EntriesOK
<1> QED
  BY <1>13, <1>14, <1>15, <1>16, <1>17, <1>18, <1>20 DEF TableOK

LEMMA UnregisterStep ==
    ASSUME IInv, Unregister
    PROVE  TableOK'
<1>1. \A n \in Names : name_table'[n] # None => name_table'[n] = name_table[n]
  BY DEF Unregister
<1>2. connecting = None /\ registered = None
      /\ UNCHANGED <<waiting_connections, connecting, registered, grants, tokens, next_id>>
  BY DEF Unregister, Receive, Idle
<1>3. IdsOK' /\ SidsOK' /\ SoloOK' /\ CallOK'
  BY <1>1, <1>2 DEF IInv, TableOK, IdsOK, SidsOK, SoloOK, CallOK, Registered
<1>4. TokensOK'
  BY <1>1, <1>2 DEF IInv, TableOK, TypeOK, Grant, TokensOK, TokenFits, Registered
<1>5. NobodyPassedOver'
  <2>1. \A i \in DOMAIN waiting_connections : waiting_connections[i].name \in Names
    BY WaiterNames DEF IInv, TypeOK
  <2> QED
    BY <1>1, <1>2, <2>1 DEF IInv, TableOK, NobodyPassedOver, Registered
<1>6. EntriesOK'
  BY <1>1, <1>2 DEF IInv, TableOK, EntriesOK, EntryOK, Registered, Current, GivenBy, Pending
<1> QED
  BY <1>3, <1>4, <1>5, <1>6 DEF TableOK

LEMMA ConnectFailsStep ==
    ASSUME IInv, ConnectFails
    PROVE  TableOK'
<1> USE NameServerAssumption
<1>1. TypeOK /\ connecting \in Call /\ connecting # None /\ connecting' = None
      /\ UNCHANGED <<waiting_connections, registered, grants, tokens, next_id>>
  BY DEF IInv, TypeOK, ConnectFails
<1>2. PICK sid \in Nat : sid = connecting.sid
  BY <1>1 DEF Call, Ids
<1>3. name_table' = Uncounted(sid)
  BY <1>2 DEF ConnectFails
<1>4. name_table \in [Names -> Connection \cup {None}] /\ name_table' \in [Names -> Connection \cup {None}]
  BY <1>1, <1>3, UncountedOK DEF TypeOK
<1>5. \A n \in Names :
          IF Registered(n) /\ name_table[n].sid = sid /\ name_table[n].current_conns > 0
            THEN name_table'[n] = [name_table[n] EXCEPT !.current_conns = @ - 1]
            ELSE name_table'[n] = name_table[n]
  BY <1>1, <1>3, UncountedOK
<1>6. ASSUME NEW n \in Names, Registered(n)
      PROVE  /\ name_table'[n] \in Connection
             /\ name_table'[n].sid = name_table[n].sid
             /\ name_table'[n].token = name_table[n].token
             /\ name_table'[n].max_conns = name_table[n].max_conns
             /\ name_table[n].sid # sid => name_table'[n].current_conns = name_table[n].current_conns
             /\ name_table[n].sid = sid /\ name_table[n].current_conns > 0
                  => name_table'[n].current_conns = name_table[n].current_conns - 1
  <2>1. PICK e \in Connection : e = name_table[n]
    BY <1>4, <1>6 DEF Registered
  <2>2. CASE e.sid = sid /\ e.current_conns > 0
    <3>1. name_table'[n] = [e EXCEPT !.current_conns = @ - 1]
      BY <1>5, <1>6, <2>1, <2>2
    <3> QED
      BY <2>1, <2>2, <3>1 DEF Connection
  <2>3. CASE ~ (e.sid = sid /\ e.current_conns > 0)
    <3>1. name_table'[n] = e
      BY <1>5, <1>6, <2>1, <2>3
    <3> QED
      BY <2>1, <2>3, <3>1
  <2> QED
    BY <2>2, <2>3
<1>7. ASSUME NEW n \in Names, ~ Registered(n)
      PROVE  ~ Registered(n)'
  BY <1>5, <1>7 DEF Registered
<1>8. SameServers
  BY <1>6, <1>7 DEF SameServers, Registered
<1>9. ASSUME NEW n \in Names, Registered(n)'
      PROVE  EntryOK(n)'
  <2>1. Registered(n) /\ EntryOK(n)
    BY <1>7, <1>9 DEF IInv, TableOK, EntriesOK
  <2>2. PICK e \in Connection : e = name_table[n]
    BY <1>4, <2>1 DEF Registered
  <2>3. PICK k \in Nat : k = Cardinality(Current(e))
    BY CurrentFinite, <1>1
  <2>4. Current(name_table[n])' = Current(e)
    BY <1>1, <1>6, <2>1, <2>2 DEF Current, GivenBy
  <2>5. Pending(name_table[n].sid)' = 0
    BY <1>1 DEF Pending
  <2>6. e.current_conns = k + (IF e.sid = sid THEN 1 ELSE 0)
    BY <1>1, <1>2, <2>1, <2>2, <2>3 DEF EntryOK, Pending
  <2>7. name_table'[n].current_conns = k /\ k <= e.current_conns
    BY <1>6, <2>1, <2>2, <2>3, <2>6
  <2>8. name_table'[n].max_conns = e.max_conns
        /\ (e.max_conns # Unlimited => e.max_conns \in Nat /\ e.current_conns <= e.max_conns)
    BY <1>6, <2>1, <2>2 DEF EntryOK, Connection
  <2> QED
    BY <2>2, <2>3, <2>4, <2>5, <2>6, <2>7, <2>8 DEF EntryOK
<1>10. EntriesOK'
  BY <1>9 DEF EntriesOK
<1>11. CallOK'
  BY <1>1 DEF CallOK
<1>12. NobodyPassedOver'
  BY <1>1, <1>8, SameServersWaiters
<1> QED
  BY <1>1, <1>8, <1>10, <1>11, <1>12, SameServersIds DEF TableOK

LEMMA ConnectSucceedsStep ==
    ASSUME IInv, ConnectSucceeds
    PROVE  TableOK'
<1> USE NameServerAssumption
<1>1. TypeOK /\ connecting \in Call /\ connecting # None /\ connecting' = None
      /\ UNCHANGED <<name_table, waiting_connections, registered, next_id>>
  BY DEF IInv, TypeOK, ConnectSucceeds
<1>2. PICK g : g = [client |-> connecting.client, name |-> connecting.name,
                    sid |-> connecting.sid, token |-> connecting.token]
  OBVIOUS
<1>3. PICK x : x = [grant |-> g, copy |-> NextCopy(g)]
  OBVIOUS
<1>4. tokens' = tokens \cup {g} /\ grants' = grants \cup {x}
  BY <1>2, <1>3 DEF ConnectSucceeds
<1>5. x \notin grants /\ x.grant = g
  BY <1>1, <1>3, NextCopyIsNew DEF TypeOK
<1>6. g.name \in Names /\ Registered(g.name) /\ name_table[g.name].sid = g.sid
      /\ name_table[g.name].token = g.token
  BY <1>1, <1>2 DEF IInv, TableOK, CallOK, Call
<1>7. SameServers
  BY <1>1 DEF SameServers, Registered
<1>8. \A n \in Names : Registered(n) /\ name_table[n].sid = g.sid => n = g.name
  BY <1>6 DEF IInv, TableOK, SidsOK
<1>9. IdsOK' /\ SidsOK'
  <2>1. \A y \in grants' : y.grant.sid <= next_id' /\ y.grant.token <= next_id'
    BY <1>1, <1>4, <1>5, <1>6 DEF IInv, TableOK, IdsOK
  <2>2. \A h \in tokens' : h.token <= next_id'
    BY <1>1, <1>4, <1>6 DEF IInv, TableOK, IdsOK
  <2> QED
    BY <1>1, <2>1, <2>2 DEF IInv, TableOK, IdsOK, SidsOK, Registered
<1>10. TokensOK'
  <2>1. ASSUME NEW h \in tokens', TokenFits(h)'
        PROVE  name_table'[h.name].sid = h.sid /\ \E y \in grants' : y.grant = h
    <3>1. CASE h = g
      BY <1>1, <1>4, <1>5, <1>6, <3>1
    <3>2. CASE h \in tokens
      BY <1>1, <1>4, <2>1, <3>2 DEF IInv, TableOK, TokensOK, TokenFits, Registered
    <3> QED
      BY <1>4, <3>1, <3>2
  <2> QED
    BY <2>1 DEF TokensOK
<1>11. SoloOK'
  BY <1>1, <1>4, <1>5, <1>6, <1>8 DEF IInv, TableOK, SoloOK, Registered
<1>12. ASSUME NEW n \in Names, Registered(n)'
       PROVE  EntryOK(n)'
  <2>1. Registered(n) /\ EntryOK(n)
    BY <1>1, <1>12 DEF IInv, TableOK, EntriesOK, Registered
  <2>2. PICK e : e = name_table[n]
    OBVIOUS
  <2>3. IsFiniteSet(Current(e)) /\ Cardinality(Current(e)) \in Nat
    BY <1>1, CurrentFinite
  <2>4. Pending(name_table[n].sid)' = 0
    BY <1>1 DEF Pending
  <2>5. CASE n = g.name
    <3>1. Current(name_table[n])' = Current(e) \cup {x} /\ x \notin Current(e)
      BY <1>1, <1>4, <1>5, <1>6, <2>2, <2>5 DEF Current, GivenBy
    <3>2. Cardinality(Current(name_table[n])') = Cardinality(Current(e)) + 1
      BY <2>3, <3>1, FS_AddElement
    <3>3. Pending(e.sid) = 1
      BY <1>1, <1>2, <1>6, <2>2, <2>5 DEF Pending
    <3> QED
      BY <1>1, <2>1, <2>2, <2>3, <2>4, <3>2, <3>3 DEF EntryOK
  <2>6. CASE n # g.name
    <3>1. e.sid # g.sid
      BY <1>8, <2>1, <2>2, <2>6
    <3>2. Current(name_table[n])' = Current(e)
      BY <1>1, <1>4, <1>5, <2>2, <3>1 DEF Current, GivenBy
    <3>3. Pending(e.sid) = 0
      BY <1>2, <3>1 DEF Pending
    <3> QED
      BY <1>1, <2>1, <2>2, <2>4, <3>2, <3>3 DEF EntryOK
  <2> QED
    BY <2>5, <2>6
<1>13. EntriesOK'
  BY <1>12 DEF EntriesOK
<1>14. CallOK'
  BY <1>1 DEF CallOK
<1>15. NobodyPassedOver'
  BY <1>1, <1>7, SameServersWaiters
<1> QED
  BY <1>9, <1>10, <1>11, <1>13, <1>14, <1>15 DEF TableOK

LEMMA DisconnectStep ==
    ASSUME IInv, Disconnect
    PROVE  TableOK'
<1> USE NameServerAssumption
<1>1. TypeOK /\ connecting = None /\ registered = None
      /\ UNCHANGED <<waiting_connections, connecting, registered, tokens>>
      /\ next_id' = next_id + 1 /\ next_id \in Nat
  BY DEF IInv, TypeOK, Disconnect, Receive, Idle, Ids
<1>2. PICK g : g = Msg.grant
  OBVIOUS
<1>3. g \in Grant /\ g \in tokens
  BY <1>1, <1>2, HeadOK DEF Disconnect, Receive, Msg, IInv, InboxOK
<1>4. PICK m \in Names : m = g.name
  BY <1>3 DEF Grant
<1>5. TokenFits(g)
  BY <1>2 DEF Disconnect
<1>6. PICK e \in Connection : e = name_table[m]
  BY <1>1, <1>4, <1>5 DEF TypeOK, TokenFits, Registered
<1>7. Registered(m) /\ e.sid = g.sid /\ e.token = g.token /\ \E x \in grants : x.grant = g
  BY <1>3, <1>4, <1>5, <1>6 DEF IInv, TableOK, TokensOK, TokenFits
<1>8. name_table' = [name_table EXCEPT ![m].current_conns = 0, ![m].token = next_id + 1]
  BY <1>2, <1>4 DEF Disconnect
<1>9. grants' = grants \ LastCopy(g)
  BY <1>2 DEF Disconnect
<1>10. PICK f : f = [e EXCEPT !.current_conns = 0, !.token = next_id + 1]
  OBVIOUS
<1>11. name_table'[m] = f /\ \A n \in Names : n # m => name_table'[n] = name_table[n]
  BY <1>1, <1>6, <1>8, <1>10, DisconnectOK
<1>12. f \in Connection /\ f.sid = e.sid /\ f.token = next_id + 1 /\ f.max_conns = e.max_conns
       /\ f.current_conns = 0
  <2>1. PICK k \in Nat : k = next_id + 1
    BY <1>1
  <2>2. f = [e EXCEPT !.current_conns = 0, !.token = k]
    BY <1>10, <2>1
  <2> QED
    BY <1>6, <2>1, <2>2 DEF Connection, Ids
<1>13. \A n \in Names : Registered(n)' <=> Registered(n)
  BY <1>7, <1>11, <1>12 DEF Registered
<1>14. LastCopy(g) \subseteq grants /\ \A x \in LastCopy(g) : x.grant = g
  BY DEF LastCopy
<1>15. \A x \in grants : x.grant.sid \in Nat /\ x.grant.token \in Nat
                         /\ x.grant.sid <= next_id /\ x.grant.token <= next_id
  BY <1>1 DEF TypeOK, Copy, Grant, Ids, IInv, TableOK, IdsOK
<1>16. \A h \in tokens : h.token \in Nat /\ h.token <= next_id /\ h.name \in Names
  BY <1>1 DEF TypeOK, Grant, Ids, IInv, TableOK, IdsOK
<1>17. \A n \in Names : Registered(n) => /\ name_table[n].sid \in Nat /\ name_table[n].token \in Nat
                                         /\ name_table[n].sid <= next_id
                                         /\ name_table[n].token <= next_id
  BY <1>1 DEF TypeOK, Registered, Connection, Ids, IInv, TableOK, IdsOK
<1>18. \A n \in Names : Registered(n) /\ name_table[n].sid = g.sid => n = m
  BY <1>6, <1>7 DEF IInv, TableOK, SidsOK
<1>19. IdsOK'
  <2>1. ASSUME NEW n \in Names, Registered(n)'
        PROVE  name_table'[n].sid <= next_id' /\ name_table'[n].token <= next_id'
    BY <1>1, <1>6, <1>11, <1>12, <1>13, <1>17, <2>1
  <2>2. \A x \in grants' : x.grant.sid <= next_id' /\ x.grant.token <= next_id'
    BY <1>1, <1>9, <1>15
  <2>3. \A h \in tokens' : h.token <= next_id'
    BY <1>1, <1>16
  <2> QED
    BY <2>1, <2>2, <2>3 DEF IdsOK
<1>20. SidsOK'
  BY <1>6, <1>11, <1>12, <1>13 DEF IInv, TableOK, SidsOK
<1>21. TokensOK'
  <2>1. ASSUME NEW h \in tokens', TokenFits(h)'
        PROVE  name_table'[h.name].sid = h.sid /\ \E x \in grants' : x.grant = h
    <3>1. h.name # m
      BY <1>1, <1>11, <1>12, <1>16, <2>1 DEF TokenFits
    <3>2. TokenFits(h) /\ name_table'[h.name] = name_table[h.name] /\ h \in tokens
      BY <1>1, <1>11, <1>13, <1>16, <2>1, <3>1 DEF TokenFits
    <3>3. PICK x \in grants : x.grant = h /\ name_table[h.name].sid = h.sid
      BY <3>2 DEF IInv, TableOK, TokensOK
    <3>4. x \notin LastCopy(g)
      BY <1>4, <1>14, <3>1, <3>3
    <3> QED
      BY <1>9, <3>2, <3>3, <3>4
  <2> QED
    BY <2>1 DEF TokensOK
<1>22. EntryOK(m)
  BY <1>7 DEF IInv, TableOK, EntriesOK
<1>23. ASSUME e.max_conns = 1, NEW x \in grants', x.grant.sid = e.sid
       PROVE  FALSE
  <2>1. x \in grants /\ x \in Current(e)
    BY <1>6, <1>7, <1>9, <1>23 DEF IInv, TableOK, SoloOK, Current, GivenBy
  <2>2. Cardinality(Current(e)) \in Nat /\ IsFiniteSet(Current(e))
    BY <1>1, CurrentFinite
  <2>3. Cardinality(Current(e)) = e.current_conns /\ e.current_conns <= 1
    BY <1>1, <1>6, <1>22, <1>23, <2>2 DEF EntryOK, Pending
  <2>4. Cardinality(Current(e)) = 1
    BY <2>1, <2>2, <2>3, FS_EmptySet
  <2>5. PICK z : Current(e) = {z}
    BY <2>2, <2>4, FS_Singleton
  <2>6. PICK y \in grants : y.grant = g
    BY <1>7
  <2>7. \A w \in grants : w.grant = g => w \in Current(e)
    BY <1>7 DEF Current, GivenBy
  <2>8. y = z /\ x = z
    BY <2>1, <2>5, <2>6, <2>7
  <2>9. y.copy \in Nat
    BY <1>1, <2>6 DEF TypeOK, Copy
  <2>10. y \in LastCopy(g)
    BY <2>5, <2>6, <2>7, <2>8, <2>9 DEF LastCopy
  <2> QED
    BY <1>9, <1>23, <2>8, <2>10
<1>24. SoloOK'
  BY <1>6, <1>9, <1>11, <1>12, <1>13, <1>23 DEF IInv, TableOK, SoloOK
<1>25. CallOK'
  BY <1>1 DEF CallOK
<1>26. NobodyPassedOver'
  <2>1. \A i \in DOMAIN waiting_connections : waiting_connections[i].name \in Names
    BY <1>1, WaiterNames DEF TypeOK
  <2> QED
    BY <1>1, <1>6, <1>11, <1>12, <1>13, <2>1 DEF IInv, TableOK, NobodyPassedOver
<1>27. ASSUME NEW n \in Names, Registered(n)'
       PROVE  EntryOK(n)'
  <2>1. Registered(n) /\ EntryOK(n)
    BY <1>13, <1>27 DEF IInv, TableOK, EntriesOK
  <2>2. Pending(name_table[n].sid)' = 0 /\ Pending(name_table[n].sid) = 0
    BY <1>1 DEF Pending
  <2>3. CASE n = m
    <3>1. Current(name_table[n])' = {}
      BY <1>1, <1>9, <1>11, <1>12, <1>15, <2>3 DEF Current, GivenBy
    <3>2. Cardinality(Current(name_table[n])') = 0
      BY <3>1, FS_EmptySet
    <3>3. f.max_conns # Unlimited => 0 <= f.max_conns
      BY <1>12 DEF Connection
    <3> QED
      BY <1>11, <1>12, <2>2, <2>3, <3>2, <3>3 DEF EntryOK
  <2>4. CASE n # m
    <3>1. name_table'[n] = name_table[n] /\ name_table[n].sid # g.sid
      BY <1>11, <1>18, <2>1, <2>4
    <3>2. Current(name_table[n])' = Current(name_table[n])
      BY <1>9, <1>14, <3>1 DEF Current, GivenBy
    <3> QED
      BY <2>1, <2>2, <3>1, <3>2 DEF EntryOK
  <2> QED
    BY <2>3, <2>4
<1>28. EntriesOK'
  BY <1>27 DEF EntriesOK
<1> QED
  BY <1>19, <1>20, <1>21, <1>24, <1>25, <1>26, <1>28 DEF TableOK
-----------------------------------------------------------------------------
(* The invariant *)

LEMMA InboxStep ==
    ASSUME IInv, Next
    PROVE  InboxOK'
<1>1. TypeOK /\ InboxOK
  BY DEF IInv
<1>2. CASE Serve
  <2>1. UNCHANGED inbox \/ (inbox # <<>> /\ inbox' = Tail(inbox))
    BY <1>2 DEF Serve, Register, RegisterTaken, ConnectWaiter, WaiterPanic, RegisterDone, Unregister,
                UnregisterIgnored, Connect, ConnectWaits, ConnectRefused, ConnectSucceeds,
                ConnectFails, LookupPanic, Disconnect, DisconnectRefused, Receive
  <2>2. tokens \subseteq tokens'
    BY <1>2 DEF Serve, Register, RegisterTaken, ConnectWaiter, WaiterPanic, RegisterDone, Unregister,
                UnregisterIgnored, Connect, ConnectWaits, ConnectRefused, ConnectSucceeds,
                ConnectFails, LookupPanic, Disconnect, DisconnectRefused, clientVars
  <2> QED
    BY <1>1, <2>1, <2>2, TailOK DEF InboxOK
<1>3. ASSUME NEW m \in Message, Send(m), UNCHANGED tokens, m.op = "Disconnect" => m.grant \in tokens
      PROVE  InboxOK'
  BY <1>1, <1>3, SendOK DEF InboxOK
<1>4. ASSUME UNCHANGED <<inbox, tokens>>
      PROVE  InboxOK'
  BY <1>1, <1>4 DEF InboxOK
<1>5. ASSUME NEW r \in Registrants, register_name(r) \/ unregister_server(r)
      PROVE  InboxOK'
  BY <1>3, <1>5 DEF register_name, unregister_server, Message
<1>6. ASSUME NEW r \in Registrants, CreateServer(r) \/ DestroyServer(r) \/ TerminateRegistrant(r)
      PROVE  InboxOK'
  BY <1>4, <1>6 DEF CreateServer, DestroyServer, TerminateRegistrant
<1>7. ASSUME NEW c \in Clients, NEW op \in ConnectOps, NEW n \in Names, request_connection(c, op, n)
      PROVE  InboxOK'
  BY <1>3, <1>7 DEF request_connection, Message, ConnectOps
<1>8. ASSUME NEW c \in Clients, NEW g \in tokens, disconnect_with_token(c, g)
      PROVE  InboxOK'
  <2>1. g \in Grant
    BY <1>1 DEF TypeOK
  <2> QED
    BY <1>3, <1>8, <2>1 DEF disconnect_with_token, Message
<1>9. ASSUME NEW c \in Clients, TerminateClient(c)
      PROVE  InboxOK'
  BY <1>4, <1>9 DEF TerminateClient
<1> QED
  BY <1>2, <1>5, <1>6, <1>7, <1>8, <1>9 DEF Next

LEMMA TableStep ==
    ASSUME IInv, Next
    PROVE  TableOK'
<1>1. CASE RegisterTaken \/ WaiterPanic \/ UnregisterIgnored \/ ConnectRefused \/ LookupPanic
             \/ DisconnectRefused
  BY <1>1, TableUnchanged DEF RegisterTaken, WaiterPanic, UnregisterIgnored, ConnectRefused,
                              LookupPanic, DisconnectRefused, tableVars, nameVars, clientVars
<1>2. CASE \E r \in Registrants :
             register_name(r) \/ CreateServer(r) \/ unregister_server(r) \/ DestroyServer(r)
               \/ TerminateRegistrant(r)
  BY <1>2, TableUnchanged DEF register_name, CreateServer, unregister_server, DestroyServer,
                              TerminateRegistrant, tableVars, nameVars
<1>3. CASE \E c \in Clients :
             \/ \E op \in ConnectOps, n \in Names : request_connection(c, op, n)
             \/ \E g \in tokens : disconnect_with_token(c, g)
             \/ TerminateClient(c)
  BY <1>3, TableUnchanged DEF request_connection, disconnect_with_token, TerminateClient, tableVars,
                              nameVars
<1> QED
  BY <1>1, <1>2, <1>3, ConnectStep, ConnectWaiterStep, ConnectWaitsStep, RegisterDoneStep, RegisterStep,
     UnregisterStep, ConnectFailsStep, ConnectSucceedsStep, DisconnectStep DEF Next, Serve

LEMMA InitIInv == Init => IInv
<1> SUFFICES ASSUME Init PROVE IInv
  OBVIOUS
<1> USE NameServerAssumption
<1>1. panicked \in BOOLEAN
  BY Zenon DEF Init
<1>2. IsFiniteSet(grants)
  BY FS_EmptySet DEF Init
<1>3. TypeOK
  BY <1>1, <1>2 DEF Init, TypeOK, Ids
<1>4. InboxOK
  BY DEF Init, InboxOK
<1>5. TableOK
  BY DEF Init, TableOK, EntriesOK, NobodyPassedOver, IdsOK, SidsOK, CallOK, TokensOK, SoloOK, Registered
<1> QED
  BY <1>3, <1>4, <1>5 DEF IInv

LEMMA NextIInv == IInv /\ [Next]_vars => IInv'
<1> SUFFICES ASSUME IInv, [Next]_vars PROVE IInv'
  OBVIOUS
<1>1. TypeOK'
  BY TypeStep DEF IInv
<1>2. CASE Next
  BY <1>1, <1>2, InboxStep, TableStep DEF IInv
<1>3. CASE UNCHANGED vars
  <2>1. TableOK'
    BY <1>3, TableUnchanged DEF vars, nameVars, clientVars, tableVars
  <2>2. InboxOK'
    BY <1>3 DEF vars, clientVars, IInv, InboxOK
  <2> QED
    BY <1>1, <2>1, <2>2 DEF IInv
<1> QED
  BY <1>2, <1>3

LEMMA SpecIInv == Spec => []IInv
BY InitIInv, NextIInv, PTL DEF Spec
-----------------------------------------------------------------------------
(* The theorems *)

\* current_conns of every registered name counts the connections in use under
\* its token and the one being made, and max_conns bounds it (CheckedHashMap).
THEOREM CountsAlwaysAgree == Spec => []CountsAgree
<1>1. IInv => CountsAgree
  BY DEF IInv, TableOK, EntriesOK, EntryOK, CountsAgree
<1> QED
  BY <1>1, SpecIInv, PTL

\* A server that allows a single connection has at most one client, whatever
\* tokens are given back and whatever servers had its name before.
THEOREM OneClientAtATime == Spec => []OneClient
<1>1. ASSUME IInv, NEW n \in Names, Registered(n), name_table[n].max_conns = 1
      PROVE  Cardinality(GivenBy(name_table[n])) <= 1
  <2> USE NameServerAssumption
  <2>1. PICK e \in Connection : e = name_table[n]
    BY <1>1 DEF IInv, TypeOK, Registered
  <2>2. GivenBy(e) = Current(e)
    BY <1>1, <2>1 DEF IInv, TableOK, SoloOK, GivenBy, Current
  <2>3. Cardinality(Current(e)) \in Nat
    BY <1>1, CurrentFinite DEF IInv
  <2>4. e.current_conns = Cardinality(Current(e)) + Pending(e.sid) /\ e.current_conns <= 1
    BY <1>1, <2>1 DEF IInv, TableOK, EntriesOK, EntryOK
  <2>5. Pending(e.sid) \in {0, 1}
    BY DEF Pending
  <2> QED
    BY <2>1, <2>2, <2>3, <2>4, <2>5
<1>2. IInv => OneClient
  BY <1>1 DEF OneClient
<1> QED
  BY <1>2, SpecIInv, PTL

\* The loop of Register over waiting_connections passes over nobody who could
\* be connected.
THEOREM NobodyEverPassedOver == Spec => []NobodyPassedOver
<1>1. IInv => NobodyPassedOver
  BY DEF IInv, TableOK
<1> QED
  BY <1>1, SpecIInv, PTL
=============================================================================
