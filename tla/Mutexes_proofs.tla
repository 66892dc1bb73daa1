--------------------------- MODULE Mutexes_proofs ---------------------------
(***************************************************************************)
(* Proofs about the mutexes of the ticktimer and of the standard library,     *)
(* for every number of threads, processes and addresses.                     *)
(***************************************************************************)
EXTENDS Mutexes, FiniteSetTheorems, SequenceTheorems, TLAPS

-----------------------------------------------------------------------------
(* The inductive invariant *)

\* A thread that is idle is there for no mutex, the others for one of their process.
StagesOK ==
    \A t \in Threads :
        /\ stage[t] # "gone"
        /\ IF stage[t] = "idle" THEN wants[t] = None
           ELSE wants[t] \in Places /\ wants[t][1] = ProcessOf[t]

\* std's counter is the number of its users.
CountsOK == \A p \in Places : locked[p] = Cardinality(Users(p))

Locks(i) == i \in DOMAIN inbox /\ inbox[i].op = "LockMutex"

\* Whoever is asked for, or waited for, at the server waits there, once.
RequestsOK ==
    /\ \A i \in DOMAIN inbox : Locks(i) =>
          inbox[i].blocking /\ At(inbox[i].thread, inbox[i].place, {"waiting"})
    /\ \A i, j \in DOMAIN inbox : Locks(i) /\ Locks(j) /\ inbox[i].thread = inbox[j].thread => i = j
    /\ \A p \in Places : \A k \in DOMAIN mutex_hash[p] :
          /\ At(mutex_hash[p][k], p, {"waiting"})
          /\ \A l \in DOMAIN mutex_hash[p] : mutex_hash[p][k] = mutex_hash[p][l] => k = l
          /\ \A i \in DOMAIN inbox : Locks(i) => inbox[i].thread # mutex_hash[p][k]

\* When FreeMutex is handled, the server has nothing about the mutex any more.
FreesOK ==
    \A i \in DOMAIN inbox : inbox[i].op = "FreeMutex" =>
        LET p == inbox[i].place
        IN  /\ p \notin mutex_ready_table
            /\ mutex_hash[p] = <<>>
            /\ \A j \in DOMAIN inbox : j < i /\ inbox[j].place = p => inbox[j].op = "FreeMutex"

IInv == OneToken /\ StagesOK /\ CountsOK /\ RequestsOK /\ FreesOK /\ panicked = FALSE
-----------------------------------------------------------------------------
(* The queue *)

\* What Append does to a sequence, by index.
LEMMA Appended ==
    ASSUME NEW S, NEW s \in Seq(S), NEW e \in S, NEW t, t = Append(s, e)
    PROVE  /\ t \in Seq(S)
           /\ DOMAIN s = 1 .. Len(s) /\ Len(s) \in Nat
           /\ DOMAIN t = 1 .. Len(s) + 1
           /\ \A i \in 1 .. Len(s) : t[i] = s[i]
           /\ t[Len(s) + 1] = e
BY AppendProperties, LenProperties

\* What Head and Tail are, by index.
LEMMA Shifted ==
    ASSUME NEW S, NEW s \in Seq(S), s # <<>>, NEW t, t = Tail(s)
    PROVE  /\ t \in Seq(S)
           /\ DOMAIN s = 1 .. Len(s) /\ Len(s) \in Nat \ {0}
           /\ DOMAIN t = 1 .. Len(s) - 1
           /\ \A i \in 1 .. Len(s) - 1 : t[i] = s[i + 1]
           /\ Head(s) = s[1] /\ Head(s) \in S
<1>1. t \in Seq(S) /\ Head(s) \in S /\ Len(t) = Len(s) - 1
        /\ \A i \in 1 .. Len(t) : t[i] = s[i + 1]
    BY HeadTailProperties
<1>2. DOMAIN s = 1 .. Len(s) /\ Len(s) \in Nat \ {0} /\ DOMAIN t = 1 .. Len(t)
    BY <1>1, LenProperties, EmptySeq
<1>3. Head(s) = s[1]
    OBVIOUS
<1> QED BY <1>1, <1>2, <1>3

-----------------------------------------------------------------------------
LEMMA InitIInv == Init => IInv
<1> SUFFICES ASSUME Init PROVE IInv
    OBVIOUS
<1>1. \A t \in Threads : stage[t] = "idle" /\ wants[t] = None
    BY DEF Init
<1>2. DOMAIN inbox = {}
    BY DEF Init
<1>3. TypeOK
  <2>1. inbox \in Seq(Message) /\ mutex_hash \in [Places -> Seq(Threads)]
      BY EmptySeq DEF Init
  <2>2. panicked \in BOOLEAN
      BY Zenon DEF Init
  <2> QED BY <2>1, <2>2 DEF Init, TypeOK, Stages
<1>4. \A p \in Places : Bearers(p) = {} /\ Unlocks(p) = {} /\ Users(p) = {}
    BY <1>1, <1>2 DEF Bearers, Unlocks, Users, At
<1>5. OneToken
    BY <1>3, <1>4 DEF Init, OneToken
<1>6. CountsOK
    BY <1>4, FS_EmptySet DEF Init, CountsOK
<1>7. RequestsOK /\ FreesOK
    BY <1>2 DEF Init, RequestsOK, FreesOK
<1> QED BY <1>1, <1>5, <1>6, <1>7 DEF Init, IInv, StagesOK

-----------------------------------------------------------------------------
(* Counting users *)

LEMMA UsersFinite ==
    ASSUME NEW p
    PROVE  /\ IsFiniteSet(Users(p)) /\ Cardinality(Users(p)) \in Nat
           /\ Cardinality(Users(p)) = 0 <=> Users(p) = {}
BY MutexesAssumption, FS_Subset, FS_CardinalityType, FS_EmptySet DEF Users

\* Only the mutex p changes its users and its counter.
LEMMA CountsKept ==
    ASSUME NEW p \in Places, CountsOK, locked'[p] = Cardinality(Users(p)'),
           \A q \in Places : q # p => Users(q)' = Users(q) /\ locked'[q] = locked[q]
    PROVE  CountsOK'
BY DEF CountsOK

\* A thread becomes a user of p.
LEMMA UserAdded ==
    ASSUME NEW p \in Places, NEW t \in Threads, t \notin Users(p), CountsOK,
           Users(p)' = Users(p) \cup {t}, locked'[p] = locked[p] + 1
    PROVE  locked'[p] = Cardinality(Users(p)')
BY UsersFinite, FS_AddElement DEF CountsOK

\* A thread is a user of p no more.
LEMMA UserRemoved ==
    ASSUME NEW p \in Places, NEW t \in Threads, t \in Users(p), CountsOK,
           Users(p)' = Users(p) \ {t}, locked'[p] = locked[p] - 1
    PROVE  /\ locked'[p] = Cardinality(Users(p)')
           /\ locked[p] = 1 <=> Users(p)' = {}
<1>1. Cardinality(Users(p) \ {t}) = Cardinality(Users(p)) - 1
    BY UsersFinite, FS_RemoveElement
<1>2. IsFiniteSet(Users(p) \ {t})
    BY UsersFinite, FS_Subset
<1>3. Cardinality(Users(p) \ {t}) = 0 <=> Users(p) \ {t} = {}
    BY <1>2, FS_EmptySet
<1> QED BY <1>1, <1>3, UsersFinite DEF CountsOK

-----------------------------------------------------------------------------
(* What the steps have in common *)

LEMMA PlaceType ==
    ASSUME NEW t \in Threads, NEW a \in Addresses
    PROVE  Place(t, a) \in Places /\ Place(t, a)[1] = ProcessOf[t]
BY MutexesAssumption DEF Place, Places

\* One thread moves.
LEMMA Moved ==
    ASSUME TypeOK, NEW t \in Threads, NEW to \in Stages, NEW p \in Places \cup {None},
           stage' = [stage EXCEPT ![t] = to], wants' = [wants EXCEPT ![t] = p] \/ (wants' = wants /\ wants[t] = p)
    PROVE  /\ stage' \in [Threads -> Stages] /\ wants' \in [Threads -> Places \cup {None}]
           /\ stage'[t] = to /\ wants'[t] = p
           /\ \A u \in Threads : u # t => stage'[u] = stage[u] /\ wants'[u] = wants[u]
BY DEF TypeOK

\* The unlock messages of a mutex when one message is queued ...
LEMMA UnlocksAppended ==
    ASSUME TypeOK, NEW m \in Message, inbox' = Append(inbox, m), NEW q
    PROVE  Unlocks(q)' = IF m.op = "UnlockMutex" /\ m.place = q
                         THEN Unlocks(q) \cup {Len(inbox) + 1} ELSE Unlocks(q)
<1>1. /\ DOMAIN inbox = 1 .. Len(inbox) /\ Len(inbox) \in Nat
      /\ DOMAIN inbox' = 1 .. Len(inbox) + 1
      /\ \A i \in 1 .. Len(inbox) : inbox'[i] = inbox[i]
      /\ inbox'[Len(inbox) + 1] = m
    BY Appended DEF TypeOK
<1> QED BY <1>1 DEF Unlocks

\* ... and when the oldest one is received.
LEMMA UnlocksShifted ==
    ASSUME TypeOK, inbox # <<>>, inbox' = Tail(inbox), NEW q, \A i, j \in Unlocks(q) : i = j
    PROVE  /\ \A i, j \in Unlocks(q)' : i = j
           /\ Head(inbox).op = "UnlockMutex" /\ Head(inbox).place = q
                => 1 \in Unlocks(q) /\ Unlocks(q)' = {}
           /\ ~(Head(inbox).op = "UnlockMutex" /\ Head(inbox).place = q)
                => (Unlocks(q)' = {} <=> Unlocks(q) = {})
<1>1. /\ DOMAIN inbox = 1 .. Len(inbox) /\ Len(inbox) \in Nat \ {0}
      /\ DOMAIN inbox' = 1 .. Len(inbox) - 1
      /\ \A i \in 1 .. Len(inbox) - 1 : inbox'[i] = inbox[i + 1]
      /\ Head(inbox) = inbox[1]
    BY Shifted DEF TypeOK
<1>2. \A i : i \in Unlocks(q)' <=> i \in 1 .. Len(inbox) - 1 /\ i + 1 \in Unlocks(q)
    BY <1>1 DEF Unlocks
<1>3. \A i \in Unlocks(q) : i = 1 \/ i - 1 \in Unlocks(q)'
    BY <1>1, <1>2 DEF Unlocks
<1>4. 1 \in Unlocks(q) <=> Head(inbox).op = "UnlockMutex" /\ Head(inbox).place = q
    BY <1>1 DEF Unlocks
<1>5. \A i, j \in Unlocks(q)' : i = j
    BY <1>2
<1>6. 1 \in Unlocks(q) => Unlocks(q)' = {}
    BY <1>2
<1>7. 1 \notin Unlocks(q) => (Unlocks(q)' = {} <=> Unlocks(q) = {})
    BY <1>2, <1>3
<1> QED BY <1>4, <1>5, <1>6, <1>7

\* What the server's records say stays right when a message is received that is not handled
\* by adding to them.
LEMMA RecordsShifted ==
    ASSUME TypeOK, RequestsOK, FreesOK, inbox # <<>>, inbox' = Tail(inbox),
           mutex_hash' = mutex_hash, mutex_ready_table' \subseteq mutex_ready_table,
           NEW t, \A u \in Threads : u # t => stage'[u] = stage[u] /\ wants'[u] = wants[u],
           \A i \in DOMAIN inbox : i # 1 /\ Locks(i) => inbox[i].thread # t,
           \A p \in Places : \A k \in DOMAIN mutex_hash[p] : mutex_hash[p][k] # t
    PROVE  RequestsOK' /\ FreesOK'
<1>1. /\ DOMAIN inbox = 1 .. Len(inbox) /\ Len(inbox) \in Nat \ {0}
      /\ DOMAIN inbox' = 1 .. Len(inbox) - 1
      /\ \A i \in 1 .. Len(inbox) - 1 : inbox'[i] = inbox[i + 1]
      /\ \A i \in 1 .. Len(inbox) : inbox[i] \in Message
    BY Shifted, ElementOfSeq DEF TypeOK
<1>2. \A p \in Places : \A k \in DOMAIN mutex_hash[p] : mutex_hash[p][k] \in Threads
    BY ElementOfSeq, LenProperties DEF TypeOK
<1>3. RequestsOK'
    BY <1>1, <1>2 DEF RequestsOK, At, Locks, Message
<1>4. FreesOK'
    BY <1>1 DEF FreesOK
<1> QED BY <1>3, <1>4

\* What the messages are made of.
LEMMA MessageType ==
    ASSUME TypeOK, NEW i \in DOMAIN inbox
    PROVE  /\ inbox[i] \in Message
           /\ inbox[i].thread \in Threads /\ inbox[i].place \in Places
           /\ inbox[i].op \in {"LockMutex", "UnlockMutex", "FreeMutex"}
<1>1. inbox[i] \in Message
    BY ElementOfSeq, LenProperties DEF TypeOK
<1> QED BY <1>1 DEF Message

\* The same when a client that has nothing on record takes a step and sends nothing ...
LEMMA RecordsKept ==
    ASSUME TypeOK, RequestsOK, FreesOK, UNCHANGED <<inbox, mutex_hash, mutex_ready_table>>,
           NEW t \in Threads, stage[t] # "waiting",
           \A u \in Threads : u # t => stage'[u] = stage[u] /\ wants'[u] = wants[u]
    PROVE  RequestsOK' /\ FreesOK'
<1>1. \A i \in DOMAIN inbox : inbox[i].thread \in Threads
    BY MessageType
<1>2. \A p \in Places : \A k \in DOMAIN mutex_hash[p] : mutex_hash[p][k] \in Threads
    BY ElementOfSeq, LenProperties DEF TypeOK
<1>3. RequestsOK'
    BY <1>1, <1>2 DEF RequestsOK, At, Locks
<1>4. FreesOK'
    BY DEF FreesOK
<1> QED BY <1>3, <1>4

\* ... and when it sends a message.
LEMMA RecordsAppended ==
    ASSUME TypeOK, RequestsOK, FreesOK, UNCHANGED <<mutex_hash, mutex_ready_table>>,
           NEW m \in Message, inbox' = Append(inbox, m),
           NEW t \in Threads, stage[t] # "waiting",
           \A u \in Threads : u # t => stage'[u] = stage[u] /\ wants'[u] = wants[u],
           m.op = "LockMutex" =>
               m.blocking /\ m.thread = t /\ stage'[t] = "waiting" /\ wants'[t] = m.place,
           m.op = "FreeMutex" =>
               /\ m.place \notin mutex_ready_table
               /\ mutex_hash[m.place] = <<>>
               /\ \A j \in DOMAIN inbox : inbox[j].place = m.place => inbox[j].op = "FreeMutex"
    PROVE  RequestsOK' /\ FreesOK'
<1>1. /\ DOMAIN inbox = 1 .. Len(inbox) /\ Len(inbox) \in Nat
      /\ DOMAIN inbox' = 1 .. Len(inbox) + 1
      /\ \A i \in 1 .. Len(inbox) : inbox'[i] = inbox[i]
      /\ inbox'[Len(inbox) + 1] = m
    BY Appended DEF TypeOK
<1>2. \A i \in 1 .. Len(inbox) : inbox[i].thread \in Threads
    BY <1>1, MessageType
<1>3. \A p \in Places : \A k \in DOMAIN mutex_hash[p] : mutex_hash[p][k] \in Threads
    BY ElementOfSeq, LenProperties DEF TypeOK
<1>4. \A i \in 1 .. Len(inbox) : Locks(i) => inbox[i].thread # t
    BY <1>1, <1>2 DEF RequestsOK, At
<1>5. \A p \in Places : \A k \in DOMAIN mutex_hash[p] : mutex_hash[p][k] # t
    BY <1>3 DEF RequestsOK, At
<1>6. \A i : Locks(i)' <=> (i \in 1 .. Len(inbox) /\ Locks(i)) \/ (i = Len(inbox) + 1 /\ m.op = "LockMutex")
    BY <1>1 DEF Locks
<1>7. RequestsOK'
  <2>1. \A i \in DOMAIN inbox' : Locks(i)' => inbox'[i].blocking /\ At(inbox[i].thread, inbox[i].place, {"waiting"})'
    <3> SUFFICES ASSUME NEW i \in DOMAIN inbox', Locks(i)'
                 PROVE  inbox'[i].blocking /\ At(inbox[i].thread, inbox[i].place, {"waiting"})'
        OBVIOUS
    <3>1. CASE i \in 1 .. Len(inbox)
      <4>1. Locks(i) /\ i \in DOMAIN inbox /\ inbox'[i] = inbox[i]
          BY <1>1, <1>6, <3>1
      <4>2. inbox'[i].blocking
          BY <4>1, Zenon DEF RequestsOK
      <4>3. At(inbox[i].thread, inbox[i].place, {"waiting"})'
          BY <1>2, <1>4, <3>1, <4>1 DEF RequestsOK, At
      <4> QED BY <4>2, <4>3
    <3>2. CASE i = Len(inbox) + 1
      <4>1. inbox'[i] = m /\ m.op = "LockMutex"
          BY <1>1, <1>6, <3>2
      <4>2. inbox'[i].blocking
          BY <4>1, Zenon
      <4>3. At(inbox[i].thread, inbox[i].place, {"waiting"})'
          BY <4>1 DEF At
      <4> QED BY <4>2, <4>3
    <3> QED BY <1>1, <3>1, <3>2
  <2>2. \A i, j \in DOMAIN inbox' : Locks(i)' /\ Locks(j)' /\ inbox'[i].thread = inbox'[j].thread => i = j
      BY <1>1, <1>2, <1>4, <1>6 DEF RequestsOK
  <2>3. \A p \in Places : \A k \in DOMAIN mutex_hash'[p] :
            /\ At(mutex_hash[p][k], p, {"waiting"})'
            /\ \A l \in DOMAIN mutex_hash'[p] : mutex_hash'[p][k] = mutex_hash'[p][l] => k = l
      BY <1>3, <1>5 DEF RequestsOK, At
  <2>4. \A p \in Places : \A k \in DOMAIN mutex_hash'[p] :
            \A i \in DOMAIN inbox' : Locks(i)' => inbox'[i].thread # mutex_hash'[p][k]
      BY <1>1, <1>5, <1>6 DEF RequestsOK
  <2> QED BY <2>1, <2>2, <2>3, <2>4, Zenon DEF RequestsOK
<1>8. FreesOK'
    BY <1>1 DEF FreesOK
<1> QED BY <1>7, <1>8

-----------------------------------------------------------------------------
(* The steps of a client *)

LEMMA AcquireFastStep ==
    ASSUME IInv, NEW t \in Threads, NEW a \in Addresses, AcquireFast(t, a)
    PROVE  IInv'
<1> DEFINE p == Place(t, a)
<1>0. p \in Places /\ p[1] = ProcessOf[t]
    BY PlaceType
<1>1. /\ stage[t] = "idle" /\ locked[p] = 0 /\ locked' = [locked EXCEPT ![p] = 1]
      /\ stage' = [stage EXCEPT ![t] = "holding"] /\ wants' = [wants EXCEPT ![t] = p]
      /\ UNCHANGED <<inbox, mutex_ready_table, mutex_hash, contended, panicked>>
    BY DEF AcquireFast, Moves, serverVars
<1> HIDE DEF p
<1>2. TypeOK /\ panicked' = FALSE
    BY <1>1 DEF IInv, OneToken
<1>3. /\ stage' \in [Threads -> Stages] /\ wants' \in [Threads -> Places \cup {None}]
      /\ stage'[t] = "holding" /\ wants'[t] = p
      /\ \A u \in Threads : u # t => stage'[u] = stage[u] /\ wants'[u] = wants[u]
    BY <1>0, <1>1, <1>2, Moved DEF Stages
<1>4. TypeOK'
    BY <1>0, <1>1, <1>2, <1>3 DEF TypeOK
<1>5. Users(p) = {} /\ Users(p)' = Users(p) \cup {t} /\ Bearers(p)' = Bearers(p) \cup {t}
    BY <1>0, <1>1, <1>3, UsersFinite DEF IInv, CountsOK, Users, Bearers, At
<1>6. \A q \in Places : q # p => Users(q)' = Users(q) /\ Bearers(q)' = Bearers(q)
    BY <1>1, <1>2, <1>3 DEF Users, Bearers, At
<1>7. \A q \in Places : Unlocks(q)' = Unlocks(q)
    BY <1>1 DEF Unlocks
<1>8. OneToken'
    BY <1>0, <1>1, <1>4, <1>5, <1>6, <1>7 DEF IInv, OneToken
<1>9. CountsOK'
  <2>1. locked'[p] = locked[p] + 1 /\ \A q \in Places : q # p => locked'[q] = locked[q]
      BY <1>0, <1>1, <1>2 DEF TypeOK
  <2>2. locked'[p] = Cardinality(Users(p)')
      BY <1>0, <1>5, <2>1, UserAdded DEF IInv
  <2> QED BY <1>0, <1>6, <2>1, <2>2, CountsKept DEF IInv
<1>10. RequestsOK' /\ FreesOK'
    BY <1>1, <1>2, <1>3, RecordsKept DEF IInv
<1>11. StagesOK'
    BY <1>0, <1>1, <1>3 DEF IInv, StagesOK
<1> QED BY <1>2, <1>8, <1>9, <1>10, <1>11 DEF IInv

LEMMA ContendStep ==
    ASSUME IInv, NEW t \in Threads, NEW a \in Addresses, Contend(t, a)
    PROVE  IInv'
<1> DEFINE p == Place(t, a)
<1>0. p \in Places /\ p[1] = ProcessOf[t]
    BY PlaceType
<1>1. /\ stage[t] = "idle" /\ locked[p] > 0 /\ locked' = [locked EXCEPT ![p] = locked[p] + 1]
      /\ stage' = [stage EXCEPT ![t] = "contending"] /\ wants' = [wants EXCEPT ![t] = p]
      /\ contended' = contended \cup {p}
      /\ UNCHANGED <<inbox, mutex_ready_table, mutex_hash, panicked>>
    BY DEF Contend, Moves, serverVars
<1> HIDE DEF p
<1>2. TypeOK /\ panicked' = FALSE
    BY <1>1 DEF IInv, OneToken
<1>3. /\ stage' \in [Threads -> Stages] /\ wants' \in [Threads -> Places \cup {None}]
      /\ stage'[t] = "contending" /\ wants'[t] = p
      /\ \A u \in Threads : u # t => stage'[u] = stage[u] /\ wants'[u] = wants[u]
    BY <1>0, <1>1, <1>2, Moved DEF Stages
<1>4. TypeOK'
    BY <1>0, <1>1, <1>2, <1>3 DEF TypeOK
<1>5. Users(p) # {} /\ t \notin Users(p) /\ Users(p)' = Users(p) \cup {t} /\ Bearers(p)' = Bearers(p)
  <2>1. Users(p) # {}
      BY <1>0, <1>1, UsersFinite DEF IInv, CountsOK
  <2>2. t \notin Users(p) /\ Users(p)' = Users(p) \cup {t} /\ Bearers(p)' = Bearers(p)
      BY <1>1, <1>3 DEF Users, Bearers, At
  <2> QED BY <2>1, <2>2
<1>6. \A q \in Places : q # p => Users(q)' = Users(q) /\ Bearers(q)' = Bearers(q)
    BY <1>1, <1>2, <1>3 DEF Users, Bearers, At
<1>7. \A q \in Places : Unlocks(q)' = Unlocks(q)
    BY <1>1 DEF Unlocks
<1>8. OneToken'
    BY <1>0, <1>1, <1>4, <1>5, <1>6, <1>7 DEF IInv, OneToken
<1>9. CountsOK'
  <2>1. locked'[p] = locked[p] + 1 /\ \A q \in Places : q # p => locked'[q] = locked[q]
      BY <1>0, <1>1, <1>2 DEF TypeOK
  <2>2. locked'[p] = Cardinality(Users(p)')
      BY <1>0, <1>5, <2>1, UserAdded DEF IInv
  <2> QED BY <1>0, <1>6, <2>1, <2>2, CountsKept DEF IInv
<1>10. RequestsOK' /\ FreesOK'
    BY <1>1, <1>2, <1>3, RecordsKept DEF IInv
<1>11. StagesOK'
    BY <1>0, <1>1, <1>3 DEF IInv, StagesOK
<1> QED BY <1>2, <1>8, <1>9, <1>10, <1>11 DEF IInv

LEMMA SendLockStep ==
    ASSUME IInv, NEW t \in Threads, SendLock(t)
    PROVE  IInv'
<1>0. PICK p : p = wants[t]
    OBVIOUS
<1> DEFINE m == [op |-> "LockMutex", thread |-> t, place |-> p, blocking |-> TRUE]
<1>1. /\ stage[t] = "contending" /\ inbox' = Append(inbox, m)
      /\ stage' = [stage EXCEPT ![t] = "waiting"] /\ wants' = [wants EXCEPT ![t] = p]
      /\ UNCHANGED <<mutex_ready_table, mutex_hash, locked, contended, panicked>>
    BY <1>0 DEF SendLock, Send, Moves, serverVars, stdVars
<1>2. TypeOK /\ p \in Places /\ p[1] = ProcessOf[t] /\ panicked' = FALSE
    BY <1>0, <1>1 DEF IInv, OneToken, StagesOK
<1>3. m \in Message /\ m.op = "LockMutex" /\ m.thread = t /\ m.place = p /\ m.blocking
    BY <1>2 DEF Message
<1>4. /\ stage' \in [Threads -> Stages] /\ wants' \in [Threads -> Places \cup {None}]
      /\ stage'[t] = "waiting" /\ wants'[t] = p
      /\ \A u \in Threads : u # t => stage'[u] = stage[u] /\ wants'[u] = wants[u]
    BY <1>1, <1>2, Moved DEF Stages
<1> HIDE DEF m
<1>5. TypeOK'
    BY <1>1, <1>2, <1>3, <1>4, Appended DEF TypeOK
<1>6. \A q \in Places : Users(q)' = Users(q) /\ Bearers(q)' = Bearers(q)
    BY <1>0, <1>1, <1>4 DEF Users, Bearers, At
<1>7. \A q \in Places : Unlocks(q)' = Unlocks(q)
    BY <1>1, <1>2, <1>3, UnlocksAppended
<1>8. OneToken'
    BY <1>1, <1>5, <1>6, <1>7 DEF IInv, OneToken
<1>9. CountsOK'
    BY <1>1, <1>6 DEF IInv, CountsOK
<1>10. RequestsOK' /\ FreesOK'
    BY <1>1, <1>2, <1>3, <1>4, RecordsAppended DEF IInv
<1>11. StagesOK'
    BY <1>1, <1>2, <1>4 DEF IInv, StagesOK
<1> QED BY <1>2, <1>8, <1>9, <1>10, <1>11 DEF IInv

LEMMA UnlockStep ==
    ASSUME IInv, NEW t \in Threads, Unlock(t)
    PROVE  IInv'
<1>0. PICK p : p = wants[t]
    OBVIOUS
<1>1. /\ stage[t] = "holding" /\ locked' = [locked EXCEPT ![p] = locked[p] - 1]
      /\ IF locked[p] = 1 THEN Moves(t, "idle", None) ELSE Moves(t, "releasing", p)
      /\ UNCHANGED <<inbox, mutex_ready_table, mutex_hash, contended, panicked>>
    BY <1>0 DEF Unlock, serverVars
<1>2. TypeOK /\ p \in Places /\ p[1] = ProcessOf[t] /\ panicked' = FALSE
    BY <1>0, <1>1 DEF IInv, OneToken, StagesOK
<1>3. PICK to \in {"idle", "releasing"}, w \in {p, None} :
        /\ stage' = [stage EXCEPT ![t] = to] /\ wants' = [wants EXCEPT ![t] = w]
        /\ IF locked[p] = 1 THEN to = "idle" /\ w = None ELSE to = "releasing" /\ w = p
    BY <1>1 DEF Moves
<1>4. /\ stage' \in [Threads -> Stages] /\ wants' \in [Threads -> Places \cup {None}]
      /\ stage'[t] = to /\ wants'[t] = w
      /\ \A u \in Threads : u # t => stage'[u] = stage[u] /\ wants'[u] = wants[u]
    BY <1>2, <1>3, Moved DEF Stages
<1>5. t \in Users(p) /\ Users(p)' = Users(p) \ {t} /\ t \in Bearers(p)
    BY <1>0, <1>1, <1>3, <1>4 DEF Users, Bearers, At
<1>6. \A q \in Places : q # p => Users(q)' = Users(q) /\ Bearers(q)' = Bearers(q)
    BY <1>0, <1>1, <1>3, <1>4 DEF Users, Bearers, At
<1>7. /\ locked'[p] = locked[p] - 1 /\ \A q \in Places : q # p => locked'[q] = locked[q]
      /\ locked[p] \in Nat /\ locked[p] # 0
  <2>1. locked[p] # 0
      BY <1>2, <1>5, UsersFinite DEF IInv, CountsOK
  <2> QED BY <1>1, <1>2, <2>1 DEF TypeOK
<1>8. locked'[p] = Cardinality(Users(p)') /\ (locked[p] = 1 <=> Users(p)' = {})
    BY <1>2, <1>5, <1>7, UserRemoved DEF IInv
<1>9. CountsOK'
    BY <1>2, <1>6, <1>7, <1>8, CountsKept DEF IInv
<1>10. locked' \in [Places -> Nat]
    BY <1>1, <1>2, <1>7 DEF TypeOK
<1>11. TypeOK'
    BY <1>1, <1>2, <1>4, <1>10 DEF TypeOK
<1>12. \A q \in Places : Unlocks(q)' = Unlocks(q)
    BY <1>1 DEF Unlocks
<1>13. Bearers(p) = {t} /\ Unlocks(p) = {} /\ p \notin mutex_ready_table
    BY <1>2, <1>5 DEF IInv, OneToken
<1>14. Bearers(p)' = IF locked[p] = 1 THEN {} ELSE {t}
  <2>1. \A u \in Threads : u # t => (u \in Bearers(p)' <=> u \in Bearers(p))
      BY <1>4 DEF Bearers, At
  <2>2. t \in Bearers(p)' <=> locked[p] # 1
      BY <1>3, <1>4 DEF Bearers, At
  <2>3. Bearers(p)' \subseteq Threads
      BY DEF Bearers
  <2> QED BY <1>13, <2>1, <2>2, <2>3
<1>15. OneToken'
    BY <1>1, <1>2, <1>6, <1>8, <1>11, <1>12, <1>13, <1>14 DEF IInv, OneToken
<1>16. RequestsOK' /\ FreesOK'
    BY <1>1, <1>2, <1>4, RecordsKept DEF IInv
<1>17. StagesOK'
    BY <1>2, <1>3, <1>4 DEF IInv, StagesOK
<1> QED BY <1>2, <1>9, <1>15, <1>16, <1>17 DEF IInv

LEMMA SendUnlockStep ==
    ASSUME IInv, NEW t \in Threads, SendUnlock(t)
    PROVE  IInv'
<1>0. PICK p : p = wants[t]
    OBVIOUS
<1> DEFINE m == [op |-> "UnlockMutex", thread |-> t, place |-> p, blocking |-> FALSE]
<1>1. /\ stage[t] = "releasing" /\ inbox' = Append(inbox, m)
      /\ stage' = [stage EXCEPT ![t] = "idle"] /\ wants' = [wants EXCEPT ![t] = None]
      /\ UNCHANGED <<mutex_ready_table, mutex_hash, locked, contended, panicked>>
    BY <1>0 DEF SendUnlock, Send, Moves, serverVars, stdVars
<1>2. TypeOK /\ p \in Places /\ p[1] = ProcessOf[t] /\ panicked' = FALSE
    BY <1>0, <1>1 DEF IInv, OneToken, StagesOK
<1>3. m \in Message /\ m.op = "UnlockMutex" /\ m.place = p
    BY <1>2 DEF Message
<1>4. /\ stage' \in [Threads -> Stages] /\ wants' \in [Threads -> Places \cup {None}]
      /\ stage'[t] = "idle" /\ wants'[t] = None
      /\ \A u \in Threads : u # t => stage'[u] = stage[u] /\ wants'[u] = wants[u]
    BY <1>1, <1>2, Moved DEF Stages
<1>5. t \in Bearers(p) /\ Bearers(p)' = Bearers(p) \ {t} /\ Users(p)' = Users(p)
    BY <1>0, <1>1, <1>4 DEF Users, Bearers, At
<1> HIDE DEF m
<1>6. \A q \in Places : q # p => Users(q)' = Users(q) /\ Bearers(q)' = Bearers(q)
    BY <1>0, <1>1, <1>4 DEF Users, Bearers, At
<1>7. TypeOK'
    BY <1>1, <1>2, <1>3, <1>4, Appended DEF TypeOK
<1>8. \A q \in Places : Unlocks(q)' = IF q = p THEN Unlocks(q) \cup {Len(inbox) + 1} ELSE Unlocks(q)
    BY <1>1, <1>2, <1>3, UnlocksAppended
<1>9. Bearers(p) = {t} /\ Unlocks(p) = {} /\ p \notin mutex_ready_table /\ Users(p) # {}
    BY <1>2, <1>5 DEF IInv, OneToken
<1>10. OneToken'
    BY <1>1, <1>5, <1>6, <1>7, <1>8, <1>9 DEF IInv, OneToken
<1>11. CountsOK'
    BY <1>1, <1>5, <1>6 DEF IInv, CountsOK
<1>12. RequestsOK' /\ FreesOK'
    BY <1>1, <1>2, <1>3, <1>4, RecordsAppended DEF IInv
<1>13. StagesOK'
    BY <1>1, <1>2, <1>4 DEF IInv, StagesOK
<1> QED BY <1>2, <1>10, <1>11, <1>12, <1>13 DEF IInv

\* FreeMutex is queued behind messages of the same mutex that are all FreeMutex.
LEMMA DropStep ==
    ASSUME IInv, NEW t \in Threads, NEW a \in Addresses, Drop(t, a)
    PROVE  IInv'
<1> DEFINE p == Place(t, a)
<1> DEFINE m == [op |-> "FreeMutex", thread |-> t, place |-> p, blocking |-> FALSE]
<1>0. p \in Places /\ p[1] = ProcessOf[t]
    BY PlaceType
<1>1. /\ stage[t] = "idle" /\ inbox' = Append(inbox, m) /\ locked' = [locked EXCEPT ![p] = 0]
      /\ \A u \in Threads : wants[u] # p
      /\ contended' = contended \ {p}
      /\ UNCHANGED <<mutex_ready_table, mutex_hash, stage, wants, panicked>>
    BY DEF Drop, Send, serverVars, threadVars
<1>2. m \in Message /\ m.op = "FreeMutex" /\ m.place = p
    BY <1>0 DEF Message
<1> HIDE DEF m, p
<1>3. TypeOK /\ panicked' = FALSE
    BY <1>1 DEF IInv, OneToken
<1>4. Users(p) = {}
    BY <1>1 DEF Users, At
<1>5. p \notin mutex_ready_table /\ Unlocks(p) = {}
    BY <1>0, <1>4 DEF IInv, OneToken
<1>6. mutex_hash[p] = <<>>
  <2>1. mutex_hash[p] \in Seq(Threads)
      BY <1>0, <1>3 DEF TypeOK
  <2>2. \A k \in DOMAIN mutex_hash[p] : mutex_hash[p][k] \in Threads
      BY <2>1, ElementOfSeq, LenProperties
  <2>3. DOMAIN mutex_hash[p] = {}
      BY <1>0, <1>1, <2>2 DEF IInv, RequestsOK, At
  <2>4. Len(mutex_hash[p]) = 0
    <3>1. DOMAIN mutex_hash[p] = 1 .. Len(mutex_hash[p]) /\ Len(mutex_hash[p]) \in Nat
        BY <2>1, LenProperties
    <3>2. 1 \notin 1 .. Len(mutex_hash[p])
        BY <2>3, <3>1
    <3> QED BY <3>1, <3>2
  <2> QED BY <2>1, <2>4, EmptySeq
<1>7. \A j \in DOMAIN inbox : inbox[j].place = p => inbox[j].op = "FreeMutex"
  <2> SUFFICES ASSUME NEW j \in DOMAIN inbox, inbox[j].place = p PROVE inbox[j].op = "FreeMutex"
      OBVIOUS
  <2>1. inbox[j].thread \in Threads /\ inbox[j].op \in {"LockMutex", "UnlockMutex", "FreeMutex"}
      BY <1>3, MessageType
  <2>2. inbox[j].op # "LockMutex"
      BY <1>1, <2>1 DEF IInv, RequestsOK, Locks, At
  <2>3. inbox[j].op # "UnlockMutex"
      BY <1>5 DEF Unlocks
  <2> QED BY <2>1, <2>2, <2>3
<1>8. locked' = locked
    BY <1>0, <1>1, <1>3, <1>4, UsersFinite DEF IInv, CountsOK, TypeOK
<1>9. TypeOK'
    BY <1>1, <1>2, <1>3, <1>8, Appended DEF TypeOK
<1>10. \A q \in Places : Users(q)' = Users(q) /\ Bearers(q)' = Bearers(q)
    BY <1>1 DEF Users, Bearers, At
<1>11. \A q \in Places : Unlocks(q)' = Unlocks(q)
    BY <1>1, <1>2, <1>3, UnlocksAppended
<1>12. OneToken'
    BY <1>1, <1>9, <1>10, <1>11 DEF IInv, OneToken
<1>13. CountsOK'
    BY <1>8, <1>10 DEF IInv, CountsOK
<1>14. RequestsOK' /\ FreesOK'
    BY <1>1, <1>2, <1>3, <1>5, <1>6, <1>7, RecordsAppended DEF IInv
<1>15. StagesOK'
    BY <1>1 DEF IInv, StagesOK
<1> QED BY <1>3, <1>12, <1>13, <1>14, <1>15 DEF IInv

-----------------------------------------------------------------------------
(* The steps of the server *)

\* A message that has others of its mutex before it, or was received, is not FreeMutex.
LEMMA NoFreeBehind ==
    ASSUME IInv, inbox # <<>>, Head(inbox).op # "FreeMutex", NEW i \in DOMAIN inbox,
           inbox[i].op = "FreeMutex"
    PROVE  inbox[i].place # Head(inbox).place
<1>1. DOMAIN inbox = 1 .. Len(inbox) /\ Len(inbox) \in Nat \ {0} /\ Head(inbox) = inbox[1]
    BY Shifted DEF IInv, OneToken, TypeOK
<1> QED BY <1>1 DEF IInv, FreesOK

LEMMA LockReadyStep ==
    ASSUME IInv, LockReady
    PROVE  IInv'
<1>0. PICK p, t : p = Head(inbox).place /\ t = Head(inbox).thread
    OBVIOUS
<1>1. /\ inbox # <<>> /\ inbox' = Tail(inbox) /\ Head(inbox).op = "LockMutex"
      /\ p \in mutex_ready_table /\ mutex_ready_table' = mutex_ready_table \ {p}
      /\ stage' = [stage EXCEPT ![t] = IF stage[t] = "gone" THEN stage[t] ELSE "holding"]
      /\ UNCHANGED <<wants, mutex_hash, locked, contended, panicked>>
    BY <1>0 DEF LockReady, Receive, Grant, stdVars
<1>2. TypeOK /\ panicked' = FALSE
    BY <1>1 DEF IInv, OneToken
<1>3. /\ DOMAIN inbox = 1 .. Len(inbox) /\ Len(inbox) \in Nat \ {0} /\ Head(inbox) = inbox[1]
      /\ inbox' \in Seq(Message) /\ 1 \in DOMAIN inbox
    BY <1>1, <1>2, Shifted DEF TypeOK
<1>4. t \in Threads /\ p \in Places
    BY <1>0, <1>2, <1>3, MessageType
<1>5. Locks(1) /\ stage[t] = "waiting" /\ wants[t] = p
    BY <1>0, <1>1, <1>3 DEF IInv, RequestsOK, Locks, At
<1>6. /\ stage' \in [Threads -> Stages] /\ stage'[t] = "holding" /\ wants'[t] = p
      /\ \A u \in Threads : u # t => stage'[u] = stage[u] /\ wants'[u] = wants[u]
    BY <1>1, <1>2, <1>4, <1>5, Moved DEF Stages
<1>7. TypeOK'
    BY <1>1, <1>2, <1>3, <1>6 DEF TypeOK
<1>8. Users(p)' = Users(p) /\ Bearers(p)' = Bearers(p) \cup {t} /\ t \in Users(p)
    BY <1>4, <1>5, <1>6 DEF Users, Bearers, At
<1>9. \A q \in Places : q # p => Users(q)' = Users(q) /\ Bearers(q)' = Bearers(q)
    BY <1>4, <1>5, <1>6 DEF Users, Bearers, At
<1>10. Bearers(p) = {} /\ Unlocks(p) = {}
    BY <1>1, <1>4 DEF IInv, OneToken
<1>11. \A q \in Places : /\ \A i, j \in Unlocks(q)' : i = j
                         /\ Unlocks(q)' = {} <=> Unlocks(q) = {}
  <2>1. \A q \in Places : \A i, j \in Unlocks(q) : i = j
      BY DEF IInv, OneToken
  <2> QED BY <1>1, <1>2, <2>1, UnlocksShifted
<1>12. OneToken'
    BY <1>1, <1>4, <1>7, <1>8, <1>9, <1>10, <1>11 DEF IInv, OneToken
<1>13. CountsOK'
    BY <1>1, <1>8, <1>9 DEF IInv, CountsOK
<1>14. RequestsOK' /\ FreesOK'
  <2>1. \A i \in DOMAIN inbox : i # 1 /\ Locks(i) => inbox[i].thread # t
      BY <1>0, <1>3, <1>5 DEF IInv, RequestsOK
  <2>2. \A q \in Places : \A k \in DOMAIN mutex_hash[q] : mutex_hash[q][k] # t
      BY <1>0, <1>3, <1>5 DEF IInv, RequestsOK
  <2> QED BY <1>1, <1>2, <1>6, <2>1, <2>2, RecordsShifted DEF IInv
<1>15. StagesOK'
    BY <1>1, <1>4, <1>5, <1>6 DEF IInv, StagesOK
<1> QED BY <1>2, <1>12, <1>13, <1>14, <1>15 DEF IInv

LEMMA FreeMutexStep ==
    ASSUME IInv, FreeMutex
    PROVE  IInv'
<1>0. PICK p : p = Head(inbox).place
    OBVIOUS
<1>1. /\ inbox # <<>> /\ inbox' = Tail(inbox) /\ Head(inbox).op = "FreeMutex"
      /\ mutex_hash' = [mutex_hash EXCEPT ![p] = <<>>]
      /\ mutex_ready_table' = mutex_ready_table \ {p}
      /\ UNCHANGED <<stage, wants, locked, contended, panicked>>
    BY <1>0 DEF FreeMutex, Receive, stdVars, threadVars
<1>2. TypeOK /\ panicked' = FALSE
    BY <1>1 DEF IInv, OneToken
<1>3. /\ DOMAIN inbox = 1 .. Len(inbox) /\ Len(inbox) \in Nat \ {0} /\ Head(inbox) = inbox[1]
      /\ inbox' \in Seq(Message) /\ 1 \in DOMAIN inbox
    BY <1>1, <1>2, Shifted DEF TypeOK
<1>4. p \in Places
    BY <1>0, <1>2, <1>3, MessageType
<1>5. p \notin mutex_ready_table /\ mutex_hash[p] = <<>>
    BY <1>0, <1>1, <1>3 DEF IInv, FreesOK
<1>6. mutex_hash' = mutex_hash /\ mutex_ready_table' = mutex_ready_table
    BY <1>1, <1>2, <1>4, <1>5 DEF TypeOK
<1>7. TypeOK'
    BY <1>1, <1>2, <1>3, <1>6 DEF TypeOK
<1>8. \A q \in Places : Users(q)' = Users(q) /\ Bearers(q)' = Bearers(q)
    BY <1>1 DEF Users, Bearers, At
<1>9. \A q \in Places : /\ \A i, j \in Unlocks(q)' : i = j
                        /\ Unlocks(q)' = {} <=> Unlocks(q) = {}
  <2>1. \A q \in Places : \A i, j \in Unlocks(q) : i = j
      BY DEF IInv, OneToken
  <2> QED BY <1>1, <1>2, <2>1, UnlocksShifted
<1>10. OneToken'
    BY <1>6, <1>7, <1>8, <1>9 DEF IInv, OneToken
<1>11. CountsOK'
    BY <1>1, <1>8 DEF IInv, CountsOK
<1>12. RequestsOK' /\ FreesOK'
  <2>1. \A i \in DOMAIN inbox : inbox[i].thread # None
      BY <1>2, MessageType, MutexesAssumption
  <2>2. \A q \in Places : \A k \in DOMAIN mutex_hash[q] : mutex_hash[q][k] # None
      BY <1>2, ElementOfSeq, LenProperties, MutexesAssumption DEF TypeOK
  <2> QED BY <1>1, <1>2, <1>6, <2>1, <2>2, RecordsShifted DEF IInv
<1>13. StagesOK'
    BY <1>1 DEF IInv, StagesOK
<1> QED BY <1>2, <1>10, <1>11, <1>12, <1>13 DEF IInv

LEMMA UnlockToReadyStep ==
    ASSUME IInv, UnlockToReady
    PROVE  IInv'
<1>0. PICK p : p = Head(inbox).place
    OBVIOUS
<1>1. /\ inbox # <<>> /\ inbox' = Tail(inbox) /\ Head(inbox).op = "UnlockMutex"
      /\ mutex_hash[p] = <<>> /\ mutex_ready_table' = mutex_ready_table \cup {p}
      /\ UNCHANGED <<mutex_hash, stage, wants, locked, contended, panicked>>
    BY <1>0 DEF UnlockToReady, Receive, stdVars, threadVars
<1>2. TypeOK /\ panicked' = FALSE
    BY <1>1 DEF IInv, OneToken
<1>3. /\ DOMAIN inbox = 1 .. Len(inbox) /\ Len(inbox) \in Nat \ {0} /\ Head(inbox) = inbox[1]
      /\ inbox' \in Seq(Message) /\ 1 \in DOMAIN inbox
      /\ DOMAIN inbox' = 1 .. Len(inbox) - 1
      /\ \A i \in 1 .. Len(inbox) - 1 : inbox'[i] = inbox[i + 1]
    BY <1>1, <1>2, Shifted DEF TypeOK
<1>4. p \in Places
    BY <1>0, <1>2, <1>3, MessageType
<1>5. TypeOK'
    BY <1>1, <1>2, <1>3, <1>4 DEF TypeOK
<1>6. \A q \in Places : Users(q)' = Users(q) /\ Bearers(q)' = Bearers(q)
    BY <1>1 DEF Users, Bearers, At
<1>7. \A q \in Places : \A i, j \in Unlocks(q) : i = j
    BY DEF IInv, OneToken
<1>8. \A q \in Places : \A i, j \in Unlocks(q)' : i = j
    BY <1>1, <1>2, <1>7, UnlocksShifted
<1>9. \A q \in Places : q # p => (Unlocks(q)' = {} <=> Unlocks(q) = {})
    BY <1>0, <1>1, <1>2, <1>7, UnlocksShifted
<1>10. Unlocks(p) # {} /\ Unlocks(p)' = {}
    BY <1>0, <1>1, <1>2, <1>4, <1>7, UnlocksShifted
<1>11. Bearers(p) = {} /\ Users(p) # {}
    BY <1>4, <1>10 DEF IInv, OneToken
<1>12. OneToken'
    BY <1>1, <1>4, <1>5, <1>6, <1>8, <1>9, <1>10, <1>11 DEF IInv, OneToken
<1>13. CountsOK'
    BY <1>1, <1>6 DEF IInv, CountsOK
<1>14. RequestsOK'
    BY <1>1, <1>3 DEF IInv, RequestsOK, At, Locks
<1>15. FreesOK'
  <2>1. \A i \in DOMAIN inbox : inbox[i].op = "FreeMutex" => inbox[i].place # p
      BY <1>0, <1>1, NoFreeBehind
  <2> QED BY <1>1, <1>3, <2>1 DEF IInv, FreesOK
<1>16. StagesOK'
    BY <1>1 DEF IInv, StagesOK
<1> QED BY <1>2, <1>12, <1>13, <1>14, <1>15, <1>16 DEF IInv

LEMMA LockLaterStep ==
    ASSUME IInv, LockLater
    PROVE  IInv'
<1>0. PICK p, t : p = Head(inbox).place /\ t = Head(inbox).thread
    OBVIOUS
<1>1. /\ inbox # <<>> /\ inbox' = Tail(inbox) /\ Head(inbox).op = "LockMutex"
      /\ mutex_hash' = [mutex_hash EXCEPT ![p] = Append(mutex_hash[p], t)]
      /\ UNCHANGED <<mutex_ready_table, stage, wants, locked, contended, panicked>>
    BY <1>0 DEF LockLater, Receive, stdVars, threadVars
<1>2. TypeOK /\ panicked' = FALSE
    BY <1>1 DEF IInv, OneToken
<1>3. /\ DOMAIN inbox = 1 .. Len(inbox) /\ Len(inbox) \in Nat \ {0} /\ Head(inbox) = inbox[1]
      /\ inbox' \in Seq(Message) /\ 1 \in DOMAIN inbox
      /\ DOMAIN inbox' = 1 .. Len(inbox) - 1
      /\ \A i \in 1 .. Len(inbox) - 1 : inbox'[i] = inbox[i + 1]
    BY <1>1, <1>2, Shifted DEF TypeOK
<1>4. t \in Threads /\ p \in Places
    BY <1>0, <1>2, <1>3, MessageType
<1>5. Locks(1) /\ stage[t] = "waiting" /\ wants[t] = p
    BY <1>0, <1>1, <1>3 DEF IInv, RequestsOK, Locks, At
<1>6. PICK n \in Nat :
        /\ mutex_hash'[p] \in Seq(Threads)
        /\ DOMAIN mutex_hash[p] = 1 .. n /\ DOMAIN mutex_hash'[p] = 1 .. n + 1
        /\ \A k \in 1 .. n : mutex_hash'[p][k] = mutex_hash[p][k]
        /\ mutex_hash'[p][n + 1] = t
        /\ \A q \in Places : q # p => mutex_hash'[q] = mutex_hash[q]
  <2>1. mutex_hash'[p] = Append(mutex_hash[p], t) /\ mutex_hash[p] \in Seq(Threads)
      BY <1>1, <1>2, <1>4 DEF TypeOK
  <2>2. \A q \in Places : q # p => mutex_hash'[q] = mutex_hash[q]
      BY <1>1, <1>2 DEF TypeOK
  <2> QED BY <1>4, <2>1, <2>2, Appended
<1>7. mutex_hash' \in [Places -> Seq(Threads)]
    BY <1>1, <1>2, <1>6 DEF TypeOK
<1>8. TypeOK'
    BY <1>1, <1>2, <1>3, <1>7 DEF TypeOK
<1>9. \A q \in Places : Users(q)' = Users(q) /\ Bearers(q)' = Bearers(q)
    BY <1>1 DEF Users, Bearers, At
<1>10. \A q \in Places : /\ \A i, j \in Unlocks(q)' : i = j
                         /\ Unlocks(q)' = {} <=> Unlocks(q) = {}
  <2>1. \A q \in Places : \A i, j \in Unlocks(q) : i = j
      BY DEF IInv, OneToken
  <2> QED BY <1>1, <1>2, <2>1, UnlocksShifted
<1>11. OneToken'
    BY <1>1, <1>8, <1>9, <1>10 DEF IInv, OneToken
<1>12. CountsOK'
    BY <1>1, <1>9 DEF IInv, CountsOK
<1>13. RequestsOK'
  <2>1. \A i \in DOMAIN inbox : i # 1 /\ Locks(i) => inbox[i].thread # t
      BY <1>0, <1>3, <1>5 DEF IInv, RequestsOK
  <2>2. \A q \in Places : \A k \in DOMAIN mutex_hash[q] : mutex_hash[q][k] # t
      BY <1>0, <1>3, <1>5 DEF IInv, RequestsOK
  <2>3. /\ \A i \in DOMAIN inbox' : Locks(i)' =>
              inbox'[i].blocking /\ At(inbox[i].thread, inbox[i].place, {"waiting"})'
        /\ \A i, j \in DOMAIN inbox' : Locks(i)' /\ Locks(j)' /\ inbox'[i].thread = inbox'[j].thread => i = j
      BY <1>1, <1>3 DEF IInv, RequestsOK, At, Locks
  <2>4. \A k \in DOMAIN mutex_hash'[p] :
          /\ At(mutex_hash[p][k], p, {"waiting"})'
          /\ \A l \in DOMAIN mutex_hash'[p] : mutex_hash'[p][k] = mutex_hash'[p][l] => k = l
          /\ \A i \in DOMAIN inbox' : Locks(i)' => inbox'[i].thread # mutex_hash'[p][k]
      BY <1>1, <1>3, <1>4, <1>5, <1>6, <2>1, <2>2 DEF IInv, RequestsOK, At, Locks
  <2>5. \A q \in Places : q # p => \A k \in DOMAIN mutex_hash'[q] :
          /\ At(mutex_hash[q][k], q, {"waiting"})'
          /\ \A l \in DOMAIN mutex_hash'[q] : mutex_hash'[q][k] = mutex_hash'[q][l] => k = l
          /\ \A i \in DOMAIN inbox' : Locks(i)' => inbox'[i].thread # mutex_hash'[q][k]
      BY <1>1, <1>3, <1>6 DEF IInv, RequestsOK, At, Locks
  <2> QED BY <2>3, <2>4, <2>5, Zenon DEF RequestsOK
<1>14. FreesOK'
  <2>1. \A i \in DOMAIN inbox : inbox[i].op = "FreeMutex" => inbox[i].place # p /\ inbox[i].place \in Places
      BY <1>0, <1>1, <1>2, NoFreeBehind, MessageType
  <2> QED BY <1>1, <1>3, <1>6, <2>1 DEF IInv, FreesOK
<1>15. StagesOK'
    BY <1>1 DEF IInv, StagesOK
<1> QED BY <1>2, <1>11, <1>12, <1>13, <1>14, <1>15 DEF IInv

LEMMA UnlockToWaiterStep ==
    ASSUME IInv, UnlockToWaiter
    PROVE  IInv' /\ \E p \in Places, t \in Threads : stage[t] = "waiting" /\ wants[t] = p /\ Bearers(p) = {}
                      /\ stage' = [stage EXCEPT ![t] = "holding"] /\ wants' = wants
<1>0. PICK p, t : p = Head(inbox).place /\ t = Head(mutex_hash[p])
    OBVIOUS
<1>1. /\ inbox # <<>> /\ inbox' = Tail(inbox) /\ Head(inbox).op = "UnlockMutex"
      /\ mutex_hash[p] # <<>>
      /\ mutex_hash' = [mutex_hash EXCEPT ![p] = Tail(mutex_hash[p])]
      /\ stage' = [stage EXCEPT ![t] = IF stage[t] = "gone" THEN stage[t] ELSE "holding"]
      /\ UNCHANGED <<mutex_ready_table, wants, locked, contended>>
    BY <1>0 DEF UnlockToWaiter, Receive, Grant, stdVars
<1>2. TypeOK
    BY <1>1 DEF IInv, OneToken
<1>3. /\ DOMAIN inbox = 1 .. Len(inbox) /\ Len(inbox) \in Nat \ {0} /\ Head(inbox) = inbox[1]
      /\ inbox' \in Seq(Message) /\ 1 \in DOMAIN inbox
      /\ DOMAIN inbox' = 1 .. Len(inbox) - 1
      /\ \A i \in 1 .. Len(inbox) - 1 : inbox'[i] = inbox[i + 1]
    BY <1>1, <1>2, Shifted DEF TypeOK
<1>4. p \in Places
    BY <1>0, <1>2, <1>3, MessageType
<1>5. PICK n \in Nat \ {0} :
        /\ mutex_hash'[p] \in Seq(Threads)
        /\ DOMAIN mutex_hash[p] = 1 .. n /\ DOMAIN mutex_hash'[p] = 1 .. n - 1
        /\ \A k \in 1 .. n - 1 : mutex_hash'[p][k] = mutex_hash[p][k + 1]
        /\ t = mutex_hash[p][1] /\ t \in Threads
        /\ \A q \in Places : q # p => mutex_hash'[q] = mutex_hash[q]
  <2>1. mutex_hash'[p] = Tail(mutex_hash[p]) /\ mutex_hash[p] \in Seq(Threads)
      BY <1>1, <1>2, <1>4 DEF TypeOK
  <2>2. \A q \in Places : q # p => mutex_hash'[q] = mutex_hash[q]
      BY <1>1, <1>2 DEF TypeOK
  <2>3. \E n \in Nat \ {0} :
            /\ mutex_hash'[p] \in Seq(Threads)
            /\ DOMAIN mutex_hash[p] = 1 .. n /\ DOMAIN mutex_hash'[p] = 1 .. n - 1
            /\ \A k \in 1 .. n - 1 : mutex_hash'[p][k] = mutex_hash[p][k + 1]
            /\ Head(mutex_hash[p]) = mutex_hash[p][1] /\ Head(mutex_hash[p]) \in Threads
    <3>1. Len(mutex_hash[p]) \in Nat \ {0}
        BY <1>1, <2>1, Shifted
    <3>2. /\ mutex_hash'[p] \in Seq(Threads)
          /\ DOMAIN mutex_hash[p] = 1 .. Len(mutex_hash[p])
          /\ DOMAIN mutex_hash'[p] = 1 .. Len(mutex_hash[p]) - 1
          /\ \A k \in 1 .. Len(mutex_hash[p]) - 1 : mutex_hash'[p][k] = mutex_hash[p][k + 1]
          /\ Head(mutex_hash[p]) = mutex_hash[p][1] /\ Head(mutex_hash[p]) \in Threads
      <4>1. PICK s, r : s = mutex_hash[p] /\ r = mutex_hash'[p]
          OBVIOUS
      <4>2. s \in Seq(Threads) /\ s # <<>> /\ r = Tail(s)
          BY <1>1, <2>1, <4>1
      <4>3. /\ r \in Seq(Threads) /\ DOMAIN s = 1 .. Len(s) /\ DOMAIN r = 1 .. Len(s) - 1
            /\ \A i \in 1 .. Len(s) - 1 : r[i] = s[i + 1]
            /\ Head(s) = s[1] /\ Head(s) \in Threads
          BY <4>2, Shifted
      <4> QED BY <4>1, <4>3
    <3> QED BY <3>1, <3>2
  <2> QED BY <1>0, <2>2, <2>3
<1>6. stage[t] = "waiting" /\ wants[t] = p
    BY <1>4, <1>5 DEF IInv, RequestsOK, At
<1>7. panicked' = FALSE
    BY <1>0, <1>6, Zenon DEF UnlockToWaiter
<1>8. /\ stage' \in [Threads -> Stages] /\ stage'[t] = "holding" /\ wants'[t] = p
      /\ stage' = [stage EXCEPT ![t] = "holding"]
      /\ \A u \in Threads : u # t => stage'[u] = stage[u] /\ wants'[u] = wants[u]
  <2>1. stage' = [stage EXCEPT ![t] = "holding"]
      BY <1>1, <1>6
  <2> QED BY <1>1, <1>2, <1>4, <1>5, <1>6, <2>1, Moved DEF Stages
<1>9. mutex_hash' \in [Places -> Seq(Threads)]
    BY <1>1, <1>2, <1>5 DEF TypeOK
<1>10. TypeOK'
  <2>1. panicked' \in BOOLEAN
      BY <1>7, Zenon
  <2> QED BY <1>1, <1>2, <1>3, <1>8, <1>9, <2>1 DEF TypeOK
<1>11. Users(p)' = Users(p) /\ Bearers(p)' = Bearers(p) \cup {t} /\ t \in Users(p)
    BY <1>5, <1>6, <1>8 DEF Users, Bearers, At
<1>12. \A q \in Places : q # p => Users(q)' = Users(q) /\ Bearers(q)' = Bearers(q)
    BY <1>5, <1>6, <1>8 DEF Users, Bearers, At
<1>13. \A q \in Places : \A i, j \in Unlocks(q) : i = j
    BY DEF IInv, OneToken
<1>14. \A q \in Places : \A i, j \in Unlocks(q)' : i = j
    BY <1>1, <1>2, <1>13, UnlocksShifted
<1>15. \A q \in Places : q # p => (Unlocks(q)' = {} <=> Unlocks(q) = {})
    BY <1>0, <1>1, <1>2, <1>13, UnlocksShifted
<1>16. Unlocks(p) # {} /\ Unlocks(p)' = {}
    BY <1>0, <1>1, <1>2, <1>4, <1>13, UnlocksShifted
<1>17. Bearers(p) = {} /\ p \notin mutex_ready_table
    BY <1>4, <1>16 DEF IInv, OneToken
<1>18. OneToken'
  <2>1. Bearers(p)' = {t} /\ Users(p)' # {} /\ p \notin mutex_ready_table'
      BY <1>1, <1>11, <1>17
  <2> SUFFICES ASSUME NEW q \in Places
               PROVE  /\ \A u, v \in Bearers(q)' : u = v
                      /\ Bearers(q)' # {} => Unlocks(q)' = {} /\ q \notin mutex_ready_table'
                      /\ Unlocks(q)' # {} => q \notin mutex_ready_table'
                      /\ Bearers(q)' # {} \/ Unlocks(q)' # {} \/ q \in mutex_ready_table' <=> Users(q)' # {}
      BY <1>10, <1>14 DEF OneToken
  <2>2. CASE q = p
      BY <1>16, <2>1, <2>2
  <2>3. CASE q # p
      BY <1>1, <1>12, <1>15, <2>3 DEF IInv, OneToken
  <2> QED BY <2>2, <2>3
<1>19. CountsOK'
    BY <1>1, <1>11, <1>12 DEF IInv, CountsOK
<1>20. RequestsOK'
  <2>1. \A i \in DOMAIN inbox : Locks(i) => inbox[i].thread # t
      BY <1>4, <1>5 DEF IInv, RequestsOK
  <2>2. \A i \in DOMAIN inbox : inbox[i].thread \in Threads
      BY <1>2, MessageType
  <2>3. \A q \in Places : q # p => \A k \in DOMAIN mutex_hash[q] :
            mutex_hash[q][k] # t /\ mutex_hash[q][k] \in Threads
    <3>1. \A q \in Places : \A k \in DOMAIN mutex_hash[q] : mutex_hash[q][k] \in Threads
        BY <1>2, ElementOfSeq, LenProperties DEF TypeOK
    <3> QED BY <1>6, <3>1 DEF IInv, RequestsOK, At
  <2>4. \A k \in 1 .. n : mutex_hash[p][k] \in Threads /\ (k # 1 => mutex_hash[p][k] # t)
    <3>1. \A k \in 1 .. n : mutex_hash[p][k] \in Threads
        BY <1>2, <1>4, <1>5, ElementOfSeq, LenProperties DEF TypeOK
    <3> QED BY <1>4, <1>5, <3>1 DEF IInv, RequestsOK
  <2>5. /\ \A i \in DOMAIN inbox' : Locks(i)' =>
              inbox'[i].blocking /\ At(inbox[i].thread, inbox[i].place, {"waiting"})'
        /\ \A i, j \in DOMAIN inbox' : Locks(i)' /\ Locks(j)' /\ inbox'[i].thread = inbox'[j].thread => i = j
    <3>1. \A i \in DOMAIN inbox' :
              /\ i + 1 \in DOMAIN inbox /\ inbox'[i] = inbox[i + 1]
              /\ Locks(i)' => Locks(i + 1) /\ inbox'[i].thread # t /\ inbox'[i].thread \in Threads
        BY <1>3, <2>1, <2>2 DEF Locks
    <3>2. \A i \in DOMAIN inbox' : Locks(i)' => inbox'[i].blocking
        BY <3>1, Zenon DEF IInv, RequestsOK
    <3>3. \A i \in DOMAIN inbox' : Locks(i)' => At(inbox[i].thread, inbox[i].place, {"waiting"})'
        BY <1>8, <3>1 DEF IInv, RequestsOK, At
    <3>4. \A i, j \in DOMAIN inbox' : Locks(i)' /\ Locks(j)' /\ inbox'[i].thread = inbox'[j].thread => i = j
        BY <1>3, <3>1 DEF IInv, RequestsOK
    <3> QED BY <3>2, <3>3, <3>4
  <2>6. \A k \in DOMAIN mutex_hash'[p] :
          /\ At(mutex_hash[p][k], p, {"waiting"})'
          /\ \A l \in DOMAIN mutex_hash'[p] : mutex_hash'[p][k] = mutex_hash'[p][l] => k = l
          /\ \A i \in DOMAIN inbox' : Locks(i)' => inbox'[i].thread # mutex_hash'[p][k]
    <3> SUFFICES ASSUME NEW k \in 1 .. n - 1
                 PROVE  /\ At(mutex_hash[p][k], p, {"waiting"})'
                        /\ \A l \in 1 .. n - 1 : mutex_hash'[p][k] = mutex_hash'[p][l] => k = l
                        /\ \A i \in DOMAIN inbox' : Locks(i)' => inbox'[i].thread # mutex_hash'[p][k]
        BY <1>5
    <3>1. k + 1 \in DOMAIN mutex_hash[p] /\ k + 1 # 1 /\ mutex_hash'[p][k] = mutex_hash[p][k + 1]
        BY <1>5
    <3>2. At(mutex_hash[p][k], p, {"waiting"})'
      <4>1. PICK u \in Threads : u = mutex_hash'[p][k] /\ u # t /\ stage[u] = "waiting" /\ wants[u] = p
          BY <1>4, <1>5, <2>4, <3>1 DEF IInv, RequestsOK, At
      <4> QED BY <1>8, <4>1 DEF At
    <3>3. ASSUME NEW l \in 1 .. n - 1, mutex_hash'[p][k] = mutex_hash'[p][l] PROVE k = l
      <4>1. l + 1 \in DOMAIN mutex_hash[p] /\ mutex_hash'[p][l] = mutex_hash[p][l + 1]
          BY <1>5
      <4>2. k + 1 = l + 1
          BY <1>4, <3>1, <3>3, <4>1 DEF IInv, RequestsOK
      <4> QED BY <4>2
    <3>4. ASSUME NEW i \in DOMAIN inbox', Locks(i)' PROVE inbox'[i].thread # mutex_hash'[p][k]
      <4>1. i + 1 \in DOMAIN inbox /\ inbox'[i] = inbox[i + 1] /\ Locks(i + 1)
          BY <1>3, <3>4 DEF Locks
      <4> QED BY <1>4, <3>1, <4>1 DEF IInv, RequestsOK
    <3> QED BY <3>2, <3>3, <3>4
  <2>7. \A q \in Places : q # p => \A k \in DOMAIN mutex_hash'[q] :
          /\ At(mutex_hash[q][k], q, {"waiting"})'
          /\ \A l \in DOMAIN mutex_hash'[q] : mutex_hash'[q][k] = mutex_hash'[q][l] => k = l
          /\ \A i \in DOMAIN inbox' : Locks(i)' => inbox'[i].thread # mutex_hash'[q][k]
    <3>1. \A q \in Places : q # p => \A k \in DOMAIN mutex_hash[q] : At(mutex_hash[q][k], q, {"waiting"})'
        BY <1>5, <1>8, <2>3 DEF IInv, RequestsOK, At
    <3>2. \A q \in Places : \A k \in DOMAIN mutex_hash[q] :
              \A i \in DOMAIN inbox' : Locks(i)' => inbox'[i].thread # mutex_hash[q][k]
      <4>1. \A i \in DOMAIN inbox' : /\ i + 1 \in DOMAIN inbox /\ inbox'[i] = inbox[i + 1]
                                     /\ Locks(i)' => Locks(i + 1)
          BY <1>3 DEF Locks
      <4> QED BY <4>1 DEF IInv, RequestsOK
    <3> QED BY <1>5, <3>1, <3>2 DEF IInv, RequestsOK
  <2> QED BY <2>5, <2>6, <2>7, Zenon DEF RequestsOK
<1>21. FreesOK'
  <2>1. \A i \in DOMAIN inbox : inbox[i].op = "FreeMutex" => inbox[i].place # p /\ inbox[i].place \in Places
      BY <1>0, <1>1, <1>2, NoFreeBehind, MessageType
  <2> QED BY <1>1, <1>3, <1>5, <2>1 DEF IInv, FreesOK
<1>22. StagesOK'
    BY <1>1, <1>5, <1>6, <1>8 DEF IInv, StagesOK
<1>23. IInv'
    BY <1>7, <1>18, <1>19, <1>20, <1>21, <1>22 DEF IInv
<1> QED BY <1>1, <1>4, <1>5, <1>6, <1>8, <1>17, <1>23

-----------------------------------------------------------------------------
(* The theorems *)

\* Every step of the clients and of the server keeps the inductive invariant.
LEMMA NextIInv == IInv /\ [Next]_vars => IInv'
<1> SUFFICES ASSUME IInv, [Next]_vars PROVE IInv'
    OBVIOUS
<1>1. CASE ServerStep
    BY <1>1, LockReadyStep, LockLaterStep, UnlockToWaiterStep, UnlockToReadyStep, FreeMutexStep
    DEF ServerStep
<1>2. ASSUME NEW t \in Threads, ClientStep(t) PROVE IInv'
    BY <1>2, AcquireFastStep, ContendStep, DropStep, SendLockStep, UnlockStep, SendUnlockStep
    DEF ClientStep
<1>3. CASE UNCHANGED vars
  <2>1. UNCHANGED <<inbox, mutex_ready_table, mutex_hash, locked, contended, stage, wants, panicked>>
      BY <1>3 DEF vars, serverVars, stdVars, threadVars
  <2>2. \A q \in Places : Users(q)' = Users(q) /\ Bearers(q)' = Bearers(q) /\ Unlocks(q)' = Unlocks(q)
      BY <2>1 DEF Users, Bearers, Unlocks, At
  <2>3. OneToken'
    <3>1. TypeOK'
        BY <2>1 DEF IInv, OneToken, TypeOK
    <3> QED BY <2>1, <2>2, <3>1 DEF IInv, OneToken
  <2>4. CountsOK'
      BY <2>1, <2>2 DEF IInv, CountsOK
  <2>5. StagesOK' /\ FreesOK'
      BY <2>1 DEF IInv, StagesOK, FreesOK
  <2>6. RequestsOK'
      BY <2>1 DEF IInv, RequestsOK, At, Locks
  <2> QED BY <2>1, <2>3, <2>4, <2>5, <2>6 DEF IInv
<1> QED BY <1>1, <1>2, <1>3 DEF Next

LEMMA SpecIInv == Spec => []IInv
BY InitIInv, NextIInv, PTL DEF Spec

\* There is one right to hand a mutex on, exactly while somebody holds it or wants it.
THEOREM TokenSafe == Spec => []OneToken
<1>1. IInv => OneToken
    BY DEF IInv
<1> QED BY <1>1, SpecIInv, PTL

\* The server's unwrap on the answer to a waiting thread never fails while no process of a
\* waiting thread terminates.
THEOREM ServerNeverPanics == Spec => []NoPanic
<1>1. IInv => NoPanic
    BY DEF IInv, NoPanic
<1> QED BY <1>1, SpecIInv, PTL

\* The owner of a mutex is the thread that holds it, or nobody.
OwnerOK ==
    /\ \A p \in Places, t \in Threads : At(t, p, {"holding"}) => Owner[p] = t
    /\ \A p \in Places : (\A t \in Threads : ~At(t, p, {"holding"})) => Owner[p] = None
    /\ Owner = [p \in Places |-> Owner[p]]

LEMMA OwnerValue == IInv => OwnerOK
<1> SUFFICES ASSUME IInv PROVE OwnerOK
    OBVIOUS
<1>1. ASSUME NEW p \in Places, NEW t \in Threads, At(t, p, {"holding"}) PROVE Owner[p] = t
  <2>1. \A u \in Threads : At(u, p, {"holding"}) => u = t
      BY <1>1 DEF IInv, OneToken, Bearers, At
  <2>2. Owner[p] = CHOOSE u \in Threads : At(u, p, {"holding"})
      BY <1>1, Zenon DEF Owner
  <2> QED BY <1>1, <2>1, <2>2, Zenon
<1>2. ASSUME NEW p \in Places, \A t \in Threads : ~At(t, p, {"holding"}) PROVE Owner[p] = None
    BY <1>2, Zenon DEF Owner
<1>3. Owner = [p \in Places |-> Owner[p]]
    BY Zenon DEF Owner
<1> QED BY <1>1, <1>2, <1>3, Zenon DEF OwnerOK

LEMMA OwnerNext == IInv' => OwnerOK'
BY OwnerValue, PTL

\* A step that changes nothing about who holds what leaves the owners alone ...
LEMMA OwnerKept ==
    ASSUME IInv, IInv',
           \A u \in Threads, q \in Places : At(u, q, {"holding"})' <=> At(u, q, {"holding"})
    PROVE  Owner' = Owner
<1>1. OwnerOK /\ OwnerOK'
    BY OwnerValue, OwnerNext
<1>2. ASSUME NEW q \in Places PROVE Owner'[q] = Owner[q]
  <2>1. CASE \E u \in Threads : At(u, q, {"holding"})
    <3>1. PICK u \in Threads : At(u, q, {"holding"})
        BY <2>1
    <3>2. Owner[q] = u
        BY <1>1, <3>1, Zenon DEF OwnerOK
    <3>3. Owner'[q] = u
        BY <1>1, <3>1, Zenon DEF OwnerOK
    <3> QED BY <3>2, <3>3
  <2>2. CASE \A u \in Threads : ~At(u, q, {"holding"})
    <3>1. Owner[q] = None
        BY <1>1, <2>2, Zenon DEF OwnerOK
    <3>2. Owner'[q] = None
        BY <1>1, <2>2, Zenon DEF OwnerOK
    <3> QED BY <3>1, <3>2
  <2> QED BY <2>1, <2>2
<1>3. Owner = [q \in Places |-> Owner[q]] /\ Owner' = [q \in Places |-> Owner'[q]]
    BY <1>1, Zenon DEF OwnerOK
<1> HIDE DEF Owner
<1> QED BY <1>2, <1>3, Zenon

\* ... and a step of one thread at one mutex is seen by the owner of that mutex only.
LEMMA OwnerMoved ==
    ASSUME IInv, IInv', NEW p \in Places, NEW o,
           \A u \in Threads, q \in Places : q # p => (At(u, q, {"holding"})' <=> At(u, q, {"holding"})),
           Owner'[p] = o
    PROVE  Owner' = [Owner EXCEPT ![p] = o]
<1>1. OwnerOK /\ OwnerOK'
    BY OwnerValue, OwnerNext
<1>2. ASSUME NEW q \in Places, q # p PROVE Owner'[q] = Owner[q]
  <2>1. CASE \E u \in Threads : At(u, q, {"holding"})
    <3>1. PICK u \in Threads : At(u, q, {"holding"})
        BY <2>1
    <3>2. Owner[q] = u
        BY <1>1, <3>1, Zenon DEF OwnerOK
    <3>3. Owner'[q] = u
        BY <1>1, <1>2, <3>1, Zenon DEF OwnerOK
    <3> QED BY <3>2, <3>3
  <2>2. CASE \A u \in Threads : ~At(u, q, {"holding"})
    <3>1. Owner[q] = None
        BY <1>1, <2>2, Zenon DEF OwnerOK
    <3>2. Owner'[q] = None
        BY <1>1, <1>2, <2>2, Zenon DEF OwnerOK
    <3> QED BY <3>1, <3>2
  <2> QED BY <2>1, <2>2
<1>3. Owner = [q \in Places |-> Owner[q]] /\ Owner' = [q \in Places |-> Owner'[q]]
    BY <1>1, Zenon DEF OwnerOK
<1> HIDE DEF Owner
<1> QED BY <1>2, <1>3

\* A thread that gets a mutex nobody holds acquires the lock.
LEMMA GetsIsAcquire ==
    ASSUME IInv, IInv', NEW p \in Places, NEW t \in Threads, Bearers(p) = {}, stage[t] # "holding",
           stage'[t] = "holding", wants'[t] = p,
           \A u \in Threads : u # t => stage'[u] = stage[u] /\ wants'[u] = wants[u]
    PROVE  Lock!Next
<1>1. OwnerOK /\ OwnerOK'
    BY OwnerValue, OwnerNext
<1>2. At(t, p, {"holding"})' /\ \A u \in Threads : ~At(u, p, {"holding"})
    BY DEF At, Bearers
<1>3. Owner[p] = None /\ Owner'[p] = t
  <2>1. Owner[p] = None
      BY <1>1, <1>2, Zenon DEF OwnerOK
  <2>2. Owner'[p] = t
      BY <1>1, <1>2, Zenon DEF OwnerOK
  <2> QED BY <2>1, <2>2
<1>4. \A u \in Threads, q \in Places : q # p => (At(u, q, {"holding"})' <=> At(u, q, {"holding"}))
    BY DEF At
<1>5. Owner' = [Owner EXCEPT ![p] = t]
    BY <1>3, <1>4, OwnerMoved
<1> HIDE DEF Owner
<1> QED BY <1>3, <1>5, Zenon DEF Lock!Next, Lock!Acquire

\* Unlocking is the release of the lock, whether or not the server has to be told.
LEMMA UnlockIsRelease ==
    ASSUME IInv, IInv', NEW t \in Threads, Unlock(t)
    PROVE  Lock!Next
<1>0. PICK p : p = wants[t]
    OBVIOUS
<1>1. p \in Places /\ TypeOK /\ stage[t] = "holding" /\ OwnerOK /\ OwnerOK'
    BY <1>0, OwnerValue, OwnerNext DEF Unlock, IInv, OneToken, StagesOK
<1>2. /\ stage'[t] # "holding"
      /\ \A u \in Threads : u # t => stage'[u] = stage[u] /\ wants'[u] = wants[u]
    BY <1>1 DEF Unlock, Moves, TypeOK
<1>3. Owner[p] = t
  <2>1. At(t, p, {"holding"})
      BY <1>0, <1>1 DEF At
  <2> QED BY <1>1, <2>1, Zenon DEF OwnerOK
<1>4. Owner'[p] = None
  <2>1. \A u \in Threads : ~At(u, p, {"holding"})'
      BY <1>0, <1>1, <1>2 DEF At, IInv, OneToken, Bearers
  <2> QED BY <1>1, <2>1, Zenon DEF OwnerOK
<1>5. \A u \in Threads, q \in Places : q # p => (At(u, q, {"holding"})' <=> At(u, q, {"holding"}))
    BY <1>0, <1>2 DEF At
<1>6. Owner' = [Owner EXCEPT ![p] = None]
    BY <1>1, <1>4, <1>5, OwnerMoved
<1> HIDE DEF Owner
<1> QED BY <1>1, <1>3, <1>6, Zenon DEF Lock!Next, Lock!Release

\* Every step of the clients and of the server is a step of the lock, or none.
LEMMA NextLock == IInv /\ IInv' /\ [Next]_vars => [Lock!Next]_Owner
<1> SUFFICES ASSUME IInv, IInv', [Next]_vars PROVE Lock!Next \/ Owner' = Owner
    OBVIOUS
<1>0. TypeOK
    BY DEF IInv, OneToken
<1>1. CASE LockReady
  <2>0. PICK p, t : p = Head(inbox).place /\ t = Head(inbox).thread
      OBVIOUS
  <2>1. /\ inbox # <<>> /\ Head(inbox).op = "LockMutex" /\ p \in mutex_ready_table
        /\ stage' = [stage EXCEPT ![t] = IF stage[t] = "gone" THEN stage[t] ELSE "holding"]
        /\ wants' = wants
      BY <1>1, <2>0 DEF LockReady, Receive, Grant
  <2>2. 1 \in DOMAIN inbox /\ Head(inbox) = inbox[1] /\ Locks(1)
      BY <1>0, <2>1, Shifted DEF TypeOK, Locks
  <2>3. t \in Threads /\ p \in Places /\ stage[t] = "waiting" /\ wants[t] = p
    <3>1. t \in Threads /\ p \in Places
        BY <1>0, <2>0, <2>2, MessageType
    <3> QED BY <2>0, <2>2, <3>1 DEF IInv, RequestsOK, At
  <2>4. Bearers(p) = {}
      BY <2>1, <2>3 DEF IInv, OneToken
  <2>5. /\ stage'[t] = "holding" /\ wants'[t] = p
        /\ \A u \in Threads : u # t => stage'[u] = stage[u] /\ wants'[u] = wants[u]
      BY <1>0, <2>1, <2>3 DEF TypeOK
  <2> QED BY <2>3, <2>4, <2>5, GetsIsAcquire
<1>2. CASE UnlockToWaiter
  <2>1. PICK p \in Places, t \in Threads : stage[t] = "waiting" /\ wants[t] = p /\ Bearers(p) = {}
                      /\ stage' = [stage EXCEPT ![t] = "holding"] /\ wants' = wants
      BY <1>2, UnlockToWaiterStep
  <2>2. /\ stage'[t] = "holding" /\ wants'[t] = p
        /\ \A u \in Threads : u # t => stage'[u] = stage[u] /\ wants'[u] = wants[u]
      BY <1>0, <2>1 DEF TypeOK
  <2> QED BY <2>1, <2>2, GetsIsAcquire
<1>3. ASSUME NEW t \in Threads, NEW a \in Addresses, AcquireFast(t, a) PROVE Lock!Next
  <2>1. PICK p \in Places : p = Place(t, a)
      BY PlaceType
  <2>2. Users(p) = {} /\ stage[t] = "idle"
      BY <1>3, <2>1, UsersFinite DEF AcquireFast, IInv, CountsOK
  <2>3. /\ stage'[t] = "holding" /\ wants'[t] = p
        /\ \A u \in Threads : u # t => stage'[u] = stage[u] /\ wants'[u] = wants[u]
      BY <1>0, <1>3, <2>1 DEF AcquireFast, Moves, TypeOK
  <2>4. Bearers(p) = {}
      BY <2>2 DEF IInv, OneToken
  <2> QED BY <2>2, <2>3, <2>4, GetsIsAcquire
<1>4. ASSUME NEW t \in Threads, Unlock(t) PROVE Lock!Next
    BY <1>4, UnlockIsRelease
<1>5. ASSUME stage' = stage, wants' = wants PROVE Owner' = Owner
  <2>1. \A u \in Threads, q \in Places : At(u, q, {"holding"})' <=> At(u, q, {"holding"})
      BY <1>5 DEF At
  <2> QED BY <2>1, OwnerKept
<1>6. ASSUME NEW t \in Threads, stage[t] # "holding", stage'[t] # "holding",
             \A u \in Threads : u # t => stage'[u] = stage[u] /\ wants'[u] = wants[u]
      PROVE  Owner' = Owner
  <2>1. \A u \in Threads, q \in Places : At(u, q, {"holding"})' <=> At(u, q, {"holding"})
      BY <1>6 DEF At
  <2> QED BY <2>1, OwnerKept
<1>7. CASE LockLater \/ UnlockToReady \/ FreeMutex
    BY <1>5, <1>7 DEF LockLater, UnlockToReady, FreeMutex, threadVars
<1>8. ASSUME NEW t \in Threads, NEW a \in Addresses, Contend(t, a) PROVE Owner' = Owner
  <2>1. /\ stage[t] = "idle" /\ stage'[t] = "contending"
        /\ \A u \in Threads : u # t => stage'[u] = stage[u] /\ wants'[u] = wants[u]
      BY <1>0, <1>8 DEF Contend, Moves, TypeOK
  <2> QED BY <1>6, <2>1
<1>9. ASSUME NEW t \in Threads, NEW a \in Addresses, Drop(t, a) PROVE Owner' = Owner
    BY <1>5, <1>9 DEF Drop, threadVars
<1>10. ASSUME NEW t \in Threads, SendLock(t) \/ SendUnlock(t) PROVE Owner' = Owner
  <2>1. /\ stage[t] # "holding" /\ stage'[t] # "holding"
        /\ \A u \in Threads : u # t => stage'[u] = stage[u] /\ wants'[u] = wants[u]
      BY <1>0, <1>10 DEF SendLock, SendUnlock, Moves, TypeOK
  <2> QED BY <1>6, <2>1
<1>11. CASE UNCHANGED vars
    BY <1>5, <1>11 DEF vars, threadVars
<1> HIDE DEF Owner
<1> QED BY <1>1, <1>2, <1>3, <1>4, <1>7, <1>8, <1>9, <1>10, <1>11 DEF Next, ServerStep, ClientStep

\* The mutexes implement locks with an owner: a mutex is taken only while nobody holds it,
\* and only its holder gives it up.
THEOREM MutexesImplementLock == Spec => ImplementsLock
<1>1. Init => Lock!Init
  <2> SUFFICES ASSUME Init PROVE Owner = [p \in Places |-> None]
      BY DEF Lock!Init
  <2>1. OwnerOK
      BY InitIInv, OwnerValue
  <2>2. \A p \in Places : Owner[p] = None
    <3>1. \A p \in Places, t \in Threads : ~At(t, p, {"holding"})
        BY DEF Init, At
    <3> QED BY <2>1, <3>1, Zenon DEF OwnerOK
  <2>3. Owner = [p \in Places |-> Owner[p]]
      BY <2>1, Zenon DEF OwnerOK
  <2> HIDE DEF Owner
  <2> QED BY <2>2, <2>3, Zenon
<1> QED BY <1>1, SpecIInv, NextLock, PTL DEF Spec, ImplementsLock, Lock!Spec
=============================================================================
