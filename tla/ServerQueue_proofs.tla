------------------------- MODULE ServerQueue_proofs -------------------------
(***************************************************************************)
(* Proofs about the queue of a server, for every queue length, generation    *)
(* width and set of clients.                                                *)
(***************************************************************************)
EXTENDS ServerQueue, SequenceTheorems, WellFoundedInduction, TLAPS

-----------------------------------------------------------------------------
(* Scanning the ring *)

\* A set of naturals that is not empty has a least element.
LEMMA LeastNat ==
    ASSUME NEW S, S \subseteq Nat, S # {}
    PROVE  \E x \in S : \A y \in S : x <= y
<1> DEFINE R == OpToRel(<, Nat)
<1>1. IsWellFoundedOn(R, Nat)
    BY NatLessThanWellFounded
<1>2. \A y, z \in Nat : y < z => <<y, z>> \in R
    BY Zenon DEF OpToRel
<1> HIDE DEF R
<1>3. PICK x \in S : \A y \in S : ~(<<y, x>> \in R)
    BY <1>1, WFMin
<1>4. ASSUME NEW y \in S PROVE x <= y
  <2>1. x \in Nat /\ y \in Nat
      OBVIOUS
  <2>2. ~(y < x)
      BY <1>2, <1>3, <2>1, Zenon
  <2> QED BY <2>1, <2>2
<1> QED BY <1>4

\* A scan of a set of slots that is not empty stops at one of them: the CHOOSE
\* behind queue_message, queue_response, take_next_message and the tail of
\* take_waiting_message is defined.
LEMMA FirstFromIn ==
    ASSUME NEW from \in Slots, NEW S, S \subseteq Slots, S # {}
    PROVE  FirstFrom(from, S) \in S
<1> DEFINE D == {Distance(from, i) : i \in S}
<1>1. \A i \in S : Distance(from, i) \in Nat
    BY ServerAssumption DEF Slots, Distance
<1>2. D \subseteq Nat /\ D # {}
    BY <1>1
<1>3. PICK x \in D : \A y \in D : x <= y
    BY <1>2, LeastNat
<1>4. PICK i \in S : x = Distance(from, i)
    BY <1>3
<1>5. \A j \in S : Distance(from, i) <= Distance(from, j)
    BY <1>3, <1>4
<1> QED BY <1>5 DEF FirstFrom

-----------------------------------------------------------------------------
(* What the operations do to the parts of a server *)

\* Every entry is Empty, undelivered or in the server, and only one of these.
LEMMA EntryFields ==
    ASSUME NEW e \in QueuedMessage
    PROVE  /\ Undelivered(e) \/ is_in_server(e) \/ e = Empty
           /\ Undelivered(e) \/ is_in_server(e) =>
                  /\ e \in [kind : UndeliveredKinds \cup WaitingKinds,
                            pid : PIDs, tid : TIDs, idx : Gens, body : Bodies]
                  /\ e # Empty
           /\ ~(Undelivered(e) /\ is_in_server(e))
           /\ ~Undelivered(Empty) /\ ~is_in_server(Empty)
    BY DEF QueuedMessage, Undelivered, is_in_server, Empty, UndeliveredKinds,
           WaitingKinds, LendKinds, LendTerminatedKinds

\* Stepping an index or a counter stays in range.
LEMMA StepTypes ==
    /\ \A i \in Slots : NextSlot(i) \in Slots
    /\ \A g \in Gens : NextGen(g) \in Gens /\ PrevGen(g) \in Gens
    /\ 0 \in Slots /\ 0 \in Gens
    BY ServerAssumption DEF Slots, Gens, NextSlot, NextGen, PrevGen

\* The entries that the two queueing methods write.
QueuedEntry(s, pid, tid, m) ==
    [kind |-> QueuedKind(m.type), pid |-> pid, tid |-> tid,
     idx |-> s.tail_generation, body |-> m.body]
ResponseEntry(pid, tid, m) ==
    [kind |-> WaitingKind(m.type), pid |-> pid, tid |-> tid, idx |-> 0, body |-> m.body]

\* Server s2 is s with one of its empty slots filled with e.
Fills(s, s2, e) ==
    \E i \in Slots : s.queue[i] = Empty /\ s2.queue = [s.queue EXCEPT ![i] = e]

\* queue_message fills one empty slot with an undelivered entry of the current
\* tail generation and advances that generation.
LEMMA QueueMessageEffect ==
    ASSUME NEW s \in ServerType, NEW pid \in PIDs, NEW tid \in TIDs, NEW m \in Message,
           CanQueueMessage(s),
           NEW s2, s2 = queue_message(s, pid, tid, m)
    PROVE  /\ s2 \in ServerType
           /\ QueuedEntry(s, pid, tid, m) \in QueuedMessage
           /\ Undelivered(QueuedEntry(s, pid, tid, m))
           /\ Fills(s, s2, QueuedEntry(s, pid, tid, m))
           /\ s2.head_generation = s.head_generation
           /\ s2.tail_generation = NextGen(s.tail_generation)
           /\ s2.ready_threads = s.ready_threads
<1> DEFINE i == FirstFrom(s.queue_head, EmptySlots(s))
           e == QueuedEntry(s, pid, tid, m)
           q == [s.queue EXCEPT ![i] = e]
<1>1. i \in Slots /\ s.queue[i] = Empty
    BY FirstFromIn DEF CanQueueMessage, EmptySlots, ServerType
<1>2. e \in QueuedMessage /\ Undelivered(e)
    BY DEF QueuedEntry, Message, MessageTypes, QueuedKind, QueuedMessage, UndeliveredKinds,
           LendKinds, LendTerminatedKinds, WaitingKinds, ServerType, Undelivered
<1>3. e = QueuedEntry(s, pid, tid, m)
    OBVIOUS
<1> HIDE DEF i, e
<1>4. AdvanceHead(s, i) \in Slots /\ NextGen(s.tail_generation) \in Gens
    BY StepTypes DEF AdvanceHead, ServerType
<1>5. s2 = [s EXCEPT !.queue = q,
                     !.tail_generation = NextGen(s.tail_generation),
                     !.queue_head = AdvanceHead(s, i)]
    BY DEF queue_message, i, e, QueuedEntry, ServerType
<1>6. q \in [Slots -> QueuedMessage]
    BY <1>1, <1>2 DEF ServerType
<1>7. q = [s.queue EXCEPT ![i] = e]
    OBVIOUS
<1> HIDE DEF q
<1>8. /\ s2 \in ServerType
      /\ s2.queue = q
      /\ s2.head_generation = s.head_generation
      /\ s2.tail_generation = NextGen(s.tail_generation)
      /\ s2.ready_threads = s.ready_threads
    BY <1>4, <1>5, <1>6 DEF ServerType
<1>9. s2.queue = [s.queue EXCEPT ![i] = e]
    BY <1>7, <1>8
<1> QED BY <1>1, <1>2, <1>3, <1>8, <1>9 DEF Fills

\* queue_response fills one empty slot with a waiting entry and leaves the
\* generations alone.
LEMMA QueueResponseEffect ==
    ASSUME NEW s \in ServerType, NEW pid \in PIDs, NEW tid \in TIDs, NEW m \in Message,
           CanQueueResponse(s), Blocking(m.type),
           NEW s2, s2 = queue_response(s, pid, tid, m)
    PROVE  /\ s2 \in ServerType
           /\ ResponseEntry(pid, tid, m) \in QueuedMessage
           /\ is_in_server(ResponseEntry(pid, tid, m))
           /\ Fills(s, s2, ResponseEntry(pid, tid, m))
           /\ s2.head_generation = s.head_generation
           /\ s2.tail_generation = s.tail_generation
           /\ s2.ready_threads = s.ready_threads
<1> DEFINE i == ResponseSlot(s)
           e == ResponseEntry(pid, tid, m)
           q == [s.queue EXCEPT ![i] = e]
<1>1. i \in Slots /\ s.queue[i] = Empty
    BY FirstFromIn DEF CanQueueResponse, EmptySlots, ServerType, ResponseSlot
<1>2. e \in QueuedMessage /\ is_in_server(e)
    BY StepTypes DEF ResponseEntry, Message, MessageTypes, WaitingKind, QueuedMessage, WaitingKinds,
                     is_in_server
<1>3. e = ResponseEntry(pid, tid, m)
    OBVIOUS
<1> HIDE DEF i, e
<1>4. AdvanceHead(s, i) \in Slots
    BY StepTypes DEF AdvanceHead, ServerType
<1>5. s2 = [s EXCEPT !.queue = q, !.queue_head = AdvanceHead(s, i)]
    BY DEF queue_response, i, e, ResponseEntry, ServerType
<1>6. q \in [Slots -> QueuedMessage]
    BY <1>1, <1>2 DEF ServerType
<1>7. q = [s.queue EXCEPT ![i] = e]
    OBVIOUS
<1> HIDE DEF q
<1>8. /\ s2 \in ServerType
      /\ s2.queue = q
      /\ s2.head_generation = s.head_generation
      /\ s2.tail_generation = s.tail_generation
      /\ s2.ready_threads = s.ready_threads
    BY <1>4, <1>5, <1>6 DEF ServerType
<1>9. s2.queue = [s.queue EXCEPT ![i] = e]
    BY <1>7, <1>8
<1> QED BY <1>1, <1>2, <1>3, <1>8, <1>9 DEF Fills

\* take_next_message empties a slot that holds the head generation, or turns its
\* entry into a waiting one, and advances that generation.
LEMMA TakeNextEffect ==
    ASSUME NEW s \in ServerType, CanTakeNext(s),
           NEW s2, s2 = take_next_message(s)
    PROVE  /\ s2 \in ServerType
           /\ \E i \in Slots, e \in QueuedMessage :
                  /\ Holds(s, i, s.head_generation)
                  /\ e = DeliveredEntry(s.queue[i])
                  /\ ~Undelivered(e)
                  /\ s2.queue = [s.queue EXCEPT ![i] = e]
           /\ s2.head_generation = NextGen(s.head_generation)
           /\ s2.tail_generation = s.tail_generation
           /\ s2.ready_threads = s.ready_threads
<1> DEFINE i == NextMessageSlot(s)
           e == DeliveredEntry(s.queue[i])
           q == [s.queue EXCEPT ![i] = e]
           t == IF i = s.queue_tail THEN NextSlot(s.queue_tail) ELSE s.queue_tail
<1>1. i \in Slots /\ Holds(s, i, s.head_generation)
    BY FirstFromIn DEF CanTakeNext, Deliverable, NextMessageSlot, Holds, ServerType
<1>2. e \in QueuedMessage /\ ~Undelivered(e)
  <2> DEFINE x == s.queue[i]
  <2>1. x \in [kind : UndeliveredKinds \cup WaitingKinds,
               pid : PIDs, tid : TIDs, idx : Gens, body : Bodies]
        /\ x.kind \in UndeliveredKinds
      BY <1>1, EntryFields DEF ServerType, Holds, Undelivered
  <2> HIDE DEF x
  <2>2. DeliveredEntry(x) \in QueuedMessage /\ ~Undelivered(DeliveredEntry(x))
      BY <2>1 DEF DeliveredEntry, QueuedMessage, Undelivered, UndeliveredKinds, WaitingKinds,
                  LendKinds, LendTerminatedKinds, Empty
  <2> QED BY <2>2 DEF x
<1> HIDE DEF i
<1>3. t \in Slots /\ NextGen(s.head_generation) \in Gens
    BY StepTypes DEF ServerType
<1>4. s2 = [s EXCEPT !.queue = q, !.queue_tail = t,
                     !.head_generation = NextGen(s.head_generation)]
    BY DEF take_next_message, i, ServerType
<1> HIDE DEF e, t
<1>5. q \in [Slots -> QueuedMessage]
    BY <1>1, <1>2 DEF ServerType
<1>6. q = [s.queue EXCEPT ![i] = e] /\ e = DeliveredEntry(s.queue[i])
    BY DEF e
<1> HIDE DEF q
<1>7. /\ s2 \in ServerType
      /\ s2.queue = q
      /\ s2.head_generation = NextGen(s.head_generation)
      /\ s2.tail_generation = s.tail_generation
      /\ s2.ready_threads = s.ready_threads
    BY <1>3, <1>4, <1>5 DEF ServerType
<1> QED BY <1>1, <1>2, <1>6, <1>7

\* take_waiting_message empties one waiting slot and touches no undelivered entry.
LEMMA TakeWaitingEffect ==
    ASSUME NEW s \in ServerType, NEW i \in Slots, is_in_server(s.queue[i]),
           NEW s2, s2 = take_waiting_message(s, i)
    PROVE  /\ s2 \in ServerType
           /\ s2.queue = [s.queue EXCEPT ![i] = Empty]
           /\ s2.head_generation = s.head_generation
           /\ s2.tail_generation = s.tail_generation
           /\ s2.ready_threads = s.ready_threads
<1> DEFINE q == [s.queue EXCEPT ![i] = Empty]
           t == TailAfterTaking(s, i, q)
<1>1. q \in [Slots -> QueuedMessage]
    BY DEF ServerType, QueuedMessage
<1>2. t \in Slots
  <2> DEFINE S == {s.queue_head} \cup {j \in Slots : q[j] # Empty}
  <2>1. S \subseteq Slots /\ S # {}
      BY DEF ServerType
  <2> HIDE DEF S
  <2>2. FirstFrom(NextSlot(i), S) \in Slots
      BY <2>1, FirstFromIn, StepTypes
  <2> QED BY <2>2 DEF TailAfterTaking, ServerType, S
<1> HIDE DEF t
<1>3. s2 = [s EXCEPT !.queue = q, !.queue_tail = t]
    BY DEF take_waiting_message, t
<1> HIDE DEF q
<1>4. /\ s2 \in ServerType
      /\ s2.queue = q
      /\ s2.head_generation = s.head_generation
      /\ s2.tail_generation = s.tail_generation
      /\ s2.ready_threads = s.ready_threads
    BY <1>1, <1>2, <1>3 DEF ServerType
<1> QED BY <1>4 DEF q

\* discard_messages_for_pid changes kinds only: every entry stays undelivered or
\* not, with its generation.
LEMMA DiscardEffect ==
    ASSUME NEW s \in ServerType, NEW pid \in PIDs,
           NEW s2, s2 = discard_messages_for_pid(s, pid)
    PROVE  /\ s2 \in ServerType
           /\ \A i \in Slots : Undelivered(s2.queue[i]) <=> Undelivered(s.queue[i])
           /\ \A i \in Slots : Undelivered(s.queue[i]) => s2.queue[i].idx = s.queue[i].idx
           /\ s2.head_generation = s.head_generation
           /\ s2.tail_generation = s.tail_generation
           /\ s2.ready_threads = s.ready_threads
<1> DEFINE e(x) == DiscardedEntry(x, pid)
           q == [i \in Slots |-> e(s.queue[i])]
<1>1. ASSUME NEW x \in QueuedMessage
      PROVE  /\ e(x) \in QueuedMessage
             /\ Undelivered(e(x)) <=> Undelivered(x)
             /\ Undelivered(x) => e(x).idx = x.idx
  <2>1. CASE x = Empty
      BY <2>1 DEF DiscardedEntry, QueuedMessage
  <2>2. CASE x # Empty
    <3>1. x \in [kind : UndeliveredKinds \cup WaitingKinds,
                 pid : PIDs, tid : TIDs, idx : Gens, body : Bodies]
        BY <2>2 DEF QueuedMessage
    <3> QED BY <3>1 DEF DiscardedEntry, TerminatedKind, Undelivered, QueuedMessage, UndeliveredKinds,
                        WaitingKinds, LendKinds, LendTerminatedKinds
  <2> QED BY <2>1, <2>2
<1>2. s2 = [s EXCEPT !.queue = q]
    BY DEF discard_messages_for_pid, ServerType
<1> HIDE DEF e
<1>3. /\ q \in [Slots -> QueuedMessage]
      /\ \A i \in Slots : /\ Undelivered(q[i]) <=> Undelivered(s.queue[i])
                          /\ Undelivered(s.queue[i]) => q[i].idx = s.queue[i].idx
    BY <1>1 DEF ServerType
<1> HIDE DEF q
<1>4. /\ s2 \in ServerType
      /\ s2.queue = q
      /\ s2.head_generation = s.head_generation
      /\ s2.tail_generation = s.tail_generation
      /\ s2.ready_threads = s.ready_threads
    BY <1>2, <1>3 DEF ServerType
<1> QED BY <1>3, <1>4

\* Parking and waking threads leave the queue alone.
LEMMA ThreadEffect ==
    ASSUME NEW s \in ServerType, NEW tid \in TIDs
    PROVE  /\ park_thread(s, tid) \in ServerType
           /\ park_thread(s, tid).queue = s.queue
           /\ park_thread(s, tid).head_generation = s.head_generation
           /\ park_thread(s, tid).tail_generation = s.tail_generation
           /\ take_available_thread(s) \in ServerType
           /\ take_available_thread(s).queue = s.queue
           /\ take_available_thread(s).head_generation = s.head_generation
           /\ take_available_thread(s).tail_generation = s.tail_generation
           /\ take_available_thread(s).ready_threads = s.ready_threads \ {AvailableThread(s)}
    BY DEF park_thread, take_available_thread, ServerType

-----------------------------------------------------------------------------
(* The window of generations between the two counters *)

\* Queueing widens the window by exactly the generation that was the tail's.
LEMMA WindowPush ==
    ASSUME NEW h \in Gens, NEW t \in Gens, t # PrevGen(h)
    PROVE  /\ \A g \in Gens : GenDistance(h, g) < GenDistance(h, NextGen(t))
                                <=> GenDistance(h, g) < GenDistance(h, t) \/ g = t
           /\ ~(GenDistance(h, t) < GenDistance(h, t))
    BY ServerAssumption DEF Gens, GenDistance, NextGen, PrevGen

\* Delivery narrows the window by exactly the generation that was the head's.
LEMMA WindowPop ==
    ASSUME NEW h \in Gens, NEW t \in Gens, t # h
    PROVE  \A g \in Gens : GenDistance(NextGen(h), g) < GenDistance(NextGen(h), t)
                              <=> GenDistance(h, g) < GenDistance(h, t) /\ g # h
    BY ServerAssumption DEF Gens, GenDistance, NextGen

\* The window is empty exactly when the counters are equal.
LEMMA WindowEmpty ==
    ASSUME NEW h \in Gens, NEW t \in Gens
    PROVE  /\ h = t => \A g \in Gens : ~(GenDistance(h, g) < GenDistance(h, t))
           /\ h # t => GenDistance(h, h) < GenDistance(h, t)
    BY ServerAssumption DEF Gens, GenDistance

GenOK(s) == EntriesInWindow(s) /\ WindowFilled(s) /\ GenerationsUnique(s)

\* The undelivered entries and their generations determine the whole of GenOK.
LEMMA GenOKUnchanged ==
    ASSUME NEW s \in ServerType, NEW s2 \in ServerType, GenOK(s),
           s2.head_generation = s.head_generation,
           s2.tail_generation = s.tail_generation,
           \A i \in Slots : Undelivered(s2.queue[i]) <=> Undelivered(s.queue[i]),
           \A i \in Slots : Undelivered(s.queue[i]) => s2.queue[i].idx = s.queue[i].idx
    PROVE  GenOK(s2)
<1>1. \A g : InWindow(s2, g) <=> InWindow(s, g)
    BY DEF InWindow, PendingCount
<1>2. \A g : \A i \in Slots : Holds(s2, i, g) <=> Holds(s, i, g)
    BY DEF Holds
<1>3. EntriesInWindow(s2)
    BY <1>1 DEF GenOK, EntriesInWindow
<1>4. WindowFilled(s2)
    BY <1>1, <1>2 DEF GenOK, WindowFilled
<1>5. GenerationsUnique(s2)
    BY <1>2 DEF GenOK, GenerationsUnique
<1> QED BY <1>3, <1>4, <1>5 DEF GenOK

\* queue_message keeps counters and entries in agreement.
LEMMA QueueMessageGenOK ==
    ASSUME NEW s \in ServerType, NEW pid \in PIDs, NEW tid \in TIDs, NEW m \in Message,
           CanQueueMessage(s), GenOK(s)
    PROVE  GenOK(queue_message(s, pid, tid, m))
<1> DEFINE s2 == queue_message(s, pid, tid, m)
           h == s.head_generation
           t == s.tail_generation
           e == QueuedEntry(s, pid, tid, m)
<1>1. /\ s2 \in ServerType
      /\ s2.head_generation = h
      /\ s2.tail_generation = NextGen(t)
    BY QueueMessageEffect
<1>2. e \in QueuedMessage /\ Undelivered(e) /\ e.idx = t /\ Fills(s, s2, e)
  <2>1. e \in QueuedMessage /\ Undelivered(e) /\ Fills(s, s2, e)
      BY QueueMessageEffect
  <2> QED BY <2>1 DEF QueuedEntry
<1>3. PICK i \in Slots : s.queue[i] = Empty /\ s2.queue = [s.queue EXCEPT ![i] = e]
    BY <1>2 DEF Fills
<1> HIDE DEF s2, e
<1>4. h \in Gens /\ t \in Gens /\ t # PrevGen(h)
    BY DEF ServerType, CanQueueMessage
<1>5. /\ \A g \in Gens : InWindow(s2, g) <=> InWindow(s, g) \/ g = t
      /\ ~InWindow(s, t)
    BY <1>1, <1>4, WindowPush DEF InWindow, PendingCount
<1>6. ~Undelivered(s.queue[i])
    BY <1>3 DEF Undelivered, Empty, UndeliveredKinds, LendKinds, LendTerminatedKinds
<1>7. /\ s.queue \in [Slots -> QueuedMessage]
      /\ s2.queue[i] = e
      /\ \A j \in Slots : j # i => s2.queue[j] = s.queue[j]
    BY <1>2, <1>3 DEF ServerType
<1>8. \A j \in Slots : Undelivered(s.queue[j]) => s.queue[j].idx \in Gens
    BY <1>7, EntryFields
<1>9. \A g \in Gens : g # t => \A j \in Slots : Holds(s2, j, g) <=> Holds(s, j, g)
    BY <1>3, <1>2, <1>6, <1>7 DEF Holds
<1>10. \A j \in Slots : Holds(s2, j, t) <=> j = i
    BY <1>3, <1>2, <1>5, <1>7 DEF Holds, GenOK, EntriesInWindow
<1>11. EntriesInWindow(s2)
    BY <1>3, <1>2, <1>4, <1>5, <1>7, <1>8 DEF GenOK, EntriesInWindow
<1>12. WindowFilled(s2)
    BY <1>4, <1>5, <1>9, <1>10 DEF GenOK, WindowFilled
<1>13. GenerationsUnique(s2)
  <2> SUFFICES ASSUME NEW j \in Slots, NEW k \in Slots,
                      Undelivered(s2.queue[j]), Holds(s2, k, s2.queue[j].idx)
               PROVE  j = k
      BY DEF GenerationsUnique
  <2> DEFINE g == s2.queue[j].idx
  <2>1. Holds(s2, j, g) /\ g \in Gens
      BY <1>3, <1>2, <1>4, <1>7, <1>8 DEF Holds
  <2>2. CASE g = t
      BY <1>10, <2>1, <2>2
  <2>3. CASE g # t
      BY <1>9, <2>1, <2>3 DEF GenOK, GenerationsUnique, Holds
  <2> QED BY <2>2, <2>3
<1> QED BY <1>11, <1>12, <1>13 DEF GenOK, s2

\* take_next_message keeps counters and entries in agreement.
LEMMA TakeNextGenOK ==
    ASSUME NEW s \in ServerType, CanTakeNext(s), GenOK(s)
    PROVE  GenOK(take_next_message(s))
<1> DEFINE s2 == take_next_message(s)
           h == s.head_generation
           t == s.tail_generation
<1>1. /\ s2 \in ServerType
      /\ s2.head_generation = NextGen(h)
      /\ s2.tail_generation = t
    BY TakeNextEffect
<1>2. PICK i \in Slots, e \in QueuedMessage :
           /\ Holds(s, i, s.head_generation)
           /\ e = DeliveredEntry(s.queue[i])
           /\ ~Undelivered(e)
           /\ s2.queue = [s.queue EXCEPT ![i] = e]
    BY TakeNextEffect, Zenon
<1> HIDE DEF s2
<1>3. h \in Gens /\ t \in Gens /\ t # h
    BY DEF ServerType, CanTakeNext
<1>4. \A g \in Gens : InWindow(s2, g) <=> InWindow(s, g) /\ g # h
    BY <1>1, <1>3, WindowPop DEF InWindow, PendingCount
<1>5. /\ s.queue \in [Slots -> QueuedMessage]
      /\ s2.queue[i] = e
      /\ \A j \in Slots : j # i => s2.queue[j] = s.queue[j]
    BY <1>2 DEF ServerType
<1>6. \A j \in Slots : Undelivered(s.queue[j]) => s.queue[j].idx \in Gens
    BY <1>5, EntryFields
<1>7. \A j \in Slots : Holds(s, j, h) => j = i
    BY <1>2 DEF GenOK, GenerationsUnique, Holds
<1>8. \A j \in Slots, g \in Gens : Holds(s2, j, g) <=> Holds(s, j, g) /\ g # h
    BY <1>2, <1>5, <1>7 DEF Holds
<1>9. EntriesInWindow(s2)
    BY <1>2, <1>4, <1>5, <1>6, <1>7 DEF GenOK, EntriesInWindow, Holds
<1>10. WindowFilled(s2)
    BY <1>4, <1>8 DEF GenOK, WindowFilled
<1>11. GenerationsUnique(s2)
    BY <1>2, <1>5, <1>6, <1>8 DEF GenOK, GenerationsUnique, Holds
<1> QED BY <1>9, <1>10, <1>11 DEF GenOK, s2

\* While the counters differ there is a message to take.
LEMMA NonEmptyCanTake ==
    ASSUME NEW s \in ServerType, GenOK(s), ~CanTakeNext(s)
    PROVE  /\ s.tail_generation = s.head_generation
           /\ \A i \in Slots : ~Undelivered(s.queue[i])
<1>1. s.head_generation \in Gens /\ s.tail_generation \in Gens
    BY DEF ServerType
<1>2. s.tail_generation = s.head_generation
  <2> SUFFICES ASSUME s.tail_generation # s.head_generation
               PROVE  FALSE
      OBVIOUS
  <2>1. InWindow(s, s.head_generation)
      BY <1>1, WindowEmpty DEF InWindow, PendingCount
  <2>2. PICK i \in Slots : Holds(s, i, s.head_generation)
      BY <1>1, <2>1 DEF GenOK, WindowFilled
  <2> QED BY <2>2 DEF CanTakeNext, Deliverable, Holds
<1>3. ASSUME NEW i \in Slots, Undelivered(s.queue[i]) PROVE FALSE
  <2>1. s.queue[i].idx \in Gens
      BY <1>3, EntryFields DEF ServerType
  <2> QED BY <1>1, <1>2, <1>3, <2>1, WindowEmpty
             DEF GenOK, EntriesInWindow, InWindow, PendingCount
<1> QED BY <1>2, <1>3

-----------------------------------------------------------------------------
(* The inductive invariant *)

\* Counters and entries agree, and a parked thread means equal counters.  The
\* second part alone is not inductive: that receive_message may park needs the
\* first, by which take_next_message returns None only when nothing is queued.
ParkedMeansEmpty(s) == s.ready_threads # {} => s.tail_generation = s.head_generation

Good(s) == s \in ServerType /\ GenOK(s) /\ ParkedMeansEmpty(s)

\* Taking the next message, or parking when there is none, keeps a server good.
LEMMA TakeNextOrParkGood ==
    ASSUME NEW s, Good(s), NEW tid \in TIDs
    PROVE  Good(TakeNextOrPark(s, tid))
<1> USE DEF Good
<1>1. CASE CanTakeNext(s)
  <2> DEFINE s2 == take_next_message(s)
  <2>1. s2 \in ServerType /\ s2.ready_threads = s.ready_threads
      BY <1>1, TakeNextEffect
  <2>2. GenOK(s2)
      BY <1>1, TakeNextGenOK
  <2>3. s.ready_threads = {}
      BY <1>1 DEF ParkedMeansEmpty, CanTakeNext
  <2> HIDE DEF s2
  <2>4. Good(s2)
      BY <2>1, <2>2, <2>3 DEF ParkedMeansEmpty
  <2> QED BY <1>1, <2>4 DEF TakeNextOrPark, s2
<1>2. CASE ~CanTakeNext(s)
  <2> DEFINE s2 == park_thread(s, tid)
  <2>1. /\ s2 \in ServerType
        /\ s2.queue = s.queue
        /\ s2.head_generation = s.head_generation
        /\ s2.tail_generation = s.tail_generation
      BY ThreadEffect
  <2> HIDE DEF s2
  <2>2. GenOK(s2)
      BY <2>1, GenOKUnchanged
  <2>3. s.tail_generation = s.head_generation
      BY <1>2, NonEmptyCanTake
  <2>4. Good(s2)
      BY <2>1, <2>2, <2>3 DEF ParkedMeansEmpty
  <2> QED BY <1>2, <2>4 DEF TakeNextOrPark, s2
<1> QED BY <1>1, <1>2

\* Answering a message keeps a server good.
LEMMA TakeWaitingGood ==
    ASSUME NEW s, Good(s), NEW i \in Slots, is_in_server(s.queue[i])
    PROVE  Good(take_waiting_message(s, i))
<1> USE DEF Good
<1> DEFINE s2 == take_waiting_message(s, i)
<1>1. /\ s2 \in ServerType
      /\ s2.queue = [s.queue EXCEPT ![i] = Empty]
      /\ s2.head_generation = s.head_generation
      /\ s2.tail_generation = s.tail_generation
      /\ s2.ready_threads = s.ready_threads
    BY TakeWaitingEffect
<1>2. ~Undelivered(s.queue[i]) /\ ~Undelivered(Empty)
    BY EntryFields DEF ServerType
<1> HIDE DEF s2
<1>3. \A j \in Slots : s2.queue[j] = IF j = i THEN Empty ELSE s.queue[j]
    BY <1>1 DEF ServerType
<1>4. GenOK(s2)
    BY <1>1, <1>2, <1>3, GenOKUnchanged
<1>5. Good(s2)
    BY <1>1, <1>4 DEF ParkedMeansEmpty
<1> QED BY <1>5 DEF s2

\* Taking a parked thread keeps a server good.
LEMMA TakeThreadGood ==
    ASSUME NEW s, Good(s)
    PROVE  Good(take_available_thread(s))
<1> USE DEF Good
<1> DEFINE s2 == take_available_thread(s)
<1>1. /\ s2 \in ServerType
      /\ s2.queue = s.queue
      /\ s2.head_generation = s.head_generation
      /\ s2.tail_generation = s.tail_generation
      /\ s2.ready_threads \subseteq s.ready_threads
    BY DEF take_available_thread, ServerType
<1> HIDE DEF s2
<1>2. GenOK(s2)
    BY <1>1, GenOKUnchanged
<1>3. Good(s2)
    BY <1>1, <1>2 DEF ParkedMeansEmpty
<1> QED BY <1>3 DEF s2

\* A server starts good.
LEMMA InitGood == Init => Good(server)
<1> SUFFICES ASSUME Init PROVE Good(server)
    OBVIOUS
<1>1. server \in ServerType
    BY StepTypes, ServerQueueAssumption DEF Init, init, ServerType, QueuedMessage
<1>2. /\ server.queue = [i \in Slots |-> Empty]
      /\ server.head_generation = 0 /\ server.tail_generation = 0
      /\ server.ready_threads = {}
    BY DEF Init, init
<1>3. \A i \in Slots : ~Undelivered(server.queue[i])
    BY <1>2 DEF Undelivered, Empty, UndeliveredKinds, LendKinds, LendTerminatedKinds
<1>4. \A g \in Gens : ~InWindow(server, g)
    BY <1>2, StepTypes, WindowEmpty DEF InWindow, PendingCount
<1> QED BY <1>1, <1>2, <1>3, <1>4
           DEF Good, GenOK, ParkedMeansEmpty, EntriesInWindow, WindowFilled, GenerationsUnique

\* Every call keeps the server good.
LEMMA NextGood == Good(server) /\ [Next]_vars => Good(server')
<1> SUFFICES ASSUME Good(server), [Next]_vars PROVE Good(server')
    OBVIOUS
<1> USE DEF Good
<1>0. Messages \subseteq Message
    BY ServerQueueAssumption DEF Messages, Message
<1>1. ASSUME NEW c \in Clients, NEW m \in Messages, SendQueued(c, m)
      PROVE  Good(server')
  <2>1. c[1] \in PIDs /\ c[2] \in TIDs /\ m \in Message
      BY <1>0, ServerQueueAssumption
  <2>2. server' \in ServerType /\ server'.ready_threads = server.ready_threads
      BY <1>1, <2>1, QueueMessageEffect DEF SendQueued
  <2>3. GenOK(server')
      BY <1>1, <2>1, QueueMessageGenOK DEF SendQueued
  <2> QED BY <1>1, <2>2, <2>3 DEF SendQueued, ParkedMeansEmpty
<1>2. ASSUME NEW c \in Clients, NEW m \in Messages, SendDirectBlocking(c, m)
      PROVE  Good(server')
  <2> DEFINE s == take_available_thread(server)
             e == ResponseEntry(c[1], c[2], m)
  <2>1. c[1] \in PIDs /\ c[2] \in TIDs /\ m \in Message
      BY <1>0, ServerQueueAssumption
  <2>2. Good(s) /\ s.queue = server.queue
      BY <1>2, TakeThreadGood DEF take_available_thread, ServerType
  <2>3. CanQueueResponse(s) /\ Blocking(m.type) /\ server' = queue_response(s, c[1], c[2], m)
      BY <1>2, <2>2 DEF SendDirectBlocking, CanQueueResponse, EmptySlots
  <2> HIDE DEF s
  <2>4. /\ server' \in ServerType
        /\ e \in QueuedMessage
        /\ is_in_server(e)
        /\ Fills(s, server', e)
        /\ server'.head_generation = s.head_generation
        /\ server'.tail_generation = s.tail_generation
        /\ server'.ready_threads = s.ready_threads
      BY <2>1, <2>2, <2>3, QueueResponseEffect
  <2> HIDE DEF e
  <2>5. PICK i \in Slots : s.queue[i] = Empty /\ server'.queue = [s.queue EXCEPT ![i] = e]
      BY <2>4 DEF Fills
  <2>6. ~Undelivered(s.queue[i]) /\ ~Undelivered(e)
      BY <2>4, <2>5, EntryFields
  <2>7. \A j \in Slots : server'.queue[j] = IF j = i THEN e ELSE s.queue[j]
      BY <2>2, <2>5 DEF ServerType
  <2>8. GenOK(server')
      BY <2>2, <2>4, <2>6, <2>7, GenOKUnchanged
  <2> QED BY <2>2, <2>4, <2>8 DEF ParkedMeansEmpty
<1>3. ASSUME NEW m \in Messages, SendDirect(m)
      PROVE  Good(server')
    BY <1>3, TakeThreadGood DEF SendDirect
<1>4. ASSUME NEW tid \in ServerThreads, Receive(tid)
      PROVE  Good(server')
    BY <1>4, TakeNextOrParkGood, ServerQueueAssumption DEF Receive
<1>5. ASSUME NEW i \in Slots, Reply(i)
      PROVE  Good(server')
    BY <1>5, TakeWaitingGood DEF Reply
<1>6. ASSUME NEW i \in Slots, NEW tid \in ServerThreads, ReplyAndReceiveNext(i, tid)
      PROVE  Good(server')
  <2>1. Good(take_waiting_message(server, i))
      BY <1>6, TakeWaitingGood DEF ReplyAndReceiveNext
  <2> QED BY <1>6, <2>1, TakeNextOrParkGood, ServerQueueAssumption DEF ReplyAndReceiveNext
<1>7. ASSUME NEW pid \in PIDs, Discard(pid)
      PROVE  Good(server')
  <2>1. /\ server' \in ServerType
        /\ \A i \in Slots : Undelivered(server'.queue[i]) <=> Undelivered(server.queue[i])
        /\ \A i \in Slots : Undelivered(server.queue[i]) =>
                                server'.queue[i].idx = server.queue[i].idx
        /\ server'.head_generation = server.head_generation
        /\ server'.tail_generation = server.tail_generation
        /\ server'.ready_threads = server.ready_threads
      BY <1>7, DiscardEffect DEF Discard
  <2>2. GenOK(server')
      BY <2>1, GenOKUnchanged
  <2> QED BY <2>1, <2>2 DEF ParkedMeansEmpty
<1>8. CASE UNCHANGED vars
    BY <1>8 DEF vars
<1> QED BY <1>1, <1>2, <1>3, <1>4, <1>5, <1>6, <1>7, <1>8 DEF Next

\* The inductive invariant of the specification.
Inv == Good(server)

\* Every reachable server is good.
LEMMA InvariantHolds == Spec => []Inv
<1>1. Init => Inv
    BY InitGood DEF Inv
<1>2. Inv /\ [Next]_vars => Inv'
    BY NextGood DEF Inv
<1> QED BY <1>1, <1>2, PTL DEF Spec

\* In every state the server is a well-formed record: its indices point into the
\* ring and its counters fit, for every queue length and counter width.
THEOREM TypeCorrect == Spec => []TypeOK
<1>1. Inv => TypeOK
    BY DEF Inv, Good, TypeOK
<1> QED BY <1>1, InvariantHolds, PTL

\* In every state the generations of the undelivered entries are exactly those
\* between the two counters, each once: take_next_message finds the one message
\* that is next, whatever the counters have wrapped to.
THEOREM GenerationsAgree == Spec => []GenerationsMatch
<1>1. Inv => GenerationsMatch
    BY DEF Inv, Good, GenOK, GenerationsMatch
<1> QED BY <1>1, InvariantHolds, PTL

\* In no state does a message wait in the queue while a thread of the server is
\* parked.
THEOREM NoWakeupIsLost == Spec => []NoLostWakeup
<1>1. Inv => NoLostWakeup
  <2> SUFFICES ASSUME Inv, server.ready_threads # {}
               PROVE  \A i \in Slots : ~Undelivered(server.queue[i])
      BY DEF NoLostWakeup
  <2>1. ~CanTakeNext(server)
      BY DEF Inv, Good, ParkedMeansEmpty, CanTakeNext
  <2> QED BY <2>1, NonEmptyCanTake DEF Inv, Good
<1> QED BY <1>1, InvariantHolds, PTL

-----------------------------------------------------------------------------
(* The queue implements the mailbox *)

\* The mailbox that a server stands for.
SlotIn(s, g) == CHOOSE i \in Slots : Holds(s, i, g)
PendingOf(s) ==
    [n \in 1 .. PendingCount(s) |-> LetterOf(s.queue[SlotIn(s, GenAt(s.head_generation, n - 1))])]
ServingOf(s) ==
    [i \in Slots |-> IF is_in_server(s.queue[i]) THEN LetterOf(s.queue[i]) ELSE Nobody]

\* The refinement mapping is that mailbox.
LEMMA MappingIs ==
    /\ MailboxPending = PendingOf(server) /\ MailboxServing = ServingOf(server)
    /\ MailboxPending' = PendingOf(server') /\ MailboxServing' = ServingOf(server')
    BY DEF MailboxPending, MailboxServing, PendingOf, ServingOf, SlotOf, SlotIn

\* Counting generations from the head: the n-th one lies in the window while n is
\* below the number of pending messages, and the last one counted is the tail.
LEMMA GenAtWindow ==
    ASSUME NEW h \in Gens, NEW t \in Gens
    PROVE  /\ GenDistance(h, t) \in Nat
           /\ h = t => GenDistance(h, t) = 0
           /\ h # t => GenDistance(h, t) > 0
           /\ GenAt(h, 0) = h
           /\ GenAt(h, GenDistance(h, t)) = t
           /\ \A n \in 0 .. GenDistance(h, t) - 1 :
                  /\ GenAt(h, n) \in Gens
                  /\ GenAt(h, n) # t
                  /\ GenDistance(h, GenAt(h, n)) < GenDistance(h, t)
    BY ServerAssumption DEF Gens, GenDistance, GenAt

\* Queueing makes the window one generation longer.
LEMMA GenAtPush ==
    ASSUME NEW h \in Gens, NEW t \in Gens, t # PrevGen(h)
    PROVE  GenDistance(h, NextGen(t)) = GenDistance(h, t) + 1
    BY ServerAssumption DEF Gens, GenDistance, NextGen, PrevGen

\* Delivery makes it one shorter and shifts the count by one.
LEMMA GenAtPop ==
    ASSUME NEW h \in Gens, NEW t \in Gens, t # h
    PROVE  /\ GenDistance(NextGen(h), t) = GenDistance(h, t) - 1
           /\ \A n \in 1 .. GenDistance(h, t) - 1 : /\ GenAt(NextGen(h), n - 1) = GenAt(h, n)
                                                    /\ GenAt(h, n) # h
    BY ServerAssumption DEF Gens, GenDistance, GenAt, NextGen

\* Entries stand for letters.
LEMMA LetterTypes ==
    ASSUME NEW e \in QueuedMessage, Undelivered(e) \/ is_in_server(e)
    PROVE  LetterOf(e) \in M!Letter /\ LetterOf(e) # Nobody
<1>1. e \in [kind : UndeliveredKinds \cup WaitingKinds,
             pid : PIDs, tid : TIDs, idx : Gens, body : Bodies]
    BY EntryFields
<1>2. Expects(e.kind) \in {"nothing", "scalar", "memory"}
    BY DEF Expects
<1>3. LetterOf(e) \in M!Letter
    BY <1>1, <1>2 DEF LetterOf, M!Letter, M!Expectations
<1> QED BY <1>3, NobodyAssumption

\* The slot of each generation in the window is the one that holds it.
LEMMA SlotInHolds ==
    ASSUME NEW s \in ServerType, GenOK(s), NEW n \in 1 .. PendingCount(s)
    PROVE  /\ GenAt(s.head_generation, n - 1) \in Gens
           /\ SlotIn(s, GenAt(s.head_generation, n - 1)) \in Slots
           /\ Holds(s, SlotIn(s, GenAt(s.head_generation, n - 1)), GenAt(s.head_generation, n - 1))
<1> DEFINE h == s.head_generation
           t == s.tail_generation
           g == GenAt(h, n - 1)
<1>1. h \in Gens /\ t \in Gens
    BY DEF ServerType
<1>2. n \in 1 .. GenDistance(h, t) /\ GenDistance(h, t) \in Nat
    BY <1>1, GenAtWindow DEF PendingCount
<1>3. n - 1 \in 0 .. GenDistance(h, t) - 1
    BY <1>2
<1>4. g \in Gens /\ GenDistance(h, g) < GenDistance(h, t)
    BY <1>1, <1>3, GenAtWindow
<1>5. InWindow(s, g)
    BY <1>4 DEF InWindow, PendingCount
<1>6. \E i \in Slots : Holds(s, i, g)
    BY <1>4, <1>5 DEF GenOK, WindowFilled
<1>7. SlotIn(s, g) \in Slots /\ Holds(s, SlotIn(s, g), g)
    BY <1>6 DEF SlotIn
<1> QED BY <1>4, <1>7

\* A slot that holds a generation is its slot.
LEMMA SlotInIs ==
    ASSUME NEW s \in ServerType, GenOK(s), NEW g, NEW i \in Slots, Holds(s, i, g)
    PROVE  SlotIn(s, g) = i
<1>1. SlotIn(s, g) \in Slots /\ Holds(s, SlotIn(s, g), g)
    BY DEF SlotIn
<1> QED BY <1>1 DEF GenOK, GenerationsUnique, Holds

\* What is pending is a sequence of letters.
LEMMA PendingSeq ==
    ASSUME NEW s \in ServerType, GenOK(s)
    PROVE  /\ PendingCount(s) \in Nat
           /\ PendingOf(s) \in Seq(M!Letter)
           /\ Len(PendingOf(s)) = PendingCount(s)
<1>1. PendingCount(s) \in Nat
    BY GenAtWindow DEF PendingCount, ServerType
<1> DEFINE F(n) == LetterOf(s.queue[SlotIn(s, GenAt(s.head_generation, n - 1))])
<1>2. \A n \in 1 .. PendingCount(s) : F(n) \in M!Letter
  <2> TAKE n \in 1 .. PendingCount(s)
  <2> DEFINE i == SlotIn(s, GenAt(s.head_generation, n - 1))
  <2>1. i \in Slots /\ Undelivered(s.queue[i])
      BY SlotInHolds DEF Holds
  <2>2. s.queue[i] \in QueuedMessage
      BY <2>1 DEF ServerType
  <2> QED BY <2>1, <2>2, LetterTypes
<1> HIDE DEF F
<1>3. [n \in 1 .. PendingCount(s) |-> F(n)] \in Seq(M!Letter)
      /\ Len([n \in 1 .. PendingCount(s) |-> F(n)]) = PendingCount(s)
    BY <1>1, <1>2
<1> QED BY <1>1, <1>3 DEF PendingOf, F

\* Nothing is pending exactly when the counters are equal.
LEMMA PendingEmpty ==
    ASSUME NEW s \in ServerType, GenOK(s)
    PROVE  PendingOf(s) = <<>> <=> s.tail_generation = s.head_generation
<1>1. PendingCount(s) = 0 <=> s.tail_generation = s.head_generation
    BY GenAtWindow DEF PendingCount, ServerType
<1>2. PendingOf(s) = <<>> <=> Len(PendingOf(s)) = 0
    BY PendingSeq
<1> QED BY <1>1, <1>2, PendingSeq

\* Pending letters depend on the undelivered entries alone.
LEMMA SamePending ==
    ASSUME NEW s \in ServerType, NEW s2 \in ServerType, GenOK(s), GenOK(s2),
           s2.head_generation = s.head_generation,
           s2.tail_generation = s.tail_generation,
           \A i \in Slots : Undelivered(s.queue[i]) => s2.queue[i] = s.queue[i]
    PROVE  PendingOf(s2) = PendingOf(s)
<1> DEFINE h == s.head_generation
           F(n) == LetterOf(s.queue[SlotIn(s, GenAt(h, n - 1))])
           F2(n) == LetterOf(s2.queue[SlotIn(s2, GenAt(h, n - 1))])
<1>1. PendingCount(s2) = PendingCount(s)
    BY DEF PendingCount
<1>2. ASSUME NEW n \in 1 .. PendingCount(s) PROVE F2(n) = F(n)
  <2> DEFINE g == GenAt(h, n - 1)
             i == SlotIn(s, g)
  <2>1. i \in Slots /\ Holds(s, i, g)
      BY SlotInHolds
  <2>2. s2.queue[i] = s.queue[i] /\ Holds(s2, i, g)
      BY <2>1 DEF Holds
  <2>3. SlotIn(s2, g) = i
      BY <2>1, <2>2, SlotInIs
  <2> QED BY <2>2, <2>3
<1> HIDE DEF F, F2
<1>3. [n \in 1 .. PendingCount(s) |-> F2(n)] = [n \in 1 .. PendingCount(s) |-> F(n)]
    BY <1>2
<1> QED BY <1>1, <1>3 DEF PendingOf, F, F2

\* queue_message appends the letter to what is pending.
LEMMA QueueMessagePending ==
    ASSUME NEW s \in ServerType, NEW pid \in PIDs, NEW tid \in TIDs, NEW m \in Message,
           CanQueueMessage(s), GenOK(s),
           NEW s2, s2 = queue_message(s, pid, tid, m)
    PROVE  /\ PendingOf(s2) = Append(PendingOf(s), LetterOf(QueuedEntry(s, pid, tid, m)))
           /\ ServingOf(s2) = ServingOf(s)
<1> DEFINE h == s.head_generation
           t == s.tail_generation
           e == QueuedEntry(s, pid, tid, m)
<1>1. /\ s2 \in ServerType /\ GenOK(s2)
      /\ s2.head_generation = h /\ s2.tail_generation = NextGen(t)
      /\ e \in QueuedMessage /\ Undelivered(e) /\ Fills(s, s2, e)
    BY QueueMessageEffect, QueueMessageGenOK
<1>2. e.idx = t
    BY DEF QueuedEntry
<1> HIDE DEF e
<1>3. PICK k \in Slots : s.queue[k] = Empty /\ s2.queue = [s.queue EXCEPT ![k] = e]
    BY <1>1 DEF Fills
<1>4. \A j \in Slots : s2.queue[j] = IF j = k THEN e ELSE s.queue[j]
    BY <1>3 DEF ServerType
<1>5. ~Undelivered(s.queue[k]) /\ ~is_in_server(s.queue[k]) /\ ~is_in_server(e)
    BY <1>1, <1>3, EntryFields
<1>6. h \in Gens /\ t \in Gens /\ t # PrevGen(h)
    BY DEF ServerType, CanQueueMessage
<1> DEFINE c == PendingCount(s)
<1>7. c \in Nat /\ PendingCount(s2) = c + 1 /\ c = GenDistance(h, t)
    BY <1>1, <1>6, GenAtWindow, GenAtPush DEF PendingCount
<1> HIDE DEF c
<1> DEFINE F(n) == LetterOf(s.queue[SlotIn(s, GenAt(h, n - 1))])
           F2(n) == LetterOf(s2.queue[SlotIn(s2, GenAt(h, n - 1))])
<1>8. ASSUME NEW n \in 1 .. c PROVE F2(n) = F(n)
  <2> DEFINE g == GenAt(h, n - 1)
             i == SlotIn(s, g)
  <2>1. i \in Slots /\ Holds(s, i, g)
      BY SlotInHolds DEF c
  <2>2. s2.queue[i] = s.queue[i] /\ Holds(s2, i, g)
      BY <1>4, <1>5, <2>1 DEF Holds
  <2>3. SlotIn(s2, g) = i
      BY <1>1, <2>1, <2>2, SlotInIs
  <2> QED BY <2>2, <2>3
<1>9. F2(c + 1) = LetterOf(e)
  <2>1. GenAt(h, (c + 1) - 1) = t
      BY <1>6, <1>7, GenAtWindow
  <2>2. s2.queue[k] = e /\ Holds(s2, k, t)
      BY <1>1, <1>2, <1>4 DEF Holds
  <2>3. SlotIn(s2, t) = k
      BY <1>1, <2>2, SlotInIs
  <2> QED BY <2>1, <2>2, <2>3
<1>10. PendingOf(s) = [n \in 1 .. c |-> F(n)] /\ PendingOf(s2) = [n \in 1 .. (c + 1) |-> F2(n)]
    BY <1>1, <1>7 DEF PendingOf, c
<1> HIDE DEF F, F2
<1>11. PendingOf(s2) = Append(PendingOf(s), LetterOf(e))
  <2>1. /\ PendingOf(s) \in Seq(M!Letter) /\ PendingOf(s2) \in Seq(M!Letter)
        /\ LetterOf(e) \in M!Letter
        /\ Len(PendingOf(s)) = c /\ Len(PendingOf(s2)) = c + 1
      BY <1>1, <1>7, PendingSeq, LetterTypes DEF c
  <2>2. \A n \in 1 .. c : PendingOf(s2)[n] = PendingOf(s)[n]
      BY <1>7, <1>8, <1>10
  <2>3. PendingOf(s2)[c + 1] = LetterOf(e)
      BY <1>7, <1>9, <1>10
  <2> QED BY <1>7, <2>1, <2>2, <2>3, SeqEqual, AppendProperties
<1>12. ServingOf(s2) = ServingOf(s)
    BY <1>4, <1>5 DEF ServingOf
<1> QED BY <1>11, <1>12 DEF e

\* take_next_message takes the first pending letter.
LEMMA TakeNextPending ==
    ASSUME NEW s \in ServerType, CanTakeNext(s), GenOK(s)
    PROVE  /\ PendingOf(s) # <<>>
           /\ PendingOf(take_next_message(s)) = Tail(PendingOf(s))
           /\ ServingOf(take_next_message(s)) \in M!Handed(ServingOf(s), Head(PendingOf(s)))
<1> DEFINE s2 == take_next_message(s)
           h == s.head_generation
           t == s.tail_generation
<1>1. /\ s2 \in ServerType /\ GenOK(s2)
      /\ s2.head_generation = NextGen(h) /\ s2.tail_generation = t
    BY TakeNextEffect, TakeNextGenOK
<1>2. PICK k \in Slots, e \in QueuedMessage :
           /\ Holds(s, k, s.head_generation)
           /\ e = DeliveredEntry(s.queue[k])
           /\ ~Undelivered(e)
           /\ s2.queue = [s.queue EXCEPT ![k] = e]
    BY TakeNextEffect, Zenon
<1> HIDE DEF s2
<1>3. h \in Gens /\ t \in Gens /\ t # h
    BY DEF ServerType, CanTakeNext
<1>4. \A j \in Slots : s2.queue[j] = IF j = k THEN e ELSE s.queue[j]
    BY <1>2 DEF ServerType
<1>5. SlotIn(s, h) = k /\ Undelivered(s.queue[k]) /\ s.queue[k].idx = h
    BY <1>2, SlotInIs DEF Holds
<1> DEFINE c == PendingCount(s)
<1>6. c \in Nat \ {0} /\ PendingCount(s2) = c - 1 /\ c = GenDistance(h, t)
    BY <1>1, <1>3, GenAtWindow, GenAtPop DEF PendingCount
<1> HIDE DEF c
<1> DEFINE F(n) == LetterOf(s.queue[SlotIn(s, GenAt(h, n - 1))])
           F2(n) == LetterOf(s2.queue[SlotIn(s2, GenAt(NextGen(h), n - 1))])
<1>7. ASSUME NEW n \in 1 .. c - 1 PROVE F2(n) = F(n + 1)
  <2> DEFINE g == GenAt(h, n)
             i == SlotIn(s, g)
  <2>1. GenAt(NextGen(h), n - 1) = g /\ g # h /\ (n + 1) - 1 = n /\ n + 1 \in 1 .. c
      BY <1>3, <1>6, GenAtPop
  <2>2. i \in Slots /\ Holds(s, i, g)
      BY <2>1, SlotInHolds DEF c
  <2>3. s2.queue[i] = s.queue[i] /\ Holds(s2, i, g)
      BY <1>4, <1>5, <2>1, <2>2 DEF Holds
  <2>4. SlotIn(s2, g) = i
      BY <1>1, <2>2, <2>3, SlotInIs
  <2> QED BY <2>1, <2>3, <2>4
<1>8. F(1) = LetterOf(s.queue[k])
  <2>1. GenAt(h, 1 - 1) = h
      BY <1>3, GenAtWindow
  <2> QED BY <1>5, <2>1
<1>9. PendingOf(s) = [n \in 1 .. c |-> F(n)] /\ PendingOf(s2) = [n \in 1 .. (c - 1) |-> F2(n)]
    BY <1>1, <1>6 DEF PendingOf, c
<1> HIDE DEF F, F2
<1>10. PendingOf(s) \in Seq(M!Letter) /\ PendingOf(s2) \in Seq(M!Letter)
       /\ Len(PendingOf(s)) = c /\ Len(PendingOf(s2)) = c - 1
    BY <1>1, <1>6, PendingSeq DEF c
<1>11. PendingOf(s) # <<>> /\ Head(PendingOf(s)) = LetterOf(s.queue[k])
    BY <1>6, <1>8, <1>9, <1>10
<1>12. PendingOf(s2) = Tail(PendingOf(s))
  <2>1. \A n \in 1 .. c - 1 : PendingOf(s2)[n] = PendingOf(s)[n + 1]
      BY <1>6, <1>7, <1>9
  <2>2. /\ Tail(PendingOf(s)) \in Seq(M!Letter)
        /\ Len(Tail(PendingOf(s))) = c - 1
        /\ \A n \in 1 .. c - 1 : Tail(PendingOf(s))[n] = PendingOf(s)[n + 1]
      BY <1>6, <1>10, <1>11, HeadTailProperties
  <2> QED BY <1>10, <2>1, <2>2, SeqEqual
<1>13. ServingOf(s2) \in M!Handed(ServingOf(s), LetterOf(s.queue[k]))
  <2> DEFINE x == s.queue[k]
  <2>1. x \in [kind : UndeliveredKinds \cup WaitingKinds,
               pid : PIDs, tid : TIDs, idx : Gens, body : Bodies]
        /\ x.kind \in UndeliveredKinds /\ ~is_in_server(x)
      BY <1>5, EntryFields DEF ServerType, Undelivered
  <2> HIDE DEF x
  <2>2. CASE Expects(x.kind) = "nothing"
    <3>1. DeliveredEntry(x) = Empty
        BY <2>1, <2>2 DEF DeliveredEntry, Expects, UndeliveredKinds, LendKinds, LendTerminatedKinds
    <3>2. ServingOf(s2) = ServingOf(s)
        BY <1>2, <1>4, <2>1, <3>1, EntryFields DEF ServingOf, x
    <3> QED BY <2>2, <3>2 DEF M!Handed, LetterOf, x
  <2>3. CASE Expects(x.kind) # "nothing"
    <3>1. is_in_server(DeliveredEntry(x)) /\ LetterOf(DeliveredEntry(x)) = LetterOf(x)
        BY <2>1, <2>3 DEF DeliveredEntry, Expects, UndeliveredKinds, LendKinds, LendTerminatedKinds,
                          is_in_server, WaitingKinds, LetterOf
    <3>2. ServingOf(s)[k] = Nobody
        BY <2>1 DEF ServingOf, x
    <3>3. ServingOf(s2) = [ServingOf(s) EXCEPT ![k] = LetterOf(x)]
        BY <1>2, <1>4, <2>1, <3>1 DEF ServingOf, x
    <3> QED BY <2>3, <3>2, <3>3 DEF M!Handed, LetterOf, x
  <2> QED BY <2>2, <2>3
<1> QED BY <1>11, <1>12, <1>13 DEF s2

\* take_waiting_message answers the letter under its slot and leaves what is
\* pending alone.
LEMMA TakeWaitingPending ==
    ASSUME NEW s, Good(s), NEW i \in Slots, is_in_server(s.queue[i]),
           NEW s2, s2 = take_waiting_message(s, i)
    PROVE  /\ PendingOf(s2) = PendingOf(s)
           /\ ServingOf(s)[i] # Nobody
           /\ ServingOf(s2) = [j \in Slots |-> IF j = i THEN Nobody ELSE ServingOf(s)[j]]
<1> USE DEF Good
<1>1. /\ s2 \in ServerType /\ GenOK(s2)
      /\ s2.queue = [s.queue EXCEPT ![i] = Empty]
      /\ s2.head_generation = s.head_generation
      /\ s2.tail_generation = s.tail_generation
    BY TakeWaitingEffect, TakeWaitingGood
<1>2. s.queue[i] \in QueuedMessage
    BY DEF ServerType
<1>3. ~Undelivered(s.queue[i]) /\ ~is_in_server(Empty) /\ LetterOf(s.queue[i]) # Nobody
    BY <1>2, EntryFields, LetterTypes
<1>4. \A j \in Slots : s2.queue[j] = IF j = i THEN Empty ELSE s.queue[j]
    BY <1>1 DEF ServerType
<1>5. PendingOf(s2) = PendingOf(s)
    BY <1>1, <1>3, <1>4, SamePending
<1>6. ServingOf(s)[i] # Nobody
    BY <1>3 DEF ServingOf
<1>7. ServingOf(s2) = [j \in Slots |-> IF j = i THEN Nobody ELSE ServingOf(s)[j]]
    BY <1>3, <1>4 DEF ServingOf
<1> QED BY <1>5, <1>6, <1>7

\* queue_response hands a letter over and leaves what is pending alone.
LEMMA QueueResponsePending ==
    ASSUME NEW s \in ServerType, NEW pid \in PIDs, NEW tid \in TIDs, NEW m \in Message,
           GenOK(s), CanQueueResponse(s), Blocking(m.type),
           NEW s2, s2 = queue_response(s, pid, tid, m)
    PROVE  /\ s2.ready_threads = s.ready_threads
           /\ PendingOf(s2) = PendingOf(s)
           /\ LetterOf(ResponseEntry(pid, tid, m)) \in M!Letter
           /\ ServingOf(s2) \in M!Handed(ServingOf(s), LetterOf(ResponseEntry(pid, tid, m)))
<1> DEFINE e == ResponseEntry(pid, tid, m)
<1>1. /\ s2 \in ServerType
      /\ e \in QueuedMessage /\ is_in_server(e) /\ Fills(s, s2, e)
      /\ s2.head_generation = s.head_generation
      /\ s2.tail_generation = s.tail_generation
      /\ s2.ready_threads = s.ready_threads
    BY QueueResponseEffect
<1>2. LetterOf(e).expects # "nothing"
    BY DEF ResponseEntry, LetterOf, Blocking, WaitingKind, Expects, LendKinds, LendTerminatedKinds
<1> HIDE DEF e
<1>3. PICK k \in Slots : s.queue[k] = Empty /\ s2.queue = [s.queue EXCEPT ![k] = e]
    BY <1>1 DEF Fills
<1>4. \A j \in Slots : s2.queue[j] = IF j = k THEN e ELSE s.queue[j]
    BY <1>3 DEF ServerType
<1>5. ~Undelivered(s.queue[k]) /\ ~is_in_server(s.queue[k]) /\ ~Undelivered(e)
    BY <1>1, <1>3, EntryFields
<1>6. GenOK(s2)
    BY <1>1, <1>4, <1>5, GenOKUnchanged
<1>7. PendingOf(s2) = PendingOf(s)
    BY <1>1, <1>4, <1>5, <1>6, SamePending
<1>8. ServingOf(s)[k] = Nobody
    BY <1>5 DEF ServingOf
<1>9. ServingOf(s2) = [ServingOf(s) EXCEPT ![k] = LetterOf(e)]
    BY <1>1, <1>4 DEF ServingOf
<1>10. ServingOf(s2) \in M!Handed(ServingOf(s), LetterOf(e))
    BY <1>2, <1>8, <1>9 DEF M!Handed
<1>11. LetterOf(e) \in M!Letter
    BY <1>1, LetterTypes
<1> QED BY <1>1, <1>7, <1>10, <1>11 DEF e

\* A pending letter once process pid is gone.
ExpiredLetter(letter, pid) ==
    IF letter.from \in {pid} \X TIDs /\ letter.expects = "scalar"
    THEN [letter EXCEPT !.expects = "nothing"]
    ELSE letter

\* discard_messages_for_pid turns the pending letters of that process that expect
\* a scalar into letters that expect nothing, and keeps every other one.
LEMMA DiscardPending ==
    ASSUME NEW s \in ServerType, GenOK(s), NEW pid \in PIDs,
           NEW s2, s2 = discard_messages_for_pid(s, pid)
    PROVE  /\ PendingOf(s2) = [n \in DOMAIN PendingOf(s) |-> ExpiredLetter(PendingOf(s)[n], pid)]
           /\ ServingOf(s2) = ServingOf(s)
<1>1. /\ s2 \in ServerType
      /\ \A i \in Slots : Undelivered(s2.queue[i]) <=> Undelivered(s.queue[i])
      /\ \A i \in Slots : Undelivered(s.queue[i]) => s2.queue[i].idx = s.queue[i].idx
      /\ s2.head_generation = s.head_generation
      /\ s2.tail_generation = s.tail_generation
    BY DiscardEffect
<1>2. GenOK(s2)
    BY <1>1, GenOKUnchanged
<1>3. \A i \in Slots : s2.queue[i] = DiscardedEntry(s.queue[i], pid)
    BY DEF discard_messages_for_pid, ServerType
<1>4. ASSUME NEW x \in QueuedMessage
      PROVE  /\ Undelivered(x) =>
                    LetterOf(DiscardedEntry(x, pid)) = ExpiredLetter(LetterOf(x), pid)
             /\ is_in_server(DiscardedEntry(x, pid)) <=> is_in_server(x)
             /\ is_in_server(x) => LetterOf(DiscardedEntry(x, pid)) = LetterOf(x)
  <2>1. CASE x = Empty
      BY <2>1, EntryFields DEF DiscardedEntry
  <2>2. CASE x # Empty
    <3>1. x \in [kind : UndeliveredKinds \cup WaitingKinds,
                 pid : PIDs, tid : TIDs, idx : Gens, body : Bodies]
        BY <2>2 DEF QueuedMessage
    <3>2. CASE x.pid # pid
        BY <3>1, <3>2 DEF DiscardedEntry, LetterOf, ExpiredLetter
    <3>3. CASE x.pid = pid
      <4> DEFINE k == TerminatedKind(x.kind)
                 y == [x EXCEPT !.kind = k]
      <4>1. DiscardedEntry(x, pid) = y
          BY <2>2, <3>3 DEF DiscardedEntry
      <4>2. /\ y.kind = k /\ y.pid = x.pid /\ y.tid = x.tid /\ y.body = x.body
          BY <3>1
      <4>3. /\ k \in WaitingKinds <=> x.kind \in WaitingKinds
            /\ x.kind \in WaitingKinds => k = x.kind
            /\ Expects(k) = IF x.kind = "BlockingScalarMessage" THEN "nothing" ELSE Expects(x.kind)
            /\ x.kind \in UndeliveredKinds =>
                  (Expects(x.kind) = "scalar" <=> x.kind = "BlockingScalarMessage")
          BY <3>1 DEF TerminatedKind, Expects, UndeliveredKinds, WaitingKinds, LendKinds,
                      LendTerminatedKinds
      <4> HIDE DEF y, k
      <4>4. <<x.pid, x.tid>> \in {pid} \X TIDs
          BY <3>1, <3>3
      <4>5. Undelivered(x) => LetterOf(y) = ExpiredLetter(LetterOf(x), pid)
          BY <4>2, <4>3, <4>4 DEF LetterOf, ExpiredLetter, Undelivered
      <4>6. (is_in_server(y) <=> is_in_server(x)) /\ (is_in_server(x) => LetterOf(y) = LetterOf(x))
          BY <4>2, <4>3 DEF LetterOf, is_in_server
      <4> QED BY <4>1, <4>5, <4>6
    <3> QED BY <3>2, <3>3
  <2> QED BY <2>1, <2>2
<1> DEFINE h == s.head_generation
           F(n) == LetterOf(s.queue[SlotIn(s, GenAt(h, n - 1))])
           F2(n) == LetterOf(s2.queue[SlotIn(s2, GenAt(h, n - 1))])
<1>5. PendingCount(s2) = PendingCount(s)
    BY <1>1 DEF PendingCount
<1>6. ASSUME NEW n \in 1 .. PendingCount(s) PROVE F2(n) = ExpiredLetter(F(n), pid)
  <2> DEFINE g == GenAt(h, n - 1)
             i == SlotIn(s, g)
  <2>1. i \in Slots /\ Holds(s, i, g) /\ Undelivered(s.queue[i]) /\ s.queue[i] \in QueuedMessage
      BY SlotInHolds DEF Holds, ServerType
  <2>2. Holds(s2, i, g)
      BY <1>1, <2>1 DEF Holds
  <2>3. SlotIn(s2, g) = i
      BY <1>1, <1>2, <2>1, <2>2, SlotInIs
  <2>4. LetterOf(s2.queue[i]) = ExpiredLetter(LetterOf(s.queue[i]), pid)
      BY <1>3, <1>4, <2>1
  <2> QED BY <2>3, <2>4
<1>7. /\ PendingOf(s) = [n \in 1 .. PendingCount(s) |-> F(n)]
      /\ PendingOf(s2) = [n \in 1 .. PendingCount(s) |-> F2(n)]
    BY <1>1, <1>5 DEF PendingOf
<1> HIDE DEF F, F2
<1>8. PendingOf(s2) = [n \in DOMAIN PendingOf(s) |-> ExpiredLetter(PendingOf(s)[n], pid)]
    BY <1>6, <1>7
<1>9. ServingOf(s2) = ServingOf(s)
  <2>1. \A i \in Slots : s.queue[i] \in QueuedMessage
      BY DEF ServerType
  <2> QED BY <1>3, <1>4, <2>1 DEF ServingOf
<1> QED BY <1>8, <1>9

-----------------------------------------------------------------------------

\* What taking the next message or parking does to the mailbox, when the record of
\* letters being served is the one of s.
LEMMA TakeNextOrParkMailbox ==
    ASSUME NEW s, Good(s), NEW tid \in TIDs, tid \notin s.ready_threads,
           NEW s2, s2 = TakeNextOrPark(s, tid)
    PROVE  \/ /\ PendingOf(s) # <<>>
              /\ PendingOf(s2) = Tail(PendingOf(s))
              /\ ServingOf(s2) \in M!Handed(ServingOf(s), Head(PendingOf(s)))
              /\ s2.ready_threads = s.ready_threads
           \/ /\ PendingOf(s) = <<>>
              /\ PendingOf(s2) = PendingOf(s)
              /\ ServingOf(s2) = ServingOf(s)
              /\ s2.ready_threads = s.ready_threads \cup {tid}
<1> USE DEF Good
<1>1. CASE CanTakeNext(s)
  <2>1. s2 = take_next_message(s)
      BY <1>1 DEF TakeNextOrPark
  <2>2. s2.ready_threads = s.ready_threads
      BY <1>1, <2>1, TakeNextEffect
  <2>3. /\ PendingOf(s) # <<>>
        /\ PendingOf(s2) = Tail(PendingOf(s))
        /\ ServingOf(s2) \in M!Handed(ServingOf(s), Head(PendingOf(s)))
      BY <1>1, <2>1, TakeNextPending
  <2> QED BY <2>2, <2>3
<1>2. CASE ~CanTakeNext(s)
  <2>1. s2 = park_thread(s, tid)
      BY <1>2 DEF TakeNextOrPark
  <2>2. /\ s2 \in ServerType
        /\ s2.queue = s.queue
        /\ s2.head_generation = s.head_generation
        /\ s2.tail_generation = s.tail_generation
      BY <2>1, ThreadEffect
  <2>3. s2.ready_threads = s.ready_threads \cup {tid}
      BY <2>1 DEF park_thread, ServerType
  <2>4. GenOK(s2)
      BY <2>2, GenOKUnchanged
  <2>5. PendingOf(s2) = PendingOf(s) /\ ServingOf(s2) = ServingOf(s)
      BY <2>2, <2>4, SamePending DEF ServingOf
  <2>6. PendingOf(s) = <<>>
      BY <1>2, NonEmptyCanTake, PendingEmpty
  <2> QED BY <2>3, <2>5, <2>6
<1> QED BY <1>1, <1>2

\* A thread that is taken was waiting.
LEMMA AvailableThreadIn ==
    ASSUME NEW s \in ServerType, s.ready_threads # {}
    PROVE  AvailableThread(s) \in s.ready_threads
<1>1. s.ready_threads \subseteq Nat
    BY ServerAssumption DEF ServerType
<1>2. \E t \in s.ready_threads : \A u \in s.ready_threads : t <= u
    BY <1>1, LeastNat
<1> QED BY <1>2 DEF AvailableThread

\* A server starts as an empty mailbox.
LEMMA InitMailbox == Init => M!Init
<1> SUFFICES ASSUME Init PROVE M!Init
    OBVIOUS
<1>1. /\ server.queue = [i \in Slots |-> Empty]
      /\ server.head_generation = 0 /\ server.tail_generation = 0
      /\ server.ready_threads = {}
    BY DEF Init, init
<1>2. PendingOf(server) = <<>>
    BY <1>1, InitGood, PendingEmpty DEF Good
<1>3. ~is_in_server(Empty)
    BY DEF is_in_server, Empty, WaitingKinds
<1>4. ServingOf(server) = [k \in Slots |-> Nobody]
    BY <1>1, <1>3 DEF ServingOf
<1> QED BY <1>1, <1>2, <1>4, MappingIs DEF M!Init

\* Every call on the queue is a step of the mailbox, or leaves it as it is.
LEMMA NextMailbox == Good(server) /\ [Next]_vars => [M!Next]_(M!vars)
<1> SUFFICES ASSUME Good(server), [Next]_vars PROVE [M!Next]_(M!vars)
    OBVIOUS
<1> USE DEF Good
<1>0. Messages \subseteq Message
    BY ServerQueueAssumption DEF Messages, Message
<1>1. ASSUME NEW c \in Clients, NEW m \in Messages, SendQueued(c, m)
      PROVE  M!Next
  <2> DEFINE letter == LetterOf(QueuedEntry(server, c[1], c[2], m))
  <2>1. c[1] \in PIDs /\ c[2] \in TIDs /\ m \in Message
      BY <1>0, ServerQueueAssumption
  <2>2. server.ready_threads = {} /\ server'.ready_threads = {}
      BY <1>1, <2>1, QueueMessageEffect DEF SendQueued
  <2>3. letter \in M!Letter
      BY <1>1, <2>1, QueueMessageEffect, LetterTypes DEF SendQueued
  <2>4. /\ PendingOf(server') = Append(PendingOf(server), letter)
        /\ ServingOf(server') = ServingOf(server)
      BY <1>1, <2>1, QueueMessagePending DEF SendQueued
  <2> HIDE DEF letter
  <2>5. M!Post(letter)
      BY <2>2, <2>4, MappingIs DEF M!Post
  <2> QED BY <2>3, <2>5 DEF M!Next
<1>2. ASSUME NEW c \in Clients, NEW m \in Messages, SendDirectBlocking(c, m)
      PROVE  M!Next
  <2> DEFINE s == take_available_thread(server)
             t == AvailableThread(server)
             letter == LetterOf(ResponseEntry(c[1], c[2], m))
  <2>1. c[1] \in PIDs /\ c[2] \in TIDs /\ m \in Message
      BY <1>0, ServerQueueAssumption
  <2>2. /\ Good(s) /\ s.queue = server.queue
        /\ s.head_generation = server.head_generation
        /\ s.tail_generation = server.tail_generation
        /\ s.ready_threads = server.ready_threads \ {t}
      BY <1>2, TakeThreadGood DEF take_available_thread, ServerType
  <2>3. CanQueueResponse(s) /\ Blocking(m.type) /\ server' = queue_response(s, c[1], c[2], m)
      BY <1>2, <2>2 DEF SendDirectBlocking, CanQueueResponse, EmptySlots
  <2>4. t \in server.ready_threads
      BY <1>2, AvailableThreadIn DEF SendDirectBlocking
  <2> HIDE DEF s, t
  <2>5. PendingOf(s) = PendingOf(server) /\ ServingOf(s) = ServingOf(server)
      BY <2>2, SamePending DEF ServingOf
  <2>6. PendingOf(server) = <<>>
      BY <1>2, PendingEmpty DEF SendDirectBlocking, ParkedMeansEmpty
  <2>7. /\ server'.ready_threads = s.ready_threads
        /\ PendingOf(server') = PendingOf(s)
        /\ letter \in M!Letter
        /\ ServingOf(server') \in M!Handed(ServingOf(s), letter)
      BY <2>1, <2>2, <2>3, QueueResponsePending
  <2> HIDE DEF letter
  <2>8. M!Handoff(letter)
      BY <2>2, <2>4, <2>5, <2>6, <2>7, MappingIs DEF M!Handoff
  <2> QED BY <2>7, <2>8 DEF M!Next
<1>3. ASSUME NEW m \in Messages, SendDirect(m)
      PROVE  M!Next
  <2>1. server.ready_threads # {} /\ server' = take_available_thread(server)
      BY <1>3 DEF SendDirect
  <2>2. /\ Good(server') /\ server'.queue = server.queue
        /\ server'.head_generation = server.head_generation
        /\ server'.tail_generation = server.tail_generation
        /\ server'.ready_threads = server.ready_threads \ {AvailableThread(server)}
      BY <2>1, TakeThreadGood DEF take_available_thread, ServerType
  <2>3. PendingOf(server') = PendingOf(server) /\ ServingOf(server') = ServingOf(server)
      BY <2>2, SamePending DEF ServingOf
  <2>4. M!Release
      BY <2>1, <2>2, <2>3, AvailableThreadIn, MappingIs DEF M!Release
  <2> QED BY <2>4 DEF M!Next
<1>4. ASSUME NEW tid \in ServerThreads, Receive(tid)
      PROVE  M!Next
  <2>1. tid \in TIDs /\ tid \notin server.ready_threads /\ server' = TakeNextOrPark(server, tid)
      BY <1>4, ServerQueueAssumption DEF Receive
  <2>2. \/ /\ PendingOf(server) # <<>>
           /\ PendingOf(server') = Tail(PendingOf(server))
           /\ ServingOf(server') \in M!Handed(ServingOf(server), Head(PendingOf(server)))
           /\ server'.ready_threads = server.ready_threads
        \/ /\ PendingOf(server) = <<>>
           /\ PendingOf(server') = PendingOf(server)
           /\ ServingOf(server') = ServingOf(server)
           /\ server'.ready_threads = server.ready_threads \cup {tid}
      BY <2>1, TakeNextOrParkMailbox
  <2>3. M!Deliver(MailboxServing) \/ M!Wait(MailboxServing)
      BY <2>1, <2>2, MappingIs DEF M!Deliver, M!Wait
  <2> QED BY <2>3 DEF M!Next
<1>5. ASSUME NEW i \in Slots, Reply(i)
      PROVE  M!Next
  <2>1. server' = take_waiting_message(server, i) /\ is_in_server(server.queue[i])
      BY <1>5 DEF Reply
  <2>2. server'.ready_threads = server.ready_threads
      BY <2>1, TakeWaitingEffect
  <2>3. /\ PendingOf(server') = PendingOf(server)
        /\ ServingOf(server)[i] # Nobody
        /\ ServingOf(server') =
              [j \in Slots |-> IF j = i THEN Nobody ELSE ServingOf(server)[j]]
      BY <2>1, TakeWaitingPending
  <2>4. M!Reply
      BY <2>2, <2>3, MappingIs DEF M!Reply, M!Served, M!Answered
  <2> QED BY <2>4 DEF M!Next
<1>6. ASSUME NEW i \in Slots, NEW tid \in ServerThreads, ReplyAndReceiveNext(i, tid)
      PROVE  M!Next
  <2> DEFINE s == take_waiting_message(server, i)
  <2>1. /\ tid \in TIDs /\ tid \notin server.ready_threads /\ is_in_server(server.queue[i])
        /\ server' = TakeNextOrPark(s, tid)
      BY <1>6, ServerQueueAssumption DEF ReplyAndReceiveNext
  <2>2. Good(s) /\ s.ready_threads = server.ready_threads
      BY <2>1, TakeWaitingGood, TakeWaitingEffect
  <2>3. /\ PendingOf(s) = PendingOf(server)
        /\ ServingOf(server)[i] # Nobody
        /\ ServingOf(s) = [j \in Slots |-> IF j = i THEN Nobody ELSE ServingOf(server)[j]]
      BY <2>1, TakeWaitingPending
  <2> HIDE DEF s
  <2>4. \/ /\ PendingOf(s) # <<>>
           /\ PendingOf(server') = Tail(PendingOf(s))
           /\ ServingOf(server') \in M!Handed(ServingOf(s), Head(PendingOf(s)))
           /\ server'.ready_threads = s.ready_threads
        \/ /\ PendingOf(s) = <<>>
           /\ PendingOf(server') = PendingOf(s)
           /\ ServingOf(server') = ServingOf(s)
           /\ server'.ready_threads = s.ready_threads \cup {tid}
      BY <2>1, <2>2, TakeNextOrParkMailbox
  <2>5. i \in M!Served /\ ServingOf(s) = M!Answered(i)
      BY <2>3, MappingIs DEF M!Served, M!Answered
  <2>6. M!Deliver(ServingOf(s)) \/ M!Wait(ServingOf(s))
      BY <2>1, <2>2, <2>3, <2>4, MappingIs DEF M!Deliver, M!Wait
  <2>7. M!ReplyAndReceive
      BY <2>5, <2>6 DEF M!ReplyAndReceive
  <2> QED BY <2>7 DEF M!Next
<1>7. ASSUME NEW pid \in PIDs, Discard(pid)
      PROVE  M!Next
  <2> DEFINE S == {pid} \X TIDs
  <2>1. server' = discard_messages_for_pid(server, pid)
      BY <1>7 DEF Discard
  <2>2. server'.ready_threads = server.ready_threads
      BY <2>1, DiscardEffect
  <2>3. /\ PendingOf(server') =
              [n \in DOMAIN PendingOf(server) |-> ExpiredLetter(PendingOf(server)[n], pid)]
        /\ ServingOf(server') = ServingOf(server)
      BY <2>1, DiscardPending
  <2>4. M!Expire(S)
      BY <2>2, <2>3, MappingIs DEF M!Expire, ExpiredLetter
  <2>5. S \in SUBSET (PIDs \X TIDs)
      OBVIOUS
  <2> QED BY <2>4, <2>5 DEF M!Next
<1>8. CASE UNCHANGED vars
    BY <1>8, MappingIs DEF vars, M!vars
<1> QED BY <1>1, <1>2, <1>3, <1>4, <1>5, <1>6, <1>7, <1>8 DEF Next

\* Every sequence of calls on the queue of a server is a behaviour of the mailbox:
\* whatever the queue length and the width of the generation counters, messages are
\* delivered first-in first-out and once each, and a sender that waits for an
\* answer stays on record, in one slot, until that slot is answered.
THEOREM QueueImplementsMailbox == Spec => ImplementsMailbox
<1>1. Inv /\ [Next]_vars => [M!Next]_(M!vars)
    BY NextMailbox DEF Inv
<1> QED BY <1>1, InitMailbox, InvariantHolds, PTL DEF Spec, ImplementsMailbox, M!Spec

=============================================================================
