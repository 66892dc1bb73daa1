--------------------------- MODULE Kernel_proofs ---------------------------
(***************************************************************************)
(* The kernel's scheduler and message passing, for every number of processes, *)
(* threads, servers and slots: the inductive invariant, what the operations    *)
(* of modules Processes and Server do to a table and to a queue, what the       *)
(* hand-overs of the CPU do to the scheduler's part of the invariant, and then   *)
(* that every step keeps all of it, and what follows.                         *)
(*                                                                         *)
(* The two halves of the state, threads that wait and queues that remember      *)
(* them, are moved one table at a time: lemmas say what an update of one slot,   *)
(* or of one thread, keeps.                                                  *)
(*                                                                         *)
(* The proofs are about behaviours in which a server with a waiting thread     *)
(* has a slot left to remember a sender in (RoomForAnswers).  Without one the   *)
(* call that sends fails half way (SendDirectUnremembered), and what the        *)
(* theorems say is not true.                                                *)
(***************************************************************************)
EXTENDS Kernel, FiniteSetTheorems, WellFoundedInduction, TLAPS

\* A server with a parked thread has a slot left to remember a sender in.
RoomForAnswers ==
    InUser => \A s \in ServerIdx :
        servers[s] # NoServer /\ servers[s].ready_threads # {} => CanQueueResponse(servers[s])

\* Who may terminate: nobody, or processes without servers, in a system in which PIDs
\* are not used again and servers do not go.
Lasting ==
    \/ Mortal = {}
    \/ /\ Mortal \cap Owners = {}
       /\ Calls \cap {"CreateProcess", "DestroyServer", "ReplyAndReceiveNext"} = {}

-----------------------------------------------------------------------------
(* The inductive invariant *)

\* The state of a process fits its threads.
ProcessOK(pr) ==
    /\ pr.ready \subseteq pr.threads
    /\ pr.state = "Free" => pr.threads = {}
    /\ pr.state = "Sleeping" => pr.ready = {}
    /\ pr.state = "Ready" => pr.ready # {}

\* The type of the process table.
KernelType == [proc : [PIDs -> Process], pid : PIDs, fault : BOOLEAN]

\* The process table is sound: one process runs, and the states fit the threads.
TableOK(kk) ==
    /\ kk \in KernelType
    /\ kk.fault = FALSE
    /\ \A p \in PIDs : kk.proc[p].state = "Running" <=> p = kk.pid
    /\ kk.proc[kk.pid].current_thread = kk.proc[kk.pid].tid
    /\ \A p \in PIDs : ProcessOK(kk.proc[p])
    /\ kk.proc[KernelPid].threads = {INITIAL_TID}

\* The thread that executes exists; while an interrupt is handled it is the interrupt
\* thread, and the interrupted one is ready.
RunningOK ==
    IF in_irq
    THEN Tid = IRQ_TID /\ PREVIOUS_PAIR[2] \in k.proc[PREVIOUS_PAIR[1]].ready
    ELSE Tid \in k.proc[Pid].threads

\* kmain is the one who calls SwitchTo, and waits exactly while others have the CPU.
ParentOK ==
    /\ SWITCHTO_CALLER \in {Nobody, <<KernelPid, INITIAL_TID>>}
    /\ SWITCHTO_CALLER = Nobody <=> KernelPid = IF in_irq THEN PREVIOUS_PAIR[1] ELSE Pid
    /\ ORIGINAL[1] # KernelPid
    /\ \A t \in TIDs : waits[KernelPid][t] = NoWait

\* ThreadsAccounted, for kmain as well; and who does not exist waits for nothing.
WaitsOK ==
    \A p \in PIDs, t \in TIDs :
        IF t \in k.proc[p].threads
        THEN IF t \in k.proc[p].ready
             THEN ~ThreadRuns(p, t) /\ waits[p][t] = NoWait
             ELSE ThreadRuns(p, t) <=> waits[p][t] = NoWait
        ELSE waits[p][t] = NoWait

\* Who waits for a message waits at a server of its own process, and is known there.
ParkedIn(kk, sv, w) ==
    /\ \A s \in ServerIdx : sv[s] # NoServer =>
          /\ Alive(kk, sv[s].pid) /\ sv[s].pid \in Owners
          /\ \A t \in sv[s].ready_threads :
                t \in TIDs /\ w[sv[s].pid][t] = WaitFor("message", s)
    /\ \A p \in PIDs, t \in TIDs, s \in ServerIdx : w[p][t] = WaitFor("message", s) =>
          sv[s] # NoServer /\ sv[s].pid = p /\ t \in sv[s].ready_threads

\* ParkedIn, of the current state.
ParkedOK == ParkedIn(k, servers, waits)

\* An entry whose sender is answered.
Answered(entry) == entry # Empty /\ entry.kind \notin {"ScalarMessage", "MemoryMessageSend"}

\* The entry of thread t of p.
From(entry, p, t) == Answered(entry) /\ entry.pid = p /\ entry.tid = t

\* The entries of processes that terminated before delivery.
TerminatedKinds == LendTerminatedKinds \cup {"BlockingScalarTerminated"}

\* An entry whose sender is answered is that of a thread that waits for the answer, or of a
\* process that has terminated.
EntryOK(kk, w, s, entry) ==
    Answered(entry) =>
        /\ entry.kind # "WaitingForget"
        /\ entry.tid \in TIDs
        /\ Alive(kk, entry.pid) => /\ w[entry.pid][entry.tid] = WaitFor("reply", s)
                                   /\ entry.kind \notin TerminatedKinds
        /\ ~Alive(kk, entry.pid) => Mortal # {}

\* No two slots of a queue hold an entry of the same thread.
OneEntry(kk, queue) ==
    \A i, j \in Slots : \A p \in PIDs, t \in TIDs :
        Alive(kk, p) /\ From(queue[i], p, t) /\ From(queue[j], p, t) => i = j

\* Who waits for an answer is in the queue of the server, once.
EntriesIn(kk, sv, w) ==
    /\ \A s \in ServerIdx : sv[s] # NoServer =>
          /\ \A i \in Slots : EntryOK(kk, w, s, sv[s].queue[i])
          /\ OneEntry(kk, sv[s].queue)
    /\ \A p \in PIDs, t \in TIDs, s \in ServerIdx : w[p][t] = WaitFor("reply", s) =>
          sv[s] # NoServer /\ \E i \in Slots : From(sv[s].queue[i], p, t)

\* EntriesIn, of the current state.
EntriesOK == EntriesIn(k, servers, waits)

\* The inductive invariant.
IInv == TypeOK /\ TableOK(k) /\ RunningOK /\ ParentOK /\ WaitsOK /\ ParkedOK /\ EntriesOK
-----------------------------------------------------------------------------
(* Processes: what the operations do to the table *)

\* The states of a slot of the process table.
States == {"Free", "Ready", "Running", "Sleeping"}

\* The table k1 is kk, except that process p is pr and the current process is pid.
Only(kk, k1, p, pr, pid) ==
    /\ k1 \in KernelType
    /\ k1.fault = kk.fault
    /\ k1.pid = pid
    /\ k1.proc[p] = pr
    /\ \A q \in PIDs : q # p => k1.proc[q] = kk.proc[q]

\* Process p is pr, and pid is the current process.
Put(kk, p, pr, pid) == [kk EXCEPT !.proc[p] = pr, !.pid = pid]

\* Put changes one process and the current one.
LEMMA PutOnly ==
    ASSUME NEW kk \in KernelType, NEW p \in PIDs, NEW pr \in Process, NEW pid \in PIDs
    PROVE  Only(kk, Put(kk, p, pr, pid), p, pr, pid)
BY DEF Put, Only, KernelType

\* Becomes is Put of the process with its new state and ready threads.
LEMMA BecomesPut ==
    ASSUME NEW kk \in KernelType, NEW p \in PIDs, NEW state, NEW ready, NEW pr,
           pr = [kk.proc[p] EXCEPT !.state = state, !.ready = ready]
    PROVE  Becomes(kk, p, state, ready) = Put(kk, p, pr, kk.pid)
BY DEF Put, Becomes, KernelType, Process

\* Becomes changes one process and leaves the current one.
LEMMA BecomesOnly ==
    ASSUME NEW kk \in KernelType, NEW p \in PIDs, NEW state \in States, NEW ready \in SUBSET TIDs,
           NEW pr, pr = [kk.proc[p] EXCEPT !.state = state, !.ready = ready]
    PROVE  pr \in Process /\ Only(kk, Becomes(kk, p, state, ready), p, pr, kk.pid)
<1>1. kk.proc[p] \in Process /\ kk.pid \in PIDs
  BY DEF KernelType
<1>2. pr \in Process
  BY <1>1 DEF Process, States
<1>3. Becomes(kk, p, state, ready) = Put(kk, p, pr, kk.pid)
  BY BecomesPut
<1> QED
  BY <1>1, <1>2, <1>3, PutOnly

\* Process p is current and runs thread t.
Threaded(kk, p, t) == [kk EXCEPT !.pid = p, !.proc[p].current_thread = t, !.proc[p].tid = t]

\* Threaded is Put of the process with its new thread.
LEMMA ThreadedPut ==
    ASSUME NEW kk \in KernelType, NEW p \in PIDs, NEW t, NEW pr,
           pr = [kk.proc[p] EXCEPT !.current_thread = t, !.tid = t]
    PROVE  Threaded(kk, p, t) = Put(kk, p, pr, p)
BY DEF Threaded, Put, KernelType, Process

\* The fields that a switch sets one after the other.
Currented(kk, p, t) == [kk EXCEPT !.proc[p].current_thread = t]
Mapped(kk, p, t) == [kk EXCEPT !.pid = p, !.proc[p].current_thread = t]
Tidded(kk, p, t) == [kk EXCEPT !.proc[p].tid = t]
Threads(kk, p, threads) == [kk EXCEPT !.proc[p].threads = threads]

\* Setting the current thread is Put, with the memory of p mapped or not.
LEMMA CurrentedPut ==
    ASSUME NEW kk \in KernelType, NEW p \in PIDs, NEW t, NEW pr,
           pr = [kk.proc[p] EXCEPT !.current_thread = t]
    PROVE  /\ Currented(kk, p, t) = Put(kk, p, pr, kk.pid)
           /\ Mapped(kk, p, t) = Put(kk, p, pr, p)
BY DEF Currented, Mapped, Put, KernelType, Process

\* Setting the hardware thread is Put.
LEMMA TiddedPut ==
    ASSUME NEW kk \in KernelType, NEW p \in PIDs, NEW t, NEW pr,
           pr = [kk.proc[p] EXCEPT !.tid = t]
    PROVE  Tidded(kk, p, t) = Put(kk, p, pr, kk.pid)
BY DEF Tidded, Put, KernelType, Process

\* Setting the allocated threads is Put.
LEMMA ThreadsPut ==
    ASSUME NEW kk \in KernelType, NEW p \in PIDs, NEW threads, NEW pr,
           pr = [kk.proc[p] EXCEPT !.threads = threads]
    PROVE  Threads(kk, p, threads) = Put(kk, p, pr, kk.pid)
BY DEF Threads, Put, KernelType, Process

\* Runs changes one process, which becomes the current one.
LEMMA RunsOnly ==
    ASSUME NEW kk \in KernelType, NEW p \in PIDs, NEW t \in TIDs \cup {IRQ_TID},
           NEW ready \in SUBSET TIDs, NEW pr,
           pr = [kk.proc[p] EXCEPT !.state = "Running", !.ready = ready \ {t},
                                   !.current_thread = t, !.tid = t]
    PROVE  pr \in Process /\ Only(kk, Runs(kk, p, t, ready), p, pr, p)
<1>1. kk.proc[p] \in Process /\ kk.pid \in PIDs
  BY DEF KernelType
<1>2. pr \in Process
  BY <1>1 DEF Process
<1>3. PICK b : b = [kk.proc[p] EXCEPT !.state = "Running", !.ready = ready \ {t}]
  OBVIOUS
<1>4. b \in Process /\ Only(kk, Becomes(kk, p, "Running", ready \ {t}), p, b, kk.pid)
  BY <1>3, BecomesOnly DEF States
<1>5. PICK k1 : k1 = Becomes(kk, p, "Running", ready \ {t})
  OBVIOUS
<1>6. k1 \in KernelType /\ k1.proc[p] = b /\ k1.fault = kk.fault
      /\ \A q \in PIDs : q # p => k1.proc[q] = kk.proc[q]
  BY <1>4, <1>5 DEF Only
<1>7. Runs(kk, p, t, ready) = Threaded(k1, p, t)
  BY <1>5 DEF Runs, Threaded
<1>8. pr = [k1.proc[p] EXCEPT !.current_thread = t, !.tid = t]
  BY <1>1, <1>3, <1>6 DEF Process
<1>9. Runs(kk, p, t, ready) = Put(k1, p, pr, p)
  BY <1>6, <1>7, <1>8, ThreadedPut
<1>10. Only(k1, Put(k1, p, pr, p), p, pr, p)
  BY <1>2, <1>6, PutOnly
<1> QED
  BY <1>2, <1>6, <1>9, <1>10 DEF Only

\* The table k1 is kk, except for these fields of process p and the current process.
Sets(kk, k1, p, pid, state, ready, current, tid, threads) ==
    /\ k1 \in KernelType
    /\ k1.fault = kk.fault
    /\ k1.pid = pid
    /\ k1.proc[p].state = state
    /\ k1.proc[p].ready = ready
    /\ k1.proc[p].current_thread = current
    /\ k1.proc[p].tid = tid
    /\ k1.proc[p].threads = threads
    /\ \A q \in PIDs : q # p => k1.proc[q] = kk.proc[q]

\* Becomes, field by field.
LEMMA BecomesSets ==
    ASSUME NEW kk \in KernelType, NEW p \in PIDs, NEW state \in States, NEW ready \in SUBSET TIDs
    PROVE  Sets(kk, Becomes(kk, p, state, ready), p, kk.pid, state, ready,
                kk.proc[p].current_thread, kk.proc[p].tid, kk.proc[p].threads)
<1>1. kk.proc[p] \in Process
  BY DEF KernelType
<1>2. PICK pr : pr = [kk.proc[p] EXCEPT !.state = state, !.ready = ready]
  OBVIOUS
<1>3. Only(kk, Becomes(kk, p, state, ready), p, pr, kk.pid)
  BY <1>2, BecomesOnly
<1> QED
  BY <1>1, <1>2, <1>3 DEF Only, Sets, Process

\* Runs, field by field.
LEMMA RunsSets ==
    ASSUME NEW kk \in KernelType, NEW p \in PIDs, NEW t \in TIDs \cup {IRQ_TID}, NEW ready \in SUBSET TIDs
    PROVE  Sets(kk, Runs(kk, p, t, ready), p, p, "Running", ready \ {t}, t, t, kk.proc[p].threads)
<1>1. kk.proc[p] \in Process
  BY DEF KernelType
<1>2. PICK pr : pr = [kk.proc[p] EXCEPT !.state = "Running", !.ready = ready \ {t},
                                   !.current_thread = t, !.tid = t]
  OBVIOUS
<1>3. Only(kk, Runs(kk, p, t, ready), p, pr, p)
  BY <1>2, RunsOnly
<1> QED
  BY <1>1, <1>2, <1>3 DEF Only, Sets, Process

\* The thread setters, field by field.
LEMMA ThreadSets ==
    ASSUME NEW kk \in KernelType, NEW p \in PIDs, NEW t \in TIDs \cup {IRQ_TID}
    PROVE  /\ Sets(kk, Currented(kk, p, t), p, kk.pid, kk.proc[p].state, kk.proc[p].ready,
                   t, kk.proc[p].tid, kk.proc[p].threads)
           /\ Sets(kk, Mapped(kk, p, t), p, p, kk.proc[p].state, kk.proc[p].ready,
                   t, kk.proc[p].tid, kk.proc[p].threads)
           /\ Sets(kk, Tidded(kk, p, t), p, kk.pid, kk.proc[p].state, kk.proc[p].ready,
                   kk.proc[p].current_thread, t, kk.proc[p].threads)
<1>1. kk.proc[p] \in Process /\ kk.pid \in PIDs
  BY DEF KernelType
<1>2. PICK pr : pr = [kk.proc[p] EXCEPT !.current_thread = t]
  OBVIOUS
<1>3. PICK pr1 : pr1 = [kk.proc[p] EXCEPT !.tid = t]
  OBVIOUS
<1>4. pr \in Process /\ pr1 \in Process
  BY <1>1, <1>2, <1>3 DEF Process
<1>5. Only(kk, Currented(kk, p, t), p, pr, kk.pid) /\ Only(kk, Mapped(kk, p, t), p, pr, p)
  BY <1>1, <1>2, <1>4, CurrentedPut, PutOnly
<1>6. Only(kk, Tidded(kk, p, t), p, pr1, kk.pid)
  BY <1>1, <1>3, <1>4, TiddedPut, PutOnly
<1>7. Sets(kk, Currented(kk, p, t), p, kk.pid, kk.proc[p].state, kk.proc[p].ready,
                   t, kk.proc[p].tid, kk.proc[p].threads)
  BY <1>1, <1>2, <1>5 DEF Only, Sets, Process
<1>8. Sets(kk, Mapped(kk, p, t), p, p, kk.proc[p].state, kk.proc[p].ready,
                   t, kk.proc[p].tid, kk.proc[p].threads)
  BY <1>1, <1>2, <1>5 DEF Only, Sets, Process
<1>9. Sets(kk, Tidded(kk, p, t), p, kk.pid, kk.proc[p].state, kk.proc[p].ready,
                   kk.proc[p].current_thread, t, kk.proc[p].threads)
  BY <1>1, <1>3, <1>6 DEF Only, Sets, Process
<1> QED
  BY <1>7, <1>8, <1>9

\* Allocating threads, field by field.
LEMMA ThreadsSets ==
    ASSUME NEW kk \in KernelType, NEW p \in PIDs, NEW threads \in SUBSET TIDs
    PROVE  Sets(kk, Threads(kk, p, threads), p, kk.pid, kk.proc[p].state, kk.proc[p].ready,
                kk.proc[p].current_thread, kk.proc[p].tid, threads)
<1>1. kk.proc[p] \in Process /\ kk.pid \in PIDs
  BY DEF KernelType
<1>2. PICK pr : pr = [kk.proc[p] EXCEPT !.threads = threads]
  OBVIOUS
<1>3. pr \in Process
  BY <1>1, <1>2 DEF Process
<1>4. Only(kk, Threads(kk, p, threads), p, pr, kk.pid)
  BY <1>1, <1>2, <1>3, ThreadsPut, PutOnly
<1> QED
  BY <1>1, <1>2, <1>4 DEF Only, Sets, Process

-----------------------------------------------------------------------------

\* From the table kk to k1 the CPU goes to thread tid of pid, the threads in `on` become ready
\* and those in `off` stop to be.  Nothing else that matters changes.
Moves(kk, k1, pid, tid, on, off) ==
    /\ TableOK(k1)
    /\ k1.pid = pid
    /\ k1.proc[pid].tid = tid
    /\ \A p \in PIDs : /\ k1.proc[p].threads = kk.proc[p].threads
                       /\ Alive(k1, p) <=> Alive(kk, p)
                       /\ \A t \in TIDs : t \in k1.proc[p].ready <=>
                             <<p, t>> \notin off /\ (t \in kk.proc[p].ready \/ <<p, t>> \in on)

\* The kernel has a PID, threads have TIDs, and the interrupt thread is none of them.
LEMMA SmallNumbers == KernelPid \in PIDs /\ IRQ_TID \notin TIDs /\ INITIAL_TID \in TIDs /\ AnyThread = IRQ_TID
BY ProcessesAssumption DEF KernelPid, PIDs, IRQ_TID, AnyThread

\* One process of a sound table changes, and the CPU stays or goes to that process.
LEMMA TableKept ==
    ASSUME NEW kk \in KernelType, NEW k1, NEW p \in PIDs, NEW pid, NEW state, NEW ready, NEW current,
           NEW tid, NEW threads,
           Sets(kk, k1, p, pid, state, ready, current, tid, threads),
           ~kk.fault,
           \A q \in PIDs : q # p => (kk.proc[q].state = "Running" <=> q = pid),
           state = "Running" <=> p = pid,
           pid = p => current = tid,
           pid # p => kk.proc[pid].current_thread = kk.proc[pid].tid,
           \A q \in PIDs : q # p => ProcessOK(kk.proc[q]),
           ready \subseteq threads,
           state = "Free" => threads = {},
           state = "Sleeping" => ready = {},
           state = "Ready" => ready # {},
           IF p = KernelPid THEN threads = {INITIAL_TID} ELSE kk.proc[KernelPid].threads = {INITIAL_TID}
    PROVE  TableOK(k1)
<1>1. k1 \in KernelType /\ ~k1.fault /\ k1.pid = pid /\ pid \in PIDs
  BY DEF Sets, KernelType
<1>2. ASSUME NEW q \in PIDs PROVE k1.proc[q].state = "Running" <=> q = pid
  BY DEF Sets
<1>3. k1.proc[pid].current_thread = k1.proc[pid].tid
  BY <1>1 DEF Sets
<1>4. ASSUME NEW q \in PIDs PROVE ProcessOK(k1.proc[q])
  <2>1. CASE q = p
    BY <2>1 DEF Sets, ProcessOK
  <2>2. CASE q # p
    BY <2>2 DEF Sets
  <2> QED
    BY <2>1, <2>2
<1>5. k1.proc[KernelPid].threads = {INITIAL_TID}
  BY SmallNumbers DEF Sets
<1>6. k1.fault = FALSE
  BY <1>1 DEF KernelType
<1> QED
  BY <1>1, <1>2, <1>3, <1>4, <1>5, <1>6 DEF TableOK

\* ready_thread adds a thread that exists and is not ready to the ready ones.
LEMMA ReadyThreadMoves ==
    ASSUME NEW kk, TableOK(kk), NEW p \in PIDs, NEW t, t \in kk.proc[p].threads \ kk.proc[p].ready
    PROVE  Moves(kk, ready_thread(kk, p, t), kk.pid, kk.proc[kk.pid].tid, {<<p, t>>}, {})
<1>1. /\ kk \in KernelType /\ kk.proc[p] \in Process /\ t \in TIDs
      /\ kk.proc[p].state \in {"Running", "Ready", "Sleeping"}
  BY DEF TableOK, KernelType, Process, ProcessOK
<1> DEFINE state == IF kk.proc[p].state = "Sleeping" THEN "Ready" ELSE kk.proc[p].state
           ready == kk.proc[p].ready \cup {t}
<1>2. state \in States /\ ready \in SUBSET TIDs
  BY <1>1 DEF States, Process
<1>3. ready_thread(kk, p, t) = Becomes(kk, p, state, ready)
  <2>1. CASE kk.proc[p].state = "Sleeping"
    <3>1. ready = {t}
      BY <2>1 DEF TableOK, ProcessOK
    <3> QED
      BY <2>1, <3>1 DEF ready_thread
  <2>2. CASE kk.proc[p].state \in {"Running", "Ready"}
    BY <2>2 DEF ready_thread
  <2> QED
    BY <1>1, <2>1, <2>2
<1>4. Sets(kk, Becomes(kk, p, state, ready), p, kk.pid, state, ready,
                   kk.proc[p].current_thread, kk.proc[p].tid, kk.proc[p].threads)
  BY <1>1, <1>2, BecomesSets
<1>5. ASSUME NEW k1, Sets(kk, k1, p, kk.pid, state, ready,
                   kk.proc[p].current_thread, kk.proc[p].tid, kk.proc[p].threads)
      PROVE  Moves(kk, k1, kk.pid, kk.proc[kk.pid].tid, {<<p, t>>}, {})
  <2>1. kk \in KernelType /\ ~kk.fault /\ kk.pid \in PIDs
    BY DEF TableOK, KernelType
  <2>2. /\ \A q \in PIDs : kk.proc[q].state = "Running" <=> q = kk.pid
        /\ kk.proc[kk.pid].current_thread = kk.proc[kk.pid].tid
        /\ \A q \in PIDs : ProcessOK(kk.proc[q])
        /\ kk.proc[KernelPid].threads = {INITIAL_TID}
    BY DEF TableOK
  <2>3. /\ ready \subseteq kk.proc[p].threads /\ ready # {}
        /\ state \in {"Running", "Ready"}
        /\ state = "Running" <=> p = kk.pid
    BY <1>1, <2>2 DEF ProcessOK
  <2>4. TableOK(k1)
    <3> HIDE DEF state, ready
    <3> QED
      BY <1>5, <2>1, <2>2, <2>3, TableKept
  <2> QED
    BY <1>1, <1>2, <1>5, <2>1, <2>4 DEF Moves, Sets, Alive
<1> QED
  BY <1>3, <1>4, <1>5

-----------------------------------------------------------------------------
(* Choosing a thread *)

\* A set of naturals that is not empty has a lowest element, and round robin stays in the set.
LEMMA LeastNat ==
    ASSUME NEW S, S \subseteq Nat, S # {}
    PROVE  \E x \in S : \A y \in S : x <= y
<1> DEFINE Rel == OpToRel(<, Nat)
<1>1. IsWellFoundedOn(Rel, Nat)
  BY NatLessThanWellFounded
<1>2. \A y, z \in Nat : y < z => <<y, z>> \in Rel
  BY Zenon DEF OpToRel
<1> HIDE DEF Rel
<1>3. PICK x \in S : \A y \in S : ~(<<y, x>> \in Rel)
  BY <1>1, WFMin
<1>4. ASSUME NEW y \in S PROVE x <= y
  <2>1. x \in Nat /\ y \in Nat
    OBVIOUS
  <2>2. ~(y < x)
    BY <1>2, <1>3, <2>1, Zenon
  <2> QED
    BY <2>1, <2>2
<1> QED
  BY <1>4

\* Lowest is an element.
LEMMA LowestIn ==
    ASSUME NEW S, S \subseteq Nat, S # {}
    PROVE  Lowest(S) \in S
BY LeastNat DEF Lowest

\* NextAfter is an element.
LEMMA NextAfterIn ==
    ASSUME NEW S, S \subseteq Nat, S # {}, NEW x
    PROVE  NextAfter(S, x) \in S
<1>1. CASE {y \in S : y > x} # {}
  <2>1. Lowest({y \in S : y > x}) \in {y \in S : y > x}
    BY <1>1, LowestIn
  <2> QED
    BY <1>1, <2>1 DEF NextAfter
<1>2. CASE {y \in S : y > x} = {}
  BY <1>2, LowestIn DEF NextAfter
<1> QED
  BY <1>1, <1>2

\* The thread that a request to switch to t chooses among S.
Chosen(S, current, t) == IF t = AnyThread THEN find_next_thread(S, current) ELSE t

\* The thread chosen is a ready one, and the one asked for if that is ready.
LEMMA ChosenIn ==
    ASSUME NEW S, S \subseteq TIDs, NEW current, NEW t, t \in S \/ (t = AnyThread /\ S # {})
    PROVE  Chosen(S, current, t) \in S /\ (t \in S => Chosen(S, current, t) = t)
<1>1. AnyThread \notin S /\ S \subseteq Nat /\ S # {}
  BY ProcessesAssumption, SmallNumbers
<1>2. NextAfter(S, current) \in S
  BY <1>1, NextAfterIn
<1> QED
  BY <1>1, <1>2 DEF Chosen, find_next_thread

-----------------------------------------------------------------------------
(* Handing over the CPU *)

\* The current process, in a sound table.
LEMMA TableFacts ==
    ASSUME NEW kk, TableOK(kk)
    PROVE  /\ kk \in KernelType /\ ~kk.fault /\ kk.pid \in PIDs
           /\ kk.proc[kk.pid].current_thread = kk.proc[kk.pid].tid
           /\ kk.proc[KernelPid].threads = {INITIAL_TID}
           /\ \A q \in PIDs : /\ kk.proc[q] \in Process
                              /\ kk.proc[q].state \in States
                              /\ kk.proc[q].ready \subseteq kk.proc[q].threads
                              /\ kk.proc[q].ready \in SUBSET TIDs
                              /\ kk.proc[q].threads \in SUBSET TIDs
                              /\ kk.proc[q].tid \in TIDs \cup {IRQ_TID}
                              /\ kk.proc[q].current_thread \in TIDs \cup {IRQ_TID}
                              /\ ProcessOK(kk.proc[q])
                              /\ kk.proc[q].state = "Running" <=> q = kk.pid
                              /\ q # kk.pid /\ kk.proc[q].ready # {} => kk.proc[q].state = "Ready"
BY DEF TableOK, KernelType, Process, ProcessOK, States

\* What activate_process_thread leaves when it has gone to thread new of p: the threads `left` of
\* the previous process are ready.
HandedOver(kk, tid, p, new, left) ==
    Tidded(Currented(Becomes(Mapped(Becomes(kk, p, "Running", kk.proc[p].ready \ {new}), p, new),
                             kk.pid, IF left = {} THEN "Sleeping" ELSE "Ready", left),
                     kk.pid, tid),
           p, new)

\* The threads `left` are ready, and `on` are the ones that were not.
Leaves(kk, tid, left, on) ==
    \/ on = {} /\ left = kk.proc[kk.pid].ready
    \/ on = {<<kk.pid, tid>>} /\ left = kk.proc[kk.pid].ready \cup {tid}

\* What the proofs about a switch between processes need of it.
HandedOverOK(kk, tid, p, new, left, on) ==
    /\ Moves(kk, HandedOver(kk, tid, p, new, left), p, new, on, {<<p, new>>})
    /\ HandedOver(kk, tid, p, new, left).proc[p].current_thread = new
    /\ Mapped(Becomes(kk, p, "Running", kk.proc[p].ready \ {new}), p, new).proc[kk.pid] = kk.proc[kk.pid]
    /\ Mapped(Becomes(kk, p, "Running", kk.proc[p].ready \ {new}), p, new).proc[p].current_thread = new

\* A switch to another process takes its thread off the ready ones and keeps the table sound.
LEMMA HandedOverMoves ==
    ASSUME NEW kk, TableOK(kk), NEW p \in PIDs, p # kk.pid, NEW tid, tid = kk.proc[kk.pid].tid,
           tid \in kk.proc[kk.pid].threads, NEW new, new \in kk.proc[p].ready, NEW left, NEW on,
           Leaves(kk, tid, left, on)
    PROVE  HandedOverOK(kk, tid, p, new, left, on)
<1> DEFINE o == kk.pid
           pr == kk.proc[p]
           or == kk.proc[o]
           lstate == IF left = {} THEN "Sleeping" ELSE "Ready"
           a0 == Becomes(kk, p, "Running", pr.ready \ {new})
           a == Mapped(a0, p, new)
           l0 == Becomes(a, o, lstate, left)
           l == Currented(l0, o, tid)
           k1 == Tidded(l, p, new)
<1>1. /\ kk \in KernelType /\ o \in PIDs /\ ~kk.fault
      /\ pr.ready \in SUBSET TIDs /\ or.ready \in SUBSET TIDs /\ tid \in TIDs
      /\ pr.state = "Ready" /\ or.state = "Running"
  BY TableFacts
<1>2. new \in TIDs /\ new \in TIDs \cup {IRQ_TID}
  BY <1>1
<1>3. left \in SUBSET TIDs /\ lstate \in States /\ pr.ready \ {new} \in SUBSET TIDs /\ "Running" \in States
  BY <1>1 DEF States, Leaves
<1> HIDE DEF lstate
<1>4. Sets(kk, a0, p, o, "Running", pr.ready \ {new}, pr.current_thread, pr.tid, pr.threads)
  BY <1>1, <1>3, BecomesSets
<1>5. Sets(a0, a, p, p, "Running", pr.ready \ {new}, new, pr.tid, pr.threads)
  <2>1. a0 \in KernelType
    BY <1>4 DEF Sets
  <2>2. Sets(a0, a, p, p, a0.proc[p].state, a0.proc[p].ready, new, a0.proc[p].tid, a0.proc[p].threads)
    BY <1>2, <2>1, ThreadSets
  <2> QED
    BY <1>4, <2>2 DEF Sets
<1> HIDE DEF a0, a
<1>6. a \in KernelType /\ a.fault = kk.fault /\ a.proc[p].current_thread = new /\ a.proc[o] = or
  BY <1>4, <1>5, <1>1 DEF Sets
<1>7. Sets(a, l0, o, p, lstate, left, or.current_thread, or.tid, or.threads)
  <2>1. Sets(a, l0, o, a.pid, lstate, left, a.proc[o].current_thread, a.proc[o].tid, a.proc[o].threads)
    BY <1>1, <1>3, <1>6, BecomesSets
  <2> QED
    BY <1>5, <1>6, <2>1 DEF Sets
<1>8. Sets(l0, l, o, p, lstate, left, tid, or.tid, or.threads)
  <2>1. l0 \in KernelType /\ l0.pid = p
    BY <1>7 DEF Sets
  <2>2. Sets(l0, l, o, l0.pid, l0.proc[o].state, l0.proc[o].ready, tid, l0.proc[o].tid, l0.proc[o].threads)
    BY <1>1, <2>1, ThreadSets
  <2> QED
    BY <1>7, <2>1, <2>2 DEF Sets
<1> HIDE DEF l0, l
<1>9. /\ l \in KernelType /\ l.fault = kk.fault /\ l.pid = p /\ l.proc[p] = a.proc[p]
      /\ l.proc[o].state = lstate /\ l.proc[o].ready = left /\ l.proc[o].threads = or.threads
      /\ l.proc[o].current_thread = tid /\ l.proc[o].tid = tid
      /\ \A q \in PIDs : q # p /\ q # o => l.proc[q] = kk.proc[q]
  BY <1>1, <1>4, <1>5, <1>7, <1>8 DEF Sets
<1>10. Sets(l, k1, p, p, "Running", pr.ready \ {new}, new, new, pr.threads)
  <2>1. Sets(l, k1, p, l.pid, l.proc[p].state, l.proc[p].ready, l.proc[p].current_thread, new, l.proc[p].threads)
    BY <1>2, <1>9, ThreadSets
  <2> QED
    BY <1>5, <1>9, <2>1 DEF Sets
<1>11. HandedOver(kk, tid, p, new, left) = k1
  BY DEF HandedOver, l, l0, a, a0, lstate
<1> HIDE DEF k1
<1>12. left \subseteq or.threads /\ (lstate = "Sleeping" <=> left = {}) /\ lstate \in {"Sleeping", "Ready"}
  BY TableFacts DEF lstate, Leaves
<1>13. TableOK(k1)
  <2>1. \A q \in PIDs : q # p => (l.proc[q].state = "Running" <=> q = p)
    BY <1>9, <1>12, TableFacts
  <2>2. \A q \in PIDs : q # p => ProcessOK(l.proc[q])
    <3>1. ProcessOK(l.proc[o])
      BY <1>9, <1>12 DEF ProcessOK
    <3> QED
      BY <1>9, <3>1, TableFacts
  <2>3. IF p = KernelPid THEN pr.threads = {INITIAL_TID} ELSE l.proc[KernelPid].threads = {INITIAL_TID}
    BY <1>9, TableFacts, SmallNumbers
  <2>4. pr.ready \ {new} \subseteq pr.threads
    BY TableFacts
  <2>5. l \in KernelType /\ ~l.fault
    BY <1>1, <1>9
  <2> QED
    BY <1>10, <2>1, <2>2, <2>3, <2>4, <2>5, TableKept
<1>14. ASSUME NEW q \in PIDs
       PROVE  /\ k1.proc[q].threads = kk.proc[q].threads
              /\ Alive(k1, q) <=> Alive(kk, q)
              /\ \A u \in TIDs : u \in k1.proc[q].ready <=>
                     <<q, u>> \notin {<<p, new>>} /\ (u \in kk.proc[q].ready \/ <<q, u>> \in on)
  <2>1. CASE q = p
    BY <2>1, <1>1, <1>10 DEF Sets, Alive, Leaves
  <2>2. CASE q = o
    <3>1. k1.proc[q].ready = left /\ k1.proc[q].threads = or.threads /\ k1.proc[q].state = lstate
      BY <2>2, <1>9, <1>10 DEF Sets
    <3> QED
      BY <2>2, <1>1, <1>12, <3>1 DEF Alive, Leaves
  <2>3. CASE q # p /\ q # o
    BY <2>3, <1>9, <1>10 DEF Sets, Alive, Leaves
  <2> QED
    BY <2>1, <2>2, <2>3
<1>15. k1.pid = p /\ k1.proc[p].tid = new /\ k1.proc[p].current_thread = new
  BY <1>10 DEF Sets
<1> QED
  BY <1>6, <1>11, <1>13, <1>14, <1>15 DEF Moves, HandedOverOK, a, a0

\* A request for thread t of p can be met, and is: the CPU goes to t, or to any ready thread.
CanChoose(kk, p, t) == t \in kk.proc[p].ready \/ (t = AnyThread /\ kk.proc[p].ready # {})
\* The CPU goes to process p, to thread t if that is ready; `on` are the threads that become ready.
GoesTo(kk, k1, p, t, on) ==
    \E new \in kk.proc[p].ready : /\ t \in kk.proc[p].ready => new = t
                                  /\ Moves(kk, k1, p, new, on, {<<p, new>>})
                                  /\ k1.proc[p].current_thread = new

\* To another process; the thread that gives up the CPU is ready.
LEMMA ActivateResumable ==
    ASSUME NEW kk, TableOK(kk), NEW p \in PIDs, p # kk.pid, NEW tid, tid = kk.proc[kk.pid].tid,
           tid \in kk.proc[kk.pid].threads, NEW t, CanChoose(kk, p, t)
    PROVE  GoesTo(kk, activate_process_thread(kk, tid, p, t, TRUE), p, t, {<<kk.pid, tid>>})
<1> DEFINE new == Chosen(kk.proc[p].ready, kk.proc[p].current_thread, t)
           a == Mapped(Becomes(kk, p, "Running", kk.proc[p].ready \ {new}), p, new)
<1>0. PICK left, on : left = kk.proc[kk.pid].ready \cup {tid} /\ on = {<<kk.pid, tid>>}
  OBVIOUS
<1>1. new \in kk.proc[p].ready /\ (t \in kk.proc[p].ready => new = t)
  BY TableFacts, ChosenIn DEF CanChoose
<1>2. kk.proc[p].state = "Ready" /\ kk.proc[kk.pid].state = "Running"
  BY <1>1, TableFacts
<1>3. Activated(kk, p, t) = a
  BY <1>1, <1>2 DEF Activated, Mapped, Chosen
<1> HIDE DEF new
<1>4. /\ Moves(kk, HandedOver(kk, tid, p, new, left), p, new, on, {<<p, new>>})
      /\ HandedOver(kk, tid, p, new, left).proc[p].current_thread = new
      /\ a.proc[kk.pid] = kk.proc[kk.pid] /\ a.proc[p].current_thread = new
  <2>1. Leaves(kk, tid, left, on)
    BY <1>0 DEF Leaves
  <2>2. HandedOverOK(kk, tid, p, new, left, on)
    BY <1>1, <2>1, HandedOverMoves
  <2> QED
    BY <2>2 DEF HandedOverOK
<1>5. LeftBy(a, kk.pid, tid, TRUE) =
         Currented(Becomes(a, kk.pid, IF left = {} THEN "Sleeping" ELSE "Ready", left), kk.pid, tid)
  <2> HIDE DEF a
  <2> QED
    BY <1>0, <1>2, <1>4 DEF LeftBy, Paused, Currented
<1>6. activate_process_thread(kk, tid, p, t, TRUE) = HandedOver(kk, tid, p, new, left)
  <2>1. activate_process_thread(kk, tid, p, t, TRUE) = Tidded(LeftBy(a, kk.pid, tid, TRUE), p, new)
    <3> HIDE DEF a
    <3> QED
      BY <1>3, <1>4 DEF activate_process_thread, Tidded
  <2> QED
    BY <1>5, <2>1 DEF HandedOver
<1> QED
  BY <1>0, <1>1, <1>4, <1>6 DEF GoesTo

\* To another process; the thread that gives up the CPU blocks.
LEMMA ActivateBlocked ==
    ASSUME NEW kk, TableOK(kk), NEW p \in PIDs, p # kk.pid, NEW tid, tid = kk.proc[kk.pid].tid,
           tid \in kk.proc[kk.pid].threads, NEW t, CanChoose(kk, p, t)
    PROVE  GoesTo(kk, activate_process_thread(kk, tid, p, t, FALSE), p, t, {})
<1> DEFINE new == Chosen(kk.proc[p].ready, kk.proc[p].current_thread, t)
           a == Mapped(Becomes(kk, p, "Running", kk.proc[p].ready \ {new}), p, new)
<1>0. PICK left, on : left = kk.proc[kk.pid].ready /\ on = {}
  OBVIOUS
<1>1. new \in kk.proc[p].ready /\ (t \in kk.proc[p].ready => new = t)
  BY TableFacts, ChosenIn DEF CanChoose
<1>2. kk.proc[p].state = "Ready" /\ kk.proc[kk.pid].state = "Running"
  BY <1>1, TableFacts
<1>3. Activated(kk, p, t) = a
  BY <1>1, <1>2 DEF Activated, Mapped, Chosen
<1> HIDE DEF new
<1>4. /\ Moves(kk, HandedOver(kk, tid, p, new, left), p, new, on, {<<p, new>>})
      /\ HandedOver(kk, tid, p, new, left).proc[p].current_thread = new
      /\ a.proc[kk.pid] = kk.proc[kk.pid] /\ a.proc[p].current_thread = new
  <2>1. Leaves(kk, tid, left, on)
    BY <1>0 DEF Leaves
  <2>2. HandedOverOK(kk, tid, p, new, left, on)
    BY <1>1, <2>1, HandedOverMoves
  <2> QED
    BY <2>2 DEF HandedOverOK
<1>5. LeftBy(a, kk.pid, tid, FALSE) =
         Currented(Becomes(a, kk.pid, IF left = {} THEN "Sleeping" ELSE "Ready", left), kk.pid, tid)
  <2> HIDE DEF a
  <2> QED
    BY <1>0, <1>2, <1>4 DEF LeftBy, Paused, Currented
<1>6. activate_process_thread(kk, tid, p, t, FALSE) = HandedOver(kk, tid, p, new, left)
  <2>1. activate_process_thread(kk, tid, p, t, FALSE) = Tidded(LeftBy(a, kk.pid, tid, FALSE), p, new)
    <3> HIDE DEF a
    <3> QED
      BY <1>3, <1>4 DEF activate_process_thread, Tidded
  <2> QED
    BY <1>5, <2>1 DEF HandedOver
<1> QED
  BY <1>0, <1>1, <1>4, <1>6 DEF GoesTo

\* To another thread of the same process: the one that gives up the CPU blocks.
LEMMA ActivateWithin ==
    ASSUME NEW kk, TableOK(kk), NEW tid, tid = kk.proc[kk.pid].tid, tid \in TIDs,
           tid \notin kk.proc[kk.pid].ready, NEW t, t \in kk.proc[kk.pid].ready
    PROVE  Moves(kk, activate_process_thread(kk, tid, kk.pid, t, FALSE), kk.pid, t, {}, {<<kk.pid, t>>})
<1> DEFINE p == kk.pid
           pr == kk.proc[p]
           k1 == Runs(kk, p, t, pr.ready)
<1>1. /\ kk \in KernelType /\ p \in PIDs /\ ~kk.fault
      /\ pr.ready \in SUBSET TIDs /\ t \in TIDs /\ pr.state = "Running" /\ pr.current_thread = tid
  BY TableFacts
<1>2. Sets(kk, k1, p, p, "Running", pr.ready \ {t}, t, t, pr.threads)
  BY <1>1, RunsSets
<1>3. activate_process_thread(kk, tid, p, t, FALSE) = k1
  <2>1. t # tid /\ t # AnyThread
    BY <1>1, SmallNumbers
  <2> QED
    BY <1>1, <2>1 DEF activate_process_thread, SwitchedWithin
<1> HIDE DEF k1
<1>4. TableOK(k1)
  <2>1. pr.ready \ {t} \subseteq pr.threads
    BY TableFacts, <1>1
  <2>2. /\ \A q \in PIDs : q # p => (kk.proc[q].state = "Running" <=> q = p)
        /\ \A q \in PIDs : q # p => ProcessOK(kk.proc[q])
        /\ kk.proc[KernelPid].threads = {INITIAL_TID}
    BY TableFacts
  <2> QED
    BY <1>1, <1>2, <2>1, <2>2, TableKept
<1> QED
  BY <1>1, <1>2, <1>3, <1>4 DEF Moves, Sets, Alive

\* set_last_thread: the thread from which the next time slice of a process starts.
LEMMA SetLastMoves ==
    ASSUME NEW kk, TableOK(kk), NEW p \in PIDs, p # kk.pid, NEW t
    PROVE  Moves(kk, set_last_thread(kk, p, t), kk.pid, kk.proc[kk.pid].tid, {}, {})
<1> DEFINE k1 == set_last_thread(kk, p, t)
           pr == kk.proc[p]
<1>1. kk \in KernelType /\ kk.pid \in PIDs /\ ~kk.fault /\ pr.state # "Running"
  BY TableFacts
<1>2. CASE pr.state = "Ready" /\ t \in pr.ready
  <2>1. t \in TIDs \cup {IRQ_TID}
    BY <1>2, TableFacts
  <2>2. k1 = Currented(kk, p, t)
    BY <1>2 DEF set_last_thread, Currented
  <2>3. Sets(kk, k1, p, kk.pid, pr.state, pr.ready, t, pr.tid, pr.threads)
    BY <1>1, <2>1, <2>2, ThreadSets
  <2> HIDE DEF k1
  <2>4. /\ \A q \in PIDs : (kk.proc[q].state = "Running" <=> q = kk.pid)
        /\ \A q \in PIDs : ProcessOK(kk.proc[q])
        /\ kk.proc[KernelPid].threads = {INITIAL_TID}
        /\ kk.proc[kk.pid].current_thread = kk.proc[kk.pid].tid
        /\ pr.ready \subseteq pr.threads /\ (pr.state = "Ready" => pr.ready # {})
    BY <1>2, TableFacts
  <2>5. TableOK(k1)
    BY <1>1, <1>2, <2>3, <2>4, TableKept
  <2> QED
    BY <1>1, <2>3, <2>5 DEF Moves, Sets, Alive, k1
<1>3. CASE ~(pr.state = "Ready" /\ t \in pr.ready)
  <2>1. k1 = kk
    BY <1>1, <1>3 DEF set_last_thread
  <2> QED
    BY <1>1, <2>1, TableFacts DEF Moves
<1> QED
  BY <1>2, <1>3

\* The server goes on as ready, and the client runs.
LEMMA HandOver ==
    ASSUME NEW kk, TableOK(kk), NEW tid, tid = kk.proc[kk.pid].tid, tid \in kk.proc[kk.pid].threads,
           tid \notin kk.proc[kk.pid].ready, NEW p \in PIDs, NEW t, t \in kk.proc[p].ready
    PROVE  Moves(kk, switch_to_thread(ready_thread(unschedule_thread(kk, kk.pid, tid), kk.pid, tid), p, t),
                 p, t, {<<kk.pid, tid>>}, {<<p, t>>})
<1> DEFINE o == kk.pid
           or == kk.proc[o]
           state == IF or.ready = {} THEN "Sleeping" ELSE "Ready"
           u == Becomes(kk, o, state, or.ready)
           all == or.ready \cup {tid}
           r == Becomes(u, o, "Ready", all)
           k1 == Runs(r, p, t, r.proc[p].ready)
<1>1. /\ kk \in KernelType /\ o \in PIDs /\ ~kk.fault /\ tid \in TIDs /\ t \in TIDs
      /\ or.ready \in SUBSET TIDs /\ or.state = "Running" /\ all \in SUBSET TIDs
      /\ all \subseteq or.threads
  BY TableFacts
<1>2. state \in States /\ "Ready" \in States
  BY DEF States
<1>3. Sets(kk, u, o, o, state, or.ready, or.current_thread, or.tid, or.threads)
  BY <1>1, <1>2, BecomesSets
<1>4. unschedule_thread(kk, o, tid) = u
  BY <1>1 DEF unschedule_thread, Paused
<1> HIDE DEF u
<1>5. u \in KernelType /\ u.pid = o /\ u.fault = kk.fault /\ u.proc[o].ready = or.ready
      /\ u.proc[o].state = state
  BY <1>3 DEF Sets
<1>6. Sets(u, r, o, o, "Ready", all, or.current_thread, or.tid, or.threads)
  <2>1. Sets(u, r, o, u.pid, "Ready", all, u.proc[o].current_thread, u.proc[o].tid, u.proc[o].threads)
    BY <1>1, <1>2, <1>5, BecomesSets
  <2> QED
    BY <1>3, <2>1 DEF Sets
<1>7. ready_thread(u, o, tid) = r
  <2>1. CASE or.ready = {}
    BY <2>1, <1>5 DEF ready_thread
  <2>2. CASE or.ready # {}
    BY <2>2, <1>5 DEF ready_thread
  <2> QED
    BY <2>1, <2>2
<1> HIDE DEF r, all, state
<1>8. /\ r \in KernelType /\ r.pid = o /\ r.fault = kk.fault
      /\ r.proc[o].ready = all /\ r.proc[o].state = "Ready" /\ r.proc[o].threads = or.threads
      /\ \A q \in PIDs : q # o => r.proc[q] = kk.proc[q]
  BY <1>3, <1>6 DEF Sets
<1>9. /\ t \in r.proc[p].ready /\ r.proc[p].state = "Ready" /\ r.proc[p].ready \in SUBSET TIDs
      /\ r.proc[p].threads = kk.proc[p].threads /\ r.proc[p].ready \subseteq r.proc[p].threads
  <2>1. CASE p = o
    BY <2>1, <1>1, <1>8 DEF all
  <2>2. CASE p # o
    BY <2>2, <1>8, TableFacts
  <2> QED
    BY <2>1, <2>2
<1>10. switch_to_thread(r, p, t) = k1
  BY <1>1, <1>9, SmallNumbers DEF switch_to_thread
<1>11. Sets(r, k1, p, p, "Running", r.proc[p].ready \ {t}, t, t, kk.proc[p].threads)
  <2>1. Sets(r, k1, p, p, "Running", r.proc[p].ready \ {t}, t, t, r.proc[p].threads)
    BY <1>1, <1>8, <1>9, RunsSets
  <2> QED
    BY <1>9, <2>1
<1> HIDE DEF k1
<1>12. TableOK(k1)
  <2>1. \A q \in PIDs : q # p => (r.proc[q].state = "Running" <=> q = p)
    BY <1>8, TableFacts
  <2>2. \A q \in PIDs : q # p => ProcessOK(r.proc[q])
    <3>1. ProcessOK(r.proc[o])
      BY <1>1, <1>8 DEF ProcessOK, all
    <3> QED
      BY <1>8, <3>1, TableFacts
  <2>3. /\ r.proc[KernelPid].threads = {INITIAL_TID}
        /\ p = KernelPid => kk.proc[p].threads = {INITIAL_TID}
    BY <1>8, TableFacts, SmallNumbers
  <2>4. r.proc[p].ready \ {t} \subseteq kk.proc[p].threads
    BY <1>9
  <2>5. r \in KernelType /\ ~r.fault
    BY <1>1, <1>8
  <2> QED
    BY <1>11, <2>1, <2>2, <2>3, <2>4, <2>5, TableKept
<1>13. ASSUME NEW q \in PIDs
       PROVE  /\ k1.proc[q].threads = kk.proc[q].threads
              /\ Alive(k1, q) <=> Alive(kk, q)
              /\ \A v \in TIDs : v \in k1.proc[q].ready <=>
                     <<q, v>> \notin {<<p, t>>} /\ (v \in kk.proc[q].ready \/ <<q, v>> \in {<<o, tid>>})
  <2>1. r.proc[q].threads = kk.proc[q].threads /\ (Alive(r, q) <=> Alive(kk, q))
        /\ \A v \in TIDs : v \in r.proc[q].ready <=> v \in kk.proc[q].ready \/ <<q, v>> \in {<<o, tid>>}
    BY <1>1, <1>8 DEF Alive, all
  <2>2. k1.proc[q].threads = r.proc[q].threads /\ (Alive(k1, q) <=> Alive(r, q))
        /\ \A v \in TIDs : v \in k1.proc[q].ready <=> v \in r.proc[q].ready /\ <<q, v>> \notin {<<p, t>>}
    BY <1>9, <1>11 DEF Alive, Sets
  <2> QED
    BY <2>1, <2>2
<1> QED
  BY <1>4, <1>7, <1>10, <1>11, <1>12, <1>13 DEF Moves, Sets
\* An interrupt: the handler runs on the interrupt thread of its process.
LEMMA CallbackMoves ==
    ASSUME NEW kk, TableOK(kk), NEW tid, tid = kk.proc[kk.pid].tid, tid \in kk.proc[kk.pid].threads,
           NEW p \in PIDs, Alive(kk, p)
    PROVE  Moves(kk, make_callback_to(kk, p), p, IRQ_TID, {<<kk.pid, tid>>}, {})
<1> DEFINE o == kk.pid
           or == kk.proc[o]
           all == or.ready \cup {tid}
           r == Becomes(kk, o, "Ready", all)
           k1 == Runs(r, p, IRQ_TID, r.proc[p].ready)
<1>1. /\ kk \in KernelType /\ o \in PIDs /\ ~kk.fault /\ tid \in TIDs /\ tid # IRQ_TID
      /\ or.current_thread = tid
      /\ or.ready \in SUBSET TIDs /\ or.state = "Running" /\ all \in SUBSET TIDs
      /\ all \subseteq or.threads
  BY TableFacts, SmallNumbers
<1>2. Sets(kk, r, o, o, "Ready", all, or.current_thread, or.tid, or.threads)
  BY <1>1, BecomesSets DEF States
<1>3. make_callback_to(kk, p) = IF r.proc[p].state # "Free" THEN k1 ELSE Fault(kk)
  BY <1>1 DEF make_callback_to
<1> HIDE DEF r, all
<1>4. /\ r \in KernelType /\ r.pid = o /\ r.fault = kk.fault
      /\ r.proc[o].ready = all /\ r.proc[o].state = "Ready" /\ r.proc[o].threads = or.threads
      /\ \A q \in PIDs : q # o => r.proc[q] = kk.proc[q]
  BY <1>2 DEF Sets
<1>5. /\ r.proc[p].state # "Free" /\ r.proc[p].ready \in SUBSET TIDs
      /\ r.proc[p].threads = kk.proc[p].threads /\ r.proc[p].ready \subseteq r.proc[p].threads
  <2>1. CASE p = o
    BY <2>1, <1>1, <1>4
  <2>2. CASE p # o
    BY <2>2, <1>4, TableFacts DEF Alive
  <2> QED
    BY <2>1, <2>2
<1>6. r.proc[p].ready \ {IRQ_TID} = r.proc[p].ready
  BY <1>5, SmallNumbers
<1>7. Sets(r, k1, p, p, "Running", r.proc[p].ready, IRQ_TID, IRQ_TID, kk.proc[p].threads)
  <2>1. Sets(r, k1, p, p, "Running", r.proc[p].ready \ {IRQ_TID}, IRQ_TID, IRQ_TID, r.proc[p].threads)
    BY <1>4, <1>5, RunsSets
  <2> QED
    BY <1>5, <1>6, <2>1
<1> HIDE DEF k1
<1>8. TableOK(k1)
  <2>1. \A q \in PIDs : q # p => (r.proc[q].state = "Running" <=> q = p)
    BY <1>4, TableFacts
  <2>2. \A q \in PIDs : q # p => ProcessOK(r.proc[q])
    <3>1. ProcessOK(r.proc[o])
      BY <1>1, <1>4 DEF ProcessOK, all
    <3> QED
      BY <1>4, <3>1, TableFacts
  <2>3. /\ r.proc[KernelPid].threads = {INITIAL_TID}
        /\ p = KernelPid => kk.proc[p].threads = {INITIAL_TID}
    BY <1>4, TableFacts, SmallNumbers
  <2>4. r.proc[p].ready \subseteq kk.proc[p].threads
    BY <1>5
  <2>5. r \in KernelType /\ ~r.fault
    BY <1>1, <1>4
  <2> QED
    BY <1>7, <2>1, <2>2, <2>3, <2>4, <2>5, TableKept
<1>9. ASSUME NEW q \in PIDs
      PROVE  /\ k1.proc[q].threads = kk.proc[q].threads
             /\ Alive(k1, q) <=> Alive(kk, q)
             /\ \A v \in TIDs : v \in k1.proc[q].ready <=>
                    <<q, v>> \notin {} /\ (v \in kk.proc[q].ready \/ <<q, v>> \in {<<o, tid>>})
  <2>1. r.proc[q].threads = kk.proc[q].threads /\ (Alive(r, q) <=> Alive(kk, q))
        /\ \A v \in TIDs : v \in r.proc[q].ready <=> v \in kk.proc[q].ready \/ <<q, v>> \in {<<o, tid>>}
    BY <1>1, <1>4 DEF Alive, all
  <2>2. k1.proc[q].threads = r.proc[q].threads /\ (Alive(k1, q) <=> Alive(r, q))
        /\ k1.proc[q].ready = r.proc[q].ready
    BY <1>5, <1>7 DEF Alive, Sets
  <2> QED
    BY <2>1, <2>2
<1> QED
  BY <1>3, <1>5, <1>7, <1>8, <1>9 DEF Moves, Sets

\* The end of an interrupt: thread t of p goes on.
LEMMA FinishMoves ==
    ASSUME NEW kk, TableOK(kk), NEW p \in PIDs, NEW t, t \in kk.proc[p].ready
    PROVE  Moves(kk, finish_callback_and_resume(kk, p, t), p, t, {}, {<<p, t>>})
<1> DEFINE o == kk.pid
           or == kk.proc[o]
           state == IF or.ready = {} THEN "Sleeping" ELSE "Ready"
           r == Becomes(kk, o, state, or.ready)
           k1 == Runs(r, p, t, r.proc[p].ready)
<1>1. /\ kk \in KernelType /\ o \in PIDs /\ ~kk.fault /\ t \in TIDs
      /\ or.ready \in SUBSET TIDs /\ or.state = "Running" /\ or.ready \subseteq or.threads
  BY TableFacts
<1>2. state \in States
  BY DEF States
<1>3. Sets(kk, r, o, o, state, or.ready, or.current_thread, or.tid, or.threads)
  BY <1>1, <1>2, BecomesSets
<1>4. finish_callback_and_resume(kk, p, t) =
          IF r.proc[p].state = "Ready" /\ t \in r.proc[p].ready THEN k1 ELSE Fault(kk)
  BY <1>1 DEF finish_callback_and_resume, Paused
<1> HIDE DEF r
<1>5. /\ r \in KernelType /\ r.pid = o /\ r.fault = kk.fault
      /\ r.proc[o].ready = or.ready /\ r.proc[o].state = state /\ r.proc[o].threads = or.threads
      /\ \A q \in PIDs : q # o => r.proc[q] = kk.proc[q]
  BY <1>3 DEF Sets
<1>6. \A q \in PIDs : /\ r.proc[q].threads = kk.proc[q].threads /\ r.proc[q].ready = kk.proc[q].ready
                      /\ r.proc[q].state # "Running"
                      /\ Alive(r, q) <=> Alive(kk, q)
                      /\ ProcessOK(r.proc[q])
  <2>1. ProcessOK(r.proc[o])
    BY <1>1, <1>5 DEF ProcessOK
  <2> QED
    BY <1>1, <1>5, <2>1, TableFacts DEF Alive
<1>7. r.proc[p].state = "Ready" /\ t \in r.proc[p].ready /\ r.proc[p].ready \in SUBSET TIDs
      /\ r.proc[p].ready \subseteq r.proc[p].threads
  BY <1>1, <1>5, <1>6, TableFacts
<1> HIDE DEF state
<1>8. Sets(r, k1, p, p, "Running", kk.proc[p].ready \ {t}, t, t, kk.proc[p].threads)
  <2>1. Sets(r, k1, p, p, "Running", r.proc[p].ready \ {t}, t, t, r.proc[p].threads)
    BY <1>1, <1>5, <1>7, RunsSets
  <2> QED
    BY <1>6, <2>1
<1> HIDE DEF k1
<1>9. TableOK(k1)
  <2>1. \A q \in PIDs : q # p => (r.proc[q].state = "Running" <=> q = p)
    BY <1>6
  <2>2. \A q \in PIDs : q # p => ProcessOK(r.proc[q])
    BY <1>6
  <2>3. /\ r.proc[KernelPid].threads = {INITIAL_TID}
        /\ p = KernelPid => kk.proc[p].threads = {INITIAL_TID}
    BY <1>6, TableFacts, SmallNumbers
  <2>4. kk.proc[p].ready \ {t} \subseteq kk.proc[p].threads
    BY <1>6, <1>7
  <2>5. r \in KernelType /\ ~r.fault
    BY <1>1, <1>5
  <2> QED
    BY <1>8, <2>1, <2>2, <2>3, <2>4, <2>5, TableKept
<1>10. ASSUME NEW q \in PIDs
       PROVE  /\ k1.proc[q].threads = kk.proc[q].threads
              /\ Alive(k1, q) <=> Alive(kk, q)
              /\ \A v \in TIDs : v \in k1.proc[q].ready <=>
                     <<q, v>> \notin {<<p, t>>} /\ (v \in kk.proc[q].ready \/ <<q, v>> \in {})
  <2>1. k1.proc[q].threads = r.proc[q].threads /\ (Alive(k1, q) <=> Alive(r, q))
        /\ \A v \in TIDs : v \in k1.proc[q].ready <=> v \in kk.proc[q].ready /\ <<q, v>> \notin {<<p, t>>}
    BY <1>6, <1>7, <1>8 DEF Alive, Sets
  <2> QED
    BY <1>6, <2>1
<1> QED
  BY <1>4, <1>7, <1>8, <1>9, <1>10 DEF Moves, Sets

\* ready_thread for several threads at once.
LEMMA AllReadiedMoves ==
    ASSUME TableOK(k), NEW W,
           \A w \in W : \E p \in PIDs : \E t \in k.proc[p].threads \ k.proc[p].ready : w = <<p, t>>
    PROVE  Moves(k, AllReadied(W), k.pid, k.proc[k.pid].tid, W, {})
<1> DEFINE of(p) == {t \in TIDs : <<p, t>> \in W}
           k1 == AllReadied(W)
<1>1. k \in KernelType /\ k.fault = FALSE
  BY DEF TableOK
<1>2. ASSUME NEW p \in PIDs, NEW t, <<p, t>> \in W
      PROVE  t \in k.proc[p].threads /\ t \notin k.proc[p].ready
  <2>1. PICK q \in PIDs : \E u \in k.proc[q].threads \ k.proc[q].ready : <<p, t>> = <<q, u>>
    BY <1>2
  <2> QED
    BY <2>1
<1>3. \A p \in PIDs : of(p) \subseteq k.proc[p].threads
  BY <1>2
<1>4. ~ \E w \in W : ~Alive(k, w[1]) \/ w[2] \in k.proc[w[1]].ready
  <2>1. SUFFICES ASSUME NEW w \in W PROVE Alive(k, w[1]) /\ w[2] \notin k.proc[w[1]].ready
    BY <2>1
  <2>2. PICK p \in PIDs : \E t \in k.proc[p].threads \ k.proc[p].ready : w = <<p, t>>
    OBVIOUS
  <2>3. PICK t \in k.proc[p].threads \ k.proc[p].ready : w = <<p, t>>
    BY <2>2
  <2>4. ProcessOK(k.proc[p])
    BY TableFacts
  <2>5. Alive(k, p)
    BY <2>3, <2>4 DEF Alive, ProcessOK
  <2> QED
    BY <2>3, <2>5
<1> DEFINE pr1(p) == IF of(p) = {} THEN k.proc[p]
                     ELSE [k.proc[p] EXCEPT !.state = IF @ = "Sleeping" THEN "Ready" ELSE @,
                                            !.ready = @ \cup of(p)]
<1>5. k1 = [k EXCEPT !.fault = @ \/ \E w \in W : ~Alive(k, w[1]) \/ w[2] \in k.proc[w[1]].ready,
                     !.proc = [p \in PIDs |-> pr1(p)]]
  BY DEF AllReadied
<1> HIDE DEF k1, of
<1>6. ASSUME NEW p \in PIDs
      PROVE  /\ pr1(p) \in Process
             /\ pr1(p).state = IF of(p) # {} /\ k.proc[p].state = "Sleeping" THEN "Ready" ELSE k.proc[p].state
             /\ pr1(p).ready = k.proc[p].ready \cup of(p)
             /\ pr1(p).threads = k.proc[p].threads
             /\ pr1(p).tid = k.proc[p].tid
             /\ pr1(p).current_thread = k.proc[p].current_thread
  <2>1. k.proc[p] \in Process /\ of(p) \subseteq TIDs
    BY TableFacts DEF of
  <2> QED
    BY <2>1 DEF Process
<1> HIDE DEF pr1
<1>7. /\ k1 \in KernelType /\ k1.fault = FALSE /\ k1.pid = k.pid
      /\ \A p \in PIDs : k1.proc[p] = pr1(p)
  <2>1. \A p \in PIDs : pr1(p) \in Process
    BY <1>6
  <2>2. k1 = [k EXCEPT !.fault = FALSE, !.proc = [p \in PIDs |-> pr1(p)]]
    BY <1>1, <1>4, <1>5 DEF KernelType
  <2> QED
    BY <1>1, <2>1, <2>2 DEF KernelType
<1>8. \A p \in PIDs : /\ k1.proc[p].state = IF of(p) # {} /\ k.proc[p].state = "Sleeping" THEN "Ready" ELSE k.proc[p].state
                      /\ k1.proc[p].ready = k.proc[p].ready \cup of(p)
                      /\ k1.proc[p].threads = k.proc[p].threads
                      /\ k1.proc[p].tid = k.proc[p].tid
                      /\ k1.proc[p].current_thread = k.proc[p].current_thread
  BY <1>6, <1>7
<1>9. TableOK(k1)
  <2>1. \A p \in PIDs : ProcessOK(k1.proc[p])
    BY <1>3, <1>8, TableFacts DEF ProcessOK
  <2>2. \A p \in PIDs : k1.proc[p].state = "Running" <=> p = k.pid
    BY <1>8, TableFacts
  <2>3. k.pid \in PIDs /\ k.proc[k.pid].current_thread = k.proc[k.pid].tid
        /\ KernelPid \in PIDs /\ k.proc[KernelPid].threads = {INITIAL_TID}
    BY TableFacts, SmallNumbers
  <2>4. k1.proc[k.pid].current_thread = k1.proc[k.pid].tid /\ k1.proc[KernelPid].threads = {INITIAL_TID}
    BY <1>8, <2>3
  <2> QED
    BY <1>7, <2>1, <2>2, <2>4 DEF TableOK
<1>10. \A p \in PIDs : Alive(k1, p) <=> Alive(k, p)
  BY <1>8 DEF Alive
<1>11. k.pid \in PIDs
  BY TableFacts
<1> QED
  BY <1>7, <1>8, <1>9, <1>10, <1>11 DEF Moves, of, k1

-----------------------------------------------------------------------------
(* Processes and threads come and go *)

\* Threads are allocated and the hardware thread, or the ready threads, set.
ThreadsTid(kk, p, threads, t) == [kk EXCEPT !.proc[p].threads = threads, !.proc[p].tid = t]
ThreadsReady(kk, p, threads, ready) == [kk EXCEPT !.proc[p].threads = threads, !.proc[p].ready = ready]

\* ThreadsTid, field by field.
LEMMA ThreadsTidSets ==
    ASSUME NEW kk \in KernelType, NEW p \in PIDs, NEW threads \in SUBSET TIDs, NEW t \in TIDs \cup {IRQ_TID}
    PROVE  Sets(kk, ThreadsTid(kk, p, threads, t), p, kk.pid, kk.proc[p].state, kk.proc[p].ready,
                kk.proc[p].current_thread, t, threads)
<1>1. kk.proc[p] \in Process /\ kk.pid \in PIDs
  BY DEF KernelType
<1>2. ASSUME NEW pr, pr = [kk.proc[p] EXCEPT !.threads = threads, !.tid = t]
      PROVE  ThreadsTid(kk, p, threads, t) = Put(kk, p, pr, kk.pid)
  BY <1>2 DEF ThreadsTid, Put, KernelType, Process
<1>3. PICK pr : pr = [kk.proc[p] EXCEPT !.threads = threads, !.tid = t]
  OBVIOUS
<1>4. pr \in Process
  BY <1>1, <1>3 DEF Process
<1>5. Only(kk, ThreadsTid(kk, p, threads, t), p, pr, kk.pid)
  BY <1>1, <1>2, <1>3, <1>4, PutOnly
<1> QED
  BY <1>1, <1>3, <1>5 DEF Only, Sets, Process

\* ThreadsReady, field by field.
LEMMA ThreadsReadySets ==
    ASSUME NEW kk \in KernelType, NEW p \in PIDs, NEW threads \in SUBSET TIDs, NEW ready \in SUBSET TIDs
    PROVE  Sets(kk, ThreadsReady(kk, p, threads, ready), p, kk.pid, kk.proc[p].state, ready,
                kk.proc[p].current_thread, kk.proc[p].tid, threads)
<1>1. kk.proc[p] \in Process /\ kk.pid \in PIDs
  BY DEF KernelType
<1>2. ASSUME NEW pr, pr = [kk.proc[p] EXCEPT !.threads = threads, !.ready = ready]
      PROVE  ThreadsReady(kk, p, threads, ready) = Put(kk, p, pr, kk.pid)
  BY <1>2 DEF ThreadsReady, Put, KernelType, Process
<1>3. PICK pr : pr = [kk.proc[p] EXCEPT !.threads = threads, !.ready = ready]
  OBVIOUS
<1>4. pr \in Process
  BY <1>1, <1>3 DEF Process
<1>5. Only(kk, ThreadsReady(kk, p, threads, ready), p, pr, kk.pid)
  BY <1>1, <1>2, <1>3, <1>4, PutOnly
<1> QED
  BY <1>1, <1>3, <1>5 DEF Only, Sets, Process

\* CreateThread: the new thread runs, and its creator is ready.
ThreadCreated(kk, k1, p, tid, t) ==
    /\ TableOK(k1) /\ k1.pid = p /\ k1.proc[p].tid = t
    /\ k1.proc[p].threads = kk.proc[p].threads \cup {t}
    /\ k1.proc[p].ready = kk.proc[p].ready \cup {tid}
    /\ \A q \in PIDs : q # p => k1.proc[q] = kk.proc[q]
    /\ \A q \in PIDs : Alive(k1, q) <=> Alive(kk, q)

\* create_thread: the new thread runs and the caller is ready.
LEMMA CreateThreadEffect ==
    ASSUME NEW kk, TableOK(kk), NEW tid, tid = kk.proc[kk.pid].tid, tid \in kk.proc[kk.pid].threads,
           kk.pid # KernelPid, NEW t \in TIDs, t \notin kk.proc[kk.pid].threads,
           NEW k1, k1 = create_thread(kk, t)
    PROVE  ThreadCreated(kk, k1, kk.pid, tid, t)
<1> DEFINE p == kk.pid
           pr == kk.proc[p]
           threads == pr.threads \cup {t}
           ready == pr.ready \cup {t}
           a == ThreadsReady(kk, p, threads, ready)
           all == ready \cup {tid}
           r == Runs(a, p, t, all)
<1>1. /\ kk \in KernelType /\ p \in PIDs /\ ~kk.fault /\ tid \in TIDs
      /\ pr.ready \in SUBSET TIDs /\ pr.ready \subseteq pr.threads /\ pr.state = "Running"
      /\ pr.current_thread = tid /\ pr.threads \in SUBSET TIDs
  BY TableFacts
<1>2. threads \in SUBSET TIDs /\ ready \in SUBSET TIDs /\ all \in SUBSET TIDs /\ t # AnyThread
      /\ t \in TIDs \cup {IRQ_TID}
  BY <1>1, SmallNumbers
<1>3. Sets(kk, a, p, p, "Running", ready, tid, tid, threads)
  <2>1. Sets(kk, a, p, kk.pid, kk.proc[p].state, ready, kk.proc[p].current_thread, kk.proc[p].tid, threads)
    BY <1>1, <1>2, ThreadsReadySets
  <2> QED
    BY <1>1, <2>1
<1>4. create_thread(kk, t) = switch_to_thread(a, p, t)
  <2>1. a = [kk EXCEPT !.proc[kk.pid].threads = @ \cup {t}, !.proc[kk.pid].ready = @ \cup {t}]
    BY <1>1 DEF ThreadsReady, KernelType, Process
  <2> QED
    BY <1>1, <2>1 DEF create_thread, Assert
<1> HIDE DEF a
<1>5. switch_to_thread(a, p, t) = r
  BY <1>2, <1>3 DEF switch_to_thread, Sets
<1>6. Sets(a, r, p, p, "Running", pr.ready \cup {tid}, t, t, threads)
  <2>1. a \in KernelType /\ a.proc[p].threads = threads
    BY <1>3 DEF Sets
  <2>2. Sets(a, r, p, p, "Running", all \ {t}, t, t, a.proc[p].threads)
    BY <1>1, <1>2, <2>1, RunsSets
  <2>3. all \ {t} = pr.ready \cup {tid}
    BY <1>1
  <2> QED
    BY <2>1, <2>2, <2>3
<1> HIDE DEF r, all, ready
<1>7. TableOK(r)
  <2>1. /\ a \in KernelType /\ ~a.fault
        /\ \A q \in PIDs : q # p => a.proc[q] = kk.proc[q]
    BY <1>1, <1>3 DEF Sets
  <2>2. /\ \A q \in PIDs : q # p => (a.proc[q].state = "Running" <=> q = p)
        /\ \A q \in PIDs : q # p => ProcessOK(a.proc[q])
        /\ a.proc[KernelPid].threads = {INITIAL_TID}
    BY <2>1, TableFacts, SmallNumbers
  <2>3. pr.ready \cup {tid} \subseteq threads
    BY <1>1
  <2> HIDE DEF threads
  <2> QED
    BY <1>1, <1>6, <2>1, <2>2, <2>3, TableKept
<1> QED
  BY <1>1, <1>3, <1>4, <1>5, <1>6, <1>7 DEF Sets, Alive, ThreadCreated

\* CreateProcess: a free process gets its first thread.
ProcessCreated(kk, k1, p) ==
    /\ ~Alive(kk, p)
    /\ TableOK(k1)
    /\ k1.pid = kk.pid /\ p # kk.pid
    /\ k1.proc[p].threads = {INITIAL_TID}
    /\ k1.proc[p].ready = {INITIAL_TID}
    /\ Alive(k1, p)
    /\ \A q \in PIDs : q # p => k1.proc[q] = kk.proc[q]

\* create_process: a free slot holds a process with one ready thread.
LEMMA CreateProcessEffect ==
    ASSUME NEW kk, TableOK(kk), FreePids(kk) # {}
    PROVE  \E p \in PIDs : ProcessCreated(kk, create_process(kk), p)
<1> DEFINE p == Lowest(FreePids(kk))
           b == Becomes(kk, p, "Ready", {INITIAL_TID})
           k1 == ThreadsTid(b, p, {INITIAL_TID}, INITIAL_TID)
<1>1. p \in FreePids(kk)
  <2>1. FreePids(kk) \subseteq Nat
    BY DEF FreePids, PIDs
  <2> QED
    BY <2>1, LowestIn
<1>2. create_process(kk) = k1
  BY DEF create_process, ThreadsTid
<1> HIDE DEF p
<1>3. p \in PIDs /\ ~Alive(kk, p) /\ p # kk.pid /\ kk \in KernelType /\ ~kk.fault /\ p # KernelPid
      /\ {INITIAL_TID} \in SUBSET TIDs /\ "Ready" \in States /\ INITIAL_TID \in TIDs \cup {IRQ_TID}
  BY <1>1, TableFacts, SmallNumbers DEF FreePids, Alive, States, ProcessOK
<1>4. Sets(kk, b, p, kk.pid, "Ready", {INITIAL_TID}, kk.proc[p].current_thread, kk.proc[p].tid, kk.proc[p].threads)
  BY <1>3, BecomesSets
<1> HIDE DEF b
<1>5. Sets(b, k1, p, kk.pid, "Ready", {INITIAL_TID}, kk.proc[p].current_thread, INITIAL_TID, {INITIAL_TID})
  <2>1. b \in KernelType
    BY <1>4 DEF Sets
  <2>2. Sets(b, k1, p, b.pid, b.proc[p].state, b.proc[p].ready, b.proc[p].current_thread, INITIAL_TID, {INITIAL_TID})
    BY <1>3, <2>1, ThreadsTidSets
  <2> QED
    BY <1>4, <2>2 DEF Sets
<1> HIDE DEF k1
<1>6. TableOK(k1)
  <2>1. /\ b \in KernelType /\ ~b.fault
        /\ \A q \in PIDs : q # p => b.proc[q] = kk.proc[q]
    BY <1>3, <1>4 DEF Sets
  <2>2. /\ \A q \in PIDs : q # p => (b.proc[q].state = "Running" <=> q = kk.pid)
        /\ \A q \in PIDs : q # p => ProcessOK(b.proc[q])
        /\ b.proc[KernelPid].threads = {INITIAL_TID}
        /\ b.proc[kk.pid].current_thread = b.proc[kk.pid].tid
    BY <1>3, <2>1, TableFacts, SmallNumbers
  <2> QED
    BY <1>3, <1>5, <2>1, <2>2, TableKept
<1>7. /\ k1.pid = kk.pid /\ k1.proc[p].threads = {INITIAL_TID} /\ k1.proc[p].ready = {INITIAL_TID}
      /\ Alive(k1, p) /\ \A q \in PIDs : q # p => k1.proc[q] = kk.proc[q]
  BY <1>4, <1>5 DEF Sets, Alive
<1> QED
  BY <1>2, <1>3, <1>6, <1>7 DEF ProcessCreated

\* switch_to_thread to a process that does not run, in a table in which none does.
LEMMA SwitchEffect ==
    ASSUME NEW kk \in KernelType, ~kk.fault, NEW p \in PIDs, kk.proc[p].state = "Ready",
           kk.proc[p].ready # {}, kk.proc[p].ready \subseteq kk.proc[p].threads,
           kk.proc[p].threads \in SUBSET TIDs,
           \A q \in PIDs : kk.proc[q].state # "Running",
           \A q \in PIDs : ProcessOK(kk.proc[q]),
           kk.proc[KernelPid].threads = {INITIAL_TID}
    PROVE  \E new \in kk.proc[p].ready :
              /\ Sets(kk, switch_to_thread(kk, p, AnyThread), p, p, "Running", kk.proc[p].ready \ {new},
                      new, new, kk.proc[p].threads)
              /\ TableOK(switch_to_thread(kk, p, AnyThread))
<1> DEFINE pr == kk.proc[p]
           new == Chosen(pr.ready, pr.current_thread, AnyThread)
           k1 == Runs(kk, p, new, pr.ready)
<1>1. new \in pr.ready /\ new \in TIDs \cup {IRQ_TID}
  BY ChosenIn
<1>2. switch_to_thread(kk, p, AnyThread) = k1
  BY <1>1 DEF switch_to_thread, Chosen
<1> HIDE DEF new
<1>3. Sets(kk, k1, p, p, "Running", pr.ready \ {new}, new, new, pr.threads)
  BY <1>1, RunsSets
<1> HIDE DEF k1
<1>4. TableOK(k1)
  <2>1. pr.ready \ {new} \subseteq pr.threads
    OBVIOUS
  <2> QED
    BY <1>3, <2>1, TableKept
<1> QED
  BY <1>1, <1>2, <1>3, <1>4

\* TerminateProcess: the process is free, and kmain runs.
ProcessTerminated(kk, k1, d) ==
    /\ TableOK(k1) /\ k1.pid = KernelPid /\ k1.proc[KernelPid].tid = INITIAL_TID
    /\ k1.proc[KernelPid].ready = {}
    /\ k1.proc[KernelPid].threads = {INITIAL_TID}
    /\ ~Alive(k1, d) /\ k1.proc[d].threads = {}
    /\ \A q \in PIDs : q \notin {KernelPid, d} => k1.proc[q] = kk.proc[q]
    /\ \A q \in PIDs : q # d => (Alive(k1, q) <=> Alive(kk, q))

\* terminate: the slot is free and kmain runs.
LEMMA TerminateEffect ==
    ASSUME NEW kk, TableOK(kk), NEW tid, tid = kk.proc[kk.pid].tid, tid \notin kk.proc[kk.pid].ready,
           kk.pid # KernelPid, kk.proc[KernelPid].ready = {INITIAL_TID},
           NEW k1, k1 = terminate(unschedule_thread(kk, kk.pid, tid), kk.pid)
    PROVE  ProcessTerminated(kk, k1, kk.pid)
<1> DEFINE o == kk.pid
           or == kk.proc[o]
           state == IF or.ready = {} THEN "Sleeping" ELSE "Ready"
           u == Becomes(kk, o, state, or.ready)
           f == Becomes(u, o, "Free", {})
           r == Threads(f, o, {})
<1>1. /\ kk \in KernelType /\ o \in PIDs /\ ~kk.fault /\ KernelPid \in PIDs
      /\ or.ready \in SUBSET TIDs /\ or.state = "Running" /\ {} \in SUBSET TIDs
      /\ state \in States /\ "Free" \in States
  BY TableFacts, SmallNumbers DEF States
<1>2. Sets(kk, u, o, o, state, or.ready, or.current_thread, or.tid, or.threads)
  BY <1>1, BecomesSets
<1>3. unschedule_thread(kk, o, tid) = u
  BY <1>1 DEF unschedule_thread, Paused
<1>4. k1 = switch_to_thread(r, KernelPid, AnyThread)
  BY <1>3 DEF terminate, Threads
<1> HIDE DEF u, state
<1>5. Sets(u, f, o, o, "Free", {}, or.current_thread, or.tid, or.threads)
  <2>1. u \in KernelType
    BY <1>2 DEF Sets
  <2>2. Sets(u, f, o, u.pid, "Free", {}, u.proc[o].current_thread, u.proc[o].tid, u.proc[o].threads)
    BY <1>1, <2>1, BecomesSets
  <2> QED
    BY <1>2, <2>2 DEF Sets
<1> HIDE DEF f
<1>6. Sets(f, r, o, o, "Free", {}, or.current_thread, or.tid, {})
  <2>1. f \in KernelType
    BY <1>5 DEF Sets
  <2>2. Sets(f, r, o, f.pid, f.proc[o].state, f.proc[o].ready, f.proc[o].current_thread, f.proc[o].tid, {})
    BY <1>1, <2>1, ThreadsSets
  <2> QED
    BY <1>5, <2>2 DEF Sets
<1> HIDE DEF r
<1>7. /\ r \in KernelType /\ ~r.fault /\ r.proc[o].state = "Free" /\ r.proc[o].threads = {}
      /\ r.proc[o].ready = {}
      /\ \A q \in PIDs : q # o => r.proc[q] = kk.proc[q]
  BY <1>1, <1>2, <1>5, <1>6 DEF Sets
<1>8. /\ r.proc[KernelPid].state = "Ready" /\ r.proc[KernelPid].ready = {INITIAL_TID}
      /\ r.proc[KernelPid].threads = {INITIAL_TID}
      /\ \A q \in PIDs : r.proc[q].state # "Running" /\ ProcessOK(r.proc[q])
  <2>1. ProcessOK(r.proc[o])
    BY <1>7 DEF ProcessOK
  <2>2. kk.proc[KernelPid].state = "Ready" /\ kk.proc[KernelPid].threads = {INITIAL_TID}
    BY <1>1, TableFacts
  <2>3. \A q \in PIDs : q # o => kk.proc[q].state # "Running" /\ ProcessOK(kk.proc[q])
    BY TableFacts
  <2> QED
    BY <1>1, <1>7, <2>1, <2>2, <2>3
<1>9. PICK new \in r.proc[KernelPid].ready :
              /\ Sets(r, k1, KernelPid, KernelPid, "Running", r.proc[KernelPid].ready \ {new},
                      new, new, r.proc[KernelPid].threads)
              /\ TableOK(k1)
  <2>1. {INITIAL_TID} \in SUBSET TIDs
    BY SmallNumbers
  <2> QED
    BY <1>1, <1>4, <1>7, <1>8, <2>1, SwitchEffect
<1>10. new = INITIAL_TID
  BY <1>8, <1>9
<1>11. /\ k1.pid = KernelPid /\ k1.proc[KernelPid].tid = INITIAL_TID /\ k1.proc[KernelPid].ready = {}
       /\ k1.proc[KernelPid].threads = {INITIAL_TID} /\ k1.proc[KernelPid].state = "Running"
       /\ \A q \in PIDs : q # KernelPid => k1.proc[q] = r.proc[q]
  BY <1>8, <1>9, <1>10 DEF Sets
<1>12. k1.proc[o] = r.proc[o]
  BY <1>1, <1>11
<1>13. \A q \in PIDs : q \notin {KernelPid, o} => k1.proc[q] = kk.proc[q]
  BY <1>7, <1>11, SMTT(30)
<1>14. Alive(kk, KernelPid) /\ Alive(k1, KernelPid)
  BY <1>1, <1>7, <1>8, <1>11 DEF Alive
<1>15. \A q \in PIDs : q # o => (Alive(k1, q) <=> Alive(kk, q))
  BY <1>13, <1>14 DEF Alive
<1>16. ~Alive(k1, o) /\ k1.proc[o].threads = {}
  BY <1>7, <1>12 DEF Alive
<1> QED
  BY <1>9, <1>11, <1>13, <1>15, <1>16 DEF ProcessTerminated

\* ExitThread: another thread of the process runs, or else kmain.
ThreadDestroyed(kk, k1, p, tid, waiting) ==
    /\ TableOK(k1)
    /\ k1.pid = IF waiting = {} THEN KernelPid ELSE p
    /\ k1.proc[p].threads = kk.proc[p].threads \ {tid}
    /\ \E new \in (IF waiting = {} THEN {INITIAL_TID} ELSE waiting) :
          /\ k1.proc[k1.pid].tid = new
          /\ k1.proc[p].ready = waiting \ {new}
    /\ k1.proc[KernelPid].ready = (IF waiting = {} THEN {} ELSE {INITIAL_TID})
    /\ k1.proc[KernelPid].threads = {INITIAL_TID}
    /\ \A q \in PIDs : q \notin {KernelPid, p} => k1.proc[q] = kk.proc[q]
    /\ \A q \in PIDs : Alive(k1, q) <=> Alive(kk, q)

\* destroy_thread: the thread is gone, and a thread of its process or kmain runs.
LEMMA DestroyThreadEffect ==
    ASSUME NEW kk, TableOK(kk), NEW tid, tid = kk.proc[kk.pid].tid, tid \in kk.proc[kk.pid].threads,
           tid \notin kk.proc[kk.pid].ready, kk.pid # KernelPid,
           kk.proc[KernelPid].ready = {INITIAL_TID},
           NEW woken, woken \subseteq kk.proc[kk.pid].threads \ {tid},
           NEW waiting, waiting = kk.proc[kk.pid].ready \cup woken,
           NEW k1, k1 = destroy_thread(kk, tid, woken)
    PROVE  ThreadDestroyed(kk, k1, kk.pid, tid, waiting)
<1> DEFINE o == kk.pid
           or == kk.proc[o]
           state == IF waiting = {} THEN "Sleeping" ELSE "Ready"
           u == Becomes(kk, o, state, waiting)
           r == Threads(u, o, or.threads \ {tid})
           p == IF waiting = {} THEN KernelPid ELSE o
<1>1. /\ kk \in KernelType /\ o \in PIDs /\ ~kk.fault /\ KernelPid \in PIDs /\ p \in PIDs
      /\ waiting \in SUBSET TIDs /\ or.state = "Running" /\ or.threads \ {tid} \in SUBSET TIDs
      /\ waiting \subseteq or.threads \ {tid}
      /\ state \in States
  BY TableFacts, SmallNumbers DEF States
<1>2. Sets(kk, u, o, o, state, waiting, or.current_thread, or.tid, or.threads)
  BY <1>1, BecomesSets
<1>3. k1 = switch_to_thread(r, p, AnyThread)
  <2>1. Paused(kk, o, waiting) = u
    BY DEF Paused
  <2>2. [u EXCEPT !.proc[o].threads = @ \ {tid}] = r
    <3> HIDE DEF u
    <3>1. u \in KernelType /\ u.proc[o].threads = or.threads
      BY <1>2 DEF Sets
    <3> QED
      BY <1>1, <3>1 DEF Threads, KernelType, Process
  <2> QED
    BY <1>1, <2>1, <2>2 DEF destroy_thread
<1> HIDE DEF u
<1>4. Sets(u, r, o, o, state, waiting, or.current_thread, or.tid, or.threads \ {tid})
  <2>1. u \in KernelType
    BY <1>2 DEF Sets
  <2>2. Sets(u, r, o, u.pid, u.proc[o].state, u.proc[o].ready, u.proc[o].current_thread, u.proc[o].tid, or.threads \ {tid})
    BY <1>1, <2>1, ThreadsSets
  <2> QED
    BY <1>2, <2>2 DEF Sets
<1> HIDE DEF r
<1>5. /\ r \in KernelType /\ ~r.fault /\ r.proc[o].state = state /\ r.proc[o].ready = waiting
      /\ r.proc[o].threads = or.threads \ {tid}
      /\ \A q \in PIDs : q # o => r.proc[q] = kk.proc[q]
  BY <1>1, <1>2, <1>4 DEF Sets
<1>6. /\ r.proc[KernelPid].ready = {INITIAL_TID} /\ r.proc[KernelPid].threads = {INITIAL_TID}
      /\ r.proc[KernelPid].state = "Ready"
      /\ \A q \in PIDs : r.proc[q].state # "Running" /\ ProcessOK(r.proc[q])
  <2>1. ProcessOK(r.proc[o])
    BY <1>1, <1>5 DEF ProcessOK
  <2> QED
    BY <1>1, <1>5, <2>1, TableFacts
<1>7. /\ r.proc[p].state = "Ready" /\ r.proc[p].ready = (IF waiting = {} THEN {INITIAL_TID} ELSE waiting)
      /\ r.proc[p].ready \subseteq r.proc[p].threads /\ r.proc[p].threads \in SUBSET TIDs
      /\ r.proc[p].ready # {}
  BY <1>1, <1>5, <1>6, SmallNumbers
<1>8. PICK new \in r.proc[p].ready :
              /\ Sets(r, k1, p, p, "Running", r.proc[p].ready \ {new}, new, new, r.proc[p].threads)
              /\ TableOK(k1)
  <2>1. /\ r \in KernelType /\ ~r.fault /\ p \in PIDs /\ r.proc[p].state = "Ready"
        /\ r.proc[p].ready # {} /\ r.proc[p].ready \subseteq r.proc[p].threads
        /\ r.proc[p].threads \in SUBSET TIDs
        /\ \A q \in PIDs : r.proc[q].state # "Running"
        /\ \A q \in PIDs : ProcessOK(r.proc[q])
        /\ r.proc[KernelPid].threads = {INITIAL_TID}
    BY <1>1, <1>5, <1>6, <1>7
  <2> HIDE DEF p
  <2>2. \E new \in r.proc[p].ready :
              /\ Sets(r, switch_to_thread(r, p, AnyThread), p, p, "Running", r.proc[p].ready \ {new},
                      new, new, r.proc[p].threads)
              /\ TableOK(switch_to_thread(r, p, AnyThread))
    BY <2>1, SwitchEffect
  <2> QED
    BY <1>3, <2>2
<1>9. /\ k1.pid = p /\ k1.proc[p].tid = new /\ k1.proc[p].ready = r.proc[p].ready \ {new}
      /\ k1.proc[p].threads = r.proc[p].threads /\ k1.proc[p].state = "Running"
      /\ \A q \in PIDs : q # p => k1.proc[q] = r.proc[q]
  BY <1>8 DEF Sets
<1>10. ASSUME NEW q \in PIDs PROVE Alive(k1, q) <=> Alive(kk, q)
  <2>1. \A v \in PIDs : Alive(r, v) <=> Alive(kk, v)
    BY <1>1, <1>5 DEF Alive
  <2>2. Alive(r, p) /\ Alive(k1, p)
    BY <1>7, <1>9 DEF Alive
  <2>3. q # p => (Alive(r, q) <=> Alive(k1, q))
    BY <1>9 DEF Alive
  <2> HIDE DEF p
  <2> QED
    BY <1>1, <2>1, <2>2, <2>3
<1>11. \A q \in PIDs : q \notin {KernelPid, o} => k1.proc[q] = kk.proc[q]
  BY <1>5, <1>9, ZenonT(30)
<1>12. CASE waiting = {}
  <2>1. p = KernelPid /\ new = INITIAL_TID
    BY <1>7, <1>12
  <2>2. k1.proc[o] = r.proc[o]
    BY <1>1, <1>9, <2>1
  <2> QED
    BY <1>1, <1>5, <1>6, <1>7, <1>8, <1>9, <1>10, <1>11, <1>12, <2>1, <2>2 DEF ThreadDestroyed
<1>13. CASE waiting # {}
  <2>1. p = o
    BY <1>13
  <2>2. k1.proc[KernelPid] = r.proc[KernelPid]
    BY <1>1, <1>9, <2>1
  <2>3. /\ k1.pid = o /\ k1.proc[k1.pid].tid = new /\ new \in waiting
        /\ k1.proc[o].ready = waiting \ {new} /\ k1.proc[o].threads = or.threads \ {tid}
    BY <1>5, <1>7, <1>8, <1>9, <1>13, <2>1
  <2> QED
    BY <1>6, <1>8, <1>10, <1>11, <1>13, <2>2, <2>3 DEF ThreadDestroyed
<1> QED
  BY <1>12, <1>13

-----------------------------------------------------------------------------
(* Server queues: what the operations do to the slots *)

\* A queue entry that is not Empty.
EntryType ==
    [kind : UndeliveredKinds \cup WaitingKinds,
     pid : PIDs, tid : TIDs \cup {IRQ_TID}, idx : Gens, body : Bodies]

\* An entry is Empty or has the fields of a message.
LEMMA EntryFields ==
    ASSUME NEW e \in QueuedMessage
    PROVE  /\ e = Empty \/ e \in EntryType
           /\ Undelivered(e) \/ is_in_server(e) => e \in EntryType /\ e # Empty
           /\ e \in EntryType => e # Empty
BY DEF QueuedMessage, EntryType, Undelivered, is_in_server, Empty, UndeliveredKinds,
       WaitingKinds, LendKinds, LendTerminatedKinds

\* Slots and generations wrap within their range.
LEMMA StepTypes ==
    /\ \A i \in Slots : NextSlot(i) \in Slots
    /\ \A g \in Gens : NextGen(g) \in Gens
    /\ 0 \in Slots /\ 0 \in Gens
BY KernelAssumption DEF Slots, Gens, NextSlot, NextGen

\* A scan of a set of slots that is not empty stops at one of them.
LEMMA FirstFromIn ==
    ASSUME NEW from \in Slots, NEW S, S \subseteq Slots, S # {}
    PROVE  FirstFrom(from, S) \in S
<1> DEFINE D == {Distance(from, i) : i \in S}
<1>1. \A i \in S : Distance(from, i) \in Nat
  BY KernelAssumption DEF Slots, Distance
<1>2. D \subseteq Nat /\ D # {}
  BY <1>1
<1>3. PICK x \in D : \A y \in D : x <= y
  BY <1>2, LeastNat
<1>4. PICK i \in S : x = Distance(from, i)
  BY <1>3
<1>5. \A j \in S : Distance(from, i) <= Distance(from, j)
  BY <1>3, <1>4
<1> QED
  BY <1>5 DEF FirstFrom

\* Server s1 is sv, but for what slot i holds.
SlotSet(sv, s1, i, e) ==
    /\ s1 \in ServerType
    /\ s1.pid = sv.pid
    /\ s1.ready_threads = sv.ready_threads
    /\ i \in Slots
    /\ s1.queue[i] = e
    /\ \A j \in Slots : j # i => s1.queue[j] = sv.queue[j]

\* The entry of a message from thread tid of pid.
FromThread(e, pid, tid) == e \in EntryType /\ e.pid = pid /\ e.tid = tid

\* queue_message fills an empty slot.
LEMMA QueueMessageSlot ==
    ASSUME NEW s \in ServerType, NEW pid \in PIDs, NEW tid \in TIDs \cup {IRQ_TID}, NEW m \in Messages,
           CanQueueMessage(s), NEW s2, s2 = queue_message(s, pid, tid, m)
    PROVE  \E i \in Slots, e \in EntryType :
              /\ s.queue[i] = Empty /\ SlotSet(s, s2, i, e)
              /\ FromThread(e, pid, tid) /\ e.kind = QueuedKind(m.type)
<1> DEFINE i == FirstFrom(s.queue_head, EmptySlots(s))
           e == [kind |-> QueuedKind(m.type), pid |-> pid, tid |-> tid,
                 idx |-> s.tail_generation, body |-> m.body]
           q == [s.queue EXCEPT ![i] = e]
<1>1. i \in Slots /\ s.queue[i] = Empty
  BY FirstFromIn DEF CanQueueMessage, EmptySlots, ServerType
<1>2. m.type \in MessageTypes /\ m.body \in Bodies
  BY KernelAssumption DEF Messages
<1>3. e \in EntryType /\ FromThread(e, pid, tid) /\ e.kind = QueuedKind(m.type)
  BY <1>2 DEF MessageTypes, QueuedKind, EntryType, UndeliveredKinds, FromThread,
              LendKinds, LendTerminatedKinds, WaitingKinds, ServerType
<1>4. s2 = [s EXCEPT !.queue = q,
                     !.tail_generation = NextGen(s.tail_generation),
                     !.queue_head = AdvanceHead(s, i)]
  BY DEF queue_message, ServerType
<1> HIDE DEF i, e
<1>5. AdvanceHead(s, i) \in Slots /\ NextGen(s.tail_generation) \in Gens
  BY StepTypes DEF AdvanceHead, ServerType
<1>6. q \in [Slots -> QueuedMessage] /\ q[i] = e /\ \A j \in Slots : j # i => q[j] = s.queue[j]
  BY <1>1, <1>3 DEF ServerType, QueuedMessage, EntryType
<1> HIDE DEF q
<1>7. /\ s2 \in ServerType /\ s2.queue = q /\ s2.pid = s.pid /\ s2.ready_threads = s.ready_threads
  BY <1>4, <1>5, <1>6 DEF ServerType
<1> QED
  BY <1>1, <1>3, <1>6, <1>7 DEF SlotSet

\* queue_response fills an empty slot.
LEMMA QueueResponseSlot ==
    ASSUME NEW s \in ServerType, NEW pid \in PIDs, NEW tid \in TIDs \cup {IRQ_TID}, NEW m \in Messages,
           CanQueueResponse(s), NEW s2, s2 = queue_response(s, pid, tid, m)
    PROVE  \E i \in Slots, e \in EntryType :
              /\ s.queue[i] = Empty /\ SlotSet(s, s2, i, e)
              /\ FromThread(e, pid, tid) /\ e.kind = WaitingKind(m.type)
<1> DEFINE i == ResponseSlot(s)
           e == [kind |-> WaitingKind(m.type), pid |-> pid, tid |-> tid, idx |-> 0, body |-> m.body]
           q == [s.queue EXCEPT ![i] = e]
<1>1. i \in Slots /\ s.queue[i] = Empty
  BY FirstFromIn DEF CanQueueResponse, EmptySlots, ServerType, ResponseSlot
<1>2. m.type \in MessageTypes /\ m.body \in Bodies
  BY KernelAssumption DEF Messages
<1>3. e \in EntryType /\ FromThread(e, pid, tid) /\ e.kind = WaitingKind(m.type)
  BY <1>2, StepTypes DEF MessageTypes, WaitingKind, EntryType, FromThread, WaitingKinds
<1>4. s2 = [s EXCEPT !.queue = q, !.queue_head = AdvanceHead(s, i)]
  BY DEF queue_response, ServerType
<1> HIDE DEF i, e
<1>5. AdvanceHead(s, i) \in Slots
  BY StepTypes DEF AdvanceHead, ServerType
<1>6. q \in [Slots -> QueuedMessage] /\ q[i] = e /\ \A j \in Slots : j # i => q[j] = s.queue[j]
  BY <1>1, <1>3 DEF ServerType, QueuedMessage, EntryType
<1> HIDE DEF q
<1>7. /\ s2 \in ServerType /\ s2.queue = q /\ s2.pid = s.pid /\ s2.ready_threads = s.ready_threads
  BY <1>4, <1>5, <1>6 DEF ServerType
<1> QED
  BY <1>1, <1>3, <1>6, <1>7 DEF SlotSet

\* take_next_message changes the slot it delivers.
LEMMA TakeNextSlot ==
    ASSUME NEW s \in ServerType, CanTakeNext(s), NEW s2, s2 = take_next_message(s)
    PROVE  \E i \in Slots : /\ s.queue[i] \in EntryType /\ Undelivered(s.queue[i])
                            /\ SlotSet(s, s2, i, DeliveredEntry(s.queue[i]))
<1> DEFINE i == NextMessageSlot(s)
           x == s.queue[i]
           e == DeliveredEntry(x)
           q == [s.queue EXCEPT ![i] = e]
           t == IF i = s.queue_tail THEN NextSlot(s.queue_tail) ELSE s.queue_tail
<1>1. i \in Slots /\ Undelivered(s.queue[i])
  BY FirstFromIn DEF CanTakeNext, Deliverable, NextMessageSlot, ServerType
<1>2. s2 = [s EXCEPT !.queue = q, !.queue_tail = t,
                     !.head_generation = NextGen(s.head_generation)]
  BY DEF take_next_message, ServerType
<1> HIDE DEF i
<1>3. x \in EntryType
  BY <1>1, EntryFields DEF ServerType
<1>4. e \in QueuedMessage
  <2> HIDE DEF x
  <2> QED
    BY <1>3 DEF DeliveredEntry, QueuedMessage, EntryType, UndeliveredKinds, WaitingKinds,
                LendKinds, LendTerminatedKinds, Empty
<1>5. t \in Slots /\ NextGen(s.head_generation) \in Gens
  BY StepTypes DEF ServerType
<1> HIDE DEF t, e
<1>6. q \in [Slots -> QueuedMessage] /\ q[i] = e /\ \A j \in Slots : j # i => q[j] = s.queue[j]
  BY <1>1, <1>4 DEF ServerType
<1> HIDE DEF q
<1>7. /\ s2 \in ServerType /\ s2.queue = q /\ s2.pid = s.pid /\ s2.ready_threads = s.ready_threads
  BY <1>2, <1>5, <1>6 DEF ServerType
<1>8. e = DeliveredEntry(s.queue[i])
  BY DEF e
<1> QED
  BY <1>1, <1>3, <1>6, <1>7, <1>8 DEF SlotSet

\* take_waiting_message empties the slot of the message.
LEMMA TakeWaitingSlot ==
    ASSUME NEW s \in ServerType, NEW i \in Slots, is_in_server(s.queue[i]),
           NEW s2, s2 = take_waiting_message(s, i)
    PROVE  s.queue[i] \in EntryType /\ SlotSet(s, s2, i, Empty)
<1> DEFINE q == [s.queue EXCEPT ![i] = Empty]
           t == TailAfterTaking(s, i, q)
<1>1. q \in [Slots -> QueuedMessage] /\ q[i] = Empty /\ \A j \in Slots : j # i => q[j] = s.queue[j]
  BY DEF ServerType, QueuedMessage
<1>2. t \in Slots
  <2> DEFINE S == {s.queue_head} \cup {j \in Slots : q[j] # Empty}
  <2>1. S \subseteq Slots /\ S # {}
    BY DEF ServerType
  <2> HIDE DEF S
  <2>2. FirstFrom(NextSlot(i), S) \in Slots
    BY <2>1, FirstFromIn, StepTypes
  <2> QED
    BY <2>2 DEF TailAfterTaking, ServerType, S
<1> HIDE DEF t
<1>3. s2 = [s EXCEPT !.queue = q, !.queue_tail = t]
  BY DEF take_waiting_message, t
<1> HIDE DEF q
<1>4. s2 \in ServerType /\ s2.queue = q /\ s2.pid = s.pid /\ s2.ready_threads = s.ready_threads
  BY <1>1, <1>2, <1>3 DEF ServerType
<1>5. s.queue[i] \in EntryType
  BY EntryFields DEF ServerType
<1> QED
  BY <1>1, <1>4, <1>5 DEF SlotSet

\* Parking and waking threads.
LEMMA ParkEffect ==
    ASSUME NEW s \in ServerType, NEW tid \in TIDs
    PROVE  /\ park_thread(s, tid) \in ServerType
           /\ park_thread(s, tid).pid = s.pid
           /\ park_thread(s, tid).queue = s.queue
           /\ park_thread(s, tid).ready_threads = s.ready_threads \cup {tid}
BY DEF park_thread, ServerType

\* take_available_thread removes a parked thread.
LEMMA AvailableEffect ==
    ASSUME NEW s \in ServerType, s.ready_threads # {}
    PROVE  /\ AvailableThread(s) \in s.ready_threads
           /\ take_available_thread(s) \in ServerType
           /\ take_available_thread(s).pid = s.pid
           /\ take_available_thread(s).queue = s.queue
           /\ take_available_thread(s).ready_threads = s.ready_threads \ {AvailableThread(s)}
<1>1. s.ready_threads \subseteq Nat
  <2>1. s.ready_threads \subseteq TIDs \cup {IRQ_TID}
    BY DEF ServerType
  <2>2. TIDs \cup {IRQ_TID} \subseteq Nat
    BY ProcessesAssumption DEF IRQ_TID
  <2> QED
    BY <2>1, <2>2
<1>2. AvailableThread(s) \in s.ready_threads
  BY <1>1, LeastNat DEF AvailableThread
<1>3. PICK a : a = AvailableThread(s)
  OBVIOUS
<1>4. take_available_thread(s) = [s EXCEPT !.ready_threads = s.ready_threads \ {a}]
  BY <1>3 DEF take_available_thread, ServerType
<1>5. /\ take_available_thread(s) \in ServerType
      /\ take_available_thread(s).pid = s.pid
      /\ take_available_thread(s).queue = s.queue
      /\ take_available_thread(s).ready_threads = s.ready_threads \ {a}
  BY <1>4 DEF ServerType
<1> QED
  BY <1>2, <1>3, <1>5

\* A new server has no messages and no parked threads.
LEMMA InitEffect ==
    ASSUME NEW p \in PIDs, NEW s \in ServerIdx
    PROVE  /\ init(p, s) \in ServerType /\ init(p, s).pid = p /\ init(p, s).ready_threads = {}
           /\ \A i \in Slots : init(p, s).queue[i] = Empty
BY StepTypes DEF init, ServerType, QueuedMessage

\* discard_messages_for_pid changes entries in place.
LEMMA DiscardEffect ==
    ASSUME NEW s \in ServerType, NEW pid \in PIDs, NEW s2, s2 = discard_messages_for_pid(s, pid)
    PROVE  /\ s2 \in ServerType /\ s2.pid = s.pid /\ s2.ready_threads = s.ready_threads
           /\ \A i \in Slots : s2.queue[i] = DiscardedEntry(s.queue[i], pid)
<1> DEFINE e(x) == DiscardedEntry(x, pid)
           q == [i \in Slots |-> e(s.queue[i])]
<1>1. ASSUME NEW x \in QueuedMessage
      PROVE  e(x) \in QueuedMessage
  <2>1. CASE x = Empty
    BY <2>1 DEF DiscardedEntry, QueuedMessage
  <2>2. CASE x # Empty
    <3>1. x \in EntryType
      BY <2>2, EntryFields
    <3> QED
      BY <3>1 DEF DiscardedEntry, TerminatedKind, EntryType, QueuedMessage, UndeliveredKinds,
                  WaitingKinds, LendKinds, LendTerminatedKinds
  <2> QED
    BY <2>1, <2>2
<1>2. s2 = [s EXCEPT !.queue = q]
  BY DEF discard_messages_for_pid, ServerType
<1> HIDE DEF e
<1>3. q \in [Slots -> QueuedMessage] /\ \A i \in Slots : q[i] = e(s.queue[i])
  BY <1>1 DEF ServerType
<1> HIDE DEF q
<1>4. s2 \in ServerType /\ s2.queue = q /\ s2.pid = s.pid /\ s2.ready_threads = s.ready_threads
  BY <1>2, <1>3 DEF ServerType
<1> QED
  BY <1>3, <1>4 DEF e

-----------------------------------------------------------------------------
(* The scheduler's part of the invariant *)

\* The calls a thread can be blocked in are different from each other.
LEMMA WaitKinds ==
    /\ NoWait \in Waits
    /\ \A s \in ServerIdx : WaitFor("reply", s) \in Waits /\ WaitFor("message", s) \in Waits
    /\ \A t \in TIDs : WaitFor("join", t) \in Waits
    /\ WaitFor("event", 0) \in Waits
    /\ \A what \in {"reply", "message", "join", "event"} : \A arg : WaitFor(what, arg) # NoWait
    /\ \A w1, w2, a1, a2 : WaitFor(w1, a1) = WaitFor(w2, a2) => w1 = w2 /\ a1 = a2
BY DEF NoWait, WaitFor, Waits

\* The part of the invariant about the scheduler.
Sched == TableOK(k) /\ RunningOK /\ ParentOK /\ WaitsOK

\* A thread that executes outside of interrupts is neither ready nor blocked, and kmain is ready
\* while a process has the CPU.
LEMMA UserFacts ==
    ASSUME TypeOK, Sched, InUser
    PROVE  /\ Pid \in PIDs /\ Pid # KernelPid /\ Tid \in TIDs
           /\ Tid \in k.proc[Pid].threads /\ Tid \notin k.proc[Pid].ready
           /\ waits[Pid][Tid] = NoWait
           /\ k.proc[KernelPid].ready = {INITIAL_TID}
           /\ SWITCHTO_CALLER = <<KernelPid, INITIAL_TID>>
           /\ PREVIOUS_PAIR = Nobody /\ ~in_irq
           /\ ORIGINAL[1] \in PIDs /\ ORIGINAL[1] # KernelPid
<1>1. /\ Pid \in PIDs /\ Pid # KernelPid /\ ~in_irq /\ PREVIOUS_PAIR = Nobody
      /\ Tid \in k.proc[Pid].threads /\ k.proc[Pid].threads \subseteq TIDs
  BY TableFacts DEF Sched, InUser, RunningOK, in_irq, Pid
<1>2. ThreadRuns(Pid, Tid)
  BY <1>1 DEF ThreadRuns
<1>3. Tid \notin k.proc[Pid].ready /\ waits[Pid][Tid] = NoWait
  BY <1>1, <1>2 DEF Sched, WaitsOK
<1>4. INITIAL_TID \in k.proc[KernelPid].ready
  <2>1. ~ThreadRuns(KernelPid, INITIAL_TID)
    BY <1>1 DEF ThreadRuns
  <2>2. waits[KernelPid][INITIAL_TID] = NoWait /\ INITIAL_TID \in k.proc[KernelPid].threads
    BY SmallNumbers, TableFacts DEF Sched, ParentOK
  <2> QED
    BY <2>1, <2>2, SmallNumbers DEF Sched, WaitsOK
<1>5. k.proc[KernelPid].ready = {INITIAL_TID}
  BY <1>4, TableFacts, SmallNumbers DEF Sched
<1>6. SWITCHTO_CALLER = <<KernelPid, INITIAL_TID>>
  BY <1>1 DEF Sched, ParentOK
<1>7. ORIGINAL[1] \in PIDs /\ ORIGINAL[1] # KernelPid
  BY DEF Sched, ParentOK, TypeOK, Pairs
<1> QED
  BY <1>1, <1>3, <1>5, <1>6, <1>7

\* Who waits for something is neither ready nor running, and not kmain.
LEMMA WaitingFacts ==
    ASSUME Sched, NEW p \in PIDs, NEW t \in TIDs, waits[p][t] # NoWait
    PROVE  /\ t \in k.proc[p].threads \ k.proc[p].ready /\ ~ThreadRuns(p, t)
           /\ p # KernelPid /\ Alive(k, p)
<1>1. t \in k.proc[p].threads \ k.proc[p].ready /\ ~ThreadRuns(p, t)
  BY DEF Sched, WaitsOK
<1>2. p # KernelPid
  BY DEF Sched, ParentOK
<1>3. Alive(k, p)
  BY <1>1, TableFacts DEF Sched, Alive, ProcessOK
<1> QED
  BY <1>1, <1>2, <1>3

\* A thread that waits is woken.
LEMMA SchedWake ==
    ASSUME TypeOK, Sched, NEW p \in PIDs, NEW t \in TIDs, waits[p][t] # NoWait,
           k' = ready_thread(k, p, t),
           waits' = set_thread_result(waits, p, t),
           UNCHANGED <<SWITCHTO_CALLER, ORIGINAL, PREVIOUS_PAIR>>
    PROVE  /\ Sched' /\ waits' \in [PIDs -> [TIDs -> Waits]]
           /\ \A q \in PIDs : Alive(k, q)' <=> Alive(k, q)
<1>1. TableOK(k) /\ t \in k.proc[p].threads \ k.proc[p].ready /\ ~ThreadRuns(p, t) /\ p # KernelPid
  BY WaitingFacts DEF Sched
<1>2. Moves(k, k', k.pid, k.proc[k.pid].tid, {<<p, t>>}, {})
  BY <1>1, ReadyThreadMoves
<1>3. /\ TableOK(k') /\ Pid' = Pid /\ Tid' = Tid /\ (in_irq' <=> in_irq)
      /\ \A q \in PIDs, u \in TIDs : ThreadRuns(q, u)' <=> ThreadRuns(q, u)
  BY <1>2 DEF Moves, Pid, Tid, in_irq, ThreadRuns
<1>4. /\ waits' \in [PIDs -> [TIDs -> Waits]]
      /\ waits'[p][t] = NoWait
      /\ \A q \in PIDs, u \in TIDs : <<q, u>> # <<p, t>> => waits'[q][u] = waits[q][u]
  BY WaitKinds DEF set_thread_result, TypeOK
<1>5. \A q \in PIDs : /\ k'.proc[q].threads = k.proc[q].threads
                      /\ \A u \in TIDs : u \in k'.proc[q].ready <=> u \in k.proc[q].ready \/ <<q, u>> = <<p, t>>
                      /\ Alive(k, q)' <=> Alive(k, q)
  BY <1>2 DEF Moves, Alive
<1>6. WaitsOK'
  <2>1. SUFFICES ASSUME NEW q \in PIDs, NEW u \in TIDs
                 PROVE  IF u \in k'.proc[q].threads
                        THEN IF u \in k'.proc[q].ready
                             THEN ~ThreadRuns(q, u)' /\ waits'[q][u] = NoWait
                             ELSE ThreadRuns(q, u)' <=> waits'[q][u] = NoWait
                        ELSE waits'[q][u] = NoWait
    BY DEF WaitsOK
  <2> QED
    BY <1>1, <1>3, <1>4, <1>5 DEF Sched, WaitsOK
<1>7. RunningOK'
  <2>1. CASE in_irq
    <3>1. PREVIOUS_PAIR[1] \in PIDs /\ PREVIOUS_PAIR[2] \in TIDs
      BY <2>1, TableFacts DEF Sched, RunningOK, TypeOK, Pairs, in_irq
    <3> QED
      BY <1>3, <1>5, <2>1, <3>1 DEF Sched, RunningOK
  <2>2. CASE ~in_irq
    BY <1>3, <1>5, <2>2, TableFacts DEF Sched, RunningOK, Pid
  <2> QED
    BY <2>1, <2>2
<1>8. ParentOK'
  BY <1>1, <1>3, <1>4, SmallNumbers DEF Sched, ParentOK
<1> QED
  BY <1>3, <1>4, <1>5, <1>6, <1>7, <1>8 DEF Sched

\* The CPU goes back to kmain, from any call that blocks or yields.
LEMMA ReturnMoves ==
    ASSUME TypeOK, Sched, InUser, NEW t \in {AnyThread, INITIAL_TID}
    PROVE  /\ Moves(k, activate_process_thread(k, Tid, KernelPid, t, FALSE), KernelPid, INITIAL_TID,
                    {}, {<<KernelPid, INITIAL_TID>>})
           /\ Moves(k, ReturnToKernel(k, KernelPid, t, FALSE), KernelPid, INITIAL_TID,
                    {}, {<<KernelPid, INITIAL_TID>>})
           /\ Moves(k, ReturnToKernel(k, KernelPid, t, TRUE), KernelPid, INITIAL_TID,
                    {<<Pid, Tid>>}, {<<KernelPid, INITIAL_TID>>})
<1> DEFINE off == {<<KernelPid, INITIAL_TID>>}
<1>1. /\ TableOK(k) /\ KernelPid \in PIDs /\ KernelPid # k.pid /\ Tid = k.proc[k.pid].tid
      /\ Tid \in k.proc[k.pid].threads /\ k.proc[KernelPid].ready = {INITIAL_TID}
      /\ ORIGINAL[1] \in PIDs /\ ORIGINAL[1] # KernelPid
  BY UserFacts, SmallNumbers DEF Sched, Pid, Tid
<1>2. ASSUME NEW a, NEW on, Moves(k, a, KernelPid, INITIAL_TID, on, off)
      PROVE  Moves(k, set_last_thread(a, ORIGINAL[1], ORIGINAL[2]), KernelPid, INITIAL_TID, on, off)
  <2> HIDE DEF off
  <2>1. TableOK(a) /\ a.pid = KernelPid /\ a.proc[KernelPid].tid = INITIAL_TID
    BY <1>2 DEF Moves
  <2>2. PICK r : r = set_last_thread(a, ORIGINAL[1], ORIGINAL[2])
    OBVIOUS
  <2>3. Moves(a, r, KernelPid, INITIAL_TID, {}, {})
    BY <1>1, <2>1, <2>2, SetLastMoves
  <2>4. Moves(k, r, KernelPid, INITIAL_TID, on, off)
    BY <1>2, <2>3 DEF Moves
  <2> QED
    BY <2>2, <2>4
<1>3. CanChoose(k, KernelPid, t)
  BY <1>1 DEF CanChoose
<1>4. Moves(k, activate_process_thread(k, Tid, KernelPid, t, FALSE), KernelPid, INITIAL_TID, {}, off)
  <2>1. GoesTo(k, activate_process_thread(k, Tid, KernelPid, t, FALSE), KernelPid, t, {})
    BY <1>1, <1>3, ActivateBlocked
  <2> QED
    BY <1>1, <2>1 DEF GoesTo
<1>5. Moves(k, activate_process_thread(k, Tid, KernelPid, t, TRUE), KernelPid, INITIAL_TID, {<<Pid, Tid>>}, off)
  <2>1. GoesTo(k, activate_process_thread(k, Tid, KernelPid, t, TRUE), KernelPid, t, {<<k.pid, Tid>>})
    BY <1>1, <1>3, ActivateResumable
  <2> QED
    BY <1>1, <2>1 DEF Pid, GoesTo
<1> HIDE DEF off
<1>6. Moves(k, ReturnToKernel(k, KernelPid, t, FALSE), KernelPid, INITIAL_TID, {}, off)
  BY <1>2, <1>4 DEF ReturnToKernel
<1>7. Moves(k, ReturnToKernel(k, KernelPid, t, TRUE), KernelPid, INITIAL_TID, {<<Pid, Tid>>}, off)
  BY <1>2, <1>5 DEF ReturnToKernel
<1> QED
  BY <1>4, <1>6, <1>7 DEF off

\* The running thread blocks, and kmain runs.
LEMMA SchedBlock ==
    ASSUME TypeOK, Sched, InUser, NEW w \in Waits, w # NoWait,
           Moves(k, k', KernelPid, INITIAL_TID, {}, {<<KernelPid, INITIAL_TID>>}),
           waits' = Blocks(waits, Pid, Tid, w),
           SWITCHTO_CALLER' = Nobody,
           UNCHANGED <<ORIGINAL, PREVIOUS_PAIR>>
    PROVE  /\ Sched' /\ waits' \in [PIDs -> [TIDs -> Waits]]
           /\ waits'[Pid][Tid] = w
           /\ \A q \in PIDs, u \in TIDs : <<q, u>> # <<Pid, Tid>> => waits'[q][u] = waits[q][u]
           /\ \A q \in PIDs : Alive(k, q)' <=> Alive(k, q)
<1>1. /\ Pid \in PIDs /\ Pid # KernelPid /\ Tid \in TIDs
      /\ Tid \in k.proc[Pid].threads /\ Tid \notin k.proc[Pid].ready
      /\ PREVIOUS_PAIR = Nobody /\ ~in_irq
  BY UserFacts
<1>2. /\ waits' \in [PIDs -> [TIDs -> Waits]]
      /\ waits'[Pid][Tid] = w
      /\ \A q \in PIDs, u \in TIDs : <<q, u>> # <<Pid, Tid>> => waits'[q][u] = waits[q][u]
  <2> HIDE DEF Pid, Tid
  <2> QED
    BY <1>1 DEF Blocks, TypeOK
<1>3. /\ TableOK(k') /\ Pid' = KernelPid /\ Tid' = INITIAL_TID /\ ~in_irq'
      /\ \A q \in PIDs, u \in TIDs : ThreadRuns(q, u)' <=> <<q, u>> = <<KernelPid, INITIAL_TID>>
      /\ \A q \in PIDs, u \in TIDs : ThreadRuns(q, u) <=> <<q, u>> = <<Pid, Tid>>
  BY <1>1 DEF Moves, Pid, Tid, in_irq, ThreadRuns
<1>4. \A q \in PIDs : /\ k'.proc[q].threads = k.proc[q].threads
                      /\ \A u \in TIDs : u \in k'.proc[q].ready <=>
                            u \in k.proc[q].ready /\ <<q, u>> # <<KernelPid, INITIAL_TID>>
                      /\ Alive(k, q)' <=> Alive(k, q)
  BY DEF Moves, Alive
<1>5. WaitsOK'
  <2>1. SUFFICES ASSUME NEW q \in PIDs, NEW u \in TIDs
                 PROVE  IF u \in k'.proc[q].threads
                        THEN IF u \in k'.proc[q].ready
                             THEN ~ThreadRuns(q, u)' /\ waits'[q][u] = NoWait
                             ELSE ThreadRuns(q, u)' <=> waits'[q][u] = NoWait
                        ELSE waits'[q][u] = NoWait
    BY DEF WaitsOK
  <2>2. CASE <<q, u>> = <<KernelPid, INITIAL_TID>>
    <3>1. waits[q][u] = NoWait /\ u \in k'.proc[q].threads /\ <<q, u>> # <<Pid, Tid>>
      BY <1>1, <1>3, <2>2, SmallNumbers, TableFacts DEF Sched, ParentOK
    <3> QED
      BY <1>2, <1>3, <1>4, <2>2, <3>1
  <2>3. CASE <<q, u>> = <<Pid, Tid>>
    BY <1>1, <1>2, <1>3, <1>4, <2>3
  <2>4. CASE <<q, u>> # <<Pid, Tid>> /\ <<q, u>> # <<KernelPid, INITIAL_TID>>
    BY <1>2, <1>3, <1>4, <2>4 DEF Sched, WaitsOK
  <2> QED
    BY <2>2, <2>3, <2>4
<1>6. RunningOK'
  BY <1>3, TableFacts DEF RunningOK
<1>7. ParentOK'
  BY <1>1, <1>2, <1>3, SmallNumbers DEF Sched, ParentOK
<1> QED
  BY <1>2, <1>3, <1>4, <1>5, <1>6, <1>7 DEF Sched

\* A thread that waits is woken and gets the CPU from the running one, which blocks.
LEMMA SchedSwap ==
    ASSUME TypeOK, Sched, InUser, NEW w \in Waits, w # NoWait,
           NEW p \in PIDs, NEW t \in TIDs, waits[p][t] # NoWait,
           k' = activate_process_thread(ready_thread(k, p, t), Tid, p, t, FALSE),
           waits' = Blocks(set_thread_result(waits, p, t), Pid, Tid, w),
           UNCHANGED <<SWITCHTO_CALLER, ORIGINAL, PREVIOUS_PAIR>>
    PROVE  /\ Sched' /\ waits' \in [PIDs -> [TIDs -> Waits]]
           /\ waits'[Pid][Tid] = w /\ waits'[p][t] = NoWait
           /\ \A q \in PIDs, u \in TIDs :
                 <<q, u>> # <<Pid, Tid>> /\ <<q, u>> # <<p, t>> => waits'[q][u] = waits[q][u]
           /\ \A q \in PIDs : Alive(k, q)' <=> Alive(k, q)
<1>1. /\ Pid \in PIDs /\ Pid # KernelPid /\ Tid \in TIDs
      /\ Tid \in k.proc[Pid].threads /\ Tid \notin k.proc[Pid].ready
      /\ PREVIOUS_PAIR = Nobody /\ ~in_irq /\ SWITCHTO_CALLER = <<KernelPid, INITIAL_TID>>
  BY UserFacts
<1>2. TableOK(k) /\ t \in k.proc[p].threads \ k.proc[p].ready /\ ~ThreadRuns(p, t) /\ p # KernelPid
  BY WaitingFacts DEF Sched
<1>3. <<p, t>> # <<Pid, Tid>>
  BY <1>1, <1>2 DEF ThreadRuns
<1>4. PICK r : r = ready_thread(k, p, t)
  OBVIOUS
<1>5. Moves(k, r, k.pid, k.proc[k.pid].tid, {<<p, t>>}, {})
  BY <1>2, <1>4, ReadyThreadMoves
<1>6. /\ TableOK(r) /\ r.pid = Pid /\ r.proc[Pid].tid = Tid /\ Tid \in r.proc[Pid].threads
      /\ Tid \notin r.proc[Pid].ready /\ t \in r.proc[p].ready
  BY <1>1, <1>2, <1>3, <1>5 DEF Moves, Pid, Tid
<1>7. Moves(r, k', p, t, {}, {<<p, t>>})
  <2>1. CASE p = Pid
    BY <1>1, <1>4, <1>6, <2>1, ActivateWithin
  <2>2. CASE p # Pid
    <3>1. /\ p # r.pid /\ Tid = r.proc[r.pid].tid /\ Tid \in r.proc[r.pid].threads
          /\ k' = activate_process_thread(r, Tid, p, t, FALSE)
      BY <1>4, <1>6, <2>2
    <3>2. GoesTo(r, activate_process_thread(r, Tid, p, t, FALSE), p, t, {})
      BY <1>6, <3>1, ActivateBlocked DEF CanChoose
    <3> QED
      BY <1>6, <3>1, <3>2 DEF GoesTo
  <2> QED
    BY <2>1, <2>2
<1>8. /\ waits' \in [PIDs -> [TIDs -> Waits]]
      /\ waits'[Pid][Tid] = w /\ waits'[p][t] = NoWait
      /\ \A q \in PIDs, u \in TIDs :
            <<q, u>> # <<Pid, Tid>> /\ <<q, u>> # <<p, t>> => waits'[q][u] = waits[q][u]
  <2> HIDE DEF Pid, Tid
  <2>1. PICK w1 : w1 = set_thread_result(waits, p, t)
    OBVIOUS
  <2>2. /\ w1 \in [PIDs -> [TIDs -> Waits]] /\ w1[p][t] = NoWait
        /\ \A q \in PIDs, u \in TIDs : <<q, u>> # <<p, t>> => w1[q][u] = waits[q][u]
    BY <2>1, WaitKinds DEF set_thread_result, TypeOK
  <2>3. /\ waits' \in [PIDs -> [TIDs -> Waits]] /\ waits'[Pid][Tid] = w
        /\ \A q \in PIDs, u \in TIDs : <<q, u>> # <<Pid, Tid>> => waits'[q][u] = w1[q][u]
    BY <1>1, <2>1, <2>2 DEF Blocks
  <2> QED
    BY <1>3, <2>2, <2>3
<1>9. /\ TableOK(k') /\ Pid' = p /\ Tid' = t /\ ~in_irq'
      /\ \A q \in PIDs, u \in TIDs : ThreadRuns(q, u)' <=> q = p /\ u = t
      /\ \A q \in PIDs, u \in TIDs : ThreadRuns(q, u) <=> q = Pid /\ u = Tid
  <2>1. TableOK(k') /\ Pid' = p /\ Tid' = t /\ ~in_irq'
    BY <1>1, <1>7 DEF Moves, Pid, Tid, in_irq
  <2> QED
    BY <1>1, <2>1 DEF ThreadRuns
<1>10. \A q \in PIDs : /\ k'.proc[q].threads = k.proc[q].threads
                       /\ \A u \in TIDs : u \in k'.proc[q].ready <=> u \in k.proc[q].ready
                       /\ Alive(k, q)' <=> Alive(k, q)
  <2>1. SUFFICES ASSUME NEW q \in PIDs
                 PROVE /\ k'.proc[q].threads = k.proc[q].threads
                       /\ \A u \in TIDs : u \in k'.proc[q].ready <=> u \in k.proc[q].ready
                       /\ Alive(k, q)' <=> Alive(k, q)
    OBVIOUS
  <2>2. k'.proc[q].threads = k.proc[q].threads /\ (Alive(k, q)' <=> Alive(k, q))
    BY <1>5, <1>7 DEF Moves, Alive
  <2>3. ASSUME NEW u \in TIDs PROVE u \in k'.proc[q].ready <=> u \in k.proc[q].ready
    BY <1>2, <1>5, <1>7 DEF Moves
  <2> QED
    BY <2>2, <2>3
<1>11. WaitsOK'
  <2>1. SUFFICES ASSUME NEW q \in PIDs, NEW u \in TIDs
                 PROVE  IF u \in k'.proc[q].threads
                        THEN IF u \in k'.proc[q].ready
                             THEN ~ThreadRuns(q, u)' /\ waits'[q][u] = NoWait
                             ELSE ThreadRuns(q, u)' <=> waits'[q][u] = NoWait
                        ELSE waits'[q][u] = NoWait
    BY DEF WaitsOK
  <2>2. CASE <<q, u>> = <<p, t>>
    <3>1. q = p /\ u = t
      BY <2>2
    <3> QED
      BY <1>2, <1>3, <1>8, <1>9, <1>10, <3>1
  <2>3. CASE <<q, u>> = <<Pid, Tid>>
    <3>1. q = Pid /\ u = Tid /\ ~(q = p /\ u = t)
      BY <1>3, <2>3
    <3> QED
      BY <1>1, <1>3, <1>8, <1>9, <1>10, <3>1
  <2>4. CASE <<q, u>> # <<Pid, Tid>> /\ <<q, u>> # <<p, t>>
    <3>1. waits'[q][u] = waits[q][u] /\ ~(q = p /\ u = t) /\ ~(q = Pid /\ u = Tid)
      BY <1>8, <2>4
    <3> QED
      BY <1>9, <1>10, <3>1 DEF Sched, WaitsOK
  <2> QED
    BY <2>2, <2>3, <2>4
<1>12. RunningOK'
  BY <1>2, <1>9, <1>10 DEF RunningOK
<1>13. ParentOK'
  BY <1>1, <1>2, <1>8, <1>9, SmallNumbers DEF Sched, ParentOK
<1> QED
  BY <1>8, <1>9, <1>10, <1>11, <1>12, <1>13 DEF Sched

\* A thread that waits is woken and gets the CPU from the running one, which stays ready.
LEMMA SchedHand ==
    ASSUME TypeOK, Sched, InUser, NEW p \in PIDs, NEW t \in TIDs, waits[p][t] # NoWait,
           k' = switch_to_thread(ready_thread(unschedule_thread(ready_thread(k, p, t), Pid, Tid), Pid, Tid), p, t),
           waits' = set_thread_result(waits, p, t),
           UNCHANGED <<SWITCHTO_CALLER, ORIGINAL, PREVIOUS_PAIR>>
    PROVE  /\ Sched' /\ waits' \in [PIDs -> [TIDs -> Waits]]
           /\ \A q \in PIDs : Alive(k, q)' <=> Alive(k, q)
<1>1. /\ Pid \in PIDs /\ Pid # KernelPid /\ Tid \in TIDs
      /\ Tid \in k.proc[Pid].threads /\ Tid \notin k.proc[Pid].ready
      /\ PREVIOUS_PAIR = Nobody /\ ~in_irq /\ SWITCHTO_CALLER = <<KernelPid, INITIAL_TID>>
      /\ waits[Pid][Tid] = NoWait
  BY UserFacts
<1>2. TableOK(k) /\ t \in k.proc[p].threads \ k.proc[p].ready /\ ~ThreadRuns(p, t) /\ p # KernelPid
  BY WaitingFacts DEF Sched
<1>3. ~(p = Pid /\ t = Tid)
  BY <1>1, <1>2 DEF ThreadRuns
<1>4. PICK r : r = ready_thread(k, p, t)
  OBVIOUS
<1>5. Moves(k, r, k.pid, k.proc[k.pid].tid, {<<p, t>>}, {})
  BY <1>2, <1>4, ReadyThreadMoves
<1>6. /\ TableOK(r) /\ r.pid = Pid /\ r.proc[Pid].tid = Tid /\ Tid \in r.proc[Pid].threads
      /\ Tid \notin r.proc[Pid].ready /\ t \in r.proc[p].ready
  BY <1>1, <1>2, <1>3, <1>5 DEF Moves, Pid, Tid
<1>7. Moves(r, k', p, t, {<<Pid, Tid>>}, {<<p, t>>})
  <2>1. Moves(r, switch_to_thread(ready_thread(unschedule_thread(r, Pid, Tid), Pid, Tid), p, t),
              p, t, {<<Pid, Tid>>}, {<<p, t>>})
    BY <1>6, HandOver
  <2> QED
    BY <1>4, <2>1
<1>8. /\ waits' \in [PIDs -> [TIDs -> Waits]] /\ waits'[p][t] = NoWait
      /\ \A q \in PIDs, u \in TIDs : ~(q = p /\ u = t) => waits'[q][u] = waits[q][u]
  BY WaitKinds DEF set_thread_result, TypeOK
<1>9. /\ TableOK(k') /\ Pid' = p /\ Tid' = t /\ ~in_irq'
      /\ \A q \in PIDs, u \in TIDs : ThreadRuns(q, u)' <=> q = p /\ u = t
      /\ \A q \in PIDs, u \in TIDs : ThreadRuns(q, u) <=> q = Pid /\ u = Tid
  <2>1. TableOK(k') /\ Pid' = p /\ Tid' = t /\ ~in_irq'
    BY <1>1, <1>7 DEF Moves, Pid, Tid, in_irq
  <2> QED
    BY <1>1, <2>1 DEF ThreadRuns
<1>10. ASSUME NEW q \in PIDs
       PROVE  /\ k'.proc[q].threads = k.proc[q].threads
              /\ \A u \in TIDs : u \in k'.proc[q].ready <=> u \in k.proc[q].ready \/ (q = Pid /\ u = Tid)
              /\ Alive(k, q)' <=> Alive(k, q)
  <2>1. k'.proc[q].threads = k.proc[q].threads /\ (Alive(k, q)' <=> Alive(k, q))
    BY <1>5, <1>7 DEF Moves, Alive
  <2>2. ASSUME NEW u \in TIDs
        PROVE  u \in k'.proc[q].ready <=> u \in k.proc[q].ready \/ (q = Pid /\ u = Tid)
    <3>1. u \in r.proc[q].ready <=> u \in k.proc[q].ready \/ (q = p /\ u = t)
      BY <1>5 DEF Moves
    <3>2. u \in k'.proc[q].ready <=> ~(q = p /\ u = t) /\ (u \in r.proc[q].ready \/ (q = Pid /\ u = Tid))
      BY <1>7 DEF Moves
    <3> QED
      BY <1>2, <1>3, <3>1, <3>2
  <2> QED
    BY <2>1, <2>2
<1>11. WaitsOK'
  <2>1. SUFFICES ASSUME NEW q \in PIDs, NEW u \in TIDs
                 PROVE  IF u \in k'.proc[q].threads
                        THEN IF u \in k'.proc[q].ready
                             THEN ~ThreadRuns(q, u)' /\ waits'[q][u] = NoWait
                             ELSE ThreadRuns(q, u)' <=> waits'[q][u] = NoWait
                        ELSE waits'[q][u] = NoWait
    BY DEF WaitsOK
  <2>2. CASE q = p /\ u = t
    BY <1>2, <1>3, <1>8, <1>9, <1>10, <2>2
  <2>3. CASE q = Pid /\ u = Tid
    BY <1>1, <1>3, <1>8, <1>9, <1>10, <2>3
  <2>4. CASE ~(q = p /\ u = t) /\ ~(q = Pid /\ u = Tid)
    BY <1>8, <1>9, <1>10, <2>4 DEF Sched, WaitsOK
  <2> QED
    BY <2>2, <2>3, <2>4
<1>12. RunningOK'
  BY <1>2, <1>9, <1>10 DEF RunningOK
<1>13. ParentOK'
  BY <1>1, <1>2, <1>8, <1>9, SmallNumbers DEF Sched, ParentOK
<1> QED
  BY <1>8, <1>9, <1>10, <1>11, <1>12, <1>13 DEF Sched

\* The CPU changes hands and nobody blocks or is woken.
LEMMA WaitsMoved ==
    ASSUME WaitsOK, UNCHANGED waits,
           \A q \in PIDs : k'.proc[q].threads = k.proc[q].threads,
           \A q \in PIDs, u \in TIDs :
              /\ ~(u \in k'.proc[q].ready /\ ThreadRuns(q, u)')
              /\ u \in k'.proc[q].ready \/ ThreadRuns(q, u)' <=> u \in k.proc[q].ready \/ ThreadRuns(q, u)
    PROVE  WaitsOK'
BY DEF WaitsOK

\* SwitchTo keeps the scheduler in order.
LEMMA SwitchToSched ==
    ASSUME TypeOK, Sched, SwitchTo
    PROVE  Sched' /\ TypeOK' /\ \A q \in PIDs : Alive(k, q)' <=> Alive(k, q)
<1> DEFINE next == next_pid_to_run(k, last_pid)
           k1 == activate_process_thread(k, Tid, next, AnyThread, TRUE)
<1>1. /\ TableOK(k) /\ Pid = KernelPid /\ ~in_irq /\ PREVIOUS_PAIR = Nobody /\ SWITCHTO_CALLER = Nobody
      /\ Tid = INITIAL_TID /\ Pid = k.pid /\ Tid = k.proc[k.pid].tid /\ KernelPid \in PIDs
      /\ Tid \in k.proc[k.pid].threads /\ Tid \notin k.proc[Pid].ready
  <2>1. TableOK(k) /\ Pid = KernelPid /\ ~in_irq /\ PREVIOUS_PAIR = Nobody /\ SWITCHTO_CALLER = Nobody
    BY DEF Sched, SwitchTo, InKmain, ParentOK, in_irq
  <2>2. Tid \in k.proc[Pid].threads /\ Pid \in PIDs /\ KernelPid \in PIDs /\ Tid = INITIAL_TID
        /\ INITIAL_TID \in TIDs
    BY <2>1, TableFacts, SmallNumbers DEF Sched, RunningOK
  <2>3. ThreadRuns(Pid, Tid)
    BY <2>1 DEF ThreadRuns
  <2>4. Tid \notin k.proc[Pid].ready
    BY <2>2, <2>3 DEF Sched, WaitsOK
  <2> QED
    BY <2>1, <2>2, <2>4 DEF Pid, Tid
<1>2. next \in PIDs /\ k.proc[next].state = "Ready"
  <2>1. Runnable(k) # {} /\ Runnable(k) \subseteq Nat
    BY DEF SwitchTo, next_pid_to_run, Runnable, PIDs
  <2>2. NextAfter(Runnable(k), last_pid) \in Runnable(k)
    BY <2>1, NextAfterIn
  <2> QED
    BY <2>1, <2>2 DEF next_pid_to_run, Runnable
<1>3. k' = Assert(k1, SWITCHTO_CALLER = Nobody) /\ last_pid' = next /\ SWITCHTO_CALLER' = <<Pid, Tid>>
      /\ ORIGINAL' = <<next, k1.proc[next].current_thread>>
      /\ UNCHANGED <<servers, PREVIOUS_PAIR, waits>>
  BY DEF SwitchTo
<1> HIDE DEF next
<1>4. next # k.pid /\ k.proc[next].ready # {}
  BY <1>1, <1>2, TableFacts DEF ProcessOK
<1>5. GoesTo(k, k1, next, AnyThread, {<<k.pid, Tid>>})
  BY <1>1, <1>2, <1>4, ActivateResumable DEF CanChoose
<1>6. PICK new \in k.proc[next].ready : /\ Moves(k, k1, next, new, {<<k.pid, Tid>>}, {<<next, new>>})
                                        /\ k1.proc[next].current_thread = new
  BY <1>5 DEF GoesTo
<1>7. k' = k1
  BY <1>1, <1>3 DEF Assert
<1>8. Moves(k, k', next, new, {<<Pid, Tid>>}, {<<next, new>>})
  BY <1>1, <1>6, <1>7
<1> HIDE DEF k1
<1>9. new \in TIDs /\ new \in k.proc[next].threads /\ Tid \in TIDs
  BY <1>1, <1>2, <1>6, TableFacts, SmallNumbers
<1>10. /\ TableOK(k') /\ Pid' = next /\ Tid' = new /\ ~in_irq'
       /\ \A q \in PIDs, u \in TIDs : ThreadRuns(q, u)' <=> q = next /\ u = new
       /\ \A q \in PIDs, u \in TIDs : ThreadRuns(q, u) <=> q = Pid /\ u = Tid
  <2>1. TableOK(k') /\ Pid' = next /\ Tid' = new /\ ~in_irq'
    BY <1>1, <1>3, <1>8 DEF Moves, Pid, Tid, in_irq
  <2> QED
    BY <1>1, <2>1 DEF ThreadRuns
<1>11. \A q \in PIDs : /\ k'.proc[q].threads = k.proc[q].threads /\ (Alive(k, q)' <=> Alive(k, q))
                       /\ \A u \in TIDs : u \in k'.proc[q].ready <=>
                             ~(q = next /\ u = new) /\ (u \in k.proc[q].ready \/ (q = Pid /\ u = Tid))
  BY <1>8 DEF Moves, Alive
<1>12. WaitsOK'
  <2>1. ASSUME NEW q \in PIDs, NEW u \in TIDs
        PROVE  /\ ~(u \in k'.proc[q].ready /\ ThreadRuns(q, u)')
               /\ u \in k'.proc[q].ready \/ ThreadRuns(q, u)' <=> u \in k.proc[q].ready \/ ThreadRuns(q, u)
    BY <1>6, <1>10, <1>11
  <2> QED
    BY <1>3, <1>11, <2>1, WaitsMoved DEF Sched
<1>13. RunningOK'
  BY <1>2, <1>9, <1>10, <1>11 DEF RunningOK
<1>14. ParentOK'
  <2>1. SWITCHTO_CALLER' = <<KernelPid, INITIAL_TID>> /\ <<KernelPid, INITIAL_TID>> # Nobody
    BY <1>1, <1>3, SmallNumbers, NobodyAssumption DEF Pairs
  <2>2. ORIGINAL'[1] # KernelPid /\ next # KernelPid
    BY <1>1, <1>3, <1>4
  <2> QED
    BY <1>3, <1>10, <2>1, <2>2 DEF Sched, ParentOK
<1>15. TypeOK'
  <2>1. k' \in [proc : [PIDs -> Process], pid : PIDs, fault : BOOLEAN]
    BY <1>10, TableFacts DEF KernelType
  <2>2. ORIGINAL' \in Pairs /\ SWITCHTO_CALLER' \in Pairs
    BY <1>1, <1>2, <1>3, <1>6, <1>9 DEF Pairs
  <2> QED
    BY <1>2, <1>3, <2>1, <2>2 DEF TypeOK
<1> QED
  BY <1>10, <1>11, <1>12, <1>13, <1>14, <1>15 DEF Sched

-----------------------------------------------------------------------------
(* Servers and waiting threads: what keeps the two in step *)

\* The types of the two tables.
ServerTable == [ServerIdx -> ServerType \cup {NoServer}]
WaitTable == [PIDs -> [TIDs -> Waits]]

\* The server table sv1 is sv, except that slot s holds x.
Put1(sv, sv1, s, x) ==
    /\ sv1 \in ServerTable
    /\ sv1[s] = x
    /\ \A r \in ServerIdx : r # s => sv1[r] = sv[r]

\* The waiting threads w1 are w, except that thread t of p waits for x.
Waits1(w, w1, p, t, x) ==
    /\ w1 \in WaitTable
    /\ w1[p][t] = x
    /\ \A q \in PIDs, u \in TIDs : ~(q = p /\ u = t) => w1[q][u] = w[q][u]

\* The same processes exist.
SameAlive(kk, k1) == \A q \in PIDs : Alive(k1, q) <=> Alive(kk, q)

\* The same threads wait for what, at the same servers.
SameWaits(w, w1, what) ==
    \A p \in PIDs, t \in TIDs, s \in ServerIdx : w1[p][t] = WaitFor(what, s) <=> w[p][t] = WaitFor(what, s)

\* A slot of the server table is set.
LEMMA ServerPut ==
    ASSUME NEW sv \in ServerTable, NEW s \in ServerIdx, NEW x \in ServerType \cup {NoServer}
    PROVE  Put1(sv, [sv EXCEPT ![s] = x], s, x)
BY DEF Put1, ServerTable

\* Blocks changes what one thread waits for.
LEMMA BlocksPut ==
    ASSUME NEW w \in WaitTable, NEW p \in PIDs, NEW t \in TIDs, NEW x \in Waits
    PROVE  Waits1(w, Blocks(w, p, t, x), p, t, x)
BY DEF Waits1, WaitTable, Blocks

\* set_thread_result changes what one thread waits for.
LEMMA ResultPut ==
    ASSUME NEW w \in WaitTable, NEW p \in PIDs, NEW t \in TIDs
    PROVE  Waits1(w, set_thread_result(w, p, t), p, t, NoWait)
BY WaitKinds DEF Waits1, WaitTable, set_thread_result

\* The tables have their types.
LEMMA TypedTables ==
    ASSUME TypeOK
    PROVE  servers \in ServerTable /\ waits \in WaitTable
BY DEF TypeOK, ServerTable, WaitTable

\* A slot that is not free holds a server.
LEMMA ServerThere ==
    ASSUME NEW sv \in ServerTable, NEW s \in ServerIdx, sv[s] # NoServer
    PROVE  sv[s] \in ServerType /\ sv[s].pid \in PIDs /\ sv[s].queue \in [Slots -> QueuedMessage]
           /\ sv[s].ready_threads \subseteq TIDs \cup {IRQ_TID}
BY DEF ServerTable, ServerType

\* A server is not a free slot.
LEMMA IsServer ==
    ASSUME NEW x \in ServerType
    PROVE  x # NoServer
BY KernelAssumption

\* Nothing that matters changes.
LEMMA ParkedKept ==
    ASSUME NEW kk, NEW k1, NEW sv \in ServerTable, NEW w, NEW w1, ParkedIn(kk, sv, w),
           SameAlive(kk, k1), SameWaits(w, w1, "message")
    PROVE  ParkedIn(k1, sv, w1)
<1>1. \A s \in ServerIdx : sv[s] # NoServer => sv[s].pid \in PIDs
  BY ServerThere
<1> QED
  BY <1>1 DEF ParkedIn, SameAlive, SameWaits

\* The same, of the entries in the queues.
LEMMA EntriesKept ==
    ASSUME NEW kk, NEW k1, NEW sv \in ServerTable, NEW w, NEW w1, EntriesIn(kk, sv, w),
           SameAlive(kk, k1), SameWaits(w, w1, "reply")
    PROVE  EntriesIn(k1, sv, w1)
<1>1. ASSUME NEW s \in ServerIdx, sv[s] # NoServer, NEW i \in Slots
      PROVE  EntryOK(k1, w1, s, sv[s].queue[i])
  <2>1. EntryOK(kk, w, s, sv[s].queue[i]) /\ sv[s].queue[i] \in QueuedMessage
    BY <1>1, ServerThere DEF EntriesIn
  <2>2. Answered(sv[s].queue[i]) => sv[s].queue[i].pid \in PIDs
    BY <2>1, EntryFields DEF Answered, EntryType
  <2> QED
    BY <2>1, <2>2 DEF EntryOK, SameAlive, SameWaits
<1>2. ASSUME NEW s \in ServerIdx, sv[s] # NoServer
      PROVE  OneEntry(k1, sv[s].queue)
  BY <1>2 DEF EntriesIn, OneEntry, SameAlive
<1>3. \A p \in PIDs, t \in TIDs, s \in ServerIdx : w1[p][t] = WaitFor("reply", s) =>
          sv[s] # NoServer /\ \E i \in Slots : From(sv[s].queue[i], p, t)
  BY DEF EntriesIn, SameWaits
<1> QED
  BY <1>1, <1>2, <1>3 DEF EntriesIn

\* A slot of the server table is rewritten: the threads that are parked there stay.
LEMMA ParkedPut ==
    ASSUME NEW kk, NEW sv, NEW sv1, NEW w, NEW s \in ServerIdx, NEW x \in ServerType,
           ParkedIn(kk, sv, w), Put1(sv, sv1, s, x),
           sv[s] # NoServer, x.pid = sv[s].pid, x.ready_threads = sv[s].ready_threads
    PROVE  ParkedIn(kk, sv1, w)
BY IsServer DEF ParkedIn, Put1

\* Thread t of the server's process parks.
LEMMA ParkedAdd ==
    ASSUME NEW kk, NEW sv, NEW sv1, NEW w, NEW w1, NEW s \in ServerIdx, NEW x \in ServerType, NEW t \in TIDs,
           ParkedIn(kk, sv, w), Put1(sv, sv1, s, x), sv \in ServerTable,
           sv[s] # NoServer, x.pid = sv[s].pid, x.ready_threads = sv[s].ready_threads \cup {t},
           w[x.pid][t] = NoWait, Waits1(w, w1, x.pid, t, WaitFor("message", s))
    PROVE  ParkedIn(kk, sv1, w1)
<1>1. ASSUME NEW r \in ServerIdx, sv1[r] # NoServer
      PROVE  /\ Alive(kk, sv1[r].pid) /\ sv1[r].pid \in Owners
             /\ \A u \in sv1[r].ready_threads : u \in TIDs /\ w1[sv1[r].pid][u] = WaitFor("message", r)
  <2>1. CASE r = s
    BY <1>1, <2>1, ServerThere DEF ParkedIn, Put1, Waits1
  <2>2. CASE r # s
    <3>1. sv1[r] = sv[r] /\ sv[r].pid \in PIDs
      BY <1>1, <2>2, ServerThere DEF Put1
    <3>2. \A u \in sv[r].ready_threads : u \in TIDs /\ w[sv[r].pid][u] = WaitFor("message", r)
                                        /\ w[sv[r].pid][u] # NoWait
      BY <1>1, <3>1, WaitKinds DEF ParkedIn
    <3>3. \A u \in sv[r].ready_threads : w1[sv[r].pid][u] = WaitFor("message", r)
      BY <3>1, <3>2 DEF Waits1
    <3> QED
      BY <1>1, <3>1, <3>2, <3>3 DEF ParkedIn
  <2> QED
    BY <2>1, <2>2
<1>2. ASSUME NEW q \in PIDs, NEW u \in TIDs, NEW r \in ServerIdx, w1[q][u] = WaitFor("message", r)
      PROVE  sv1[r] # NoServer /\ sv1[r].pid = q /\ u \in sv1[r].ready_threads
  <2>1. CASE q = x.pid /\ u = t
    <3>1. r = s
      BY <1>2, <2>1, WaitKinds DEF Waits1
    <3> QED
      BY <2>1, <3>1, IsServer DEF Put1
  <2>2. CASE ~(q = x.pid /\ u = t)
    <3>1. w[q][u] = WaitFor("message", r)
      BY <1>2, <2>2 DEF Waits1
    <3> QED
      BY <3>1, IsServer DEF Put1, ParkedIn
  <2> QED
    BY <2>1, <2>2
<1> QED
  BY <1>1, <1>2 DEF ParkedIn

\* The parked thread t gets a message.
LEMMA ParkedTake ==
    ASSUME NEW kk, NEW sv, NEW sv1, NEW w, NEW w1, NEW s \in ServerIdx, NEW x \in ServerType, NEW t,
           ParkedIn(kk, sv, w), Put1(sv, sv1, s, x), sv \in ServerTable,
           sv[s] # NoServer, x.pid = sv[s].pid, t \in sv[s].ready_threads,
           x.ready_threads = sv[s].ready_threads \ {t},
           Waits1(w, w1, x.pid, t, NoWait)
    PROVE  ParkedIn(kk, sv1, w1)
<1>0. t \in TIDs /\ w[x.pid][t] = WaitFor("message", s) /\ x.pid \in PIDs
  BY ServerThere DEF ParkedIn
<1>1. ASSUME NEW r \in ServerIdx, sv1[r] # NoServer
      PROVE  /\ Alive(kk, sv1[r].pid) /\ sv1[r].pid \in Owners
             /\ \A u \in sv1[r].ready_threads : u \in TIDs /\ w1[sv1[r].pid][u] = WaitFor("message", r)
  <2>1. CASE r = s
    BY <1>0, <1>1, <2>1, ServerThere DEF ParkedIn, Put1, Waits1
  <2>2. CASE r # s
    <3>1. sv1[r] = sv[r] /\ sv[r].pid \in PIDs
      BY <1>1, <2>2, ServerThere DEF Put1
    <3>2. \A u \in sv[r].ready_threads : u \in TIDs /\ w[sv[r].pid][u] = WaitFor("message", r)
      BY <1>1, <3>1 DEF ParkedIn
    <3>3. \A u \in sv[r].ready_threads : ~(sv[r].pid = x.pid /\ u = t)
      BY <1>0, <2>2, <3>2, WaitKinds
    <3>4. \A u \in sv[r].ready_threads : w1[sv[r].pid][u] = WaitFor("message", r)
      BY <3>1, <3>2, <3>3 DEF Waits1
    <3> QED
      BY <1>1, <3>1, <3>2, <3>4 DEF ParkedIn
  <2> QED
    BY <2>1, <2>2
<1>2. ASSUME NEW q \in PIDs, NEW u \in TIDs, NEW r \in ServerIdx, w1[q][u] = WaitFor("message", r)
      PROVE  sv1[r] # NoServer /\ sv1[r].pid = q /\ u \in sv1[r].ready_threads
  <2>1. ~(q = x.pid /\ u = t)
    BY <1>2, WaitKinds DEF Waits1
  <2>2. w[q][u] = WaitFor("message", r)
    BY <1>2, <2>1 DEF Waits1
  <2>3. sv[r] # NoServer /\ sv[r].pid = q /\ u \in sv[r].ready_threads
    BY <2>2 DEF ParkedIn
  <2>4. CASE r = s
    BY <2>1, <2>3, <2>4, IsServer DEF Put1
  <2>5. CASE r # s
    BY <2>3, <2>5 DEF Put1
  <2> QED
    BY <2>4, <2>5
<1> QED
  BY <1>1, <1>2 DEF ParkedIn

\* The entry e1 that replaces e in a slot keeps the sender that waits, and adds none.
KeepsSender(kk, e, e1) ==
    /\ Answered(e1) => /\ Answered(e) /\ e1.pid = e.pid /\ e1.tid = e.tid
                       /\ e1.kind = "WaitingForget" => e.kind = "WaitingForget"
                       /\ e1.kind \in TerminatedKinds => e.kind \in TerminatedKinds
    /\ Answered(e) /\ Alive(kk, e.pid) => Answered(e1) /\ e1.pid = e.pid /\ e1.tid = e.tid

\* Who waits for an answer is a process.
WaitersAlive(kk, w) ==
    \A p \in PIDs, t \in TIDs, s \in ServerIdx : w[p][t] = WaitFor("reply", s) => Alive(kk, p)

\* The queue of a server is rewritten: the senders that wait stay.
LEMMA EntriesPut ==
    ASSUME NEW kk, NEW sv, NEW sv1, NEW w, NEW s \in ServerIdx, NEW x \in ServerType,
           EntriesIn(kk, sv, w), WaitersAlive(kk, w), Put1(sv, sv1, s, x), sv[s] # NoServer,
           \A i \in Slots : KeepsSender(kk, sv[s].queue[i], x.queue[i])
    PROVE  EntriesIn(kk, sv1, w)
<1>1. ASSUME NEW r \in ServerIdx, sv1[r] # NoServer, NEW i \in Slots
      PROVE  EntryOK(kk, w, r, sv1[r].queue[i])
  <2>1. CASE r = s
    BY <2>1 DEF EntriesIn, Put1, EntryOK, KeepsSender
  <2>2. CASE r # s
    BY <1>1, <2>2 DEF EntriesIn, Put1
  <2> QED
    BY <2>1, <2>2
<1>2. ASSUME NEW r \in ServerIdx, sv1[r] # NoServer
      PROVE  OneEntry(kk, sv1[r].queue)
  <2>1. CASE r = s
    <3>1. OneEntry(kk, sv[s].queue) /\ sv1[r].queue = x.queue
      BY <2>1 DEF EntriesIn, Put1
    <3>2. \A i \in Slots : \A p \in PIDs, t \in TIDs : From(x.queue[i], p, t) => From(sv[s].queue[i], p, t)
      BY DEF KeepsSender, From
    <3> QED
      BY <3>1, <3>2 DEF OneEntry
  <2>2. CASE r # s
    BY <1>2, <2>2 DEF EntriesIn, Put1
  <2> QED
    BY <2>1, <2>2
<1>3. ASSUME NEW p \in PIDs, NEW t \in TIDs, NEW r \in ServerIdx, w[p][t] = WaitFor("reply", r)
      PROVE  sv1[r] # NoServer /\ \E i \in Slots : From(sv1[r].queue[i], p, t)
  <2>1. PICK i \in Slots : sv[r] # NoServer /\ From(sv[r].queue[i], p, t)
    BY <1>3 DEF EntriesIn
  <2>2. Alive(kk, p)
    BY <1>3 DEF WaitersAlive
  <2>3. CASE r = s
    BY <2>1, <2>2, <2>3, IsServer DEF Put1, KeepsSender, From
  <2>4. CASE r # s
    BY <2>1, <2>4 DEF Put1
  <2> QED
    BY <2>3, <2>4
<1> QED
  BY <1>1, <1>2, <1>3 DEF EntriesIn

\* Thread t of p, which waited for nothing, waits for an answer and is in slot i.
LEMMA EntriesAdd ==
    ASSUME NEW kk, NEW sv \in ServerTable, NEW sv1, NEW w, NEW w1, NEW s \in ServerIdx, NEW x \in ServerType,
           NEW i \in Slots, NEW e, NEW p \in PIDs, NEW t \in TIDs,
           EntriesIn(kk, sv, w), Put1(sv, sv1, s, x), sv[s] # NoServer,
           SlotSet(sv[s], x, i, e), sv[s].queue[i] = Empty,
           From(e, p, t), e.kind # "WaitingForget", e.kind \notin TerminatedKinds,
           Alive(kk, p), w[p][t] = NoWait, Waits1(w, w1, p, t, WaitFor("reply", s))
    PROVE  EntriesIn(kk, sv1, w1)
<1>1. ASSUME NEW r \in ServerIdx, sv[r] # NoServer, NEW j \in Slots
      PROVE  ~From(sv[r].queue[j], p, t) /\ EntryOK(kk, w1, r, sv[r].queue[j])
  <2>1. EntryOK(kk, w, r, sv[r].queue[j]) /\ sv[r].queue[j] \in QueuedMessage
    BY <1>1, ServerThere DEF EntriesIn
  <2>2. ~From(sv[r].queue[j], p, t)
    BY <2>1, WaitKinds DEF EntryOK, From
  <2>3. Answered(sv[r].queue[j]) => sv[r].queue[j].pid \in PIDs
    BY <2>1, EntryFields DEF Answered, EntryType
  <2> QED
    BY <2>1, <2>2, <2>3 DEF EntryOK, From, Waits1
<1>2. ASSUME NEW r \in ServerIdx, sv1[r] # NoServer, NEW j \in Slots
      PROVE  EntryOK(kk, w1, r, sv1[r].queue[j])
  <2>1. CASE r = s /\ j = i
    BY <2>1 DEF Put1, SlotSet, EntryOK, From, Waits1
  <2>2. CASE r = s /\ j # i
    BY <1>1, <2>2 DEF Put1, SlotSet
  <2>3. CASE r # s
    BY <1>1, <1>2, <2>3 DEF Put1
  <2> QED
    BY <2>1, <2>2, <2>3
<1>3. ASSUME NEW r \in ServerIdx, sv1[r] # NoServer
      PROVE  OneEntry(kk, sv1[r].queue)
  <2>1. CASE r = s
    <3>1. OneEntry(kk, sv[s].queue) /\ sv1[r].queue = x.queue
      BY <2>1 DEF EntriesIn, Put1
    <3>2. \A j \in Slots : j # i => x.queue[j] = sv[s].queue[j]
      BY DEF SlotSet
    <3>3. \A j \in Slots : ~From(sv[s].queue[j], p, t)
      BY <1>1
    <3>4. x.queue[i] = e /\ \A q, u : From(e, q, u) => q = p /\ u = t
      BY DEF SlotSet, From
    <3>5. ASSUME NEW j1 \in Slots, NEW j2 \in Slots, NEW q \in PIDs, NEW u \in TIDs, Alive(kk, q),
                 From(x.queue[j1], q, u), From(x.queue[j2], q, u)
          PROVE  j1 = j2
      BY <3>1, <3>2, <3>3, <3>4, <3>5 DEF OneEntry
    <3> QED
      BY <3>1, <3>5 DEF OneEntry
  <2>2. CASE r # s
    BY <1>3, <2>2 DEF EntriesIn, Put1
  <2> QED
    BY <2>1, <2>2
<1>4. ASSUME NEW q \in PIDs, NEW u \in TIDs, NEW r \in ServerIdx, w1[q][u] = WaitFor("reply", r)
      PROVE  sv1[r] # NoServer /\ \E j \in Slots : From(sv1[r].queue[j], q, u)
  <2>1. CASE q = p /\ u = t
    <3>1. r = s
      BY <1>4, <2>1, WaitKinds DEF Waits1
    <3> QED
      BY <2>1, <3>1, IsServer DEF Put1, SlotSet
  <2>2. CASE ~(q = p /\ u = t)
    <3>1. w[q][u] = WaitFor("reply", r)
      BY <1>4, <2>2 DEF Waits1
    <3>2. PICK j \in Slots : sv[r] # NoServer /\ From(sv[r].queue[j], q, u)
      BY <3>1 DEF EntriesIn
    <3>3. CASE r = s
      <4>1. j # i
        BY <3>2, <3>3 DEF From, Answered
      <4> QED
        BY <3>2, <3>3, <4>1, IsServer DEF Put1, SlotSet
    <3>4. CASE r # s
      BY <3>2, <3>4 DEF Put1
    <3> QED
      BY <3>3, <3>4
  <2> QED
    BY <2>1, <2>2
<1> QED
  BY <1>2, <1>3, <1>4 DEF EntriesIn

\* The entry in slot i is answered; its sender waits no more, or is gone.
LEMMA EntriesDrop ==
    ASSUME NEW kk, NEW sv \in ServerTable, NEW sv1, NEW w, NEW w1, NEW s \in ServerIdx, NEW x \in ServerType,
           NEW i \in Slots, NEW p \in PIDs, NEW t \in TIDs,
           EntriesIn(kk, sv, w), WaitersAlive(kk, w), Put1(sv, sv1, s, x), sv[s] # NoServer,
           SlotSet(sv[s], x, i, Empty), From(sv[s].queue[i], p, t),
           IF Alive(kk, p) THEN Waits1(w, w1, p, t, NoWait) ELSE w1 = w
    PROVE  EntriesIn(kk, sv1, w1)
<1>0. OneEntry(kk, sv[s].queue)
  BY DEF EntriesIn
<1>1. ASSUME NEW r \in ServerIdx, sv[r] # NoServer, NEW j \in Slots, ~(r = s /\ j = i)
      PROVE  EntryOK(kk, w1, r, sv[r].queue[j])
  <2>1. EntryOK(kk, w, r, sv[r].queue[j]) /\ sv[r].queue[j] \in QueuedMessage
    BY <1>1, ServerThere DEF EntriesIn
  <2>2. Answered(sv[r].queue[j]) => sv[r].queue[j].pid \in PIDs
    BY <2>1, EntryFields DEF Answered, EntryType
  <2>3. CASE Alive(kk, p)
    <3>1. EntryOK(kk, w, s, sv[s].queue[i])
      BY DEF EntriesIn
    <3>2. w[p][t] = WaitFor("reply", s)
      BY <2>3, <3>1 DEF EntryOK, From
    <3>3. ~From(sv[r].queue[j], p, t)
      <4>1. SUFFICES ASSUME From(sv[r].queue[j], p, t) PROVE FALSE
        OBVIOUS
      <4>2. w[p][t] = WaitFor("reply", r)
        BY <2>1, <2>3, <4>1 DEF EntryOK, From
      <4>3. r = s
        BY <3>2, <4>2, WaitKinds
      <4> QED
        BY <1>0, <1>1, <2>3, <4>1, <4>3 DEF OneEntry
    <3> QED
      BY <2>1, <2>2, <2>3, <3>3 DEF EntryOK, From, Waits1
  <2>4. CASE ~Alive(kk, p)
    BY <2>1, <2>4
  <2> QED
    BY <2>3, <2>4
<1>2. ASSUME NEW r \in ServerIdx, sv1[r] # NoServer, NEW j \in Slots
      PROVE  EntryOK(kk, w1, r, sv1[r].queue[j])
  <2>1. CASE r = s /\ j = i
    BY <2>1 DEF Put1, SlotSet, EntryOK, Answered
  <2>2. CASE r = s /\ j # i
    BY <1>1, <2>2 DEF Put1, SlotSet
  <2>3. CASE r # s
    BY <1>1, <1>2, <2>3 DEF Put1
  <2> QED
    BY <2>1, <2>2, <2>3
<1>3. ASSUME NEW r \in ServerIdx, sv1[r] # NoServer
      PROVE  OneEntry(kk, sv1[r].queue)
  <2>1. CASE r = s
    <3>1. sv1[r].queue = x.queue /\ x.queue[i] = Empty
      BY <2>1 DEF SlotSet, Put1
    <3>2. \A j \in Slots : j # i => x.queue[j] = sv[s].queue[j]
      BY DEF SlotSet
    <3>3. \A q, u : ~From(Empty, q, u)
      BY DEF From, Answered
    <3>4. ASSUME NEW j1 \in Slots, NEW j2 \in Slots, NEW q \in PIDs, NEW u \in TIDs, Alive(kk, q),
                 From(x.queue[j1], q, u), From(x.queue[j2], q, u)
          PROVE  j1 = j2
      BY <1>0, <3>1, <3>2, <3>3, <3>4 DEF OneEntry
    <3> QED
      BY <3>1, <3>4 DEF OneEntry
  <2>2. CASE r # s
    BY <1>3, <2>2 DEF EntriesIn, Put1
  <2> QED
    BY <2>1, <2>2
<1>4. ASSUME NEW q \in PIDs, NEW u \in TIDs, NEW r \in ServerIdx, w1[q][u] = WaitFor("reply", r)
      PROVE  sv1[r] # NoServer /\ \E j \in Slots : From(sv1[r].queue[j], q, u)
  <2>1. w[q][u] = WaitFor("reply", r) /\ ~(q = p /\ u = t)
    <3>1. CASE Alive(kk, p)
      BY <1>4, <3>1, WaitKinds DEF Waits1
    <3>2. CASE ~Alive(kk, p)
      BY <1>4, <3>2 DEF WaitersAlive
    <3> QED
      BY <3>1, <3>2
  <2>2. PICK j \in Slots : sv[r] # NoServer /\ From(sv[r].queue[j], q, u)
    BY <2>1 DEF EntriesIn
  <2>3. CASE r = s
    <3>1. j # i
      BY <2>1, <2>2, <2>3 DEF From
    <3> QED
      BY <2>2, <2>3, <3>1, IsServer DEF Put1, SlotSet
  <2>4. CASE r # s
    BY <2>2, <2>4 DEF Put1
  <2> QED
    BY <2>3, <2>4
<1> QED
  BY <1>2, <1>3, <1>4 DEF EntriesIn

\* A server is created.
LEMMA ServerNew ==
    ASSUME NEW kk, NEW sv, NEW sv1, NEW w, NEW s \in ServerIdx, NEW x \in ServerType,
           ParkedIn(kk, sv, w), EntriesIn(kk, sv, w), Put1(sv, sv1, s, x), sv[s] = NoServer,
           Alive(kk, x.pid), x.pid \in Owners, x.ready_threads = {}, \A i \in Slots : x.queue[i] = Empty
    PROVE  ParkedIn(kk, sv1, w) /\ EntriesIn(kk, sv1, w)
<1>1. ParkedIn(kk, sv1, w)
  <2>1. \A p \in PIDs, t \in TIDs, r \in ServerIdx : w[p][t] = WaitFor("message", r) => r # s
    BY DEF ParkedIn
  <2> QED
    BY <2>1, IsServer DEF ParkedIn, Put1
<1>2. EntriesIn(kk, sv1, w)
  <2>1. \A i \in Slots : EntryOK(kk, w, s, x.queue[i])
    BY DEF EntryOK, Answered
  <2>2. OneEntry(kk, x.queue)
    BY DEF OneEntry, From, Answered
  <2>3. \A r \in ServerIdx : sv1[r] # NoServer =>
           (\A i \in Slots : EntryOK(kk, w, r, sv1[r].queue[i])) /\ OneEntry(kk, sv1[r].queue)
    BY <2>1, <2>2 DEF EntriesIn, Put1
  <2>4. \A p \in PIDs, t \in TIDs, r \in ServerIdx : w[p][t] = WaitFor("reply", r) =>
           r # s /\ sv[r] # NoServer /\ \E i \in Slots : From(sv[r].queue[i], p, t)
    BY DEF EntriesIn
  <2>5. \A p \in PIDs, t \in TIDs, r \in ServerIdx : w[p][t] = WaitFor("reply", r) =>
           sv1[r] # NoServer /\ \E i \in Slots : From(sv1[r].queue[i], p, t)
    BY <2>4 DEF Put1
  <2> QED
    BY <2>3, <2>5 DEF EntriesIn
<1> QED
  BY <1>1, <1>2

\* A server is destroyed, and who waits at it is told.
LEMMA ServerGone ==
    ASSUME NEW kk, NEW sv \in ServerTable, NEW sv1, NEW w, NEW w1, NEW s \in ServerIdx,
           ParkedIn(kk, sv, w), EntriesIn(kk, sv, w), Put1(sv, sv1, s, NoServer),
           \A q \in PIDs, u \in TIDs :
              w1[q][u] = IF w[q][u] \in {WaitFor("reply", s), WaitFor("message", s)} THEN NoWait ELSE w[q][u]
    PROVE  ParkedIn(kk, sv1, w1) /\ EntriesIn(kk, sv1, w1)
<1>1. \A q \in PIDs, u \in TIDs, r \in ServerIdx :
         /\ w1[q][u] = WaitFor("reply", r) <=> w[q][u] = WaitFor("reply", r) /\ r # s
         /\ w1[q][u] = WaitFor("message", r) <=> w[q][u] = WaitFor("message", r) /\ r # s
  BY WaitKinds
<1>2. ParkedIn(kk, sv1, w1)
  <2>1. ASSUME NEW r \in ServerIdx, sv1[r] # NoServer
        PROVE  /\ Alive(kk, sv1[r].pid) /\ sv1[r].pid \in Owners
               /\ \A t \in sv1[r].ready_threads : t \in TIDs /\ w1[sv1[r].pid][t] = WaitFor("message", r)
    <3>1. r # s /\ sv1[r] = sv[r]
      BY <2>1 DEF Put1
    <3>2. sv[r].pid \in PIDs
      BY <2>1, <3>1, ServerThere
    <3> QED
      BY <1>1, <2>1, <3>1, <3>2 DEF ParkedIn
  <2>2. \A q \in PIDs, u \in TIDs, r \in ServerIdx : w1[q][u] = WaitFor("message", r) =>
           sv1[r] # NoServer /\ sv1[r].pid = q /\ u \in sv1[r].ready_threads
    BY <1>1 DEF ParkedIn, Put1
  <2> QED
    BY <2>1, <2>2 DEF ParkedIn
<1>3. EntriesIn(kk, sv1, w1)
  <2>1. ASSUME NEW r \in ServerIdx, sv1[r] # NoServer
        PROVE  /\ \A i \in Slots : EntryOK(kk, w1, r, sv1[r].queue[i])
               /\ OneEntry(kk, sv1[r].queue)
    <3>1. r # s /\ sv1[r] = sv[r]
      BY <2>1 DEF Put1
    <3>2. ASSUME NEW i \in Slots PROVE EntryOK(kk, w1, r, sv[r].queue[i])
      <4>1. EntryOK(kk, w, r, sv[r].queue[i]) /\ sv[r].queue[i] \in QueuedMessage
        BY <2>1, <3>1, ServerThere DEF EntriesIn
      <4>2. Answered(sv[r].queue[i]) => sv[r].queue[i].pid \in PIDs
        BY <4>1, EntryFields DEF Answered, EntryType
      <4> QED
        BY <1>1, <3>1, <4>1, <4>2 DEF EntryOK
    <3> QED
      BY <2>1, <3>1, <3>2 DEF EntriesIn
  <2>2. \A q \in PIDs, u \in TIDs, r \in ServerIdx : w1[q][u] = WaitFor("reply", r) =>
           sv1[r] # NoServer /\ \E i \in Slots : From(sv1[r].queue[i], q, u)
    BY <1>1 DEF EntriesIn, Put1
  <2> QED
    BY <2>1, <2>2 DEF EntriesIn
<1> QED
  BY <1>2, <1>3

\* Process d, which has no server, terminates.
LEMMA ProcessGone ==
    ASSUME NEW kk, NEW k1, NEW sv \in ServerTable, NEW sv1, NEW w, NEW w1, NEW d \in PIDs,
           ParkedIn(kk, sv, w), EntriesIn(kk, sv, w), d \notin Owners, Mortal # {},
           \A q \in PIDs : Alive(k1, q) <=> Alive(kk, q) /\ q # d,
           \A s \in ServerIdx : sv1[s] = IF sv[s] = NoServer THEN NoServer
                                         ELSE discard_messages_for_pid(sv[s], d),
           \A q \in PIDs, u \in TIDs : w1[q][u] = IF q = d THEN NoWait ELSE w[q][u]
    PROVE  ParkedIn(k1, sv1, w1) /\ EntriesIn(k1, sv1, w1)
<1>1. ASSUME NEW s \in ServerIdx, sv[s] # NoServer
      PROVE  /\ sv1[s] \in ServerType /\ sv1[s] # NoServer
             /\ sv1[s].pid = sv[s].pid /\ sv1[s].ready_threads = sv[s].ready_threads
             /\ \A i \in Slots : sv1[s].queue[i] = DiscardedEntry(sv[s].queue[i], d)
             /\ sv[s].pid \in PIDs /\ sv[s].pid # d
  BY <1>1, ServerThere, DiscardEffect, IsServer DEF ParkedIn
<1>2. \A s \in ServerIdx : sv1[s] # NoServer => sv[s] # NoServer
  OBVIOUS
<1>3. ParkedIn(k1, sv1, w1)
  <2>1. ASSUME NEW s \in ServerIdx, sv1[s] # NoServer
        PROVE  /\ Alive(k1, sv1[s].pid) /\ sv1[s].pid \in Owners
               /\ \A t \in sv1[s].ready_threads : t \in TIDs /\ w1[sv1[s].pid][t] = WaitFor("message", s)
    <3>1. sv[s] # NoServer
      BY <1>2, <2>1
    <3> QED
      BY <1>1, <3>1 DEF ParkedIn
  <2>2. ASSUME NEW q \in PIDs, NEW u \in TIDs, NEW s \in ServerIdx, w1[q][u] = WaitFor("message", s)
        PROVE  sv1[s] # NoServer /\ sv1[s].pid = q /\ u \in sv1[s].ready_threads
    <3>1. w[q][u] = WaitFor("message", s)
      BY <2>2, WaitKinds
    <3> QED
      BY <1>1, <3>1 DEF ParkedIn
  <2> QED
    BY <2>1, <2>2 DEF ParkedIn
<1>4. ASSUME NEW e \in QueuedMessage
      PROVE  /\ Answered(DiscardedEntry(e, d)) <=> Answered(e)
             /\ Answered(e) => /\ e.pid \in PIDs
                               /\ DiscardedEntry(e, d).pid = e.pid /\ DiscardedEntry(e, d).tid = e.tid
                               /\ e.kind # "WaitingForget" => DiscardedEntry(e, d).kind # "WaitingForget"
             /\ Answered(e) /\ e.pid # d => DiscardedEntry(e, d) = e
  <2>1. CASE e = Empty
    BY <2>1 DEF DiscardedEntry, Answered
  <2>2. CASE e # Empty
    <3>1. e \in EntryType
      BY <2>2, EntryFields
    <3>2. CASE e.pid # d
      BY <3>1, <3>2 DEF DiscardedEntry, EntryType
    <3>3. CASE e.pid = d
      <4>1. PICK e1 : e1 = [e EXCEPT !.kind = TerminatedKind(e.kind)]
        OBVIOUS
      <4>2. DiscardedEntry(e, d) = e1
        BY <2>2, <3>1, <3>3, <4>1 DEF DiscardedEntry, EntryType
      <4>3. e1.kind = TerminatedKind(e.kind) /\ e1.pid = e.pid /\ e1.tid = e.tid
        BY <3>1, <4>1 DEF EntryType
      <4>4. e1 # Empty
        BY <3>1, <4>3, <4>1 DEF Empty, TerminatedKind, EntryType, UndeliveredKinds, WaitingKinds,
                                LendKinds, LendTerminatedKinds
      <4>5. e1.kind \in {"ScalarMessage", "MemoryMessageSend"} <=> e.kind \in {"ScalarMessage", "MemoryMessageSend"}
        BY <4>3 DEF TerminatedKind
      <4>6. e1.kind = "WaitingForget" => e.kind = "WaitingForget"
        BY <4>3 DEF TerminatedKind
      <4>7. e.pid \in PIDs
        BY <3>1 DEF EntryType
      <4> QED
        BY <2>2, <3>3, <4>2, <4>3, <4>4, <4>5, <4>6, <4>7 DEF Answered
    <3> QED
      BY <3>2, <3>3
  <2> QED
    BY <2>1, <2>2
<1>5. ASSUME NEW s \in ServerIdx, sv[s] # NoServer, NEW i \in Slots
      PROVE  /\ EntryOK(k1, w1, s, sv1[s].queue[i])
             /\ \A q, u : From(sv1[s].queue[i], q, u) <=> From(sv[s].queue[i], q, u)
  <2>1. PICK e : e = sv[s].queue[i]
    OBVIOUS
  <2>2. e \in QueuedMessage /\ EntryOK(kk, w, s, e) /\ sv1[s].queue[i] = DiscardedEntry(e, d)
    BY <1>1, <1>5, <2>1, ServerThere DEF EntriesIn
  <2>3. \A q, u : From(DiscardedEntry(e, d), q, u) <=> From(e, q, u)
    BY <1>4, <2>2 DEF From
  <2>4. EntryOK(k1, w1, s, DiscardedEntry(e, d))
    <3>1. CASE e.pid = d
      BY <1>4, <2>2, <3>1 DEF EntryOK
    <3>2. CASE e.pid # d
      BY <1>4, <2>2, <3>2 DEF EntryOK
    <3> QED
      BY <3>1, <3>2
  <2> QED
    BY <2>1, <2>2, <2>3, <2>4
<1>6. EntriesIn(k1, sv1, w1)
  <2>1. ASSUME NEW s \in ServerIdx, sv1[s] # NoServer
        PROVE  /\ \A i \in Slots : EntryOK(k1, w1, s, sv1[s].queue[i])
               /\ OneEntry(k1, sv1[s].queue)
    <3>1. sv[s] # NoServer /\ OneEntry(kk, sv[s].queue)
      BY <1>2, <2>1 DEF EntriesIn
    <3> QED
      BY <1>5, <3>1 DEF OneEntry
  <2>2. ASSUME NEW q \in PIDs, NEW u \in TIDs, NEW s \in ServerIdx, w1[q][u] = WaitFor("reply", s)
        PROVE  sv1[s] # NoServer /\ \E i \in Slots : From(sv1[s].queue[i], q, u)
    <3>1. w[q][u] = WaitFor("reply", s)
      BY <2>2, WaitKinds
    <3>2. sv[s] # NoServer /\ \E i \in Slots : From(sv[s].queue[i], q, u)
      BY <3>1 DEF EntriesIn
    <3> QED
      BY <1>1, <1>5, <3>2
  <2> QED
    BY <2>1, <2>2 DEF EntriesIn
<1> QED
  BY <1>3, <1>6

\* A process is created where none terminates.
LEMMA ProcessNew ==
    ASSUME NEW kk, NEW k1, NEW sv \in ServerTable, NEW w, NEW d \in PIDs,
           ParkedIn(kk, sv, w), EntriesIn(kk, sv, w), Mortal = {}, ~Alive(kk, d),
           \A q \in PIDs : Alive(k1, q) <=> Alive(kk, q) \/ q = d
    PROVE  ParkedIn(k1, sv, w) /\ EntriesIn(k1, sv, w)
<1>1. ParkedIn(k1, sv, w)
  <2>1. \A s \in ServerIdx : sv[s] # NoServer => sv[s].pid \in PIDs
    BY ServerThere
  <2> QED
    BY <2>1 DEF ParkedIn
<1>2. ASSUME NEW s \in ServerIdx, sv[s] # NoServer, NEW i \in Slots
      PROVE  /\ EntryOK(k1, w, s, sv[s].queue[i])
             /\ Answered(sv[s].queue[i]) => sv[s].queue[i].pid # d
  <2>1. EntryOK(kk, w, s, sv[s].queue[i]) /\ sv[s].queue[i] \in QueuedMessage
    BY <1>2, ServerThere DEF EntriesIn
  <2>2. Answered(sv[s].queue[i]) => sv[s].queue[i].pid \in PIDs
    BY <2>1, EntryFields DEF Answered, EntryType
  <2> QED
    BY <2>1, <2>2 DEF EntryOK
<1>3. ASSUME NEW s \in ServerIdx, sv[s] # NoServer
      PROVE  OneEntry(k1, sv[s].queue)
  <2>1. OneEntry(kk, sv[s].queue)
    BY <1>3 DEF EntriesIn
  <2> QED
    BY <1>2, <1>3, <2>1 DEF OneEntry, From
<1> QED
  BY <1>1, <1>2, <1>3 DEF EntriesIn

-----------------------------------------------------------------------------
(* Steps that move the CPU and touch neither servers nor waiting threads *)

\* The types of the variables, after a step that sets no pair but to Nobody.
LEMMA TypeKept ==
    ASSUME TypeOK, TableOK(k'), servers' \in ServerTable, waits' \in WaitTable,
           SWITCHTO_CALLER' = SWITCHTO_CALLER \/ SWITCHTO_CALLER' = Nobody,
           UNCHANGED <<ORIGINAL, PREVIOUS_PAIR, last_pid>>
    PROVE  TypeOK'
<1>1. k' \in KernelType
  BY DEF TableOK
<1> QED
  BY <1>1 DEF TypeOK, KernelType, ServerTable, WaitTable

\* The end of a step that leaves servers and waiting threads alone.
LEMMA QuietStep ==
    ASSUME IInv, TypeOK', Sched', SameAlive(k, k'), UNCHANGED servers,
           SameWaits(waits, waits', "message"), SameWaits(waits, waits', "reply")
    PROVE  IInv'
<1>1. ParkedIn(k, servers, waits) /\ EntriesIn(k, servers, waits) /\ servers \in ServerTable
  BY TypedTables DEF IInv, ParkedOK, EntriesOK
<1>2. ParkedIn(k', servers, waits') /\ EntriesIn(k', servers, waits')
  BY <1>1, ParkedKept, EntriesKept
<1>3. ParkedOK' /\ EntriesOK'
  BY <1>2 DEF ParkedOK, EntriesOK
<1> QED
  BY <1>3 DEF IInv, Sched

\* The invariant, in the form in which the steps use it.
LEMMA IInvParts ==
    ASSUME IInv
    PROVE  /\ TypeOK /\ Sched /\ servers \in ServerTable /\ waits \in WaitTable
           /\ ParkedIn(k, servers, waits) /\ EntriesIn(k, servers, waits)
           /\ TableOK(k) /\ k.fault = FALSE /\ WaitersAlive(k, waits)
<1>1. /\ TypeOK /\ Sched /\ servers \in ServerTable /\ waits \in WaitTable
      /\ ParkedIn(k, servers, waits) /\ EntriesIn(k, servers, waits) /\ TableOK(k)
  BY TypedTables DEF IInv, Sched, ParkedOK, EntriesOK
<1>2. WaitersAlive(k, waits)
  BY <1>1, WaitingFacts, WaitKinds DEF WaitersAlive
<1>3. k.fault = FALSE
  BY <1>1 DEF TableOK
<1> QED
  BY <1>1, <1>2, <1>3

\* SameWaits is reflexive.
LEMMA SameWaitsSame ==
    ASSUME NEW w, NEW what
    PROVE  SameWaits(w, w, what)
BY DEF SameWaits

\* Yield, and a send to a full queue, keep the invariant.
LEMMA YieldStep ==
    ASSUME IInv, InUser, do_yield
    PROVE  IInv'
<1>0. TypeOK /\ Sched /\ TableOK(k)
  BY IInvParts
<1>1. /\ Pid \in PIDs /\ Pid # KernelPid /\ Tid \in TIDs
      /\ Tid \in k.proc[Pid].threads /\ Tid \notin k.proc[Pid].ready
      /\ waits[Pid][Tid] = NoWait /\ k.proc[KernelPid].ready = {INITIAL_TID}
      /\ SWITCHTO_CALLER = <<KernelPid, INITIAL_TID>>
      /\ PREVIOUS_PAIR = Nobody /\ ~in_irq
  BY <1>0, UserFacts
<1>2. KernelPid \in PIDs /\ INITIAL_TID \in TIDs /\ <<KernelPid, INITIAL_TID>> # Nobody
  BY SmallNumbers, NobodyAssumption DEF Pairs
<1>3. /\ k' = ReturnToKernel(k, KernelPid, INITIAL_TID, TRUE)
      /\ SWITCHTO_CALLER' = Nobody
      /\ UNCHANGED <<servers, ORIGINAL, PREVIOUS_PAIR, last_pid, waits>>
  BY <1>1, <1>2 DEF do_yield
<1>4. Moves(k, k', KernelPid, INITIAL_TID, {<<Pid, Tid>>}, {<<KernelPid, INITIAL_TID>>})
  BY <1>0, <1>3, ReturnMoves
<1>5. /\ TableOK(k') /\ Pid' = KernelPid /\ Tid' = INITIAL_TID /\ ~in_irq'
      /\ \A q \in PIDs, u \in TIDs : ThreadRuns(q, u)' <=> q = KernelPid /\ u = INITIAL_TID
      /\ \A q \in PIDs, u \in TIDs : ThreadRuns(q, u) <=> q = Pid /\ u = Tid
  <2>1. TableOK(k') /\ Pid' = KernelPid /\ Tid' = INITIAL_TID /\ ~in_irq'
    BY <1>1, <1>3, <1>4 DEF Moves, Pid, Tid, in_irq
  <2> QED
    BY <1>1, <2>1 DEF ThreadRuns
<1>6. \A q \in PIDs : /\ k'.proc[q].threads = k.proc[q].threads /\ (Alive(k', q) <=> Alive(k, q))
                      /\ \A u \in TIDs : u \in k'.proc[q].ready <=>
                            ~(q = KernelPid /\ u = INITIAL_TID) /\ (u \in k.proc[q].ready \/ (q = Pid /\ u = Tid))
  BY <1>4 DEF Moves
<1>7. WaitsOK'
  <2>1. ASSUME NEW q \in PIDs, NEW u \in TIDs
        PROVE  /\ ~(u \in k'.proc[q].ready /\ ThreadRuns(q, u)')
               /\ u \in k'.proc[q].ready \/ ThreadRuns(q, u)' <=> u \in k.proc[q].ready \/ ThreadRuns(q, u)
    BY <1>1, <1>5, <1>6
  <2> QED
    BY <1>0, <1>3, <1>6, <2>1, WaitsMoved DEF Sched
<1>8. RunningOK'
  BY <1>2, <1>5, TableFacts DEF RunningOK
<1>9. ParentOK'
  BY <1>0, <1>3, <1>5 DEF Sched, ParentOK
<1>10. TypeOK'
  BY <1>0, <1>3, <1>5, TypeKept, TypedTables
<1>11. Sched' /\ SameAlive(k, k')
  BY <1>5, <1>6, <1>7, <1>8, <1>9 DEF Sched, SameAlive
<1> QED
  BY <1>3, <1>10, <1>11, QuietStep, SameWaitsSame

\* kmain idles.
LEMMA IdleStep ==
    ASSUME IInv, Idle
    PROVE  IInv'
<1>1. UNCHANGED <<k, servers, SWITCHTO_CALLER, ORIGINAL, PREVIOUS_PAIR, waits>> /\ last_pid' \in PIDs
  BY SmallNumbers DEF Idle
<1>2. TypeOK'
  BY <1>1 DEF IInv, TypeOK
<1>3. TableOK(k)' /\ RunningOK' /\ ParentOK' /\ WaitsOK'
  BY <1>1 DEF IInv, RunningOK, ParentOK, WaitsOK, ThreadRuns, in_irq, Pid, Tid
<1>4. ParkedOK' /\ EntriesOK'
  BY <1>1 DEF IInv, ParkedOK, EntriesOK
<1> QED
  BY <1>2, <1>3, <1>4 DEF IInv

\* kmain hands out a time slice.
LEMMA SwitchToStep ==
    ASSUME IInv, SwitchTo
    PROVE  IInv'
<1>1. Sched' /\ TypeOK' /\ \A q \in PIDs : Alive(k, q)' <=> Alive(k, q)
  BY SwitchToSched, IInvParts
<1>2. UNCHANGED <<servers, waits>>
  BY DEF SwitchTo
<1>3. SameAlive(k, k')
  BY <1>1 DEF SameAlive, Alive
<1> QED
  BY <1>1, <1>2, <1>3, QuietStep, SameWaitsSame

\* An interrupt reaches a handler.
LEMMA InterruptStep ==
    ASSUME IInv, NEW p \in PIDs, Interrupt(p)
    PROVE  IInv'
<1>0. TypeOK /\ Sched /\ TableOK(k)
  BY IInvParts
<1>1. ~in_irq /\ Alive(k, p) /\ PREVIOUS_PAIR' = <<Pid, Tid>> /\ k' = make_callback_to(k, p)
      /\ UNCHANGED <<servers, SWITCHTO_CALLER, ORIGINAL, last_pid, waits>>
  BY DEF Interrupt, InUser, InKmain
<1>2. Pid \in PIDs /\ Tid \in k.proc[Pid].threads /\ Tid \in TIDs /\ <<Pid, Tid>> # Nobody
      /\ Pid = k.pid /\ Tid = k.proc[k.pid].tid /\ <<Pid, Tid>> \in Pairs
  <2>1. Pid \in PIDs /\ Tid \in k.proc[Pid].threads /\ Tid \in TIDs
    BY <1>0, <1>1, TableFacts DEF Sched, RunningOK, Pid
  <2>2. <<Pid, Tid>> \in Pairs
    BY <2>1 DEF Pairs
  <2> QED
    BY <2>1, <2>2, NobodyAssumption DEF Pid, Tid
<1>3. Tid \notin k.proc[Pid].ready
  <2>1. ThreadRuns(Pid, Tid)
    BY <1>1 DEF ThreadRuns
  <2> QED
    BY <1>0, <1>2, <2>1 DEF Sched, WaitsOK
<1>4. Moves(k, k', p, IRQ_TID, {<<Pid, Tid>>}, {})
  BY <1>0, <1>1, <1>2, CallbackMoves
<1>5. /\ TableOK(k') /\ Pid' = p /\ Tid' = IRQ_TID /\ in_irq'
      /\ \A q \in PIDs, u \in TIDs : ~ThreadRuns(q, u)'
      /\ \A q \in PIDs, u \in TIDs : ThreadRuns(q, u) <=> q = Pid /\ u = Tid
  <2>1. TableOK(k') /\ Pid' = p /\ Tid' = IRQ_TID /\ in_irq'
    BY <1>1, <1>2, <1>4 DEF Moves, Pid, Tid, in_irq
  <2> QED
    BY <1>1, <2>1 DEF ThreadRuns
<1>6. \A q \in PIDs : /\ k'.proc[q].threads = k.proc[q].threads /\ (Alive(k', q) <=> Alive(k, q))
                      /\ \A u \in TIDs : u \in k'.proc[q].ready <=> u \in k.proc[q].ready \/ (q = Pid /\ u = Tid)
  BY <1>4 DEF Moves
<1>7. WaitsOK'
  <2>1. ASSUME NEW q \in PIDs, NEW u \in TIDs
        PROVE  /\ ~(u \in k'.proc[q].ready /\ ThreadRuns(q, u)')
               /\ u \in k'.proc[q].ready \/ ThreadRuns(q, u)' <=> u \in k.proc[q].ready \/ ThreadRuns(q, u)
    BY <1>5, <1>6
  <2> QED
    BY <1>0, <1>1, <1>6, <2>1, WaitsMoved DEF Sched
<1>8. PREVIOUS_PAIR'[1] = Pid /\ PREVIOUS_PAIR'[2] = Tid
  BY <1>1
<1>9. RunningOK'
  BY <1>2, <1>5, <1>6, <1>8 DEF RunningOK
<1>10. ParentOK'
  BY <1>0, <1>1, <1>5, <1>8 DEF Sched, ParentOK
<1>11. TypeOK'
  <2>1. k' \in KernelType
    BY <1>5 DEF TableOK
  <2> QED
    BY <1>0, <1>1, <1>2, <2>1 DEF TypeOK, KernelType
<1>12. Sched' /\ SameAlive(k, k')
  BY <1>5, <1>6, <1>7, <1>9, <1>10 DEF Sched, SameAlive
<1> QED
  BY <1>1, <1>11, <1>12, QuietStep, SameWaitsSame

\* Who is interrupted is ready, and kmain is while it waits for the CPU.
LEMMA HandlerFacts ==
    ASSUME TypeOK, Sched, in_irq
    PROVE  /\ PREVIOUS_PAIR \in Pairs
           /\ PREVIOUS_PAIR[1] \in PIDs /\ PREVIOUS_PAIR[2] \in TIDs
           /\ PREVIOUS_PAIR[2] \in k.proc[PREVIOUS_PAIR[1]].ready
           /\ \A q \in PIDs, u \in TIDs : ~ThreadRuns(q, u)
           /\ INITIAL_TID \in k.proc[KernelPid].ready
<1>1. PREVIOUS_PAIR \in Pairs /\ PREVIOUS_PAIR[1] \in PIDs
      /\ PREVIOUS_PAIR[2] \in k.proc[PREVIOUS_PAIR[1]].ready
  BY DEF TypeOK, Pairs, Sched, RunningOK, in_irq
<1>2. PREVIOUS_PAIR[2] \in TIDs
  BY <1>1, TableFacts DEF Sched
<1>3. \A q \in PIDs, u \in TIDs : ~ThreadRuns(q, u)
  BY DEF ThreadRuns
<1>4. INITIAL_TID \in k.proc[KernelPid].ready
  <2>1. waits[KernelPid][INITIAL_TID] = NoWait /\ INITIAL_TID \in k.proc[KernelPid].threads
    BY SmallNumbers, TableFacts DEF Sched, ParentOK
  <2> QED
    BY <1>3, <2>1, SmallNumbers DEF Sched, WaitsOK
<1> QED
  BY <1>1, <1>2, <1>3, <1>4

\* The timer ends a time slice.
LEMMA ReturnToParentStep ==
    ASSUME IInv, ReturnToParent
    PROVE  IInv'
<1>0. TypeOK /\ Sched /\ TableOK(k)
  BY IInvParts
<1>1. in_irq /\ SWITCHTO_CALLER # Nobody /\ PREVIOUS_PAIR' = SWITCHTO_CALLER /\ SWITCHTO_CALLER' = Nobody
      /\ UNCHANGED <<k, servers, ORIGINAL, last_pid, waits>>
  BY DEF ReturnToParent, InHandler
<1>2. PREVIOUS_PAIR' = <<KernelPid, INITIAL_TID>> /\ <<KernelPid, INITIAL_TID>> \in Pairs
      /\ <<KernelPid, INITIAL_TID>> # Nobody
  BY <1>0, <1>1, SmallNumbers, NobodyAssumption DEF Sched, ParentOK, Pairs
<1>3. in_irq' /\ Tid' = Tid /\ PREVIOUS_PAIR'[1] = KernelPid /\ PREVIOUS_PAIR'[2] = INITIAL_TID
  BY <1>1, <1>2 DEF in_irq, Tid
<1>4. RunningOK'
  BY <1>0, <1>1, <1>3, HandlerFacts DEF Sched, RunningOK
<1>5. ParentOK'
  BY <1>0, <1>1, <1>3 DEF Sched, ParentOK
<1>6. WaitsOK'
  <2>1. \A q \in PIDs, u \in TIDs : ThreadRuns(q, u)' <=> ThreadRuns(q, u)
    BY <1>1, <1>3 DEF ThreadRuns
  <2> QED
    BY <1>0, <1>1, <2>1 DEF Sched, WaitsOK
<1>7. TypeOK'
  BY <1>0, <1>1, <1>2 DEF TypeOK
<1>8. Sched' /\ SameAlive(k, k')
  BY <1>0, <1>1, <1>4, <1>5, <1>6 DEF Sched, SameAlive
<1> QED
  BY <1>1, <1>7, <1>8, QuietStep, SameWaitsSame

\* The handler returns.
LEMMA FinishStep ==
    ASSUME IInv, finish_isr
    PROVE  IInv'
<1>0. TypeOK /\ Sched /\ TableOK(k)
  BY IInvParts
<1>1. in_irq /\ k' = finish_callback_and_resume(k, PREVIOUS_PAIR[1], PREVIOUS_PAIR[2])
      /\ PREVIOUS_PAIR' = Nobody
      /\ UNCHANGED <<servers, SWITCHTO_CALLER, ORIGINAL, last_pid, waits>>
  BY DEF finish_isr, InHandler
<1>2. PICK p, t : p = PREVIOUS_PAIR[1] /\ t = PREVIOUS_PAIR[2]
  OBVIOUS
<1>3. p \in PIDs /\ t \in TIDs /\ t \in k.proc[p].ready /\ t \in k.proc[p].threads
      /\ \A q \in PIDs, u \in TIDs : ~ThreadRuns(q, u)
  BY <1>0, <1>1, <1>2, HandlerFacts, TableFacts
<1>4. Moves(k, k', p, t, {}, {<<p, t>>})
  BY <1>0, <1>1, <1>2, <1>3, FinishMoves
<1>5. /\ TableOK(k') /\ Pid' = p /\ Tid' = t /\ ~in_irq'
      /\ \A q \in PIDs, u \in TIDs : ThreadRuns(q, u)' <=> q = p /\ u = t
  <2>1. TableOK(k') /\ Pid' = p /\ Tid' = t /\ ~in_irq'
    BY <1>1, <1>4 DEF Moves, Pid, Tid, in_irq
  <2> QED
    BY <2>1 DEF ThreadRuns
<1>6. \A q \in PIDs : /\ k'.proc[q].threads = k.proc[q].threads /\ (Alive(k', q) <=> Alive(k, q))
                      /\ \A u \in TIDs : u \in k'.proc[q].ready <=> u \in k.proc[q].ready /\ ~(q = p /\ u = t)
  BY <1>4 DEF Moves
<1>7. WaitsOK'
  <2>1. ASSUME NEW q \in PIDs, NEW u \in TIDs
        PROVE  /\ ~(u \in k'.proc[q].ready /\ ThreadRuns(q, u)')
               /\ u \in k'.proc[q].ready \/ ThreadRuns(q, u)' <=> u \in k.proc[q].ready \/ ThreadRuns(q, u)
    BY <1>3, <1>5, <1>6
  <2> QED
    BY <1>0, <1>1, <1>6, <2>1, WaitsMoved DEF Sched
<1>8. RunningOK'
  BY <1>3, <1>5, <1>6 DEF RunningOK
<1>9. ParentOK'
  BY <1>0, <1>1, <1>2, <1>5 DEF Sched, ParentOK
<1>10. TypeOK'
  <2>1. k' \in KernelType
    BY <1>5 DEF TableOK
  <2> QED
    BY <1>0, <1>1, <2>1 DEF TypeOK, KernelType
<1>11. Sched' /\ SameAlive(k, k')
  BY <1>5, <1>6, <1>7, <1>8, <1>9 DEF Sched, SameAlive
<1> QED
  BY <1>1, <1>10, <1>11, QuietStep, SameWaitsSame

\* A thread that goes from one wait to another, neither of them for what.
LEMMA SameWaitsPut ==
    ASSUME NEW w, NEW w1, NEW p \in PIDs, NEW t \in TIDs, NEW x, NEW what, Waits1(w, w1, p, t, x),
           \A s \in ServerIdx : w[p][t] # WaitFor(what, s) /\ x # WaitFor(what, s)
    PROVE  SameWaits(w, w1, what)
BY DEF SameWaits, Waits1

-----------------------------------------------------------------------------
(* Steps that block the running thread, and steps of threads and processes *)

\* The end of a step that blocks the running thread on no server.
LEMMA BlockingStep ==
    ASSUME IInv, InUser, NEW w \in Waits, w # NoWait,
           \A s \in ServerIdx : w # WaitFor("reply", s) /\ w # WaitFor("message", s),
           Moves(k, k', KernelPid, INITIAL_TID, {}, {<<KernelPid, INITIAL_TID>>}),
           waits' = Blocks(waits, Pid, Tid, w),
           SWITCHTO_CALLER' = Nobody,
           UNCHANGED <<servers, ORIGINAL, PREVIOUS_PAIR, last_pid>>
    PROVE  IInv'
<1>1. TypeOK /\ Sched /\ TableOK(k) /\ waits \in WaitTable /\ servers \in ServerTable
  BY IInvParts
<1>2. Pid \in PIDs /\ Tid \in TIDs /\ waits[Pid][Tid] = NoWait
  BY <1>1, UserFacts
<1>3. Sched' /\ \A q \in PIDs : Alive(k, q)' <=> Alive(k, q)
  BY <1>1, SchedBlock
<1>4. Waits1(waits, waits', Pid, Tid, w)
  BY <1>1, <1>2, BlocksPut
<1>5. SameWaits(waits, waits', "message") /\ SameWaits(waits, waits', "reply")
  BY <1>2, <1>4, SameWaitsPut, WaitKinds
<1>6. SameAlive(k, k') /\ TableOK(k')
  BY <1>3 DEF SameAlive, Alive, Sched
<1>7. TypeOK'
  BY <1>1, <1>4, <1>6, TypeKept DEF Waits1
<1> QED
  BY <1>3, <1>5, <1>6, <1>7, QuietStep

\* WaitEvent.
LEMMA WaitEventStep ==
    ASSUME IInv, WaitEvent
    PROVE  IInv'
<1>1. InUser /\ k' = ReturnToKernel(k, KernelPid, AnyThread, FALSE) /\ SWITCHTO_CALLER' = Nobody
      /\ waits' = Blocks(waits, Pid, Tid, WaitFor("event", 0))
      /\ UNCHANGED <<servers, ORIGINAL, PREVIOUS_PAIR, last_pid>>
  BY DEF WaitEvent
<1>2. Moves(k, k', KernelPid, INITIAL_TID, {}, {<<KernelPid, INITIAL_TID>>})
  BY <1>1, IInvParts, ReturnMoves
<1>3. PICK w \in Waits : w = WaitFor("event", 0)
  BY WaitKinds
<1>4. w # NoWait /\ \A s \in ServerIdx : w # WaitFor("reply", s) /\ w # WaitFor("message", s)
  BY <1>3, WaitKinds
<1> QED
  BY <1>1, <1>2, <1>3, <1>4, BlockingStep

\* JoinThread.
LEMMA JoinThreadStep ==
    ASSUME IInv, NEW t \in TIDs, JoinThread(t)
    PROVE  IInv'
<1>1. InUser /\ k' = activate_process_thread(k, Tid, KernelPid, AnyThread, FALSE) /\ SWITCHTO_CALLER' = Nobody
      /\ waits' = Blocks(waits, Pid, Tid, WaitFor("join", t))
      /\ UNCHANGED <<servers, ORIGINAL, PREVIOUS_PAIR, last_pid>>
  BY DEF JoinThread
<1>2. Moves(k, k', KernelPid, INITIAL_TID, {}, {<<KernelPid, INITIAL_TID>>})
  BY <1>1, IInvParts, ReturnMoves
<1>3. PICK w \in Waits : w = WaitFor("join", t)
  BY WaitKinds
<1>4. w # NoWait /\ \A s \in ServerIdx : w # WaitFor("reply", s) /\ w # WaitFor("message", s)
  BY <1>3, WaitKinds
<1> QED
  BY <1>1, <1>2, <1>3, <1>4, BlockingStep

\* CreateThread.
LEMMA CreateThreadStep ==
    ASSUME IInv, NEW t \in TIDs, CreateThread(t)
    PROVE  IInv'
<1>0. TypeOK /\ Sched /\ TableOK(k)
  BY IInvParts
<1>1. InUser /\ t \notin k.proc[Pid].threads /\ k' = create_thread(k, t)
      /\ UNCHANGED <<servers, SWITCHTO_CALLER, ORIGINAL, PREVIOUS_PAIR, last_pid, waits>>
  BY DEF CreateThread
<1>2. /\ Pid \in PIDs /\ Pid # KernelPid /\ Tid \in TIDs
      /\ Tid \in k.proc[Pid].threads /\ Tid \notin k.proc[Pid].ready
      /\ waits[Pid][Tid] = NoWait /\ Pid = k.pid /\ Tid = k.proc[k.pid].tid
      /\ PREVIOUS_PAIR = Nobody /\ ~in_irq /\ k.proc[Pid].ready \subseteq k.proc[Pid].threads
  BY <1>0, <1>1, UserFacts, TableFacts DEF Pid, Tid
<1>3. /\ TableOK(k') /\ k'.pid = Pid /\ k'.proc[Pid].tid = t
      /\ k'.proc[Pid].threads = k.proc[Pid].threads \cup {t}
      /\ k'.proc[Pid].ready = k.proc[Pid].ready \cup {Tid}
      /\ \A q \in PIDs : q # Pid => k'.proc[q] = k.proc[q]
      /\ SameAlive(k, k')
  <2>1. /\ Tid = k.proc[k.pid].tid /\ Tid \in k.proc[k.pid].threads /\ k.pid # KernelPid
        /\ t \notin k.proc[k.pid].threads
    BY <1>1, <1>2
  <2>2. ThreadCreated(k, k', k.pid, Tid, t)
    BY <1>0, <1>1, <2>1, CreateThreadEffect
  <2> QED
    BY <1>2, <2>2 DEF SameAlive, ThreadCreated
<1>4. /\ Pid' = Pid /\ Tid' = t /\ ~in_irq'
      /\ \A q \in PIDs, u \in TIDs : ThreadRuns(q, u)' <=> q = Pid /\ u = t
      /\ \A q \in PIDs, u \in TIDs : ThreadRuns(q, u) <=> q = Pid /\ u = Tid
  <2>1. Pid' = Pid /\ Tid' = t /\ ~in_irq'
    BY <1>1, <1>2, <1>3 DEF Pid, Tid, in_irq
  <2> QED
    BY <1>2, <2>1 DEF ThreadRuns
<1>5. waits[Pid][t] = NoWait
  BY <1>0, <1>1, <1>2 DEF Sched, WaitsOK
<1>6. WaitsOK'
  <2>1. SUFFICES ASSUME NEW q \in PIDs, NEW u \in TIDs
                 PROVE  IF u \in k'.proc[q].threads
                        THEN IF u \in k'.proc[q].ready
                             THEN ~ThreadRuns(q, u)' /\ waits'[q][u] = NoWait
                             ELSE ThreadRuns(q, u)' <=> waits'[q][u] = NoWait
                        ELSE waits'[q][u] = NoWait
    BY DEF WaitsOK
  <2>2. IF u \in k.proc[q].threads
        THEN IF u \in k.proc[q].ready
             THEN ~ThreadRuns(q, u) /\ waits[q][u] = NoWait
             ELSE ThreadRuns(q, u) <=> waits[q][u] = NoWait
        ELSE waits[q][u] = NoWait
    BY <1>0 DEF Sched, WaitsOK
  <2>3. CASE q = Pid
    BY <1>1, <1>2, <1>3, <1>4, <1>5, <2>2, <2>3
  <2>4. CASE q # Pid
    BY <1>1, <1>3, <1>4, <2>2, <2>4
  <2> QED
    BY <2>3, <2>4
<1>7. RunningOK'
  BY <1>3, <1>4 DEF RunningOK
<1>8. ParentOK'
  BY <1>0, <1>1, <1>2, <1>4 DEF Sched, ParentOK
<1>9. TypeOK'
  BY <1>0, <1>1, <1>3, TypeKept, TypedTables
<1>10. Sched'
  BY <1>3, <1>6, <1>7, <1>8 DEF Sched
<1> QED
  BY <1>1, <1>3, <1>9, <1>10, QuietStep, SameWaitsSame

\* A thread exits.
LEMMA ExitThreadStep ==
    ASSUME IInv, ExitThread
    PROVE  IInv'
<1>0. TypeOK /\ Sched /\ TableOK(k) /\ waits \in WaitTable /\ servers \in ServerTable
  BY IInvParts
<1> DEFINE woken == IF Joining(Tid) = {} THEN {} ELSE {Lowest(Joining(Tid))}
<1>2. InUser /\ k' = destroy_thread(k, Tid, woken)
      /\ SWITCHTO_CALLER' = (IF k'.pid # Pid THEN Nobody ELSE SWITCHTO_CALLER)
      /\ waits' = [waits EXCEPT ![Pid] = [u \in TIDs |-> IF u \in woken THEN NoWait ELSE waits[Pid][u]]]
      /\ UNCHANGED <<servers, ORIGINAL, PREVIOUS_PAIR, last_pid>>
  BY DEF ExitThread
<1>3. /\ Pid \in PIDs /\ Pid # KernelPid /\ Tid \in TIDs
      /\ Tid \in k.proc[Pid].threads /\ Tid \notin k.proc[Pid].ready
      /\ waits[Pid][Tid] = NoWait /\ Pid = k.pid /\ Tid = k.proc[k.pid].tid
      /\ PREVIOUS_PAIR = Nobody /\ ~in_irq /\ k.proc[Pid].ready \subseteq k.proc[Pid].threads
      /\ k.proc[Pid].threads \subseteq TIDs
      /\ k.proc[KernelPid].ready = {INITIAL_TID} /\ SWITCHTO_CALLER = <<KernelPid, INITIAL_TID>>
      /\ KernelPid \in PIDs /\ INITIAL_TID \in TIDs
  BY <1>0, <1>2, UserFacts, TableFacts, SmallNumbers DEF Pid, Tid
<1>4. ASSUME NEW u \in woken
      PROVE  u \in k.proc[Pid].threads \ k.proc[Pid].ready /\ u # Tid /\ waits[Pid][u] = WaitFor("join", Tid)
  <2>1. Joining(Tid) # {} /\ Joining(Tid) \subseteq Nat
    BY <1>3, <1>4, ProcessesAssumption DEF Joining
  <2>2. u \in Joining(Tid)
    BY <1>4, <2>1, LowestIn
  <2>3. u \in k.proc[Pid].threads /\ waits[Pid][u] = WaitFor("join", Tid) /\ u \in TIDs
    BY <1>3, <2>2 DEF Joining
  <2>4. waits[Pid][u] # NoWait
    BY <2>3, WaitKinds
  <2> QED
    BY <1>0, <1>3, <2>3, <2>4, WaitingFacts
<1> HIDE DEF woken
<1>5. PICK waiting : waiting = k.proc[Pid].ready \cup woken
  OBVIOUS
<1>6. /\ TableOK(k')
      /\ k'.pid = IF waiting = {} THEN KernelPid ELSE Pid
      /\ k'.proc[Pid].threads = k.proc[Pid].threads \ {Tid}
      /\ \E new \in (IF waiting = {} THEN {INITIAL_TID} ELSE waiting) :
            /\ k'.proc[k'.pid].tid = new
            /\ k'.proc[Pid].ready = waiting \ {new}
      /\ k'.proc[KernelPid].ready = (IF waiting = {} THEN {} ELSE {INITIAL_TID})
      /\ k'.proc[KernelPid].threads = {INITIAL_TID}
      /\ \A q \in PIDs : q \notin {KernelPid, Pid} => k'.proc[q] = k.proc[q]
      /\ SameAlive(k, k')
  <2>1. /\ woken \subseteq k.proc[k.pid].threads \ {Tid} /\ waiting = k.proc[k.pid].ready \cup woken
        /\ Tid = k.proc[k.pid].tid /\ Tid \in k.proc[k.pid].threads /\ Tid \notin k.proc[k.pid].ready
        /\ k.pid # KernelPid /\ k.proc[KernelPid].ready = {INITIAL_TID}
    BY <1>3, <1>4, <1>5
  <2>2. ThreadDestroyed(k, k', k.pid, Tid, waiting)
    BY <1>0, <1>2, <2>1, DestroyThreadEffect
  <2> QED
    BY <1>3, <2>2 DEF SameAlive, ThreadDestroyed
<1>7. PICK new \in (IF waiting = {} THEN {INITIAL_TID} ELSE waiting) :
         k'.proc[k'.pid].tid = new /\ k'.proc[Pid].ready = waiting \ {new}
  BY <1>6
<1>8. /\ waits' \in WaitTable
      /\ \A q \in PIDs, u \in TIDs : waits'[q][u] = IF q = Pid /\ u \in woken THEN NoWait ELSE waits[q][u]
  <2>1. PICK row : row = [u \in TIDs |-> IF u \in woken THEN NoWait ELSE waits[Pid][u]]
    OBVIOUS
  <2>2. row \in [TIDs -> Waits]
    BY <1>0, <1>3, <2>1, WaitKinds DEF WaitTable
  <2>3. waits' = [waits EXCEPT ![Pid] = row]
    BY <1>2, <2>1
  <2> HIDE DEF Pid
  <2>4. waits' \in WaitTable /\ waits'[Pid] = row /\ \A q \in PIDs : q # Pid => waits'[q] = waits[q]
    BY <1>0, <1>3, <2>2, <2>3 DEF WaitTable
  <2> QED
    BY <2>1, <2>4
<1>9. PICK p : p = IF waiting = {} THEN KernelPid ELSE Pid
  OBVIOUS
<1>10. /\ Pid' = p /\ Tid' = new /\ ~in_irq' /\ p \in PIDs /\ new \in TIDs
       /\ \A q \in PIDs, u \in TIDs : ThreadRuns(q, u)' <=> q = p /\ u = new
       /\ \A q \in PIDs, u \in TIDs : ThreadRuns(q, u) <=> q = Pid /\ u = Tid
  <2>1. Pid' = p /\ Tid' = new /\ ~in_irq' /\ p \in PIDs
    BY <1>2, <1>3, <1>6, <1>7, <1>9 DEF Pid, Tid, in_irq
  <2>2. new \in TIDs
    BY <1>3, <1>4, <1>5, <1>7
  <2> QED
    BY <1>3, <2>1, <2>2 DEF ThreadRuns
<1>11. WaitsOK'
  <2>1. SUFFICES ASSUME NEW q \in PIDs, NEW u \in TIDs
                 PROVE  IF u \in k'.proc[q].threads
                        THEN IF u \in k'.proc[q].ready
                             THEN ~ThreadRuns(q, u)' /\ waits'[q][u] = NoWait
                             ELSE ThreadRuns(q, u)' <=> waits'[q][u] = NoWait
                        ELSE waits'[q][u] = NoWait
    BY DEF WaitsOK
  <2>2. IF u \in k.proc[q].threads
        THEN IF u \in k.proc[q].ready
             THEN ~ThreadRuns(q, u) /\ waits[q][u] = NoWait
             ELSE ThreadRuns(q, u) <=> waits[q][u] = NoWait
        ELSE waits[q][u] = NoWait
    BY <1>0 DEF Sched, WaitsOK
  <2>3. CASE q = Pid
    <3>1. u \in k'.proc[q].threads <=> u \in k.proc[q].threads /\ u # Tid
      BY <1>6, <2>3
    <3>2. u \in k'.proc[q].ready <=> (u \in k.proc[q].ready \/ u \in woken) /\ u # new
      BY <1>5, <1>7, <2>3
    <3>3. waits'[q][u] = IF u \in woken THEN NoWait ELSE waits[q][u]
      BY <1>8, <2>3
    <3>4. u \in woken => u \in k.proc[q].threads /\ u \notin k.proc[q].ready /\ u # Tid
      BY <1>4, <2>3
    <3>5. CASE waiting = {}
      <4>1. woken = {} /\ k.proc[q].ready = {} /\ ~ThreadRuns(q, u)'
        BY <1>3, <1>5, <1>9, <1>10, <2>3, <3>5
      <4>2. u \notin k'.proc[q].ready
        BY <3>2, <4>1
      <4> QED
        BY <1>3, <1>10, <2>2, <2>3, <3>1, <3>3, <4>1, <4>2
    <3>6. CASE waiting # {}
      <4>1. (ThreadRuns(q, u)' <=> u = new) /\ (new \in k.proc[q].ready \/ new \in woken)
        BY <1>5, <1>7, <1>9, <1>10, <2>3, <3>6
      <4>2. ThreadRuns(q, u) <=> u = Tid
        BY <1>10, <2>3
      <4>3. waits[q][Tid] = NoWait /\ Tid \notin k.proc[q].ready
        BY <1>3, <2>3
      <4>4. CASE u \in woken
        BY <2>2, <3>1, <3>2, <3>3, <3>4, <4>1, <4>2, <4>3, <4>4
      <4>5. CASE u \notin woken
        BY <2>2, <3>1, <3>2, <3>3, <3>4, <4>1, <4>2, <4>3, <4>5
      <4> QED
        BY <4>4, <4>5
    <3> QED
      BY <3>5, <3>6
  <2>4. CASE q = KernelPid
    <3>1. waits'[q][u] = waits[q][u] /\ waits[q][u] = NoWait
      BY <1>0, <1>3, <1>8, <2>4 DEF Sched, ParentOK
    <3>2. u \in k'.proc[q].threads <=> u = INITIAL_TID
      BY <1>6, <2>4
    <3>3. u \in k'.proc[q].ready <=> u = INITIAL_TID /\ waiting # {}
      BY <1>6, <2>4
    <3>4. ThreadRuns(q, u)' <=> waiting = {} /\ u = INITIAL_TID
      BY <1>3, <1>7, <1>9, <1>10, <2>4
    <3> QED
      BY <3>1, <3>2, <3>3, <3>4
  <2>5. CASE q \notin {KernelPid, Pid}
    <3>1. k'.proc[q] = k.proc[q] /\ waits'[q][u] = waits[q][u] /\ ~ThreadRuns(q, u) /\ ~ThreadRuns(q, u)'
      BY <1>6, <1>8, <1>9, <1>10, <2>5
    <3> QED
      BY <2>2, <3>1
  <2> QED
    BY <2>3, <2>4, <2>5
<1>12. RunningOK'
  <2>1. CASE waiting = {}
    BY <1>6, <1>7, <1>9, <1>10, <2>1 DEF RunningOK
  <2>2. CASE waiting # {}
    <3>1. new \in k.proc[Pid].threads /\ new # Tid
      BY <1>3, <1>4, <1>5, <1>7, <2>2
    <3> QED
      BY <1>6, <1>9, <1>10, <2>2, <3>1 DEF RunningOK
  <2> QED
    BY <2>1, <2>2
<1>13. ParentOK'
  <2>1. \A t \in TIDs : waits'[KernelPid][t] = NoWait
    BY <1>0, <1>3, <1>8 DEF Sched, ParentOK
  <2>2. SWITCHTO_CALLER # Nobody
    BY <1>0, <1>3 DEF Sched, ParentOK
  <2> QED
    BY <1>0, <1>2, <1>3, <1>6, <1>9, <1>10, <2>1, <2>2 DEF Sched, ParentOK
<1>14. TypeOK'
  BY <1>0, <1>2, <1>6, <1>8, TypeKept
<1>15. SameWaits(waits, waits', "message") /\ SameWaits(waits, waits', "reply")
  BY <1>4, <1>8, WaitKinds DEF SameWaits
<1>16. Sched'
  BY <1>6, <1>11, <1>12, <1>13 DEF Sched
<1> QED
  BY <1>2, <1>6, <1>14, <1>15, <1>16, QuietStep

\* CreateProcess, where a PID is not used again.
LEMMA CreateProcessStep ==
    ASSUME IInv, Lasting, CreateProcess
    PROVE  IInv'
<1>0. /\ TypeOK /\ Sched /\ TableOK(k) /\ servers \in ServerTable /\ waits \in WaitTable
      /\ ParkedIn(k, servers, waits) /\ EntriesIn(k, servers, waits)
  BY IInvParts
<1>1. InUser /\ FreePids(k) # {} /\ k' = create_process(k)
      /\ UNCHANGED <<servers, SWITCHTO_CALLER, ORIGINAL, PREVIOUS_PAIR, last_pid, waits>>
  BY DEF CreateProcess
<1>2. Mortal = {}
  BY DEF Lasting, CreateProcess
<1>3. PICK p \in PIDs : ProcessCreated(k, create_process(k), p)
  BY <1>0, <1>1, CreateProcessEffect
<1>4. /\ ~Alive(k, p) /\ TableOK(k') /\ k'.pid = k.pid /\ p # k.pid
      /\ k'.proc[p].threads = {INITIAL_TID} /\ k'.proc[p].ready = {INITIAL_TID}
      /\ Alive(k', p) /\ \A q \in PIDs : q # p => k'.proc[q] = k.proc[q]
  BY <1>1, <1>3 DEF ProcessCreated
<1>5. k.pid \in PIDs /\ PREVIOUS_PAIR = Nobody /\ ~in_irq
  BY <1>0, <1>1, UserFacts DEF Pid
<1>6. /\ Pid' = Pid /\ Tid' = Tid /\ ~in_irq'
      /\ \A q \in PIDs, u \in TIDs : ThreadRuns(q, u)' <=> ThreadRuns(q, u)
  <2>1. Pid' = Pid /\ Tid' = Tid /\ ~in_irq'
    BY <1>1, <1>4, <1>5 DEF Pid, Tid, in_irq
  <2> QED
    BY <1>5, <2>1 DEF ThreadRuns
<1>7. k.proc[p].threads = {}
  BY <1>0, <1>4, TableFacts DEF Alive, ProcessOK
<1>8. WaitsOK'
  <2>1. SUFFICES ASSUME NEW q \in PIDs, NEW u \in TIDs
                 PROVE  IF u \in k'.proc[q].threads
                        THEN IF u \in k'.proc[q].ready
                             THEN ~ThreadRuns(q, u)' /\ waits'[q][u] = NoWait
                             ELSE ThreadRuns(q, u)' <=> waits'[q][u] = NoWait
                        ELSE waits'[q][u] = NoWait
    BY DEF WaitsOK
  <2>2. IF u \in k.proc[q].threads
        THEN IF u \in k.proc[q].ready
             THEN ~ThreadRuns(q, u) /\ waits[q][u] = NoWait
             ELSE ThreadRuns(q, u) <=> waits[q][u] = NoWait
        ELSE waits[q][u] = NoWait
    BY <1>0 DEF Sched, WaitsOK
  <2>3. CASE q = p
    <3>1. waits'[q][u] = NoWait /\ ~ThreadRuns(q, u)
      BY <1>1, <1>4, <1>7, <2>2, <2>3 DEF ThreadRuns, Pid
    <3> QED
      BY <1>4, <1>6, <2>3, <3>1
  <2>4. CASE q # p
    BY <1>1, <1>4, <1>6, <2>2, <2>4
  <2> QED
    BY <2>3, <2>4
<1>9. RunningOK'
  <2>1. Tid \in k.proc[Pid].threads /\ k'.proc[Pid] = k.proc[Pid]
    BY <1>0, <1>4, <1>5 DEF Sched, RunningOK, Pid
  <2> QED
    BY <1>6, <2>1 DEF RunningOK
<1>10. ParentOK'
  BY <1>0, <1>1, <1>5, <1>6 DEF Sched, ParentOK
<1>11. TypeOK'
  BY <1>0, <1>1, <1>4, TypeKept
<1>12. ParkedIn(k', servers, waits) /\ EntriesIn(k', servers, waits)
  <2>1. \A q \in PIDs : Alive(k', q) <=> Alive(k, q) \/ q = p
    BY <1>4 DEF Alive
  <2> QED
    BY <1>0, <1>2, <1>4, <2>1, ProcessNew
<1>13. ParkedOK' /\ EntriesOK'
  BY <1>1, <1>12 DEF ParkedOK, EntriesOK
<1> QED
  BY <1>4, <1>8, <1>9, <1>10, <1>11, <1>13 DEF IInv

\* A process without servers terminates.
LEMMA TerminateProcessStep ==
    ASSUME IInv, Lasting, TerminateProcess
    PROVE  IInv'
<1>0. /\ TypeOK /\ Sched /\ TableOK(k) /\ servers \in ServerTable /\ waits \in WaitTable
      /\ ParkedIn(k, servers, waits) /\ EntriesIn(k, servers, waits)
  BY IInvParts
<1>1. InUser /\ Pid \in Mortal /\ k' = terminate(unschedule_thread(k, Pid, Tid), Pid)
      /\ servers' = [s \in ServerIdx |->
            IF servers[s] = NoServer \/ servers[s].pid = Pid THEN NoServer
            ELSE discard_messages_for_pid(servers[s], Pid)]
      /\ SWITCHTO_CALLER' = Nobody
      /\ waits' = [waits EXCEPT ![Pid] = [t \in TIDs |-> NoWait]]
      /\ UNCHANGED <<ORIGINAL, PREVIOUS_PAIR, last_pid>>
  BY DEF TerminateProcess
<1>2. Mortal # {} /\ Pid \notin Owners
  BY <1>1 DEF Lasting
<1>3. /\ Pid \in PIDs /\ Pid # KernelPid /\ Tid \in TIDs
      /\ Tid \in k.proc[Pid].threads /\ Tid \notin k.proc[Pid].ready
      /\ Pid = k.pid /\ Tid = k.proc[k.pid].tid
      /\ PREVIOUS_PAIR = Nobody /\ ~in_irq
      /\ k.proc[KernelPid].ready = {INITIAL_TID}
      /\ KernelPid \in PIDs /\ INITIAL_TID \in TIDs
  BY <1>0, <1>1, UserFacts, SmallNumbers DEF Pid, Tid
<1>4. ProcessTerminated(k, k', Pid)
  <2>1. /\ Tid = k.proc[k.pid].tid /\ Tid \notin k.proc[k.pid].ready
        /\ k.pid # KernelPid /\ k.proc[KernelPid].ready = {INITIAL_TID}
        /\ k' = terminate(unschedule_thread(k, k.pid, Tid), k.pid)
    BY <1>1, <1>3
  <2>2. ProcessTerminated(k, k', k.pid)
    BY <1>0, <2>1, TerminateEffect
  <2> QED
    BY <1>3, <2>2
<1>5. /\ TableOK(k') /\ k'.pid = KernelPid /\ k'.proc[KernelPid].tid = INITIAL_TID
      /\ k'.proc[KernelPid].ready = {} /\ k'.proc[KernelPid].threads = {INITIAL_TID}
      /\ ~Alive(k', Pid) /\ k'.proc[Pid].threads = {}
      /\ \A q \in PIDs : q \notin {KernelPid, Pid} => k'.proc[q] = k.proc[q]
      /\ \A q \in PIDs : q # Pid => (Alive(k', q) <=> Alive(k, q))
  BY <1>4 DEF ProcessTerminated
<1>6. /\ waits' \in WaitTable
      /\ \A q \in PIDs, u \in TIDs : waits'[q][u] = IF q = Pid THEN NoWait ELSE waits[q][u]
  <2>1. PICK row : row = [t \in TIDs |-> NoWait]
    OBVIOUS
  <2>2. row \in [TIDs -> Waits] /\ \A u \in TIDs : row[u] = NoWait
    BY <2>1, WaitKinds
  <2>3. waits' = [waits EXCEPT ![Pid] = row]
    BY <1>1, <2>1
  <2> HIDE DEF Pid
  <2>4. waits' \in WaitTable /\ waits'[Pid] = row /\ \A q \in PIDs : q # Pid => waits'[q] = waits[q]
    BY <1>0, <1>3, <2>2, <2>3 DEF WaitTable
  <2> QED
    BY <2>2, <2>4
<1>7. /\ \A s \in ServerIdx : servers'[s] = IF servers[s] = NoServer THEN NoServer
                                            ELSE discard_messages_for_pid(servers[s], Pid)
      /\ servers' \in ServerTable
  <2>1. \A s \in ServerIdx : servers[s] # NoServer => servers[s].pid # Pid
    BY <1>0, <1>2 DEF ParkedIn
  <2>2. \A s \in ServerIdx : servers'[s] = IF servers[s] = NoServer THEN NoServer
                                            ELSE discard_messages_for_pid(servers[s], Pid)
    BY <1>1, <2>1
  <2>3. \A s \in ServerIdx : servers[s] # NoServer => discard_messages_for_pid(servers[s], Pid) \in ServerType
    BY <1>0, <1>3, ServerThere, DiscardEffect
  <2>4. servers' = [s \in ServerIdx |-> servers'[s]]
    BY <1>1
  <2> QED
    BY <2>2, <2>3, <2>4 DEF ServerTable
<1>8. ParkedOK' /\ EntriesOK'
  <2>1. \A q \in PIDs : Alive(k', q) <=> Alive(k, q) /\ q # Pid
    BY <1>3, <1>5
  <2>2. ParkedIn(k', servers', waits') /\ EntriesIn(k', servers', waits')
    BY <1>0, <1>2, <1>3, <1>6, <1>7, <2>1, ProcessGone
  <2> QED
    BY <2>2 DEF ParkedOK, EntriesOK
<1>9. /\ Pid' = KernelPid /\ Tid' = INITIAL_TID /\ ~in_irq'
      /\ \A q \in PIDs, u \in TIDs : ThreadRuns(q, u)' <=> q = KernelPid /\ u = INITIAL_TID
      /\ \A q \in PIDs, u \in TIDs : ThreadRuns(q, u) <=> q = Pid /\ u = Tid
  <2>1. Pid' = KernelPid /\ Tid' = INITIAL_TID /\ ~in_irq'
    BY <1>1, <1>3, <1>5 DEF Pid, Tid, in_irq
  <2> QED
    BY <1>3, <2>1 DEF ThreadRuns
<1>10. WaitsOK'
  <2>1. SUFFICES ASSUME NEW q \in PIDs, NEW u \in TIDs
                 PROVE  IF u \in k'.proc[q].threads
                        THEN IF u \in k'.proc[q].ready
                             THEN ~ThreadRuns(q, u)' /\ waits'[q][u] = NoWait
                             ELSE ThreadRuns(q, u)' <=> waits'[q][u] = NoWait
                        ELSE waits'[q][u] = NoWait
    BY DEF WaitsOK
  <2>2. IF u \in k.proc[q].threads
        THEN IF u \in k.proc[q].ready
             THEN ~ThreadRuns(q, u) /\ waits[q][u] = NoWait
             ELSE ThreadRuns(q, u) <=> waits[q][u] = NoWait
        ELSE waits[q][u] = NoWait
    BY <1>0 DEF Sched, WaitsOK
  <2>3. CASE q = Pid
    BY <1>5, <1>6, <2>3
  <2>4. CASE q = KernelPid
    <3>1. waits'[q][u] = NoWait
      BY <1>0, <1>3, <1>6, <2>4 DEF Sched, ParentOK
    <3> QED
      BY <1>5, <1>9, <2>4, <3>1
  <2>5. CASE q \notin {KernelPid, Pid}
    BY <1>5, <1>6, <1>9, <2>2, <2>5
  <2> QED
    BY <2>3, <2>4, <2>5
<1>11. RunningOK'
  BY <1>5, <1>9 DEF RunningOK
<1>12. ParentOK'
  BY <1>0, <1>1, <1>3, <1>6, <1>9 DEF Sched, ParentOK
<1>13. TypeOK'
  BY <1>0, <1>1, <1>5, <1>6, <1>7, TypeKept
<1> QED
  BY <1>5, <1>8, <1>10, <1>11, <1>12, <1>13 DEF IInv

-----------------------------------------------------------------------------
(* Servers come and go *)

\* A step that leaves the scheduler alone.
LEMMA SchedSame ==
    ASSUME Sched, UNCHANGED <<k, SWITCHTO_CALLER, ORIGINAL, PREVIOUS_PAIR, waits>>
    PROVE  Sched'
BY DEF Sched, RunningOK, ParentOK, WaitsOK, ThreadRuns, in_irq, Pid, Tid

\* CreateServer.
LEMMA CreateServerStep ==
    ASSUME IInv, NEW s \in ServerIdx, CreateServer(s)
    PROVE  IInv'
<1>0. /\ TypeOK /\ Sched /\ TableOK(k) /\ servers \in ServerTable /\ waits \in WaitTable
      /\ ParkedIn(k, servers, waits) /\ EntriesIn(k, servers, waits)
  BY IInvParts
<1>1. /\ InUser /\ Pid \in Owners /\ servers[s] = NoServer
      /\ servers' = [servers EXCEPT ![s] = init(Pid, s)]
      /\ UNCHANGED <<k, SWITCHTO_CALLER, ORIGINAL, PREVIOUS_PAIR, last_pid, waits>>
  BY DEF CreateServer
<1>2. Pid \in PIDs /\ Alive(k, Pid)
  BY <1>0, <1>1, UserFacts, TableFacts DEF Alive, Pid
<1>3. PICK x : x = init(Pid, s)
  OBVIOUS
<1>4. x \in ServerType /\ x.pid = Pid /\ x.ready_threads = {} /\ \A i \in Slots : x.queue[i] = Empty
  BY <1>2, <1>3, InitEffect
<1>5. Put1(servers, servers', s, x)
  BY <1>0, <1>1, <1>3, <1>4, ServerPut
<1>6. ParkedIn(k, servers', waits) /\ EntriesIn(k, servers', waits)
  BY <1>0, <1>1, <1>2, <1>4, <1>5, ServerNew
<1>7. ParkedOK' /\ EntriesOK'
  BY <1>1, <1>6 DEF ParkedOK, EntriesOK
<1>8. TypeOK'
  BY <1>0, <1>1, <1>5, TypeKept DEF Put1
<1>9. Sched'
  BY <1>0, <1>1, SchedSame
<1> QED
  BY <1>7, <1>8, <1>9 DEF IInv, Sched

\* The threads that DestroyServer wakes are the ones that wait at the server.
LEMMA WokenByDestroy ==
    ASSUME IInv, Lasting, NEW s \in ServerIdx, DestroyServer(s),
           NEW woken, woken = BlockedClients(s) \cup ({Pid} \X servers[s].ready_threads)
    PROVE  /\ \A x \in woken : \E q \in PIDs : \E u \in TIDs :
                 x = <<q, u>> /\ waits[q][u] \in {WaitFor("reply", s), WaitFor("message", s)}
           /\ \A q \in PIDs, u \in TIDs :
                 waits[q][u] \in {WaitFor("reply", s), WaitFor("message", s)} => <<q, u>> \in woken
<1>0. /\ TypeOK /\ Sched /\ TableOK(k) /\ servers \in ServerTable /\ waits \in WaitTable
      /\ ParkedIn(k, servers, waits) /\ EntriesIn(k, servers, waits)
  BY IInvParts
<1>1. /\ InUser /\ servers[s] # NoServer /\ servers[s].pid = Pid /\ Mortal = {}
      /\ \A i \in Slots : ~is_in_server(servers[s].queue[i])
  BY DEF DestroyServer, Owned, ServerPid, Lasting
<1>2. Pid \in PIDs
  BY <1>0, <1>1, ServerThere
<1> DEFINE kinds == LendKinds \cup LendTerminatedKinds \cup {"BlockingScalarMessage", "BlockingScalarTerminated"}
           e(i) == servers[s].queue[i]
<1>3. \A i \in Slots : e(i) \in QueuedMessage /\ EntryOK(k, waits, s, e(i)) /\ ~is_in_server(e(i))
  BY <1>0, <1>1, ServerThere DEF EntriesIn
<1>4. BlockedClients(s) = {<<e(i).pid, e(i).tid>> : i \in {j \in Slots : e(j).kind \in kinds}}
  BY DEF BlockedClients
<1> HIDE DEF e
<1>5. ASSUME NEW i \in Slots
      PROVE  e(i).kind \in kinds <=> Answered(e(i))
  <2>1. CASE e(i) = Empty
    <3>1. e(i).kind = "Empty"
      BY <2>1 DEF Empty
    <3> QED
      BY <2>1, <3>1 DEF Answered, LendKinds, LendTerminatedKinds
  <2>2. CASE e(i) # Empty
    <3>1. e(i) \in EntryType /\ e(i).kind \in UndeliveredKinds \cup WaitingKinds
      BY <1>3, <2>2, EntryFields DEF EntryType
    <3>2. e(i).kind \notin WaitingKinds
      BY <1>3 DEF is_in_server
    <3> QED
      BY <2>2, <3>1, <3>2 DEF Answered, UndeliveredKinds, LendKinds, LendTerminatedKinds
  <2> QED
    BY <2>1, <2>2
<1> HIDE DEF kinds
<1>6. ASSUME NEW i \in Slots, Answered(e(i))
      PROVE  e(i).pid \in PIDs /\ e(i).tid \in TIDs /\ waits[e(i).pid][e(i).tid] = WaitFor("reply", s)
  <2>1. e(i).pid \in PIDs
    BY <1>3, <1>6, EntryFields DEF EntryType, Answered
  <2> QED
    BY <1>1, <1>3, <1>6, <2>1 DEF EntryOK
<1>7. ASSUME NEW x \in woken
      PROVE  \E q \in PIDs : \E u \in TIDs :
                 x = <<q, u>> /\ waits[q][u] \in {WaitFor("reply", s), WaitFor("message", s)}
  <2>1. CASE x \in BlockedClients(s)
    <3>1. PICK i \in Slots : e(i).kind \in kinds /\ x = <<e(i).pid, e(i).tid>>
      BY <1>4, <2>1
    <3> QED
      BY <1>5, <1>6, <3>1
  <2>2. CASE x \in {Pid} \X servers[s].ready_threads
    <3>1. PICK u \in servers[s].ready_threads : x = <<Pid, u>>
      BY <2>2
    <3>2. u \in TIDs /\ waits[Pid][u] = WaitFor("message", s)
      BY <1>0, <1>1 DEF ParkedIn
    <3> QED
      BY <1>2, <3>1, <3>2
  <2> QED
    BY <1>7, <2>1, <2>2
<1>8. ASSUME NEW q \in PIDs, NEW u \in TIDs, waits[q][u] \in {WaitFor("reply", s), WaitFor("message", s)}
      PROVE  <<q, u>> \in woken
  <2>1. CASE waits[q][u] = WaitFor("reply", s)
    <3>1. PICK i \in Slots : From(e(i), q, u)
      BY <1>0, <2>1 DEF EntriesIn, e
    <3>2. e(i).kind \in kinds /\ <<q, u>> = <<e(i).pid, e(i).tid>>
      BY <1>5, <3>1 DEF From
    <3> QED
      BY <1>4, <3>2
  <2>2. CASE waits[q][u] = WaitFor("message", s)
    BY <1>0, <1>1, <2>2 DEF ParkedIn
  <2> QED
    BY <1>8, <2>1, <2>2
<1> QED
  BY <1>7, <1>8

\* DestroyServer: everyone who waits at the server is woken, once.
LEMMA DestroyServerStep ==
    ASSUME IInv, Lasting, NEW s \in ServerIdx, DestroyServer(s)
    PROVE  IInv'
<1>0. /\ TypeOK /\ Sched /\ TableOK(k) /\ servers \in ServerTable /\ waits \in WaitTable
      /\ ParkedIn(k, servers, waits) /\ EntriesIn(k, servers, waits)
  BY IInvParts
<1>1. PICK woken : woken = BlockedClients(s) \cup ({Pid} \X servers[s].ready_threads)
  OBVIOUS
<1>2. /\ InUser /\ servers' = [servers EXCEPT ![s] = NoServer]
      /\ k' = AllReadied(woken)
      /\ waits' = [p \in PIDs |-> [t \in TIDs |-> IF <<p, t>> \in woken THEN NoWait ELSE waits[p][t]]]
      /\ UNCHANGED <<SWITCHTO_CALLER, ORIGINAL, PREVIOUS_PAIR, last_pid>>
  BY <1>1 DEF DestroyServer
<1>3. /\ \A x \in woken : \E q \in PIDs : \E u \in TIDs :
            x = <<q, u>> /\ waits[q][u] \in {WaitFor("reply", s), WaitFor("message", s)}
      /\ \A q \in PIDs, u \in TIDs :
            waits[q][u] \in {WaitFor("reply", s), WaitFor("message", s)} => <<q, u>> \in woken
  BY <1>1, WokenByDestroy
<1>4. \A q \in PIDs, u \in TIDs :
            <<q, u>> \in woken <=> waits[q][u] \in {WaitFor("reply", s), WaitFor("message", s)}
  <2>1. SUFFICES ASSUME NEW q \in PIDs, NEW u \in TIDs, <<q, u>> \in woken
                 PROVE  waits[q][u] \in {WaitFor("reply", s), WaitFor("message", s)}
    BY <1>3
  <2>2. PICK p \in PIDs : \E t \in TIDs :
            <<q, u>> = <<p, t>> /\ waits[p][t] \in {WaitFor("reply", s), WaitFor("message", s)}
    BY <1>3, <2>1
  <2> QED
    BY <2>2
<1>5. \A q \in PIDs, u \in TIDs : <<q, u>> \in woken =>
         u \in k.proc[q].threads \ k.proc[q].ready /\ ~ThreadRuns(q, u) /\ q # KernelPid
  BY <1>0, <1>4, WaitingFacts, WaitKinds
<1>6. Moves(k, k', k.pid, k.proc[k.pid].tid, woken, {})
  <2>1. \A x \in woken : \E q \in PIDs : \E u \in k.proc[q].threads \ k.proc[q].ready : x = <<q, u>>
    BY <1>3, <1>5
  <2> QED
    BY <1>0, <1>2, <2>1, AllReadiedMoves
<1>7. /\ waits' \in WaitTable
      /\ \A q \in PIDs, u \in TIDs :
            waits'[q][u] = IF waits[q][u] \in {WaitFor("reply", s), WaitFor("message", s)}
                           THEN NoWait ELSE waits[q][u]
  <2>1. waits' \in WaitTable /\ \A q \in PIDs, u \in TIDs :
            waits'[q][u] = IF <<q, u>> \in woken THEN NoWait ELSE waits[q][u]
    BY <1>0, <1>2, WaitKinds DEF WaitTable
  <2> QED
    BY <1>4, <2>1
<1>8. Put1(servers, servers', s, NoServer)
  BY <1>0, <1>2, ServerPut
<1>9. ParkedIn(k, servers', waits') /\ EntriesIn(k, servers', waits')
  BY <1>0, <1>7, <1>8, ServerGone
<1>10. /\ TableOK(k') /\ SameAlive(k, k') /\ Pid' = Pid /\ Tid' = Tid
       /\ PREVIOUS_PAIR = Nobody /\ ~in_irq /\ ~in_irq' /\ Pid \in PIDs /\ Tid \in k.proc[Pid].threads
       /\ \A q \in PIDs : /\ k'.proc[q].threads = k.proc[q].threads
                          /\ \A u \in TIDs : u \in k'.proc[q].ready <=> u \in k.proc[q].ready \/ <<q, u>> \in woken
  <2>1. PREVIOUS_PAIR = Nobody /\ ~in_irq /\ Pid \in PIDs /\ Tid \in k.proc[Pid].threads
    BY <1>0, <1>2, UserFacts
  <2>2. TableOK(k') /\ SameAlive(k, k') /\ Pid' = Pid /\ Tid' = Tid /\ ~in_irq'
    BY <1>2, <1>6, <2>1 DEF Moves, SameAlive, Pid, Tid, in_irq
  <2>3. \A q \in PIDs : /\ k'.proc[q].threads = k.proc[q].threads
                        /\ \A u \in TIDs : u \in k'.proc[q].ready <=> u \in k.proc[q].ready \/ <<q, u>> \in woken
    BY <1>6 DEF Moves
  <2> QED
    BY <2>1, <2>2, <2>3
<1>11. ParkedOK' /\ EntriesOK'
  <2>1. servers' \in ServerTable
    BY <1>8 DEF Put1
  <2>2. ParkedIn(k', servers', waits') /\ EntriesIn(k', servers', waits')
    BY <1>9, <1>10, <2>1, ParkedKept, EntriesKept, SameWaitsSame
  <2> QED
    BY <2>2 DEF ParkedOK, EntriesOK
<1>12. WaitsOK'
  <2>1. SUFFICES ASSUME NEW q \in PIDs, NEW u \in TIDs
                 PROVE  IF u \in k'.proc[q].threads
                        THEN IF u \in k'.proc[q].ready
                             THEN ~ThreadRuns(q, u)' /\ waits'[q][u] = NoWait
                             ELSE ThreadRuns(q, u)' <=> waits'[q][u] = NoWait
                        ELSE waits'[q][u] = NoWait
    BY DEF WaitsOK
  <2>2. IF u \in k.proc[q].threads
        THEN IF u \in k.proc[q].ready
             THEN ~ThreadRuns(q, u) /\ waits[q][u] = NoWait
             ELSE ThreadRuns(q, u) <=> waits[q][u] = NoWait
        ELSE waits[q][u] = NoWait
    BY <1>0 DEF Sched, WaitsOK
  <2>3. ThreadRuns(q, u)' <=> ThreadRuns(q, u)
    BY <1>10 DEF ThreadRuns
  <2>4. CASE <<q, u>> \in woken
    <3>1. waits'[q][u] = NoWait /\ u \in k'.proc[q].threads /\ u \in k'.proc[q].ready /\ ~ThreadRuns(q, u)
      BY <1>4, <1>5, <1>7, <1>10, <2>4
    <3> QED
      BY <2>3, <3>1
  <2>5. CASE <<q, u>> \notin woken
    <3>1. waits'[q][u] = waits[q][u] /\ (u \in k'.proc[q].ready <=> u \in k.proc[q].ready)
          /\ (u \in k'.proc[q].threads <=> u \in k.proc[q].threads)
      BY <1>4, <1>7, <1>10, <2>5
    <3> QED
      BY <2>2, <2>3, <3>1
  <2> QED
    BY <2>4, <2>5
<1>13. RunningOK'
  BY <1>10 DEF RunningOK
<1>14. ParentOK'
  <2>1. \A t \in TIDs : waits'[KernelPid][t] = NoWait
    BY <1>0, <1>7, SmallNumbers DEF Sched, ParentOK
  <2> QED
    BY <1>0, <1>2, <1>10, <2>1 DEF Sched, ParentOK
<1>15. TypeOK'
  BY <1>0, <1>2, <1>7, <1>8, <1>10, TypeKept DEF Put1
<1> QED
  BY <1>10, <1>11, <1>12, <1>13, <1>14, <1>15 DEF IInv

-----------------------------------------------------------------------------
(* Messages *)

\* The end of a step that passes a message.
LEMMA MessageStep ==
    ASSUME TypeOK, Sched', SameAlive(k, k'), servers' \in ServerTable, waits' \in WaitTable,
           SWITCHTO_CALLER' = SWITCHTO_CALLER \/ SWITCHTO_CALLER' = Nobody,
           UNCHANGED <<ORIGINAL, PREVIOUS_PAIR, last_pid>>,
           ParkedIn(k, servers', waits'), EntriesIn(k, servers', waits')
    PROVE  IInv'
<1>1. TableOK(k')
  BY DEF Sched
<1>2. TypeOK'
  BY <1>1, TypeKept
<1>3. ParkedIn(k', servers', waits') /\ EntriesIn(k', servers', waits')
  BY ParkedKept, EntriesKept, SameWaitsSame
<1> QED
  BY <1>2, <1>3 DEF IInv, Sched, ParkedOK, EntriesOK

\* SameAlive is reflexive.
LEMMA SameAliveSame ==
    ASSUME NEW kk
    PROVE  SameAlive(kk, kk)
BY DEF SameAlive

\* An entry that stays keeps its sender.
LEMMA SameSender ==
    ASSUME NEW kk, NEW e
    PROVE  KeepsSender(kk, e, e)
BY DEF KeepsSender

\* An entry that nobody answers takes an empty slot.
LEMMA UnansweredSender ==
    ASSUME NEW kk, NEW e, ~Answered(e)
    PROVE  KeepsSender(kk, Empty, e)
BY DEF KeepsSender, Answered

\* A message is delivered: who waits for the answer still does.
LEMMA DeliveredSender ==
    ASSUME NEW kk, NEW w, NEW s, NEW e \in EntryType, Undelivered(e), EntryOK(kk, w, s, e)
    PROVE  KeepsSender(kk, e, DeliveredEntry(e))
<1>1. ~Answered(Empty) /\ e # Empty
  BY EntryFields DEF Answered, EntryType, Empty, UndeliveredKinds, WaitingKinds, LendKinds, LendTerminatedKinds
<1>2. CASE e.kind \in LendKinds \cup LendTerminatedKinds
  <2>1. PICK x : x = [e EXCEPT !.kind = "WaitingReturnMemory"]
    OBVIOUS
  <2>2. DeliveredEntry(e) = x
    BY <1>2, <2>1 DEF DeliveredEntry, LendKinds, LendTerminatedKinds
  <2>3. x.kind = "WaitingReturnMemory" /\ x.pid = e.pid /\ x.tid = e.tid
    BY <2>1 DEF EntryType
  <2>4. Answered(e)
    BY <1>1, <1>2 DEF Answered, LendKinds, LendTerminatedKinds
  <2>5. Answered(x)
    BY <2>3 DEF Answered, Empty
  <2>6. x.kind # "WaitingForget" /\ x.kind \notin TerminatedKinds
    BY <2>3 DEF TerminatedKinds, LendTerminatedKinds
  <2> QED
    BY <2>2, <2>3, <2>4, <2>5, <2>6 DEF KeepsSender
<1>3. CASE e.kind = "BlockingScalarMessage"
  <2>1. PICK x : x = [e EXCEPT !.kind = "WaitingReturnScalar"]
    OBVIOUS
  <2>2. DeliveredEntry(e) = x
    BY <1>3, <2>1 DEF DeliveredEntry, LendKinds, LendTerminatedKinds
  <2>3. x.kind = "WaitingReturnScalar" /\ x.pid = e.pid /\ x.tid = e.tid
    BY <2>1 DEF EntryType
  <2>4. Answered(e)
    BY <1>1, <1>3 DEF Answered
  <2>5. Answered(x)
    BY <2>3 DEF Answered, Empty
  <2>6. x.kind # "WaitingForget" /\ x.kind \notin TerminatedKinds
    BY <2>3 DEF TerminatedKinds, LendTerminatedKinds
  <2> QED
    BY <2>2, <2>3, <2>4, <2>5, <2>6 DEF KeepsSender
<1>4. CASE e.kind \notin LendKinds \cup LendTerminatedKinds \cup {"BlockingScalarMessage"}
  <2>1. DeliveredEntry(e) = Empty
    BY <1>4 DEF DeliveredEntry
  <2>2. e.kind \in {"ScalarMessage", "MemoryMessageSend", "BlockingScalarTerminated"}
    BY <1>4 DEF Undelivered, UndeliveredKinds
  <2>3. ~(Answered(e) /\ Alive(kk, e.pid))
    BY <2>2 DEF Answered, EntryOK, TerminatedKinds
  <2> QED
    BY <1>1, <2>1, <2>3 DEF KeepsSender
<1> QED
  BY <1>2, <1>3, <1>4

\* An entry in the server is answered.
LEMMA InServerAnswered ==
    ASSUME NEW e \in QueuedMessage, is_in_server(e)
    PROVE  Answered(e) /\ e.pid \in PIDs
BY EntryFields DEF Answered, EntryType, is_in_server, WaitingKinds

\* take_next_message, in the tables.
LEMMA TakeNextTables ==
    ASSUME NEW sv \in ServerTable, NEW sv1, NEW w, NEW s \in ServerIdx, NEW x,
           ParkedIn(k, sv, w), EntriesIn(k, sv, w), WaitersAlive(k, w),
           sv[s] # NoServer, CanTakeNext(sv[s]), x = take_next_message(sv[s]), Put1(sv, sv1, s, x)
    PROVE  ParkedIn(k, sv1, w) /\ EntriesIn(k, sv1, w)
<1>1. PICK i \in Slots : /\ sv[s].queue[i] \in EntryType /\ Undelivered(sv[s].queue[i])
                         /\ SlotSet(sv[s], x, i, DeliveredEntry(sv[s].queue[i]))
  BY ServerThere, TakeNextSlot
<1>2. x \in ServerType /\ x.pid = sv[s].pid /\ x.ready_threads = sv[s].ready_threads
  BY <1>1 DEF SlotSet
<1>3. ParkedIn(k, sv1, w)
  BY <1>2, ParkedPut
<1>4. ASSUME NEW j \in Slots PROVE KeepsSender(k, sv[s].queue[j], x.queue[j])
  <2>1. CASE j = i
    <3>1. EntryOK(k, w, s, sv[s].queue[i])
      BY DEF EntriesIn
    <3>2. KeepsSender(k, sv[s].queue[i], DeliveredEntry(sv[s].queue[i]))
      BY <1>1, <3>1, DeliveredSender
    <3> QED
      BY <1>1, <2>1, <3>2 DEF SlotSet
  <2>2. CASE j # i
    <3>1. x.queue[j] = sv[s].queue[j]
      BY <1>1, <2>2 DEF SlotSet
    <3> QED
      BY <3>1, SameSender
  <2> QED
    BY <2>1, <2>2
<1>5. EntriesIn(k, sv1, w)
  BY <1>2, <1>4, EntriesPut
<1> QED
  BY <1>3, <1>5

\* ReceiveMessage takes a message from the queue.
LEMMA ReceiveNextStep ==
    ASSUME IInv, NEW s \in ServerIdx, ReceiveNext(s)
    PROVE  IInv'
<1>0. /\ TypeOK /\ Sched /\ TableOK(k) /\ servers \in ServerTable /\ waits \in WaitTable
      /\ ParkedIn(k, servers, waits) /\ EntriesIn(k, servers, waits) /\ WaitersAlive(k, waits)
  BY IInvParts
<1>1. /\ servers[s] # NoServer /\ CanTakeNext(servers[s])
      /\ servers' = [servers EXCEPT ![s] = take_next_message(servers[s])]
      /\ UNCHANGED <<k, SWITCHTO_CALLER, ORIGINAL, PREVIOUS_PAIR, last_pid, waits>>
  BY DEF ReceiveNext, Owned
<1>2. PICK x : x = take_next_message(servers[s])
  OBVIOUS
<1>3. x \in ServerType
  BY <1>0, <1>1, <1>2, ServerThere, TakeNextSlot DEF SlotSet
<1>4. Put1(servers, servers', s, x)
  BY <1>0, <1>1, <1>2, <1>3, ServerPut
<1>5. ParkedIn(k, servers', waits) /\ EntriesIn(k, servers', waits)
  BY <1>0, <1>1, <1>2, <1>4, TakeNextTables
<1>6. Sched' /\ SameAlive(k, k')
  BY <1>0, <1>1, SchedSame, SameAliveSame
<1>7. servers' \in ServerTable /\ ParkedIn(k, servers', waits') /\ EntriesIn(k, servers', waits')
      /\ waits' \in WaitTable
  BY <1>0, <1>1, <1>4, <1>5 DEF Put1
<1> QED
  BY <1>0, <1>1, <1>6, <1>7, MessageStep

\* park_thread, in the tables: thread t of the server's process, which waited for nothing.
LEMMA ParkTables ==
    ASSUME NEW sv \in ServerTable, NEW sv1, NEW w, NEW w1, NEW s \in ServerIdx, NEW x, NEW t \in TIDs,
           ParkedIn(k, sv, w), EntriesIn(k, sv, w), WaitersAlive(k, w),
           sv[s] # NoServer, x = park_thread(sv[s], t), Put1(sv, sv1, s, x),
           w[sv[s].pid][t] = NoWait, Waits1(w, w1, sv[s].pid, t, WaitFor("message", s))
    PROVE  /\ ParkedIn(k, sv1, w1) /\ EntriesIn(k, sv1, w1)
           /\ t \notin sv[s].ready_threads
<1>1. /\ x \in ServerType /\ x.pid = sv[s].pid /\ x.queue = sv[s].queue
      /\ x.ready_threads = sv[s].ready_threads \cup {t} /\ sv[s].pid \in PIDs
  BY ServerThere, ParkEffect
<1>2. ParkedIn(k, sv1, w1)
  BY <1>1, ParkedAdd
<1>3. EntriesIn(k, sv1, w)
  <2>1. \A i \in Slots : KeepsSender(k, sv[s].queue[i], x.queue[i])
    BY <1>1, SameSender
  <2> QED
    BY <1>1, <2>1, EntriesPut
<1>4. SameWaits(w, w1, "reply")
  BY <1>1, SameWaitsPut, WaitKinds
<1>5. EntriesIn(k, sv1, w1)
  BY <1>3, <1>4, EntriesKept, SameAliveSame DEF Put1
<1>6. t \notin sv[s].ready_threads
  BY WaitKinds DEF ParkedIn
<1> QED
  BY <1>2, <1>5, <1>6

\* ReceiveMessage parks the thread; the assertion of park_thread holds.
LEMMA ReceiveParksStep ==
    ASSUME IInv, NEW s \in ServerIdx, ReceiveParks(s)
    PROVE  IInv'
<1>0. /\ TypeOK /\ Sched /\ TableOK(k) /\ servers \in ServerTable /\ waits \in WaitTable
      /\ ParkedIn(k, servers, waits) /\ EntriesIn(k, servers, waits) /\ WaitersAlive(k, waits)
  BY IInvParts
<1>1. /\ InUser /\ servers[s] # NoServer /\ servers[s].pid = Pid
      /\ servers' = [servers EXCEPT ![s] = park_thread(servers[s], Tid)]
      /\ k' = Assert(ReturnToKernel(k, KernelPid, AnyThread, FALSE), Tid \notin servers[s].ready_threads)
      /\ SWITCHTO_CALLER' = Nobody
      /\ waits' = Blocks(waits, Pid, Tid, WaitFor("message", s))
      /\ UNCHANGED <<ORIGINAL, PREVIOUS_PAIR, last_pid>>
  BY DEF ReceiveParks, Owned, ServerPid
<1>2. Pid \in PIDs /\ Tid \in TIDs /\ waits[Pid][Tid] = NoWait
  BY <1>0, <1>1, UserFacts
<1>3. PICK x, w : x = park_thread(servers[s], Tid) /\ w = WaitFor("message", s)
  OBVIOUS
<1>4. x \in ServerType /\ w \in Waits /\ w # NoWait
  BY <1>0, <1>1, <1>2, <1>3, ServerThere, ParkEffect, WaitKinds
<1>5. Put1(servers, servers', s, x)
  BY <1>0, <1>1, <1>3, <1>4, ServerPut
<1>6. Waits1(waits, waits', Pid, Tid, w)
  BY <1>0, <1>1, <1>2, <1>3, <1>4, BlocksPut
<1>7. /\ ParkedIn(k, servers', waits') /\ EntriesIn(k, servers', waits')
      /\ Tid \notin servers[s].ready_threads
  BY <1>0, <1>1, <1>2, <1>3, <1>5, <1>6, ParkTables
<1>8. k' = ReturnToKernel(k, KernelPid, AnyThread, FALSE)
  BY <1>1, <1>7 DEF Assert
<1>9. Moves(k, k', KernelPid, INITIAL_TID, {}, {<<KernelPid, INITIAL_TID>>})
  BY <1>0, <1>1, <1>8, ReturnMoves
<1>10. Sched' /\ \A q \in PIDs : Alive(k, q)' <=> Alive(k, q)
  BY <1>0, <1>1, <1>3, <1>4, <1>9, SchedBlock
<1>11. SameAlive(k, k')
  BY <1>10 DEF SameAlive, Alive
<1> QED
  BY <1>0, <1>1, <1>5, <1>6, <1>7, <1>10, <1>11, MessageStep DEF Put1, Waits1

\* A parked thread is a thread of the server's process that waits for its messages.
LEMMA AvailableFacts ==
    ASSUME NEW sv \in ServerTable, NEW w, NEW s \in ServerIdx, NEW t, ParkedIn(k, sv, w),
           sv[s] # NoServer, sv[s].ready_threads # {}, t = AvailableThread(sv[s])
    PROVE  /\ t \in sv[s].ready_threads /\ t \in TIDs /\ sv[s].pid \in PIDs
           /\ w[sv[s].pid][t] = WaitFor("message", s) /\ w[sv[s].pid][t] # NoWait
<1>1. sv[s] \in ServerType /\ sv[s].pid \in PIDs
  BY ServerThere
<1>2. t \in sv[s].ready_threads
  BY <1>1, AvailableEffect
<1>3. t \in TIDs /\ w[sv[s].pid][t] = WaitFor("message", s)
  BY <1>2 DEF ParkedIn
<1> QED
  BY <1>1, <1>2, <1>3, WaitKinds

\* take_available_thread, in the tables: thread t gets a message.
LEMMA TakeAvailableTables ==
    ASSUME NEW sv \in ServerTable, NEW sv1, NEW w, NEW w1, NEW s \in ServerIdx, NEW x, NEW t,
           ParkedIn(k, sv, w), EntriesIn(k, sv, w), WaitersAlive(k, w),
           sv[s] # NoServer, sv[s].ready_threads # {}, t = AvailableThread(sv[s]),
           x = take_available_thread(sv[s]), Put1(sv, sv1, s, x),
           Waits1(w, w1, sv[s].pid, t, NoWait)
    PROVE  ParkedIn(k, sv1, w1) /\ EntriesIn(k, sv1, w1)
<1>1. /\ t \in sv[s].ready_threads /\ t \in TIDs /\ sv[s].pid \in PIDs
      /\ w[sv[s].pid][t] = WaitFor("message", s)
  BY AvailableFacts
<1>2. /\ x \in ServerType /\ x.pid = sv[s].pid /\ x.queue = sv[s].queue
      /\ x.ready_threads = sv[s].ready_threads \ {t}
  BY ServerThere, AvailableEffect
<1>3. ParkedIn(k, sv1, w1)
  BY <1>1, <1>2, ParkedTake
<1>4. EntriesIn(k, sv1, w)
  <2>1. \A i \in Slots : KeepsSender(k, sv[s].queue[i], x.queue[i])
    BY <1>2, SameSender
  <2> QED
    BY <1>2, <2>1, EntriesPut
<1>5. SameWaits(w, w1, "reply")
  <2>1. \A r \in ServerIdx : w[sv[s].pid][t] # WaitFor("reply", r) /\ NoWait # WaitFor("reply", r)
    BY <1>1, WaitKinds
  <2> QED
    BY <1>1, <2>1, SameWaitsPut
<1>6. EntriesIn(k, sv1, w1)
  BY <1>4, <1>5, EntriesKept, SameAliveSame DEF Put1
<1> QED
  BY <1>3, <1>6

\* A message that wants no answer goes to a parked thread.
LEMMA SendDirectStep ==
    ASSUME IInv, NEW s \in ServerIdx, NEW m, servers[s] # NoServer, SendDirect(s, m)
    PROVE  IInv'
<1>0. /\ TypeOK /\ Sched /\ TableOK(k) /\ servers \in ServerTable /\ waits \in WaitTable
      /\ ParkedIn(k, servers, waits) /\ EntriesIn(k, servers, waits) /\ WaitersAlive(k, waits)
  BY IInvParts
<1>1. PICK t, x, p : t = AvailableThread(servers[s]) /\ x = take_available_thread(servers[s]) /\ p = servers[s].pid
  OBVIOUS
<1>2. /\ servers[s].ready_threads # {}
      /\ servers' = [servers EXCEPT ![s] = x]
      /\ k' = ready_thread(k, p, t)
      /\ waits' = set_thread_result(waits, p, t)
      /\ UNCHANGED <<SWITCHTO_CALLER, ORIGINAL, PREVIOUS_PAIR, last_pid>>
  BY <1>1 DEF SendDirect, ServerPid
<1>3. t \in TIDs /\ p \in PIDs /\ waits[p][t] # NoWait
  BY <1>0, <1>1, <1>2, AvailableFacts
<1>4. x \in ServerType
  BY <1>0, <1>1, <1>2, ServerThere, AvailableEffect
<1>5. Put1(servers, servers', s, x) /\ Waits1(waits, waits', p, t, NoWait)
  BY <1>0, <1>2, <1>3, <1>4, ServerPut, ResultPut
<1>6. ParkedIn(k, servers', waits') /\ EntriesIn(k, servers', waits')
  BY <1>0, <1>1, <1>2, <1>5, TakeAvailableTables
<1>7. Sched' /\ \A q \in PIDs : Alive(k, q)' <=> Alive(k, q)
  BY <1>0, <1>2, <1>3, SchedWake
<1>8. SameAlive(k, k')
  BY <1>7 DEF SameAlive, Alive
<1>9. servers' \in ServerTable /\ waits' \in WaitTable
  BY <1>5 DEF Put1, Waits1
<1> QED
  BY <1>0, <1>2, <1>6, <1>7, <1>8, <1>9, MessageStep

\* The kinds of entries for messages that want an answer, and for those that do not.
LEMMA MessageKinds ==
    ASSUME NEW m \in Messages
    PROVE  /\ Blocking(m.type) =>
                 /\ WaitingKind(m.type) \in {"WaitingReturnScalar", "WaitingReturnMemory"}
                 /\ QueuedKind(m.type) \in LendKinds \cup {"BlockingScalarMessage"}
           /\ ~Blocking(m.type) => QueuedKind(m.type) \in {"ScalarMessage", "MemoryMessageSend"}
<1>1. m.type \in {"Scalar", "BlockingScalar", "Move", "Borrow", "MutableBorrow"}
  BY KernelAssumption DEF Messages, MessageTypes
<1> QED
  BY <1>1 DEF Blocking, WaitingKind, QueuedKind, LendKinds

\* An entry of a message that wants an answer is that of a sender who waits.
LEMMA BlockingEntry ==
    ASSUME NEW e, NEW p, NEW t, FromThread(e, p, t),
           e.kind \in LendKinds \cup {"BlockingScalarMessage", "WaitingReturnScalar", "WaitingReturnMemory"}
    PROVE  From(e, p, t) /\ e.kind # "WaitingForget" /\ e.kind \notin TerminatedKinds
<1>1. e # Empty /\ e.pid = p /\ e.tid = t
  BY DEF FromThread, EntryType, Empty
<1> QED
  BY <1>1 DEF From, Answered, TerminatedKinds, LendKinds, LendTerminatedKinds

\* A sender blocks and is put into slot i of the queue.
LEMMA SenderTables ==
    ASSUME NEW sv \in ServerTable, NEW sv1, NEW w, NEW w1, NEW s \in ServerIdx, NEW x, NEW i, NEW e,
           NEW p \in PIDs, NEW t \in TIDs,
           ParkedIn(k, sv, w), EntriesIn(k, sv, w), sv[s] # NoServer,
           SlotSet(sv[s], x, i, e), sv[s].queue[i] = Empty, Put1(sv, sv1, s, x),
           From(e, p, t), e.kind # "WaitingForget", e.kind \notin TerminatedKinds,
           Alive(k, p), w[p][t] = NoWait, Waits1(w, w1, p, t, WaitFor("reply", s))
    PROVE  ParkedIn(k, sv1, w1) /\ EntriesIn(k, sv1, w1)
<1>1. x \in ServerType /\ x.pid = sv[s].pid /\ x.ready_threads = sv[s].ready_threads /\ i \in Slots
  BY DEF SlotSet
<1>2. ParkedIn(k, sv1, w)
  BY <1>1, ParkedPut
<1>3. SameWaits(w, w1, "message")
  <2>1. \A r \in ServerIdx : w[p][t] # WaitFor("message", r) /\ WaitFor("reply", s) # WaitFor("message", r)
    BY WaitKinds
  <2> QED
    BY <2>1, SameWaitsPut
<1>4. ParkedIn(k, sv1, w1)
  BY <1>2, <1>3, ParkedKept, SameAliveSame DEF Put1
<1>5. EntriesIn(k, sv1, w1)
  BY <1>1, EntriesAdd
<1> QED
  BY <1>4, <1>5

\* A message that wants an answer goes to a parked thread, and the CPU with it.
LEMMA SendDirectBlockingStep ==
    ASSUME IInv, InUser, NEW s \in ServerIdx, NEW m \in Messages, servers[s] # NoServer, SendDirectBlocking(s, m)
    PROVE  IInv'
<1>0. /\ TypeOK /\ Sched /\ TableOK(k) /\ servers \in ServerTable /\ waits \in WaitTable
      /\ ParkedIn(k, servers, waits) /\ EntriesIn(k, servers, waits) /\ WaitersAlive(k, waits)
  BY IInvParts
<1>1. PICK t, x, p, y : /\ t = AvailableThread(servers[s]) /\ x = take_available_thread(servers[s])
                        /\ p = servers[s].pid /\ y = queue_response(x, Pid, Tid, m)
  OBVIOUS
<1>2. PICK sv, w, wt : sv = [servers EXCEPT ![s] = x] /\ w = set_thread_result(waits, p, t) /\ wt = WaitFor("reply", s)
  OBVIOUS
<1>3. /\ servers[s].ready_threads # {} /\ CanQueueResponse(servers[s]) /\ Blocking(m.type)
      /\ servers' = [servers EXCEPT ![s] = y]
      /\ k' = activate_process_thread(ready_thread(k, p, t), Tid, p, t, FALSE)
      /\ waits' = Blocks(w, Pid, Tid, wt)
      /\ UNCHANGED <<SWITCHTO_CALLER, ORIGINAL, PREVIOUS_PAIR, last_pid>>
  BY <1>1, <1>2 DEF SendDirectBlocking, ServerPid
<1>4. t \in TIDs /\ p \in PIDs /\ waits[p][t] # NoWait
  BY <1>0, <1>1, <1>3, AvailableFacts
<1>5. Pid \in PIDs /\ Tid \in TIDs /\ waits[Pid][Tid] = NoWait /\ Tid \in k.proc[Pid].threads
  BY <1>0, UserFacts
<1>6. x \in ServerType /\ x.queue = servers[s].queue
  BY <1>0, <1>1, <1>3, ServerThere, AvailableEffect
<1>7. CanQueueResponse(x)
  BY <1>3, <1>6 DEF CanQueueResponse, EmptySlots
<1>8. PICK i \in Slots, e \in EntryType :
         /\ x.queue[i] = Empty /\ SlotSet(x, y, i, e)
         /\ FromThread(e, Pid, Tid) /\ e.kind = WaitingKind(m.type)
  BY <1>1, <1>5, <1>6, <1>7, QueueResponseSlot
<1>9. y \in ServerType
  BY <1>8 DEF SlotSet
<1>10. Put1(servers, sv, s, x) /\ Waits1(waits, w, p, t, NoWait)
  BY <1>0, <1>2, <1>4, <1>6, ServerPut, ResultPut
<1>11. ParkedIn(k, sv, w) /\ EntriesIn(k, sv, w)
  BY <1>0, <1>1, <1>3, <1>10, TakeAvailableTables
<1>12. sv \in ServerTable /\ sv[s] = x /\ x # NoServer /\ w \in WaitTable /\ w[Pid][Tid] = NoWait
  BY <1>4, <1>5, <1>6, <1>10, IsServer DEF Put1, Waits1
<1>13. Put1(servers, servers', s, y)
  BY <1>0, <1>3, <1>9, ServerPut
<1>14. Put1(sv, servers', s, y)
  BY <1>10, <1>13 DEF Put1
<1>15. wt \in Waits /\ wt # NoWait
  BY <1>2, WaitKinds
<1>16. Waits1(w, waits', Pid, Tid, wt)
  BY <1>3, <1>5, <1>12, <1>15, BlocksPut
<1>17. From(e, Pid, Tid) /\ e.kind # "WaitingForget" /\ e.kind \notin TerminatedKinds
  BY <1>3, <1>8, MessageKinds, BlockingEntry
<1>18. Alive(k, Pid)
  BY <1>0, <1>5, TableFacts DEF Alive, ProcessOK
<1>19. ParkedIn(k, servers', waits') /\ EntriesIn(k, servers', waits')
  <2>1. SlotSet(sv[s], y, i, e) /\ sv[s].queue[i] = Empty /\ sv[s] # NoServer
    BY <1>8, <1>12
  <2>2. Waits1(w, waits', Pid, Tid, WaitFor("reply", s))
    BY <1>2, <1>16
  <2> QED
    BY <1>5, <1>11, <1>12, <1>14, <1>17, <1>18, <2>1, <2>2, SenderTables
<1>20. Sched' /\ \A q \in PIDs : Alive(k, q)' <=> Alive(k, q)
  BY <1>0, <1>2, <1>3, <1>4, <1>15, SchedSwap
<1>21. SameAlive(k, k')
  BY <1>20 DEF SameAlive, Alive
<1>22. servers' \in ServerTable /\ waits' \in WaitTable
  BY <1>13, <1>16 DEF Put1, Waits1
<1> QED
  BY <1>0, <1>3, <1>19, <1>20, <1>21, <1>22, MessageStep

\* Where nobody waits for an answer, a message is queued and the sender carries on.
LEMMA SendQueuedStep ==
    ASSUME IInv, NEW s \in ServerIdx, NEW m \in Messages, servers[s] # NoServer, SendQueued(s, m),
           ~Blocking(m.type)
    PROVE  IInv'
<1>0. /\ TypeOK /\ Sched /\ TableOK(k) /\ servers \in ServerTable /\ waits \in WaitTable
      /\ ParkedIn(k, servers, waits) /\ EntriesIn(k, servers, waits) /\ WaitersAlive(k, waits)
  BY IInvParts
<1>1. PICK x : x = queue_message(servers[s], Pid, Tid, m)
  OBVIOUS
<1>2. /\ CanQueueMessage(servers[s])
      /\ servers' = [servers EXCEPT ![s] = x]
      /\ UNCHANGED <<k, SWITCHTO_CALLER, ORIGINAL, PREVIOUS_PAIR, last_pid, waits>>
  BY <1>1 DEF SendQueued
<1>3. Pid \in PIDs /\ Tid \in TIDs \cup {IRQ_TID}
  BY <1>0, TableFacts DEF Pid, Tid
<1>4. PICK i \in Slots, e \in EntryType :
         /\ servers[s].queue[i] = Empty /\ SlotSet(servers[s], x, i, e)
         /\ FromThread(e, Pid, Tid) /\ e.kind = QueuedKind(m.type)
  BY <1>0, <1>1, <1>2, <1>3, ServerThere, QueueMessageSlot
<1>5. x \in ServerType /\ x.pid = servers[s].pid /\ x.ready_threads = servers[s].ready_threads
  BY <1>4 DEF SlotSet
<1>6. Put1(servers, servers', s, x)
  BY <1>0, <1>2, <1>5, ServerPut
<1>7. ParkedIn(k, servers', waits)
  BY <1>0, <1>5, <1>6, ParkedPut
<1>8. ~Answered(e)
  BY <1>4, MessageKinds DEF Answered
<1>9. ASSUME NEW j \in Slots PROVE KeepsSender(k, servers[s].queue[j], x.queue[j])
  <2>1. CASE j = i
    BY <1>4, <1>8, <2>1, UnansweredSender DEF SlotSet
  <2>2. CASE j # i
    <3>1. x.queue[j] = servers[s].queue[j]
      BY <1>4, <2>2 DEF SlotSet
    <3> QED
      BY <3>1, SameSender
  <2> QED
    BY <2>1, <2>2
<1>10. EntriesIn(k, servers', waits)
  BY <1>0, <1>5, <1>6, <1>9, EntriesPut
<1>11. Sched' /\ SameAlive(k, k')
  BY <1>0, <1>2, SchedSame, SameAliveSame
<1>12. servers' \in ServerTable /\ ParkedIn(k, servers', waits') /\ EntriesIn(k, servers', waits')
       /\ waits' \in WaitTable
  BY <1>0, <1>2, <1>6, <1>7, <1>10 DEF Put1
<1> QED
  BY <1>0, <1>2, <1>11, <1>12, MessageStep

\* The same for a message that wants an answer: the sender blocks.
LEMMA SendQueuedBlockingStep ==
    ASSUME IInv, InUser, NEW s \in ServerIdx, NEW m \in Messages, servers[s] # NoServer, SendQueued(s, m),
           Blocking(m.type)
    PROVE  IInv'
<1>0. /\ TypeOK /\ Sched /\ TableOK(k) /\ servers \in ServerTable /\ waits \in WaitTable
      /\ ParkedIn(k, servers, waits) /\ EntriesIn(k, servers, waits) /\ WaitersAlive(k, waits)
  BY IInvParts
<1>1. PICK x, wt : x = queue_message(servers[s], Pid, Tid, m) /\ wt = WaitFor("reply", s)
  OBVIOUS
<1>2. /\ CanQueueMessage(servers[s])
      /\ servers' = [servers EXCEPT ![s] = x]
      /\ k' = ReturnToKernel(k, KernelPid, AnyThread, FALSE)
      /\ SWITCHTO_CALLER' = Nobody
      /\ waits' = Blocks(waits, Pid, Tid, wt)
      /\ UNCHANGED <<ORIGINAL, PREVIOUS_PAIR, last_pid>>
  BY <1>1 DEF SendQueued
<1>3. Pid \in PIDs /\ Tid \in TIDs /\ waits[Pid][Tid] = NoWait /\ Tid \in k.proc[Pid].threads
  BY <1>0, UserFacts
<1>4. PICK i \in Slots, e \in EntryType :
         /\ servers[s].queue[i] = Empty /\ SlotSet(servers[s], x, i, e)
         /\ FromThread(e, Pid, Tid) /\ e.kind = QueuedKind(m.type)
  BY <1>0, <1>1, <1>2, <1>3, ServerThere, QueueMessageSlot
<1>5. x \in ServerType
  BY <1>4 DEF SlotSet
<1>6. Put1(servers, servers', s, x)
  BY <1>0, <1>2, <1>5, ServerPut
<1>7. wt \in Waits /\ wt # NoWait
  BY <1>1, WaitKinds
<1>8. Waits1(waits, waits', Pid, Tid, WaitFor("reply", s))
  BY <1>0, <1>1, <1>2, <1>3, <1>7, BlocksPut
<1>9. From(e, Pid, Tid) /\ e.kind # "WaitingForget" /\ e.kind \notin TerminatedKinds
  BY <1>4, MessageKinds, BlockingEntry
<1>10. Alive(k, Pid)
  BY <1>0, <1>3, TableFacts DEF Alive, ProcessOK
<1>11. ParkedIn(k, servers', waits') /\ EntriesIn(k, servers', waits')
  BY <1>0, <1>3, <1>4, <1>6, <1>8, <1>9, <1>10, SenderTables
<1>12. Moves(k, k', KernelPid, INITIAL_TID, {}, {<<KernelPid, INITIAL_TID>>})
  BY <1>0, <1>2, ReturnMoves
<1>13. Sched' /\ \A q \in PIDs : Alive(k, q)' <=> Alive(k, q)
  BY <1>0, <1>2, <1>7, <1>12, SchedBlock
<1>14. SameAlive(k, k')
  BY <1>13 DEF SameAlive, Alive
<1>15. servers' \in ServerTable /\ waits' \in WaitTable
  BY <1>6, <1>8 DEF Put1, Waits1
<1> QED
  BY <1>0, <1>2, <1>11, <1>13, <1>14, <1>15, MessageStep

\* SendMessage, where there is room for answers.
LEMMA SendMessageStep ==
    ASSUME IInv, RoomForAnswers, NEW s \in ServerIdx, NEW m \in Messages, SendMessage(s, m)
    PROVE  IInv'
<1>1. InUser /\ servers[s] # NoServer
  BY DEF SendMessage
<1>2. CASE SendDirect(s, m)
  BY <1>1, <1>2, SendDirectStep
<1>3. CASE SendDirectBlocking(s, m)
  BY <1>1, <1>3, SendDirectBlockingStep
<1>4. CASE SendDirectUnremembered(s, m)
  BY <1>1, <1>4 DEF SendDirectUnremembered, RoomForAnswers
<1>5. CASE SendQueued(s, m)
  BY <1>1, <1>5, SendQueuedStep, SendQueuedBlockingStep
<1>6. CASE SendRetried(s)
  <2>1. do_yield
    BY <1>6 DEF SendRetried
  <2> QED
    BY <1>1, <2>1, YieldStep
<1> QED
  BY <1>2, <1>3, <1>4, <1>5, <1>6 DEF SendMessage

\* TrySendMessage in an interrupt handler.
LEMMA HandlerSendsStep ==
    ASSUME IInv, NEW s \in ServerIdx, NEW m \in Messages, HandlerSends(s, m)
    PROVE  IInv'
<1>1. servers[s] # NoServer /\ ~Blocking(m.type)
  BY DEF HandlerSends
<1>2. CASE SendDirect(s, m)
  BY <1>1, <1>2, SendDirectStep
<1>3. CASE SendQueued(s, m)
  BY <1>1, <1>3, SendQueuedStep
<1> QED
  BY <1>2, <1>3 DEF HandlerSends

-----------------------------------------------------------------------------
(* Answers *)

\* The entry e that is answered: its sender waits for the answer, unless it has terminated.
ClientOK(s, i, e) ==
    /\ e.pid \in PIDs /\ e.tid \in TIDs /\ From(e, e.pid, e.tid)
    /\ WakesClient(s, i) <=> Alive(k, e.pid)
    /\ Alive(k, e.pid) => waits[e.pid][e.tid] = WaitFor("reply", s) /\ waits[e.pid][e.tid] # NoWait
    /\ ~Alive(k, e.pid) => Mortal # {}

\* Every entry in a server is in order.
LEMMA ClientFacts ==
    ASSUME IInv, NEW s \in ServerIdx, NEW i \in Slots, servers[s] # NoServer,
           NEW e, e = servers[s].queue[i], is_in_server(e)
    PROVE  ClientOK(s, i, e)
<1>1. e \in QueuedMessage /\ EntryOK(k, waits, s, e)
  BY IInvParts, ServerThere DEF EntriesIn
<1>2. Answered(e) /\ e.pid \in PIDs
  BY <1>1, InServerAnswered
<1>3. /\ e.kind # "WaitingForget" /\ e.tid \in TIDs
      /\ Alive(k, e.pid) => waits[e.pid][e.tid] = WaitFor("reply", s)
      /\ ~Alive(k, e.pid) => Mortal # {}
  BY <1>1, <1>2 DEF EntryOK
<1>4. WaitingMessage(e) # "ForgetMemory"
  BY <1>3 DEF WaitingMessage
<1>5. WakesClient(s, i) <=> Alive(k, e.pid)
  BY <1>4 DEF WakesClient, ClientPid
<1>6. From(e, e.pid, e.tid)
  BY <1>2 DEF From
<1> QED
  BY <1>2, <1>3, <1>5, <1>6, WaitKinds DEF ClientOK

\* take_waiting_message, in the tables: the sender p, t of the entry gets its answer, if it is there.
LEMMA TakeWaitingTables ==
    ASSUME NEW sv \in ServerTable, NEW sv1, NEW w, NEW w1, NEW s \in ServerIdx, NEW x, NEW i \in Slots,
           NEW p \in PIDs, NEW t \in TIDs,
           ParkedIn(k, sv, w), EntriesIn(k, sv, w), WaitersAlive(k, w), sv[s] # NoServer,
           is_in_server(sv[s].queue[i]), x = take_waiting_message(sv[s], i), Put1(sv, sv1, s, x),
           From(sv[s].queue[i], p, t), Alive(k, p) => w[p][t] = WaitFor("reply", s),
           IF Alive(k, p) THEN Waits1(w, w1, p, t, NoWait) ELSE w1 = w
    PROVE  ParkedIn(k, sv1, w1) /\ EntriesIn(k, sv1, w1) /\ WaitersAlive(k, w1)
<1>1. SlotSet(sv[s], x, i, Empty)
  BY ServerThere, TakeWaitingSlot
<1>2. x \in ServerType /\ x.pid = sv[s].pid /\ x.ready_threads = sv[s].ready_threads
  BY <1>1 DEF SlotSet
<1>3. ParkedIn(k, sv1, w)
  BY <1>2, ParkedPut
<1>4. SameWaits(w, w1, "message")
  <2>1. CASE Alive(k, p)
    <3>1. \A r \in ServerIdx : w[p][t] # WaitFor("message", r) /\ NoWait # WaitFor("message", r)
      BY <2>1, WaitKinds
    <3>2. Waits1(w, w1, p, t, NoWait)
      BY <2>1
    <3> QED
      BY <3>1, <3>2, SameWaitsPut
  <2>2. CASE ~Alive(k, p)
    BY <2>2, SameWaitsSame
  <2> QED
    BY <2>1, <2>2
<1>5. ParkedIn(k, sv1, w1)
  BY <1>3, <1>4, ParkedKept, SameAliveSame DEF Put1
<1>6. EntriesIn(k, sv1, w1)
  BY <1>1, <1>2, EntriesDrop
<1>7. WaitersAlive(k, w1)
  <2>1. CASE Alive(k, p)
    <3>1. Waits1(w, w1, p, t, NoWait)
      BY <2>1
    <3>2. ASSUME NEW q \in PIDs, NEW u \in TIDs, NEW r \in ServerIdx, w1[q][u] = WaitFor("reply", r)
          PROVE  Alive(k, q)
      <4>1. CASE q = p /\ u = t
        BY <2>1, <4>1
      <4>2. CASE ~(q = p /\ u = t)
        BY <3>1, <3>2, <4>2 DEF Waits1, WaitersAlive
      <4> QED
        BY <4>1, <4>2
    <3> QED
      BY <3>2 DEF WaitersAlive
  <2>2. CASE ~Alive(k, p)
    BY <2>2
  <2> QED
    BY <2>1, <2>2
<1> QED
  BY <1>5, <1>6, <1>7

\* The client that is answered runs, or is ready.
LEMMA HandBackSched ==
    ASSUME TypeOK, Sched, InUser \/ InHandler, NEW s, NEW i, NEW p \in PIDs, NEW t \in TIDs,
           p = servers[s].queue[i].pid, t = servers[s].queue[i].tid, waits[p][t] # NoWait,
           k' = HandBack(s, i), waits' = set_thread_result(waits, p, t),
           UNCHANGED <<SWITCHTO_CALLER, ORIGINAL, PREVIOUS_PAIR>>
    PROVE  Sched' /\ SameAlive(k, k')
<1>1. CASE KeepsCpu(s, i)
  <2>1. k' = ready_thread(k, p, t)
    BY <1>1 DEF HandBack, ClientPid, ClientTid
  <2>2. Sched' /\ \A q \in PIDs : Alive(k, q)' <=> Alive(k, q)
    BY <2>1, SchedWake
  <2> QED
    BY <2>2 DEF SameAlive, Alive
<1>2. CASE ~KeepsCpu(s, i)
  <2>1. k' = switch_to_thread(ready_thread(unschedule_thread(ready_thread(k, p, t), Pid, Tid), Pid, Tid), p, t)
    BY <1>2 DEF HandBack, ClientPid, ClientTid
  <2>2. InUser
    BY <1>2 DEF KeepsCpu, InHandler
  <2>3. Sched' /\ \A q \in PIDs : Alive(k, q)' <=> Alive(k, q)
    BY <2>1, <2>2, SchedHand
  <2> QED
    BY <2>3 DEF SameAlive, Alive
<1> QED
  BY <1>1, <1>2

\* ReturnMemory and ReturnScalar, in a process and in an interrupt handler.
LEMMA ReturnStep ==
    ASSUME IInv, InUser \/ InHandler, NEW s \in ServerIdx, NEW i \in Slots, Return(s, i)
    PROVE  IInv'
<1>0. /\ TypeOK /\ Sched /\ TableOK(k) /\ servers \in ServerTable /\ waits \in WaitTable
      /\ ParkedIn(k, servers, waits) /\ EntriesIn(k, servers, waits) /\ WaitersAlive(k, waits)
  BY IInvParts
<1>1. PICK e, p, t, x : /\ e = servers[s].queue[i] /\ p = e.pid /\ t = e.tid
                        /\ x = take_waiting_message(servers[s], i)
  OBVIOUS
<1>2. /\ servers[s] # NoServer /\ is_in_server(e)
      /\ servers' = [servers EXCEPT ![s] = x]
      /\ IF WakesClient(s, i)
         THEN k' = HandBack(s, i) /\ waits' = set_thread_result(waits, p, t)
         ELSE UNCHANGED <<k, waits>>
      /\ UNCHANGED <<SWITCHTO_CALLER, ORIGINAL, PREVIOUS_PAIR, last_pid>>
  BY <1>1 DEF Return, Owned, ClientPid, ClientTid
<1>3. ClientOK(s, i, e)
  BY <1>1, <1>2, ClientFacts
<1>4. /\ p \in PIDs /\ t \in TIDs /\ From(e, p, t) /\ (WakesClient(s, i) <=> Alive(k, p))
      /\ Alive(k, p) => waits[p][t] = WaitFor("reply", s) /\ waits[p][t] # NoWait
  BY <1>1, <1>3 DEF ClientOK
<1>5. x \in ServerType
  BY <1>0, <1>1, <1>2, ServerThere, TakeWaitingSlot DEF SlotSet
<1>6. Put1(servers, servers', s, x)
  BY <1>0, <1>2, <1>5, ServerPut
<1>7. IF Alive(k, p) THEN Waits1(waits, waits', p, t, NoWait) ELSE waits' = waits
  BY <1>0, <1>2, <1>4, ResultPut
<1>8. ParkedIn(k, servers', waits') /\ EntriesIn(k, servers', waits')
  <2>1. /\ servers[s] # NoServer /\ x = take_waiting_message(servers[s], i)
        /\ is_in_server(servers[s].queue[i]) /\ From(servers[s].queue[i], p, t)
        /\ Alive(k, p) => waits[p][t] = WaitFor("reply", s)
    BY <1>1, <1>2, <1>4
  <2>2. CASE Alive(k, p)
    <3>1. Waits1(waits, waits', p, t, NoWait) /\ waits[p][t] = WaitFor("reply", s)
      BY <1>4, <1>7, <2>2
    <3> QED
      BY <1>0, <1>4, <1>6, <2>1, <2>2, <3>1, TakeWaitingTables
  <2>3. CASE ~Alive(k, p)
    <3>1. waits' = waits
      BY <1>7, <2>3
    <3> QED
      BY <1>0, <1>4, <1>6, <2>1, <2>3, <3>1, TakeWaitingTables
  <2> QED
    BY <2>2, <2>3
<1>9. Sched' /\ SameAlive(k, k')
  <2>1. CASE Alive(k, p)
    BY <1>0, <1>1, <1>2, <1>4, <2>1, HandBackSched
  <2>2. CASE ~Alive(k, p)
    BY <1>0, <1>2, <1>4, <2>2, SchedSame, SameAliveSame
  <2> QED
    BY <2>1, <2>2
<1>10. servers' \in ServerTable /\ waits' \in WaitTable
  BY <1>0, <1>6, <1>7 DEF Put1, Waits1
<1> QED
  BY <1>0, <1>2, <1>8, <1>9, <1>10, MessageStep

\* Where nobody terminates there is a client to answer.
LEMMA ReplyAndReceiveNextStep ==
    ASSUME IInv, Lasting, NEW s \in ServerIdx, NEW i \in Slots, ReplyAndReceiveNext(s, i)
    PROVE  IInv'
<1>0. /\ TypeOK /\ Sched /\ TableOK(k) /\ servers \in ServerTable /\ waits \in WaitTable
      /\ ParkedIn(k, servers, waits) /\ EntriesIn(k, servers, waits) /\ WaitersAlive(k, waits)
  BY IInvParts
<1>1. PICK e, p, t, x : /\ e = servers[s].queue[i] /\ p = e.pid /\ t = e.tid
                        /\ x = take_waiting_message(servers[s], i)
  OBVIOUS
<1>2. PICK sv, w : sv = [servers EXCEPT ![s] = x] /\ w = set_thread_result(waits, p, t)
  OBVIOUS
<1>3. /\ InUser /\ "ReplyAndReceiveNext" \in Calls
      /\ servers[s] # NoServer /\ servers[s].pid = Pid /\ is_in_server(e)
      /\ UNCHANGED <<SWITCHTO_CALLER, ORIGINAL, PREVIOUS_PAIR, last_pid>>
  BY <1>1 DEF ReplyAndReceiveNext, Owned, ServerPid
<1>4. ClientOK(s, i, e)
  BY <1>1, <1>3, ClientFacts
<1>5. /\ p \in PIDs /\ t \in TIDs /\ From(e, p, t) /\ WakesClient(s, i) /\ Alive(k, p)
      /\ waits[p][t] = WaitFor("reply", s) /\ waits[p][t] # NoWait
  <2>1. Mortal = {}
    BY <1>3 DEF Lasting
  <2> QED
    BY <1>1, <1>4, <2>1 DEF ClientOK
<1>6. SlotSet(servers[s], x, i, Empty)
  BY <1>0, <1>1, <1>3, ServerThere, TakeWaitingSlot
<1>7. x \in ServerType /\ x # NoServer /\ x.pid = Pid
  BY <1>3, <1>6, IsServer DEF SlotSet
<1>8. Put1(servers, sv, s, x) /\ Waits1(waits, w, p, t, NoWait)
  BY <1>0, <1>2, <1>5, <1>7, ServerPut, ResultPut
<1>9. ParkedIn(k, sv, w) /\ EntriesIn(k, sv, w) /\ WaitersAlive(k, w)
  BY <1>0, <1>1, <1>3, <1>5, <1>8, TakeWaitingTables
<1>10. sv \in ServerTable /\ sv[s] = x /\ w \in WaitTable
  BY <1>8 DEF Put1, Waits1
<1>11. CASE CanTakeNext(x)
  <2>1. PICK y : y = take_next_message(x)
    OBVIOUS
  <2>2. servers' = [servers EXCEPT ![s] = y] /\ k' = HandBack(s, i) /\ waits' = w
    BY <1>1, <1>2, <1>5, <1>11, <2>1 DEF ReplyAndReceiveNext, ClientPid, ClientTid
  <2>3. y \in ServerType
    BY <1>7, <1>11, <2>1, TakeNextSlot DEF SlotSet
  <2>4. Put1(servers, servers', s, y)
    BY <1>0, <2>2, <2>3, ServerPut
  <2>5. Put1(sv, servers', s, y)
    BY <1>8, <2>4 DEF Put1
  <2>6. sv[s] # NoServer /\ CanTakeNext(sv[s]) /\ y = take_next_message(sv[s])
    BY <1>7, <1>10, <1>11, <2>1
  <2>7. ParkedIn(k, servers', w) /\ EntriesIn(k, servers', w)
    BY <1>9, <1>10, <2>5, <2>6, TakeNextTables
  <2>8. Sched' /\ SameAlive(k, k')
    BY <1>0, <1>1, <1>2, <1>3, <1>5, <2>2, HandBackSched
  <2>9. servers' \in ServerTable /\ waits' \in WaitTable /\ ParkedIn(k, servers', waits')
        /\ EntriesIn(k, servers', waits')
    BY <1>10, <2>2, <2>4, <2>7 DEF Put1
  <2> QED
    BY <1>0, <1>3, <2>8, <2>9, MessageStep
<1>12. CASE ~CanTakeNext(x)
  <2>1. PICK y, wt : y = park_thread(x, Tid) /\ wt = WaitFor("message", s)
    OBVIOUS
  <2>2. /\ servers' = [servers EXCEPT ![s] = y]
        /\ k' = Assert(activate_process_thread(ready_thread(k, p, t), Tid, p, t, FALSE),
                       Tid \notin x.ready_threads)
        /\ waits' = Blocks(w, Pid, Tid, wt)
    BY <1>1, <1>2, <1>5, <1>12, <2>1 DEF ReplyAndReceiveNext, ClientPid, ClientTid
  <2>3. Pid \in PIDs /\ Tid \in TIDs /\ waits[Pid][Tid] = NoWait
    BY <1>0, <1>3, UserFacts
  <2>4. y \in ServerType
    BY <1>7, <2>1, <2>3, ParkEffect
  <2>5. Put1(servers, servers', s, y)
    BY <1>0, <2>2, <2>4, ServerPut
  <2>6. Put1(sv, servers', s, y)
    BY <1>8, <2>5 DEF Put1
  <2>7. wt \in Waits /\ wt # NoWait
    BY <2>1, WaitKinds
  <2>8. Waits1(w, waits', Pid, Tid, wt)
    BY <1>10, <2>2, <2>3, <2>7, BlocksPut
  <2>9. w[Pid][Tid] = NoWait
    BY <1>8, <2>3 DEF Waits1
  <2>10. /\ sv[s] # NoServer /\ y = park_thread(sv[s], Tid) /\ w[sv[s].pid][Tid] = NoWait
         /\ Waits1(w, waits', sv[s].pid, Tid, WaitFor("message", s))
    BY <1>7, <1>10, <2>1, <2>8, <2>9
  <2>11. ParkedIn(k, servers', waits') /\ EntriesIn(k, servers', waits') /\ Tid \notin sv[s].ready_threads
    BY <1>9, <1>10, <2>3, <2>6, <2>10, ParkTables
  <2>12. k' = activate_process_thread(ready_thread(k, p, t), Tid, p, t, FALSE)
    BY <1>10, <2>2, <2>11 DEF Assert
  <2>13. Sched' /\ \A q \in PIDs : Alive(k, q)' <=> Alive(k, q)
    BY <1>0, <1>2, <1>3, <1>5, <2>2, <2>7, <2>12, SchedSwap
  <2>14. SameAlive(k, k')
    BY <2>13 DEF SameAlive, Alive
  <2>15. servers' \in ServerTable /\ waits' \in WaitTable
    BY <2>5, <2>8 DEF Put1, Waits1
  <2> QED
    BY <1>0, <1>3, <2>11, <2>13, <2>14, <2>15, MessageStep
<1> QED
  BY <1>11, <1>12

-----------------------------------------------------------------------------
(* The invariant is inductive *)

\* The kernel boots into the invariant.
LEMMA InitIInv ==
    ASSUME Init
    PROVE  IInv
<1>1. /\ k.pid = KernelPid /\ k.fault = FALSE /\ PREVIOUS_PAIR = Nobody /\ SWITCHTO_CALLER = Nobody
      /\ ORIGINAL = <<2, 2>> /\ last_pid = KernelPid
      /\ servers = [s \in ServerIdx |-> NoServer]
      /\ waits = [p \in PIDs |-> [t \in TIDs |-> NoWait]]
  BY DEF Init
<1>2. KernelPid \in PIDs /\ INITIAL_TID \in TIDs /\ KernelPid \in Booted /\ 2 \in PIDs
      /\ 2 # KernelPid /\ 2 \in TIDs
  BY SmallNumbers, KernelAssumption, ProcessesAssumption DEF KernelPid, INITIAL_TID
<1>3. \A p \in PIDs :
         k.proc[p] = [state |-> CASE p = KernelPid -> "Running"
                             [] p \in Booted \ {KernelPid} -> "Ready"
                             [] OTHER -> "Free",
                 ready |-> IF p \in Booted \ {KernelPid} THEN {INITIAL_TID} ELSE {},
                 current_thread |-> INITIAL_TID, tid |-> INITIAL_TID,
                 threads |-> IF p \in Booted THEN {INITIAL_TID} ELSE {}]
  BY DEF Init
<1>4. ASSUME NEW p \in PIDs
      PROVE  /\ k.proc[p] \in Process /\ ProcessOK(k.proc[p])
             /\ k.proc[p].state = "Running" <=> p = k.pid
             /\ k.proc[p].current_thread = INITIAL_TID /\ k.proc[p].tid = INITIAL_TID
             /\ k.proc[p].threads = (IF p \in Booted THEN {INITIAL_TID} ELSE {})
             /\ k.proc[p].ready = (IF p \in Booted \ {KernelPid} THEN {INITIAL_TID} ELSE {})
  <2>1. PICK st, rd, th :
           /\ st = CASE p = KernelPid -> "Running"
                     [] p \in Booted \ {KernelPid} -> "Ready"
                     [] OTHER -> "Free"
           /\ rd = IF p \in Booted \ {KernelPid} THEN {INITIAL_TID} ELSE {}
           /\ th = IF p \in Booted THEN {INITIAL_TID} ELSE {}
    OBVIOUS
  <2>2. k.proc[p] = [state |-> st, ready |-> rd, current_thread |-> INITIAL_TID, tid |-> INITIAL_TID, threads |-> th]
    BY <1>3, <2>1
  <2>3. st \in {"Free", "Ready", "Running", "Sleeping"} /\ rd \in SUBSET TIDs /\ th \in SUBSET TIDs /\ rd \subseteq th
    BY <1>2, <2>1
  <2>4. /\ st = "Running" <=> p = k.pid
        /\ st = "Free" => th = {}
        /\ st = "Ready" => rd # {}
        /\ st # "Sleeping"
    BY <1>1, <1>2, <2>1
  <2>5. k.proc[p] \in Process
    BY <1>2, <2>2, <2>3 DEF Process
  <2>6. ProcessOK(k.proc[p])
    BY <2>2, <2>3, <2>4 DEF ProcessOK
  <2> QED
    BY <2>1, <2>2, <2>4, <2>5, <2>6
<1>5. k \in KernelType
  <2>1. k = [proc |-> k.proc, pid |-> k.pid, fault |-> k.fault] /\ k.proc = [p \in PIDs |-> k.proc[p]]
    BY DEF Init
  <2> QED
    BY <1>1, <1>2, <1>4, <2>1 DEF KernelType
<1>6. TableOK(k)
  BY <1>1, <1>2, <1>4, <1>5 DEF TableOK
<1>7. TypeOK
  BY <1>1, <1>2, <1>5, WaitKinds DEF TypeOK, KernelType, Pairs
<1>8. Pid = KernelPid /\ Tid = INITIAL_TID /\ ~in_irq
  BY <1>1, <1>2, <1>4 DEF Pid, Tid, in_irq
<1>9. RunningOK
  BY <1>2, <1>4, <1>8 DEF RunningOK
<1>10. ParentOK
  BY <1>1, <1>2, <1>8 DEF ParentOK
<1>11. WaitsOK
  BY <1>1, <1>2, <1>4, <1>8 DEF WaitsOK, ThreadRuns
<1>12. ParkedOK
  BY <1>1, WaitKinds DEF ParkedOK, ParkedIn
<1>13. EntriesOK
  BY <1>1, WaitKinds DEF EntriesOK, EntriesIn
<1> QED
  BY <1>6, <1>7, <1>9, <1>10, <1>11, <1>12, <1>13 DEF IInv

\* Every step keeps the invariant.
LEMMA NextIInv ==
    ASSUME IInv, RoomForAnswers, Lasting, [Next]_vars
    PROVE  IInv'
<1>1. CASE UNCHANGED vars
  <2>1. UNCHANGED <<k, servers, SWITCHTO_CALLER, ORIGINAL, PREVIOUS_PAIR, last_pid, waits>>
    BY <1>1 DEF vars
  <2>2. Sched' /\ SameAlive(k, k') /\ TypeOK'
    BY <2>1, IInvParts, SchedSame, SameAliveSame DEF TypeOK
  <2> QED
    BY <2>1, <2>2, QuietStep, SameWaitsSame
<1>2. CASE SwitchTo
  BY <1>2, SwitchToStep
<1>3. CASE Idle
  BY <1>3, IdleStep
<1>4. CASE Yield
  BY <1>4, YieldStep DEF Yield
<1>5. CASE WaitEvent
  BY <1>5, WaitEventStep
<1>6. CASE \E s \in ServerIdx, m \in Messages : SendMessage(s, m)
  BY <1>6, SendMessageStep
<1>7. CASE \E s \in ServerIdx : ReceiveNext(s) \/ ReceiveParks(s)
  BY <1>7, ReceiveNextStep, ReceiveParksStep
<1>8. CASE \E s \in ServerIdx, i \in Slots : ReturnMessage(s, i) \/ ReplyAndReceiveNext(s, i)
  BY <1>8, ReturnStep, ReplyAndReceiveNextStep DEF ReturnMessage
<1>9. CASE \E p \in Handlers : Interrupt(p)
  BY <1>9, InterruptStep, KernelAssumption
<1>10. CASE \E s \in ServerIdx, m \in Messages : HandlerSends(s, m)
  BY <1>10, HandlerSendsStep
<1>11. CASE \E s \in ServerIdx, i \in Slots : HandlerReturns(s, i)
  BY <1>11, ReturnStep DEF HandlerReturns
<1>12. CASE ReturnToParent
  BY <1>12, ReturnToParentStep
<1>13. CASE finish_isr
  BY <1>13, FinishStep
<1>14. CASE \E s \in ServerIdx : CreateServer(s) \/ DestroyServer(s)
  BY <1>14, CreateServerStep, DestroyServerStep
<1>15. CASE TerminateProcess
  BY <1>15, TerminateProcessStep
<1>16. CASE CreateProcess
  BY <1>16, CreateProcessStep
<1>17. CASE \E t \in TIDs : CreateThread(t) \/ JoinThread(t)
  BY <1>17, CreateThreadStep, JoinThreadStep
<1>18. CASE ExitThread
  BY <1>18, ExitThreadStep
<1> QED
  BY <1>1, <1>2, <1>3, <1>4, <1>5, <1>6, <1>7, <1>8, <1>9, <1>10, <1>11, <1>12, <1>13, <1>14,
     <1>15, <1>16, <1>17, <1>18 DEF Next

\* The invariant holds throughout.
LEMMA Invariant ==
    ASSUME Lasting
    PROVE  Spec /\ []RoomForAnswers => []IInv
<1>1. Init => IInv
  BY InitIInv
<1>2. IInv /\ RoomForAnswers /\ [Next]_vars => IInv'
  BY NextIInv
<1> QED
  BY <1>1, <1>2, PTL DEF Spec

-----------------------------------------------------------------------------
(* What it means *)

\* No assertion of the scheduler, of activate_process_thread, of switch_to_thread or of
\* park_thread fails, however threads send, receive, answer, yield, exit and are interrupted.
THEOREM SchedulerNeverPanics ==
    ASSUME Lasting
    PROVE  Spec /\ []RoomForAnswers => []NoFault
<1>1. IInv => NoFault
  BY DEF IInv, TableOK, NoFault
<1> QED
  BY <1>1, Invariant, PTL

\* One process is Running, its memory is the one that is mapped, and the scheduler and the
\* hardware agree on its thread.
THEOREM OneProcessAlwaysRuns ==
    ASSUME Lasting
    PROVE  Spec /\ []RoomForAnswers => []OneProcessRuns
<1>1. IInv => OneProcessRuns
  BY DEF IInv, TableOK, OneProcessRuns
<1> QED
  BY <1>1, Invariant, PTL

\* Every thread runs, is ready, or is blocked in a call whose result it has not got, and is in
\* only one of these: no hand-over of the CPU loses a thread or wakes one early.
THEOREM NoThreadIsLost ==
    ASSUME Lasting
    PROVE  Spec /\ []RoomForAnswers => []ThreadsAccounted
<1>1. ASSUME IInv PROVE ThreadsAccounted
  <2>1. \A p \in PIDs : k.proc[p].threads \in SUBSET TIDs
    BY <1>1, TableFacts DEF IInv
  <2> QED
    BY <1>1, <2>1 DEF IInv, WaitsOK, ThreadsAccounted
<1> QED
  BY <1>1, Invariant, PTL

\* The ready_threads of a server are the threads that wait for its messages.
THEOREM ParkedThreadsAreKnown ==
    ASSUME Lasting
    PROVE  Spec /\ []RoomForAnswers => []ParkedThreadsWait
<1>1. ASSUME IInv PROVE ParkedThreadsWait
  <2>1. ASSUME NEW s \in ServerIdx, servers[s] # NoServer
        PROVE  servers[s].ready_threads = {t \in TIDs : waits[servers[s].pid][t] = WaitFor("message", s)}
    <3>1. servers[s].pid \in PIDs /\ ParkedIn(k, servers, waits)
      BY <1>1, <2>1, IInvParts, ServerThere
    <3> QED
      BY <2>1, <3>1 DEF ParkedIn
  <2> QED
    BY <2>1 DEF ParkedThreadsWait, ServerPid
<1> QED
  BY <1>1, Invariant, PTL

\* Outside of interrupts the caller of SwitchTo is remembered exactly while a process has the
\* CPU: Yield finds its parent and SwitchTo does not find an earlier one.
THEOREM ParentAlwaysKnown ==
    ASSUME Lasting
    PROVE  Spec /\ []RoomForAnswers => []ParentKnown
<1>1. IInv => ParentKnown
  BY DEF IInv, ParentOK, ParentKnown
<1> QED
  BY <1>1, Invariant, PTL

\* A thread that waits for an answer has one entry in the queue of the server, and no entry is
\* that of a live thread that does not wait: it is answered, and answered once.
THEOREM AnsweredOnce ==
    ASSUME Lasting
    PROVE  Spec /\ []RoomForAnswers => []AnswersOwed
<1>1. ASSUME IInv PROVE AnswersOwed
  <2>1. SUFFICES ASSUME NEW p \in PIDs, NEW t \in TIDs, NEW s \in ServerIdx,
                        servers[s] # NoServer, t \in k.proc[p].threads
                 PROVE  Cardinality(Entries(s, p, t)) = IF waits[p][t] = WaitFor("reply", s) THEN 1 ELSE 0
    BY DEF AnswersOwed
  <2>2. /\ TableOK(k) /\ EntriesIn(k, servers, waits) /\ servers[s].queue \in [Slots -> QueuedMessage]
    BY <1>1, <2>1, IInvParts, ServerThere
  <2>3. Alive(k, p)
    BY <2>1, <2>2, TableFacts DEF Alive, ProcessOK
  <2>4. ASSUME NEW i \in Slots PROVE i \in Entries(s, p, t) <=> From(servers[s].queue[i], p, t)
    <3>1. EntryOK(k, waits, s, servers[s].queue[i])
      BY <2>1, <2>2 DEF EntriesIn
    <3> QED
      BY <3>1 DEF Entries, From, Answered, EntryOK
  <2>5. CASE waits[p][t] = WaitFor("reply", s)
    <3>1. PICK i \in Slots : From(servers[s].queue[i], p, t)
      BY <2>2, <2>5 DEF EntriesIn
    <3>2. \A j \in Slots : From(servers[s].queue[j], p, t) => j = i
      BY <2>1, <2>2, <2>3, <3>1 DEF EntriesIn, OneEntry
    <3>3. Entries(s, p, t) = {i}
      BY <2>4, <3>1, <3>2 DEF Entries
    <3> QED
      BY <2>5, <3>3, FS_Singleton
  <2>6. CASE waits[p][t] # WaitFor("reply", s)
    <3>1. \A i \in Slots : ~From(servers[s].queue[i], p, t)
      BY <2>1, <2>2, <2>3, <2>6 DEF EntriesIn, EntryOK, From
    <3>2. Entries(s, p, t) = {}
      BY <2>4, <3>1 DEF Entries
    <3> QED
      BY <2>6, <3>2, FS_EmptySet
  <2> QED
    BY <2>5, <2>6
<1> QED
  BY <1>1, Invariant, PTL
=============================================================================
