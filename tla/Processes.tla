------------------------------ MODULE Processes ------------------------------
(***************************************************************************)
(* The process table of kernel/src/services.rs and the operations that move   *)
(* threads between ready, running and blocked, for the bare-metal build.      *)
(*                                                                         *)
(* The operations are functions of a record k:                               *)
(*    k.proc   the process table                                            *)
(*    k.pid    current_pid(), the process whose memory is mapped             *)
(*    k.fault  the kernel has panicked, or an operation has returned an error *)
(*             to a caller that has already changed other state              *)
(* The bit masks of Ready(x) and Running(x) are the set `ready`; Sleeping and  *)
(* Free have an empty one.  `current_thread` is the field of Process that the  *)
(* scheduler keeps and `tid` the hardware thread in the process's own page      *)
(* (set_tid, current_tid), which says what the CPU executes.  `threads` are    *)
(* the allocated threads.  Exception handlers, the debugger's states and the    *)
(* swapper are left out, and every process has PID 1 as its parent, as          *)
(* create_process decrees.                                                    *)
(***************************************************************************)
EXTENDS Integers

CONSTANTS
    MaxProcesses,   \* slots of the process table
    TIDs            \* thread identifiers a process can allocate

IRQ_TID == 0
INITIAL_TID == 2
AnyThread == 0      \* tid 0, or None, in a request to switch: take the next one

ASSUME ProcessesAssumption ==
    /\ MaxProcesses \in Nat \ {0}
    /\ TIDs \subseteq Nat \ {0}
    /\ INITIAL_TID \in TIDs

PIDs == 1 .. MaxProcesses
KernelPid == 1

Process ==
    [state : {"Free", "Ready", "Running", "Sleeping"},
     ready : SUBSET TIDs,
     current_thread : TIDs \cup {IRQ_TID},
     tid : TIDs \cup {IRQ_TID},
     threads : SUBSET TIDs]

Fault(k) == [k EXCEPT !.fault = TRUE]
Assert(k, holds) == IF holds THEN k ELSE Fault(k)

Alive(k, pid) == k.proc[pid].state # "Free"

Lowest(S) == CHOOSE t \in S : \A u \in S : t <= u

\* Round robin: the next number in S above x, or else the lowest.
NextAfter(S, x) ==
    IF {y \in S : y > x} # {} THEN Lowest({y \in S : y > x}) ELSE Lowest(S)

\* Variant: the lowest thread.
find_next_thread_Lowest(mask, current) == Lowest(mask)

find_next_thread(mask, current) == NextAfter(mask, current)

\* Process p of k becomes `state` with these ready threads.
Becomes(k, p, state, ready) ==
    [k EXCEPT !.proc[p].state = state, !.proc[p].ready = ready]

\* The state that holds exactly these ready threads while p does not run.
Paused(k, p, ready) ==
    Becomes(k, p, IF ready = {} THEN "Sleeping" ELSE "Ready", ready)

\* Process p runs thread t and keeps the others in `ready`.
Runs(k, p, t, ready) ==
    [Becomes(k, p, "Running", ready \ {t}) EXCEPT
        !.pid = p, !.proc[p].current_thread = t, !.proc[p].tid = t]

-----------------------------------------------------------------------------
(* Waking and blocking threads *)

ready_thread(k, p, t) ==
    LET pr == k.proc[p]
    IN  CASE pr.state \in {"Running", "Ready"} /\ t \notin pr.ready ->
                 Becomes(k, p, pr.state, pr.ready \cup {t})
          [] pr.state = "Sleeping" -> Becomes(k, p, "Ready", {t})
          [] OTHER -> Fault(k)

unschedule_thread(k, p, t) ==
    LET pr == k.proc[p]
    IN  IF pr.state = "Running" /\ t \notin pr.ready
        THEN Paused(k, p, pr.ready)
        ELSE Fault(k)

\* Called with .ok(): only the assertion that the process does not run matters.
set_last_thread(k, p, t) ==
    LET pr == k.proc[p]
    IN  CASE pr.state = "Ready" /\ t \in pr.ready -> [k EXCEPT !.proc[p].current_thread = t]
          [] pr.state = "Running" -> Fault(k)
          [] OTHER -> k

\* A process that is Running must be the current one: its hardware thread is set
\* through the memory that is mapped.
switch_to_thread(k, p, t) ==
    LET pr == k.proc[p]
        candidates == IF pr.state = "Running" THEN pr.ready \cup {pr.current_thread} ELSE pr.ready
        new == IF t = AnyThread THEN find_next_thread(candidates, pr.current_thread) ELSE t
    IN  IF /\ pr.state \in {"Ready", "Running"} /\ candidates # {}
           /\ new \in candidates
           /\ pr.state = "Running" => k.pid = p
        THEN Runs(k, p, new, candidates)
        ELSE Fault(k)

-----------------------------------------------------------------------------
(* activate_process_thread *)

\* The first half: the new process is running and mapped, the previous one has not
\* been updated.  An error in between leaves the kernel in this state, with the
\* new process's hardware thread not set.
Activated(k, p, t) ==
    LET pr == k.proc[p]
        new == IF t = AnyThread THEN find_next_thread(pr.ready, pr.current_thread) ELSE t
    IN  IF pr.state = "Ready" /\ new \in pr.ready
        THEN [Becomes(k, p, "Running", pr.ready \ {new}) EXCEPT
                 !.pid = p, !.proc[p].current_thread = new]
        ELSE Fault(k)

\* Variant: the previous thread can always be resumed.
LeftBy_Resumable(k, previous, tid, can_resume) ==
    LET pr == k.proc[previous]
    IN  IF pr.state = "Running"
        THEN [Becomes(k, previous, "Ready", pr.ready \cup {tid}) EXCEPT
                 !.proc[previous].current_thread = tid]
        ELSE Fault(k)

\* The second half: the previous process gives up the CPU.
LeftBy(k, previous, tid, can_resume) ==
    LET pr == k.proc[previous]
        ready == pr.ready \cup (IF can_resume THEN {tid} ELSE {})
    IN  IF pr.state = "Running"
        THEN [Paused(k, previous, ready) EXCEPT !.proc[previous].current_thread = tid]
        ELSE Fault(k)

\* Switching between two threads of the current process.
SwitchedWithin(k, tid, t, can_resume) ==
    LET pr == k.proc[k.pid]
        ready == pr.ready \cup (IF can_resume THEN {pr.current_thread} ELSE {})
        new == IF t = AnyThread THEN find_next_thread(ready, pr.current_thread) ELSE t
    IN  CASE t = tid -> Assert(Runs(k, k.pid, t, pr.ready), can_resume)
          [] t # tid /\ pr.state = "Running" /\ pr.current_thread \notin pr.ready
                     /\ ready # {} /\ new \in ready -> Runs(k, k.pid, new, ready)
          [] OTHER -> Fault(k)

activate_process_thread(k, tid, p, t, can_resume) ==
    IF p = k.pid
    THEN SwitchedWithin(k, tid, t, can_resume)
    ELSE LET a == Activated(k, p, t)
             new == a.proc[p].current_thread
         IN  [LeftBy(a, k.pid, tid, can_resume) EXCEPT !.proc[p].tid = new]

-----------------------------------------------------------------------------
(* Interrupts *)

\* make_callback_to: the interrupted thread stays ready and process p runs its
\* handler on the interrupt thread.
make_callback_to(k, p) ==
    LET current == k.proc[k.pid]
        interrupted == IF current.current_thread = IRQ_TID THEN current.tid
                                                           ELSE current.current_thread
        k1 == Becomes(k, k.pid, "Ready", current.ready \cup {interrupted})
        pr == k1.proc[p]
    IN  IF current.state = "Running" /\ pr.state # "Free"
        THEN Runs(k1, p, IRQ_TID, pr.ready)
        ELSE Fault(k)

finish_callback_and_resume(k, p, t) ==
    LET current == k.proc[k.pid]
        k1 == Paused(k, k.pid, current.ready)
        pr == k1.proc[p]
    IN  IF current.state = "Running" /\ pr.state = "Ready" /\ t \in pr.ready
        THEN Runs(k1, p, t, pr.ready)
        ELSE Fault(k)

-----------------------------------------------------------------------------
(* Process and thread life cycle *)

FreePids(k) == {p \in PIDs : ~Alive(k, p)}

\* create_process: the first Free entry; current_thread keeps its old value.  (The entry
\* of a process that has terminated is Free too, but its page table is still there and the
\* call fails; module Memory models that, and module Kernel asks for none of it.)
create_process(k) ==
    LET p == Lowest(FreePids(k))
    IN  [Becomes(k, p, "Ready", {INITIAL_TID}) EXCEPT
            !.proc[p].threads = {INITIAL_TID}, !.proc[p].tid = INITIAL_TID]

\* Process::terminate and the switch to the parent at the end of terminate_process
terminate(k, p) ==
    switch_to_thread([Becomes(k, p, "Free", {}) EXCEPT !.proc[p].threads = {}],
                     KernelPid, AnyThread)

\* CreateThread runs the new thread at once; its creator stays ready.
create_thread(k, t) ==
    LET k1 == [k EXCEPT !.proc[k.pid].threads = @ \cup {t},
                        !.proc[k.pid].ready = @ \cup {t}]
    IN  Assert(switch_to_thread(k1, k.pid, t), k.proc[k.pid].state = "Running")

\* destroy_thread, with the thread that is woken by the exit, if there is one
destroy_thread(k, t, woken) ==
    LET pr == k.proc[k.pid]
        waiting == pr.ready \cup woken
        k1 == [Paused(k, k.pid, waiting) EXCEPT !.proc[k.pid].threads = @ \ {t}]
    IN  IF pr.state = "Running"
        THEN switch_to_thread(k1, IF waiting = {} THEN KernelPid ELSE k.pid, AnyThread)
        ELSE Fault(k)

\* next_pid_to_run (kernel/src/main.rs): the next process with a ready thread after
\* `last`, in the order of the table; 0 if there is none.
Runnable(k) == {p \in PIDs : k.proc[p].state = "Ready"}
next_pid_to_run(k, last) ==
    IF Runnable(k) = {} THEN 0 ELSE NextAfter(Runnable(k), last)
=============================================================================
