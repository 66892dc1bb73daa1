-------------------------------- MODULE Kernel --------------------------------
(***************************************************************************)
(* Message passing between threads on one CPU: the system calls of            *)
(* kernel/src/syscall.rs, the loop of kernel/src/main.rs that hands out time   *)
(* slices and the interrupts of kernel/src/arch/riscv/irq.rs, over the process  *)
(* table (module Processes) and the server queues (module Server).             *)
(*                                                                         *)
(* A system call is one step: the kernel runs it with interrupts disabled.     *)
(* The calls of a thread are unconstrained, except that a server answers a      *)
(* message once and with the right call (scalar or memory).  CIDs are resolved  *)
(* already (module Connections), memory is always there to lend, and user code   *)
(* between system calls has no state of its own.                               *)
(***************************************************************************)
EXTENDS Processes, FiniteSets

CONSTANTS
    Bodies, QueueLen, GenMod,  \* of the queues, see module Server
    MaxServers,     \* slots of the server table
    NoServer,       \* a free slot
    Nobody,         \* None, for a pair of a process and a thread
    Types,          \* message types in use
    Booted,         \* processes the loader has started
    Owners,         \* processes that create servers
    Handlers,       \* processes that have claimed an interrupt
    Mortal,         \* processes that may terminate
    MaxThreads,     \* threads that a process allocates, by process
    Calls           \* which of OptionalCalls the processes make

OptionalCalls ==
    {"ReplyAndReceiveNext", "DestroyServer", "CreateProcess", "JoinThread", "ExitThread",
     "WaitEvent"}

ServerIdx == 0 .. MaxServers - 1

INSTANCE Server WITH TIDs <- TIDs \cup {IRQ_TID}, SIDs <- ServerIdx

\* The loader starts PID 2 (the initial value of ORIGINAL names it); a free slot of the
\* server table is not a server.  The PID of a process that has terminated cannot be had
\* again (MemoryMapping::allocate refuses it, see module Memory), so an instance in which
\* processes terminate creates none.
ASSUME KernelAssumption ==
    /\ QueueLen \in Nat \ {0} /\ GenMod \in Nat \ {0, 1} /\ MaxServers \in Nat
    /\ NoServer \notin ServerType
    /\ Types \subseteq MessageTypes
    /\ {KernelPid, 2} \subseteq Booted /\ Booted \subseteq PIDs
    /\ Handlers \subseteq PIDs /\ Mortal \subseteq PIDs
    /\ Mortal # {} => "CreateProcess" \notin Calls

VARIABLES
    k,               \* the process table and the current process
    servers,         \* the server table
    SWITCHTO_CALLER, \* who called SwitchTo last and waits for the CPU back
    ORIGINAL,        \* the process and thread that the time slice was given to
    PREVIOUS_PAIR,   \* what an interrupt has interrupted
    last_pid,        \* the process kmain chose last; None is KernelPid
    waits            \* the call a blocked thread is in, as its registers show it

vars == <<k, servers, SWITCHTO_CALLER, ORIGINAL, PREVIOUS_PAIR, last_pid, waits>>

NoWait == [for |-> "nothing", arg |-> 0]
WaitFor(what, arg) == [for |-> what, arg |-> arg]
Waits ==
    {NoWait} \cup [for : {"reply", "message"}, arg : ServerIdx]
             \cup [for : {"join"}, arg : TIDs]
             \cup {[for |-> "event", arg |-> 0]}

Pairs == PIDs \X (TIDs \cup {IRQ_TID})

\* None is not a pair.
ASSUME NobodyAssumption == Nobody \notin Pairs

TypeOK ==
    /\ k \in [proc : [PIDs -> Process], pid : PIDs, fault : BOOLEAN]
    /\ servers \in [ServerIdx -> ServerType \cup {NoServer}]
    /\ SWITCHTO_CALLER \in Pairs \cup {Nobody}
    /\ ORIGINAL \in Pairs
    /\ PREVIOUS_PAIR \in Pairs \cup {Nobody}
    /\ last_pid \in PIDs
    /\ waits \in [PIDs -> [TIDs -> Waits]]

\* The kernel has booted: it runs kmain in PID 1, the processes of the loader are
\* new and the rest of the table is free.
Init ==
    /\ k = [proc |-> [p \in PIDs |->
                [state |-> CASE p = KernelPid -> "Running"
                             [] p \in Booted \ {KernelPid} -> "Ready"
                             [] OTHER -> "Free",
                 ready |-> IF p \in Booted \ {KernelPid} THEN {INITIAL_TID} ELSE {},
                 current_thread |-> INITIAL_TID, tid |-> INITIAL_TID,
                 threads |-> IF p \in Booted THEN {INITIAL_TID} ELSE {}]],
            pid |-> KernelPid, fault |-> FALSE]
    /\ servers = [s \in ServerIdx |-> NoServer]
    /\ SWITCHTO_CALLER = Nobody
    /\ ORIGINAL = <<2, 2>>
    /\ PREVIOUS_PAIR = Nobody
    /\ last_pid = KernelPid
    /\ waits = [p \in PIDs |-> [t \in TIDs |-> NoWait]]

-----------------------------------------------------------------------------
(* Who runs *)

Pid == k.pid
Tid == k.proc[k.pid].tid

in_irq == PREVIOUS_PAIR # Nobody

\* A thread of a process is executing, outside of interrupts.
InUser == ~k.fault /\ ~in_irq /\ Pid # KernelPid
\* An interrupt handler is executing.
InHandler == ~k.fault /\ in_irq
\* kmain is executing.
InKmain == ~k.fault /\ ~in_irq /\ Pid = KernelPid

\* The two ways in which a call touches the waiting threads: thread t of p blocks,
\* and thread t of p gets the result of its call.
Blocks(w, p, t, what) == [w EXCEPT ![p][t] = what]
set_thread_result(w, p, t) == [w EXCEPT ![p][t] = NoWait]

\* The end of every call that blocks without handing the CPU to a partner: the
\* parent process runs, and the owner of the time slice is where the next one in
\* this process starts from.
ReturnToKernel(kk, parent, tid, can_resume) ==
    set_last_thread(activate_process_thread(kk, Tid, parent, tid, can_resume),
                    ORIGINAL[1], ORIGINAL[2])

-----------------------------------------------------------------------------
(* Time slices *)

\* One turn of kmain's loop and the SwitchTo it makes.
SwitchTo ==
    LET next == next_pid_to_run(k, last_pid)
        k1 == activate_process_thread(k, Tid, next, AnyThread, TRUE)
    IN  /\ InKmain
        /\ next # 0
        /\ k' = Assert(k1, SWITCHTO_CALLER = Nobody)
        /\ last_pid' = next
        /\ SWITCHTO_CALLER' = <<Pid, Tid>>
        /\ ORIGINAL' = <<next, k1.proc[next].current_thread>>
        /\ UNCHANGED <<servers, PREVIOUS_PAIR, waits>>

\* A turn of the loop that finds nothing to run: kmain forgets whose turn it was
\* and idles.
Idle ==
    /\ InKmain
    /\ next_pid_to_run(k, last_pid) = 0
    /\ last_pid # KernelPid
    /\ last_pid' = KernelPid
    /\ UNCHANGED <<k, servers, SWITCHTO_CALLER, ORIGINAL, PREVIOUS_PAIR, waits>>

do_yield ==
    /\ k' = IF SWITCHTO_CALLER = Nobody
            THEN Fault(k)
            ELSE ReturnToKernel(k, SWITCHTO_CALLER[1], SWITCHTO_CALLER[2], TRUE)
    /\ SWITCHTO_CALLER' = Nobody
    /\ UNCHANGED <<servers, ORIGINAL, PREVIOUS_PAIR, last_pid, waits>>

Yield == InUser /\ do_yield

\* WaitEvent: nothing wakes the thread again.
WaitEvent ==
    /\ InUser
    /\ "WaitEvent" \in Calls
    /\ k' = ReturnToKernel(k, KernelPid, AnyThread, FALSE)
    /\ SWITCHTO_CALLER' = Nobody
    /\ waits' = Blocks(waits, Pid, Tid, WaitFor("event", 0))
    /\ UNCHANGED <<servers, ORIGINAL, PREVIOUS_PAIR, last_pid>>

-----------------------------------------------------------------------------
(* send_message *)

ServerPid(s) == servers[s].pid

\* A thread of the server waits.  It gets the message as the result of its call;
\* the sender of a message that wants no answer carries on.
SendDirect(s, m) ==
    LET t == AvailableThread(servers[s])
    IN  /\ ~Blocking(m.type)
        /\ servers[s].ready_threads # {}
        /\ servers' = [servers EXCEPT ![s] = take_available_thread(@)]
        /\ k' = ready_thread(k, ServerPid(s), t)
        /\ waits' = set_thread_result(waits, ServerPid(s), t)
        /\ UNCHANGED <<SWITCHTO_CALLER, ORIGINAL, PREVIOUS_PAIR, last_pid>>

\* The sender of a message that wants an answer blocks and the CPU goes straight to
\* the server's thread.
SendDirectBlocking(s, m) ==
    LET t == AvailableThread(servers[s])
        ready == ready_thread(k, ServerPid(s), t)
    IN  /\ Blocking(m.type)
        /\ servers[s].ready_threads # {}
        /\ CanQueueResponse(servers[s])
        /\ servers' = [servers EXCEPT ![s] =
                           queue_response(take_available_thread(@), Pid, Tid, m)]
        /\ k' = activate_process_thread(ready, Tid, ServerPid(s), t, FALSE)
        /\ waits' = Blocks(set_thread_result(waits, ServerPid(s), t), Pid, Tid,
                           WaitFor("reply", s))
        /\ UNCHANGED <<SWITCHTO_CALLER, ORIGINAL, PREVIOUS_PAIR, last_pid>>

\* The same when no slot is left to remember the sender in: queue_response fails in
\* the middle of activate_process_thread.  Within one process the call returns an
\* error.  Between two, the server's process is the current one already: the error
\* becomes the result of the thread that process last ran, and the sender, of which
\* nothing is recorded, never returns from its call.
SendDirectUnremembered(s, m) ==
    LET t == AvailableThread(servers[s])
        ready == ready_thread(k, ServerPid(s), t)
        resumed == k.proc[ServerPid(s)].tid
    IN  /\ Blocking(m.type)
        /\ servers[s].ready_threads # {}
        /\ ~CanQueueResponse(servers[s])
        /\ servers' = [servers EXCEPT ![s] = take_available_thread(@)]
        /\ IF ServerPid(s) = Pid
           THEN k' = ready /\ UNCHANGED waits
           ELSE /\ k' = Activated(ready, ServerPid(s), t)
                /\ waits' = Blocks(set_thread_result(waits, ServerPid(s), resumed), Pid, Tid,
                                   WaitFor("reply", s))
        /\ UNCHANGED <<SWITCHTO_CALLER, ORIGINAL, PREVIOUS_PAIR, last_pid>>

\* No thread of the server waits: the message is queued, and a sender that wants an
\* answer blocks.
SendQueued(s, m) ==
    /\ servers[s].ready_threads = {}
    /\ CanQueueMessage(servers[s])
    /\ servers' = [servers EXCEPT ![s] = queue_message(@, Pid, Tid, m)]
    /\ IF Blocking(m.type)
       THEN /\ k' = ReturnToKernel(k, KernelPid, AnyThread, FALSE)
            /\ SWITCHTO_CALLER' = Nobody
            /\ waits' = Blocks(waits, Pid, Tid, WaitFor("reply", s))
       ELSE UNCHANGED <<k, SWITCHTO_CALLER, waits>>
    /\ UNCHANGED <<ORIGINAL, PREVIOUS_PAIR, last_pid>>

\* The queue is full.  SendMessage backs up to its own instruction and yields;
\* TrySendMessage is an error, and changes nothing.
SendRetried(s) ==
    /\ servers[s].ready_threads = {}
    /\ ~CanQueueMessage(servers[s])
    /\ do_yield

SendMessage(s, m) ==
    /\ InUser
    /\ servers[s] # NoServer
    /\ \/ SendDirect(s, m)
       \/ SendDirectBlocking(s, m)
       \/ SendDirectUnremembered(s, m)
       \/ SendQueued(s, m)
       \/ SendRetried(s)

-----------------------------------------------------------------------------
(* receive_message *)

Owned(s) == servers[s] # NoServer /\ ServerPid(s) = Pid

\* ReceiveMessage and TryReceiveMessage when a message waits.  An interrupt handler
\* may make the second call too; none in the repository does, and the model has none.
ReceiveNext(s) ==
    /\ InUser
    /\ Owned(s)
    /\ CanTakeNext(servers[s])
    /\ servers' = [servers EXCEPT ![s] = take_next_message(@)]
    /\ UNCHANGED <<k, SWITCHTO_CALLER, ORIGINAL, PREVIOUS_PAIR, last_pid, waits>>

\* ReceiveMessage when none does
ReceiveParks(s) ==
    /\ InUser
    /\ Owned(s)
    /\ ~CanTakeNext(servers[s])
    /\ servers' = [servers EXCEPT ![s] = park_thread(@, Tid)]
    /\ k' = Assert(ReturnToKernel(k, KernelPid, AnyThread, FALSE),
                   Tid \notin servers[s].ready_threads)
    /\ SWITCHTO_CALLER' = Nobody
    /\ waits' = Blocks(waits, Pid, Tid, WaitFor("message", s))
    /\ UNCHANGED <<ORIGINAL, PREVIOUS_PAIR, last_pid>>

-----------------------------------------------------------------------------
(* return_memory, return_result *)

ClientPid(s, i) == servers[s].queue[i].pid
ClientTid(s, i) == servers[s].queue[i].tid

\* The server keeps the CPU: in an interrupt, or in (what is taken for) its own
\* time slice.
KeepsCpu(s, i) == in_irq \/ ORIGINAL = <<Pid, ClientTid(s, i)>>

\* Variant: the server is still Running when the client is switched to.
HandBack_StillRunning(s, i) ==
    LET ready == ready_thread(k, ClientPid(s, i), ClientTid(s, i))
    IN  IF KeepsCpu(s, i) THEN ready
        ELSE switch_to_thread(ready, ClientPid(s, i), ClientTid(s, i))

\* Variant: the server's thread is taken off the CPU and not made ready.
HandBack_Unscheduled(s, i) ==
    LET ready == ready_thread(k, ClientPid(s, i), ClientTid(s, i))
    IN  IF KeepsCpu(s, i) THEN ready
        ELSE switch_to_thread(unschedule_thread(ready, Pid, Tid),
                              ClientPid(s, i), ClientTid(s, i))

\* The client's thread is ready and has its result; unless the server keeps the CPU
\* it goes on as ready and the client runs.
HandBack(s, i) ==
    LET ready == ready_thread(k, ClientPid(s, i), ClientTid(s, i))
        server == ready_thread(unschedule_thread(ready, Pid, Tid), Pid, Tid)
    IN  IF KeepsCpu(s, i) THEN ready
        ELSE switch_to_thread(server, ClientPid(s, i), ClientTid(s, i))

\* Variant: the client is taken to be alive.
WakesClient_Unchecked(s, i) == WaitingMessage(servers[s].queue[i]) # "ForgetMemory"

\* There is a client to wake: it has not terminated, and the message was not memory
\* that it moved.
WakesClient(s, i) ==
    /\ WaitingMessage(servers[s].queue[i]) # "ForgetMemory"
    /\ Alive(k, ClientPid(s, i))


\* An answer that wakes nobody only frees the slot.
Return(s, i) ==
    /\ Owned(s)
    /\ is_in_server(servers[s].queue[i])
    /\ servers' = [servers EXCEPT ![s] = take_waiting_message(@, i)]
    /\ IF WakesClient(s, i)
       THEN /\ k' = HandBack(s, i)
            /\ waits' = set_thread_result(waits, ClientPid(s, i), ClientTid(s, i))
       ELSE UNCHANGED <<k, waits>>
    /\ UNCHANGED <<SWITCHTO_CALLER, ORIGINAL, PREVIOUS_PAIR, last_pid>>

ReturnMessage(s, i) == InUser /\ Return(s, i)

-----------------------------------------------------------------------------
(* reply_and_receive_next *)

\* The next message is taken, or the thread parked, before the client is looked for:
\* if there is none to wake the call fails and this is not undone.
ReplyAndReceiveNext(s, i) ==
    LET taken == take_waiting_message(servers[s], i)
        ready == ready_thread(k, ClientPid(s, i), ClientTid(s, i))
        wakes == WakesClient(s, i)
    IN  /\ InUser
        /\ "ReplyAndReceiveNext" \in Calls
        /\ Owned(s)
        /\ is_in_server(servers[s].queue[i])
        /\ \/ /\ CanTakeNext(taken)
              /\ servers' = [servers EXCEPT ![s] = take_next_message(taken)]
              /\ k' = IF wakes THEN HandBack(s, i) ELSE k
              /\ waits' = IF wakes
                          THEN set_thread_result(waits, ClientPid(s, i), ClientTid(s, i))
                          ELSE waits
           \/ /\ ~CanTakeNext(taken)
              /\ servers' = [servers EXCEPT ![s] = park_thread(taken, Tid)]
              /\ k' = Assert(IF wakes
                             THEN activate_process_thread(ready, Tid, ClientPid(s, i),
                                                          ClientTid(s, i), FALSE)
                             ELSE k,
                             Tid \notin taken.ready_threads)
              /\ waits' = IF wakes
                          THEN Blocks(set_thread_result(waits, ClientPid(s, i), ClientTid(s, i)),
                                      Pid, Tid, WaitFor("message", s))
                          ELSE waits
        /\ UNCHANGED <<SWITCHTO_CALLER, ORIGINAL, PREVIOUS_PAIR, last_pid>>

-----------------------------------------------------------------------------
(* Interrupts *)

\* An interrupt reaches the handler in process p.  Interrupts are enabled in user
\* mode and while kmain idles.
Interrupt(p) ==
    /\ InUser \/ (InKmain /\ Runnable(k) = {} /\ last_pid = KernelPid)
    /\ Alive(k, p)
    /\ PREVIOUS_PAIR' = <<Pid, Tid>>
    /\ k' = make_callback_to(k, p)
    /\ UNCHANGED <<servers, SWITCHTO_CALLER, ORIGINAL, last_pid, waits>>

\* TrySendMessage in a handler: only messages that want no answer.
HandlerSends(s, m) ==
    /\ InHandler
    /\ servers[s] # NoServer
    /\ ~Blocking(m.type)
    /\ SendDirect(s, m) \/ SendQueued(s, m)

HandlerReturns(s, i) == InHandler /\ Return(s, i)

\* ReturnToParent: the end of the time slice.  The call does not check that it is made
\* from a handler; only the handlers of the timers make it.
ReturnToParent ==
    /\ InHandler
    /\ SWITCHTO_CALLER # Nobody
    /\ PREVIOUS_PAIR' = SWITCHTO_CALLER
    /\ SWITCHTO_CALLER' = Nobody
    /\ UNCHANGED <<k, servers, ORIGINAL, last_pid, waits>>

\* The handler returns to RETURN_FROM_ISR.
finish_isr ==
    /\ InHandler
    /\ k' = finish_callback_and_resume(k, PREVIOUS_PAIR[1], PREVIOUS_PAIR[2])
    /\ PREVIOUS_PAIR' = Nobody
    /\ UNCHANGED <<servers, SWITCHTO_CALLER, ORIGINAL, last_pid, waits>>

-----------------------------------------------------------------------------
(* Servers and processes come and go *)

\* create_server_with_address
CreateServer(s) ==
    /\ InUser
    /\ Pid \in Owners
    /\ servers[s] = NoServer
    /\ \A r \in ServerIdx : r < s => servers[r] # NoServer
    /\ servers' = [servers EXCEPT ![s] = init(Pid, s)]
    /\ UNCHANGED <<k, SWITCHTO_CALLER, ORIGINAL, PREVIOUS_PAIR, last_pid, waits>>

\* Variant: every sender in the queue.
BlockedClients_All(s) ==
    {<<servers[s].queue[i].pid, servers[s].queue[i].tid>> : i \in
        {j \in Slots : servers[s].queue[j] # Empty}}

\* The clients that Server::destroy answers with ServerNotFound: it refuses to act
\* while a message is in the server.
BlockedClients(s) ==
    {<<servers[s].queue[i].pid, servers[s].queue[i].tid>> : i \in
        {j \in Slots : servers[s].queue[j].kind \in
            LendKinds \cup LendTerminatedKinds
            \cup {"BlockingScalarMessage", "BlockingScalarTerminated"}}}

\* ready_thread, with unwrap(), for each of the threads in W
AllReadied(W) ==
    LET of(p) == {t \in TIDs : <<p, t>> \in W}
    IN  [k EXCEPT
            !.fault = @ \/ \E w \in W : ~Alive(k, w[1]) \/ w[2] \in k.proc[w[1]].ready,
            !.proc = [p \in PIDs |->
                IF of(p) = {} THEN k.proc[p]
                ELSE [k.proc[p] EXCEPT !.state = IF @ = "Sleeping" THEN "Ready" ELSE @,
                                       !.ready = @ \cup of(p)]]]

DestroyServer(s) ==
    LET woken == BlockedClients(s) \cup ({Pid} \X servers[s].ready_threads)
    IN  /\ InUser
        /\ "DestroyServer" \in Calls
        /\ Owned(s)
        /\ \A i \in Slots : ~is_in_server(servers[s].queue[i])
        /\ servers' = [servers EXCEPT ![s] = NoServer]
        /\ k' = AllReadied(woken)
        /\ waits' = [p \in PIDs |-> [t \in TIDs |->
                        IF <<p, t>> \in woken THEN NoWait ELSE waits[p][t]]]
        /\ UNCHANGED <<SWITCHTO_CALLER, ORIGINAL, PREVIOUS_PAIR, last_pid>>

\* TerminateProcess, and the end of a process that faults: its servers vanish with
\* their queues, its entries in other queues are marked, and the parent runs.
TerminateProcess ==
    /\ InUser
    /\ Pid \in Mortal
    /\ servers' = [s \in ServerIdx |->
           IF servers[s] = NoServer \/ servers[s].pid = Pid THEN NoServer
           ELSE discard_messages_for_pid(servers[s], Pid)]
    /\ k' = terminate(unschedule_thread(k, Pid, Tid), Pid)
    /\ SWITCHTO_CALLER' = Nobody
    /\ waits' = [waits EXCEPT ![Pid] = [t \in TIDs |-> NoWait]]
    /\ UNCHANGED <<ORIGINAL, PREVIOUS_PAIR, last_pid>>

CreateProcess ==
    /\ InUser
    /\ "CreateProcess" \in Calls
    /\ FreePids(k) # {}
    /\ k' = create_process(k)
    /\ UNCHANGED <<servers, SWITCHTO_CALLER, ORIGINAL, PREVIOUS_PAIR, last_pid, waits>>

-----------------------------------------------------------------------------
(* Threads *)

\* CreateThread: any free thread number may be chosen.
CreateThread(t) ==
    /\ InUser
    /\ t \notin k.proc[Pid].threads
    /\ Cardinality(k.proc[Pid].threads) < MaxThreads[Pid]
    /\ k' = create_thread(k, t)
    /\ UNCHANGED <<servers, SWITCHTO_CALLER, ORIGINAL, PREVIOUS_PAIR, last_pid, waits>>

Joining(t) == {u \in k.proc[Pid].threads : waits[Pid][u] = WaitFor("join", t)}

\* A thread returns to EXIT_THREAD.  One thread that waits for it is woken.
ExitThread ==
    LET woken == IF Joining(Tid) = {} THEN {} ELSE {Lowest(Joining(Tid))}
        k1 == destroy_thread(k, Tid, woken)
    IN  /\ InUser
        /\ "ExitThread" \in Calls
        /\ k' = k1
        /\ SWITCHTO_CALLER' = IF k1.pid # Pid THEN Nobody ELSE SWITCHTO_CALLER
        /\ waits' = [waits EXCEPT ![Pid] =
                        [u \in TIDs |-> IF u \in woken THEN NoWait ELSE @[u]]]
        /\ UNCHANGED <<servers, ORIGINAL, PREVIOUS_PAIR, last_pid>>

\* Variant: the caller of SwitchTo is not forgotten.
JoinThread_KeepingParent(t) ==
    /\ InUser
    /\ "JoinThread" \in Calls
    /\ t \in k.proc[Pid].threads \ {Tid}
    /\ k' = activate_process_thread(k, Tid, KernelPid, AnyThread, FALSE)
    /\ waits' = Blocks(waits, Pid, Tid, WaitFor("join", t))
    /\ UNCHANGED <<servers, SWITCHTO_CALLER, ORIGINAL, PREVIOUS_PAIR, last_pid>>

\* JoinThread of a thread that exists (otherwise it returns at once)
JoinThread(t) ==
    /\ InUser
    /\ "JoinThread" \in Calls
    /\ t \in k.proc[Pid].threads \ {Tid}
    /\ k' = activate_process_thread(k, Tid, KernelPid, AnyThread, FALSE)
    /\ SWITCHTO_CALLER' = Nobody
    /\ waits' = Blocks(waits, Pid, Tid, WaitFor("join", t))
    /\ UNCHANGED <<servers, ORIGINAL, PREVIOUS_PAIR, last_pid>>

-----------------------------------------------------------------------------

Messages == [type : Types, body : Bodies]

Next ==
    \/ SwitchTo
    \/ Idle
    \/ Yield
    \/ WaitEvent
    \/ \E s \in ServerIdx, m \in Messages : SendMessage(s, m)
    \/ \E s \in ServerIdx : ReceiveNext(s) \/ ReceiveParks(s)
    \/ \E s \in ServerIdx, i \in Slots : ReturnMessage(s, i) \/ ReplyAndReceiveNext(s, i)
    \/ \E p \in Handlers : Interrupt(p)
    \/ \E s \in ServerIdx, m \in Messages : HandlerSends(s, m)
    \/ \E s \in ServerIdx, i \in Slots : HandlerReturns(s, i)
    \/ ReturnToParent
    \/ finish_isr
    \/ \E s \in ServerIdx : CreateServer(s) \/ DestroyServer(s)
    \/ TerminateProcess
    \/ CreateProcess
    \/ \E t \in TIDs : CreateThread(t) \/ JoinThread(t)
    \/ ExitThread

Spec == Init /\ [][Next]_vars

\* kmain does not stop, interrupt handlers return, and the timer ends time slices:
\* it stays pending while interrupts are masked, and not every interrupt is its.
Fairness ==
    /\ WF_vars(SwitchTo \/ Idle)
    /\ SF_vars(\E p \in Handlers : Interrupt(p))
    /\ SF_vars(ReturnToParent)
    /\ WF_vars(finish_isr)

FairSpec == Spec /\ Fairness

-----------------------------------------------------------------------------
(* Safety *)

\* No panic, and no error that leaves a system call half done: no sequence of calls
\* and interrupts trips an assertion of the scheduler or of park_thread.
NoFault == ~k.fault

\* Exactly one process runs, it is the one whose memory is mapped, and the scheduler
\* and the hardware agree on its thread.
OneProcessRuns ==
    /\ \A p \in PIDs : k.proc[p].state = "Running" <=> p = k.pid
    /\ k.proc[k.pid].current_thread = k.proc[k.pid].tid

\* Every thread of a live process is in exactly one place: running, ready to run, or
\* blocked in a call.  Nothing is lost, and nothing wakes up without the result of
\* its call, whoever hands the CPU to whom.
ThreadRuns(p, t) == ~in_irq /\ p = Pid /\ t = Tid
ThreadsAccounted ==
    /\ TypeOK
    /\ \A p \in PIDs \ {KernelPid} : \A t \in k.proc[p].threads :
          IF t \in k.proc[p].ready
          THEN ~ThreadRuns(p, t) /\ waits[p][t] = NoWait
          ELSE ThreadRuns(p, t) <=> waits[p][t] = NoWait

\* Queue entries on which an answer to thread t of p depends.
Entries(s, p, t) ==
    {i \in Slots : /\ servers[s].queue[i] # Empty
                   /\ servers[s].queue[i].kind \notin
                          {"ScalarMessage", "MemoryMessageSend", "WaitingForget"}
                   /\ <<servers[s].queue[i].pid, servers[s].queue[i].tid>> = <<p, t>>}

\* A thread that waits for an answer from a server has one entry in its queue, and
\* the entries of live threads belong to threads that wait: it is answered once.
AnswersOwed ==
    \A p \in PIDs, t \in TIDs, s \in ServerIdx :
        servers[s] # NoServer /\ t \in k.proc[p].threads =>
            Cardinality(Entries(s, p, t)) =
                IF waits[p][t] = WaitFor("reply", s) THEN 1 ELSE 0


\* A server's ready_threads are the threads that wait for its messages.
ParkedThreadsWait ==
    \A s \in ServerIdx : servers[s] # NoServer =>
        servers[s].ready_threads =
            {t \in TIDs : waits[ServerPid(s)][t] = WaitFor("message", s)}

\* The parent that Yield and ReturnToParent give the CPU back to is known exactly
\* while a process has the CPU: neither "yielded when no parent context was present"
\* nor "SwitchTo was called twice" can happen.
ParentKnown == ~in_irq => (SWITCHTO_CALLER = Nobody <=> Pid = KernelPid)

-----------------------------------------------------------------------------
(* Liveness *)

\* A ready thread of a process gets to run, however the time slices of its process
\* are lent to servers and taken away by interrupts.
NoThreadStarves ==
    \A p \in PIDs \ {KernelPid}, t \in TIDs :
        t \in k.proc[p].ready ~> t \notin k.proc[p].ready

-----------------------------------------------------------------------------
(* What comments in the source say *)

\* terminate_process: requests queued at its servers are answered with an error.
NobodyAbandoned ==
    \A p \in PIDs, t \in TIDs :
        waits[p][t].for = "reply" => servers[waits[p][t].arg] # NoServer

\* JoinThread waits for a thread to finish: nobody waits for one that has.
JoinedThreadsExist ==
    \A p \in PIDs, t \in TIDs :
        waits[p][t].for = "join" => waits[p][t].arg \in k.proc[p].threads

\* A process that returns a message in its own time slice keeps the CPU.
OwnSliceKept ==
    [][\A s \in ServerIdx, i \in Slots :
           ORIGINAL = <<Pid, Tid>> /\ ReturnMessage(s, i) => Pid' = Pid /\ Tid' = Tid]_vars
=============================================================================
