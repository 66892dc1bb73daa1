----------------------------- MODULE ServerQueue -----------------------------
(***************************************************************************)
(* One server's queue under every sequence of calls the kernel makes on it. *)
(* Each action is what one system call does to the server: the branch of     *)
(* send_message, receive_message, return_memory / return_result,             *)
(* reply_and_receive_next (kernel/src/syscall.rs) or terminate_process       *)
(* (kernel/src/services.rs) that reaches it.  System calls are atomic: the    *)
(* kernel runs them with interrupts off on one core.                         *)
(***************************************************************************)
EXTENDS Server, Sequences

CONSTANTS
    Clients,        \* the <<pid, tid>> pairs that send to this server
    ServerThreads,  \* threads of the process that owns the server
    Types,          \* message types the clients use
    ServerPid, ServerSid,
    Nobody

ASSUME ServerQueueAssumption ==
    /\ Clients \subseteq PIDs \X TIDs
    /\ ServerThreads \subseteq TIDs
    /\ Types \subseteq MessageTypes
    /\ ServerPid \in PIDs
    /\ ServerSid \in SIDs

VARIABLE server

vars == <<server>>

TypeOK == server \in ServerType

Init == server = init(ServerPid, ServerSid)

Messages == [type : Types, body : Bodies]

-----------------------------------------------------------------------------
(* send_message *)

\* No thread of the server waits: the message is queued, if there is room.
SendQueued(c, m) ==
    /\ server.ready_threads = {}
    /\ CanQueueMessage(server)
    /\ server' = queue_message(server, c[1], c[2], m)

\* A thread waits and the message wants an answer: the sender is remembered in
\* a free slot and the thread runs.
SendDirectBlocking(c, m) ==
    /\ Blocking(m.type)
    /\ server.ready_threads # {}
    /\ CanQueueResponse(server)
    /\ server' = queue_response(take_available_thread(server), c[1], c[2], m)

\* A thread waits and no answer is wanted; or every slot is taken, so that the
\* sender cannot be remembered.  In both cases only the thread is taken.
SendDirect(m) ==
    /\ server.ready_threads # {}
    /\ Blocking(m.type) => ~CanQueueResponse(server)
    /\ server' = take_available_thread(server)

-----------------------------------------------------------------------------
(* receive_message; TryReceiveMessage is the case that does not park *)

TakeNextOrPark(s, tid) ==
    IF CanTakeNext(s) THEN take_next_message(s) ELSE park_thread(s, tid)

\* Only a running thread calls, and a parked one does not run.
Receive(tid) ==
    /\ tid \notin server.ready_threads
    /\ server' = TakeNextOrPark(server, tid)

-----------------------------------------------------------------------------
(* return_memory, return_result and reply_and_receive_next *)

Reply(i) ==
    /\ is_in_server(server.queue[i])
    /\ server' = take_waiting_message(server, i)

ReplyAndReceiveNext(i, tid) ==
    /\ tid \notin server.ready_threads
    /\ is_in_server(server.queue[i])
    /\ server' = TakeNextOrPark(take_waiting_message(server, i), tid)

\* terminate_process of a client
Discard(pid) == server' = discard_messages_for_pid(server, pid)

-----------------------------------------------------------------------------

Next ==
    \/ \E c \in Clients, m \in Messages : SendQueued(c, m) \/ SendDirectBlocking(c, m)
    \/ \E m \in Messages : SendDirect(m)
    \/ \E tid \in ServerThreads : Receive(tid)
    \/ \E i \in Slots : Reply(i)
    \/ \E i \in Slots, tid \in ServerThreads : ReplyAndReceiveNext(i, tid)
    \/ \E pid \in PIDs : Discard(pid)

Spec == Init /\ [][Next]_vars

\* A server is a loop around ReceiveMessage or ReplyAndReceiveNext: some thread
\* of it asks for the next message again and again.
Fairness == WF_vars(\E tid \in ServerThreads : Receive(tid))

FairSpec == Spec /\ Fairness

-----------------------------------------------------------------------------
(* Generations *)

\* Increments that lead from generation h to generation g.
GenDistance(h, g) == IF g >= h THEN g - h ELSE g + GenMod - h

\* Messages accepted and not delivered yet, by the counters.
PendingCount(s) == GenDistance(s.head_generation, s.tail_generation)

\* g is the generation of a message accepted and not delivered yet.
InWindow(s, g) == GenDistance(s.head_generation, g) < PendingCount(s)

Holds(s, i, g) == Undelivered(s.queue[i]) /\ s.queue[i].idx = g

EntriesInWindow(s) == \A i \in Slots : Undelivered(s.queue[i]) => InWindow(s, s.queue[i].idx)
WindowFilled(s) == \A g \in Gens : InWindow(s, g) => \E i \in Slots : Holds(s, i, g)
GenerationsUnique(s) ==
    \A i, j \in Slots : Undelivered(s.queue[i]) /\ Holds(s, j, s.queue[i].idx) => i = j

\* The u8 counters and the entries agree: the entries that wait for delivery have
\* exactly the generations from head_generation up to tail_generation, each one
\* once, however often the counters have wrapped.  So take_next_message never
\* scans the whole ring in vain while the counters say that a message waits
\* (the panic commented out in server.rs), and never has two candidates.
GenerationsMatch ==
    EntriesInWindow(server) /\ WindowFilled(server) /\ GenerationsUnique(server)

\* No lost wake-up: while a thread of the server is parked, no message is queued.
\* receive_message and reply_and_receive_next park only after take_next_message
\* returned None, and send_message queues only when nobody is parked.
NoLostWakeup ==
    server.ready_threads # {} => \A i \in Slots : ~Undelivered(server.queue[i])

\* Every message in the queue is delivered if the server keeps receiving; later
\* messages, which may land in slots nearer to queue_tail, never overtake it for
\* ever.
EveryMessageDelivered ==
    \A i \in Slots : Undelivered(server.queue[i]) ~> ~Undelivered(server.queue[i])

-----------------------------------------------------------------------------
(* The queue implements the mailbox *)

GenAt(h, n) == IF h + n >= GenMod THEN h + n - GenMod ELSE h + n

SlotOf(g) == CHOOSE i \in Slots : Holds(server, i, g)

Expects(kind) ==
    CASE kind \in LendKinds \cup LendTerminatedKinds \cup {"WaitingReturnMemory"} -> "memory"
      [] kind \in {"BlockingScalarMessage", "WaitingReturnScalar"}               -> "scalar"
      [] OTHER                                                                  -> "nothing"

LetterOf(entry) ==
    [from |-> <<entry.pid, entry.tid>>, expects |-> Expects(entry.kind), body |-> entry.body]

MailboxPending ==
    [n \in 1 .. PendingCount(server) |->
        LetterOf(server.queue[SlotOf(GenAt(server.head_generation, n - 1))])]

MailboxServing ==
    [i \in Slots |->
        IF is_in_server(server.queue[i]) THEN LetterOf(server.queue[i]) ELSE Nobody]

M == INSTANCE Mailbox WITH
        Senders <- PIDs \X TIDs,
        Threads <- TIDs,
        Tokens <- Slots,
        Contents <- Bodies,
        Nobody <- Nobody,
        pending <- MailboxPending,
        serving <- MailboxServing,
        idle <- server.ready_threads

\* Nobody marks the slots without an answer to give: it is not a letter.
ASSUME NobodyAssumption == Nobody \notin M!Letter

\* Every call sequence on the queue is a behaviour of the mailbox: messages reach
\* the server first-in first-out and once each, and a message that wants an answer
\* keeps its sender on record, in one slot, until that slot is answered.
ImplementsMailbox == M!Spec

=============================================================================
