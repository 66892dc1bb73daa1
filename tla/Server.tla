------------------------------- MODULE Server -------------------------------
(***************************************************************************)
(* kernel/src/server.rs: the message queue the kernel keeps for one server, *)
(* as operators on a server record.  The methods of `impl Server` keep their *)
(* names; each takes the server before the call and is the server after it.  *)
(*                                                                         *)
(* Abstractions.  `body` stands for what a message carries: the scalar        *)
(* arguments, or the buffer of a memory message (its client and server        *)
(* addresses and its length are one value).  The u8 generation counters are   *)
(* counted modulo GenMod (256 in the code), the queue page holds QueueLen      *)
(* entries (128 in the code), and the ready_threads bit mask is a set of TIDs. *)
(***************************************************************************)
EXTENDS Integers

CONSTANTS
    PIDs,       \* process identifiers that may appear in a queue entry
    TIDs,       \* thread identifiers
    SIDs,       \* server identifiers
    Bodies,     \* message contents
    QueueLen,   \* entries in the page that backs a queue
    GenMod      \* number of values of a generation counter

ASSUME ServerAssumption ==
    /\ QueueLen \in Nat \ {0}
    /\ GenMod \in Nat \ {0, 1}
    /\ TIDs \subseteq Nat

Slots == 0 .. QueueLen - 1
Gens == 0 .. GenMod - 1

-----------------------------------------------------------------------------
(* Messages and queue entries *)

MessageTypes == {"Scalar", "BlockingScalar", "Move", "Borrow", "MutableBorrow"}

\* Message::is_blocking: the sender waits for an answer.
Blocking(type) == type \in {"BlockingScalar", "Borrow", "MutableBorrow"}

Message == [type : MessageTypes, body : Bodies]

LendKinds == {"MemoryMessageROLend", "MemoryMessageRWLend"}
LendTerminatedKinds == {"MemoryMessageROLendTerminated", "MemoryMessageRWLendTerminated"}

\* Entries that the server has not seen yet.
UndeliveredKinds ==
    LendKinds \cup LendTerminatedKinds
    \cup {"ScalarMessage", "BlockingScalarMessage", "BlockingScalarTerminated",
          "MemoryMessageSend"}

\* Entries that the server has seen and not answered: is_in_server().
WaitingKinds == {"WaitingReturnMemory", "WaitingForget", "WaitingReturnScalar"}

Empty == [kind |-> "Empty"]

QueuedMessage ==
    {Empty} \cup
    [kind : UndeliveredKinds \cup WaitingKinds,
     pid : PIDs, tid : TIDs, idx : Gens, body : Bodies]

Undelivered(entry) == entry.kind \in UndeliveredKinds
is_in_server(entry) == entry.kind \in WaitingKinds

ServerType ==
    [sid : SIDs, pid : PIDs,
     queue_head : Slots, queue_tail : Slots,
     head_generation : Gens, tail_generation : Gens,
     queue : [Slots -> QueuedMessage],
     ready_threads : SUBSET TIDs]

\* Server::init
init(pid, sid) ==
    [sid |-> sid, pid |-> pid,
     queue_head |-> 0, queue_tail |-> 0,
     head_generation |-> 0, tail_generation |-> 0,
     queue |-> [i \in Slots |-> Empty],
     ready_threads |-> {}]

-----------------------------------------------------------------------------
(* Walking around the ring *)

\* Variant: the wrap at the end of the page is forgotten.
NextSlot_NoWrap(i) == i + 1

NextSlot(i) == IF i + 1 >= QueueLen THEN 0 ELSE i + 1

\* Variant: the counter saturates.
NextGen_Saturating(g) == IF g = GenMod - 1 THEN g ELSE g + 1

\* wrapping_add(1) and wrapping_sub(1) of the generation counters
NextGen(g) == IF g = GenMod - 1 THEN 0 ELSE g + 1
PrevGen(g) == IF g = 0 THEN GenMod - 1 ELSE g - 1

\* Steps of NextSlot from slot `from` to slot i.
Distance(from, i) == IF i >= from THEN i - from ELSE i + QueueLen - from

\* The slot of S that a scan starting at `from` meets first.
FirstFrom(from, S) ==
    CHOOSE i \in S : \A j \in S : Distance(from, i) <= Distance(from, j)

-----------------------------------------------------------------------------
(* Queueing *)

EmptySlots(s) == {i \in Slots : s.queue[i] = Empty}

\* The `if queue_idx == self.queue_head` that ends both queueing methods.
AdvanceHead(s, i) == IF i = s.queue_head THEN NextSlot(s.queue_head) ELSE s.queue_head

\* queue_message succeeds; otherwise it is Err(ServerQueueFull).
CanQueueMessage(s) ==
    /\ s.tail_generation # PrevGen(s.head_generation)
    /\ EmptySlots(s) # {}

QueuedKind(type) ==
    CASE type = "Scalar"         -> "ScalarMessage"
      [] type = "BlockingScalar" -> "BlockingScalarMessage"
      [] type = "Move"           -> "MemoryMessageSend"
      [] type = "MutableBorrow"  -> "MemoryMessageRWLend"
      [] type = "Borrow"         -> "MemoryMessageROLend"

queue_message(s, pid, tid, message) ==
    LET i == FirstFrom(s.queue_head, EmptySlots(s))
    IN  [s EXCEPT !.queue[i] = [kind |-> QueuedKind(message.type),
                                pid |-> pid, tid |-> tid,
                                idx |-> s.tail_generation, body |-> message.body],
                  !.tail_generation = NextGen(@),
                  !.queue_head = AdvanceHead(s, i)]

\* queue_response succeeds; otherwise it is Err(ServerQueueFull).
CanQueueResponse(s) == EmptySlots(s) # {}

\* Variant: the head, whatever is there.
ResponseSlot_Head(s) == s.queue_head

\* The slot queue_response chooses: it becomes the `idx` of the SenderID.
ResponseSlot(s) == FirstFrom(s.queue_head, EmptySlots(s))

WaitingKind(type) ==
    CASE type \in {"Scalar", "BlockingScalar"}    -> "WaitingReturnScalar"
      [] type = "Move"                            -> "WaitingForget"
      [] type \in {"MutableBorrow", "Borrow"}     -> "WaitingReturnMemory"

queue_response(s, pid, tid, message) ==
    LET i == ResponseSlot(s)
    IN  [s EXCEPT !.queue[i] = [kind |-> WaitingKind(message.type),
                                pid |-> pid, tid |-> tid,
                                idx |-> 0, body |-> message.body],
                  !.queue_head = AdvanceHead(s, i)]

-----------------------------------------------------------------------------
(* Delivery *)

\* Variant: entries of terminated clients are forgotten.
Deliverable_NotTerminated(s) ==
    {i \in Slots : /\ Undelivered(s.queue[i])
                   /\ s.queue[i].kind \notin LendTerminatedKinds \cup {"BlockingScalarTerminated"}
                   /\ s.queue[i].idx = s.head_generation}

\* The slots whose entry take_next_message may deliver.
Deliverable(s) ==
    {i \in Slots : Undelivered(s.queue[i]) /\ s.queue[i].idx = s.head_generation}

\* Variant: only the entry at queue_tail is looked at.
CanTakeNext_TailOnly(s) ==
    /\ s.tail_generation # s.head_generation
    /\ s.queue_tail \in Deliverable(s)

\* take_next_message is Some(_).
CanTakeNext(s) ==
    /\ s.tail_generation # s.head_generation
    /\ Deliverable(s) # {}

\* The slot the scan from queue_tail stops at.
NextMessageSlot(s) == FirstFrom(s.queue_tail, Deliverable(s))

\* Variant: memory lent by a client that has terminated is not kept.
DeliveredEntry_Forgotten(entry) ==
    CASE entry.kind \in LendKinds -> [entry EXCEPT !.kind = "WaitingReturnMemory"]
      [] entry.kind = "BlockingScalarMessage" ->
             [entry EXCEPT !.kind = "WaitingReturnScalar"]
      [] OTHER -> Empty

\* What the slot holds once its message is delivered.  A lend whose sender has
\* terminated is still kept for return_memory; a terminated blocking scalar is
\* handed over as a Scalar, which nobody answers.
DeliveredEntry(entry) ==
    CASE entry.kind \in LendKinds \cup LendTerminatedKinds ->
             [entry EXCEPT !.kind = "WaitingReturnMemory"]
      [] entry.kind = "BlockingScalarMessage" ->
             [entry EXCEPT !.kind = "WaitingReturnScalar"]
      [] OTHER -> Empty

take_next_message(s) ==
    LET i == NextMessageSlot(s)
    IN  [s EXCEPT !.queue[i] = DeliveredEntry(@),
                  !.queue_tail = IF i = @ THEN NextSlot(@) ELSE @,
                  !.head_generation = NextGen(@)]

-----------------------------------------------------------------------------
(* Answering *)

\* The WaitingMessage that take_waiting_message returns for an entry.
WaitingMessage(entry) ==
    CASE entry.kind = "WaitingReturnMemory" -> "BorrowedMemory"
      [] entry.kind = "WaitingForget"       -> "ForgetMemory"
      [] entry.kind = "WaitingReturnScalar" -> "ScalarMessage"
      [] OTHER                              -> "None"

\* The tail steps over the emptied slot and then over every Empty entry up to
\* the head.
TailAfterTaking(s, i, queue) ==
    IF i = s.queue_tail
    THEN FirstFrom(NextSlot(i), {s.queue_head} \cup {j \in Slots : queue[j] # Empty})
    ELSE s.queue_tail

take_waiting_message(s, i) ==
    IF is_in_server(s.queue[i])
    THEN LET queue == [s.queue EXCEPT ![i] = Empty]
         IN  [s EXCEPT !.queue = queue, !.queue_tail = TailAfterTaking(s, i, queue)]
    ELSE s

-----------------------------------------------------------------------------
(* Termination of a client *)

TerminatedKind(kind) ==
    CASE kind = "MemoryMessageROLend"   -> "MemoryMessageROLendTerminated"
      [] kind = "MemoryMessageRWLend"   -> "MemoryMessageRWLendTerminated"
      [] kind = "BlockingScalarMessage" -> "BlockingScalarTerminated"
      [] OTHER                          -> kind

DiscardedEntry(entry, pid) ==
    IF entry # Empty /\ entry.pid = pid
    THEN [entry EXCEPT !.kind = TerminatedKind(@)]
    ELSE entry

discard_messages_for_pid(s, pid) ==
    [s EXCEPT !.queue = [i \in Slots |-> DiscardedEntry(s.queue[i], pid)]]

-----------------------------------------------------------------------------
(* Threads of the server that wait for a message *)

\* The lowest bit of ready_threads.
AvailableThread(s) ==
    CHOOSE t \in s.ready_threads : \A u \in s.ready_threads : t <= u

\* Variant: the thread stays available.
take_available_thread_Peek(s) == s

take_available_thread(s) ==
    [s EXCEPT !.ready_threads = @ \ {AvailableThread(s)}]

\* park_thread; its assertion is that tid is not parked already.
park_thread(s, tid) == [s EXCEPT !.ready_threads = @ \cup {tid}]
=============================================================================
