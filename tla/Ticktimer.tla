----------------------------- MODULE Ticktimer -----------------------------
(***************************************************************************)
(* services/xous-ticktimer: sleeping, and condition variables with and       *)
(* without a time-out.  The server handles one message at a time; the alarm   *)
(* interrupt of the hardware timer runs handle_irq in the same process, at    *)
(* any moment at which the alarm is enabled and due.  Every handler that      *)
(* touches the sleepers runs between stop_sleep, which disables the alarm, and *)
(* start_sleep, which enables it again; so a handler is one step here, and the *)
(* interrupt is another.                                                     *)
(*                                                                         *)
(* The kernel's queue (module Server) appears as the FIFO `inbox` and as the   *)
(* entries of its ring: the number of an entry is what the code calls the      *)
(* MessageSender, and it is used again as soon as the entry is free.  Other    *)
(* clients move the ring's head, so a message may land in any free entry.      *)
(***************************************************************************)
EXTENDS Integers, Sequences, SequencesExt, FiniteSets

CONSTANTS
    Threads,        \* client threads
    Processes,      \* their processes
    ProcessOf,      \* the process of each thread
    Mortal,         \* the processes that may terminate
    Conds,          \* addresses of condition variables
    Slots,          \* entries of the server's queue
    Delays,         \* lengths of sleeps and of time-outs, in milliseconds
    MaxTime,        \* bound: no client calls after this time
    MaxCalls,       \* bound: number of client calls
    Clients,        \* the calls that threads make
    None            \* a value for "no sender", "no condition", "no process"

Unblocked == "unblocked"   \* holder of an entry whose sender does not wait
Free == "free"             \* holder of an entry that is not in use

ASSUME TicktimerAssumption ==
    /\ ProcessOf \in [Threads -> Processes]
    /\ Mortal \subseteq Processes
    /\ Delays \subseteq Nat
    /\ MaxTime \in Nat /\ MaxCalls \in Nat
    /\ None \notin Processes \cup Conds \cup Slots
    /\ {Unblocked, Free} \cap Threads = {}

\* What a MessageSender tells apart: the entry and the sending process.
Senders == Slots \X Processes

VARIABLES
    now,                            \* elapsed_ms
    inbox,                          \* messages queued and not delivered, oldest first
    entries,                        \* who holds each entry of the queue
    calls,                          \* what each thread is doing
    left,                           \* client calls left (bound)
    msg_opt,                        \* the message the server is working on
    handling,                       \* the server is in the body of its loop
    current_response,               \* the request the alarm is set for
    sleep_heap,                     \* the other requests, no two with the same msec
    notify_table,                   \* waiting senders by process and condition, oldest first
    notifications_with_timeouts,    \* the waiting senders that have a time-out
    LAST_RESPONDER,                 \* the sender answered by the last interrupt
    alarm,                          \* the timer's registers EV_ENABLE and MSLEEP_TARGET
    suspend,                        \* progress of a suspend, and EV_ENABLE as it was saved
    panicked,                       \* how the server has panicked, if it has
    answered                        \* history: the answers given in the last step

kernelVars == <<inbox, entries, calls, left>>
timerVars == <<current_response, sleep_heap, alarm>>
condVars == <<notify_table, notifications_with_timeouts>>
vars == <<now, kernelVars, msg_opt, handling, timerVars, condVars,
          LAST_RESPONDER, suspend, panicked, answered>>

Nothing == [op |-> "Nothing"]

Opcodes == {"ElapsedMs", "SleepMs", "RecalculateSleep", "SuspendResume",
            "WaitForCondition", "NotifyCondition", "FreeCondition"}

\* arg: milliseconds of a sleep or time-out, number of threads to notify, or the
\* number to be returned.  about: the sender that RecalculateSleep reports.
Message ==
    [op : Opcodes, slot : Slots, pid : Processes \cup {None}, blocking : BOOLEAN,
     cond : Conds \cup {None}, arg : Nat, about : Senders \cup {None}]

\* MessageEnvelope::sender
Sender(m) == <<m.slot, m.pid>>

TimerRequest ==
    [msec : Nat, sender : Senders, kind : {"Sleep", "Timeout"}, data : Conds \cup {None}]

Idle == [op |-> "Idle"]
Gone == [op |-> "Gone"]

\* due: the earliest time at which the call may end by itself, as its caller sees it
Call ==
    {Idle, Gone} \cup
    [op : Opcodes, cond : Conds \cup {None}, timed : BOOLEAN, due : Nat]

TypeOK ==
    /\ now \in Nat
    /\ inbox \in Seq(Message)
    /\ entries \in [Slots -> Threads \cup {Unblocked, Free}]
    /\ calls \in [Threads -> Call]
    /\ left \in 0 .. MaxCalls
    /\ msg_opt \in Message \cup {Nothing}
    /\ handling \in BOOLEAN
    /\ current_response \in TimerRequest \cup {Nothing}
    /\ sleep_heap \subseteq TimerRequest
    /\ notify_table \in [Processes \X Conds -> Seq(Senders)]
    /\ notifications_with_timeouts \subseteq Senders
    /\ LAST_RESPONDER \in Senders \cup {None}
    /\ alarm \in [enabled : BOOLEAN, target : Nat]
    /\ suspend \in [phase : {"no", "saved", "off"}, enabled : BOOLEAN]
    /\ panicked \in {"no", "assert", "reply"}
    /\ answered \subseteq [thread : Threads, value : Nat]

NotSuspended == [phase |-> "no", enabled |-> FALSE]

Init ==
    /\ now = 0
    /\ inbox = <<>>
    /\ entries = [s \in Slots |-> Free]
    /\ calls = [t \in Threads |-> Idle]
    /\ left = MaxCalls
    /\ msg_opt = Nothing
    /\ handling = FALSE
    /\ current_response = Nothing
    /\ sleep_heap = {}
    /\ notify_table = [pc \in Processes \X Conds |-> <<>>]
    /\ notifications_with_timeouts = {}
    /\ LAST_RESPONDER = None
    /\ alarm = [enabled |-> FALSE, target |-> 0]
    /\ suspend = NotSuspended
    /\ panicked = "no"
    /\ answered = {}

-----------------------------------------------------------------------------
(* The kernel's queue, as far as the server can tell *)

FreeSlots(table) == {s \in Slots : table[s] = Free}

\* The entry holds a delivered message whose sender waits for the answer.
Waiting(s) == entries[s] \in Threads /\ \A i \in DOMAIN inbox : inbox[i].slot # s

\* return_scalar on the entries S: they become free, and their threads go on unless
\* they are gone.
Released(S) == [s \in Slots |-> IF s \in S /\ Waiting(s) THEN Free ELSE entries[s]]

Woken(S) == {t \in Threads : calls[t] # Gone /\ \E s \in S : Waiting(s) /\ entries[s] = t}

Resumed(S) == [t \in Threads |-> IF t \in Woken(S) THEN Idle ELSE calls[t]]

Answers(S, value) == [thread : Woken(S), value : {value}]

-----------------------------------------------------------------------------
(* The threads: one message each, and then they wait for its answer *)

\* Queue message m of thread t, which then is in `call` until the answer.
Send(t, op, cond, arg, blocking, call) ==
    /\ op \in Clients
    /\ calls[t] = Idle
    /\ now <= MaxTime /\ left > 0
    /\ left' = left - 1
    /\ \E s \in FreeSlots(entries) :
         /\ inbox' = Append(inbox, [op |-> op, slot |-> s, pid |-> ProcessOf[t],
                                    blocking |-> blocking, cond |-> cond, arg |-> arg,
                                    about |-> None])
         /\ entries' = [entries EXCEPT ![s] = IF blocking THEN t ELSE Unblocked]
    /\ calls' = [calls EXCEPT ![t] = IF blocking THEN call ELSE @]
    /\ answered' = {}
    /\ UNCHANGED <<now, msg_opt, handling, timerVars, condVars, LAST_RESPONDER, suspend, panicked>>

InCall(op, cond, ms) == [op |-> op, cond |-> cond, timed |-> ms # 0, due |-> now + ms]

elapsed_ms(t) == Send(t, "ElapsedMs", None, 0, TRUE, InCall("ElapsedMs", None, 0))

sleep_ms(t, ms) == Send(t, "SleepMs", None, ms, TRUE, InCall("SleepMs", None, ms))

\* The Condvar of the standard library (external): WaitForCondition and NotifyCondition as
\* BlockingScalars, FreeCondition as a Scalar.  (Ticktimer::wait_condition sends a Scalar,
\* which the server ignores.)  A time-out of 0 is none.
wait_condition(t, c, ms) ==
    Send(t, "WaitForCondition", c, ms, TRUE, InCall("WaitForCondition", c, ms))

notify_condition(t, c, count) ==
    Send(t, "NotifyCondition", c, count, TRUE, InCall("NotifyCondition", c, 0))

\* A condition variable is dropped by its last user; only a client that does not
\* keep to Rust's ownership frees one that its threads wait for.
free_condition(t, c) ==
    /\ \/ "FreeWhileWaiting" \in Clients
       \/ \A u \in Threads : ProcessOf[u] = ProcessOf[t] /\ calls[u].op = "WaitForCondition"
                               => calls[u].cond # c
    /\ Send(t, "FreeCondition", c, 0, FALSE, Idle)

\* The process of some threads terminates: its queued messages stay, and their senders
\* wait no longer (Server!discard_messages_for_pid).
Terminate(p) ==
    /\ p \in Mortal
    /\ \E t \in Threads : ProcessOf[t] = p /\ calls[t] # Gone
    /\ calls' = [t \in Threads |-> IF ProcessOf[t] = p THEN Gone ELSE calls[t]]
    /\ inbox' = [i \in DOMAIN inbox |->
                    IF inbox[i].pid = p THEN [inbox[i] EXCEPT !.blocking = FALSE] ELSE inbox[i]]
    /\ answered' = {}
    /\ UNCHANGED <<now, entries, left, msg_opt, handling, timerVars, condVars, LAST_RESPONDER,
                   suspend, panicked>>

-----------------------------------------------------------------------------
Panicked == panicked # "no"

\* A failed assertion is the end of the server.
Asserts(condition) == panicked' = IF condition THEN "no" ELSE "assert"

(* The timer: a heap of requests, the earliest of which is in the hardware *)

\* Variant: the current request is dropped.
StoppedHeap_Dropped == sleep_heap

\* The heap after stop_sleep has put the current request back.
StoppedHeap ==
    IF current_response = Nothing THEN sleep_heap ELSE sleep_heap \cup {current_response}

Keys(heap) == {r.msec : r \in heap}

\* stop_sleep: "Existing sleep_heap entry would be overwritten"
StopSleepAsserts == current_response # Nothing => current_response.msec \notin Keys(sleep_heap)

\* Variant: a request for the same time is overwritten.
Inserted_Overwrite(heap, request) ==
    {r \in heap : r.msec # request.msec + now} \cup {[request EXCEPT !.msec = @ + now]}

\* recalculate_sleep_offline: the first free key at or after the requested time.
Inserted(heap, request) ==
    LET first == request.msec + now
        msec == CHOOSE m \in first .. first + Cardinality(heap) :
                    /\ m \notin Keys(heap)
                    /\ \A k \in first .. m - 1 : k \in Keys(heap)
    IN  heap \cup {[request EXCEPT !.msec = msec]}

Without(heap, S) == {r \in heap : r.sender \notin S}

Earliest(heap) == CHOOSE r \in heap : \A q \in heap : r.msec <= q.msec

\* start_sleep with schedule_response
StartSleep(heap) ==
    IF heap = {}
    THEN /\ current_response' = Nothing
         /\ sleep_heap' = {}
         /\ alarm' = [alarm EXCEPT !.enabled = FALSE]
    ELSE /\ current_response' = Earliest(heap)
         /\ sleep_heap' = heap \ {Earliest(heap)}
         /\ alarm' = [enabled |-> TRUE, target |-> Earliest(heap).msec]

\* Variant: the message is sent before the answer is given.
RoomAfterAnswer_Before(slot) == FreeSlots(entries)

\* Entries that RecalculateSleep may be queued in, once the answer has freed one.
RoomAfterAnswer(slot) == FreeSlots(Released({slot}))

\* The alarm interrupt.  `take().unwrap()` panics if there is no request; the message to
\* the server itself is lost if the queue is full.
handle_irq ==
    /\ alarm.enabled /\ alarm.target <= now /\ ~Panicked
    /\ IF current_response = Nothing
       THEN /\ panicked' = "assert"
            /\ answered' = {}
            /\ UNCHANGED <<kernelVars, timerVars, LAST_RESPONDER>>
       ELSE LET response == current_response
                slot == response.sender[1]
            IN  /\ current_response' = Nothing
                /\ alarm' = [alarm EXCEPT !.enabled = FALSE]
                /\ calls' = Resumed({slot})
                /\ answered' = Answers({slot}, IF response.kind = "Sleep" THEN 0 ELSE 1)
                /\ \/ /\ RoomAfterAnswer(slot) = {}
                      /\ entries' = Released({slot})
                      /\ UNCHANGED inbox
                   \/ \E s \in RoomAfterAnswer(slot) :
                        /\ entries' = [Released({slot}) EXCEPT ![s] = Unblocked]
                        /\ inbox' = Append(inbox,
                             [op |-> "RecalculateSleep", slot |-> s, pid |-> None,
                              blocking |-> FALSE, cond |-> response.data, arg |-> 0,
                              about |-> response.sender])
                /\ LAST_RESPONDER' = response.sender
                /\ UNCHANGED <<left, sleep_heap, panicked>>
    /\ UNCHANGED <<now, msg_opt, handling, condVars, suspend>>

\* The hardware counts; the model's clock stops when nobody waits for it any more.
Tick ==
    /\ now < MaxTime \/ \E r \in StoppedHeap : r.msec > now
    /\ now' = now + 1
    /\ answered' = {}
    /\ UNCHANGED <<kernelVars, msg_opt, handling, timerVars, condVars, LAST_RESPONDER, suspend,
                   panicked>>

-----------------------------------------------------------------------------
(* The server's loop *)

\* reply_and_receive_next_legacy: a blocking message that is still in msg_opt is answered,
\* and the oldest queued one is received.  Entries of messages that nobody waits for are
\* freed by their delivery.  An answer to a client that is gone is an error, which the loop
\* unwraps.
reply_and_receive_next ==
    LET replied == IF msg_opt # Nothing /\ msg_opt.blocking THEN {msg_opt.slot} ELSE {}
        value == IF msg_opt = Nothing THEN 0 ELSE msg_opt.arg
    IN  /\ ~handling /\ ~Panicked
        /\ inbox # <<>> \/ msg_opt # Nothing
        /\ calls' = Resumed(replied)
        /\ answered' = Answers(replied, value)
        /\ IF inbox = <<>>
           THEN /\ msg_opt' = Nothing
                /\ entries' = Released(replied)
                /\ UNCHANGED <<inbox, handling>>
           ELSE /\ msg_opt' = Head(inbox)
                /\ inbox' = Tail(inbox)
                /\ entries' = IF Head(inbox).blocking
                              THEN Released(replied)
                              ELSE [Released(replied) EXCEPT ![Head(inbox).slot] = Free]
                /\ handling' = TRUE
        /\ panicked' = IF \A s \in replied : entries[s] \in Woken(replied) THEN panicked ELSE "reply"
        /\ UNCHANGED <<now, left, timerVars, condVars, LAST_RESPONDER, suspend>>

\* The body of the loop for one opcode.
Handling(op) ==
    /\ handling /\ ~Panicked /\ suspend = NotSuspended
    /\ msg_opt.op = op

\* The handler ends; a message that stays in msg_opt is answered by the next receive.
Done(keep) ==
    /\ handling' = FALSE
    /\ msg_opt' = IF keep THEN msg_opt ELSE Nothing

ElapsedMs ==
    /\ Handling("ElapsedMs")
    /\ Done(TRUE)
    /\ answered' = {}
    /\ UNCHANGED <<now, kernelVars, timerVars, condVars, LAST_RESPONDER, suspend, panicked>>

\* A message of a terminated client comes as a Scalar: scalar_message_mut is None and
\* nothing is done.
IgnoreTerminated ==
    /\ Handling("SleepMs") \/ Handling("WaitForCondition")
    /\ ~msg_opt.blocking
    /\ Done(TRUE)
    /\ answered' = {}
    /\ UNCHANGED <<now, kernelVars, timerVars, condVars, LAST_RESPONDER, suspend, panicked>>

SleepMs ==
    LET request == [msec |-> msg_opt.arg, sender |-> Sender(msg_opt), kind |-> "Sleep",
                    data |-> None]
    IN  /\ Handling("SleepMs")
        /\ msg_opt.blocking
        /\ Done(FALSE)
        /\ StartSleep(Inserted(StoppedHeap, request))
        /\ Asserts(StopSleepAsserts)
        /\ answered' = {}
        /\ UNCHANGED <<now, kernelVars, condVars, LAST_RESPONDER, suspend>>

\* Variant: a time-out stays in the notification table.
Forgotten_Kept(awaiting, sender) == awaiting

\* Vec::retain: what is left once the sender is taken out.
Forgotten(awaiting, sender) ==
    LET kept[n \in 0 .. Len(awaiting)] ==
            IF n = 0 THEN <<>>
            ELSE IF awaiting[n] = sender THEN kept[n - 1]
            ELSE Append(kept[n - 1], awaiting[n])
    IN  kept[Len(awaiting)]

\* A time-out that has been answered by the interrupt is forgotten, unless a notification
\* has met it before.
RecalculateSleep ==
    LET sender == msg_opt.about
        place == <<sender[2], msg_opt.cond>>
        timedOut == sender \in notifications_with_timeouts
    IN  /\ Handling("RecalculateSleep")
        /\ Done(TRUE)
        /\ notifications_with_timeouts' = notifications_with_timeouts \ {sender}
        /\ notify_table' = IF timedOut
                           THEN [notify_table EXCEPT ![place] = Forgotten(@, sender)]
                           ELSE notify_table
        /\ StartSleep(IF timedOut THEN Without(StoppedHeap, {sender}) ELSE StoppedHeap)
        /\ Asserts(/\ StopSleepAsserts
                   /\ timedOut => /\ Without(StoppedHeap, {sender}) = StoppedHeap
                                  /\ Contains(notify_table[place], sender))
        /\ answered' = {}
        /\ UNCHANGED <<now, kernelVars, LAST_RESPONDER, suspend>>

WaitForCondition ==
    LET sender == Sender(msg_opt)
        place == <<msg_opt.pid, msg_opt.cond>>
        request == [msec |-> msg_opt.arg, sender |-> sender, kind |-> "Timeout",
                    data |-> msg_opt.cond]
    IN  /\ Handling("WaitForCondition")
        /\ msg_opt.blocking
        /\ Done(FALSE)
        /\ IF msg_opt.arg # 0
           THEN /\ notifications_with_timeouts' = notifications_with_timeouts \cup {sender}
                /\ StartSleep(Inserted(StoppedHeap, request))
                /\ Asserts(StopSleepAsserts)
           ELSE UNCHANGED <<notifications_with_timeouts, timerVars, panicked>>
        /\ notify_table' = [notify_table EXCEPT ![place] = Append(@, sender)]
        /\ answered' = {}
        /\ UNCHANGED <<now, kernelVars, LAST_RESPONDER, suspend>>

\* Variant: nobody has been answered by the interrupt.
AlreadyFired_None(S) == {}

\* Of the senders S, those that the interrupt has answered already.
AlreadyFired(S) ==
    {e \in S \cap notifications_with_timeouts : \A r \in StoppedHeap : r.sender # e}

\* "assert!((len_before == len_after) || (len_before == len_after + 1))"
AtMostOneRequest(S) ==
    \A e \in S : Cardinality({r \in StoppedHeap : r.sender = e}) <= 1

SlotsOf(S) == {e[1] : e \in S}

NotifyCondition ==
    LET place == <<msg_opt.pid, msg_opt.cond>>
        awaiting == notify_table[place]
        count == IF msg_opt.arg = 0 \/ msg_opt.arg > Len(awaiting) THEN Len(awaiting)
                 ELSE msg_opt.arg
        drained == ToSet(SubSeq(awaiting, 1, count))
        timed == drained \cap notifications_with_timeouts
        notified == SlotsOf(drained \ AlreadyFired(drained))
    IN  /\ Handling("NotifyCondition")
        /\ handling' = FALSE
        /\ msg_opt' = [msg_opt EXCEPT !.arg = Cardinality(Woken(notified))]
        /\ notify_table' = [notify_table EXCEPT ![place] = SubSeq(@, count + 1, Len(@))]
        /\ notifications_with_timeouts' = notifications_with_timeouts \ drained
        /\ StartSleep(Without(StoppedHeap, timed))
        /\ entries' = Released(notified)
        /\ calls' = Resumed(notified)
        /\ answered' = Answers(notified, 0)
        /\ Asserts(/\ StopSleepAsserts
                   /\ AtMostOneRequest(timed)
                   /\ \A s \in notified : Waiting(s)     \* "tried to wake up a thread twice"
                   /\ Cardinality(drained) = count)
        /\ UNCHANGED <<now, inbox, left, LAST_RESPONDER, suspend>>

FreeCondition ==
    LET place == <<msg_opt.pid, msg_opt.cond>>
        awaiting == ToSet(notify_table[place])
        timed == awaiting \cap notifications_with_timeouts
        fired == AlreadyFired(awaiting)
        woken == SlotsOf(awaiting \ fired)
    IN  /\ Handling("FreeCondition")
        /\ Done(TRUE)
        /\ notify_table' = [notify_table EXCEPT ![place] = <<>>]
        /\ notifications_with_timeouts' = notifications_with_timeouts \ awaiting
        /\ StartSleep(Without(StoppedHeap, timed))
        /\ entries' = Released(woken)
        /\ calls' = Resumed(woken)
        /\ answered' = Answers(woken, 0)
        /\ Asserts(/\ StopSleepAsserts
                   /\ AtMostOneRequest(timed)
                   /\ \A e \in timed : (LAST_RESPONDER = e) <=> (e \in fired))
        /\ UNCHANGED <<now, inbox, left, LAST_RESPONDER, suspend>>

-----------------------------------------------------------------------------
(* Suspend and resume: not one step, as the alarm stays enabled at first *)

\* The callback of the susres server: a scalar to the ticktimer.
SuspendEvent ==
    /\ now <= MaxTime
    /\ \A i \in DOMAIN inbox : inbox[i].op # "SuspendResume"
    /\ handling => msg_opt.op # "SuspendResume"
    /\ \E s \in FreeSlots(entries) :
         /\ inbox' = Append(inbox, [op |-> "SuspendResume", slot |-> s, pid |-> None,
                                    blocking |-> FALSE, cond |-> None, arg |-> 0, about |-> None])
         /\ entries' = [entries EXCEPT ![s] = Unblocked]
    /\ answered' = {}
    /\ UNCHANGED <<now, calls, left, msg_opt, handling, timerVars, condVars, LAST_RESPONDER,
                   suspend, panicked>>

\* ticktimer_sr_manager.suspend() reads EV_ENABLE
SuspendSave ==
    /\ Handling("SuspendResume")
    /\ suspend' = [phase |-> "saved", enabled |-> alarm.enabled]
    /\ answered' = {}
    /\ UNCHANGED <<now, kernelVars, msg_opt, handling, timerVars, condVars, LAST_RESPONDER, panicked>>

\* "by writing this after suspend(), resume will get the prior value"
SuspendDisable ==
    /\ suspend.phase = "saved" /\ ~Panicked
    /\ suspend' = [suspend EXCEPT !.phase = "off"]
    /\ alarm' = [alarm EXCEPT !.enabled = FALSE]
    /\ answered' = {}
    /\ UNCHANGED <<now, kernelVars, msg_opt, handling, current_response, sleep_heap, condVars,
                   LAST_RESPONDER, panicked>>

\* suspend_until_resume has returned: resume() restores the registers.
SuspendResume ==
    /\ suspend.phase = "off" /\ ~Panicked
    /\ suspend' = NotSuspended
    /\ alarm' = [alarm EXCEPT !.enabled = suspend.enabled]
    /\ Done(TRUE)
    /\ answered' = {}
    /\ UNCHANGED <<now, kernelVars, current_response, sleep_heap, condVars, LAST_RESPONDER, panicked>>

-----------------------------------------------------------------------------
ClientCall(t) ==
    \/ elapsed_ms(t)
    \/ \E ms \in Delays : sleep_ms(t, ms)
    \/ \E c \in Conds, ms \in Delays \cup {0} : wait_condition(t, c, ms)
    \/ \E c \in Conds, n \in {0, 1} : notify_condition(t, c, n)
    \/ \E c \in Conds : free_condition(t, c)

ServerStep ==
    \/ reply_and_receive_next
    \/ ElapsedMs
    \/ IgnoreTerminated
    \/ SleepMs
    \/ RecalculateSleep
    \/ WaitForCondition
    \/ NotifyCondition
    \/ FreeCondition

Next ==
    \/ \E t \in Threads : ClientCall(t)
    \/ \E p \in Processes : Terminate(p)
    \/ ServerStep
    \/ handle_irq
    \/ Tick

Spec == Init /\ [][Next]_vars

\* The server's loop runs, the clock runs, and an interrupt that is due is taken.
Fairness == WF_vars(ServerStep) /\ WF_vars(handle_irq) /\ WF_vars(Tick)

FairSpec == Spec /\ Fairness

\* The same with suspends.
SuspendNext == Next \/ SuspendEvent \/ SuspendSave \/ SuspendDisable \/ SuspendResume

SuspendSpec == Init /\ [][SuspendNext]_vars

-----------------------------------------------------------------------------
(* Properties *)

\* No assertion of the handlers fails: a request never overwrites another, a sender has at
\* most one request, RecalculateSleep finds the time-out where it should be, and nobody is
\* answered twice.
NoAssertFails == panicked # "assert"

\* handle_irq: "this interrupt is only enabled when this value is not None"
AlarmHasResponse == alarm.enabled => current_response # Nothing

\* While requests are left, the alarm is set for the earliest of them, or the message
\* that will set it again is under way: no sleeper is left without a clock.
TimerArmed ==
    /\ TypeOK
    /\ sleep_heap # {} /\ current_response = Nothing =>
         \/ \E i \in DOMAIN inbox : inbox[i].op = "RecalculateSleep"
         \/ handling /\ msg_opt.op = "RecalculateSleep"
    /\ current_response # Nothing =>
         /\ alarm = [enabled |-> TRUE, target |-> current_response.msec]
         /\ \A r \in sleep_heap : current_response.msec < r.msec

\* A thread whose call has been accepted is on record exactly where its answer will come
\* from, though entries are used again and messages about them are still queued.
WaitersOnRecord ==
    \A s \in Slots : Waiting(s) /\ calls[entries[s]] # Gone /\ (handling => msg_opt.slot # s) =>
        LET t == entries[s]
            sender == <<s, ProcessOf[t]>>
            requests == {r \in StoppedHeap : r.sender = sender}
        IN  /\ calls[t].op = "SleepMs" =>
                 \E r \in requests : requests = {r} /\ r.kind = "Sleep" /\ r.msec >= calls[t].due
            /\ calls[t].op = "WaitForCondition" =>
                 /\ Contains(notify_table[<<ProcessOf[t], calls[t].cond>>], sender)
                 /\ IF calls[t].timed
                    THEN \E r \in requests : requests = {r} /\ r.kind = "Timeout"
                                             /\ r.msec >= calls[t].due
                    ELSE requests = {}

\* Nobody is woken early or by somebody else's event: a sleep has lasted its time, a wait
\* that reports a time-out too, and a wait that reports success was notified (or freed) by
\* a message of its own process for its own condition.
OnlyJustifiedAnswers ==
    [][\A a \in answered' :
         LET call == calls[a.thread]
         IN  CASE call.op = "SleepMs" -> now >= call.due
               [] call.op = "WaitForCondition" /\ a.value = 1 -> call.timed /\ now >= call.due
               [] call.op = "WaitForCondition" /\ a.value # 1 ->
                    /\ handling /\ msg_opt.op \in {"NotifyCondition", "FreeCondition"}
                    /\ msg_opt.pid = ProcessOf[a.thread] /\ msg_opt.cond = call.cond
               [] OTHER -> msg_opt # Nothing /\ msg_opt.op = call.op
                           /\ entries[msg_opt.slot] = a.thread]_vars

\* Sleeps and waits with a time-out end, unless the server has panicked (NoAssertFails
\* leaves only the answer to a client that terminated in mid-request).
SleepersWake ==
    \A t \in Threads :
        (calls[t].op = "SleepMs" \/ (calls[t].op = "WaitForCondition" /\ calls[t].timed))
            ~> calls[t] \in {Idle, Gone} \/ Panicked
=============================================================================
