------------------------------- MODULE Susres -------------------------------
(***************************************************************************)
(* services/xous-susres: the suspend sequencer, its timeout thread, and the    *)
(* calls of api/xous-api-susres that talk to it.  A suspend is a round: the    *)
(* subscribers are asked order by order (Early, Normal, Late, Later, Last),    *)
(* each says it is ready and waits at the gate, and when the last order is     *)
(* ready the power goes off.  A round that takes too long is given up.         *)
(*                                                                         *)
(* The server handles one message at a time and is alone in writing its        *)
(* state, so a handler is one step; what interleaves is what the subscribers,  *)
(* the requesters and the timeout thread put into the queue in between.        *)
(* A subscriber is its own token: it subscribes once, and tokens number the    *)
(* subscriptions.                                                            *)
(*                                                                         *)
(* A service may go away: it drops its Susres, which destroys its callback      *)
(* server, or its process terminates.  Nothing takes it off the list, and the   *)
(* sequencer, which unwraps the result of every send and answer, panics when     *)
(* it next addresses the service.                                            *)
(***************************************************************************)
EXTENDS Integers, Sequences, FiniteSets, FiniteSetsExt

CONSTANTS
    Subscribers,    \* services with a suspend callback
    OrderOf,        \* SuspendOrder each of them asks for
    Hooked,         \* those that have subscribed when the system is up
    Mortal,         \* those that may go away
    Requesters,     \* threads that call initiate_suspend
    QueueLen,       \* messages the server's queue holds
    MaxRequests,    \* bound: calls of initiate_suspend
    MaxScalars,     \* bound: calls of set_suspendable
    Nobody          \* not a requester

Early == 1
Last == 5
Orders == Early .. Last

\* api.rs: "there must be at least one subscriber to the `Last` suspend order
\* event, otherwise the logic will never terminate".
ASSUME SusresAssumption ==
    /\ OrderOf \in [Subscribers -> Orders]
    /\ Hooked \subseteq Subscribers /\ Mortal \subseteq Subscribers
    /\ \E s \in Hooked : OrderOf[s] = Last
    /\ IsFiniteSet(Subscribers)
    /\ Nobody \notin Requesters
    /\ QueueLen \in Nat \ {0}
    /\ MaxRequests \in Nat /\ MaxScalars \in Nat

VARIABLES
    inbox,                  \* messages queued for the server, oldest first
    suspend_requested,      \* the requester of the round, or Nobody
    timeout_pending,
    allow_suspend,
    reboot_requested,
    suspend_subscribers,    \* the services that have subscribed
    ready_to_suspend,       \* those whose flag is set
    failed_to_suspend,      \* those whose flag is set
    current_op_order,
    gated_pids,             \* services held at the gate
    wfi_ignored,            \* the WFI override of the hardware is on
    timers,                 \* Run messages the timeout thread has not finished
    events,                 \* suspend events waiting in each service's queue
    stage,                  \* where each service is
    asking,                 \* requesters blocked in initiate_suspend
    rebooting,              \* how far the one call of reboot has come
    gone,                   \* services without a callback server or a process
    halted,                 \* whether the main loop has stopped, and how
    members,                \* history: who had subscribed when the round began
    swallowed,              \* history: a message fell to a reboot request
    rebooted,               \* the processor has been reset
    requests, scalars       \* bounds

server == <<suspend_requested, timeout_pending, allow_suspend, reboot_requested,
            suspend_subscribers, ready_to_suspend, failed_to_suspend,
            current_op_order, gated_pids, wfi_ignored>>
callers == <<asking, rebooting>>
fate == <<gone, halted>>
history == <<members, swallowed, rebooted>>
bounds == <<requests, scalars>>
vars == <<inbox, server, timers, events, stage, callers, fate, history, bounds>>

\* up: not subscribed.  hooking: SuspendEventSubscribe sent.  running: at work.
\* readied: state saved, SuspendReady sent.  gated: SuspendingNow sent.
\* resumed: let go.  querying: WasSuspendClean sent.
Stages == {"up", "hooking", "running", "readied", "gated", "resumed", "querying"}

\* panicked: a thread that panics ends its process.  connecting: Connect is tried again
\* and again, since there is no such server.
Halts == {"no", "panicked", "connecting"}

ServiceOps == {"SuspendEventSubscribe", "SuspendReady", "SuspendingNow", "WasSuspendClean"}
PlainOps == {"SuspendTimeout", "SuspendAllow", "SuspendDeny", "RebootRequest", "RebootConfirm"}

Message ==
    [op : ServiceOps, from : Subscribers]
        \cup [op : {"SuspendRequest"}, from : Requesters]
        \cup [op : PlainOps, from : {Nobody}]

TypeOK ==
    /\ inbox \in Seq(Message)
    /\ suspend_requested \in Requesters \cup {Nobody}
    /\ timeout_pending \in BOOLEAN
    /\ allow_suspend \in BOOLEAN
    /\ reboot_requested \in BOOLEAN
    /\ suspend_subscribers \in SUBSET Subscribers
    /\ ready_to_suspend \in SUBSET suspend_subscribers
    /\ failed_to_suspend \in SUBSET suspend_subscribers
    /\ current_op_order \in Orders
    /\ gated_pids \in SUBSET suspend_subscribers
    /\ wfi_ignored \in BOOLEAN
    /\ timers \in Nat
    /\ events \in [Subscribers -> Nat]
    /\ stage \in [Subscribers -> Stages]
    /\ asking \in SUBSET Requesters
    /\ rebooting \in {"not", "asked", "confirmed"}
    /\ gone \in SUBSET Mortal
    /\ halted \in Halts
    /\ members \in SUBSET suspend_subscribers
    /\ swallowed \in BOOLEAN
    /\ rebooted \in BOOLEAN
    /\ requests \in 0 .. MaxRequests
    /\ scalars \in 0 .. MaxScalars

Init ==
    /\ inbox = <<>>
    /\ suspend_requested = Nobody
    /\ timeout_pending = FALSE
    /\ allow_suspend = TRUE
    /\ reboot_requested = FALSE
    /\ suspend_subscribers = Hooked
    /\ ready_to_suspend = {}
    /\ failed_to_suspend = {}
    /\ current_op_order = Early
    /\ gated_pids = {}
    /\ wfi_ignored = FALSE
    /\ timers = 0
    /\ events = [s \in Subscribers |-> 0]
    /\ stage = [s \in Subscribers |-> IF s \in Hooked THEN "running" ELSE "up"]
    /\ asking = {}
    /\ rebooting = "not"
    /\ gone = {}
    /\ halted = "no"
    /\ members = {}
    /\ swallowed = FALSE
    /\ rebooted = FALSE
    /\ requests = 0
    /\ scalars = 0

-----------------------------------------------------------------------------
(* The clients: api/xous-api-susres.                                         *)

\* With the queue full the kernel has the sender try again.  Once the server is gone a
\* send is an error.
Send(op, from) ==
    /\ ~ rebooted
    /\ halted # "panicked"
    /\ Len(inbox) < QueueLen
    /\ inbox' = Append(inbox, [op |-> op, from |-> from])

\* Susres::new: lends the hook to the server and waits for the buffer.
Subscribe(s) ==
    /\ s \notin gone
    /\ stage[s] = "up"
    /\ stage' = [stage EXCEPT ![s] = "hooking"]
    /\ Send("SuspendEventSubscribe", s)
    /\ UNCHANGED <<server, timers, events, callers, fate, history, bounds>>

\* The service takes the event from its queue (suspend_cb_server has passed it
\* on), saves its state and tells the sequencer so.
TakeEvent(s) ==
    /\ s \notin gone
    /\ stage[s] = "running"
    /\ events[s] > 0
    /\ events' = [events EXCEPT ![s] = @ - 1]
    /\ stage' = [stage EXCEPT ![s] = "readied"]
    /\ Send("SuspendReady", s)
    /\ UNCHANGED <<server, timers, callers, fate, history, bounds>>

Gate(s) ==
    /\ s \notin gone
    /\ stage[s] = "readied"
    /\ stage' = [stage EXCEPT ![s] = "gated"]
    /\ Send("SuspendingNow", s)
    /\ UNCHANGED <<server, timers, events, callers, fate, history, bounds>>

Query(s) ==
    /\ s \notin gone
    /\ stage[s] = "resumed"
    /\ stage' = [stage EXCEPT ![s] = "querying"]
    /\ Send("WasSuspendClean", s)
    /\ UNCHANGED <<server, timers, events, callers, fate, history, bounds>>

\* The Susres of the service is dropped, or its process terminates.  What it has sent
\* stays queued.  Before it subscribes the sequencer does not know it.
Leave(s) ==
    /\ s \in Mortal \ gone
    /\ stage[s] # "up"
    /\ gone' = gone \cup {s}
    /\ UNCHANGED <<inbox, server, timers, events, stage, callers, halted, history, bounds>>

initiate_suspend(r) ==
    /\ r \notin asking
    /\ requests < MaxRequests
    /\ requests' = requests + 1
    /\ asking' = asking \cup {r}
    /\ Send("SuspendRequest", r)
    /\ UNCHANGED <<server, timers, events, stage, rebooting, fate, history, scalars>>

set_suspendable(allow) ==
    /\ scalars < MaxScalars
    /\ scalars' = scalars + 1
    /\ Send(IF allow THEN "SuspendAllow" ELSE "SuspendDeny", Nobody)
    /\ UNCHANGED <<server, timers, events, stage, callers, fate, history, requests>>

\* reboot sends two messages; others may come in between.
SendRebootRequest ==
    /\ rebooting = "not"
    /\ rebooting' = "asked"
    /\ Send("RebootRequest", Nobody)
    /\ UNCHANGED <<server, timers, events, stage, asking, fate, history, bounds>>

\* RebootSocConfirm or RebootCpuConfirm.
SendRebootConfirm ==
    /\ rebooting = "asked"
    /\ rebooting' = "confirmed"
    /\ Send("RebootConfirm", Nobody)
    /\ UNCHANGED <<server, timers, events, stage, asking, fate, history, bounds>>

-----------------------------------------------------------------------------
(* The timeout thread runs one timer at a time; a Run that arrives meanwhile   *)
(* waits in its queue.                                                       *)

TimerExpires ==
    /\ timers > 0
    /\ timers' = timers - 1
    /\ Send("SuspendTimeout", Nobody)
    /\ UNCHANGED <<server, events, stage, callers, fate, history, bounds>>

-----------------------------------------------------------------------------
(* The main loop.                                                            *)

Take ==
    /\ ~ rebooted
    /\ halted = "no"
    /\ inbox # <<>>
    /\ inbox' = Tail(inbox)

\* The server takes the oldest message, and no reboot request is outstanding.
Receive(op) ==
    /\ ~ reboot_requested
    /\ Take
    /\ Head(inbox).op = op

From == Head(inbox).from

\* The first order from o on that has a subscriber: the loop around send_event.
FirstAsked(o) == Min({OrderOf[s] : s \in {x \in suspend_subscribers : OrderOf[x] >= o}})

Asked(o) == {s \in suspend_subscribers : OrderOf[s] = o}

\* send_event: every subscriber of the order gets one.  The first one that is gone is
\* fatal; which of the others have theirs by then depends on the order of the list.
SendEvents(o) ==
    \E sent \in SUBSET (Asked(o) \ gone) :
        /\ Asked(o) \cap gone = {} => sent = Asked(o)
        /\ events' = [s \in Subscribers |-> IF s \in sent THEN events[s] + 1 ELSE events[s]]
        /\ halted' = IF Asked(o) \cap gone = {} THEN halted ELSE "panicked"
        /\ UNCHANGED gone

\* The gate is opened: everyone at it is let go, up to the first one that is gone.
OpenGate ==
    \E freed \in SUBSET (gated_pids \ gone) :
        /\ gated_pids \cap gone = {} => freed = gated_pids
        /\ stage' = [s \in Subscribers |-> IF s \in freed THEN "resumed" ELSE stage[s]]

\* Variant: the gate stays shut.
EndRound_Shut(readiedHere) ==
    /\ timeout_pending' = FALSE
    /\ suspend_requested' = Nobody
    /\ ready_to_suspend' = readiedHere
    /\ wfi_ignored' = FALSE
    /\ asking' = asking \ {suspend_requested}
    /\ UNCHANGED <<gated_pids, stage, gone, halted>>

\* The round is over: the requester is taken, the gate opened, the WFI override removed and
\* the requester answered.  A service gone from the gate is fatal before the last two.
EndRound(readiedHere) ==
    /\ timeout_pending' = FALSE
    /\ suspend_requested' = Nobody
    /\ ready_to_suspend' = readiedHere
    /\ gated_pids' = {}
    /\ OpenGate
    /\ IF gated_pids \cap gone = {}
       THEN /\ wfi_ignored' = FALSE
            /\ asking' = asking \ {suspend_requested}
            /\ UNCHANGED halted
       ELSE /\ halted' = "panicked"
            /\ UNCHANGED <<wfi_ignored, asking>>
    /\ UNCHANGED gone

do_hook ==
    /\ Receive("SuspendEventSubscribe")
    /\ From \notin gone
    /\ suspend_subscribers' = suspend_subscribers \cup {From}
    /\ stage' = [stage EXCEPT ![From] = "running"]
    /\ UNCHANGED <<suspend_requested, timeout_pending, allow_suspend, reboot_requested,
                   ready_to_suspend, failed_to_suspend, current_op_order, gated_pids,
                   wfi_ignored, timers, events, callers, fate, history, bounds>>

\* The process that made the call has terminated, and there is no callback server to
\* connect to.
do_hook_Gone ==
    /\ Receive("SuspendEventSubscribe")
    /\ From \in gone
    /\ halted' = "connecting"
    /\ UNCHANGED <<server, timers, events, stage, callers, gone, history, bounds>>

\* Variant: lets the service go although a round is on.
SuspendingNowLate_Always ==
    /\ Receive("SuspendingNow")
    /\ stage' = [stage EXCEPT ![From] = "resumed"]
    /\ UNCHANGED <<server, timers, events, callers, fate, history, bounds>>

\* Too late: no round is on, and the service is let go at once.
SuspendingNowLate ==
    /\ Receive("SuspendingNow")
    /\ suspend_requested = Nobody
    /\ From \notin gone
    /\ stage' = [stage EXCEPT ![From] = "resumed"]
    /\ UNCHANGED <<server, timers, events, callers, fate, history, bounds>>

\* The same for one whose process has terminated: there is nobody to answer.
SuspendingNowGone ==
    /\ Receive("SuspendingNow")
    /\ suspend_requested = Nobody
    /\ From \in gone
    /\ halted' = "panicked"
    /\ UNCHANGED <<server, timers, events, stage, callers, gone, history, bounds>>

SuspendingNow ==
    /\ Receive("SuspendingNow")
    /\ suspend_requested # Nobody
    /\ gated_pids' = gated_pids \cup {From}
    /\ UNCHANGED <<suspend_requested, timeout_pending, allow_suspend, reboot_requested,
                   suspend_subscribers, ready_to_suspend, failed_to_suspend,
                   current_op_order, wfi_ignored, timers, events, stage, callers, fate,
                   history, bounds>>

\* No round is on, or the flag is already set.
SuspendReadyIgnored ==
    /\ Receive("SuspendReady")
    /\ suspend_requested = Nobody \/ From \in ready_to_suspend
    /\ UNCHANGED <<server, timers, events, stage, callers, fate, history, bounds>>

NowReady == ready_to_suspend \cup {From}

\* Variant: the first answer is taken for all.
AllReady_First == NowReady # {}

AllReady ==
    \A s \in suspend_subscribers : OrderOf[s] = current_op_order => s \in NowReady

SuspendReadyCounted ==
    /\ Receive("SuspendReady")
    /\ suspend_requested # Nobody
    /\ From \notin ready_to_suspend

\* Others of the current order are still to come.
SuspendReadyWaiting ==
    /\ SuspendReadyCounted
    /\ ~ AllReady
    /\ ready_to_suspend' = NowReady
    /\ UNCHANGED <<suspend_requested, timeout_pending, allow_suspend, reboot_requested,
                   suspend_subscribers, failed_to_suspend, current_op_order,
                   gated_pids, wfi_ignored, timers, events, stage, callers, fate, history,
                   bounds>>

\* The current order is complete: on to the next one that has subscribers.
SuspendReadyNextOrder ==
    /\ SuspendReadyCounted
    /\ AllReady
    /\ current_op_order # Last
    /\ ready_to_suspend' = NowReady
    /\ current_op_order' = FirstAsked(current_op_order + 1)
    /\ SendEvents(FirstAsked(current_op_order + 1))
    /\ UNCHANGED <<suspend_requested, timeout_pending, allow_suspend, reboot_requested,
                   suspend_subscribers, failed_to_suspend, gated_pids, wfi_ignored,
                   timers, stage, callers, history, bounds>>

\* Everyone is ready: do_suspend, and when it returns the system has resumed.
SuspendReadyPowerOff ==
    /\ SuspendReadyCounted
    /\ AllReady
    /\ current_op_order = Last
    /\ EndRound(NowReady)
    /\ UNCHANGED <<allow_suspend, reboot_requested, suspend_subscribers,
                   failed_to_suspend, current_op_order, timers, events, rebooting,
                   history, bounds>>

\* Variant: the timeout thread is not told to run.
SuspendRequestAccepted_Untimed ==
    /\ Receive("SuspendRequest")
    /\ allow_suspend
    /\ ~ timeout_pending
    /\ wfi_ignored' = TRUE
    /\ suspend_requested' = From
    /\ ready_to_suspend' = {}
    /\ failed_to_suspend' = {}
    /\ timeout_pending' = TRUE
    /\ current_op_order' = FirstAsked(Early)
    /\ SendEvents(FirstAsked(Early))
    /\ members' = suspend_subscribers
    /\ UNCHANGED <<allow_suspend, reboot_requested, suspend_subscribers, gated_pids, timers,
                   stage, callers, swallowed, rebooted, bounds>>

SuspendRequestAccepted ==
    /\ Receive("SuspendRequest")
    /\ allow_suspend
    /\ ~ timeout_pending
    /\ wfi_ignored' = TRUE
    /\ suspend_requested' = From
    /\ ready_to_suspend' = {}
    /\ failed_to_suspend' = {}
    /\ timeout_pending' = TRUE
    /\ timers' = timers + 1
    /\ current_op_order' = FirstAsked(Early)
    /\ SendEvents(FirstAsked(Early))
    /\ members' = suspend_subscribers
    /\ UNCHANGED <<allow_suspend, reboot_requested, suspend_subscribers, gated_pids,
                   stage, callers, swallowed, rebooted, bounds>>

SuspendRequestDenied ==
    /\ Receive("SuspendRequest")
    /\ ~ allow_suspend \/ timeout_pending
    /\ asking' = asking \ {From}
    /\ UNCHANGED <<server, timers, events, stage, rebooting, fate, history, bounds>>

\* The round is given up; the requester is told that it failed.
SuspendTimeout ==
    /\ Receive("SuspendTimeout")
    /\ timeout_pending
    /\ failed_to_suspend' = suspend_subscribers \ ready_to_suspend
    /\ EndRound(ready_to_suspend)
    /\ UNCHANGED <<allow_suspend, reboot_requested, suspend_subscribers,
                   current_op_order, timers, events, rebooting, history, bounds>>

\* The timer of a round that ended with a suspend.
SuspendTimeoutIgnored ==
    /\ Receive("SuspendTimeout")
    /\ ~ timeout_pending
    /\ UNCHANGED <<server, timers, events, stage, callers, fate, history, bounds>>

\* The process has terminated.  If it did so while the call was queued, the kernel delivers a
\* message that asks for no answer, which is only logged; later, the answer fails.
WasSuspendCleanGone ==
    /\ Receive("WasSuspendClean")
    /\ From \in gone
    /\ halted' \in {"no", "panicked"}
    /\ UNCHANGED <<server, timers, events, stage, callers, gone, history, bounds>>

WasSuspendClean ==
    /\ Receive("WasSuspendClean")
    /\ From \notin gone
    /\ stage' = [stage EXCEPT ![From] = "running"]
    /\ UNCHANGED <<server, timers, events, callers, fate, history, bounds>>

SetAllow(op, allow) ==
    /\ Receive(op)
    /\ allow_suspend' = allow
    /\ UNCHANGED <<suspend_requested, timeout_pending, reboot_requested,
                   suspend_subscribers, ready_to_suspend, failed_to_suspend,
                   current_op_order, gated_pids, wfi_ignored, timers, events, stage,
                   callers, fate, history, bounds>>

SuspendAllow == SetAllow("SuspendAllow", TRUE)

SuspendDeny == SetAllow("SuspendDeny", FALSE)

SetRebootRequested(requested) ==
    /\ reboot_requested' = requested
    /\ UNCHANGED <<suspend_requested, timeout_pending, allow_suspend,
                   suspend_subscribers, ready_to_suspend, failed_to_suspend,
                   current_op_order, gated_pids, wfi_ignored, timers, events, callers,
                   gone, members, rebooted, bounds>>

RebootRequest ==
    /\ Receive("RebootRequest")
    /\ SetRebootRequested(TRUE)
    /\ UNCHANGED <<stage, halted, swallowed>>

RebootConfirmIgnored ==
    /\ Receive("RebootConfirm")
    /\ UNCHANGED <<server, timers, events, stage, callers, fate, history, bounds>>

Reboot ==
    /\ reboot_requested
    /\ Take
    /\ Head(inbox).op = "RebootConfirm"
    /\ rebooted' = TRUE
    /\ UNCHANGED <<server, timers, events, stage, callers, fate, members, swallowed, bounds>>

\* Any other message takes the reboot request back and is itself dropped: a
\* blocking call is not answered, except that a lent buffer returns by itself, which
\* fails if the process that lent it has terminated.
Swallow ==
    LET hook == Head(inbox).op = "SuspendEventSubscribe"
    IN  /\ reboot_requested
        /\ Take
        /\ Head(inbox).op # "RebootConfirm"
        /\ SetRebootRequested(FALSE)
        /\ swallowed' = TRUE
        /\ stage' = IF hook /\ From \notin gone THEN [stage EXCEPT ![From] = "running"]
                                               ELSE stage
        /\ halted' = IF hook /\ From \in gone THEN "panicked" ELSE halted

-----------------------------------------------------------------------------

Handle ==
    \/ do_hook \/ do_hook_Gone
    \/ SuspendingNowLate \/ SuspendingNowGone \/ SuspendingNow
    \/ SuspendReadyIgnored \/ SuspendReadyWaiting
    \/ SuspendReadyNextOrder \/ SuspendReadyPowerOff
    \/ SuspendRequestAccepted \/ SuspendRequestDenied
    \/ SuspendTimeout \/ SuspendTimeoutIgnored
    \/ WasSuspendClean \/ WasSuspendCleanGone
    \/ SuspendAllow \/ SuspendDeny
    \/ RebootRequest \/ RebootConfirmIgnored \/ Reboot \/ Swallow

Next ==
    \/ Handle
    \/ TimerExpires
    \/ \E s \in Subscribers : Subscribe(s) \/ TakeEvent(s) \/ Gate(s) \/ Query(s) \/ Leave(s)
    \/ \E r \in Requesters : initiate_suspend(r)
    \/ \E allow \in BOOLEAN : set_suspendable(allow)
    \/ SendRebootRequest \/ SendRebootConfirm

Spec == Init /\ [][Next]_vars

\* The main loop and the timeout thread keep running: both are ready threads
\* whenever they have work, and the scheduler takes every ready thread in turn.
\* Nothing is assumed of the services: not answering is what the timeout is for.
Fairness == WF_vars(Handle) /\ WF_vars(TimerExpires)

FairSpec == Spec /\ Fairness

-----------------------------------------------------------------------------
(* Properties.                                                               *)

\* The service has saved its state and has not been let go since.
Frozen(s) == stage[s] \in {"readied", "gated"}

\* While a round is on, every service of an order already passed that was
\* subscribed when the round began stays frozen: what the `order` field is for.
\* A SuspendReady of an earlier, abandoned round may be counted in this one.
PassedOrdersFrozen ==
    /\ TypeOK
    /\ suspend_requested # Nobody =>
          \A s \in members : OrderOf[s] < current_op_order => Frozen(s)

PowersOff == suspend_requested # Nobody /\ suspend_requested' = Nobody
                 /\ inbox # <<>> /\ Head(inbox).op = "SuspendReady"

\* The power goes off only when every service that was subscribed when the
\* round began has saved its state and is not running.
PowerOffSafe ==
    [][PowersOff => \A s \in members : Frozen(s)]_vars

\* Between rounds nobody is held at the gate, no timeout is expected and the WFI
\* override is off, whichever way the last round ended, unless the sequencer panicked at the
\* end of it.  The two `expect`s on the requester rest on it.  And only a service that is
\* gone stops the sequencer.
QuietBetweenRounds ==
    /\ timeout_pending <=> suspend_requested # Nobody
    /\ suspend_requested = Nobody => gated_pids = {} /\ (wfi_ignored => halted = "panicked")
    /\ \A s \in gated_pids : stage[s] = "gated"
    /\ halted # "no" => gone # {}

\* What a caller may find instead of an answer: a message that arrives between RebootRequest
\* and its confirmation is lost, and the sequencer does not survive a service that is gone.
Excused == swallowed \/ rebooted \/ (halted # "no" /\ gone # {})

\* Every caller of initiate_suspend gets an answer, and every service that waits at the
\* gate is let go, even if other services never answer; unless one of them is gone and the
\* sequencer has stopped on it.
EveryoneReleased ==
    /\ \A r \in Requesters : r \in asking ~> (r \notin asking \/ Excused)
    /\ \A s \in Subscribers : stage[s] = "gated" ~> (stage[s] # "gated" \/ Excused)

\* main.rs: "if the 2-second timeout is still pending from a previous suspend,
\* deny the suspend request": a timer belongs to one round.
OneTimer ==
    timers + Cardinality({i \in DOMAIN inbox : inbox[i].op = "SuspendTimeout"}) <= 1

\* api.rs: SuspendDeny "locks out suspend capability": once it is handled the
\* power does not go off until SuspendAllow is.
DenyLocksOut == [][PowersOff => allow_suspend]_vars
=============================================================================
