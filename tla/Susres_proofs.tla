--------------------------- MODULE Susres_proofs ---------------------------
(***************************************************************************)
(* Proofs about the suspend sequencer, for every set of services, every        *)
(* assignment of orders with a hooked service of the last one, and every        *)
(* length of the queue.                                                      *)
(***************************************************************************)
EXTENDS Susres, FiniteSetTheorems, SequenceTheorems, TLAPS

-----------------------------------------------------------------------------
(* The inductive invariant *)

\* What a queued message of service s says about the service.
Fits(op, s) ==
    /\ op = "SuspendEventSubscribe" => stage[s] = "hooking"
    /\ op = "SuspendReady" => Frozen(s)
    /\ op = "SuspendingNow" => stage[s] = "gated"
    /\ op = "WasSuspendClean" => stage[s] = "querying"
    /\ s \notin gated_pids

OfService(i) == i \in DOMAIN inbox /\ inbox[i].op \in ServiceOps

MailOK == \A i \in DOMAIN inbox : OfService(i) => Fits(inbox[i].op, inbox[i].from)

\* Of one service at most two messages are queued: that it is ready, and that it waits.
OrderOK ==
    \A i, j \in DOMAIN inbox :
        OfService(i) /\ OfService(j) /\ i < j /\ inbox[i].from = inbox[j].from =>
            inbox[i].op = "SuspendReady" /\ inbox[j].op = "SuspendingNow"

\* Whoever has an event or has answered one has subscribed, and so have the services that
\* are hooked from the start.
SubscribedOK ==
    /\ Hooked \subseteq suspend_subscribers
    /\ \A s \in Subscribers : events[s] > 0 \/ Frozen(s) => s \in suspend_subscribers

\* While a round is on, the orders that are passed are ready, and whoever is ready is frozen.
RoundOK ==
    suspend_requested # Nobody =>
        /\ \A s \in members : OrderOf[s] < current_op_order => s \in ready_to_suspend
        /\ \A s \in ready_to_suspend : Frozen(s)

IInv == TypeOK /\ QuietBetweenRounds /\ MailOK /\ OrderOK /\ SubscribedOK /\ RoundOK

\* Services may go away, and one that is gone may stop the sequencer.
FateOK == gone \subseteq gone' /\ (halted' = halted \/ (halted = "no" /\ gone # {}))

-----------------------------------------------------------------------------
(* Messages *)

\* Who a message is from.
LEMMA Sender ==
    ASSUME NEW m \in Message
    PROVE  /\ m.op \in ServiceOps => m.from \in Subscribers
           /\ m.op = "SuspendRequest" => m.from \in Requesters
BY DEF Message, ServiceOps, PlainOps

\* What a send does to the queue, by index.
LEMMA Queued ==
    ASSUME TypeOK, NEW m \in Message, inbox' = Append(inbox, m)
    PROVE  /\ inbox' \in Seq(Message) /\ Len(inbox) \in Nat
           /\ DOMAIN inbox = 1 .. Len(inbox) /\ DOMAIN inbox' = 1 .. Len(inbox) + 1
           /\ \A i \in 1 .. Len(inbox) : inbox'[i] = inbox[i] /\ inbox[i] \in Message
           /\ inbox'[Len(inbox) + 1] = m
<1>1. inbox \in Seq(Message)
    BY DEF TypeOK
<1> QED BY <1>1, AppendProperties, LenProperties, ElementOfSeq

\* What taking the oldest message does to it.
LEMMA Dequeued ==
    ASSUME TypeOK, inbox # <<>>, inbox' = Tail(inbox)
    PROVE  /\ inbox' \in Seq(Message) /\ Len(inbox) \in Nat \ {0}
           /\ DOMAIN inbox = 1 .. Len(inbox) /\ DOMAIN inbox' = 1 .. Len(inbox) - 1
           /\ \A i \in 1 .. Len(inbox) - 1 : inbox'[i] = inbox[i + 1]
           /\ \A i \in 1 .. Len(inbox) : inbox[i] \in Message
           /\ Head(inbox) = inbox[1] /\ 1 \in DOMAIN inbox
<1>1. inbox \in Seq(Message)
    BY DEF TypeOK
<1>2. inbox' \in Seq(Message) /\ Len(inbox') = Len(inbox) - 1
        /\ \A i \in 1 .. Len(inbox') : inbox'[i] = inbox[i + 1]
    BY <1>1, HeadTailProperties
<1>3. DOMAIN inbox = 1 .. Len(inbox) /\ Len(inbox) \in Nat \ {0} /\ DOMAIN inbox' = 1 .. Len(inbox')
    BY <1>1, <1>2, LenProperties, EmptySeq
<1>4. Head(inbox) = inbox[1]
    BY <1>1
<1>5. \A i \in 1 .. Len(inbox) : inbox[i] \in Message
    BY <1>1, ElementOfSeq
<1> QED BY <1>2, <1>3, <1>4, <1>5

\* A message that is not a service's is queued, and the services are as they were.
LEMMA PlainSent ==
    ASSUME TypeOK, MailOK, OrderOK, NEW m \in Message, inbox' = Append(inbox, m),
           m.op \notin ServiceOps, UNCHANGED <<stage, gated_pids>>
    PROVE  MailOK' /\ OrderOK'
<1>1. \A i \in DOMAIN inbox' : OfService(i)' =>
          i \in DOMAIN inbox /\ OfService(i) /\ inbox'[i] = inbox[i]
    BY Queued DEF OfService
<1>2. MailOK'
    BY <1>1 DEF MailOK, Fits, Frozen
<1>3. OrderOK'
    BY <1>1 DEF OrderOK
<1> QED BY <1>2, <1>3

\* A service moves on and sends a message; of what it has sent before, at most SuspendReady
\* is still queued.
LEMMA ServiceSent ==
    ASSUME TypeOK, MailOK, OrderOK, NEW s \in Subscribers, NEW m \in Message,
           inbox' = Append(inbox, m), m.op \in ServiceOps, m.from = s, Fits(m.op, s)',
           gated_pids' = gated_pids, \A t \in Subscribers : t # s => stage'[t] = stage[t],
           \A i \in DOMAIN inbox : OfService(i) /\ inbox[i].from = s =>
               inbox[i].op = "SuspendReady" /\ m.op = "SuspendingNow"
    PROVE  MailOK' /\ OrderOK'
<1>1. \A i \in DOMAIN inbox' :
          \/ i = Len(inbox) + 1 /\ inbox'[i] = m
          \/ /\ i \in DOMAIN inbox /\ i < Len(inbox) + 1 /\ inbox'[i] = inbox[i]
             /\ OfService(i)' => OfService(i) /\ inbox[i].from \in Subscribers
    BY Queued, Sender DEF OfService
<1>2. MailOK'
  <2> SUFFICES ASSUME NEW i \in DOMAIN inbox', OfService(i)'
               PROVE  Fits(inbox[i].op, inbox[i].from)'
      BY DEF MailOK
  <2>1. CASE inbox'[i] = m
      BY <2>1
  <2>2. CASE i \in DOMAIN inbox /\ inbox'[i] = inbox[i] /\ OfService(i) /\ inbox[i].from \in Subscribers
    <3>1. CASE inbox[i].from # s
        BY <2>2, <3>1 DEF MailOK, Fits, Frozen
    <3>2. CASE inbox[i].from = s
        BY <2>2, <3>2 DEF Fits, Frozen
    <3> QED BY <3>1, <3>2
  <2> QED BY <1>1, <2>1, <2>2
<1>3. OrderOK'
  <2> SUFFICES ASSUME NEW i \in DOMAIN inbox', NEW j \in DOMAIN inbox', OfService(i)', OfService(j)',
                      i < j, inbox'[i].from = inbox'[j].from
               PROVE  inbox'[i].op = "SuspendReady" /\ inbox'[j].op = "SuspendingNow"
      BY DEF OrderOK
  <2>1. i \in DOMAIN inbox /\ inbox'[i] = inbox[i] /\ OfService(i)
      BY <1>1, Queued
  <2>2. CASE inbox'[j] = m
      BY <2>1, <2>2
  <2>3. CASE j \in DOMAIN inbox /\ inbox'[j] = inbox[j] /\ OfService(j)
      BY <2>1, <2>3 DEF OrderOK
  <2> QED BY <1>1, <2>2, <2>3
<1> QED BY <1>2, <1>3

\* The services from which a message is still queued when the oldest one is taken.
Behind(s) == \E i \in DOMAIN inbox : i # 1 /\ OfService(i) /\ inbox[i].from = s

\* The oldest message is taken, and the services from which others are queued stay as they are.
LEMMA Taken ==
    ASSUME TypeOK, MailOK, OrderOK, inbox # <<>>, inbox' = Tail(inbox),
           \A s \in Subscribers : Behind(s) => stage'[s] = stage[s] /\ s \notin gated_pids'
    PROVE  MailOK' /\ OrderOK'
<1>1. \A i \in DOMAIN inbox' :
          /\ i + 1 \in DOMAIN inbox /\ inbox'[i] = inbox[i + 1] /\ i + 1 # 1
          /\ OfService(i)' => OfService(i + 1) /\ inbox[i + 1].from \in Subscribers
    BY Dequeued, Sender DEF OfService
<1>2. ASSUME NEW i \in DOMAIN inbox', OfService(i)' PROVE Fits(inbox[i].op, inbox[i].from)'
  <2>1. PICK k, s : k = i + 1 /\ s = inbox[k].from
      OBVIOUS
  <2>2. k \in DOMAIN inbox /\ OfService(k) /\ s \in Subscribers /\ Behind(s) /\ inbox'[i] = inbox[k]
      BY <1>1, <1>2, <2>1 DEF Behind
  <2> QED BY <2>1, <2>2 DEF MailOK, Fits, Frozen
<1>3. OrderOK'
  <2> SUFFICES ASSUME NEW i \in DOMAIN inbox', NEW j \in DOMAIN inbox', OfService(i)', OfService(j)',
                      i < j, inbox'[i].from = inbox'[j].from
               PROVE  inbox'[i].op = "SuspendReady" /\ inbox'[j].op = "SuspendingNow"
      BY DEF OrderOK
  <2>1. i + 1 < j + 1
      BY Dequeued
  <2> QED BY <1>1, <2>1 DEF OrderOK
<1> QED BY <1>2, <1>3 DEF MailOK

\* Behind a message of a service, other than SuspendReady, there is none.
LEMMA LastOfService ==
    ASSUME TypeOK, OrderOK, inbox # <<>>, Head(inbox).op \in ServiceOps \ {"SuspendReady"}
    PROVE  /\ Head(inbox).from \in Subscribers /\ OfService(1) /\ Head(inbox) = inbox[1]
           /\ ~Behind(Head(inbox).from)
<1>1. inbox \in Seq(Message)
    BY DEF TypeOK
<1>2. /\ DOMAIN inbox = 1 .. Len(inbox) /\ Len(inbox) \in Nat \ {0}
      /\ Head(inbox) = inbox[1] /\ inbox[1] \in Message
    BY <1>1, LenProperties, EmptySeq, ElementOfSeq
<1>3. OfService(1) /\ inbox[1].from \in Subscribers
    BY <1>2, Sender DEF OfService
<1> QED BY <1>2, <1>3 DEF OrderOK, Behind

-----------------------------------------------------------------------------
(* Orders *)

\* The loop around send_event stops: there is a subscriber of the last order.  It stops at
\* the first order from o on that has one.
LEMMA FirstAskedIs ==
    ASSUME SubscribedOK, suspend_subscribers \subseteq Subscribers, NEW o \in Orders
    PROVE  /\ FirstAsked(o) \in Orders /\ FirstAsked(o) >= o
           /\ \A s \in suspend_subscribers : OrderOf[s] >= o => FirstAsked(o) <= OrderOf[s]
<1> DEFINE S == {OrderOf[s] : s \in {x \in suspend_subscribers : OrderOf[x] >= o}}
<1>1. \A n \in S : n \in {1, 2, 3, 4, 5} /\ n >= o
    BY SusresAssumption DEF Orders, Early, Last
<1>2. 5 \in S
    BY SusresAssumption DEF SubscribedOK, Orders, Early, Last
<1> HIDE DEF S
<1>3. \E x \in S : \A y \in S : x =< y
  <2>1. CASE 1 \in S
      BY <1>1, <2>1
  <2>2. CASE 1 \notin S /\ 2 \in S
      BY <1>1, <2>2
  <2>3. CASE 1 \notin S /\ 2 \notin S /\ 3 \in S
      BY <1>1, <2>3
  <2>4. CASE 1 \notin S /\ 2 \notin S /\ 3 \notin S /\ 4 \in S
      BY <1>1, <2>4
  <2>5. CASE 1 \notin S /\ 2 \notin S /\ 3 \notin S /\ 4 \notin S
      BY <1>1, <1>2, <2>5
  <2> QED BY <2>1, <2>2, <2>3, <2>4, <2>5
<1>4. Min(S) \in S /\ \A y \in S : Min(S) =< y
    BY <1>3, Zenon DEF Min
<1>5. FirstAsked(o) = Min(S)
    BY DEF FirstAsked, S
<1>6. \A s \in suspend_subscribers : OrderOf[s] >= o => OrderOf[s] \in S
    BY DEF S
<1> QED BY <1>1, <1>4, <1>5, <1>6 DEF Orders, Early, Last

\* The events that send_event sends go to subscribers.
LEMMA EventsSent ==
    ASSUME TypeOK, SubscribedOK, NEW o, SendEvents(o), UNCHANGED <<suspend_subscribers, stage>>,
           halted = "no"
    PROVE  /\ SubscribedOK' /\ events' \in [Subscribers -> Nat]
           /\ FateOK /\ gone' = gone /\ halted' \in Halts
<1>1. \A s \in Subscribers : events[s] \in Nat
    BY DEF TypeOK
<1>2. PICK sent \in SUBSET (Asked(o) \ gone) :
          events' = [s \in Subscribers |-> IF s \in sent THEN events[s] + 1 ELSE events[s]]
    BY DEF SendEvents
<1>3. events' \in [Subscribers -> Nat]
    BY <1>1, <1>2
<1>4. \A s \in Subscribers : events'[s] > 0 => events[s] > 0 \/ s \in suspend_subscribers
    BY <1>2 DEF Asked
<1>5. FateOK /\ gone' = gone /\ halted' \in Halts
    BY DEF SendEvents, FateOK, Halts
<1> QED BY <1>3, <1>4, <1>5 DEF SubscribedOK, Frozen

-----------------------------------------------------------------------------
LEMMA InitIInv == Init => IInv
<1> SUFFICES ASSUME Init PROVE IInv
    OBVIOUS
<1>1. TypeOK
  <2>1. inbox \in Seq(Message)
      BY EmptySeq DEF Init
  <2>2. /\ timeout_pending \in BOOLEAN /\ allow_suspend \in BOOLEAN /\ reboot_requested \in BOOLEAN
        /\ wfi_ignored \in BOOLEAN /\ swallowed \in BOOLEAN /\ rebooted \in BOOLEAN
      BY Zenon DEF Init
  <2>3. /\ events \in [Subscribers -> Nat] /\ stage \in [Subscribers -> Stages]
        /\ suspend_requested \in Requesters \cup {Nobody}
        /\ rebooting \in {"not", "asked", "confirmed"} /\ asking \in SUBSET Requesters
        /\ timers \in Nat /\ current_op_order \in Orders
      BY DEF Init, Stages, Orders, Early, Last
  <2>4. /\ suspend_subscribers \in SUBSET Subscribers /\ ready_to_suspend \in SUBSET suspend_subscribers
        /\ failed_to_suspend \in SUBSET suspend_subscribers /\ gated_pids \in SUBSET suspend_subscribers
        /\ members \in SUBSET suspend_subscribers
      BY SusresAssumption DEF Init
  <2>5. requests \in 0 .. MaxRequests /\ scalars \in 0 .. MaxScalars
      BY SusresAssumption DEF Init
  <2>6. gone \in SUBSET Mortal /\ halted \in Halts
      BY DEF Init, Halts
  <2> QED BY <2>1, <2>2, <2>3, <2>4, <2>5, <2>6 DEF TypeOK
<1>2. QuietBetweenRounds
    BY Zenon DEF Init, QuietBetweenRounds
<1>3. DOMAIN inbox = {}
    BY DEF Init
<1>4. MailOK /\ OrderOK
    BY <1>3 DEF MailOK, OrderOK
<1>5. SubscribedOK
    BY DEF Init, SubscribedOK, Frozen
<1>6. RoundOK
    BY DEF Init, RoundOK
<1> QED BY <1>1, <1>2, <1>4, <1>5, <1>6 DEF IInv

-----------------------------------------------------------------------------
(* The steps of the clients and of the timeout thread *)

\* The round goes on as it is; services move that are not at the gate, and none that is frozen
\* gets to run.
LEMMA RoundKept ==
    ASSUME IInv,
           UNCHANGED <<suspend_requested, timeout_pending, ready_to_suspend, current_op_order,
                       gated_pids, wfi_ignored, members>>, FateOK,
           \A s \in Subscribers : stage'[s] = stage[s] \/ (stage[s] # "gated" /\ (Frozen(s) => Frozen(s)'))
    PROVE  QuietBetweenRounds' /\ RoundOK'
<1>1. /\ ready_to_suspend \subseteq Subscribers /\ gated_pids \subseteq Subscribers
      /\ members \subseteq Subscribers
    BY DEF IInv, TypeOK
<1>2. \A s \in gated_pids : stage'[s] = "gated"
    BY <1>1 DEF IInv, QuietBetweenRounds
<1>3. QuietBetweenRounds'
  <2>1. halted' # "no" => gone' # {}
      BY DEF IInv, QuietBetweenRounds, FateOK
  <2>2. halted = "panicked" => halted' = "panicked"
      BY DEF FateOK
  <2> QED BY <1>2, <2>1, <2>2, Zenon DEF IInv, QuietBetweenRounds
<1>4. \A s \in ready_to_suspend : Frozen(s) => Frozen(s)'
    BY <1>1 DEF Frozen
<1>5. RoundOK'
    BY <1>4 DEF IInv, RoundOK
<1> QED BY <1>3, <1>5

\* A message of a service that says nothing of its own is queued.
LEMMA PlainStep ==
    ASSUME IInv, NEW op \in PlainOps \cup {"SuspendRequest"}, NEW from,
           IF op = "SuspendRequest" THEN from \in Requesters ELSE from = Nobody,
           Send(op, from), UNCHANGED <<server, events, stage, fate, history>>,
           timers' \in Nat, asking' \in SUBSET Requesters,
           rebooting' \in {"not", "asked", "confirmed"},
           requests' \in 0 .. MaxRequests, scalars' \in 0 .. MaxScalars
    PROVE  IInv'
<1> DEFINE m == [op |-> op, from |-> from]
<1>1. /\ inbox' = Append(inbox, m)
      /\ UNCHANGED <<suspend_requested, timeout_pending, allow_suspend, reboot_requested,
                     suspend_subscribers, ready_to_suspend, failed_to_suspend, current_op_order,
                     gated_pids, wfi_ignored, members, swallowed, rebooted, events, stage,
                     gone, halted>>
    BY DEF Send, server, fate, history
<1>2. m \in Message /\ m.op \notin ServiceOps
    BY DEF Message, PlainOps, ServiceOps
<1> HIDE DEF m
<1>3. TypeOK /\ inbox' \in Seq(Message)
    BY <1>1, <1>2, Queued DEF IInv
<1>4. TypeOK'
    BY <1>1, <1>3 DEF TypeOK
<1>5. MailOK' /\ OrderOK'
    BY <1>1, <1>2, <1>3, PlainSent DEF IInv
<1>6. QuietBetweenRounds' /\ RoundOK'
    BY <1>1, RoundKept DEF FateOK
<1>7. SubscribedOK'
    BY <1>1 DEF IInv, SubscribedOK, Frozen
<1> QED BY <1>4, <1>5, <1>6, <1>7 DEF IInv

LEMMA ClientPlainStep ==
    ASSUME IInv,
           \/ TimerExpires
           \/ \E r \in Requesters : initiate_suspend(r)
           \/ \E allow \in BOOLEAN : set_suspendable(allow)
           \/ SendRebootRequest \/ SendRebootConfirm
    PROVE  IInv'
<1>0. /\ timers \in Nat /\ asking \in SUBSET Requesters /\ rebooting \in {"not", "asked", "confirmed"}
      /\ requests \in 0 .. MaxRequests /\ scalars \in 0 .. MaxScalars
      /\ MaxRequests \in Nat /\ MaxScalars \in Nat
    BY SusresAssumption DEF IInv, TypeOK
<1>1. CASE TimerExpires
  <2>1. /\ Send("SuspendTimeout", Nobody) /\ timers' \in Nat
        /\ UNCHANGED <<server, events, stage, callers, fate, history, bounds>>
      BY <1>0, <1>1 DEF TimerExpires
  <2> QED BY <1>0, <2>1, PlainStep DEF callers, bounds, PlainOps
<1>2. ASSUME NEW r \in Requesters, initiate_suspend(r) PROVE IInv'
  <2>1. /\ Send("SuspendRequest", r) /\ requests' \in 0 .. MaxRequests /\ asking' \in SUBSET Requesters
        /\ UNCHANGED <<server, timers, events, stage, rebooting, fate, history, scalars>>
      BY <1>0, <1>2 DEF initiate_suspend
  <2> QED BY <1>0, <2>1, PlainStep DEF PlainOps
<1>3. ASSUME NEW allow \in BOOLEAN, set_suspendable(allow) PROVE IInv'
  <2>1. /\ scalars' \in 0 .. MaxScalars
        /\ UNCHANGED <<server, timers, events, stage, callers, fate, history, requests>>
      BY <1>0, <1>3 DEF set_suspendable
  <2>2. Send("SuspendAllow", Nobody) \/ Send("SuspendDeny", Nobody)
      BY <1>3, Zenon DEF set_suspendable
  <2> QED BY <1>0, <2>1, <2>2, PlainStep DEF callers, PlainOps
<1>4. CASE SendRebootRequest
  <2>1. /\ Send("RebootRequest", Nobody) /\ rebooting' = "asked"
        /\ UNCHANGED <<server, timers, events, stage, asking, fate, history, bounds>>
      BY <1>4 DEF SendRebootRequest
  <2> QED BY <1>0, <2>1, PlainStep DEF bounds, PlainOps
<1>5. CASE SendRebootConfirm
  <2>1. /\ Send("RebootConfirm", Nobody) /\ rebooting' = "confirmed"
        /\ UNCHANGED <<server, timers, events, stage, asking, fate, history, bounds>>
      BY <1>5 DEF SendRebootConfirm
  <2> QED BY <1>0, <2>1, PlainStep DEF bounds, PlainOps
<1> QED BY <1>1, <1>2, <1>3, <1>4, <1>5

\* A service moves from one stage to the next and sends the message that goes with it.
LEMMA ServiceStep ==
    ASSUME IInv, NEW s \in Subscribers, NEW op \in ServiceOps, NEW to \in Stages, Send(op, s),
           stage' = [stage EXCEPT ![s] = to],
           UNCHANGED <<server, timers, callers, fate, history, bounds>>,
           events' \in [Subscribers -> Nat],
           \A t \in Subscribers : events'[t] > 0 => events[t] > 0,
           \/ stage[s] = "up" /\ op = "SuspendEventSubscribe" /\ to = "hooking"
           \/ stage[s] = "running" /\ op = "SuspendReady" /\ to = "readied" /\ events[s] > 0
           \/ stage[s] = "readied" /\ op = "SuspendingNow" /\ to = "gated"
           \/ stage[s] = "resumed" /\ op = "WasSuspendClean" /\ to = "querying"
    PROVE  IInv'
<1> DEFINE m == [op |-> op, from |-> s]
<1>1. /\ inbox' = Append(inbox, m)
      /\ UNCHANGED <<suspend_requested, timeout_pending, allow_suspend, reboot_requested,
                     suspend_subscribers, ready_to_suspend, failed_to_suspend, current_op_order,
                     gated_pids, wfi_ignored, members, swallowed, rebooted, timers, asking,
                     rebooting, requests, scalars, gone, halted>>
    BY DEF Send, server, callers, fate, history, bounds
<1>2. m \in Message /\ m.op = op /\ m.from = s
    BY DEF Message
<1> HIDE DEF m
<1>3. TypeOK /\ inbox' \in Seq(Message)
    BY <1>1, <1>2, Queued DEF IInv
<1>4. /\ stage' \in [Subscribers -> Stages] /\ stage'[s] = to
      /\ \A t \in Subscribers : t # s => stage'[t] = stage[t]
    BY <1>3 DEF TypeOK
<1>5. TypeOK'
    BY <1>1, <1>3, <1>4 DEF TypeOK
<1>6. QuietBetweenRounds' /\ RoundOK'
    BY <1>1, <1>4, RoundKept DEF Frozen, FateOK
<1>7. s \notin gated_pids
    BY DEF IInv, QuietBetweenRounds
<1>8. \A i \in DOMAIN inbox : OfService(i) /\ inbox[i].from = s =>
          inbox[i].op = "SuspendReady" /\ op = "SuspendingNow"
    BY DEF IInv, MailOK, Fits, Frozen, OfService, ServiceOps
<1>9. Fits(op, s)'
    BY <1>1, <1>4, <1>7 DEF Fits, Frozen
<1>10. MailOK' /\ OrderOK'
    BY <1>1, <1>2, <1>3, <1>4, <1>8, <1>9, ServiceSent DEF IInv
<1>11. SubscribedOK'
    BY <1>1, <1>4 DEF IInv, SubscribedOK, Frozen
<1> QED BY <1>5, <1>6, <1>10, <1>11 DEF IInv

LEMMA SubscriberStep ==
    ASSUME IInv, NEW s \in Subscribers, Subscribe(s) \/ TakeEvent(s) \/ Gate(s) \/ Query(s) \/ Leave(s)
    PROVE  IInv'
<1>0. events \in [Subscribers -> Nat]
    BY DEF IInv, TypeOK
<1>1. CASE Subscribe(s)
    BY <1>0, <1>1, ServiceStep DEF Subscribe, Stages, ServiceOps
<1>2. CASE TakeEvent(s)
  <2>1. events' \in [Subscribers -> Nat] /\ \A t \in Subscribers : events'[t] > 0 => events[t] > 0
      BY <1>0, <1>2 DEF TakeEvent
  <2> QED BY <1>2, <2>1, ServiceStep DEF TakeEvent, Stages, ServiceOps
<1>3. CASE Gate(s)
    BY <1>0, <1>3, ServiceStep DEF Gate, Stages, ServiceOps
<1>4. CASE Query(s)
    BY <1>0, <1>4, ServiceStep DEF Query, Stages, ServiceOps
<1>5. CASE Leave(s)
  <2>1. /\ gone' = gone \cup {s} /\ s \in Mortal
        /\ UNCHANGED <<inbox, suspend_requested, timeout_pending, allow_suspend, reboot_requested,
                       suspend_subscribers, ready_to_suspend, failed_to_suspend, current_op_order,
                       gated_pids, wfi_ignored, members, swallowed, rebooted, timers, events, stage,
                       asking, rebooting, requests, scalars, halted>>
      BY <1>5 DEF Leave, server, callers, history, bounds
  <2>2. TypeOK'
      BY <2>1 DEF IInv, TypeOK
  <2>3. QuietBetweenRounds' /\ RoundOK'
      BY <2>1, RoundKept DEF FateOK
  <2>4. MailOK' /\ OrderOK' /\ SubscribedOK'
      BY <2>1 DEF IInv, MailOK, OrderOK, SubscribedOK, OfService, Fits, Frozen
  <2> QED BY <2>2, <2>3, <2>4 DEF IInv
<1> QED BY <1>1, <1>2, <1>3, <1>4, <1>5

-----------------------------------------------------------------------------
(* The steps of the server *)

\* A handler that leaves the round alone, and at most lets a service go on that waits for its
\* subscription or for the answer to its question.
LEMMA AsideStep ==
    ASSUME IInv, Take,
           UNCHANGED <<suspend_requested, timeout_pending, ready_to_suspend, failed_to_suspend,
                       current_op_order, gated_pids, wfi_ignored, timers, events, members, requests,
                       scalars, gone>>,
           halted' \in Halts, halted' = halted \/ gone # {},
           suspend_subscribers \subseteq suspend_subscribers', suspend_subscribers' \subseteq Subscribers,
           allow_suspend' \in BOOLEAN, reboot_requested' \in BOOLEAN, swallowed' \in BOOLEAN,
           rebooted' \in BOOLEAN, asking' \in SUBSET Requesters, rebooting' = rebooting,
           \/ stage' = stage
           \/ /\ Head(inbox).op \in {"SuspendEventSubscribe", "WasSuspendClean"}
              /\ stage' = [stage EXCEPT ![Head(inbox).from] = "running"]
    PROVE  IInv'
<1>1. TypeOK /\ inbox # <<>> /\ inbox' = Tail(inbox) /\ FateOK
    BY DEF IInv, Take, FateOK
<1>2. inbox' \in Seq(Message)
    BY <1>1, Dequeued
<1>3. /\ stage' \in [Subscribers -> Stages]
      /\ \A s \in Subscribers :
            \/ stage'[s] = stage[s]
            \/ /\ ~Frozen(s) /\ ~Frozen(s)' /\ ~Behind(s)
  <2>1. CASE stage' = stage
      BY <1>1, <2>1 DEF TypeOK
  <2>2. CASE /\ Head(inbox).op \in {"SuspendEventSubscribe", "WasSuspendClean"}
             /\ stage' = [stage EXCEPT ![Head(inbox).from] = "running"]
    <3>1. PICK f : f = Head(inbox).from
        OBVIOUS
    <3>2. f \in Subscribers /\ OfService(1) /\ Head(inbox) = inbox[1] /\ ~Behind(f)
        BY <1>1, <2>2, <3>1, LastOfService DEF IInv, ServiceOps
    <3>3. stage[f] \in {"hooking", "querying"}
        BY <1>1, <2>2, <3>1, <3>2, Dequeued DEF IInv, MailOK, Fits
    <3>4. /\ stage' \in [Subscribers -> Stages] /\ stage'[f] = "running"
          /\ \A s \in Subscribers : s # f => stage'[s] = stage[s]
        BY <1>1, <2>2, <3>1, <3>2 DEF TypeOK, Stages
    <3> QED BY <3>2, <3>3, <3>4 DEF Frozen
  <2> QED BY <2>1, <2>2
<1>4. TypeOK'
    BY <1>1, <1>2, <1>3 DEF TypeOK
<1>5. QuietBetweenRounds' /\ RoundOK'
    BY <1>1, <1>3, RoundKept DEF Frozen
<1>6. \A s \in Subscribers : Behind(s) => stage'[s] = stage[s] /\ s \notin gated_pids'
  <2>1. \A s \in Subscribers : Behind(s) => s \notin gated_pids
      BY DEF IInv, MailOK, Fits, Behind
  <2> QED BY <1>3, <2>1
<1>7. MailOK' /\ OrderOK'
    BY <1>1, <1>6, Taken DEF IInv
<1>8. SubscribedOK'
    BY <1>3 DEF IInv, SubscribedOK, Frozen
<1> QED BY <1>4, <1>5, <1>7, <1>8 DEF IInv

LEMMA AsideSteps ==
    ASSUME IInv,
           \/ do_hook \/ do_hook_Gone \/ SuspendingNowGone \/ WasSuspendCleanGone
           \/ SuspendReadyIgnored \/ SuspendRequestDenied \/ SuspendTimeoutIgnored
           \/ WasSuspendClean \/ SuspendAllow \/ SuspendDeny
           \/ RebootRequest \/ RebootConfirmIgnored \/ Reboot \/ Swallow
    PROVE  IInv'
<1>0. /\ allow_suspend \in BOOLEAN /\ reboot_requested \in BOOLEAN /\ swallowed \in BOOLEAN
      /\ rebooted \in BOOLEAN /\ asking \in SUBSET Requesters /\ suspend_subscribers \subseteq Subscribers
      /\ halted \in Halts
    BY DEF IInv, TypeOK
<1> USE DEF server, callers, fate, history, bounds, Receive, From
<1>1. CASE do_hook
  <2>1. Head(inbox).from \in Subscribers
      BY <1>1, LastOfService DEF do_hook, Take, ServiceOps, IInv
  <2> QED BY <1>0, <1>1, <2>1, AsideStep DEF do_hook
<1>2. CASE SuspendReadyIgnored
    BY <1>0, <1>2, AsideStep DEF SuspendReadyIgnored
<1>3. CASE SuspendRequestDenied
    BY <1>0, <1>3, AsideStep DEF SuspendRequestDenied
<1>4. CASE SuspendTimeoutIgnored
    BY <1>0, <1>4, AsideStep DEF SuspendTimeoutIgnored
<1>5. CASE WasSuspendClean
    BY <1>0, <1>5, AsideStep DEF WasSuspendClean
<1>6. CASE SuspendAllow \/ SuspendDeny
  <2>1. allow_suspend' \in BOOLEAN
      BY <1>6, Zenon DEF SuspendAllow, SuspendDeny, SetAllow
  <2> QED BY <1>0, <1>6, <2>1, AsideStep DEF SuspendAllow, SuspendDeny, SetAllow
<1>7. CASE RebootRequest
  <2>1. reboot_requested' \in BOOLEAN
      BY <1>7, Zenon DEF RebootRequest, SetRebootRequested
  <2> QED BY <1>0, <1>7, <2>1, AsideStep DEF RebootRequest, SetRebootRequested
<1>8. CASE RebootConfirmIgnored
    BY <1>0, <1>8, AsideStep DEF RebootConfirmIgnored
<1>9. CASE Reboot
  <2>1. rebooted' \in BOOLEAN
      BY <1>9, Zenon DEF Reboot
  <2> QED BY <1>0, <1>9, <2>1, AsideStep DEF Reboot
<1>10. CASE Swallow
  <2>1. reboot_requested' \in BOOLEAN /\ swallowed' \in BOOLEAN
      BY <1>10, Zenon DEF Swallow, SetRebootRequested
  <2>2. halted' \in Halts /\ (halted' = halted \/ gone # {})
      BY <1>0, <1>10 DEF Swallow, Halts
  <2>3. \/ stage' = stage
        \/ /\ Head(inbox).op \in {"SuspendEventSubscribe", "WasSuspendClean"}
           /\ stage' = [stage EXCEPT ![Head(inbox).from] = "running"]
      BY <1>10, Zenon DEF Swallow
  <2> QED BY <1>0, <1>10, <2>1, <2>2, <2>3, AsideStep DEF Swallow, SetRebootRequested
<1>11. CASE do_hook_Gone
    BY <1>0, <1>11, AsideStep DEF do_hook_Gone, Halts
<1>12. CASE SuspendingNowGone
    BY <1>0, <1>12, AsideStep DEF SuspendingNowGone, Halts
<1>13. CASE WasSuspendCleanGone
    BY <1>0, <1>13, AsideStep DEF WasSuspendCleanGone, Halts
<1> QED BY <1>1, <1>2, <1>3, <1>4, <1>5, <1>6, <1>7, <1>8, <1>9, <1>10, <1>11, <1>12, <1>13

\* A service that comes to the gate is let go at once, or held there until the round ends.
LEMMA GateStep ==
    ASSUME IInv, SuspendingNowLate \/ SuspendingNow
    PROVE  IInv'
<1>0. PICK f : f = Head(inbox).from
    OBVIOUS
<1>1. TypeOK /\ inbox # <<>> /\ inbox' = Tail(inbox) /\ Head(inbox).op = "SuspendingNow"
    BY DEF IInv, SuspendingNowLate, SuspendingNow, Receive, Take
<1>2. f \in Subscribers /\ OfService(1) /\ Head(inbox) = inbox[1] /\ ~Behind(f)
    BY <1>0, <1>1, LastOfService DEF IInv, ServiceOps
<1>3. stage[f] = "gated" /\ f \in suspend_subscribers /\ inbox' \in Seq(Message)
    BY <1>0, <1>1, <1>2, Dequeued DEF IInv, MailOK, Fits, SubscribedOK, Frozen
<1>4. \A s \in Subscribers : Behind(s) => s \notin gated_pids
    BY DEF IInv, MailOK, Fits, Behind
<1>5. CASE SuspendingNowLate
  <2>1. /\ suspend_requested = Nobody /\ stage' = [stage EXCEPT ![f] = "resumed"]
        /\ UNCHANGED <<suspend_requested, timeout_pending, allow_suspend, reboot_requested,
                       suspend_subscribers, ready_to_suspend, failed_to_suspend, current_op_order,
                       gated_pids, wfi_ignored, members, swallowed, rebooted, timers, events, asking,
                       rebooting, requests, scalars, gone, halted>>
      BY <1>0, <1>5 DEF SuspendingNowLate, From, server, callers, fate, history, bounds
  <2>2. /\ stage' \in [Subscribers -> Stages] /\ stage'[f] = "resumed"
        /\ \A s \in Subscribers : s # f => stage'[s] = stage[s]
      BY <1>1, <1>2, <2>1 DEF TypeOK, Stages
  <2>3. TypeOK'
      BY <1>1, <1>3, <2>1, <2>2 DEF TypeOK
  <2>4. MailOK' /\ OrderOK'
      BY <1>1, <1>2, <1>4, <2>1, <2>2, Taken DEF IInv
  <2>5. QuietBetweenRounds'
      BY <2>1, Zenon DEF IInv, QuietBetweenRounds
  <2>6. SubscribedOK'
      BY <2>1, <2>2 DEF IInv, SubscribedOK, Frozen
  <2>7. RoundOK'
      BY <2>1 DEF RoundOK
  <2> QED BY <2>3, <2>4, <2>5, <2>6, <2>7 DEF IInv
<1>6. CASE SuspendingNow
  <2>1. /\ suspend_requested # Nobody /\ gated_pids' = gated_pids \cup {f}
        /\ UNCHANGED <<suspend_requested, timeout_pending, allow_suspend, reboot_requested,
                       suspend_subscribers, ready_to_suspend, failed_to_suspend, current_op_order,
                       wfi_ignored, members, swallowed, rebooted, timers, events, stage, asking,
                       rebooting, requests, scalars, gone, halted>>
      BY <1>0, <1>6 DEF SuspendingNow, From, server, callers, fate, history, bounds
  <2>2. TypeOK'
      BY <1>1, <1>3, <2>1 DEF TypeOK
  <2>3. MailOK' /\ OrderOK'
      BY <1>1, <1>2, <1>4, <2>1, Taken DEF IInv
  <2>4. QuietBetweenRounds'
    <3>1. \A s \in gated_pids' : stage'[s] = "gated"
        BY <1>3, <2>1 DEF IInv, QuietBetweenRounds
    <3> QED BY <2>1, <3>1, Zenon DEF IInv, QuietBetweenRounds
  <2>5. SubscribedOK' /\ RoundOK'
      BY <2>1 DEF IInv, SubscribedOK, RoundOK, Frozen
  <2> QED BY <2>2, <2>3, <2>4, <2>5 DEF IInv
<1> QED BY <1>5, <1>6

\* A SuspendReady that is counted comes from a subscriber that is frozen.
LEMMA CountedFrozen ==
    ASSUME IInv, SuspendReadyCounted
    PROVE  /\ TypeOK /\ inbox # <<>> /\ inbox' = Tail(inbox) /\ Take
           /\ From \in suspend_subscribers /\ Frozen(From) /\ suspend_requested # Nobody
<1>1. TypeOK /\ Take /\ inbox # <<>> /\ inbox' = Tail(inbox) /\ Head(inbox).op = "SuspendReady"
        /\ suspend_requested # Nobody
    BY DEF IInv, SuspendReadyCounted, Receive, Take
<1>2. 1 \in DOMAIN inbox /\ Head(inbox) = inbox[1] /\ inbox[1] \in Message
    BY <1>1, Dequeued
<1>3. OfService(1) /\ inbox[1].from \in Subscribers
    BY <1>1, <1>2, Sender DEF OfService, ServiceOps
<1>4. Frozen(From)
    BY <1>1, <1>2, <1>3 DEF IInv, MailOK, Fits, From
<1> QED BY <1>1, <1>2, <1>3, <1>4 DEF IInv, SubscribedOK, From

LEMMA ReadyStep ==
    ASSUME IInv, SuspendReadyWaiting \/ SuspendReadyNextOrder
    PROVE  IInv'
<1>0. PICK f : f = From
    OBVIOUS
<1>1. /\ TypeOK /\ inbox # <<>> /\ inbox' = Tail(inbox)
      /\ f \in suspend_subscribers /\ Frozen(f) /\ suspend_requested # Nobody
    BY <1>0, CountedFrozen DEF SuspendReadyWaiting, SuspendReadyNextOrder
<1>2. /\ ready_to_suspend' = ready_to_suspend \cup {f}
      /\ UNCHANGED <<suspend_requested, timeout_pending, allow_suspend, reboot_requested,
                     suspend_subscribers, failed_to_suspend, gated_pids, wfi_ignored, members,
                     swallowed, rebooted, timers, stage, asking, rebooting, requests, scalars>>
    BY <1>0 DEF SuspendReadyWaiting, SuspendReadyNextOrder, NowReady, callers, history, bounds
<1>3. inbox' \in Seq(Message)
    BY <1>1, Dequeued
<1>4. MailOK' /\ OrderOK'
  <2>1. \A s \in Subscribers : Behind(s) => s \notin gated_pids
      BY DEF IInv, MailOK, Fits, Behind
  <2> QED BY <1>1, <1>2, <2>1, Taken DEF IInv
<1>5. ASSUME FateOK PROVE QuietBetweenRounds'
  <2>1. /\ halted' # "no" => gone' # {}
        /\ halted = "panicked" => halted' = "panicked"
      BY <1>5 DEF IInv, QuietBetweenRounds, FateOK
  <2> QED BY <1>2, <2>1, Zenon DEF IInv, QuietBetweenRounds
<1>6. \A s \in ready_to_suspend' : Frozen(s)'
    BY <1>1, <1>2 DEF IInv, RoundOK, Frozen
<1>7. CASE SuspendReadyWaiting
  <2>1. UNCHANGED <<current_op_order, events, gone, halted>> /\ FateOK
      BY <1>7 DEF SuspendReadyWaiting, fate, FateOK
  <2>2. TypeOK'
      BY <1>1, <1>2, <1>3, <2>1 DEF TypeOK
  <2>3. SubscribedOK'
      BY <1>2, <2>1 DEF IInv, SubscribedOK, Frozen
  <2>4. RoundOK'
      BY <1>1, <1>2, <1>6, <2>1 DEF IInv, RoundOK
  <2> QED BY <1>4, <1>5, <2>1, <2>2, <2>3, <2>4 DEF IInv
<1>8. CASE SuspendReadyNextOrder
  <2>1. PICK o : o = FirstAsked(current_op_order + 1)
      OBVIOUS
  <2>2. /\ current_op_order # Last /\ current_op_order' = o /\ SendEvents(o)
        /\ halted = "no"
      BY <1>8, <2>1 DEF SuspendReadyNextOrder, SuspendReadyCounted, Receive, Take
  <2>3. \A s \in suspend_subscribers : OrderOf[s] = current_op_order => s \in ready_to_suspend'
      BY <1>0, <1>2, <1>8 DEF SuspendReadyNextOrder, AllReady, NowReady
  <2>4. current_op_order \in Orders /\ current_op_order + 1 \in Orders
      BY <1>1, <2>2 DEF TypeOK, Orders, Early, Last
  <2>5. o \in Orders /\ \A s \in suspend_subscribers : OrderOf[s] >= current_op_order + 1 => o <= OrderOf[s]
      BY <1>1, <2>1, <2>4, FirstAskedIs DEF IInv, TypeOK
  <2>6. SubscribedOK' /\ events' \in [Subscribers -> Nat] /\ FateOK /\ gone' = gone /\ halted' \in Halts
      BY <1>1, <1>2, <2>2, EventsSent DEF IInv
  <2>7. TypeOK'
      BY <1>1, <1>2, <1>3, <2>2, <2>5, <2>6 DEF TypeOK
  <2>8. ASSUME NEW s \in members, OrderOf[s] < o PROVE s \in ready_to_suspend'
    <3>1. s \in suspend_subscribers /\ OrderOf[s] \in Orders
        BY <1>1, SusresAssumption DEF TypeOK
    <3>2. OrderOf[s] < current_op_order \/ OrderOf[s] = current_op_order
        BY <2>4, <2>5, <2>8, <3>1 DEF Orders, Early, Last
    <3>3. CASE OrderOf[s] < current_op_order
        BY <1>1, <1>2, <3>3 DEF IInv, RoundOK
    <3> QED BY <2>3, <3>1, <3>2, <3>3
  <2>9. RoundOK'
      BY <1>2, <1>6, <2>2, <2>8 DEF RoundOK
  <2> QED BY <1>4, <1>5, <2>6, <2>7, <2>9 DEF IInv
<1> QED BY <1>7, <1>8

\* A round ends, either way.
LEMMA EndStep ==
    ASSUME IInv, SuspendReadyPowerOff \/ SuspendTimeout
    PROVE  IInv'
<1>1. /\ TypeOK /\ inbox # <<>> /\ inbox' = Tail(inbox)
      /\ timeout_pending' = FALSE /\ suspend_requested' = Nobody /\ gated_pids' = {}
      /\ OpenGate /\ gone' = gone
      /\ \/ wfi_ignored' = FALSE /\ asking' = asking \ {suspend_requested} /\ halted' = halted
         \/ /\ halted' = "panicked" /\ gated_pids \cap gone # {}
            /\ wfi_ignored' = wfi_ignored /\ asking' = asking
      /\ UNCHANGED <<allow_suspend, reboot_requested, suspend_subscribers, current_op_order, timers,
                     events, rebooting, members, swallowed, rebooted, requests, scalars>>
    BY DEF IInv, SuspendReadyPowerOff, SuspendReadyCounted, SuspendTimeout, Receive, Take, EndRound,
           history, bounds
<1>2. /\ ready_to_suspend' \in SUBSET suspend_subscribers
      /\ failed_to_suspend' \in SUBSET suspend_subscribers
  <2>1. CASE SuspendReadyPowerOff
      BY <1>1, <2>1, CountedFrozen DEF SuspendReadyPowerOff, EndRound, NowReady, TypeOK
  <2>2. CASE SuspendTimeout
      BY <1>1, <2>2 DEF SuspendTimeout, EndRound, TypeOK
  <2> QED BY <2>1, <2>2
<1>3. inbox' \in Seq(Message)
    BY <1>1, Dequeued
<1>4. /\ stage' \in [Subscribers -> Stages]
      /\ \A s \in Subscribers : stage'[s] = stage[s] \/ (s \in gated_pids /\ stage'[s] = "resumed")
  <2>1. PICK freed \in SUBSET (gated_pids \ gone) :
            stage' = [s \in Subscribers |-> IF s \in freed THEN "resumed" ELSE stage[s]]
      BY <1>1 DEF OpenGate
  <2> QED BY <1>1, <2>1 DEF TypeOK, Stages
<1>5. TypeOK'
  <2>1. timeout_pending' \in BOOLEAN /\ wfi_ignored' \in BOOLEAN
      BY <1>1, Zenon DEF TypeOK
  <2>2. halted' \in Halts /\ asking' \in SUBSET Requesters
      BY <1>1 DEF TypeOK, Halts
  <2> QED BY <1>1, <1>2, <1>3, <1>4, <2>1, <2>2 DEF TypeOK
<1>6. MailOK' /\ OrderOK'
  <2>1. \A s \in Subscribers : Behind(s) => s \notin gated_pids
      BY DEF IInv, MailOK, Fits, Behind
  <2> QED BY <1>1, <1>4, <2>1, Taken DEF IInv
<1>7. QuietBetweenRounds'
  <2>1. halted' # "no" => gone' # {}
      BY <1>1 DEF IInv, QuietBetweenRounds
  <2>2. wfi_ignored' => halted' = "panicked"
      BY <1>1, Zenon
  <2> QED BY <1>1, <2>1, <2>2, Zenon DEF QuietBetweenRounds
<1>8. SubscribedOK'
    BY <1>1, <1>4 DEF IInv, SubscribedOK, Frozen
<1>9. RoundOK'
    BY <1>1 DEF RoundOK
<1> QED BY <1>5, <1>6, <1>7, <1>8, <1>9 DEF IInv

\* A round begins.
LEMMA RequestStep ==
    ASSUME IInv, SuspendRequestAccepted
    PROVE  IInv'
<1>0. PICK f, o : f = From /\ o = FirstAsked(Early)
    OBVIOUS
<1>1. /\ TypeOK /\ inbox # <<>> /\ inbox' = Tail(inbox) /\ Head(inbox).op = "SuspendRequest"
      /\ ~timeout_pending /\ halted = "no"
      /\ wfi_ignored' = TRUE /\ suspend_requested' = f /\ ready_to_suspend' = {}
      /\ failed_to_suspend' = {} /\ timeout_pending' = TRUE /\ timers' = timers + 1
      /\ current_op_order' = o /\ SendEvents(o) /\ members' = suspend_subscribers
      /\ UNCHANGED <<allow_suspend, reboot_requested, suspend_subscribers, gated_pids, stage, asking,
                     rebooting, swallowed, rebooted, requests, scalars>>
    BY <1>0 DEF IInv, SuspendRequestAccepted, Receive, Take, callers, bounds
<1>2. f \in Requesters /\ f # Nobody /\ inbox' \in Seq(Message)
  <2>1. Head(inbox) \in Message /\ inbox' \in Seq(Message)
      BY <1>1, Dequeued
  <2> QED BY <1>0, <1>1, <2>1, Sender, SusresAssumption DEF From
<1>3. o \in Orders /\ \A s \in suspend_subscribers : OrderOf[s] >= Early => o <= OrderOf[s]
    BY <1>0, <1>1, FirstAskedIs DEF IInv, TypeOK, Orders, Early, Last
<1>4. SubscribedOK' /\ events' \in [Subscribers -> Nat] /\ FateOK /\ gone' = gone /\ halted' \in Halts
    BY <1>1, EventsSent DEF IInv
<1>5. TypeOK'
  <2>1. timeout_pending' \in BOOLEAN /\ wfi_ignored' \in BOOLEAN
      BY <1>1, Zenon
  <2> QED BY <1>1, <1>2, <1>3, <1>4, <2>1 DEF TypeOK
<1>6. MailOK' /\ OrderOK'
  <2>1. \A s \in Subscribers : Behind(s) => s \notin gated_pids
      BY DEF IInv, MailOK, Fits, Behind
  <2> QED BY <1>1, <2>1, Taken DEF IInv
<1>7. QuietBetweenRounds'
  <2>1. halted' # "no" => gone' # {}
      BY <1>4 DEF IInv, QuietBetweenRounds, FateOK
  <2> QED BY <1>1, <1>2, <2>1, Zenon DEF IInv, QuietBetweenRounds
<1>8. RoundOK'
  <2>1. \A s \in members' : ~(OrderOf[s] < o)
    <3>1. members' \subseteq Subscribers /\ members' = suspend_subscribers
        BY <1>1 DEF TypeOK
    <3>2. \A s \in members' : OrderOf[s] \in 1 .. 5
        BY <3>1, SusresAssumption DEF Orders, Early, Last
    <3>3. o \in 1 .. 5 /\ \A s \in members' : OrderOf[s] >= 1 => o <= OrderOf[s]
        BY <1>3, <3>1 DEF Orders, Early, Last
    <3> QED BY <3>2, <3>3
  <2> QED BY <1>1, <2>1 DEF RoundOK
<1> QED BY <1>4, <1>5, <1>6, <1>7, <1>8 DEF IInv

-----------------------------------------------------------------------------
(* The theorems *)

LEMMA NextIInv == IInv /\ [Next]_vars => IInv'
<1> SUFFICES ASSUME IInv, [Next]_vars PROVE IInv'
    OBVIOUS
<1>1. CASE Handle
    BY <1>1, AsideSteps, GateStep, ReadyStep, EndStep, RequestStep DEF Handle
<1>2. ASSUME NEW s \in Subscribers, Subscribe(s) \/ TakeEvent(s) \/ Gate(s) \/ Query(s) \/ Leave(s)
      PROVE  IInv'
    BY <1>2, SubscriberStep
<1>3. CASE \/ TimerExpires
           \/ \E r \in Requesters : initiate_suspend(r)
           \/ \E allow \in BOOLEAN : set_suspendable(allow)
           \/ SendRebootRequest \/ SendRebootConfirm
    BY <1>3, ClientPlainStep
<1>4. CASE UNCHANGED vars
  <2>1. UNCHANGED <<inbox, suspend_requested, timeout_pending, allow_suspend, reboot_requested,
                    suspend_subscribers, ready_to_suspend, failed_to_suspend, current_op_order,
                    gated_pids, wfi_ignored, members, swallowed, rebooted, timers, events, stage,
                    asking, rebooting, requests, scalars, gone, halted>>
      BY <1>4 DEF vars, server, callers, fate, history, bounds
  <2>2. TypeOK'
      BY <2>1 DEF IInv, TypeOK
  <2>3. QuietBetweenRounds' /\ RoundOK'
      BY <2>1, RoundKept DEF FateOK
  <2>4. MailOK' /\ OrderOK' /\ SubscribedOK'
      BY <2>1 DEF IInv, MailOK, OrderOK, SubscribedOK, OfService, Fits, Frozen
  <2> QED BY <2>2, <2>3, <2>4 DEF IInv
<1> QED BY <1>1, <1>2, <1>3, <1>4 DEF Next

LEMMA SpecIInv == Spec => []IInv
BY InitIInv, NextIInv, PTL DEF Spec

\* Between rounds nobody is held at the gate, no timeout is expected and the override is off,
\* unless the sequencer has panicked on a service that is gone; nothing else stops it.
THEOREM RoundsEndClean == Spec => []QuietBetweenRounds
<1>1. IInv => QuietBetweenRounds
    BY DEF IInv
<1> QED BY <1>1, SpecIInv, PTL

\* While a round is on, every service of an order that is passed stays frozen.
THEOREM OrdersRespected == Spec => []PassedOrdersFrozen
<1>1. IInv => PassedOrdersFrozen
    BY DEF IInv, RoundOK, PassedOrdersFrozen
<1> QED BY <1>1, SpecIInv, PTL

\* The power goes off only when every service that was subscribed when the round began has
\* saved its state and is not running.
THEOREM PowerOffIsSafe == Spec => PowerOffSafe
<1>1. ASSUME IInv, [Next]_vars PROVE [PowersOff => \A s \in members : Frozen(s)]_vars
  <2> SUFFICES ASSUME Next, PowersOff, NEW s \in members PROVE Frozen(s)
      BY <1>1
  <2> USE DEF server, From
  <2>1. SuspendReadyPowerOff
    <3>1. suspend_requested' # suspend_requested /\ Head(inbox).op = "SuspendReady"
        BY DEF PowersOff
    <3>2. ~(\E t \in Subscribers : Subscribe(t) \/ TakeEvent(t) \/ Gate(t) \/ Query(t) \/ Leave(t))
        BY <3>1 DEF Subscribe, TakeEvent, Gate, Query, Leave
    <3>3. /\ ~TimerExpires /\ ~(\E r \in Requesters : initiate_suspend(r))
          /\ ~(\E allow \in BOOLEAN : set_suspendable(allow)) /\ ~SendRebootRequest /\ ~SendRebootConfirm
        BY <3>1 DEF TimerExpires, initiate_suspend, set_suspendable, SendRebootRequest, SendRebootConfirm
    <3>4. /\ ~do_hook /\ ~do_hook_Gone /\ ~SuspendingNowLate /\ ~SuspendingNowGone /\ ~SuspendingNow
          /\ ~WasSuspendCleanGone /\ ~SuspendRequestAccepted /\ ~SuspendRequestDenied /\ ~SuspendTimeout /\ ~SuspendTimeoutIgnored
        BY <3>1 DEF do_hook, do_hook_Gone, SuspendingNowLate, SuspendingNowGone, SuspendingNow,
                    WasSuspendCleanGone, SuspendRequestAccepted,
                    SuspendRequestDenied, SuspendTimeout, SuspendTimeoutIgnored, Receive
    <3>5. ~SuspendReadyIgnored /\ ~SuspendReadyWaiting /\ ~SuspendReadyNextOrder
        BY <3>1 DEF SuspendReadyIgnored, SuspendReadyWaiting, SuspendReadyNextOrder
    <3>6. /\ ~WasSuspendClean /\ ~SuspendAllow /\ ~SuspendDeny /\ ~RebootRequest
          /\ ~RebootConfirmIgnored /\ ~Reboot /\ ~Swallow
        BY <3>1 DEF WasSuspendClean, SuspendAllow, SuspendDeny, SetAllow, RebootRequest,
                    RebootConfirmIgnored, Reboot, Swallow, SetRebootRequested, Receive
    <3> QED BY <3>2, <3>3, <3>4, <3>5, <3>6 DEF Next, Handle
  <2>2. /\ Frozen(From) /\ suspend_requested # Nobody /\ AllReady /\ current_op_order = Last
        /\ TypeOK /\ RoundOK
      BY <1>1, <2>1, CountedFrozen DEF SuspendReadyPowerOff, IInv
  <2>3. s \in suspend_subscribers /\ OrderOf[s] \in Orders
      BY <2>2, SusresAssumption DEF TypeOK
  <2>4. OrderOf[s] < current_op_order \/ OrderOf[s] = current_op_order
      BY <2>2, <2>3 DEF Orders, Early, Last
  <2>5. CASE OrderOf[s] < current_op_order
      BY <2>2, <2>5 DEF RoundOK
  <2>6. CASE OrderOf[s] = current_op_order
    <3>1. s \in ready_to_suspend \/ s = From
        BY <2>2, <2>3, <2>6 DEF AllReady, NowReady
    <3> QED BY <2>2, <3>1 DEF RoundOK
  <2> QED BY <2>4, <2>5, <2>6
<1> QED BY <1>1, SpecIInv, PTL DEF Spec, PowerOffSafe
=============================================================================
