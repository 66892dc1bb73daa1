-------------------------- MODULE Ticktimer_proofs --------------------------
(***************************************************************************)
(* Proofs about the ticktimer, for every number of threads, processes,        *)
(* conditions and entries, every delay and every bound on the clients' calls. *)
(***************************************************************************)
EXTENDS Ticktimer, FiniteSetTheorems, FunctionTheorems, SequenceTheorems, WellFoundedInduction, TLAPS

-----------------------------------------------------------------------------
(* Sequences *)

\* A set of naturals that is not empty has a least element.
LEMMA LeastNat ==
    ASSUME NEW S, S \subseteq Nat, S # {}
    PROVE  \E x \in S : \A y \in S : x <= y
<1> DEFINE R == OpToRel(<, Nat)
<1>1. IsWellFoundedOn(R, Nat)
    BY NatLessThanWellFounded, Zenon
<1>2. \A y, z \in Nat : y < z => <<y, z>> \in R
    BY Zenon DEF OpToRel
<1> HIDE DEF R
<1>3. PICK x \in S : \A y \in S : ~(<<y, x>> \in R)
    BY <1>1, WFMin
<1>4. ASSUME NEW y \in S PROVE x <= y
  <2>1. x \in Nat /\ y \in Nat
      OBVIOUS
  <2>2. ~(y < x)
      BY <1>2, <1>3, <2>1, Zenon
  <2> QED BY <2>1, <2>2
<1> QED BY <1>4

\* One step of Vec::retain: what is kept of the first n entries.
KeptStep(a, e, g, n) ==
    IF n = 0 THEN <<>> ELSE IF a[n] = e THEN g[n - 1] ELSE Append(g[n - 1], a[n])

\* The recursion that defines Forgotten has a solution.
LEMMA KeptExists ==
    ASSUME NEW T, NEW a \in Seq(T), NEW e
    PROVE  \E g : g = [n \in 0 .. Len(a) |-> KeptStep(a, e, g, n)]
<1> DEFINE P(n) == \E g \in [0 .. n -> Seq(T)] : \A k \in 0 .. n : g[k] = KeptStep(a, e, g, k)
           Bad == {n \in 0 .. Len(a) : ~P(n)}
<1>1. Bad = {}
  <2> SUFFICES ASSUME Bad # {} PROVE FALSE
      OBVIOUS
  <2>0. Bad \subseteq Nat
      OBVIOUS
  <2> HIDE DEF Bad, P
  <2>1. PICK n \in Bad : \A m \in Bad : n <= m
      BY <2>0, LeastNat
  <2>2. n \in 0 .. Len(a) /\ ~P(n) /\ \A m \in 0 .. Len(a) : m < n => P(m)
      BY <2>1 DEF Bad
  <2>3. CASE n = 0
    <3> DEFINE g == [k \in 0 .. 0 |-> <<>>]
    <3>1. g \in [0 .. 0 -> Seq(T)] /\ \A k \in 0 .. 0 : g[k] = KeptStep(a, e, g, k)
        BY DEF KeptStep
    <3> QED BY <2>2, <2>3, <3>1 DEF P
  <2>4. CASE n # 0
    <3>1. n - 1 \in 0 .. Len(a) /\ n \in 1 .. Len(a)
        BY <2>2, <2>4
    <3>1a. P(n - 1)
        BY <2>2, <3>1
    <3>2. PICK f \in [0 .. n - 1 -> Seq(T)] : \A k \in 0 .. n - 1 : f[k] = KeptStep(a, e, f, k)
        BY <3>1a DEF P
    <3> DEFINE g == [k \in 0 .. n |-> IF k = n THEN KeptStep(a, e, f, n) ELSE f[k]]
    <3>3. f[n - 1] \in Seq(T) /\ a[n] \in T
        BY <3>1, <3>2
    <3>4. KeptStep(a, e, f, n) \in Seq(T)
        BY <3>3 DEF KeptStep
    <3>5. g \in [0 .. n -> Seq(T)]
        BY <3>1, <3>2, <3>4
    <3>6. \A k \in 0 .. n - 1 : g[k] = f[k]
        BY <3>1
    <3>7. g[n] = KeptStep(a, e, f, n)
        BY <3>1
    <3> HIDE DEF g
    <3>8. \A k \in 0 .. n : g[k] = KeptStep(a, e, g, k)
      <4> TAKE k \in 0 .. n
      <4>1. k # 0 => k - 1 \in 0 .. n - 1
          BY <3>1
      <4>2. KeptStep(a, e, g, k) = KeptStep(a, e, f, k)
          BY <3>6, <4>1 DEF KeptStep
      <4> QED BY <3>1, <3>2, <3>6, <3>7, <4>2
    <3> QED BY <2>2, <3>5, <3>8 DEF P
  <2> QED BY <2>3, <2>4
<1>2. Len(a) \in 0 .. Len(a)
    OBVIOUS
<1>3. P(Len(a))
    BY <1>1, <1>2
<1>4. PICK g \in [0 .. Len(a) -> Seq(T)] : \A k \in 0 .. Len(a) : g[k] = KeptStep(a, e, g, k)
    BY <1>3
<1>5. g = [n \in 0 .. Len(a) |-> KeptStep(a, e, g, n)]
    BY <1>4
<1> QED BY <1>5

\* The function that Forgotten is defined by solves its recursion.
LEMMA ForgottenIs ==
    ASSUME NEW T, NEW a \in Seq(T), NEW e
    PROVE  \E g : /\ g = [n \in 0 .. Len(a) |-> KeptStep(a, e, g, n)]
                  /\ Forgotten(a, e) = g[Len(a)]
<1> DEFINE h == CHOOSE g : g = [n \in 0 .. Len(a) |-> KeptStep(a, e, g, n)]
<1>1. h = [n \in 0 .. Len(a) |-> KeptStep(a, e, h, n)]
    BY KeptExists
<1>2. Forgotten(a, e) = h[Len(a)]
    BY DEF Forgotten, KeptStep
<1> QED BY <1>1, <1>2

\* Two entries of a sequence that are equal are one entry.
NoRepeats(a) == \A i, j \in DOMAIN a : a[i] = a[j] => i = j

\* Vec::retain takes out the sender and keeps all others; what had no repetition
\* has none after it.
LEMMA ForgottenEffect ==
    ASSUME NEW T, NEW a \in Seq(T), NEW e
    PROVE  /\ Forgotten(a, e) \in Seq(T)
           /\ \A x : (\E i \in DOMAIN Forgotten(a, e) : Forgotten(a, e)[i] = x)
                        <=> x # e /\ \E i \in DOMAIN a : a[i] = x
           /\ NoRepeats(a) => NoRepeats(Forgotten(a, e))
<1>1. PICK g : /\ g = [n \in 0 .. Len(a) |-> KeptStep(a, e, g, n)]
               /\ Forgotten(a, e) = g[Len(a)]
    BY ForgottenIs
<1>2. \A n \in 0 .. Len(a) : g[n] = KeptStep(a, e, g, n)
    BY <1>1
<1> DEFINE K(n) == /\ g[n] \in Seq(T)
                   /\ \A x : (\E i \in 1 .. Len(g[n]) : g[n][i] = x)
                                <=> x # e /\ \E i \in 1 .. n : a[i] = x
                   /\ NoRepeats(a) => \A i, j \in 1 .. Len(g[n]) : g[n][i] = g[n][j] => i = j
           Bad == {n \in 0 .. Len(a) : ~K(n)}
<1>3. Bad = {}
  <2> SUFFICES ASSUME Bad # {} PROVE FALSE
      OBVIOUS
  <2>1. Bad \subseteq Nat
      OBVIOUS
  <2> HIDE DEF Bad, K
  <2>2. PICK n \in Bad : \A m \in Bad : n <= m
      BY <2>1, LeastNat
  <2>3. n \in 0 .. Len(a) /\ ~K(n) /\ \A m \in 0 .. Len(a) : m < n => K(m)
      BY <2>2 DEF Bad
  <2>4. CASE n = 0
    <3>1. g[0] = <<>>
        BY <1>2, <2>3, <2>4 DEF KeptStep
    <3>2. K(0)
        BY <3>1 DEF K
    <3> QED BY <2>3, <2>4, <3>2
  <2>5. CASE n # 0
    <3>1. n - 1 \in 0 .. Len(a) /\ n \in 1 .. Len(a) /\ n - 1 < n
        BY <2>3, <2>5
    <3>2. K(n - 1)
        BY <2>3, <3>1
    <3> DEFINE u == g[n - 1]
    <3>3. /\ u \in Seq(T)
          /\ \A x : (\E i \in 1 .. Len(u) : u[i] = x) <=> x # e /\ \E i \in 1 .. n - 1 : a[i] = x
          /\ NoRepeats(a) => \A i, j \in 1 .. Len(u) : u[i] = u[j] => i = j
        BY <3>2 DEF K
    <3> HIDE DEF u
    <3>4. 1 .. n = (1 .. n - 1) \cup {n} /\ a[n] \in T
        BY <3>1
    <3>5. CASE a[n] = e
      <4>1. g[n] = u
          BY <1>2, <2>3, <2>5, <3>5 DEF KeptStep, u
      <4>2. K(n)
          BY <3>3, <3>4, <3>5, <4>1 DEF K
      <4> QED BY <2>3, <4>2
    <3>6. CASE a[n] # e
      <4>1. g[n] = Append(u, a[n])
          BY <1>2, <2>3, <2>5, <3>6 DEF KeptStep, u
      <4>2. /\ g[n] \in Seq(T) /\ Len(g[n]) = Len(u) + 1 /\ Len(u) \in Nat
            /\ \A i \in 1 .. Len(u) : g[n][i] = u[i]
            /\ g[n][Len(u) + 1] = a[n]
          BY <3>3, <3>4, <4>1
      <4>3. \A i : i \in 1 .. Len(g[n]) <=> i \in 1 .. Len(u) \/ i = Len(u) + 1
          BY <4>2
      <4>4. \A x : (\E i \in 1 .. Len(g[n]) : g[n][i] = x)
                      <=> (\E i \in 1 .. Len(u) : u[i] = x) \/ x = a[n]
          BY <4>2, <4>3
      <4>5. \A x : (\E i \in 1 .. n : a[i] = x) <=> (\E i \in 1 .. n - 1 : a[i] = x) \/ x = a[n]
          BY <3>4
      <4>6. ASSUME NoRepeats(a), NEW i \in 1 .. Len(g[n]), NEW j \in 1 .. Len(g[n]), g[n][i] = g[n][j]
            PROVE  i = j
        <5>1. ~\E k \in 1 .. Len(u) : u[k] = a[n]
          <6>1. ~\E k \in 1 .. n - 1 : a[k] = a[n]
              BY <3>1, <4>6 DEF NoRepeats
          <6> QED BY <3>3, <6>1
        <5>2. \A k, l \in 1 .. Len(u) : u[k] = u[l] => k = l
            BY <3>3, <4>6
        <5>3. CASE i \in 1 .. Len(u) /\ j \in 1 .. Len(u)
            BY <4>2, <4>6, <5>2, <5>3
        <5>4. CASE i \in 1 .. Len(u) /\ j = Len(u) + 1
            BY <4>2, <4>6, <5>1, <5>4
        <5>5. CASE i = Len(u) + 1 /\ j \in 1 .. Len(u)
            BY <4>2, <4>6, <5>1, <5>5
        <5> QED BY <4>3, <4>6, <5>3, <5>4, <5>5
      <4>7. K(n)
          BY <3>3, <3>6, <4>2, <4>4, <4>5, <4>6 DEF K
      <4> QED BY <2>3, <4>7
    <3> QED BY <3>5, <3>6
  <2> QED BY <2>4, <2>5
<1>4. Len(a) \in 0 .. Len(a) /\ DOMAIN a = 1 .. Len(a)
    OBVIOUS
<1> HIDE DEF K
<1>5. K(Len(a))
    BY <1>3, <1>4
<1> DEFINE z == Forgotten(a, e)
<1>6. /\ z \in Seq(T)
      /\ \A x : (\E i \in 1 .. Len(z) : z[i] = x) <=> x # e /\ \E i \in 1 .. Len(a) : a[i] = x
      /\ NoRepeats(a) => \A i, j \in 1 .. Len(z) : z[i] = z[j] => i = j
    BY <1>1, <1>5 DEF K
<1> HIDE DEF z
<1>7. DOMAIN z = 1 .. Len(z)
    BY <1>6
<1>8. /\ z \in Seq(T)
      /\ \A x : (\E i \in DOMAIN z : z[i] = x) <=> x # e /\ \E i \in DOMAIN a : a[i] = x
      /\ NoRepeats(a) => NoRepeats(z)
    BY <1>4, <1>6, <1>7 DEF NoRepeats
<1> QED BY <1>8 DEF z

-----------------------------------------------------------------------------
(* The inductive invariant *)

\* The calls that wait for an answer.
BlockingOps == {"ElapsedMs", "SleepMs", "WaitForCondition", "NotifyCondition"}
\* The calls that an event ends.
TimedOps == {"SleepMs", "WaitForCondition"}

\* Thread t is in the call that message m has made, unless it is gone.
Matches(m, t) ==
    calls[t] # Gone =>
        /\ calls[t].op = m.op
        /\ calls[t].cond = m.cond
        /\ m.op \in TimedOps => /\ calls[t].timed <=> m.arg # 0
                                /\ calls[t].due <= now + m.arg

\* The message in the loop holds entry s until it is answered.
InLoop(s) == msg_opt # Nothing /\ msg_opt.blocking /\ msg_opt.slot = s

\* A delivered message whose handler has ended without an answer.
Parked(s) == Waiting(s) /\ ~InLoop(s)

\* The process of the thread that holds entry s.
Holder(s) == ProcessOf[entries[s]]

\* A thread holds at most one entry, and is in a call as long as it does; the threads of a
\* process end together.
EntriesOK ==
    /\ \A r, s \in Slots : entries[r] \in Threads /\ entries[r] = entries[s] => r = s
    /\ \A s \in Slots : entries[s] \in Threads => calls[entries[s]] # Idle
    /\ \A t, u \in Threads : ProcessOf[t] = ProcessOf[u] /\ calls[t] = Gone => calls[u] = Gone

\* A queued message: who holds its entry.
QueuedOK(m) ==
    /\ m.op \in BlockingOps \cup {"FreeCondition", "RecalculateSleep"}
    /\ m.op \in BlockingOps =>
         /\ entries[m.slot] \in Threads
         /\ Holder(m.slot) = m.pid
         /\ m.blocking <=> calls[entries[m.slot]] # Gone
         /\ Matches(m, entries[m.slot])
    /\ m.op \notin BlockingOps => entries[m.slot] = Unblocked /\ ~m.blocking
    /\ m.op \in {"WaitForCondition", "NotifyCondition", "FreeCondition"} =>
         m.cond \in Conds /\ m.pid \in Processes
    /\ m.op = "RecalculateSleep" => m.about \in Senders

\* No two queued messages share an entry.
InboxOK ==
    /\ \A i, j \in DOMAIN inbox : inbox[i].slot = inbox[j].slot => i = j
    /\ \A i \in DOMAIN inbox : QueuedOK(inbox[i])

\* The message in the loop, and the thread that waits for its answer.
LoopOK ==
    /\ handling => msg_opt # Nothing
    /\ msg_opt # Nothing =>
         /\ msg_opt.op \in BlockingOps \cup {"FreeCondition", "RecalculateSleep"}
         /\ msg_opt.blocking =>
              /\ msg_opt.op \in BlockingOps
              /\ ~handling => msg_opt.op \notin TimedOps
              /\ Waiting(msg_opt.slot)
              /\ Holder(msg_opt.slot) = msg_opt.pid
              /\ Matches(msg_opt, entries[msg_opt.slot])
         /\ msg_opt.op \in {"WaitForCondition", "NotifyCondition", "FreeCondition"} =>
              msg_opt.cond \in Conds /\ msg_opt.pid \in Processes
         /\ msg_opt.op = "RecalculateSleep" => msg_opt.about \in Senders

\* The current request is the earliest, and the alarm is set for it.
TimerOK ==
    /\ IsFiniteSet(sleep_heap)
    /\ \A r, q \in sleep_heap : r.msec = q.msec => r = q
    /\ current_response # Nothing =>
         /\ alarm = [enabled |-> TRUE, target |-> current_response.msec]
         /\ \A r \in sleep_heap : current_response.msec < r.msec
    /\ alarm.enabled => current_response # Nothing

\* A RecalculateSleep is under way.
Rearming ==
    \/ \E i \in DOMAIN inbox : inbox[i].op = "RecalculateSleep"
    \/ handling /\ msg_opt.op = "RecalculateSleep"

\* Requests that the alarm is not set for are about to be looked at.
RearmOK == sleep_heap # {} /\ current_response = Nothing => Rearming

\* Sender e is in the table at condition c.
InTable(e, c) == \E i \in DOMAIN notify_table[<<e[2], c>>] : notify_table[<<e[2], c>>][i] = e

\* Entry e[1] is held by a thread of process e[2] whose message waits for an event.
Live(e) == Parked(e[1]) /\ Holder(e[1]) = e[2]

\* The sender of a request waits, in the call that the request is for and not longer than it.
RequestOK(r) ==
    /\ Live(r.sender)
    /\ r.kind = "Sleep" =>
         /\ r.sender \notin notifications_with_timeouts
         /\ calls[entries[r.sender[1]]] # Gone =>
              /\ calls[entries[r.sender[1]]].op = "SleepMs"
              /\ calls[entries[r.sender[1]]].due <= r.msec
    /\ r.kind = "Timeout" =>
         /\ r.sender \in notifications_with_timeouts
         /\ r.data \in Conds /\ InTable(r.sender, r.data)
         /\ calls[entries[r.sender[1]]] # Gone =>
              /\ calls[entries[r.sender[1]]].op = "WaitForCondition"
              /\ calls[entries[r.sender[1]]].timed
              /\ calls[entries[r.sender[1]]].due <= r.msec

\* Every request is right, and nobody has two.
RequestsOK ==
    /\ \A r \in StoppedHeap : RequestOK(r)
    /\ \A r, q \in StoppedHeap : r.sender = q.sender => r = q

\* The time-out of e at condition c has been answered, and the message that says so is under way.
FiredAt(e, c) ==
    \/ \E i \in DOMAIN inbox : /\ inbox[i].op = "RecalculateSleep"
                               /\ inbox[i].about = e /\ inbox[i].cond = c
    \/ handling /\ msg_opt.op = "RecalculateSleep" /\ msg_opt.about = e /\ msg_opt.cond = c

\* Sender e has a request in the heap or in the hardware.
HasRequest(e) == \E r \in StoppedHeap : r.sender = e

\* A sender in the table waits there, or its time-out has been answered and not yet reported.
WaiterOK(e, c) ==
    \/ /\ Live(e)
       /\ HasRequest(e) <=> e \in notifications_with_timeouts
       /\ calls[entries[e[1]]] # Gone =>
            /\ calls[entries[e[1]]].op = "WaitForCondition"
            /\ calls[entries[e[1]]].cond = c
            /\ calls[entries[e[1]]].timed <=> e \in notifications_with_timeouts
    \/ e \in notifications_with_timeouts /\ FiredAt(e, c)

\* The table is right, nobody is in it twice, and whoever has a time-out is in it.
TableOK ==
    /\ \A p \in Processes, c \in Conds : \A i \in DOMAIN notify_table[<<p, c>>] :
         /\ notify_table[<<p, c>>][i][2] = p
         /\ WaiterOK(notify_table[<<p, c>>][i], c)
    /\ \A p \in Processes, c \in Conds : NoRepeats(notify_table[<<p, c>>])
    /\ \A e \in Senders, c, d \in Conds : InTable(e, c) /\ InTable(e, d) => c = d
    /\ \A e \in notifications_with_timeouts : \E c \in Conds : InTable(e, c)

\* The sender that RecalculateSleep m reports has been answered, and has not been heard since.
RecalcOK(m) ==
    /\ ~Waiting(m.about[1])
    /\ m.about \in notifications_with_timeouts => m.cond \in Conds /\ InTable(m.about, m.cond)

\* A message about an answered time-out comes before any new message from that entry.
RecalcsOK ==
    /\ \A i \in DOMAIN inbox : inbox[i].op = "RecalculateSleep" =>
         /\ RecalcOK(inbox[i])
         /\ \A j \in DOMAIN inbox : inbox[j].slot = inbox[i].about[1] => i <= j
    /\ handling /\ msg_opt.op = "RecalculateSleep" => RecalcOK(msg_opt)

\* A thread that sleeps or waits is on record.
RecordOK ==
    \A s \in Slots : Parked(s) /\ calls[entries[s]] # Gone =>
        /\ calls[entries[s]].op = "SleepMs" => HasRequest(<<s, Holder(s)>>)
        /\ calls[entries[s]].op = "WaitForCondition" =>
             /\ calls[entries[s]].cond \in Conds
             /\ InTable(<<s, Holder(s)>>, calls[entries[s]].cond)

\* The inductive invariant.  The parts need each other: an entry is used again while messages
\* about its last user are queued, so what is on record about it is right only together with
\* the order of the queue.
IInv ==
    /\ TypeOK /\ EntriesOK /\ InboxOK /\ LoopOK /\ TimerOK /\ RearmOK
    /\ RequestsOK /\ TableOK /\ RecalcsOK /\ RecordOK
    /\ suspend = NotSuspended

-----------------------------------------------------------------------------
(* Shapes of the values *)

\* A call in progress.
CallRecord == [op : Opcodes, cond : Conds \cup {None}, timed : BOOLEAN, due : Nat]

\* Nothing is no message and no request; a thread that makes a call is neither idle nor gone.
LEMMA Shapes ==
    /\ \A m \in Message : m # Nothing
    /\ \A r \in TimerRequest : r # Nothing
    /\ Idle # Gone /\ Idle \in Call /\ Gone \in Call
    /\ \A x \in CallRecord : x # Idle /\ x # Gone /\ x \in Call
    /\ \A x \in Call : x \in CallRecord \/ x = Idle \/ x = Gone
    /\ \A x \in Call : x.op \in Opcodes => x \in CallRecord
    /\ Idle.op \notin Opcodes /\ Gone.op \notin Opcodes
    /\ \A x \in CallRecord : x.op \in Opcodes
    BY DEF Message, TimerRequest, Nothing, Idle, Gone, CallRecord, Call, Opcodes

\* What Append does to a sequence, by index.
LEMMA AppendIs ==
    ASSUME NEW T, NEW a \in Seq(T), NEW x \in T
    PROVE  /\ Append(a, x) \in Seq(T)
           /\ \A i \in DOMAIN a : /\ i \in DOMAIN Append(a, x) /\ Append(a, x)[i] = a[i]
                                  /\ i \in Int /\ i < Len(a) + 1
           /\ Len(a) + 1 \in DOMAIN Append(a, x) /\ Append(a, x)[Len(a) + 1] = x
           /\ \A i \in DOMAIN Append(a, x) : i \in DOMAIN a \/ i = Len(a) + 1
           /\ Len(a) + 1 \in Int
<1>1. Append(a, x) \in Seq(T) /\ Len(Append(a, x)) = Len(a) + 1 /\ Len(a) \in Nat
      /\ DOMAIN a = 1 .. Len(a) /\ DOMAIN Append(a, x) = 1 .. Len(a) + 1
    OBVIOUS
<1>2. \A i \in 1 .. Len(a) : Append(a, x)[i] = a[i]
    OBVIOUS
<1>3. Append(a, x)[Len(a) + 1] = x
    OBVIOUS
<1> QED BY <1>1, <1>2, <1>3

\* What Tail does to a sequence, by index.
LEMMA TailIs ==
    ASSUME NEW T, NEW a \in Seq(T), a # <<>>
    PROVE  /\ Tail(a) \in Seq(T)
           /\ 1 \in DOMAIN a /\ Head(a) = a[1] /\ Head(a) \in T
           /\ \A i \in DOMAIN Tail(a) : /\ i + 1 \in DOMAIN a /\ Tail(a)[i] = a[i + 1]
                                        /\ i \in Nat /\ i + 1 # 1
           /\ \A i \in DOMAIN a : i = 1 \/ (/\ i - 1 \in DOMAIN Tail(a) /\ Tail(a)[i - 1] = a[i]
                                            /\ i \in Nat)
<1>1. Tail(a) \in Seq(T) /\ Len(Tail(a)) = Len(a) - 1 /\ Len(a) \in Nat \ {0}
      /\ DOMAIN a = 1 .. Len(a) /\ DOMAIN Tail(a) = 1 .. Len(a) - 1
    OBVIOUS
<1>2. \A i \in 1 .. Len(a) - 1 : Tail(a)[i] = a[i + 1]
    OBVIOUS
<1>3. Head(a) = a[1] /\ a[1] \in T
    BY <1>1
<1>4. \A i \in 1 .. Len(a) : i = 1 \/ (i - 1 \in 1 .. Len(a) - 1 /\ (i - 1) + 1 = i)
    BY <1>1
<1> QED BY <1>1, <1>2, <1>3, <1>4

-----------------------------------------------------------------------------
(* The timer *)

\* A set of requests that can be the heap: finite, with a time of its own for each.
Heap(H) == H \subseteq TimerRequest /\ IsFiniteSet(H) /\ \A r, q \in H : r.msec = q.msec => r = q

\* Requests taken from a heap leave a heap.
LEMMA SubHeap ==
    ASSUME NEW H, Heap(H), NEW G \in SUBSET H
    PROVE  Heap(G)
    BY FS_Subset DEF Heap

\* What stop_sleep makes of the timer is a heap.
LEMMA StoppedIsHeap ==
    ASSUME TypeOK, TimerOK
    PROVE  Heap(StoppedHeap)
<1>1. CASE current_response = Nothing
    BY <1>1 DEF StoppedHeap, Heap, TypeOK, TimerOK
<1>2. CASE current_response # Nothing
  <2>1. StoppedHeap = sleep_heap \cup {current_response}
      BY <1>2 DEF StoppedHeap
  <2>2. current_response \in TimerRequest
      BY <1>2 DEF TypeOK
  <2>3. IsFiniteSet(StoppedHeap)
      BY <2>1, FS_AddElement DEF TimerOK
  <2>4. \A r \in sleep_heap : r.msec \in Nat /\ current_response.msec < r.msec
      BY <1>2 DEF TypeOK, TimerOK, TimerRequest
  <2>5. \A r, q \in StoppedHeap : r.msec = q.msec => r = q
      BY <2>1, <2>2, <2>4 DEF TimerOK, TimerRequest
  <2> QED BY <2>1, <2>2, <2>3, <2>5 DEF Heap, TypeOK
<1> QED BY <1>1, <1>2

\* recalculate_sleep_offline finds a free time at or after the one asked for, and adds
\* the request there.
LEMMA InsertedEffect ==
    ASSUME NEW H, Heap(H), NEW request \in TimerRequest, now \in Nat
    PROVE  \E r \in TimerRequest :
              /\ Inserted(H, request) = H \cup {r}
              /\ r.sender = request.sender /\ r.kind = request.kind /\ r.data = request.data
              /\ request.msec + now <= r.msec
              /\ \A q \in H : q.msec # r.msec
<1> DEFINE first == request.msec + now
           n == Cardinality(H)
           Open(m) == m \notin Keys(H) /\ \A k \in first .. m - 1 : k \in Keys(H)
<1>1. n \in Nat /\ first \in Nat
    BY FS_CardinalityType DEF Heap, TimerRequest
<1> HIDE DEF n, first
<1>2. \E m \in first .. first + n : m \notin Keys(H)
  <2> SUFFICES ASSUME \A m \in first .. first + n : m \in Keys(H) PROVE FALSE
      OBVIOUS
  <2> DEFINE f == [m \in first .. first + n |-> CHOOSE r \in H : r.msec = m]
  <2>1. \A m \in first .. first + n : f[m] \in H /\ f[m].msec = m
      BY DEF Keys
  <2>2. f \in [first .. first + n -> H]
      BY <2>1
  <2>3. IsFiniteSet(first .. first + n) /\ Cardinality(first .. first + n) = n + 1
      BY <1>1, FS_Interval
  <2> HIDE DEF f
  <2>4. \E x, y \in first .. first + n : x # y /\ f[x] = f[y]
      BY <1>1, <2>2, <2>3, FS_PigeonHole DEF Heap, n
  <2> QED BY <2>1, <2>4
<1> DEFINE S == {m \in first .. first + n : m \notin Keys(H)}
<1>3. S \subseteq Nat /\ S # {}
    BY <1>1, <1>2
<1> HIDE DEF S
<1>4. PICK x \in S : \A y \in S : x <= y
    BY <1>3, LeastNat
<1>5. x \in first .. first + n /\ Open(x)
    BY <1>1, <1>4 DEF S
<1> DEFINE msec == CHOOSE m \in first .. first + n : Open(m)
<1>6. msec \in first .. first + n /\ Open(msec)
    BY <1>5
<1> DEFINE r == [request EXCEPT !.msec = msec]
<1>7. Inserted(H, request) = H \cup {r}
    BY DEF Inserted, first, n
<1> HIDE DEF msec
<1>8. /\ r \in TimerRequest /\ r.msec = msec
      /\ r.sender = request.sender /\ r.kind = request.kind /\ r.data = request.data
    BY <1>1, <1>6 DEF TimerRequest
<1>9. \A q \in H : q.msec # msec
    BY <1>6 DEF Keys
<1> HIDE DEF r
<1> QED BY <1>1, <1>6, <1>7, <1>8, <1>9 DEF first

\* A heap that is not empty has an earliest request.
LEMMA EarliestIs ==
    ASSUME NEW H, Heap(H), H # {}
    PROVE  Earliest(H) \in H /\ \A q \in H : Earliest(H).msec <= q.msec
<1> DEFINE S == {r.msec : r \in H}
<1>1. S \subseteq Nat /\ S # {}
    BY DEF Heap, TimerRequest
<1> HIDE DEF S
<1>2. PICK x \in S : \A y \in S : x <= y
    BY <1>1, LeastNat
<1>3. PICK r \in H : r.msec = x
    BY <1>2 DEF S
<1>4. \A q \in H : r.msec <= q.msec
    BY <1>2, <1>3 DEF S
<1> QED BY <1>4 DEF Earliest

\* start_sleep puts the earliest request into the hardware and keeps the others.
LEMMA StartSleepEffect ==
    ASSUME TypeOK, NEW H, Heap(H), StartSleep(H)
    PROVE  /\ StoppedHeap' = H
           /\ TimerOK'
           /\ sleep_heap' # {} => current_response' # Nothing
           /\ current_response' \in TimerRequest \cup {Nothing}
           /\ sleep_heap' \subseteq TimerRequest
           /\ alarm' \in [enabled : BOOLEAN, target : Nat]
<1>1. CASE H = {}
  <2>1. /\ current_response' = Nothing /\ sleep_heap' = {}
        /\ alarm' = [alarm EXCEPT !.enabled = FALSE]
      BY <1>1 DEF StartSleep
  <2>2. alarm' \in [enabled : BOOLEAN, target : Nat] /\ alarm'.enabled = FALSE
      BY <2>1 DEF TypeOK
  <2>3. IsFiniteSet(sleep_heap')
      BY <2>1, FS_EmptySet
  <2> QED BY <1>1, <2>1, <2>2, <2>3 DEF StoppedHeap, TimerOK
<1>2. CASE H # {}
  <2> DEFINE r == Earliest(H)
  <2>1. /\ current_response' = r /\ sleep_heap' = H \ {r}
        /\ alarm' = [enabled |-> TRUE, target |-> r.msec]
      BY <1>2 DEF StartSleep
  <2>2. r \in H /\ \A q \in H : r.msec <= q.msec
      BY <1>2, EarliestIs
  <2> HIDE DEF r
  <2>3. r \in TimerRequest /\ r # Nothing /\ r.msec \in Nat
      BY <2>2, Shapes DEF Heap, TimerRequest
  <2>4. IsFiniteSet(sleep_heap') /\ sleep_heap' \subseteq TimerRequest
      BY <2>1, FS_Subset DEF Heap
  <2>5. \A q \in sleep_heap' : r.msec < q.msec
      BY <2>1, <2>2, <2>3 DEF Heap, TimerRequest
  <2>6. StoppedHeap' = H
      BY <2>1, <2>2, <2>3 DEF StoppedHeap
  <2>7. TimerOK'
      BY <2>1, <2>3, <2>4, <2>5 DEF TimerOK, Heap
  <2>8. alarm' \in [enabled : BOOLEAN, target : Nat]
      BY <2>1, <2>3
  <2> QED BY <2>1, <2>3, <2>4, <2>6, <2>7, <2>8
<1> QED BY <1>1, <1>2

-----------------------------------------------------------------------------
(* The kernel's queue *)

\* The calls that name a condition.
CondOps == {"WaitForCondition", "NotifyCondition", "FreeCondition"}

\* No marker of an entry is a thread.
LEMMA Markers == Free \notin Threads /\ Unblocked \notin Threads
    BY TicktimerAssumption DEF Free, Unblocked

\* return_scalar: what becomes of an entry and of a thread.
LEMMA ReleasedIs ==
    ASSUME TypeOK, NEW S
    PROVE  /\ Released(S) \in [Slots -> Threads \cup {Unblocked, Free}]
           /\ \A s \in Slots : Released(S)[s] = IF s \in S /\ Waiting(s) THEN Free ELSE entries[s]
    BY DEF Released, TypeOK

\* return_scalar: which threads go on, and what they do then.
LEMMA ResumedIs ==
    ASSUME TypeOK, NEW S
    PROVE  /\ Resumed(S) \in [Threads -> Call]
           /\ Woken(S) \subseteq Threads
           /\ \A t \in Threads : Resumed(S)[t] = IF t \in Woken(S) THEN Idle ELSE calls[t]
           /\ \A t \in Woken(S) : calls[t] # Gone /\ \E s \in S : Waiting(s) /\ entries[s] = t
           /\ \A t \in Threads, s \in S : calls[t] # Gone /\ Waiting(s) /\ entries[s] = t => t \in Woken(S)
    BY Shapes DEF Resumed, Woken, TypeOK

\* The answers to the entries S go to the threads that they wake.
LEMMA AnswersIs ==
    ASSUME TypeOK, NEW S, NEW v \in Nat
    PROVE  /\ Answers(S, v) \subseteq [thread : Threads, value : Nat]
           /\ \A a \in Answers(S, v) : a.thread \in Woken(S) /\ a.value = v
<1>1. Woken(S) \subseteq Threads
    BY ResumedIs
<1> QED BY <1>1 DEF Answers

\* A queued message keeps its place as long as its entry and the thread in it do.
LEMMA QueuedFrame ==
    ASSUME NEW m \in Message, QueuedOK(m), TypeOK, now' \in Nat, now <= now',
           entries'[m.slot] = entries[m.slot],
           entries[m.slot] \in Threads => calls'[entries[m.slot]] = calls[entries[m.slot]]
    PROVE  QueuedOK(m)'
<1>1. ASSUME m.op \in BlockingOps
      PROVE  /\ entries'[m.slot] \in Threads
             /\ Holder(m.slot)' = m.pid
             /\ m.blocking <=> calls'[entries'[m.slot]] # Gone
             /\ Matches(m, entries[m.slot])'
  <2>1. /\ entries[m.slot] \in Threads
        /\ Holder(m.slot) = m.pid
        /\ m.blocking <=> calls[entries[m.slot]] # Gone
        /\ Matches(m, entries[m.slot])
      BY <1>1 DEF QueuedOK
  <2>2. Holder(m.slot)' = m.pid
      BY <2>1 DEF Holder
  <2>3. Matches(m, entries[m.slot])'
    <3>0. calls[entries[m.slot]] \in Call /\ m.arg \in Nat
        BY <2>1 DEF TypeOK, Message
    <3>1. m.op \in TimedOps /\ calls[entries[m.slot]] # Gone => calls[entries[m.slot]].due \in Nat
      <4>1. m.op \in TimedOps /\ calls[entries[m.slot]] # Gone => calls[entries[m.slot]].op \in Opcodes
          BY <2>1 DEF Matches, TimedOps, Opcodes
      <4> QED BY <3>0, <4>1, Shapes DEF CallRecord
    <3> QED BY <2>1, <3>0, <3>1, SMTT(30) DEF Matches, TypeOK
  <2> QED BY <2>1, <2>2, <2>3
<1> QED BY <1>1 DEF QueuedOK

\* The same for the message that the server is working on.
LEMMA MatchesFrame ==
    ASSUME NEW m \in Message, NEW t \in Threads, Matches(m, t), TypeOK, now' \in Nat, now <= now',
           calls'[t] = calls[t] \/ calls'[t] = Gone
    PROVE  Matches(m, t)'
<1>0. calls[t] \in Call /\ m.arg \in Nat
    BY DEF TypeOK, Message
<1>1. m.op \in TimedOps /\ calls[t] # Gone => calls[t].due \in Nat
  <2>1. m.op \in TimedOps /\ calls[t] # Gone => calls[t].op \in Opcodes
      BY DEF Matches, TimedOps, Opcodes
  <2> QED BY <1>0, <2>1, Shapes DEF CallRecord
<1> QED BY <1>0, <1>1 DEF Matches, TypeOK

\* A step that leaves the timer, the table and the parked messages alone.
LEMMA RecordFrame ==
    ASSUME TypeOK, TypeOK', RequestsOK, TableOK, RecordOK,
           UNCHANGED condVars, StoppedHeap' = StoppedHeap, StoppedHeap \subseteq TimerRequest,
           \A s \in Slots : Parked(s)' <=> Parked(s),
           \A s \in Slots : Parked(s) =>
               /\ entries'[s] = entries[s]
               /\ calls'[entries[s]] = calls[entries[s]] \/ calls'[entries[s]] = Gone,
           \A e \in Senders, c \in Conds : FiredAt(e, c) => FiredAt(e, c)'
    PROVE  RequestsOK' /\ TableOK' /\ RecordOK'
<1>0. UNCHANGED <<notify_table, notifications_with_timeouts>>
    BY DEF condVars
<1>1. \A e \in Senders : e[1] \in Slots /\ e[2] \in Processes
    BY DEF Senders
<1>2. \A e \in Senders : Live(e)' <=> Live(e)
    BY <1>1 DEF Live, Holder
<1>3. \A e \in Senders : HasRequest(e)' <=> HasRequest(e)
    BY DEF HasRequest
<1>4. \A e, c : InTable(e, c)' <=> InTable(e, c)
    BY <1>0 DEF InTable
<1>5. \A e \in Senders : Live(e) =>
         /\ entries'[e[1]] = entries[e[1]]
         /\ calls'[entries[e[1]]] = calls[entries[e[1]]] \/ calls'[entries[e[1]]] = Gone
    BY <1>1 DEF Live
<1>6. ASSUME NEW r \in StoppedHeap PROVE RequestOK(r)'
  <2>1. r.sender \in Senders /\ RequestOK(r)
      BY DEF TimerRequest, RequestsOK
  <2> QED BY <1>0, <1>2, <1>4, <1>5, <2>1 DEF RequestOK
<1>7. RequestsOK'
    BY <1>6 DEF RequestsOK
<1>8. ASSUME NEW e \in Senders, NEW c \in Conds, WaiterOK(e, c) PROVE WaiterOK(e, c)'
    BY <1>0, <1>2, <1>3, <1>5, <1>8 DEF WaiterOK
<1>9. TableOK'
  <2>1. ASSUME NEW p \in Processes, NEW c \in Conds, NEW i \in DOMAIN notify_table[<<p, c>>]
        PROVE  notify_table[<<p, c>>][i] \in Senders
      BY DEF TypeOK
  <2>2. ASSUME NEW p \in Processes, NEW c \in Conds, NEW i \in DOMAIN notify_table[<<p, c>>]
        PROVE  /\ notify_table[<<p, c>>][i][2] = p
               /\ WaiterOK(notify_table[<<p, c>>][i], c)'
    <3>1. PICK e \in Senders : e = notify_table[<<p, c>>][i]
        BY <2>1
    <3>2. e[2] = p /\ WaiterOK(e, c)
        BY <3>1 DEF TableOK
    <3> QED BY <1>0, <1>8, <3>1, <3>2
  <2> QED BY <1>0, <1>4, <2>2 DEF TableOK
<1>10. RecordOK'
  <2> SUFFICES ASSUME NEW s \in Slots, Parked(s)', calls'[entries'[s]] # Gone
               PROVE  /\ calls'[entries'[s]].op = "SleepMs" => HasRequest(<<s, Holder(s)>>)'
                      /\ calls'[entries'[s]].op = "WaitForCondition" =>
                            /\ calls'[entries'[s]].cond \in Conds
                            /\ InTable(<<s, Holder(s)>>, calls[entries[s]].cond)'
      BY DEF RecordOK
  <2>1. /\ Parked(s) /\ entries'[s] = entries[s] /\ entries[s] \in Threads
        /\ calls'[entries[s]] = calls[entries[s]]
      BY DEF Parked, Waiting
  <2>2. PICK e \in Senders : e = <<s, Holder(s)>>
      BY <2>1, TicktimerAssumption DEF Holder, Senders
  <2>3. e = <<s, Holder(s)>>'
      BY <2>1, <2>2 DEF Holder
  <2> QED BY <1>3, <1>4, <2>1, <2>2, <2>3 DEF RecordOK
<1> QED BY <1>7, <1>9, <1>10

\* A step that does not touch the timer.
LEMMA TimerFrame ==
    ASSUME TimerOK, UNCHANGED timerVars
    PROVE  /\ TimerOK' /\ StoppedHeap' = StoppedHeap
           /\ sleep_heap' = sleep_heap /\ current_response' = current_response /\ alarm' = alarm
    BY DEF TimerOK, StoppedHeap, timerVars

\* The messages of the queue and of the loop are messages.
LEMMA MessageTypes ==
    ASSUME TypeOK
    PROVE  /\ \A i \in DOMAIN inbox : inbox[i] \in Message /\ inbox[i].slot \in Slots /\ inbox[i].arg \in Nat
           /\ msg_opt # Nothing => msg_opt \in Message /\ msg_opt.slot \in Slots /\ msg_opt.arg \in Nat
<1>1. \A i \in DOMAIN inbox : inbox[i] \in Message
    BY DEF TypeOK
<1>2. msg_opt # Nothing => msg_opt \in Message
    BY DEF TypeOK
<1> QED BY <1>1, <1>2 DEF Message

-----------------------------------------------------------------------------
(* The clients *)

\* Thread t has queued message m.
Sent(t, m, call) ==
    /\ m.op \in BlockingOps \cup {"FreeCondition"}
    /\ m.blocking <=> m.op \in BlockingOps
    /\ m.pid = ProcessOf[t]
    /\ m.op \in CondOps => m.cond \in Conds
    /\ calls[t] = Idle /\ entries[m.slot] = Free
    /\ m.blocking =>
         /\ call \in CallRecord /\ call.op = m.op /\ call.cond = m.cond
         /\ m.op \in TimedOps => (call.timed <=> m.arg # 0) /\ call.due = now + m.arg
    /\ inbox' = Append(inbox, m)
    /\ entries' = [entries EXCEPT ![m.slot] = IF m.blocking THEN t ELSE Unblocked]
    /\ calls' = IF m.blocking THEN [calls EXCEPT ![t] = call] ELSE calls
    /\ left > 0 /\ left' = left - 1 /\ answered' = {}
    /\ UNCHANGED <<now, msg_opt, handling, timerVars, condVars, LAST_RESPONDER, suspend, panicked>>

\* What every call of a client comes down to.
LEMMA SendIs ==
    ASSUME TypeOK, NEW t \in Threads, NEW op \in BlockingOps,
           NEW cond \in Conds \cup {None}, NEW arg \in Nat, NEW call \in CallRecord,
           op \in CondOps => cond \in Conds,
           call.op = op, call.cond = cond,
           op \in TimedOps => (call.timed <=> arg # 0) /\ call.due = now + arg,
           Send(t, op, cond, arg, TRUE, call)
    PROVE  \E m \in Message : Sent(t, m, call) /\ m.op = op
<1>1. PICK s \in FreeSlots(entries) :
         /\ inbox' = Append(inbox, [op |-> op, slot |-> s, pid |-> ProcessOf[t],
                                    blocking |-> TRUE, cond |-> cond, arg |-> arg,
                                    about |-> None])
         /\ entries' = [entries EXCEPT ![s] = t]
    BY DEF Send
<1>2. s \in Slots /\ entries[s] = Free
    BY DEF FreeSlots
<1>3. PICK m : m = [op |-> op, slot |-> s, pid |-> ProcessOf[t], blocking |-> TRUE,
                    cond |-> cond, arg |-> arg, about |-> None]
    OBVIOUS
<1>4. /\ m.op = op /\ m.slot = s /\ m.pid = ProcessOf[t] /\ m.blocking
      /\ m.cond = cond /\ m.arg = arg /\ m.about = None
    BY <1>3
<1>5. m \in Message
    BY <1>2, <1>3, TicktimerAssumption DEF Message, Opcodes, BlockingOps
<1>6. calls' = IF m.blocking THEN [calls EXCEPT ![t] = call] ELSE calls
    BY <1>4 DEF Send, TypeOK
<1>7. Sent(t, m, call)
  <2>1. inbox' = Append(inbox, m) /\ entries' = [entries EXCEPT ![m.slot] = IF m.blocking THEN t ELSE Unblocked]
      BY <1>1, <1>3, <1>4
  <2>2. /\ calls[t] = Idle /\ left > 0 /\ left' = left - 1 /\ answered' = {}
        /\ UNCHANGED <<now, msg_opt, handling, timerVars, condVars, LAST_RESPONDER, suspend, panicked>>
      BY DEF Send
  <2> QED BY <1>2, <1>4, <1>6, <2>1, <2>2 DEF Sent
<1> QED BY <1>4, <1>5, <1>7

\* A condition is freed by a message that nobody waits for.
LEMMA SendFreeIs ==
    ASSUME TypeOK, NEW t \in Threads, NEW c \in Conds,
           Send(t, "FreeCondition", c, 0, FALSE, Idle)
    PROVE  \E m \in Message : Sent(t, m, Idle) /\ m.op = "FreeCondition" /\ m.cond = c
<1>1. PICK s \in FreeSlots(entries) :
         /\ inbox' = Append(inbox, [op |-> "FreeCondition", slot |-> s, pid |-> ProcessOf[t],
                                    blocking |-> FALSE, cond |-> c, arg |-> 0, about |-> None])
         /\ entries' = [entries EXCEPT ![s] = Unblocked]
    BY DEF Send
<1>2. s \in Slots /\ entries[s] = Free
    BY DEF FreeSlots
<1>3. PICK m : m = [op |-> "FreeCondition", slot |-> s, pid |-> ProcessOf[t], blocking |-> FALSE,
                    cond |-> c, arg |-> 0, about |-> None]
    OBVIOUS
<1>4. /\ m.op = "FreeCondition" /\ m.slot = s /\ m.pid = ProcessOf[t] /\ ~m.blocking
      /\ m.cond = c /\ m.about = None
    BY <1>3
<1>5. m \in Message
    BY <1>2, <1>3, TicktimerAssumption DEF Message, Opcodes
<1>6. calls' = calls
    BY DEF Send, TypeOK
<1>7. Sent(t, m, Idle)
  <2>1. inbox' = Append(inbox, m) /\ entries' = [entries EXCEPT ![m.slot] = IF m.blocking THEN t ELSE Unblocked]
      BY <1>1, <1>3, <1>4
  <2>2. /\ calls[t] = Idle /\ left > 0 /\ left' = left - 1 /\ answered' = {}
        /\ UNCHANGED <<now, msg_opt, handling, timerVars, condVars, LAST_RESPONDER, suspend, panicked>>
      BY DEF Send
  <2> QED BY <1>2, <1>4, <1>6, <2>1, <2>2 DEF Sent, BlockingOps, CondOps
<1> QED BY <1>4, <1>5, <1>7

\* The call that a client makes, by field.
LEMMA InCallIs ==
    ASSUME now \in Nat, NEW op \in Opcodes, NEW c \in Conds \cup {None}, NEW ms \in Nat
    PROVE  /\ InCall(op, c, ms) \in CallRecord
           /\ InCall(op, c, ms).op = op /\ InCall(op, c, ms).cond = c
           /\ InCall(op, c, ms).timed <=> ms # 0
           /\ InCall(op, c, ms).due = now + ms
<1>1. (ms # 0) \in BOOLEAN /\ now + ms \in Nat
    OBVIOUS
<1>2. InCall(op, c, ms) \in CallRecord
    BY <1>1 DEF InCall, CallRecord
<1>3. /\ InCall(op, c, ms).op = op /\ InCall(op, c, ms).cond = c
      /\ InCall(op, c, ms).due = now + ms
    BY DEF InCall
<1>4. InCall(op, c, ms).timed <=> ms # 0
    BY Zenon DEF InCall
<1> QED BY <1>2, <1>3, <1>4

\* No thread of t's process waits for condition c, unless clients may free it all the same.
MayFree(t, c) ==
    \/ "FreeWhileWaiting" \in Clients
    \/ \A u \in Threads : ProcessOf[u] = ProcessOf[t] /\ calls[u].op = "WaitForCondition"
                            => calls[u].cond # c

\* Every call of a client queues one message.
LEMMA ClientCallIs ==
    ASSUME TypeOK, NEW t \in Threads, ClientCall(t)
    PROVE  \E m \in Message : \E call :
              Sent(t, m, call) /\ (m.op = "FreeCondition" => MayFree(t, m.cond))
<1>0. now \in Nat /\ 0 \in Nat /\ Delays \subseteq Nat /\ None \in Conds \cup {None}
    BY TicktimerAssumption DEF TypeOK
<1>z. PICK z \in Nat : z = 0
    OBVIOUS
<1> USE DEF BlockingOps, CondOps, TimedOps
<1>1. CASE elapsed_ms(t)
  <2>1. Send(t, "ElapsedMs", None, z, TRUE, InCall("ElapsedMs", None, z))
      BY <1>1, <1>z, Zenon DEF elapsed_ms
  <2>2. PICK call : call = InCall("ElapsedMs", None, z)
      OBVIOUS
  <2>3. "ElapsedMs" \in Opcodes
      BY DEF Opcodes
  <2>4. /\ call \in CallRecord /\ call.op = "ElapsedMs" /\ call.cond = None
      BY <1>0, <2>2, <2>3, InCallIs
  <2>4a. Send(t, "ElapsedMs", None, z, TRUE, call)
      BY <2>1, <2>2, Zenon
  <2>5. /\ "ElapsedMs" \in BlockingOps /\ ("ElapsedMs" \in CondOps => None \in Conds)
        /\ "ElapsedMs" \in TimedOps => (call.timed <=> z # 0) /\ call.due = now + z
      OBVIOUS
  <2> HIDE DEF BlockingOps, CondOps, TimedOps
  <2>6. \E m \in Message : Sent(t, m, call) /\ m.op = "ElapsedMs"
      BY <1>0, <2>4, <2>4a, <2>5, SendIs
  <2> QED BY <2>6
<1>2. CASE \E ms \in Delays : sleep_ms(t, ms)
  <2>1. PICK ms \in Nat : Send(t, "SleepMs", None, ms, TRUE, InCall("SleepMs", None, ms))
      BY <1>0, <1>2 DEF sleep_ms
  <2>2. \E m \in Message : Sent(t, m, InCall("SleepMs", None, ms)) /\ m.op = "SleepMs"
    <3>1. "SleepMs" \in Opcodes
        BY DEF Opcodes
    <3>a. now \in Nat /\ "SleepMs" \in Opcodes /\ None \in Conds \cup {None} /\ ms \in Nat
        BY <1>0, <3>1
    <3>b. InCall("SleepMs", None, ms) \in CallRecord
        BY <3>a, InCallIs, Zenon
    <3>c. InCall("SleepMs", None, ms).op = "SleepMs" /\ InCall("SleepMs", None, ms).cond = None
        BY <3>a, InCallIs
    <3>d. InCall("SleepMs", None, ms).timed <=> ms # 0
        BY <3>a, InCallIs, Zenon
    <3>e. InCall("SleepMs", None, ms).due = now + ms
        BY <3>a, InCallIs
    <3>3. "SleepMs" \in BlockingOps /\ "SleepMs" \notin CondOps
        OBVIOUS
    <3> HIDE DEF BlockingOps, CondOps, TimedOps
    <3> QED BY <1>0, <2>1, <3>b, <3>c, <3>d, <3>e, <3>3, SendIs
  <2> QED BY <2>2
<1>3. CASE \E c \in Conds, ms \in Delays \cup {0} : wait_condition(t, c, ms)
  <2>1. PICK c \in Conds, ms \in Nat :
            Send(t, "WaitForCondition", c, ms, TRUE, InCall("WaitForCondition", c, ms))
      BY <1>0, <1>3 DEF wait_condition
  <2>2. \E m \in Message : Sent(t, m, InCall("WaitForCondition", c, ms)) /\ m.op = "WaitForCondition"
    <3>1. "WaitForCondition" \in Opcodes
        BY DEF Opcodes
    <3>a. now \in Nat /\ "WaitForCondition" \in Opcodes /\ c \in Conds \cup {None} /\ ms \in Nat
        BY <1>0, <3>1
    <3>b. InCall("WaitForCondition", c, ms) \in CallRecord
        BY <3>a, InCallIs, Zenon
    <3>c. InCall("WaitForCondition", c, ms).op = "WaitForCondition" /\ InCall("WaitForCondition", c, ms).cond = c
        BY <3>a, InCallIs
    <3>d. InCall("WaitForCondition", c, ms).timed <=> ms # 0
        BY <3>a, InCallIs, Zenon
    <3>e. InCall("WaitForCondition", c, ms).due = now + ms
        BY <3>a, InCallIs
    <3> QED BY <1>0, <2>1, <3>b, <3>c, <3>d, <3>e, SendIs
  <2> QED BY <2>2
<1>4. CASE \E c \in Conds, n \in {0, 1} : notify_condition(t, c, n)
  <2>1. PICK c \in Conds, n \in Nat :
            Send(t, "NotifyCondition", c, n, TRUE, InCall("NotifyCondition", c, z))
      BY <1>4, <1>z, Zenon DEF notify_condition
  <2>2. PICK call : call = InCall("NotifyCondition", c, z)
      OBVIOUS
  <2>3. "NotifyCondition" \in Opcodes
      BY DEF Opcodes
  <2>4. /\ call \in CallRecord /\ call.op = "NotifyCondition" /\ call.cond = c
      BY <1>0, <2>2, <2>3, InCallIs
  <2>4a. Send(t, "NotifyCondition", c, n, TRUE, call)
      BY <2>1, <2>2, Zenon
  <2>5. /\ "NotifyCondition" \in BlockingOps /\ ("NotifyCondition" \in CondOps => c \in Conds)
        /\ "NotifyCondition" \in TimedOps => (call.timed <=> n # 0) /\ call.due = now + n
      OBVIOUS
  <2> HIDE DEF BlockingOps, CondOps, TimedOps
  <2>6. \E m \in Message : Sent(t, m, call) /\ m.op = "NotifyCondition"
      BY <1>0, <2>4, <2>4a, <2>5, SendIs
  <2> QED BY <2>6
<1>5. CASE \E c \in Conds : free_condition(t, c)
  <2>1. PICK c \in Conds : MayFree(t, c) /\ Send(t, "FreeCondition", c, 0, FALSE, Idle)
      BY <1>5 DEF free_condition, MayFree
  <2>2. \E m \in Message : Sent(t, m, Idle) /\ m.op = "FreeCondition" /\ m.cond = c
      BY <2>1, SendFreeIs
  <2> QED BY <2>1, <2>2
<1> QED BY <1>1, <1>2, <1>3, <1>4, <1>5 DEF ClientCall

\* Markers of an entry differ, and a queued message holds its entry.
LEMMA QueuedHolds ==
    ASSUME TypeOK, InboxOK
    PROVE  /\ Free # Unblocked
           /\ \A i \in DOMAIN inbox : entries[inbox[i].slot] # Free
           /\ \A i \in DOMAIN inbox : QueuedOK(inbox[i])
    BY Markers DEF InboxOK, QueuedOK, Free, Unblocked

\* A client's call keeps the invariant.
LEMMA SentInv ==
    ASSUME IInv, NEW t \in Threads, NEW m \in Message, NEW call, Sent(t, m, call)
    PROVE  IInv'
<1> USE DEF IInv
<1>0. /\ m.slot \in Slots /\ m.pid \in Processes /\ m.arg \in Nat /\ m.blocking \in BOOLEAN
      /\ calls[t] = Idle /\ entries[m.slot] = Free
      /\ inbox' = Append(inbox, m)
      /\ UNCHANGED <<now, msg_opt, handling, timerVars, condVars, LAST_RESPONDER, suspend, panicked>>
    BY TicktimerAssumption DEF Sent, Message
<1>t. TypeOK /\ now' \in Nat /\ now <= now'
    BY <1>0 DEF TypeOK
<1>1. TypeOK'
  <2>1. inbox' \in Seq(Message)
      BY <1>0, AppendIs DEF TypeOK
  <2>2. entries' \in [Slots -> Threads \cup {Unblocked, Free}]
      BY <1>0 DEF Sent, TypeOK
  <2>3. calls' \in [Threads -> Call]
      BY Shapes DEF Sent, TypeOK
  <2>4. left' \in 0 .. MaxCalls
      BY TicktimerAssumption DEF Sent, TypeOK
  <2>5. answered' \subseteq [thread : Threads, value : Nat]
      BY DEF Sent
  <2> QED BY <1>0, <2>1, <2>2, <2>3, <2>4, <2>5 DEF TypeOK, timerVars, condVars
<1>2. /\ \A i \in DOMAIN inbox : /\ i \in DOMAIN inbox' /\ inbox'[i] = inbox[i]
                                 /\ i \in Int /\ i < Len(inbox) + 1
                                 /\ inbox[i] \in Message /\ inbox[i].slot \in Slots
                                 /\ inbox[i].slot # m.slot
      /\ Len(inbox) + 1 \in DOMAIN inbox' /\ inbox'[Len(inbox) + 1] = m
      /\ \A i \in DOMAIN inbox' : i \in DOMAIN inbox \/ i = Len(inbox) + 1
      /\ Len(inbox) + 1 \in Int
    BY <1>0, AppendIs, MessageTypes, QueuedHolds DEF TypeOK
<1>3. \A s \in Slots \ {m.slot} : entries'[s] = entries[s]
    BY <1>0 DEF Sent, TypeOK
<1>4. entries'[m.slot] = IF m.blocking THEN t ELSE Unblocked
    BY <1>0 DEF Sent, TypeOK
<1>5. \A u \in Threads : u # t => calls'[u] = calls[u]
    BY DEF Sent, TypeOK
<1>6. /\ m.blocking => calls'[t] = call /\ call # Idle /\ call # Gone
      /\ ~m.blocking => calls' = calls
    BY Shapes DEF Sent, TypeOK
<1>7. \A s \in Slots : entries[s] # t
    BY <1>0 DEF EntriesOK
<1>8. \A s \in Slots : Waiting(s)' <=> Waiting(s)
  <2> TAKE s \in Slots
  <2>1. CASE s = m.slot
      BY <1>0, <1>2, <2>1, Markers DEF Waiting
  <2>2. CASE s # m.slot
      BY <1>2, <1>3, <2>2 DEF Waiting
  <2> QED BY <2>1, <2>2
<1>9. \A s \in Slots : entries[s] \in Threads =>
         s # m.slot /\ entries'[s] = entries[s] /\ calls'[entries[s]] = calls[entries[s]]
    BY <1>0, <1>3, <1>5, <1>7, Markers
<1>10. EntriesOK'
  <2>1. ASSUME NEW r \in Slots, NEW s \in Slots, entries'[r] \in Threads, entries'[r] = entries'[s]
        PROVE  r = s
      BY <1>3, <1>4, <1>7, <2>1, Markers DEF EntriesOK
  <2>2. ASSUME NEW s \in Slots, entries'[s] \in Threads PROVE calls'[entries'[s]] # Idle
    <3>1. CASE s = m.slot
        BY <1>4, <1>6, <2>2, <3>1, Markers
    <3>2. CASE s # m.slot
        BY <1>3, <1>9, <2>2, <3>2 DEF EntriesOK
    <3> QED BY <3>1, <3>2
  <2>3. \A u \in Threads : calls'[u] = Gone <=> calls[u] = Gone
      BY <1>0, <1>5, <1>6, Shapes
  <2> QED BY <2>1, <2>2, <2>3 DEF EntriesOK
<1>11. InboxOK'
  <2>1. ASSUME NEW i \in DOMAIN inbox', NEW j \in DOMAIN inbox', inbox'[i].slot = inbox'[j].slot
        PROVE  i = j
      BY <1>2, <2>1 DEF InboxOK
  <2>2. ASSUME NEW i \in DOMAIN inbox PROVE QueuedOK(inbox[i])'
    <3>1. PICK x \in Message : x = inbox[i]
        BY <1>2
    <3>2. QueuedOK(x) /\ x.slot \in Slots /\ x.slot # m.slot
        BY <1>2, <3>1 DEF InboxOK
    <3>3. /\ entries'[x.slot] = entries[x.slot]
          /\ entries[x.slot] \in Threads => calls'[entries[x.slot]] = calls[entries[x.slot]]
        BY <1>3, <1>9, <3>2
    <3>4. QueuedOK(x)'
        BY <1>t, <3>2, <3>3, QueuedFrame
    <3>5. inbox'[i] = x
        BY <1>2, <3>1
    <3> QED BY <3>4, <3>5
  <2>3. QueuedOK(m)'
    <3>1. CASE m.op \in BlockingOps
      <4>1. /\ m.blocking /\ entries'[m.slot] = t /\ calls'[t] = call /\ call # Gone
            /\ call.op = m.op /\ call.cond = m.cond /\ m.pid = ProcessOf[t]
            /\ m.op \in TimedOps => (call.timed <=> m.arg # 0) /\ call.due = now + m.arg
            /\ m.op \in CondOps => m.cond \in Conds
          BY <1>4, <1>6, <3>1 DEF Sent
      <4>2. Matches(m, entries[m.slot])'
          BY <1>0, <4>1 DEF Matches, TypeOK
      <4>3. m.op # "RecalculateSleep"
          BY <3>1 DEF BlockingOps
      <4> QED BY <1>0, <3>1, <4>1, <4>2, <4>3 DEF QueuedOK, Holder, CondOps
    <3>2. CASE m.op \notin BlockingOps
      <4>1. /\ m.op = "FreeCondition" /\ ~m.blocking /\ entries'[m.slot] = Unblocked
            /\ m.cond \in Conds
          BY <1>4, <3>2 DEF Sent, CondOps
      <4> QED BY <1>0, <3>2, <4>1 DEF QueuedOK
    <3> QED BY <3>1, <3>2
  <2>4. \A i \in DOMAIN inbox' : QueuedOK(inbox[i])'
      BY <1>2, <2>2, <2>3
  <2> QED BY <2>1, <2>4 DEF InboxOK
<1>12. LoopOK'
  <2> SUFFICES ASSUME msg_opt # Nothing, msg_opt.blocking
               PROVE  /\ Waiting(msg_opt.slot)'
                      /\ Holder(msg_opt.slot)' = msg_opt.pid
                      /\ Matches(msg_opt, entries[msg_opt.slot])'
      BY <1>0 DEF LoopOK
  <2>1. PICK x \in Message : x = msg_opt
      BY MessageTypes
  <2>2. /\ x.slot \in Slots /\ Waiting(x.slot) /\ Holder(x.slot) = x.pid
        /\ Matches(x, entries[x.slot])
      BY <2>1, MessageTypes DEF LoopOK
  <2>3. /\ entries[x.slot] \in Threads /\ entries'[x.slot] = entries[x.slot]
        /\ calls'[entries[x.slot]] = calls[entries[x.slot]]
      BY <1>9, <2>2 DEF Waiting
  <2>4. PICK u \in Threads : u = entries[x.slot]
      BY <2>3
  <2>5. Matches(x, u)'
      BY <1>t, <2>2, <2>3, <2>4, MatchesFrame
  <2>6. Holder(x.slot)' = x.pid
      BY <2>2, <2>3 DEF Holder
  <2>7. msg_opt' = x /\ entries'[x.slot] = u
      BY <1>0, <2>1, <2>3, <2>4
  <2> QED BY <1>8, <2>1, <2>2, <2>5, <2>6, <2>7
<1>13. /\ TimerOK' /\ StoppedHeap' = StoppedHeap
       /\ sleep_heap' = sleep_heap /\ current_response' = current_response /\ alarm' = alarm
    BY <1>0, TimerFrame
<1>14. RearmOK'
    BY <1>0, <1>2, <1>13 DEF RearmOK, Rearming
<1>15. RequestsOK' /\ TableOK' /\ RecordOK'
  <2>1. \A s \in Slots : Parked(s)' <=> Parked(s)
      BY <1>0, <1>8 DEF Parked, InLoop
  <2>2. \A s \in Slots : Parked(s) =>
            /\ entries'[s] = entries[s]
            /\ calls'[entries[s]] = calls[entries[s]] \/ calls'[entries[s]] = Gone
      BY <1>9 DEF Parked, Waiting
  <2>3. \A e \in Senders, c \in Conds : FiredAt(e, c) => FiredAt(e, c)'
      BY <1>0, <1>2 DEF FiredAt
  <2>4. StoppedHeap \subseteq TimerRequest
      BY StoppedIsHeap DEF Heap
  <2> QED BY <1>0, <1>1, <1>13, <2>1, <2>2, <2>3, <2>4, RecordFrame
<1>16. RecalcsOK'
  <2>0. m.op # "RecalculateSleep"
      BY DEF Sent, BlockingOps
  <2>1. UNCHANGED <<notify_table, notifications_with_timeouts, msg_opt, handling>>
      BY <1>0 DEF condVars
  <2>2. ASSUME NEW x \in Message, x.about \in Senders, RecalcOK(x) PROVE RecalcOK(x)'
      BY <1>8, <2>1, <2>2 DEF RecalcOK, InTable, Senders
  <2>3. ASSUME NEW i \in DOMAIN inbox, inbox[i].op = "RecalculateSleep"
        PROVE  RecalcOK(inbox[i])' /\ \A j \in DOMAIN inbox' : inbox'[j].slot = inbox'[i].about[1] => i <= j
    <3>1. PICK x \in Message : x = inbox[i] /\ x = inbox'[i] /\ x.about \in Senders /\ RecalcOK(x)
        BY <1>2, <2>3 DEF InboxOK, QueuedOK, RecalcsOK
    <3>2. RecalcOK(inbox[i])'
        BY <2>2, <3>1
    <3>3. ASSUME NEW j \in DOMAIN inbox', inbox'[j].slot = inbox'[i].about[1] PROVE i <= j
        BY <1>2, <2>3, <3>3 DEF RecalcsOK
    <3> QED BY <3>2, <3>3
  <2>4. ASSUME handling, msg_opt.op = "RecalculateSleep" PROVE RecalcOK(msg_opt)'
    <3>1. PICK x \in Message : x = msg_opt /\ x = msg_opt' /\ x.about \in Senders /\ RecalcOK(x)
        BY <2>1, <2>4, MessageTypes DEF LoopOK, RecalcsOK
    <3> QED BY <2>2, <3>1
  <2> QED BY <1>2, <2>0, <2>1, <2>3, <2>4 DEF RecalcsOK
<1>17. suspend' = NotSuspended
    BY <1>0
<1> QED BY <1>1, <1>10, <1>11, <1>12, <1>13, <1>14, <1>15, <1>16, <1>17

\* Answering the entries S touches only the delivered messages in them and their threads.
LEMMA ReleaseFrame ==
    ASSUME TypeOK, EntriesOK, NEW S \in SUBSET Slots
    PROVE  /\ \A s \in Slots : entries[s] \in Threads /\ ~(s \in S /\ Waiting(s)) =>
                /\ Released(S)[s] = entries[s]
                /\ Resumed(S)[entries[s]] = calls[entries[s]]
           /\ \A s \in Slots : Released(S)[s] \in Threads =>
                entries[s] \in Threads /\ ~(s \in S /\ Waiting(s)) /\ Released(S)[s] = entries[s]
           /\ \A t \in Threads : Resumed(S)[t] = Gone <=> calls[t] = Gone
           /\ \A r, s \in Slots : Released(S)[r] \in Threads /\ Released(S)[r] = Released(S)[s] => r = s
           /\ \A s \in Slots : Released(S)[s] \in Threads => Resumed(S)[Released(S)[s]] # Idle
           /\ \A s \in Slots : s \notin S => Released(S)[s] = entries[s]
<1>1. ASSUME NEW s \in Slots, entries[s] \in Threads, ~(s \in S /\ Waiting(s))
      PROVE  /\ Released(S)[s] = entries[s]
             /\ Resumed(S)[entries[s]] = calls[entries[s]]
  <2>1. Released(S)[s] = entries[s]
      BY <1>1, ReleasedIs
  <2>2. ASSUME entries[s] \in Woken(S) PROVE FALSE
    <3>1. PICK r \in S : Waiting(r) /\ entries[r] = entries[s]
        BY <2>2, ResumedIs
    <3> QED BY <1>1, <3>1 DEF EntriesOK
  <2> QED BY <1>1, <2>1, <2>2, ResumedIs
<1>2. ASSUME NEW s \in Slots, Released(S)[s] \in Threads
      PROVE  entries[s] \in Threads /\ ~(s \in S /\ Waiting(s)) /\ Released(S)[s] = entries[s]
    BY <1>2, ReleasedIs, Markers
<1>3. \A t \in Threads : Resumed(S)[t] = Gone <=> calls[t] = Gone
    BY ResumedIs, Shapes
<1>4. \A r, s \in Slots : Released(S)[r] \in Threads /\ Released(S)[r] = Released(S)[s] => r = s
    BY <1>2 DEF EntriesOK
<1>5. \A s \in Slots : Released(S)[s] \in Threads => Resumed(S)[Released(S)[s]] # Idle
    BY <1>1, <1>2 DEF EntriesOK
<1>6. \A s \in Slots : s \notin S => Released(S)[s] = entries[s]
    BY ReleasedIs
<1> QED BY <1>1, <1>2, <1>3, <1>4, <1>5, <1>6

\* The queue stays as it is.
LEMMA InboxFrame ==
    ASSUME TypeOK, InboxOK, inbox' = inbox, now' \in Nat, now <= now',
           \A i \in DOMAIN inbox :
               /\ entries'[inbox[i].slot] = entries[inbox[i].slot]
               /\ entries[inbox[i].slot] \in Threads =>
                      calls'[entries[inbox[i].slot]] = calls[entries[inbox[i].slot]]
    PROVE  InboxOK'
<1>1. ASSUME NEW i \in DOMAIN inbox PROVE QueuedOK(inbox[i])'
  <2>1. PICK x \in Message : x = inbox[i] /\ x = inbox'[i] /\ QueuedOK(x)
      BY MessageTypes DEF InboxOK
  <2>2. QueuedOK(x)'
      BY <2>1, QueuedFrame
  <2> QED BY <2>1, <2>2
<1> QED BY <1>1 DEF InboxOK

\* The server goes on with its message, or is done with it.
LEMMA LoopFrame ==
    ASSUME TypeOK, TypeOK', LoopOK, now <= now',
           handling' => handling,
           msg_opt = Nothing <=> msg_opt' = Nothing,
           msg_opt # Nothing =>
               /\ msg_opt'.op = msg_opt.op /\ msg_opt'.slot = msg_opt.slot /\ msg_opt'.pid = msg_opt.pid
               /\ msg_opt'.blocking = msg_opt.blocking /\ msg_opt'.cond = msg_opt.cond
               /\ msg_opt'.about = msg_opt.about
               /\ msg_opt'.arg = msg_opt.arg \/ msg_opt.op \notin TimedOps,
           msg_opt # Nothing /\ msg_opt.blocking =>
               /\ ~handling' => msg_opt.op \notin TimedOps
               /\ Waiting(msg_opt.slot)'
               /\ entries'[msg_opt.slot] = entries[msg_opt.slot]
               /\ \/ calls'[entries[msg_opt.slot]] = calls[entries[msg_opt.slot]]
                  \/ calls'[entries[msg_opt.slot]] = Gone
    PROVE  LoopOK'
<1>1. ASSUME msg_opt # Nothing, msg_opt.blocking
      PROVE  /\ Waiting(msg_opt.slot)'
             /\ Holder(msg_opt.slot)' = msg_opt'.pid
             /\ Matches(msg_opt, entries[msg_opt.slot])'
  <2>1. PICK x \in Message : x = msg_opt
      BY <1>1, MessageTypes
  <2>2. /\ x.slot \in Slots /\ Waiting(x.slot) /\ Holder(x.slot) = x.pid
        /\ Matches(x, entries[x.slot])
      BY <1>1, <2>1, MessageTypes DEF LoopOK
  <2>3. /\ entries[x.slot] \in Threads /\ entries'[x.slot] = entries[x.slot]
        /\ calls'[entries[x.slot]] = calls[entries[x.slot]] \/ calls'[entries[x.slot]] = Gone
      BY <1>1, <2>1, <2>2 DEF Waiting
  <2>4. PICK u \in Threads : u = entries[x.slot]
      BY <2>3
  <2>5. now' \in Nat
      BY DEF TypeOK
  <2>6. Matches(x, u)'
      BY <2>2, <2>3, <2>4, <2>5, MatchesFrame
  <2>7. Holder(x.slot)' = x.pid
      BY <2>2, <2>3 DEF Holder
  <2>8. PICK y \in Message : y = msg_opt'
      BY <1>1 DEF TypeOK
  <2>9. /\ y.op = x.op /\ y.slot = x.slot /\ y.pid = x.pid /\ y.cond = x.cond
        /\ y.arg = x.arg \/ x.op \notin TimedOps
      BY <1>1, <2>1, <2>8
  <2>10. Matches(y, u)'
      BY <2>6, <2>9 DEF Matches
  <2>11. entries'[y.slot] = u
      BY <2>3, <2>4, <2>9
  <2> QED BY <1>1, <2>1, <2>7, <2>8, <2>9, <2>10, <2>11
<1> QED BY <1>1 DEF LoopOK

\* Messages about answered time-outs stay true.
LEMMA RecalcFrame ==
    ASSUME TypeOK, LoopOK, InboxOK, RecalcsOK, UNCHANGED <<inbox, condVars>>,
           handling' => handling /\ msg_opt' = msg_opt,
           \A s \in Slots : Waiting(s)' => Waiting(s)
    PROVE  RecalcsOK'
<1>1. UNCHANGED <<notify_table, notifications_with_timeouts>>
    BY DEF condVars
<1>2. ASSUME NEW x \in Message, x.about \in Senders, RecalcOK(x) PROVE RecalcOK(x)'
    BY <1>1, <1>2 DEF RecalcOK, InTable, Senders
<1>3. ASSUME NEW i \in DOMAIN inbox, inbox[i].op = "RecalculateSleep" PROVE RecalcOK(inbox[i])'
  <2>1. PICK x \in Message : x = inbox[i] /\ x = inbox'[i] /\ x.about \in Senders /\ RecalcOK(x)
      BY <1>3, MessageTypes DEF InboxOK, QueuedOK, RecalcsOK
  <2> QED BY <1>2, <2>1
<1>4. ASSUME handling', msg_opt'.op = "RecalculateSleep" PROVE RecalcOK(msg_opt)'
  <2>1. PICK x \in Message : x = msg_opt /\ x = msg_opt' /\ x.about \in Senders /\ RecalcOK(x)
      BY <1>4, MessageTypes DEF LoopOK, RecalcsOK
  <2> QED BY <1>2, <2>1
<1> QED BY <1>3, <1>4 DEF RecalcsOK

\* The end of a client's process.
LEMMA TerminateInv ==
    ASSUME IInv, NEW p \in Processes, Terminate(p)
    PROVE  IInv'
<1> USE DEF IInv
<1>0. /\ UNCHANGED <<now, entries, left, msg_opt, handling, timerVars, condVars, LAST_RESPONDER,
                     suspend, panicked>>
      /\ answered' = {}
    BY DEF Terminate
<1>1. \A t \in Threads : calls'[t] = IF ProcessOf[t] = p THEN Gone ELSE calls[t]
    BY DEF Terminate
<1>2. /\ DOMAIN inbox' = DOMAIN inbox
      /\ \A i \in DOMAIN inbox : inbox'[i] = IF inbox[i].pid = p THEN [inbox[i] EXCEPT !.blocking = FALSE]
                                             ELSE inbox[i]
    BY DEF Terminate
<1>3. \A i \in DOMAIN inbox :
         /\ inbox[i] \in Message /\ inbox'[i] \in Message /\ inbox[i].slot \in Slots
         /\ inbox'[i].op = inbox[i].op /\ inbox'[i].slot = inbox[i].slot
         /\ inbox'[i].pid = inbox[i].pid /\ inbox'[i].cond = inbox[i].cond
         /\ inbox'[i].arg = inbox[i].arg /\ inbox'[i].about = inbox[i].about
         /\ inbox'[i].blocking <=> inbox[i].blocking /\ inbox[i].pid # p
  <2> TAKE i \in DOMAIN inbox
  <2>1. inbox[i] \in Message
      BY MessageTypes
  <2> QED BY <1>2, <2>1 DEF Message
<1>4. TypeOK'
  <2>1. inbox' \in Seq(Message)
    <3>1. DOMAIN inbox = 1 .. Len(inbox) /\ Len(inbox) \in Nat
        BY DEF TypeOK
    <3>2. inbox' = [i \in 1 .. Len(inbox) |-> inbox'[i]]
        BY <3>1 DEF Terminate
    <3>3. \A i \in 1 .. Len(inbox) : inbox'[i] \in Message
        BY <1>3, <3>1
    <3> QED BY <3>1, <3>2, <3>3
  <2>2. calls' \in [Threads -> Call]
      BY Shapes DEF Terminate, TypeOK
  <2> QED BY <1>0, <2>1, <2>2 DEF TypeOK, timerVars, condVars
<1>5. \A s \in Slots : Waiting(s)' <=> Waiting(s)
    BY <1>0, <1>2, <1>3 DEF Waiting
<1>6. EntriesOK'
  <2>1. \A s \in Slots : entries'[s] \in Threads => calls'[entries'[s]] # Idle
      BY <1>0, <1>1, Shapes DEF EntriesOK
  <2>2. \A t, u \in Threads : ProcessOf[t] = ProcessOf[u] /\ calls'[t] = Gone => calls'[u] = Gone
      BY <1>1 DEF EntriesOK
  <2> QED BY <1>0, <2>1, <2>2 DEF EntriesOK
<1>7. InboxOK'
  <2>1. ASSUME NEW i \in DOMAIN inbox PROVE QueuedOK(inbox[i])'
    <3>1. PICK x \in Message, y \in Message : x = inbox[i] /\ y = inbox'[i] /\ QueuedOK(x)
        BY <1>3 DEF InboxOK
    <3>2. /\ y.op = x.op /\ y.slot = x.slot /\ y.pid = x.pid /\ y.cond = x.cond
          /\ y.arg = x.arg /\ y.about = x.about
          /\ y.blocking <=> x.blocking /\ x.pid # p
        BY <1>3, <3>1
    <3>3. ASSUME x.op \in BlockingOps
          PROVE  /\ entries'[x.slot] \in Threads
                 /\ Holder(x.slot)' = x.pid
                 /\ y.blocking <=> calls'[entries'[x.slot]] # Gone
                 /\ Matches(y, entries[x.slot])'
      <4>1. /\ entries[x.slot] \in Threads /\ Holder(x.slot) = x.pid
            /\ x.blocking <=> calls[entries[x.slot]] # Gone
            /\ Matches(x, entries[x.slot])
          BY <3>1, <3>3 DEF QueuedOK
      <4>2. /\ ProcessOf[entries[x.slot]] = x.pid
            /\ calls'[entries[x.slot]] = IF x.pid = p THEN Gone ELSE calls[entries[x.slot]]
          BY <1>1, <4>1 DEF Holder
      <4>3. Matches(y, entries[x.slot])'
          BY <1>0, <3>2, <4>1, <4>2 DEF Matches
      <4> QED BY <1>0, <3>2, <4>1, <4>2, <4>3 DEF Holder
    <3>4. QueuedOK(y)'
        BY <1>0, <3>1, <3>2, <3>3 DEF QueuedOK
    <3> QED BY <3>1, <3>4
  <2> QED BY <1>2, <1>3, <2>1 DEF InboxOK
<1>8. /\ TimerOK' /\ StoppedHeap' = StoppedHeap
      /\ sleep_heap' = sleep_heap /\ current_response' = current_response
    BY <1>0, TimerFrame
<1>9. \A t \in Threads : calls'[t] = calls[t] \/ calls'[t] = Gone
    BY <1>1
<1>10. LoopOK'
  <2>1. now <= now'
      BY <1>0 DEF TypeOK
  <2>2. msg_opt # Nothing /\ msg_opt.blocking =>
            /\ ~handling' => msg_opt.op \notin TimedOps
            /\ Waiting(msg_opt.slot)' /\ entries[msg_opt.slot] \in Threads
      BY <1>0, <1>5, MessageTypes DEF LoopOK, Waiting
  <2> QED BY <1>0, <1>4, <1>9, <2>1, <2>2, LoopFrame
<1>11. RearmOK'
    BY <1>0, <1>2, <1>3, <1>8 DEF RearmOK, Rearming
<1>12. RequestsOK' /\ TableOK' /\ RecordOK'
  <2>1. \A s \in Slots : Parked(s)' <=> Parked(s)
      BY <1>0, <1>5 DEF Parked, InLoop
  <2>2. \A s \in Slots : Parked(s) =>
            /\ entries'[s] = entries[s]
            /\ calls'[entries[s]] = calls[entries[s]] \/ calls'[entries[s]] = Gone
      BY <1>0, <1>9 DEF Parked, Waiting
  <2>3. \A e \in Senders, c \in Conds : FiredAt(e, c) => FiredAt(e, c)'
      BY <1>0, <1>2, <1>3 DEF FiredAt
  <2>4. StoppedHeap \subseteq TimerRequest
      BY StoppedIsHeap DEF Heap
  <2> QED BY <1>0, <1>4, <1>8, <2>1, <2>2, <2>3, <2>4, RecordFrame
<1>13. RecalcsOK'
  <2>1. UNCHANGED <<notify_table, notifications_with_timeouts>>
      BY <1>0 DEF condVars
  <2>2. ASSUME NEW i \in DOMAIN inbox, inbox[i].op = "RecalculateSleep" PROVE RecalcOK(inbox[i])'
    <3>1. inbox[i].about \in Senders /\ RecalcOK(inbox[i]) /\ inbox[i].about[1] \in Slots
        BY <2>2 DEF InboxOK, QueuedOK, RecalcsOK, Senders
    <3> QED BY <1>3, <1>5, <2>1, <3>1 DEF RecalcOK, InTable
  <2>3. ASSUME handling, msg_opt.op = "RecalculateSleep" PROVE RecalcOK(msg_opt)'
    <3>1. msg_opt.about \in Senders /\ RecalcOK(msg_opt) /\ msg_opt.about[1] \in Slots
        BY <2>3 DEF LoopOK, RecalcsOK, Senders
    <3> QED BY <1>0, <1>5, <2>1, <3>1 DEF RecalcOK, InTable
  <2> QED BY <1>0, <1>2, <1>3, <2>2, <2>3 DEF RecalcsOK
<1>14. suspend' = NotSuspended
    BY <1>0
<1> QED BY <1>4, <1>6, <1>7, <1>8, <1>10, <1>11, <1>12, <1>13, <1>14

\* A step that changes at most the clock, the end of a handler and what is remembered of
\* the last answers.
LEMMA QuietInv ==
    ASSUME IInv, now' \in Nat, now <= now', msg_opt' = msg_opt,
           handling' \in BOOLEAN, handling' => handling,
           handling' # handling =>
               /\ msg_opt.op # "RecalculateSleep"
               /\ msg_opt.blocking => msg_opt.op \notin TimedOps,
           answered' \subseteq [thread : Threads, value : Nat],
           UNCHANGED <<kernelVars, timerVars, condVars, LAST_RESPONDER, suspend, panicked>>
    PROVE  IInv'
<1> USE DEF IInv
<1>0. UNCHANGED <<inbox, entries, calls, left>>
    BY DEF kernelVars
<1>1. TypeOK'
    BY <1>0 DEF TypeOK, timerVars, condVars
<1>2. \A s : Waiting(s)' <=> Waiting(s)
    BY <1>0 DEF Waiting
<1>3. EntriesOK'
    BY <1>0 DEF EntriesOK
<1>4. InboxOK'
    BY <1>0, InboxFrame
<1>5. LoopOK'
  <2>1. msg_opt # Nothing /\ msg_opt.blocking =>
            /\ ~handling' => msg_opt.op \notin TimedOps
            /\ Waiting(msg_opt.slot)'
      BY <1>2 DEF LoopOK, TypeOK
  <2> QED BY <1>0, <1>1, <2>1, LoopFrame
<1>6. /\ TimerOK' /\ StoppedHeap' = StoppedHeap
      /\ sleep_heap' = sleep_heap /\ current_response' = current_response
    BY TimerFrame
<1>7. RearmOK'
    BY <1>0, <1>6 DEF RearmOK, Rearming, TypeOK
<1>8. RequestsOK' /\ TableOK' /\ RecordOK'
  <2>1. \A s \in Slots : Parked(s)' <=> Parked(s)
      BY <1>2 DEF Parked, InLoop
  <2>3. \A e \in Senders, c \in Conds : FiredAt(e, c) => FiredAt(e, c)'
      BY <1>0 DEF FiredAt, TypeOK
  <2>4. StoppedHeap \subseteq TimerRequest
      BY StoppedIsHeap DEF Heap
  <2> QED BY <1>0, <1>1, <1>6, <2>1, <2>3, <2>4, RecordFrame
<1>9. RecalcsOK'
    BY <1>0, <1>2, RecalcFrame
<1> QED BY <1>1, <1>3, <1>4, <1>5, <1>6, <1>7, <1>8, <1>9

\* The clock changes nothing that the invariant looks at.
LEMMA TickInv ==
    ASSUME IInv, Tick
    PROVE  IInv'
<1>1. /\ now' \in Nat /\ now <= now' /\ handling' \in BOOLEAN
      /\ answered' \subseteq [thread : Threads, value : Nat]
    BY DEF Tick, IInv, TypeOK
<1> QED BY <1>1, QuietInv DEF Tick

\* Handlers that only end.
LEMMA ElapsedInv ==
    ASSUME IInv, ElapsedMs \/ IgnoreTerminated
    PROVE  IInv'
<1>1. /\ now' \in Nat /\ now <= now' /\ handling' = FALSE /\ handling /\ msg_opt' = msg_opt
      /\ answered' \subseteq [thread : Threads, value : Nat]
      /\ UNCHANGED <<kernelVars, timerVars, condVars, LAST_RESPONDER, suspend, panicked>>
    BY DEF ElapsedMs, IgnoreTerminated, Handling, Done, IInv, TypeOK
<1>2. /\ msg_opt.op # "RecalculateSleep"
      /\ msg_opt.blocking => msg_opt.op \notin TimedOps
    BY DEF ElapsedMs, IgnoreTerminated, Handling, TimedOps
<1> QED BY <1>1, <1>2, QuietInv

\* The entries that reply_and_receive_next answers.
Replied == IF msg_opt # Nothing /\ msg_opt.blocking THEN {msg_opt.slot} ELSE {}
\* The value that it answers with.
ReplyValue == IF msg_opt = Nothing THEN 0 ELSE msg_opt.arg

\* The oldest message leaves the queue, and the message of the loop is answered.
LEMMA ReplyInv ==
    ASSUME IInv, reply_and_receive_next
    PROVE  IInv'
<1> USE DEF IInv
<1> DEFINE R == Replied
<1>0. /\ ~handling /\ calls' = Resumed(R) /\ answered' = Answers(R, ReplyValue)
      /\ panicked' = panicked \/ panicked' = "reply"
      /\ UNCHANGED <<now, left, timerVars, condVars, LAST_RESPONDER, suspend>>
    BY DEF reply_and_receive_next, Replied, ReplyValue
<1>1. /\ R \in SUBSET Slots
      /\ \A s \in Slots : s \in R <=> InLoop(s)
      /\ \A s \in R : Waiting(s)
    BY MessageTypes DEF Replied, InLoop, LoopOK
<1>2. ReplyValue \in Nat
    BY MessageTypes DEF ReplyValue
<1>3. /\ inbox = <<>> => /\ msg_opt' = Nothing /\ entries' = Released(R)
                         /\ inbox' = inbox /\ handling' = handling
      /\ inbox # <<>> => /\ msg_opt' = Head(inbox) /\ inbox' = Tail(inbox) /\ handling' = TRUE
                         /\ entries' = IF Head(inbox).blocking THEN Released(R)
                                       ELSE [Released(R) EXCEPT ![Head(inbox).slot] = Free]
    BY DEF reply_and_receive_next, Replied
<1> HIDE DEF R
<1>4. /\ TimerOK' /\ StoppedHeap' = StoppedHeap
      /\ sleep_heap' = sleep_heap /\ current_response' = current_response
    BY <1>0, TimerFrame
<1>5. /\ calls' \in [Threads -> Call] /\ answered' \subseteq [thread : Threads, value : Nat]
      /\ Released(R) \in [Slots -> Threads \cup {Unblocked, Free}]
      /\ panicked' \in {"no", "assert", "reply"}
    BY <1>0, <1>2, ResumedIs, ReleasedIs, AnswersIs DEF TypeOK
<1>6. \A s \in Slots : entries[s] \in Threads /\ s \notin R =>
          Released(R)[s] = entries[s] /\ calls'[entries[s]] = calls[entries[s]]
    BY <1>0, <1>1, ReleaseFrame
<1>7. \A s \in Slots : Released(R)[s] \in Threads =>
          entries[s] \in Threads /\ s \notin R /\ Released(R)[s] = entries[s]
    BY <1>1, ReleaseFrame
<1>8. /\ \A r, s \in Slots : Released(R)[r] \in Threads /\ Released(R)[r] = Released(R)[s] => r = s
      /\ \A s \in Slots : Released(R)[s] \in Threads => calls'[Released(R)[s]] # Idle
      /\ \A t, u \in Threads : ProcessOf[t] = ProcessOf[u] /\ calls'[t] = Gone => calls'[u] = Gone
      /\ \A s \in Slots : s \notin R => Released(R)[s] = entries[s]
    BY <1>0, <1>1, ReleaseFrame DEF EntriesOK
<1>9. StoppedHeap \subseteq TimerRequest
    BY StoppedIsHeap DEF Heap
<1>A. CASE inbox = <<>>
  <2>0. /\ msg_opt' = Nothing /\ entries' = Released(R) /\ inbox' = <<>> /\ handling' = FALSE
        /\ DOMAIN inbox = {} /\ DOMAIN inbox' = {}
    <3>1. msg_opt' = Nothing /\ entries' = Released(R) /\ inbox' = inbox /\ handling' = handling
        BY <1>3, <1>A
    <3>2. handling' = FALSE
        BY <1>0, <3>1 DEF TypeOK
    <3>3. DOMAIN inbox = {}
        BY <1>A
    <3> QED BY <1>A, <3>1, <3>2, <3>3
  <2>1. TypeOK'
    <3>1. inbox' \in Seq(Message)
        BY <1>A, <2>0 DEF TypeOK
    <3>2. msg_opt' \in Message \cup {Nothing} /\ handling' \in BOOLEAN
        BY <2>0
    <3>3. entries' \in [Slots -> Threads \cup {Unblocked, Free}]
        BY <1>5, <2>0
    <3> QED BY <1>0, <1>5, <3>1, <3>2, <3>3 DEF TypeOK, timerVars, condVars
  <2>2. EntriesOK'
      BY <1>8, <2>0 DEF EntriesOK
  <2>3. InboxOK' /\ LoopOK' /\ RecalcsOK'
      BY <2>0 DEF InboxOK, LoopOK, RecalcsOK
  <2>4. RearmOK'
      BY <1>0, <1>4, <2>0 DEF RearmOK, Rearming
  <2>5. \A s \in Slots : Parked(s)' <=> Parked(s)
      BY <1>1, <1>6, <1>7, <2>0 DEF Parked, Waiting, InLoop
  <2>6. \A s \in Slots : Parked(s) => entries'[s] = entries[s] /\ calls'[entries[s]] = calls[entries[s]]
      BY <1>1, <1>6, <2>0 DEF Parked, Waiting
  <2>7. \A e \in Senders, c \in Conds : FiredAt(e, c) => FiredAt(e, c)'
      BY <1>0, <2>0 DEF FiredAt
  <2>8. RequestsOK' /\ TableOK' /\ RecordOK'
      BY <1>0, <1>4, <1>9, <2>1, <2>5, <2>6, <2>7, RecordFrame
  <2> QED BY <1>0, <1>4, <2>1, <2>2, <2>3, <2>4, <2>8
<1>B. CASE inbox # <<>>
  <2>0. inbox \in Seq(Message) /\ inbox' = Tail(inbox)
      BY <1>3, <1>B DEF TypeOK
  <2>1. PICK h \in Message : h = Head(inbox) /\ h = inbox[1]
      BY <1>B, <2>0, TailIs
  <2>2. /\ inbox' \in Seq(Message) /\ 1 \in DOMAIN inbox
        /\ \A i \in DOMAIN inbox' : /\ i + 1 \in DOMAIN inbox /\ inbox'[i] = inbox[i + 1]
                                    /\ i \in Nat /\ i + 1 # 1
        /\ \A i \in DOMAIN inbox : i = 1 \/ (/\ i - 1 \in DOMAIN inbox' /\ inbox'[i - 1] = inbox[i]
                                             /\ i \in Nat)
      BY <1>B, <2>0, TailIs
  <2>3. msg_opt' = h /\ handling' = TRUE /\ h # Nothing
    <3>1. msg_opt' = h /\ handling' = TRUE
        BY <1>3, <1>B, <2>1
    <3>2. h # Nothing
        BY Shapes
    <3> QED BY <3>1, <3>2
  <2>4. /\ h.slot \in Slots /\ h.blocking \in BOOLEAN /\ h.slot \notin R /\ QueuedOK(h)
        /\ Released(R)[h.slot] = entries[h.slot]
      BY <1>1, <1>8, <2>1, <2>2 DEF Message, InboxOK, Waiting
  <2>5. /\ \A s \in Slots \ {h.slot} : entries'[s] = Released(R)[s]
        /\ entries'[h.slot] = IF h.blocking THEN entries[h.slot] ELSE Free
        /\ entries' \in [Slots -> Threads \cup {Unblocked, Free}]
      BY <1>3, <1>5, <1>B, <2>1, <2>4
  <2>6. \A i \in DOMAIN inbox' : /\ inbox'[i] \in Message /\ inbox'[i].slot \in Slots
                                 /\ inbox'[i].slot # h.slot /\ inbox'[i].slot \notin R
                                 /\ QueuedOK(inbox'[i])
    <3> TAKE i \in DOMAIN inbox'
    <3>1. i + 1 \in DOMAIN inbox /\ inbox'[i] = inbox[i + 1] /\ i + 1 # 1
        BY <2>2
    <3>2. inbox[i + 1] \in Message /\ inbox[i + 1].slot \in Slots /\ QueuedOK(inbox[i + 1])
        BY <3>1, MessageTypes DEF InboxOK
    <3>3. inbox[i + 1].slot # h.slot
        BY <2>1, <2>2, <3>1 DEF InboxOK
    <3>4. inbox[i + 1].slot \notin R
        BY <1>1, <3>1 DEF Waiting
    <3> QED BY <3>1, <3>2, <3>3, <3>4
  <2>7. TypeOK'
      BY <1>0, <1>5, <2>2, <2>3, <2>5 DEF TypeOK, timerVars, condVars
  <2>8. EntriesOK'
    <3>1. \A s \in Slots : entries'[s] \in Threads => entries'[s] = Released(R)[s]
        BY <2>4, <2>5, Markers
    <3> QED BY <1>8, <3>1 DEF EntriesOK
  <2>t. TypeOK /\ now' \in Nat /\ now <= now'
      BY <1>0 DEF TypeOK
  <2>9. InboxOK'
    <3>1. ASSUME NEW i \in DOMAIN inbox' PROVE QueuedOK(inbox[i])'
      <4>1. PICK x \in Message : x = inbox'[i]
          BY <2>6
      <4>2. x.slot \in Slots /\ x.slot # h.slot /\ x.slot \notin R /\ QueuedOK(x)
          BY <2>6, <4>1
      <4>3. /\ entries'[x.slot] = entries[x.slot]
            /\ entries[x.slot] \in Threads => calls'[entries[x.slot]] = calls[entries[x.slot]]
          BY <1>6, <1>8, <2>5, <4>2
      <4>4. QueuedOK(x)'
          BY <2>t, <4>2, <4>3, QueuedFrame
      <4> QED BY <4>1, <4>4
    <3>2. ASSUME NEW i \in DOMAIN inbox', NEW j \in DOMAIN inbox', inbox'[i].slot = inbox'[j].slot
          PROVE  i = j
      <4>1. i + 1 = j + 1
          BY <2>2, <3>2 DEF InboxOK
      <4> QED BY <2>2, <4>1
    <3> QED BY <3>1, <3>2 DEF InboxOK
  <2>10. \A s \in Slots : s # h.slot => (Waiting(s)' <=> Waiting(s) /\ s \notin R)
    <3> SUFFICES ASSUME NEW s \in Slots, s # h.slot PROVE Waiting(s)' <=> Waiting(s) /\ s \notin R
        OBVIOUS
    <3>1. (\A i \in DOMAIN inbox' : inbox'[i].slot # s) <=> (\A i \in DOMAIN inbox : inbox[i].slot # s)
        BY <2>1, <2>2
    <3>2. entries'[s] \in Threads <=> entries[s] \in Threads /\ s \notin R
        BY <1>6, <1>7, <2>5
    <3> QED BY <3>1, <3>2 DEF Waiting
  <2>11. ~Waiting(h.slot) /\ (Waiting(h.slot)' => h.blocking)
      BY <2>1, <2>2, <2>5, Markers DEF Waiting
  <2>12. LoopOK'
    <3>1. ASSUME h.blocking
          PROVE  /\ h.op \in BlockingOps
                 /\ Waiting(h.slot)' /\ Holder(h.slot)' = h.pid
                 /\ Matches(h, entries[h.slot])'
      <4>1. /\ h.op \in BlockingOps /\ entries[h.slot] \in Threads /\ Holder(h.slot) = h.pid
            /\ Matches(h, entries[h.slot])
          BY <2>4, <3>1 DEF QueuedOK
      <4>2. entries'[h.slot] = entries[h.slot] /\ calls'[entries[h.slot]] = calls[entries[h.slot]]
          BY <1>6, <2>4, <2>5, <3>1, <4>1
      <4>3. Waiting(h.slot)'
          BY <2>6, <4>1, <4>2 DEF Waiting
      <4>4. Holder(h.slot)' = h.pid
          BY <4>1, <4>2 DEF Holder
      <4>5. PICK u \in Threads : u = entries[h.slot] /\ u = entries'[h.slot]
          BY <4>1, <4>2
      <4>6. Matches(h, u)'
          BY <2>t, <4>1, <4>2, <4>5, MatchesFrame
      <4> QED BY <4>1, <4>3, <4>4, <4>5, <4>6
    <3>2. /\ h.op \in BlockingOps \cup {"FreeCondition", "RecalculateSleep"}
          /\ h.op \in {"WaitForCondition", "NotifyCondition", "FreeCondition"} =>
               h.cond \in Conds /\ h.pid \in Processes
          /\ h.op = "RecalculateSleep" => h.about \in Senders
        BY <2>4 DEF QueuedOK
    <3> QED BY <2>3, <3>1, <3>2 DEF LoopOK
  <2>13. RearmOK'
    <3>1. ASSUME Rearming PROVE Rearming'
      <4>1. PICK i \in DOMAIN inbox : inbox[i].op = "RecalculateSleep"
          BY <1>0, <3>1 DEF Rearming
      <4> QED BY <2>1, <2>2, <2>3, <4>1 DEF Rearming
    <3> QED BY <1>4, <3>1 DEF RearmOK
  <2>14. \A s \in Slots : Parked(s)' <=> Parked(s)
    <3> TAKE s \in Slots
    <3>1. CASE s = h.slot
        BY <2>3, <2>11, <3>1 DEF Parked, InLoop
    <3>2. CASE s # h.slot
        BY <1>1, <2>3, <2>10, <3>2 DEF Parked, InLoop
    <3> QED BY <3>1, <3>2
  <2>15. \A s \in Slots : Parked(s) => entries'[s] = entries[s] /\ calls'[entries[s]] = calls[entries[s]]
      BY <1>1, <1>6, <2>5, <2>11 DEF Parked, Waiting
  <2>16. \A e \in Senders, c \in Conds : FiredAt(e, c) => FiredAt(e, c)'
    <3> SUFFICES ASSUME NEW e \in Senders, NEW c \in Conds, FiredAt(e, c) PROVE FiredAt(e, c)'
        OBVIOUS
    <3>1. PICK i \in DOMAIN inbox : /\ inbox[i].op = "RecalculateSleep"
                                    /\ inbox[i].about = e /\ inbox[i].cond = c
        BY <1>0 DEF FiredAt
    <3> QED BY <2>1, <2>2, <2>3, <3>1 DEF FiredAt
  <2>17. RequestsOK' /\ TableOK' /\ RecordOK'
      BY <1>0, <1>4, <1>9, <2>7, <2>14, <2>15, <2>16, RecordFrame
  <2>18. RecalcsOK'
    <3>0. UNCHANGED <<notify_table, notifications_with_timeouts>>
        BY <1>0 DEF condVars
    <3>1. ASSUME NEW x \in Message, x.about \in Senders, RecalcOK(x), x.about[1] # h.slot \/ ~h.blocking
          PROVE  RecalcOK(x)'
      <4>1. x.about[1] \in Slots
          BY <3>1 DEF Senders
      <4>2. ~Waiting(x.about[1])'
          BY <2>10, <2>11, <3>1, <4>1 DEF RecalcOK
      <4> QED BY <3>0, <3>1, <4>2 DEF RecalcOK, InTable
    <3>2. ASSUME NEW i \in DOMAIN inbox', inbox'[i].op = "RecalculateSleep"
          PROVE  /\ RecalcOK(inbox[i])'
                 /\ \A j \in DOMAIN inbox' : inbox'[j].slot = inbox'[i].about[1] => i <= j
      <4>1. i \in Nat /\ i + 1 \in DOMAIN inbox /\ inbox'[i] = inbox[i + 1] /\ i + 1 # 1
          BY <2>2
      <4>2. PICK x \in Message : x = inbox'[i] /\ x = inbox[i + 1]
          BY <2>6, <4>1
      <4>3. x.about \in Senders
          BY <2>6, <3>2, <4>2 DEF QueuedOK
      <4>4. RecalcOK(x) /\ \A j \in DOMAIN inbox : inbox[j].slot = x.about[1] => i + 1 <= j
          BY <3>2, <4>1, <4>2 DEF RecalcsOK
      <4>5. x.about[1] # h.slot
        <5>1. CASE h.slot = x.about[1]
          <6>1. i + 1 <= 1
              BY <2>1, <2>2, <4>4, <5>1
          <6>2. i \in DOMAIN inbox' => i >= 1
              BY <2>2
          <6> QED BY <4>1, <6>1, <6>2
        <5> QED BY <5>1
      <4>6. \A j \in DOMAIN inbox' : inbox'[j].slot = x.about[1] => i <= j
        <5> TAKE j \in DOMAIN inbox'
        <5>1. j \in Nat /\ j + 1 \in DOMAIN inbox /\ inbox'[j] = inbox[j + 1]
            BY <2>2
        <5> QED BY <4>1, <4>4, <5>1
      <4> QED BY <3>1, <4>2, <4>3, <4>4, <4>5, <4>6
    <3>3. ASSUME h.op = "RecalculateSleep" PROVE RecalcOK(h)'
      <4>1. h.about \in Senders /\ RecalcOK(h) /\ ~h.blocking
          BY <2>1, <2>2, <2>4, <3>3 DEF QueuedOK, RecalcsOK, BlockingOps
      <4> QED BY <3>1, <4>1
    <3> QED BY <2>3, <3>2, <3>3 DEF RecalcsOK
  <2> QED BY <1>0, <1>4, <2>7, <2>8, <2>9, <2>12, <2>13, <2>17, <2>18
<1> QED BY <1>A, <1>B

-----------------------------------------------------------------------------
(* Senders on record *)

\* A sender is an entry with a process.
LEMMA SenderIs ==
    /\ \A e \in Senders : e[1] \in Slots /\ e[2] \in Processes /\ e = <<e[1], e[2]>>
    /\ \A s \in Slots, p \in Processes : <<s, p>> \in Senders /\ <<s, p>>[1] = s /\ <<s, p>>[2] = p
    /\ \A e, d \in Senders : e[1] = d[1] /\ e[2] = d[2] => e = d
    BY DEF Senders

\* What the table says of a sender in it, and what a message about a time-out says.
LEMMA OnRecord ==
    ASSUME IInv
    PROVE  /\ \A e \in Senders, c \in Conds : InTable(e, c) => WaiterOK(e, c)
           /\ \A e \in Senders : \A c : FiredAt(e, c) => ~Waiting(e[1])
           /\ \A e \in Senders : Live(e) => Waiting(e[1]) /\ entries[e[1]] \in Threads
           /\ \A r \in StoppedHeap : /\ r \in TimerRequest /\ r.sender \in Senders /\ RequestOK(r)
                                     /\ Live(r.sender) /\ r.msec \in Nat
           /\ \A e \in notifications_with_timeouts :
                e \in Senders /\ \E c \in Conds : InTable(e, c)
<1> USE DEF IInv
<1>1. ASSUME NEW e \in Senders, NEW c \in Conds, InTable(e, c) PROVE WaiterOK(e, c)
  <2>1. PICK i \in DOMAIN notify_table[<<e[2], c>>] : notify_table[<<e[2], c>>][i] = e
      BY <1>1 DEF InTable
  <2>2. e[2] \in Processes
      BY SenderIs
  <2> QED BY <2>1, <2>2 DEF TableOK
<1>2. \A e \in Senders : \A c : FiredAt(e, c) => ~Waiting(e[1])
    BY DEF FiredAt, RecalcsOK, RecalcOK
<1>3. \A e \in Senders : Live(e) => Waiting(e[1]) /\ entries[e[1]] \in Threads
    BY DEF Live, Parked, Waiting
<1>4. \A r \in StoppedHeap : /\ r \in TimerRequest /\ r.sender \in Senders /\ RequestOK(r)
                             /\ Live(r.sender) /\ r.msec \in Nat
  <2> TAKE r \in StoppedHeap
  <2>1. r \in TimerRequest
      BY StoppedIsHeap DEF Heap
  <2>2. RequestOK(r)
      BY DEF RequestsOK
  <2> QED BY <2>1, <2>2 DEF TimerRequest, RequestOK
<1>5. \A e \in notifications_with_timeouts : e \in Senders /\ \E c \in Conds : InTable(e, c)
    BY DEF TypeOK, TableOK
<1> QED BY <1>1, <1>2, <1>3, <1>4, <1>5

\* The senders in the table.
LEMMA TableEntries ==
    ASSUME TypeOK, TableOK, NEW p \in Processes, NEW c \in Conds, NEW i \in DOMAIN notify_table[<<p, c>>]
    PROVE  \E e \in Senders : e = notify_table[<<p, c>>][i] /\ e[2] = p /\ WaiterOK(e, c)
<1>1. notify_table[<<p, c>>][i] \in Senders
    BY DEF TypeOK
<1>2. notify_table[<<p, c>>][i][2] = p /\ WaiterOK(notify_table[<<p, c>>][i], c)
    BY DEF TableOK
<1> QED BY <1>1, <1>2

\* What is common to the handlers that let their message wait for an event.
LEMMA ParkCommon ==
    ASSUME IInv, handling, msg_opt.blocking, msg_opt.op \in TimedOps,
           msg_opt' = Nothing, handling' = FALSE, UNCHANGED <<now, kernelVars>>
    PROVE  /\ msg_opt \in Message /\ msg_opt.slot \in Slots /\ msg_opt.pid \in Processes
           /\ msg_opt.arg \in Nat
           /\ Sender(msg_opt) \in Senders
           /\ Sender(msg_opt)[1] = msg_opt.slot /\ Sender(msg_opt)[2] = msg_opt.pid
           /\ Waiting(msg_opt.slot) /\ Holder(msg_opt.slot) = msg_opt.pid
           /\ entries[msg_opt.slot] \in Threads /\ Matches(msg_opt, entries[msg_opt.slot])
           /\ UNCHANGED <<inbox, entries, calls, left>>
           /\ EntriesOK' /\ InboxOK' /\ LoopOK'
           /\ \A s : Waiting(s)' <=> Waiting(s)
           /\ \A s \in Slots : Parked(s)' <=> Parked(s) \/ s = msg_opt.slot
           /\ \A e \in Senders : Live(e)' <=> Live(e) \/ e = Sender(msg_opt)
           /\ \A e \in Senders : \A c : FiredAt(e, c)' <=> FiredAt(e, c)
           /\ ~Live(Sender(msg_opt)) /\ ~HasRequest(Sender(msg_opt))
           /\ Sender(msg_opt) \notin notifications_with_timeouts
           /\ \A c \in Conds : ~InTable(Sender(msg_opt), c)
<1> USE DEF IInv
<1>1. PICK x \in Message : x = msg_opt
    BY MessageTypes DEF LoopOK
<1>2. /\ x.slot \in Slots /\ x.arg \in Nat /\ Waiting(x.slot) /\ Holder(x.slot) = x.pid
      /\ Matches(x, entries[x.slot]) /\ x.blocking /\ x.op \in TimedOps /\ msg_opt # Nothing
    BY <1>1, MessageTypes DEF LoopOK
<1>3. entries[x.slot] \in Threads /\ x.pid \in Processes
    BY <1>2, TicktimerAssumption DEF Waiting, Holder
<1>4. PICK e0 \in Senders : e0 = Sender(msg_opt) /\ e0 = <<x.slot, x.pid>> /\ e0[1] = x.slot /\ e0[2] = x.pid
  <2>1. /\ <<x.slot, x.pid>> \in Senders
        /\ <<x.slot, x.pid>>[1] = x.slot /\ <<x.slot, x.pid>>[2] = x.pid
      BY <1>2, <1>3, SenderIs
  <2>2. Sender(msg_opt) = <<x.slot, x.pid>>
      BY <1>1 DEF Sender
  <2> QED BY <2>1, <2>2
<1>5. UNCHANGED <<inbox, entries, calls, left>>
    BY DEF kernelVars
<1>6. \A s : Waiting(s)' <=> Waiting(s)
    BY <1>5 DEF Waiting
<1>7. EntriesOK'
    BY <1>5 DEF EntriesOK
<1>8. InboxOK'
  <2>1. now' \in Nat /\ now <= now'
      BY DEF TypeOK
  <2> QED BY <1>5, <2>1, InboxFrame
<1>9. LoopOK'
    BY DEF LoopOK
<1>10. \A s \in Slots : (Parked(s)' <=> Parked(s) \/ s = x.slot) /\ ~Parked(x.slot)
    BY <1>1, <1>2, <1>6 DEF Parked, InLoop
<1>11. ~Live(e0)
    BY <1>4, <1>2, <1>10 DEF Live
<1>12. \A e \in Senders : Live(e)' <=> Live(e) \/ e = e0
  <2> TAKE e \in Senders
  <2>1. Holder(e[1])' = Holder(e[1]) /\ e[1] \in Slots
      BY <1>5, SenderIs DEF Holder
  <2>2. e = e0 <=> e[1] = x.slot /\ e[2] = x.pid
      BY <1>4, SenderIs
  <2> QED BY <1>2, <1>10, <2>1, <2>2 DEF Live
<1>13. \A e \in Senders : \A c : FiredAt(e, c)' <=> FiredAt(e, c)
    BY <1>1, <1>2, <1>5 DEF FiredAt, TimedOps
<1>14. ~HasRequest(e0)
    BY <1>11, OnRecord DEF HasRequest
<1>15. \A c \in Conds : ~InTable(e0, c)
    BY <1>2, <1>4, <1>11, OnRecord DEF WaiterOK
<1>16. e0 \notin notifications_with_timeouts
    BY <1>15, OnRecord
<1> QED BY <1>1, <1>2, <1>3, <1>4, <1>5, <1>6, <1>7, <1>8, <1>9, <1>10, <1>11, <1>12, <1>13,
           <1>14, <1>15, <1>16

\* A heap stays one when a request for a time of its own is added.
LEMMA AddedHeap ==
    ASSUME NEW H, Heap(H), NEW r \in TimerRequest, \A q \in H : q.msec # r.msec
    PROVE  Heap(H \cup {r})
<1>1. IsFiniteSet(H \cup {r})
    BY FS_AddElement DEF Heap
<1> QED BY <1>1 DEF Heap

\* stop_sleep finds no request that it would overwrite.
LEMMA StopSleepHolds ==
    ASSUME TypeOK, TimerOK
    PROVE  StopSleepAsserts
<1>1. ASSUME current_response # Nothing, current_response.msec \in Keys(sleep_heap) PROVE FALSE
  <2>1. PICK r \in sleep_heap : r.msec = current_response.msec
      BY <1>1 DEF Keys
  <2>2. current_response.msec < r.msec /\ r.msec \in Nat
      BY <1>1, <2>1 DEF TimerOK, TypeOK, TimerRequest
  <2> QED BY <2>1, <2>2
<1> QED BY <1>1 DEF StopSleepAsserts

\* sleep_ms: the sender is on record in the heap.
LEMMA SleepInv ==
    ASSUME IInv, SleepMs
    PROVE  IInv' /\ panicked' = "no"
<1> USE DEF IInv
<1>e. PICK e0 : e0 = Sender(msg_opt)
    OBVIOUS
<1> DEFINE request == [msec |-> msg_opt.arg, sender |-> e0, kind |-> "Sleep", data |-> None]
<1>0. /\ handling /\ msg_opt.blocking /\ msg_opt.op = "SleepMs" /\ msg_opt.op \in TimedOps
      /\ msg_opt' = Nothing /\ handling' = FALSE /\ answered' = {}
      /\ UNCHANGED <<now, kernelVars, condVars, LAST_RESPONDER, suspend>>
    BY DEF SleepMs, Handling, Done, TimedOps
<1>1. StartSleep(Inserted(StoppedHeap, request)) /\ Asserts(StopSleepAsserts)
    BY <1>e DEF SleepMs
<1>2. /\ msg_opt \in Message /\ msg_opt.slot \in Slots /\ msg_opt.arg \in Nat /\ e0 \in Senders
      /\ e0[1] = msg_opt.slot /\ e0[2] = msg_opt.pid
      /\ Waiting(msg_opt.slot) /\ Holder(msg_opt.slot) = msg_opt.pid
      /\ entries[msg_opt.slot] \in Threads /\ Matches(msg_opt, entries[msg_opt.slot])
      /\ UNCHANGED <<inbox, entries, calls, left>>
    BY <1>0, <1>e, ParkCommon
<1>3. /\ EntriesOK' /\ InboxOK' /\ LoopOK'
      /\ \A s : Waiting(s)' <=> Waiting(s)
      /\ \A s \in Slots : Parked(s)' <=> Parked(s) \/ s = msg_opt.slot
      /\ \A e \in Senders : Live(e)' <=> Live(e) \/ e = e0
      /\ \A e \in Senders : \A c : FiredAt(e, c)' <=> FiredAt(e, c)
      /\ ~Live(e0) /\ ~HasRequest(e0)
      /\ e0 \notin notifications_with_timeouts
    BY <1>0, <1>e, ParkCommon
<1>4. request \in TimerRequest
    BY <1>2 DEF TimerRequest
<1>5. now \in Nat /\ Heap(StoppedHeap)
    BY StoppedIsHeap DEF TypeOK
<1>6. PICK r \in TimerRequest :
         /\ Inserted(StoppedHeap, request) = StoppedHeap \cup {r}
         /\ r.sender = e0 /\ r.kind = "Sleep"
         /\ msg_opt.arg + now <= r.msec /\ \A q \in StoppedHeap : q.msec # r.msec
    BY <1>4, <1>5, InsertedEffect
<1> HIDE DEF request
<1>7. Heap(StoppedHeap \cup {r}) /\ StartSleep(StoppedHeap \cup {r})
    BY <1>1, <1>5, <1>6, AddedHeap
<1>8. /\ StoppedHeap' = StoppedHeap \cup {r} /\ TimerOK'
      /\ sleep_heap' # {} => current_response' # Nothing
      /\ current_response' \in TimerRequest \cup {Nothing}
      /\ sleep_heap' \subseteq TimerRequest
      /\ alarm' \in [enabled : BOOLEAN, target : Nat]
    BY <1>7, StartSleepEffect
<1>9. panicked' = "no"
    BY <1>1, StopSleepHolds DEF Asserts
<1>10. TypeOK'
    BY <1>0, <1>2, <1>8, <1>9 DEF TypeOK, condVars
<1>11. RearmOK'
    BY <1>8 DEF RearmOK
<1>12. UNCHANGED <<notify_table, notifications_with_timeouts>>
    BY <1>0 DEF condVars
<1>13. \A e, c : InTable(e, c)' <=> InTable(e, c)
    BY <1>12 DEF InTable
<1>14. /\ \A e \in Senders : HasRequest(e)' <=> HasRequest(e) \/ e = e0
       /\ HasRequest(e0)'
    BY <1>6, <1>8 DEF HasRequest
<1>15. RequestsOK'
  <2>1. ASSUME NEW q \in StoppedHeap PROVE RequestOK(q)'
    <3>1. RequestOK(q) /\ q.sender \in Senders
        BY OnRecord
    <3> QED BY <1>2, <1>3, <1>12, <1>13, <3>1 DEF RequestOK
  <2>2. RequestOK(r)'
    <3>1. /\ Live(e0)' /\ e0 \notin notifications_with_timeouts'
        BY <1>2, <1>3, <1>12
    <3>2. ASSUME calls[entries[e0[1]]] # Gone
          PROVE  calls[entries[e0[1]]].op = "SleepMs" /\ calls[entries[e0[1]]].due <= r.msec
      <4>1. /\ calls[entries[e0[1]]] \in Call /\ calls[entries[e0[1]]].op = "SleepMs"
            /\ calls[entries[e0[1]]].due <= now + msg_opt.arg
          BY <1>0, <1>2, <3>2 DEF Matches, TypeOK
      <4>2. calls[entries[e0[1]]].due \in Nat
          BY <4>1, Shapes DEF CallRecord, Opcodes
      <4>3. r.msec \in Nat
          BY DEF TimerRequest
      <4> QED BY <1>2, <1>5, <1>6, <4>1, <4>2, <4>3
    <3> QED BY <1>2, <1>6, <3>1, <3>2 DEF RequestOK
  <2>3. ASSUME NEW q \in StoppedHeap', NEW d \in StoppedHeap', q.sender = d.sender PROVE q = d
    <3>1. \A g \in StoppedHeap : g.sender # e0
        BY <1>3 DEF HasRequest
    <3> QED BY <1>6, <1>8, <2>3, <3>1 DEF RequestsOK
  <2> QED BY <1>8, <2>1, <2>2, <2>3 DEF RequestsOK
<1>16. TableOK'
  <2>1. ASSUME NEW e \in Senders, NEW c \in Conds, WaiterOK(e, c) PROVE WaiterOK(e, c)'
    <3>1. CASE e \in notifications_with_timeouts /\ FiredAt(e, c)
        BY <1>3, <1>12, <3>1 DEF WaiterOK
    <3>2. CASE Live(e)
      <4>1. e # e0
          BY <1>3, <3>2
      <4>2. ~FiredAt(e, c)
          BY <3>2, OnRecord
      <4> QED BY <1>2, <1>3, <1>12, <1>14, <2>1, <3>2, <4>1, <4>2 DEF WaiterOK
    <3> QED BY <2>1, <3>1, <3>2 DEF WaiterOK
  <2>2. ASSUME NEW p \in Processes, NEW c \in Conds, NEW i \in DOMAIN notify_table[<<p, c>>]
        PROVE  notify_table[<<p, c>>][i][2] = p /\ WaiterOK(notify_table[<<p, c>>][i], c)'
    <3>1. PICK e \in Senders : e = notify_table[<<p, c>>][i] /\ e[2] = p /\ WaiterOK(e, c)
        BY TableEntries
    <3> QED BY <1>12, <2>1, <3>1
  <2> QED BY <1>12, <1>13, <2>2 DEF TableOK
<1>17. RecalcsOK'
    BY <1>0, <1>2, <1>3, RecalcFrame
<1>18. RecordOK'
  <2> SUFFICES ASSUME NEW s \in Slots, Parked(s)', calls'[entries'[s]] # Gone
               PROVE  /\ calls'[entries'[s]].op = "SleepMs" => HasRequest(<<s, Holder(s)>>)'
                      /\ calls'[entries'[s]].op = "WaitForCondition" =>
                            /\ calls'[entries'[s]].cond \in Conds
                            /\ InTable(<<s, Holder(s)>>, calls[entries[s]].cond)'
      BY DEF RecordOK
  <2>1. entries[s] \in Threads
      BY <1>2, <1>3 DEF Parked, Waiting
  <2>2. PICK e \in Senders : e = <<s, Holder(s)>>
      BY <2>1, TicktimerAssumption DEF Holder, Senders
  <2>3. e = <<s, Holder(s)>>'
      BY <1>2, <2>2 DEF Holder
  <2>4. CASE s = msg_opt.slot
    <3>1. e = e0
        BY <1>2, <2>2, <2>4, SenderIs
    <3>2. calls[entries[s]].op = "SleepMs"
        BY <1>0, <1>2, <2>4 DEF Matches
    <3> QED BY <1>2, <1>14, <2>3, <3>1, <3>2
  <2>5. CASE Parked(s)
      BY <1>2, <1>13, <1>14, <2>2, <2>3, <2>5 DEF RecordOK
  <2> QED BY <1>3, <2>4, <2>5
<1> QED BY <1>0, <1>3, <1>8, <1>9, <1>10, <1>11, <1>15, <1>16, <1>17, <1>18

\* What Append adds to the table.
LEMMA TableAppend ==
    ASSUME TypeOK, NEW e0 \in Senders, NEW c0 \in Conds,
           notify_table' = [notify_table EXCEPT ![<<e0[2], c0>>] = Append(@, e0)]
    PROVE  /\ notify_table' \in [Processes \X Conds -> Seq(Senders)]
           /\ \A p \in Processes, c \in Conds :
                \/ notify_table'[<<p, c>>] = notify_table[<<p, c>>]
                \/ p = e0[2] /\ c = c0 /\ notify_table'[<<p, c>>] = Append(notify_table[<<p, c>>], e0)
           /\ notify_table'[<<e0[2], c0>>] = Append(notify_table[<<e0[2], c0>>], e0)
           /\ \A e \in Senders, c \in Conds : InTable(e, c)' <=> InTable(e, c) \/ (e = e0 /\ c = c0)
<1> DEFINE a == notify_table[<<e0[2], c0>>]
<1>0. e0[2] \in Processes
    BY SenderIs
<1>1. a \in Seq(Senders)
    BY <1>0 DEF TypeOK
<1>2. Append(a, e0) \in Seq(Senders)
    BY <1>1, AppendIs
<1>3. notify_table'[<<e0[2], c0>>] = Append(a, e0)
    BY <1>0 DEF TypeOK
<1>4. \A p \in Processes, c \in Conds :
         p # e0[2] \/ c # c0 => notify_table'[<<p, c>>] = notify_table[<<p, c>>]
    BY <1>0 DEF TypeOK
<1>5. notify_table' \in [Processes \X Conds -> Seq(Senders)]
    BY <1>0, <1>2 DEF TypeOK
<1>6. ASSUME NEW e \in Senders, NEW c \in Conds
      PROVE  InTable(e, c)' <=> InTable(e, c) \/ (e = e0 /\ c = c0)
  <2>1. e[2] \in Processes
      BY SenderIs
  <2>2. CASE e[2] = e0[2] /\ c = c0
    <3>1. InTable(e, c)' <=> \E i \in DOMAIN Append(a, e0) : Append(a, e0)[i] = e
        BY <1>3, <2>2 DEF InTable
    <3>2. InTable(e, c) <=> \E i \in DOMAIN a : a[i] = e
        BY <2>2 DEF InTable
    <3>3. /\ \A i \in DOMAIN a : i \in DOMAIN Append(a, e0) /\ Append(a, e0)[i] = a[i]
          /\ Len(a) + 1 \in DOMAIN Append(a, e0) /\ Append(a, e0)[Len(a) + 1] = e0
          /\ \A i \in DOMAIN Append(a, e0) : i \in DOMAIN a \/ i = Len(a) + 1
        BY <1>1, AppendIs
    <3> HIDE DEF a
    <3> QED BY <2>2, <3>1, <3>2, <3>3
  <2>3. CASE ~(e[2] = e0[2] /\ c = c0)
      BY <1>4, <2>1, <2>3 DEF InTable
  <2> QED BY <2>2, <2>3
<1> QED BY <1>3, <1>4, <1>5, <1>6

\* A sender that is new to a place is there once.
LEMMA AppendNoRepeats ==
    ASSUME NEW T, NEW a \in Seq(T), NEW x \in T, NoRepeats(a), \A i \in DOMAIN a : a[i] # x
    PROVE  NoRepeats(Append(a, x))
<1>1. /\ \A i \in DOMAIN a : i \in DOMAIN Append(a, x) /\ Append(a, x)[i] = a[i]
      /\ Len(a) + 1 \in DOMAIN Append(a, x) /\ Append(a, x)[Len(a) + 1] = x
      /\ \A i \in DOMAIN Append(a, x) : i \in DOMAIN a \/ i = Len(a) + 1
    BY AppendIs
<1>2. PICK b : b = Append(a, x)
    OBVIOUS
<1> QED BY <1>1 DEF NoRepeats

\* wait_condition: the sender is on record in the table, and in the heap if it has a time-out.
LEMMA WaitInv ==
    ASSUME IInv, WaitForCondition
    PROVE  /\ IInv' /\ panicked' = "no"
           /\ \A e \in Senders, c \in Conds :
                InTable(e, c)' <=> InTable(e, c) \/ (e = Sender(msg_opt) /\ c = msg_opt.cond)
<1> USE DEF IInv
<1>e. PICK e0, c0 : e0 = Sender(msg_opt) /\ c0 = msg_opt.cond
    OBVIOUS
<1> DEFINE request == [msec |-> msg_opt.arg, sender |-> e0, kind |-> "Timeout", data |-> c0]
           timed == msg_opt.arg # 0
<1>0. /\ handling /\ msg_opt.blocking /\ msg_opt.op = "WaitForCondition" /\ msg_opt.op \in TimedOps
      /\ msg_opt' = Nothing /\ handling' = FALSE /\ answered' = {} /\ panicked = "no"
      /\ UNCHANGED <<now, kernelVars, LAST_RESPONDER, suspend>>
      /\ c0 \in Conds
    BY <1>e DEF WaitForCondition, Handling, Done, TimedOps, Panicked, LoopOK
<1>2. /\ msg_opt \in Message /\ msg_opt.slot \in Slots /\ msg_opt.arg \in Nat /\ e0 \in Senders
      /\ e0[1] = msg_opt.slot /\ e0[2] = msg_opt.pid
      /\ Waiting(msg_opt.slot) /\ Holder(msg_opt.slot) = msg_opt.pid
      /\ entries[msg_opt.slot] \in Threads /\ Matches(msg_opt, entries[msg_opt.slot])
      /\ UNCHANGED <<inbox, entries, calls, left>>
    BY <1>0, <1>e, ParkCommon
<1>1. /\ timed => /\ notifications_with_timeouts' = notifications_with_timeouts \cup {e0}
                  /\ StartSleep(Inserted(StoppedHeap, request)) /\ Asserts(StopSleepAsserts)
      /\ ~timed => UNCHANGED <<notifications_with_timeouts, timerVars, panicked>>
      /\ notify_table' = [notify_table EXCEPT ![<<e0[2], c0>>] = Append(@, e0)]
    BY <1>e, <1>2 DEF WaitForCondition
<1>3. /\ EntriesOK' /\ InboxOK' /\ LoopOK'
      /\ \A s : Waiting(s)' <=> Waiting(s)
      /\ \A s \in Slots : Parked(s)' <=> Parked(s) \/ s = msg_opt.slot
      /\ \A e \in Senders : Live(e)' <=> Live(e) \/ e = e0
      /\ \A e \in Senders : \A c : FiredAt(e, c)' <=> FiredAt(e, c)
      /\ ~Live(e0) /\ ~HasRequest(e0)
      /\ e0 \notin notifications_with_timeouts
      /\ \A c \in Conds : ~InTable(e0, c)
    BY <1>0, <1>e, ParkCommon
<1>4. request \in TimerRequest
    BY <1>0, <1>2 DEF TimerRequest
<1>5. now \in Nat /\ Heap(StoppedHeap)
    BY StoppedIsHeap DEF TypeOK
<1>6. \E G : /\ StoppedHeap' = StoppedHeap \cup G
             /\ timed <=> G # {}
             /\ \A r \in G : /\ G = {r} /\ r \in TimerRequest
                             /\ r.sender = e0 /\ r.kind = "Timeout" /\ r.data = c0
                             /\ msg_opt.arg + now <= r.msec
             /\ TimerOK' /\ RearmOK'
             /\ current_response' \in TimerRequest \cup {Nothing}
             /\ sleep_heap' \subseteq TimerRequest
             /\ alarm' \in [enabled : BOOLEAN, target : Nat]
             /\ panicked' = "no"
  <2>1. CASE timed
    <3>1. PICK r \in TimerRequest :
             /\ Inserted(StoppedHeap, request) = StoppedHeap \cup {r}
             /\ r.sender = e0 /\ r.kind = "Timeout" /\ r.data = c0
             /\ msg_opt.arg + now <= r.msec /\ \A q \in StoppedHeap : q.msec # r.msec
        BY <1>4, <1>5, InsertedEffect
    <3> HIDE DEF request
    <3>2. Heap(StoppedHeap \cup {r}) /\ StartSleep(StoppedHeap \cup {r})
        BY <1>1, <1>5, <2>1, <3>1, AddedHeap
    <3>3. /\ StoppedHeap' = StoppedHeap \cup {r} /\ TimerOK'
          /\ sleep_heap' # {} => current_response' # Nothing
          /\ current_response' \in TimerRequest \cup {Nothing}
          /\ sleep_heap' \subseteq TimerRequest
          /\ alarm' \in [enabled : BOOLEAN, target : Nat]
        BY <3>2, StartSleepEffect
    <3>4. panicked' = "no"
        BY <1>1, <2>1, StopSleepHolds DEF Asserts
    <3>5. RearmOK'
        BY <3>3 DEF RearmOK
    <3>6. {r} # {} /\ \A q \in {r} : q = r
        OBVIOUS
    <3>7. \A q \in {r} : /\ {r} = {q} /\ q \in TimerRequest
                          /\ q.sender = e0 /\ q.kind = "Timeout" /\ q.data = c0
                          /\ msg_opt.arg + now <= q.msec
        BY <3>1
    <3> HIDE DEF timed
    <3> QED BY <2>1, <3>3, <3>4, <3>5, <3>6, <3>7, ZenonT(30)
  <2>2. CASE ~timed
    <3>1. UNCHANGED timerVars /\ panicked' = "no"
        BY <1>0, <1>1, <2>2
    <3>2. /\ TimerOK' /\ StoppedHeap' = StoppedHeap
          /\ sleep_heap' = sleep_heap /\ current_response' = current_response /\ alarm' = alarm
        BY <3>1, TimerFrame
    <3>3. RearmOK'
        BY <1>0, <1>2, <3>2 DEF RearmOK, Rearming
    <3>4. /\ current_response' \in TimerRequest \cup {Nothing}
          /\ sleep_heap' \subseteq TimerRequest
          /\ alarm' \in [enabled : BOOLEAN, target : Nat]
        BY <3>2 DEF TypeOK
    <3>5. StoppedHeap' = StoppedHeap \cup {}
        BY <3>2
    <3>6. PICK G : G = {}
        OBVIOUS
    <3>7. /\ StoppedHeap' = StoppedHeap \cup G
          /\ timed <=> G # {}
          /\ \A r \in G : FALSE
        BY <2>2, <3>5, <3>6
    <3> HIDE DEF timed, request
    <3> QED BY <3>1, <3>2, <3>3, <3>4, <3>7
  <2> QED BY <2>1, <2>2
<1>7. PICK G : /\ StoppedHeap' = StoppedHeap \cup G
               /\ timed <=> G # {}
               /\ \A r \in G : /\ G = {r} /\ r \in TimerRequest
                               /\ r.sender = e0 /\ r.kind = "Timeout" /\ r.data = c0
                               /\ msg_opt.arg + now <= r.msec
    BY <1>6
<1>8. /\ TimerOK' /\ RearmOK' /\ panicked' = "no"
      /\ current_response' \in TimerRequest \cup {Nothing}
      /\ sleep_heap' \subseteq TimerRequest
      /\ alarm' \in [enabled : BOOLEAN, target : Nat]
    BY <1>6
<1> HIDE DEF request
<1>9. /\ notify_table' \in [Processes \X Conds -> Seq(Senders)]
      /\ \A p \in Processes, c \in Conds :
           \/ notify_table'[<<p, c>>] = notify_table[<<p, c>>]
           \/ p = e0[2] /\ c = c0 /\ notify_table'[<<p, c>>] = Append(notify_table[<<p, c>>], e0)
      /\ \A e \in Senders, c \in Conds : InTable(e, c)' <=> InTable(e, c) \/ (e = e0 /\ c = c0)
    BY <1>0, <1>1, <1>2, TableAppend
<1>10. /\ \A e : e \in notifications_with_timeouts' <=> e \in notifications_with_timeouts \/ (timed /\ e = e0)
       /\ notifications_with_timeouts' \subseteq Senders
    BY <1>1, <1>2 DEF TypeOK
<1>11. TypeOK'
    BY <1>0, <1>2, <1>8, <1>9, <1>10 DEF TypeOK
<1>12. /\ \A e \in Senders : e # e0 => (HasRequest(e)' <=> HasRequest(e))
       /\ HasRequest(e0)' <=> timed
       /\ \A q \in StoppedHeap : q.sender # e0
  <2>1. \A q \in StoppedHeap : q.sender # e0
      BY <1>3 DEF HasRequest
  <2> HIDE DEF timed
  <2> QED BY <1>7, <2>1 DEF HasRequest
<1>13. calls[entries[msg_opt.slot]] # Gone =>
           /\ calls[entries[msg_opt.slot]].op = "WaitForCondition"
           /\ calls[entries[msg_opt.slot]].cond = c0
           /\ calls[entries[msg_opt.slot]].timed <=> timed
           /\ calls[entries[msg_opt.slot]].due <= now + msg_opt.arg
           /\ calls[entries[msg_opt.slot]].due \in Nat
  <2>1. calls[entries[msg_opt.slot]] \in Call
      BY <1>2 DEF TypeOK
  <2>2. calls[entries[msg_opt.slot]].op = "WaitForCondition" => calls[entries[msg_opt.slot]].due \in Nat
      BY <2>1, Shapes DEF CallRecord, Opcodes
  <2> QED BY <1>0, <1>2, <1>e, <2>2 DEF Matches
<1>14. RequestsOK'
  <2>1. ASSUME NEW q \in StoppedHeap PROVE RequestOK(q)'
    <3>1. RequestOK(q) /\ q.sender \in Senders /\ q.sender # e0
        BY <1>12, OnRecord
    <3> QED BY <1>2, <1>3, <1>9, <1>10, <3>1 DEF RequestOK
  <2>2. ASSUME NEW r \in G PROVE RequestOK(r)'
    <3>1. r.sender = e0 /\ r.kind = "Timeout" /\ r.data = c0 /\ timed
        BY <1>7
    <3>2. Live(e0)' /\ e0 \in notifications_with_timeouts' /\ InTable(e0, c0)'
        BY <1>0, <1>2, <1>3, <1>9, <1>10, <3>1
    <3>3. r.msec \in Nat /\ msg_opt.arg + now <= r.msec
        BY <1>7 DEF TimerRequest
    <3>4. ASSUME calls[entries[e0[1]]] # Gone
          PROVE  /\ calls[entries[e0[1]]].op = "WaitForCondition" /\ calls[entries[e0[1]]].timed
                 /\ calls[entries[e0[1]]].due <= r.msec
        BY <1>2, <1>5, <1>13, <3>1, <3>3, <3>4
    <3> QED BY <1>0, <1>2, <3>1, <3>2, <3>4 DEF RequestOK
  <2>3. ASSUME NEW q \in StoppedHeap', NEW d \in StoppedHeap', q.sender = d.sender PROVE q = d
      BY <1>7, <1>12, <2>3 DEF RequestsOK
  <2> QED BY <1>7, <2>1, <2>2, <2>3 DEF RequestsOK
<1>15. ASSUME NEW e \in Senders, NEW c \in Conds, WaiterOK(e, c), e # e0 PROVE WaiterOK(e, c)'
    BY <1>2, <1>3, <1>10, <1>12, <1>15 DEF WaiterOK
<1>16. WaiterOK(e0, c0)'
  <2>1. Live(e0)' /\ (HasRequest(e0)' <=> e0 \in notifications_with_timeouts')
      BY <1>2, <1>3, <1>10, <1>12
  <2> QED BY <1>2, <1>3, <1>10, <1>13, <2>1 DEF WaiterOK
<1>17. TableOK'
  <2>1. ASSUME NEW p \in Processes, NEW c \in Conds, NEW i \in DOMAIN notify_table'[<<p, c>>]
        PROVE  notify_table'[<<p, c>>][i][2] = p /\ WaiterOK(notify_table[<<p, c>>][i], c)'
    <3>1. CASE i \in DOMAIN notify_table[<<p, c>>] /\ notify_table'[<<p, c>>][i] = notify_table[<<p, c>>][i]
      <4>1. PICK e \in Senders : e = notify_table[<<p, c>>][i] /\ e[2] = p /\ WaiterOK(e, c)
          BY <3>1, TableEntries
      <4>2. InTable(e, c)
          BY <3>1, <4>1 DEF InTable
      <4>3. e # e0
          BY <1>3, <4>2
      <4> QED BY <1>15, <3>1, <4>1, <4>3
    <3>2. CASE p = e0[2] /\ c = c0 /\ notify_table'[<<p, c>>][i] = e0
        BY <1>16, <3>2
    <3>3. notify_table[<<p, c>>] \in Seq(Senders)
        BY DEF TypeOK
    <3>4. \/ i \in DOMAIN notify_table[<<p, c>>] /\ notify_table'[<<p, c>>][i] = notify_table[<<p, c>>][i]
          \/ p = e0[2] /\ c = c0 /\ notify_table'[<<p, c>>][i] = e0
      <4>1. CASE notify_table'[<<p, c>>] = notify_table[<<p, c>>]
          BY <2>1, <4>1
      <4>2. CASE p = e0[2] /\ c = c0 /\ notify_table'[<<p, c>>] = Append(notify_table[<<p, c>>], e0)
        <5>1. PICK a \in Seq(Senders) : a = notify_table[<<p, c>>]
            BY <3>3
        <5>2. i \in DOMAIN Append(a, e0) /\ notify_table'[<<p, c>>][i] = Append(a, e0)[i]
            BY <2>1, <4>2, <5>1
        <5>3. i \in DOMAIN a \/ i = Len(a) + 1
            BY <1>2, <5>2, AppendIs
        <5>4. /\ i \in DOMAIN a => Append(a, e0)[i] = a[i]
              /\ Append(a, e0)[Len(a) + 1] = e0
            BY <1>2, AppendIs
        <5> QED BY <4>2, <5>1, <5>2, <5>3, <5>4
      <4> QED BY <1>9, <4>1, <4>2
    <3> QED BY <3>1, <3>2, <3>4
  <2>2. ASSUME NEW p \in Processes, NEW c \in Conds PROVE NoRepeats(notify_table'[<<p, c>>])
    <3>1. NoRepeats(notify_table[<<p, c>>]) /\ notify_table[<<p, c>>] \in Seq(Senders)
        BY DEF TableOK, TypeOK
    <3>2. CASE notify_table'[<<p, c>>] = notify_table[<<p, c>>]
        BY <3>1, <3>2
    <3>3. CASE p = e0[2] /\ c = c0 /\ notify_table'[<<p, c>>] = Append(notify_table[<<p, c>>], e0)
      <4>1. \A i \in DOMAIN notify_table[<<p, c>>] : notify_table[<<p, c>>][i] # e0
          BY <1>3, <3>3 DEF InTable
      <4>2. NoRepeats(Append(notify_table[<<p, c>>], e0))
          BY <1>2, <3>1, <4>1, AppendNoRepeats
      <4> QED BY <3>3, <4>2
    <3> QED BY <1>9, <3>2, <3>3
  <2>3. \A e \in Senders, c, d \in Conds : InTable(e, c)' /\ InTable(e, d)' => c = d
      BY <1>3, <1>9 DEF TableOK
  <2>4. \A e \in notifications_with_timeouts' : \E c \in Conds : InTable(e, c)'
      BY <1>0, <1>2, <1>9, <1>10, OnRecord
  <2> QED BY <2>1, <2>2, <2>3, <2>4 DEF TableOK, NoRepeats
<1>18. RecalcsOK'
  <2>1. ASSUME NEW x \in Message, x.about \in Senders, RecalcOK(x) PROVE RecalcOK(x)'
    <3>1. ~Waiting(x.about[1]) /\ x.about # e0
        BY <1>2, <2>1 DEF RecalcOK
    <3> QED BY <1>3, <1>9, <1>10, <2>1, <3>1 DEF RecalcOK
  <2>2. ASSUME NEW i \in DOMAIN inbox, inbox[i].op = "RecalculateSleep" PROVE RecalcOK(inbox[i])'
    <3>1. PICK x \in Message : x = inbox[i] /\ x = inbox'[i] /\ x.about \in Senders /\ RecalcOK(x)
        BY <1>2, <2>2, MessageTypes DEF InboxOK, QueuedOK, RecalcsOK
    <3> QED BY <2>1, <3>1
  <2> QED BY <1>0, <1>2, <2>2 DEF RecalcsOK
<1>19. RecordOK'
  <2> SUFFICES ASSUME NEW s \in Slots, Parked(s)', calls'[entries'[s]] # Gone
               PROVE  /\ calls'[entries'[s]].op = "SleepMs" => HasRequest(<<s, Holder(s)>>)'
                      /\ calls'[entries'[s]].op = "WaitForCondition" =>
                            /\ calls'[entries'[s]].cond \in Conds
                            /\ InTable(<<s, Holder(s)>>, calls[entries[s]].cond)'
      BY DEF RecordOK
  <2>1. entries[s] \in Threads
      BY <1>2, <1>3 DEF Parked, Waiting
  <2>2. PICK e \in Senders : e = <<s, Holder(s)>>
      BY <2>1, TicktimerAssumption DEF Holder, Senders
  <2>3. e = <<s, Holder(s)>>'
      BY <1>2, <2>2 DEF Holder
  <2>4. CASE s = msg_opt.slot
    <3>1. e = e0
        BY <1>2, <2>2, <2>4, SenderIs
    <3>2. InTable(e, c0)'
        BY <1>0, <1>2, <1>9, <3>1
    <3>3. calls'[entries'[s]].op = "WaitForCondition" /\ calls'[entries'[s]].cond = c0
        BY <1>2, <1>13, <2>4
    <3> QED BY <1>0, <2>3, <3>2, <3>3
  <2>5. CASE Parked(s)
    <3>1. /\ calls[entries[s]].op = "SleepMs" => HasRequest(e)
          /\ calls[entries[s]].op = "WaitForCondition" =>
               calls[entries[s]].cond \in Conds /\ InTable(e, calls[entries[s]].cond)
        BY <1>2, <2>2, <2>5 DEF RecordOK
    <3>2. Live(e) /\ e # e0
        BY <1>3, <2>2, <2>5, SenderIs DEF Live
    <3> QED BY <1>2, <1>9, <1>12, <2>3, <3>1, <3>2
  <2> QED BY <1>3, <2>4, <2>5
<1>20. \A e \in Senders, c \in Conds :
           InTable(e, c)' <=> InTable(e, c) \/ (e = Sender(msg_opt) /\ c = msg_opt.cond)
    BY <1>9, <1>e
<1> QED BY <1>0, <1>3, <1>8, <1>11, <1>14, <1>17, <1>18, <1>19, <1>20

\* Taking the senders D out of one place of the table.
LEMMA TableRemove ==
    ASSUME TypeOK, TableOK, NEW p0 \in Processes, NEW c0 \in Conds, NEW D, NEW b \in Seq(Senders),
           notify_table' = [notify_table EXCEPT ![<<p0, c0>>] = b],
           NoRepeats(b),
           \A x : (\E i \in DOMAIN b : b[i] = x)
                     <=> x \notin D /\ \E i \in DOMAIN notify_table[<<p0, c0>>] : notify_table[<<p0, c0>>][i] = x
    PROVE  /\ notify_table' \in [Processes \X Conds -> Seq(Senders)]
           /\ \A e \in Senders, c \in Conds :
                InTable(e, c)' <=> InTable(e, c) /\ ~(e[2] = p0 /\ c = c0 /\ e \in D)
           /\ \A p \in Processes, c \in Conds : NoRepeats(notify_table'[<<p, c>>])
           /\ \A p \in Processes, c \in Conds : \A i \in DOMAIN notify_table'[<<p, c>>] :
                \E e \in Senders : /\ e = notify_table'[<<p, c>>][i] /\ e[2] = p
                                   /\ InTable(e, c)' /\ WaiterOK(e, c)
<1>1. notify_table'[<<p0, c0>>] = b
    BY DEF TypeOK
<1>2. \A p \in Processes, c \in Conds :
         p # p0 \/ c # c0 => notify_table'[<<p, c>>] = notify_table[<<p, c>>]
    BY DEF TypeOK
<1>3. notify_table' \in [Processes \X Conds -> Seq(Senders)]
    BY DEF TypeOK
<1>4. ASSUME NEW e \in Senders, NEW c \in Conds
      PROVE  InTable(e, c)' <=> InTable(e, c) /\ ~(e[2] = p0 /\ c = c0 /\ e \in D)
  <2>1. CASE e[2] = p0 /\ c = c0
      BY <1>1, <2>1 DEF InTable
  <2>2. CASE ~(e[2] = p0 /\ c = c0)
    <3>1. notify_table'[<<e[2], c>>] = notify_table[<<e[2], c>>]
        BY <1>2, <2>2, SenderIs
    <3> QED BY <2>2, <3>1 DEF InTable
  <2> QED BY <2>1, <2>2
<1>5. \A p \in Processes, c \in Conds : NoRepeats(notify_table'[<<p, c>>])
  <2> TAKE p \in Processes, c \in Conds
  <2>1. CASE p = p0 /\ c = c0
      BY <1>1, <2>1
  <2>2. CASE ~(p = p0 /\ c = c0)
    <3>1. notify_table'[<<p, c>>] = notify_table[<<p, c>>] /\ NoRepeats(notify_table[<<p, c>>])
        BY <1>2, <2>2 DEF TableOK
    <3> QED BY <3>1
  <2> QED BY <2>1, <2>2
<1>6. ASSUME NEW p \in Processes, NEW c \in Conds, NEW i \in DOMAIN notify_table'[<<p, c>>]
      PROVE  \E e \in Senders : /\ e = notify_table'[<<p, c>>][i] /\ e[2] = p
                                /\ InTable(e, c)' /\ WaiterOK(e, c)
  <2>1. PICK k \in DOMAIN notify_table[<<p, c>>] : notify_table[<<p, c>>][k] = notify_table'[<<p, c>>][i]
    <3>1. CASE p = p0 /\ c = c0
        BY <1>1, <1>6, <3>1
    <3>2. CASE ~(p = p0 /\ c = c0)
        BY <1>2, <1>6, <3>2
    <3> QED BY <3>1, <3>2
  <2>2. PICK e \in Senders : e = notify_table[<<p, c>>][k] /\ e[2] = p /\ WaiterOK(e, c)
      BY TableEntries
  <2>3. InTable(e, c)'
      BY <1>6, <2>1, <2>2 DEF InTable
  <2> QED BY <2>1, <2>2, <2>3
<1> QED BY <1>3, <1>4, <1>5, <1>6

\* What becomes of the table when it only gets shorter.
LEMMA ShorterTable ==
    ASSUME IInv,
           \A p \in Processes, c \in Conds : \A i \in DOMAIN notify_table'[<<p, c>>] :
                \E e \in Senders : /\ e = notify_table'[<<p, c>>][i] /\ e[2] = p
                                   /\ InTable(e, c)' /\ WaiterOK(e, c),
           \A p \in Processes, c \in Conds : NoRepeats(notify_table'[<<p, c>>]),
           \A e \in Senders, c \in Conds : InTable(e, c)' => InTable(e, c),
           \A e \in Senders, c \in Conds : InTable(e, c)' /\ WaiterOK(e, c) => WaiterOK(e, c)',
           \A e \in notifications_with_timeouts' : \E c \in Conds : InTable(e, c)'
    PROVE  TableOK'
<1>1. ASSUME NEW p \in Processes, NEW c \in Conds, NEW i \in DOMAIN notify_table'[<<p, c>>]
      PROVE  notify_table'[<<p, c>>][i][2] = p /\ WaiterOK(notify_table[<<p, c>>][i], c)'
  <2>1. PICK e \in Senders : /\ e = notify_table'[<<p, c>>][i] /\ e[2] = p
                             /\ InTable(e, c)' /\ WaiterOK(e, c)
      OBVIOUS
  <2>2. WaiterOK(e, c)'
      BY <2>1
  <2> QED BY <2>1, <2>2
<1>2. \A e \in Senders, c, d \in Conds : InTable(e, c)' /\ InTable(e, d)' => c = d
    BY DEF IInv, TableOK
<1> QED BY <1>1, <1>2 DEF TableOK, NoRepeats

\* RecalculateSleep: what the message reports is taken off the record.
LEMMA RecalcInv ==
    ASSUME IInv, RecalculateSleep
    PROVE  /\ IInv' /\ panicked' = "no"
           /\ \A e \in Senders, c \in Conds : InTable(e, c)' <=> InTable(e, c) /\ e # msg_opt.about
<1> USE DEF IInv
<1>e. PICK e0, c0 : e0 = msg_opt.about /\ c0 = msg_opt.cond
    OBVIOUS
<1> DEFINE timedOut == e0 \in notifications_with_timeouts
           place == <<e0[2], c0>>
<1>0. /\ handling /\ msg_opt.op = "RecalculateSleep" /\ msg_opt # Nothing /\ ~msg_opt.blocking
      /\ msg_opt' = msg_opt /\ handling' = FALSE /\ answered' = {}
      /\ UNCHANGED <<now, kernelVars, LAST_RESPONDER, suspend>>
      /\ e0 \in Senders /\ ~Waiting(e0[1]) /\ e0[2] \in Processes
      /\ timedOut => c0 \in Conds /\ InTable(e0, c0)
    BY <1>e, SenderIs DEF RecalculateSleep, Handling, Done, LoopOK, RecalcsOK, RecalcOK, BlockingOps
<1>1. /\ notifications_with_timeouts' = notifications_with_timeouts \ {e0}
      /\ notify_table' = IF timedOut THEN [notify_table EXCEPT ![place] = Forgotten(@, e0)]
                         ELSE notify_table
      /\ StartSleep(IF timedOut THEN Without(StoppedHeap, {e0}) ELSE StoppedHeap)
      /\ Asserts(/\ StopSleepAsserts
                 /\ timedOut => /\ Without(StoppedHeap, {e0}) = StoppedHeap
                                /\ Contains(notify_table[place], e0))
    BY <1>e DEF RecalculateSleep
<1>2. ~Live(e0) /\ \A r \in StoppedHeap : r.sender # e0
    BY <1>0, OnRecord
<1>3. Without(StoppedHeap, {e0}) = StoppedHeap
    BY <1>2 DEF Without
<1>4. Heap(StoppedHeap) /\ StartSleep(StoppedHeap)
    BY <1>1, <1>3, StoppedIsHeap
<1>5. /\ StoppedHeap' = StoppedHeap /\ TimerOK'
      /\ sleep_heap' # {} => current_response' # Nothing
      /\ current_response' \in TimerRequest \cup {Nothing}
      /\ sleep_heap' \subseteq TimerRequest
      /\ alarm' \in [enabled : BOOLEAN, target : Nat]
    BY <1>4, StartSleepEffect
<1>6. RearmOK'
    BY <1>5 DEF RearmOK
<1>7. panicked' = "no"
  <2>1. StopSleepAsserts
      BY StopSleepHolds
  <2>2. ASSUME timedOut PROVE Contains(notify_table[place], e0)
    <3>1. notify_table[place] \in Seq(Senders)
        BY <1>0, <2>2 DEF TypeOK
    <3>2. \E i \in DOMAIN notify_table[place] : notify_table[place][i] = e0
        BY <1>0, <2>2 DEF InTable
    <3> HIDE DEF place
    <3> QED BY <3>1, <3>2 DEF Contains
  <2> HIDE DEF timedOut, place
  <2> QED BY <1>1, <1>3, <2>1, <2>2 DEF Asserts
<1>8. /\ notify_table' \in [Processes \X Conds -> Seq(Senders)]
      /\ \A e \in Senders, c \in Conds : InTable(e, c)' <=> InTable(e, c) /\ e # e0
      /\ \A p \in Processes, c \in Conds : NoRepeats(notify_table'[<<p, c>>])
      /\ \A p \in Processes, c \in Conds : \A i \in DOMAIN notify_table'[<<p, c>>] :
           \E e \in Senders : /\ e = notify_table'[<<p, c>>][i] /\ e[2] = p
                              /\ InTable(e, c)' /\ WaiterOK(e, c)
  <2>1. CASE timedOut
    <3>1. PICK a \in Seq(Senders) : a = notify_table[<<e0[2], c0>>]
        BY <1>0, <2>1 DEF TypeOK
    <3>2. /\ Forgotten(a, e0) \in Seq(Senders)
          /\ \A x : (\E i \in DOMAIN Forgotten(a, e0) : Forgotten(a, e0)[i] = x)
                       <=> x # e0 /\ \E i \in DOMAIN a : a[i] = x
          /\ NoRepeats(a) => NoRepeats(Forgotten(a, e0))
        BY ForgottenEffect, Zenon
    <3>3. PICK b \in Seq(Senders) :
             /\ b = Forgotten(a, e0)
             /\ \A x : (\E i \in DOMAIN b : b[i] = x) <=> x # e0 /\ \E i \in DOMAIN a : a[i] = x
             /\ NoRepeats(a) => NoRepeats(b)
        BY <3>2, Zenon
    <3>4. NoRepeats(a)
        BY <1>0, <2>1, <3>1 DEF TableOK
    <3>5. notify_table' = [notify_table EXCEPT ![<<e0[2], c0>>] = b]
        BY <1>1, <2>1, <3>1, <3>3
    <3>6. \A x : (\E i \in DOMAIN b : b[i] = x)
                    <=> x \notin {e0} /\ \E i \in DOMAIN notify_table[<<e0[2], c0>>] :
                                            notify_table[<<e0[2], c0>>][i] = x
        BY <3>1, <3>3
    <3>7. /\ notify_table' \in [Processes \X Conds -> Seq(Senders)]
          /\ \A e \in Senders, c \in Conds :
               InTable(e, c)' <=> InTable(e, c) /\ ~(e[2] = e0[2] /\ c = c0 /\ e \in {e0})
          /\ \A p \in Processes, c \in Conds : NoRepeats(notify_table'[<<p, c>>])
          /\ \A p \in Processes, c \in Conds : \A i \in DOMAIN notify_table'[<<p, c>>] :
               \E e \in Senders : /\ e = notify_table'[<<p, c>>][i] /\ e[2] = p
                                  /\ InTable(e, c)' /\ WaiterOK(e, c)
      <4>1. e0[2] \in Processes /\ c0 \in Conds /\ NoRepeats(b) /\ TypeOK /\ TableOK
          BY <1>0, <2>1, <3>3, <3>4
      <4> QED BY <3>5, <3>6, <4>1, TableRemove
    <3>8. \A c \in Conds : InTable(e0, c) => c = c0
        BY <1>0, <2>1 DEF TableOK
    <3> QED BY <3>7, <3>8
  <2>2. CASE ~timedOut
    <3>1. notify_table' = notify_table
        BY <1>1, <2>2
    <3>2. \A c \in Conds : ~InTable(e0, c)
        BY <1>0, <1>2, <2>2, OnRecord DEF WaiterOK
    <3>3. \A e, c : InTable(e, c)' <=> InTable(e, c)
        BY <3>1 DEF InTable
    <3>4. \A e \in Senders, c \in Conds : InTable(e, c)' <=> InTable(e, c) /\ e # e0
        BY <3>2, <3>3
    <3>5. \A p \in Processes, c \in Conds : NoRepeats(notify_table'[<<p, c>>])
        BY <3>1 DEF TableOK
    <3>6. ASSUME NEW p \in Processes, NEW c \in Conds, NEW i \in DOMAIN notify_table[<<p, c>>]
          PROVE  \E e \in Senders : /\ e = notify_table[<<p, c>>][i] /\ e[2] = p
                                    /\ InTable(e, c)' /\ WaiterOK(e, c)
      <4>1. PICK e \in Senders : e = notify_table[<<p, c>>][i] /\ e[2] = p /\ WaiterOK(e, c)
          BY TableEntries
      <4>2. InTable(e, c)'
          BY <3>3, <4>1 DEF InTable
      <4> QED BY <4>1, <4>2
    <3> QED BY <3>1, <3>4, <3>5, <3>6 DEF TypeOK
  <2> QED BY <2>1, <2>2
<1>9. UNCHANGED <<inbox, entries, calls, left>> /\ now' \in Nat /\ now <= now'
    BY <1>0 DEF kernelVars, TypeOK
<1>10. TypeOK'
    BY <1>0, <1>1, <1>5, <1>7, <1>8, <1>9 DEF TypeOK
<1>11. /\ \A s : Waiting(s)' <=> Waiting(s)
       /\ \A s : Parked(s)' <=> Parked(s)
       /\ \A e : Live(e)' <=> Live(e)
       /\ \A e : HasRequest(e)' <=> HasRequest(e)
       /\ \A e, c : FiredAt(e, c) => FiredAt(e, c)' \/ e = e0
  <2>1. \A s : Waiting(s)' <=> Waiting(s)
      BY <1>9 DEF Waiting
  <2>2. \A s : Parked(s)' <=> Parked(s)
      BY <1>0, <2>1 DEF Parked, InLoop
  <2>3. \A e : Live(e)' <=> Live(e)
      BY <1>9, <2>2 DEF Live, Holder
  <2>4. \A e : HasRequest(e)' <=> HasRequest(e)
      BY <1>5 DEF HasRequest
  <2>5. \A e, c : FiredAt(e, c) => FiredAt(e, c)' \/ e = e0
      BY <1>9, <1>e DEF FiredAt
  <2> QED BY <2>1, <2>2, <2>3, <2>4, <2>5
<1>12. EntriesOK' /\ InboxOK'
    BY <1>9, InboxFrame DEF EntriesOK
<1>13. LoopOK'
    BY <1>0, <1>9, <1>10, LoopFrame
<1>14. \A e : e \in notifications_with_timeouts' <=> e \in notifications_with_timeouts /\ e # e0
    BY <1>1
<1>15. RequestsOK'
  <2>1. ASSUME NEW q \in StoppedHeap PROVE RequestOK(q)'
    <3>1. RequestOK(q) /\ q.sender \in Senders /\ q.sender # e0
        BY <1>2, OnRecord
    <3> QED BY <1>8, <1>9, <1>11, <1>14, <3>1 DEF RequestOK
  <2> QED BY <1>5, <2>1 DEF RequestsOK
<1>16. TableOK'
  <2>1. ASSUME NEW e \in Senders, NEW c \in Conds, InTable(e, c)', WaiterOK(e, c) PROVE WaiterOK(e, c)'
    <3>1. e # e0
        BY <1>8, <2>1
    <3> QED BY <1>9, <1>11, <1>14, <2>1, <3>1 DEF WaiterOK
  <2>2. \A e \in notifications_with_timeouts' : \E c \in Conds : InTable(e, c)'
      BY <1>8, <1>14, OnRecord
  <2> QED BY <1>8, <2>1, <2>2, ShorterTable
<1>17. RecalcsOK'
  <2>1. ASSUME NEW x \in Message, x.about \in Senders, RecalcOK(x) PROVE RecalcOK(x)'
      BY <1>8, <1>11, <1>14, <2>1 DEF RecalcOK
  <2>2. ASSUME NEW i \in DOMAIN inbox, inbox[i].op = "RecalculateSleep" PROVE RecalcOK(inbox[i])'
    <3>1. PICK x \in Message : x = inbox[i] /\ x = inbox'[i] /\ x.about \in Senders /\ RecalcOK(x)
        BY <1>9, <2>2, MessageTypes DEF InboxOK, QueuedOK, RecalcsOK
    <3> QED BY <2>1, <3>1
  <2> QED BY <1>0, <1>9, <2>2 DEF RecalcsOK
<1>18. RecordOK'
  <2> SUFFICES ASSUME NEW s \in Slots, Parked(s)', calls'[entries'[s]] # Gone
               PROVE  /\ calls'[entries'[s]].op = "SleepMs" => HasRequest(<<s, Holder(s)>>)'
                      /\ calls'[entries'[s]].op = "WaitForCondition" =>
                            /\ calls'[entries'[s]].cond \in Conds
                            /\ InTable(<<s, Holder(s)>>, calls[entries[s]].cond)'
      BY DEF RecordOK
  <2>1. Parked(s) /\ entries[s] \in Threads
      BY <1>11 DEF Parked, Waiting
  <2>2. PICK e \in Senders : e = <<s, Holder(s)>>
      BY <2>1, TicktimerAssumption DEF Holder, Senders
  <2>3. e = <<s, Holder(s)>>'
      BY <1>9, <2>2 DEF Holder
  <2>4. Live(e) /\ e # e0
      BY <1>2, <2>1, <2>2, SenderIs DEF Live
  <2>5. /\ calls[entries[s]].op = "SleepMs" => HasRequest(e)
        /\ calls[entries[s]].op = "WaitForCondition" =>
             calls[entries[s]].cond \in Conds /\ InTable(e, calls[entries[s]].cond)
      BY <1>9, <2>1, <2>2 DEF RecordOK
  <2> QED BY <1>8, <1>9, <1>11, <2>3, <2>4, <2>5
<1>19. \A e \in Senders, c \in Conds : InTable(e, c)' <=> InTable(e, c) /\ e # msg_opt.about
    BY <1>8, <1>e
<1> QED BY <1>0, <1>5, <1>6, <1>7, <1>10, <1>12, <1>13, <1>15, <1>16, <1>17, <1>18, <1>19

\* Of the senders D that wait at a place, those that the interrupt has not answered.
LEMMA DrainedIs ==
    ASSUME IInv, NEW p0 \in Processes, NEW c0 \in Conds, NEW D \in SUBSET Senders,
           \A e \in D : e[2] = p0 /\ InTable(e, c0)
    PROVE  /\ \A e \in D : e \in AlreadyFired(D) <=> ~Live(e)
           /\ SlotsOf(D \ AlreadyFired(D)) \in SUBSET Slots
           /\ \A s \in SlotsOf(D \ AlreadyFired(D)) :
                \E e \in D : /\ e = <<s, Holder(s)>> /\ e[1] = s /\ Live(e) /\ Parked(s) /\ Waiting(s)
                             /\ entries[s] \in Threads
                             /\ ProcessOf[entries[s]] = p0
                             /\ calls[entries[s]] # Gone => /\ calls[entries[s]].op = "WaitForCondition"
                                                            /\ calls[entries[s]].cond = c0
           /\ \A e \in D : Live(e) => e[1] \in SlotsOf(D \ AlreadyFired(D))
           /\ \A r \in StoppedHeap : r.sender \in D => r.sender \in notifications_with_timeouts
<1> USE DEF IInv
<1>1. ASSUME NEW e \in D PROVE e \in AlreadyFired(D) <=> ~Live(e)
  <2>1. WaiterOK(e, c0)
      BY OnRecord
  <2>2. e \in AlreadyFired(D) <=> e \in notifications_with_timeouts /\ ~HasRequest(e)
      BY DEF AlreadyFired, HasRequest
  <2>3. HasRequest(e) => Live(e)
      BY OnRecord DEF HasRequest
  <2>4. FiredAt(e, c0) => ~Live(e)
      BY OnRecord
  <2> QED BY <2>1, <2>2, <2>3, <2>4 DEF WaiterOK
<1>2. SlotsOf(D \ AlreadyFired(D)) \in SUBSET Slots
    BY SenderIs DEF SlotsOf
<1>3. ASSUME NEW s \in SlotsOf(D \ AlreadyFired(D))
      PROVE  \E e \in D : /\ e = <<s, Holder(s)>> /\ e[1] = s /\ Live(e) /\ Parked(s) /\ Waiting(s)
                          /\ entries[s] \in Threads
                          /\ ProcessOf[entries[s]] = p0
                          /\ calls[entries[s]] # Gone => /\ calls[entries[s]].op = "WaitForCondition"
                                                         /\ calls[entries[s]].cond = c0
  <2>1. PICK e \in D \ AlreadyFired(D) : s = e[1]
      BY DEF SlotsOf
  <2>2. Live(e) /\ e \in Senders /\ WaiterOK(e, c0) /\ e[2] = p0
      BY <1>1, <2>1, OnRecord
  <2>3. Parked(s) /\ Waiting(s) /\ entries[s] \in Threads /\ Holder(s) = p0
      BY <2>1, <2>2 DEF Live, Parked, Waiting
  <2>4. e = <<s, Holder(s)>>
      BY <2>1, <2>2, <2>3, SenderIs
  <2>5. ~FiredAt(e, c0)
      BY <2>2, OnRecord
  <2> QED BY <2>1, <2>2, <2>3, <2>4, <2>5 DEF WaiterOK, Holder
<1>4. \A e \in D : Live(e) => e[1] \in SlotsOf(D \ AlreadyFired(D))
    BY <1>1 DEF SlotsOf
<1>5. ASSUME NEW r \in StoppedHeap, r.sender \in D PROVE r.sender \in notifications_with_timeouts
  <2>1. Live(r.sender) /\ HasRequest(r.sender) /\ WaiterOK(r.sender, c0)
      BY <1>5, OnRecord DEF HasRequest
  <2> QED BY <2>1 DEF WaiterOK
<1> QED BY <1>1, <1>2, <1>3, <1>4, <1>5

\* Senders D of one place are taken off the record, and those that still wait are answered;
\* b is what is left at the place.
Drains(p0, c0, D, b) ==
    /\ \A e \in D : e[2] = p0 /\ InTable(e, c0)
    /\ NoRepeats(b)
    /\ \A x : (\E i \in DOMAIN b : b[i] = x)
                 <=> x \notin D /\ \E i \in DOMAIN notify_table[<<p0, c0>>] : notify_table[<<p0, c0>>][i] = x
    /\ handling /\ msg_opt.op \in {"NotifyCondition", "FreeCondition"}
    /\ msg_opt' \in Message /\ handling' = FALSE
    /\ msg_opt'.op = msg_opt.op /\ msg_opt'.slot = msg_opt.slot /\ msg_opt'.pid = msg_opt.pid
    /\ msg_opt'.blocking = msg_opt.blocking /\ msg_opt'.cond = msg_opt.cond
    /\ msg_opt'.about = msg_opt.about
    /\ notify_table' = [notify_table EXCEPT ![<<p0, c0>>] = b]
    /\ notifications_with_timeouts' = notifications_with_timeouts \ D
    /\ StartSleep(Without(StoppedHeap, D \cap notifications_with_timeouts))
    /\ entries' = Released(SlotsOf(D \ AlreadyFired(D)))
    /\ calls' = Resumed(SlotsOf(D \ AlreadyFired(D)))
    /\ answered' \subseteq [thread : Threads, value : Nat]
    /\ panicked' \in {"no", "assert", "reply"}
    /\ UNCHANGED <<now, inbox, left, LAST_RESPONDER, suspend>>

\* Such a handler keeps the invariant.
LEMMA DrainInv ==
    ASSUME IInv, NEW p0 \in Processes, NEW c0 \in Conds, NEW D \in SUBSET Senders, NEW b \in Seq(Senders),
           Drains(p0, c0, D, b)
    PROVE  IInv' /\ \A e \in Senders, c \in Conds : InTable(e, c)' <=> InTable(e, c) /\ e \notin D
<1> USE DEF IInv
<1>d. \A e \in D : e[2] = p0 /\ InTable(e, c0)
    BY DEF Drains
<1>m. /\ handling /\ msg_opt.op \in {"NotifyCondition", "FreeCondition"}
      /\ msg_opt' \in Message /\ handling' = FALSE
      /\ msg_opt'.op = msg_opt.op /\ msg_opt'.slot = msg_opt.slot /\ msg_opt'.pid = msg_opt.pid
      /\ msg_opt'.blocking = msg_opt.blocking /\ msg_opt'.cond = msg_opt.cond
      /\ msg_opt'.about = msg_opt.about
    BY DEF Drains
<1>u. /\ UNCHANGED <<now, inbox, left, LAST_RESPONDER, suspend>>
      /\ notifications_with_timeouts' = notifications_with_timeouts \ D
      /\ answered' \subseteq [thread : Threads, value : Nat]
      /\ panicked' \in {"no", "assert", "reply"}
    BY DEF Drains
<1>1. PICK N \in SUBSET Slots : N = SlotsOf(D \ AlreadyFired(D))
    BY <1>d, DrainedIs
<1>2. /\ \A s \in N : \E e \in D : e = <<s, Holder(s)>> /\ e[1] = s /\ Live(e) /\ Parked(s) /\ Waiting(s)
      /\ \A e \in D : Live(e) => e[1] \in N
      /\ \A r \in StoppedHeap : r.sender \in D => r.sender \in notifications_with_timeouts
  <2>1. \A s \in SlotsOf(D \ AlreadyFired(D)) :
           \E e \in D : e = <<s, Holder(s)>> /\ e[1] = s /\ Live(e) /\ Parked(s) /\ Waiting(s)
    <3> HIDE DEF IInv
    <3>1. \A s \in SlotsOf(D \ AlreadyFired(D)) :
             \E e \in D : /\ e = <<s, Holder(s)>> /\ e[1] = s /\ Live(e) /\ Parked(s) /\ Waiting(s)
                          /\ entries[s] \in Threads
                          /\ ProcessOf[entries[s]] = p0
                          /\ calls[entries[s]] # Gone => /\ calls[entries[s]].op = "WaitForCondition"
                                                         /\ calls[entries[s]].cond = c0
        BY <1>d, DrainedIs
    <3> QED BY <3>1, Zenon
  <2>2. \A e \in D : Live(e) => e[1] \in SlotsOf(D \ AlreadyFired(D))
      BY <1>d, DrainedIs
  <2>3. \A r \in StoppedHeap : r.sender \in D => r.sender \in notifications_with_timeouts
      BY <1>d, DrainedIs
  <2> QED BY <1>1, <2>1, <2>2, <2>3
<1>3. entries' = Released(N) /\ calls' = Resumed(N)
    BY <1>1 DEF Drains
<1>4. /\ \A s \in Slots : entries[s] \in Threads /\ s \notin N =>
           entries'[s] = entries[s] /\ calls'[entries[s]] = calls[entries[s]]
      /\ \A s \in Slots : s \notin N => entries'[s] = entries[s]
      /\ \A s \in Slots : entries'[s] \in Threads => entries[s] \in Threads /\ s \notin N /\ entries'[s] = entries[s]
      /\ EntriesOK'
  <2>1. \A s \in N : Waiting(s)
      BY <1>2
  <2>2. EntriesOK'
    <3>1. \A t, u \in Threads : ProcessOf[t] = ProcessOf[u] /\ calls'[t] = Gone => calls'[u] = Gone
        BY <1>3, ReleaseFrame DEF EntriesOK
    <3>2. /\ \A r, s \in Slots : entries'[r] \in Threads /\ entries'[r] = entries'[s] => r = s
          /\ \A s \in Slots : entries'[s] \in Threads => calls'[entries'[s]] # Idle
        BY <1>3, ReleaseFrame
    <3> QED BY <3>1, <3>2 DEF EntriesOK
  <2> QED BY <1>3, <2>1, <2>2, ReleaseFrame
<1>5. /\ \A s \in Slots : Waiting(s)' <=> Waiting(s) /\ s \notin N
      /\ \A s \in Slots : Parked(s)' <=> Parked(s) /\ s \notin N
  <2>1. \A s \in Slots : Waiting(s)' <=> Waiting(s) /\ s \notin N
      BY <1>4, <1>u DEF Waiting
  <2>2. \A s : InLoop(s)' <=> InLoop(s)
      BY <1>m, Shapes DEF InLoop, LoopOK
  <2> QED BY <2>1, <2>2 DEF Parked
<1>6. \A e \in Senders : Live(e)' <=> Live(e) /\ e \notin D
  <2> TAKE e \in Senders
  <2>1. e[1] \in Slots
      BY SenderIs
  <2>2. Parked(e[1]) /\ e[1] \notin N => Holder(e[1])' = Holder(e[1])
      BY <1>4, <2>1 DEF Parked, Waiting, Holder
  <2>3. Live(e) /\ e[1] \in N => e \in D
      BY <1>2, <2>1, SenderIs DEF Live
  <2>4. Live(e) /\ e \in D => e[1] \in N
      BY <1>2
  <2> QED BY <1>5, <2>1, <2>2, <2>3, <2>4 DEF Live
<1>7. PICK H \in SUBSET StoppedHeap : H = Without(StoppedHeap, D \cap notifications_with_timeouts)
    BY DEF Without
<1>8. \A r \in StoppedHeap : r \in H <=> r.sender \notin D
    BY <1>2, <1>7 DEF Without
<1>9. Heap(H)
    BY StoppedIsHeap, SubHeap
<1>10. /\ StoppedHeap' = H /\ TimerOK'
       /\ sleep_heap' # {} => current_response' # Nothing
       /\ current_response' \in TimerRequest \cup {Nothing}
       /\ sleep_heap' \subseteq TimerRequest
       /\ alarm' \in [enabled : BOOLEAN, target : Nat]
    BY <1>7, <1>9, StartSleepEffect DEF Drains
<1>11. RearmOK'
    BY <1>10 DEF RearmOK
<1>12. /\ notify_table' \in [Processes \X Conds -> Seq(Senders)]
       /\ \A e \in Senders, c \in Conds :
            InTable(e, c)' <=> InTable(e, c) /\ ~(e[2] = p0 /\ c = c0 /\ e \in D)
       /\ \A p \in Processes, c \in Conds : NoRepeats(notify_table'[<<p, c>>])
       /\ \A p \in Processes, c \in Conds : \A i \in DOMAIN notify_table'[<<p, c>>] :
            \E e \in Senders : /\ e = notify_table'[<<p, c>>][i] /\ e[2] = p
                               /\ InTable(e, c)' /\ WaiterOK(e, c)
  <2>1. /\ notify_table' = [notify_table EXCEPT ![<<p0, c0>>] = b]
        /\ NoRepeats(b)
        /\ \A x : (\E i \in DOMAIN b : b[i] = x)
                 <=> x \notin D /\ \E i \in DOMAIN notify_table[<<p0, c0>>] : notify_table[<<p0, c0>>][i] = x
      BY DEF Drains
  <2>2. TypeOK /\ TableOK
      OBVIOUS
  <2> QED BY <2>1, <2>2, TableRemove, Zenon
<1>13. \A e \in Senders, c \in Conds : InTable(e, c)' <=> InTable(e, c) /\ e \notin D
    BY <1>12, <1>d DEF TableOK
<1>14. TypeOK'
  <2>1. entries' \in [Slots -> Threads \cup {Unblocked, Free}] /\ calls' \in [Threads -> Call]
      BY <1>3, ReleasedIs, ResumedIs
  <2>2. notifications_with_timeouts' \subseteq Senders
      BY <1>u DEF TypeOK
  <2> QED BY <1>m, <1>u, <1>10, <1>12, <2>1, <2>2 DEF TypeOK
<1>15. \A i \in DOMAIN inbox : /\ inbox[i].slot \in Slots /\ inbox[i].slot \notin N
                               /\ entries'[inbox[i].slot] = entries[inbox[i].slot]
                               /\ entries[inbox[i].slot] \in Threads =>
                                     calls'[entries[inbox[i].slot]] = calls[entries[inbox[i].slot]]
    BY <1>2, <1>4, MessageTypes DEF Waiting
<1>16. InboxOK'
  <2>1. now' \in Nat /\ now <= now'
      BY <1>u DEF TypeOK
  <2> QED BY <1>15, <1>u, <2>1, InboxFrame
<1>17. LoopOK'
  <2>1. msg_opt # Nothing /\ msg_opt' # Nothing /\ msg_opt.slot \in Slots /\ msg_opt.op \notin TimedOps
      BY <1>m, Shapes, MessageTypes DEF LoopOK, TimedOps
  <2>2. ASSUME msg_opt.blocking
        PROVE  /\ Waiting(msg_opt.slot)' /\ entries'[msg_opt.slot] = entries[msg_opt.slot]
               /\ calls'[entries[msg_opt.slot]] = calls[entries[msg_opt.slot]]
    <3>1. Waiting(msg_opt.slot) /\ ~Parked(msg_opt.slot)
        BY <2>1, <2>2 DEF LoopOK, Parked, InLoop
    <3>2. msg_opt.slot \notin N
        BY <1>2, <3>1
    <3>3. entries[msg_opt.slot] \in Threads
        BY <3>1 DEF Waiting
    <3>4. Waiting(msg_opt.slot)'
        BY <1>5, <2>1, <3>1, <3>2, <1>m
    <3> QED BY <1>4, <2>1, <3>2, <3>3, <3>4
  <2>3. now <= now'
      BY <1>u DEF TypeOK
  <2> QED BY <1>m, <1>14, <2>1, <2>2, <2>3, LoopFrame
<1>18. /\ \A e \in Senders : e \notin D => (HasRequest(e)' <=> HasRequest(e))
       /\ \A e, c : FiredAt(e, c)' <=> FiredAt(e, c)
       /\ \A e : e \in notifications_with_timeouts' <=> e \in notifications_with_timeouts /\ e \notin D
       /\ \A e \in Senders : Live(e) /\ e \notin D =>
            entries'[e[1]] = entries[e[1]] /\ calls'[entries[e[1]]] = calls[entries[e[1]]]
  <2>1. \A e \in Senders : e \notin D => (HasRequest(e)' <=> HasRequest(e))
      BY <1>8, <1>10 DEF HasRequest
  <2>2. \A e, c : FiredAt(e, c)' <=> FiredAt(e, c)
      BY <1>m, <1>u DEF FiredAt
  <2>3. \A e : e \in notifications_with_timeouts' <=> e \in notifications_with_timeouts /\ e \notin D
      BY <1>u
  <2>4. ASSUME NEW e \in Senders, Live(e), e \notin D
        PROVE  entries'[e[1]] = entries[e[1]] /\ calls'[entries[e[1]]] = calls[entries[e[1]]]
    <3>1. e[1] \in Slots /\ Parked(e[1]) /\ entries[e[1]] \in Threads /\ Live(e)'
        BY <1>6, <2>4, SenderIs DEF Live, Parked, Waiting
    <3>2. e[1] \notin N
        BY <1>5, <3>1 DEF Live
    <3> QED BY <1>4, <3>1, <3>2
  <2> QED BY <2>1, <2>2, <2>3, <2>4
<1>19. RequestsOK'
  <2>1. ASSUME NEW q \in H PROVE RequestOK(q)'
    <3>1. RequestOK(q) /\ q.sender \in Senders /\ q.sender \notin D /\ Live(q.sender)
        BY <1>8, OnRecord
    <3> QED BY <1>6, <1>13, <1>18, <3>1 DEF RequestOK
  <2> QED BY <1>10, <2>1 DEF RequestsOK
<1>20. TableOK'
  <2>1. ASSUME NEW e \in Senders, NEW c \in Conds, InTable(e, c)', WaiterOK(e, c) PROVE WaiterOK(e, c)'
    <3>1. e \notin D
        BY <1>13, <2>1
    <3> QED BY <1>6, <1>18, <2>1, <3>1 DEF WaiterOK
  <2>2. \A e \in notifications_with_timeouts' : \E c \in Conds : InTable(e, c)'
      BY <1>13, <1>18, OnRecord
  <2> QED BY <1>12, <1>13, <2>1, <2>2, ShorterTable
<1>21. RecalcsOK'
  <2>1. ASSUME NEW x \in Message, x.about \in Senders, RecalcOK(x) PROVE RecalcOK(x)'
      BY <1>5, <1>13, <1>18, <2>1, SenderIs DEF RecalcOK
  <2>2. ASSUME NEW i \in DOMAIN inbox, inbox[i].op = "RecalculateSleep" PROVE RecalcOK(inbox[i])'
    <3>1. PICK x \in Message : x = inbox[i] /\ x = inbox'[i] /\ x.about \in Senders /\ RecalcOK(x)
        BY <1>u, <2>2, MessageTypes DEF InboxOK, QueuedOK, RecalcsOK
    <3> QED BY <2>1, <3>1
  <2> QED BY <1>m, <1>u, <2>2 DEF RecalcsOK
<1>22. RecordOK'
  <2> SUFFICES ASSUME NEW s \in Slots, Parked(s)', calls'[entries'[s]] # Gone
               PROVE  /\ calls'[entries'[s]].op = "SleepMs" => HasRequest(<<s, Holder(s)>>)'
                      /\ calls'[entries'[s]].op = "WaitForCondition" =>
                            /\ calls'[entries'[s]].cond \in Conds
                            /\ InTable(<<s, Holder(s)>>, calls[entries[s]].cond)'
      BY DEF RecordOK
  <2>1. /\ Parked(s) /\ s \notin N /\ entries[s] \in Threads
        /\ entries'[s] = entries[s] /\ calls'[entries[s]] = calls[entries[s]]
      BY <1>4, <1>5 DEF Parked, Waiting
  <2>2. PICK e \in Senders : e = <<s, Holder(s)>>
      BY <2>1, TicktimerAssumption DEF Holder, Senders
  <2>3. e = <<s, Holder(s)>>'
      BY <2>1, <2>2 DEF Holder
  <2>4. Live(e) /\ e[1] = s
      BY <2>1, <2>2, SenderIs DEF Live
  <2>4a. e \notin D
      BY <1>2, <2>1, <2>4
  <2>5. /\ calls[entries[s]].op = "SleepMs" => HasRequest(e)
        /\ calls[entries[s]].op = "WaitForCondition" =>
             calls[entries[s]].cond \in Conds /\ InTable(e, calls[entries[s]].cond)
      BY <2>1, <2>2 DEF RecordOK
  <2> QED BY <1>13, <1>18, <2>1, <2>3, <2>4a, <2>5
<1> QED BY <1>u, <1>4, <1>10, <1>11, <1>14, <1>16, <1>17, <1>19, <1>20, <1>21, <1>22, <1>13

\* The image of a finite set is finite.
LEMMA ImageFinite ==
    ASSUME NEW S, IsFiniteSet(S), NEW f, DOMAIN f = S
    PROVE  IsFiniteSet({f[x] : x \in S})
<1> DEFINE T == {f[x] : x \in S}
           g == [x \in S |-> f[x]]
<1>1. g \in Surjection(S, T)
    BY DEF Surjection
<1> HIDE DEF g
<1> QED BY <1>1, FS_Surjection

\* Draining the first n entries of a sequence.
LEMMA DrainSeq ==
    ASSUME NEW T, NEW a \in Seq(T), NEW n \in 0 .. Len(a), NoRepeats(a)
    PROVE  /\ ToSet(SubSeq(a, 1, n)) \in SUBSET T
           /\ \A x : x \in ToSet(SubSeq(a, 1, n)) <=> \E i \in 1 .. n : i \in DOMAIN a /\ a[i] = x
           /\ Cardinality(ToSet(SubSeq(a, 1, n))) = n
           /\ SubSeq(a, n + 1, Len(a)) \in Seq(T)
           /\ NoRepeats(SubSeq(a, n + 1, Len(a)))
           /\ \A x : (\E i \in DOMAIN SubSeq(a, n + 1, Len(a)) : SubSeq(a, n + 1, Len(a))[i] = x)
                        <=> x \notin ToSet(SubSeq(a, 1, n)) /\ \E i \in DOMAIN a : a[i] = x
<1> DEFINE l == Len(a)
<1>0. l \in Nat /\ n \in Nat /\ n <= l /\ DOMAIN a = 1 .. l /\ \A i \in 1 .. l : a[i] \in T
    OBVIOUS
<1> HIDE DEF l
<1>1. PICK d : d = SubSeq(a, 1, n)
    OBVIOUS
<1>2. d \in Seq(T) /\ Len(d) = n /\ \A i \in 1 .. n : d[i] = a[i]
  <2>1. \A i \in 1 .. n : a[i] \in T
      BY <1>0
  <2>2. /\ SubSeq(a, 1, n) \in Seq(T)
        /\ Len(SubSeq(a, 1, n)) = IF 1 <= n THEN n - 1 + 1 ELSE 0
        /\ \A i \in 1 .. n - 1 + 1 : SubSeq(a, 1, n)[i] = a[1 + i - 1]
      BY <1>0, <2>1, SubSeqProperties
  <2> QED BY <1>0, <1>1, <2>2
<1>3. DOMAIN d = 1 .. n
    BY <1>2
<1>4. \A x : x \in ToSet(d) <=> \E i \in 1 .. n : i \in DOMAIN a /\ a[i] = x
    BY <1>0, <1>2, <1>3 DEF ToSet
<1>5. ToSet(d) \in SUBSET T
    BY <1>0, <1>4
<1>6. Cardinality(ToSet(d)) = n
  <2> DEFINE f == [i \in 1 .. n |-> a[i]]
  <2>1. f \in [1 .. n -> ToSet(d)]
      BY <1>0, <1>4
  <2>2. \A x \in ToSet(d) : \E i \in 1 .. n : f[i] = x
      BY <1>4
  <2>3. \A i, j \in 1 .. n : f[i] = f[j] => i = j
      BY <1>0 DEF NoRepeats
  <2> HIDE DEF f
  <2>4. f \in Bijection(1 .. n, ToSet(d))
      BY <2>1, <2>2, <2>3 DEF Bijection, Injection, Surjection, IsInjective
  <2>5. ExistsBijection(1 .. n, ToSet(d))
      BY <2>4 DEF ExistsBijection
  <2> QED BY <1>0, <2>5, FS_CountingElements
<1>7. PICK b : b = SubSeq(a, n + 1, l)
    OBVIOUS
<1>8. b \in Seq(T) /\ Len(b) = l - n /\ \A i \in 1 .. l - n : b[i] = a[n + i]
  <2>1. \A i \in n + 1 .. l : a[i] \in T
      BY <1>0
  <2>2. /\ SubSeq(a, n + 1, l) \in Seq(T)
        /\ Len(SubSeq(a, n + 1, l)) = IF n + 1 <= l THEN l - (n + 1) + 1 ELSE 0
        /\ \A i \in 1 .. l - (n + 1) + 1 : SubSeq(a, n + 1, l)[i] = a[n + 1 + i - 1]
      BY <1>0, <2>1, SubSeqProperties
  <2>3. l - (n + 1) + 1 = l - n /\ \A i \in Int : n + 1 + i - 1 = n + i
      BY <1>0
  <2>4. \A i \in 1 .. l - n : i \in Int
      BY <1>0
  <2> QED BY <1>0, <1>7, <2>2, <2>3, <2>4
<1>9. DOMAIN b = 1 .. l - n /\ \A i \in 1 .. l - n : n + i \in 1 .. l /\ n + i > n
    BY <1>0, <1>8
<1>10. NoRepeats(b)
  <2> SUFFICES ASSUME NEW i \in 1 .. l - n, NEW j \in 1 .. l - n, b[i] = b[j] PROVE i = j
      BY <1>9 DEF NoRepeats
  <2>1. n + i = n + j
      BY <1>0, <1>8, <1>9 DEF NoRepeats
  <2> QED BY <1>0, <2>1
<1>11. ASSUME NEW x
       PROVE  (\E i \in DOMAIN b : b[i] = x) <=> x \notin ToSet(d) /\ \E i \in DOMAIN a : a[i] = x
  <2>1. ASSUME NEW i \in 1 .. l - n, b[i] = x
        PROVE  x \notin ToSet(d) /\ \E k \in DOMAIN a : a[k] = x
    <3>1. a[n + i] = x /\ n + i \in DOMAIN a /\ n + i > n
        BY <1>0, <1>8, <1>9, <2>1
    <3>2. ASSUME NEW k \in 1 .. n, k \in DOMAIN a, a[k] = x PROVE FALSE
      <4>1. k = n + i
          BY <3>1, <3>2 DEF NoRepeats
      <4> QED BY <1>0, <3>1, <4>1
    <3> QED BY <1>4, <3>1, <3>2
  <2>2. ASSUME x \notin ToSet(d), NEW k \in DOMAIN a, a[k] = x
        PROVE  \E i \in 1 .. l - n : b[i] = x
    <3>1. k \in 1 .. l /\ k \notin 1 .. n
        BY <1>0, <1>4, <2>2
    <3>2. k - n \in 1 .. l - n /\ n + (k - n) = k
        BY <1>0, <3>1
    <3> QED BY <1>8, <2>2, <3>2
  <2> QED BY <1>9, <2>1, <2>2
<1> QED BY <1>1, <1>4, <1>5, <1>6, <1>7, <1>8, <1>10, <1>11 DEF l

\* A sender has at most one request.
LEMMA OneRequest ==
    ASSUME IInv, NEW S
    PROVE  AtMostOneRequest(S)
<1> SUFFICES ASSUME NEW e \in S PROVE Cardinality({r \in StoppedHeap : r.sender = e}) <= 1
    BY DEF AtMostOneRequest
<1>1. \A r, q \in StoppedHeap : r.sender = q.sender => r = q
    BY DEF IInv, RequestsOK
<1>2. CASE \A r \in StoppedHeap : r.sender # e
  <2>1. {r \in StoppedHeap : r.sender = e} = {}
      BY <1>2
  <2>2. Cardinality({r \in StoppedHeap : r.sender = e}) = 0
      BY <2>1, FS_EmptySet, Zenon
  <2> QED BY <2>2
<1>3. CASE \E r \in StoppedHeap : r.sender = e
  <2>1. PICK q \in StoppedHeap : q.sender = e
      BY <1>3
  <2>2. {r \in StoppedHeap : r.sender = e} = {q}
      BY <1>1, <2>1
  <2>3. Cardinality({r \in StoppedHeap : r.sender = e}) = 1
      BY <2>2, FS_Singleton, Zenon
  <2> QED BY <2>3
<1> QED BY <1>2, <1>3

\* A handler that answers the waiters D of the place that its message names, and nobody else.
Drained(p0, c0, D, b) ==
    /\ p0 = msg_opt.pid /\ c0 = msg_opt.cond
    /\ Drains(p0, c0, D, b)
    /\ answered' = Answers(SlotsOf(D \ AlreadyFired(D)), 0)

\* Only finitely many threads are answered.
LEMMA WokenFinite ==
    ASSUME IInv, NEW a \in Seq(Senders), NEW n \in Nat, NEW N,
           \A s \in N : \E i \in 1 .. n : i \in DOMAIN a /\ a[i][1] = s
    PROVE  Cardinality(Woken(N)) \in Nat
<1> DEFINE f == [i \in 1 .. n |-> entries[a[i][1]]]
           T == {f[i] : i \in 1 .. n}
<1>1. IsFiniteSet(1 .. n) /\ DOMAIN f = 1 .. n
    BY FS_Interval
<1>2. \A i \in 1 .. n : f[i] = entries[a[i][1]]
    OBVIOUS
<1> HIDE DEF f
<1>3. IsFiniteSet(T)
    BY <1>1, ImageFinite
<1>4. Woken(N) \subseteq T
  <2> SUFFICES ASSUME NEW t \in Woken(N) PROVE t \in T
      OBVIOUS
  <2>1. PICK s \in N : entries[s] = t
      BY DEF Woken
  <2>2. PICK i \in 1 .. n : a[i][1] = s
      OBVIOUS
  <2> QED BY <1>2, <2>1, <2>2
<1>5. IsFiniteSet(Woken(N))
    BY <1>3, <1>4, FS_Subset
<1> QED BY <1>5, FS_CardinalityType

\* notify_condition answers the oldest waiters, and no assertion of it fails.
LEMMA NotifyIs ==
    ASSUME IInv, NotifyCondition
    PROVE  /\ \E p0 \in Processes, c0 \in Conds, D \in SUBSET Senders, b \in Seq(Senders) :
                Drained(p0, c0, D, b)
           /\ panicked' = "no"
<1> USE DEF IInv
<1>1. /\ handling /\ msg_opt.op = "NotifyCondition" /\ handling' = FALSE
      /\ UNCHANGED <<now, inbox, left, LAST_RESPONDER, suspend>>
    BY DEF NotifyCondition, Handling
<1>2. PICK p0 \in Processes, c0 \in Conds : p0 = msg_opt.pid /\ c0 = msg_opt.cond
    BY <1>1 DEF LoopOK
<1>3. PICK a \in Seq(Senders) : a = notify_table[<<p0, c0>>]
    BY DEF TypeOK
<1>4. msg_opt \in Message /\ msg_opt.arg \in Nat /\ NoRepeats(a)
    BY <1>1, <1>3, MessageTypes DEF LoopOK, TableOK
<1>5. PICK count \in 0 .. Len(a) :
         count = IF msg_opt.arg = 0 \/ msg_opt.arg > Len(a) THEN Len(a) ELSE msg_opt.arg
    BY <1>4
<1>6. PICK D, b : D = ToSet(SubSeq(a, 1, count)) /\ b = SubSeq(a, count + 1, Len(a))
    OBVIOUS
<1>7. /\ D \in SUBSET Senders /\ b \in Seq(Senders) /\ NoRepeats(b) /\ Cardinality(D) = count
      /\ \A x : x \in D <=> \E i \in 1 .. count : i \in DOMAIN a /\ a[i] = x
      /\ \A x : (\E i \in DOMAIN b : b[i] = x) <=> x \notin D /\ \E i \in DOMAIN a : a[i] = x
    BY <1>4, <1>6, DrainSeq
<1>8. PICK N : N = SlotsOf(D \ AlreadyFired(D))
    OBVIOUS
<1>9. /\ msg_opt' = [msg_opt EXCEPT !.arg = Cardinality(Woken(N))]
      /\ notify_table' = [notify_table EXCEPT ![<<p0, c0>>] = b]
      /\ notifications_with_timeouts' = notifications_with_timeouts \ D
      /\ StartSleep(Without(StoppedHeap, D \cap notifications_with_timeouts))
      /\ entries' = Released(N) /\ calls' = Resumed(N) /\ answered' = Answers(N, 0)
      /\ Asserts(/\ StopSleepAsserts
                 /\ AtMostOneRequest(D \cap notifications_with_timeouts)
                 /\ \A s \in N : Waiting(s)
                 /\ Cardinality(D) = count)
    BY <1>2, <1>3, <1>5, <1>6, <1>8 DEF NotifyCondition
<1>10. \A e \in D : e[2] = p0 /\ InTable(e, c0)
  <2> TAKE e \in D
  <2>1. PICK i \in DOMAIN a : a[i] = e
      BY <1>7
  <2>2. e[2] = p0
      BY <1>3, <2>1, TableEntries
  <2> QED BY <1>3, <2>1, <2>2 DEF InTable
<1>11. \A s \in N : Waiting(s) /\ \E i \in 1 .. count : i \in DOMAIN a /\ a[i][1] = s
  <2>1. \A s \in N : \E e \in D : e[1] = s /\ Waiting(s)
      BY <1>7, <1>8, <1>10, DrainedIs, SMTT(30)
  <2> QED BY <1>7, <2>1
<1>12. Cardinality(Woken(N)) \in Nat
    BY <1>11, WokenFinite
<1>13. /\ msg_opt' \in Message
       /\ msg_opt'.op = msg_opt.op /\ msg_opt'.slot = msg_opt.slot /\ msg_opt'.pid = msg_opt.pid
       /\ msg_opt'.blocking = msg_opt.blocking /\ msg_opt'.cond = msg_opt.cond
       /\ msg_opt'.about = msg_opt.about
    BY <1>4, <1>9, <1>12 DEF Message
<1>14. panicked' = "no"
  <2>1. StopSleepAsserts /\ AtMostOneRequest(D \cap notifications_with_timeouts)
      BY StopSleepHolds, OneRequest
  <2> QED BY <1>7, <1>9, <1>11, <2>1 DEF Asserts
<1>15. answered' \subseteq [thread : Threads, value : Nat]
    BY <1>9, AnswersIs
<1>16. Drains(p0, c0, D, b)
    BY <1>1, <1>3, <1>7, <1>8, <1>9, <1>10, <1>13, <1>14, <1>15 DEF Drains
<1> QED BY <1>2, <1>7, <1>8, <1>9, <1>14, <1>16 DEF Drained

\* notify_condition keeps the invariant, and no assertion of it fails.
LEMMA NotifyInv ==
    ASSUME IInv, NotifyCondition
    PROVE  IInv' /\ panicked' = "no"
    BY NotifyIs, DrainInv DEF Drained

\* FreeCondition answers all waiters; no assertion of it fails if there are none.
LEMMA FreeIs ==
    ASSUME IInv, FreeCondition
    PROVE  /\ \E p0 \in Processes, c0 \in Conds, D \in SUBSET Senders, b \in Seq(Senders) :
                Drained(p0, c0, D, b)
           /\ DOMAIN notify_table[<<msg_opt.pid, msg_opt.cond>>] = {} => panicked' = "no"
<1> USE DEF IInv
<1>1. /\ handling /\ msg_opt.op = "FreeCondition" /\ handling' = FALSE /\ msg_opt' = msg_opt
      /\ UNCHANGED <<now, inbox, left, LAST_RESPONDER, suspend>>
    BY DEF FreeCondition, Handling, Done
<1>2. PICK p0 \in Processes, c0 \in Conds : p0 = msg_opt.pid /\ c0 = msg_opt.cond
    BY <1>1 DEF LoopOK
<1>3. PICK a \in Seq(Senders) : a = notify_table[<<p0, c0>>]
    BY DEF TypeOK
<1>4. msg_opt \in Message
    BY <1>1, MessageTypes DEF LoopOK
<1>6. PICK D : D = ToSet(a)
    OBVIOUS
<1>7. \A x : x \in D <=> \E i \in DOMAIN a : a[i] = x
    BY <1>6 DEF ToSet
<1>8. D \in SUBSET Senders
    BY <1>7
<1>e. <<>> \in Seq(Senders)
    OBVIOUS
<1>9. PICK b \in Seq(Senders) : b = <<>>
    BY <1>e, Zenon
<1>10. /\ NoRepeats(b)
       /\ \A x : (\E i \in DOMAIN b : b[i] = x) <=> x \notin D /\ \E i \in DOMAIN a : a[i] = x
  <2>1. DOMAIN b = {}
      BY <1>9
  <2> QED BY <1>7, <2>1 DEF NoRepeats
<1>11. PICK N : N = SlotsOf(D \ AlreadyFired(D))
    OBVIOUS
<1>12. /\ notify_table' = [notify_table EXCEPT ![<<p0, c0>>] = b]
       /\ notifications_with_timeouts' = notifications_with_timeouts \ D
       /\ StartSleep(Without(StoppedHeap, D \cap notifications_with_timeouts))
       /\ entries' = Released(N) /\ calls' = Resumed(N) /\ answered' = Answers(N, 0)
       /\ Asserts(/\ StopSleepAsserts
                  /\ AtMostOneRequest(D \cap notifications_with_timeouts)
                  /\ \A e \in D \cap notifications_with_timeouts :
                       (LAST_RESPONDER = e) <=> (e \in AlreadyFired(D)))
    BY <1>2, <1>3, <1>6, <1>9, <1>11 DEF FreeCondition
<1>13. \A e \in D : e[2] = p0 /\ InTable(e, c0)
  <2> TAKE e \in D
  <2>1. PICK i \in DOMAIN a : a[i] = e
      BY <1>7
  <2>2. e[2] = p0
      BY <1>3, <2>1, TableEntries
  <2> QED BY <1>3, <2>1, <2>2 DEF InTable
<1>14. panicked' \in {"no", "assert", "reply"}
    BY <1>12, Zenon DEF Asserts
<1>15. answered' \subseteq [thread : Threads, value : Nat]
    BY <1>12, AnswersIs
<1>16. Drains(p0, c0, D, b)
    BY <1>1, <1>3, <1>4, <1>10, <1>11, <1>12, <1>13, <1>14, <1>15 DEF Drains
<1>17. ASSUME DOMAIN a = {} PROVE panicked' = "no"
  <2>1. D = {}
      BY <1>7, <1>17
  <2>2. StopSleepAsserts /\ AtMostOneRequest(D \cap notifications_with_timeouts)
      BY StopSleepHolds, OneRequest
  <2>3. \A e \in D \cap notifications_with_timeouts : (LAST_RESPONDER = e) <=> (e \in AlreadyFired(D))
      BY <2>1
  <2> QED BY <1>12, <2>2, <2>3 DEF Asserts
<1> QED BY <1>2, <1>3, <1>8, <1>11, <1>12, <1>16, <1>17 DEF Drained

\* free_condition keeps the invariant.
LEMMA FreeInv ==
    ASSUME IInv, FreeCondition
    PROVE  IInv'
    BY FreeIs, DrainInv DEF Drained

\* The alarm interrupt has answered request r, and has queued message m about it.
Fired(r, K, s, m, v) ==
    /\ r = current_response /\ r \in TimerRequest
    /\ K = {r.sender[1]} /\ K \in SUBSET Slots
    /\ s \in Slots /\ Released(K)[s] = Free
    /\ v \in Nat /\ v = IF r.kind = "Sleep" THEN 0 ELSE 1
    /\ m \in Message /\ m.op = "RecalculateSleep" /\ m.slot = s /\ ~m.blocking
    /\ m.cond = r.data /\ m.about = r.sender
    /\ current_response' = Nothing
    /\ alarm' = [alarm EXCEPT !.enabled = FALSE]
    /\ calls' = Resumed(K) /\ answered' = Answers(K, v)
    /\ entries' = [Released(K) EXCEPT ![s] = Unblocked]
    /\ inbox' = Append(inbox, m)
    /\ LAST_RESPONDER' = r.sender
    /\ UNCHANGED <<now, left, msg_opt, handling, condVars, sleep_heap, suspend, panicked>>

\* What handle_irq may count on: the request that its sender waits for.
LEMMA FiredRequest ==
    ASSUME IInv, current_response # Nothing
    PROVE  /\ current_response \in TimerRequest /\ current_response \in StoppedHeap
           /\ RequestOK(current_response) /\ current_response.sender \in Senders
           /\ current_response.sender[1] \in Slots
           /\ Live(current_response.sender) /\ Waiting(current_response.sender[1])
           /\ entries[current_response.sender[1]] \in Threads
<1>1. current_response \in StoppedHeap
    BY DEF StoppedHeap
<1>2. PICK r \in StoppedHeap : r = current_response
    BY <1>1
<1>3. r \in TimerRequest /\ r.sender \in Senders /\ RequestOK(r) /\ Live(r.sender)
    BY OnRecord
<1>4. PICK e \in Senders : e = r.sender
    BY <1>3
<1>5. e[1] \in Slots /\ Waiting(e[1]) /\ entries[e[1]] \in Threads
    BY <1>3, <1>4, OnRecord, SenderIs
<1> QED BY <1>1, <1>2, <1>3, <1>4, <1>5

\* The interrupt never finds the alarm without a request, and the answer frees the entry
\* that its message to the server needs.
LEMMA IrqIs ==
    ASSUME IInv, handle_irq
    PROVE  \E r, K, s, m, v : Fired(r, K, s, m, v)
<1>0. alarm.enabled /\ current_response # Nothing
    BY DEF handle_irq, IInv, TimerOK
<1>1. PICK r \in TimerRequest : r = current_response
    BY <1>0, FiredRequest
<1>2. PICK K : K = {r.sender[1]}
    OBVIOUS
<1>3. PICK v \in Nat : v = IF r.kind = "Sleep" THEN 0 ELSE 1
    OBVIOUS
<1>4. r.sender \in Senders /\ r.sender[1] \in Slots /\ Waiting(r.sender[1])
    BY <1>0, <1>1, FiredRequest
<1>5. /\ current_response' = Nothing
      /\ alarm' = [alarm EXCEPT !.enabled = FALSE]
      /\ calls' = Resumed(K) /\ answered' = Answers(K, v)
      /\ \/ FreeSlots(Released(K)) = {}
         \/ \E s \in FreeSlots(Released(K)) :
              /\ entries' = [Released(K) EXCEPT ![s] = Unblocked]
              /\ inbox' = Append(inbox, [op |-> "RecalculateSleep", slot |-> s, pid |-> None,
                                         blocking |-> FALSE, cond |-> r.data, arg |-> 0,
                                         about |-> r.sender])
      /\ LAST_RESPONDER' = r.sender
      /\ UNCHANGED <<now, left, msg_opt, handling, condVars, sleep_heap, suspend, panicked>>
    BY <1>0, <1>1, <1>2, <1>3 DEF handle_irq, RoomAfterAnswer
<1>6. r.sender[1] \in FreeSlots(Released(K))
    BY <1>2, <1>4, ReleasedIs DEF FreeSlots, IInv
<1>7. PICK s \in FreeSlots(Released(K)) :
              /\ entries' = [Released(K) EXCEPT ![s] = Unblocked]
              /\ inbox' = Append(inbox, [op |-> "RecalculateSleep", slot |-> s, pid |-> None,
                                         blocking |-> FALSE, cond |-> r.data, arg |-> 0,
                                         about |-> r.sender])
    BY <1>5, <1>6
<1>8. s \in Slots /\ Released(K)[s] = Free
    BY DEF FreeSlots
<1>9. PICK m : m = [op |-> "RecalculateSleep", slot |-> s, pid |-> None, blocking |-> FALSE,
                    cond |-> r.data, arg |-> 0, about |-> r.sender]
    OBVIOUS
<1>10. /\ m.op = "RecalculateSleep" /\ m.slot = s /\ ~m.blocking /\ m.cond = r.data
       /\ m.about = r.sender
    BY <1>9
<1>11. m \in Message
  <2>1. r.data \in Conds \cup {None} /\ "RecalculateSleep" \in Opcodes
      BY DEF TimerRequest, Opcodes
  <2> QED BY <1>4, <1>8, <1>9, <2>1 DEF Message
<1>12. inbox' = Append(inbox, m)
    BY <1>7, <1>9
<1>13. K \in SUBSET Slots
    BY <1>2, <1>4
<1>14. Fired(r, K, s, m, v)
    BY <1>1, <1>2, <1>3, <1>5, <1>7, <1>8, <1>10, <1>11, <1>12, <1>13 DEF Fired
<1> QED BY <1>14

\* The alarm interrupt keeps the invariant: the time-out stays in the table, and a message
\* about it is queued behind everything that its sender has sent.
LEMMA FiredInv ==
    ASSUME IInv, NEW r, NEW K, NEW s, NEW m, NEW v, alarm.enabled, Fired(r, K, s, m, v)
    PROVE  IInv'
<1> USE DEF IInv
<1>u. /\ s \in Slots /\ m \in Message /\ m.slot = s /\ m.op = "RecalculateSleep" /\ ~m.blocking
      /\ inbox' = Append(inbox, m) /\ calls' = Resumed(K) /\ v \in Nat
      /\ UNCHANGED <<now, left, msg_opt, handling, condVars, sleep_heap, suspend, panicked>>
    BY DEF Fired
<1>c. UNCHANGED <<notify_table, notifications_with_timeouts>>
    BY <1>u DEF condVars
<1>t. TypeOK /\ now' \in Nat /\ now <= now'
    BY <1>u DEF TypeOK
<1>1. PICK e0 \in Senders : e0 = r.sender
  <2>1. r.sender \in Senders
      BY DEF Fired, TimerRequest
  <2> QED BY <2>1
<1>2. /\ r \in StoppedHeap /\ RequestOK(r) /\ e0[1] \in Slots
      /\ Live(e0) /\ Waiting(e0[1]) /\ entries[e0[1]] \in Threads
      /\ r = current_response /\ current_response # Nothing
      /\ m.about = e0 /\ m.cond = r.data
    BY <1>1, FiredRequest DEF Fired, TimerOK
<1>3. PICK k \in Slots : k = e0[1] /\ K = {k} /\ Waiting(k) /\ entries[k] \in Threads /\ Parked(k)
    BY <1>1, <1>2 DEF Fired, Live
<1>4. /\ Released(K) \in [Slots -> Threads \cup {Unblocked, Free}]
      /\ \A x \in Slots : Released(K)[x] = IF x = k THEN Free ELSE entries[x]
    BY <1>3, ReleasedIs
<1>5. /\ entries' \in [Slots -> Threads \cup {Unblocked, Free}]
      /\ entries'[s] = Unblocked
      /\ \A x \in Slots : x # s => entries'[x] = IF x = k THEN Free ELSE entries[x]
      /\ s = k \/ entries[s] = Free
    BY <1>4 DEF Fired
<1>6. \A x \in Slots : entries[x] \in Threads /\ x # k =>
          x # s /\ entries'[x] = entries[x] /\ calls'[entries[x]] = calls[entries[x]]
  <2> TAKE x \in Slots
  <2>1. entries[x] \in Threads /\ x # k => x # s
      BY <1>5, Markers
  <2>2. entries[x] \in Threads /\ x # k => calls'[entries[x]] = calls[entries[x]]
      BY <1>3, <1>u, ReleaseFrame
  <2> QED BY <1>5, <2>1, <2>2
<1>7. \A x \in Slots : entries'[x] \in Threads =>
          x # k /\ x # s /\ entries[x] \in Threads /\ entries'[x] = entries[x]
    BY <1>5, Markers
<1>8. EntriesOK'
  <2>1. \A t, u \in Threads : ProcessOf[t] = ProcessOf[u] /\ calls'[t] = Gone => calls'[u] = Gone
      BY <1>3, <1>u, ReleaseFrame DEF EntriesOK
  <2>2. \A x, y \in Slots : entries'[x] \in Threads /\ entries'[x] = entries'[y] => x = y
      BY <1>7 DEF EntriesOK
  <2>3. \A x \in Slots : entries'[x] \in Threads => calls'[entries'[x]] # Idle
      BY <1>6, <1>7 DEF EntriesOK
  <2> QED BY <2>1, <2>2, <2>3 DEF EntriesOK
<1>9. /\ \A i \in DOMAIN inbox : /\ i \in DOMAIN inbox' /\ inbox'[i] = inbox[i]
                                 /\ i \in Int /\ i < Len(inbox) + 1
                                 /\ inbox[i] \in Message /\ inbox[i].slot \in Slots
                                 /\ inbox[i].slot # s /\ inbox[i].slot # k
      /\ Len(inbox) + 1 \in DOMAIN inbox' /\ inbox'[Len(inbox) + 1] = m
      /\ \A i \in DOMAIN inbox' : i \in DOMAIN inbox \/ i = Len(inbox) + 1
      /\ Len(inbox) + 1 \in Int
      /\ inbox' \in Seq(Message)
  <2>1. \A i \in DOMAIN inbox : inbox[i].slot # k
      BY <1>3 DEF Waiting
  <2>2. \A i \in DOMAIN inbox : inbox[i].slot # s
      BY <1>5, <2>1, QueuedHolds
  <2> QED BY <1>u, <2>1, <2>2, AppendIs, MessageTypes DEF TypeOK
<1>10. /\ \A x \in Slots : Waiting(x)' <=> Waiting(x) /\ x # k
       /\ \A x \in Slots : Parked(x)' <=> Parked(x) /\ x # k
  <2>1. \A x \in Slots : Waiting(x)' <=> Waiting(x) /\ x # k
    <3> TAKE x \in Slots
    <3>1. CASE x = k
        BY <1>7, <3>1 DEF Waiting
    <3>2. CASE x = s /\ x # k
        BY <1>5, <1>7, <3>2, Markers DEF Waiting
    <3>3. CASE x # s /\ x # k
        BY <1>5, <1>9, <1>u, <3>3 DEF Waiting
    <3> QED BY <3>1, <3>2, <3>3
  <2>2. \A x : InLoop(x)' <=> InLoop(x)
      BY <1>u DEF InLoop
  <2> QED BY <2>1, <2>2 DEF Parked
<1>11. \A e \in Senders : Live(e)' <=> Live(e) /\ e # e0
  <2> TAKE e \in Senders
  <2>1. e[1] \in Slots
      BY SenderIs
  <2>2. Parked(e[1]) /\ e[1] # k => Holder(e[1])' = Holder(e[1])
      BY <1>6, <2>1 DEF Parked, Waiting, Holder
  <2>3. Live(e) /\ e[1] = k => e = e0
      BY <1>2, <1>3, SenderIs DEF Live
  <2> QED BY <1>3, <1>10, <2>1, <2>2, <2>3 DEF Live
<1>12. /\ \A q : q \in StoppedHeap' <=> q \in StoppedHeap /\ q # r
       /\ current_response' = Nothing
  <2>1. r.msec \in Nat /\ r \notin sleep_heap
      BY <1>2 DEF TypeOK, TimerOK, TimerRequest
  <2>2. current_response' = Nothing
      BY DEF Fired
  <2> QED BY <1>2, <1>u, <2>1, <2>2 DEF StoppedHeap
<1>13. alarm' \in [enabled : BOOLEAN, target : Nat] /\ alarm'.enabled = FALSE
    BY DEF Fired, TypeOK
<1>14. TimerOK'
    BY <1>12, <1>13, <1>u DEF TimerOK
<1>15. RearmOK'
    BY <1>9, <1>u DEF RearmOK, Rearming
<1>16. TypeOK'
  <2>1. calls' \in [Threads -> Call] /\ answered' \subseteq [thread : Threads, value : Nat]
      BY <1>u, ResumedIs, AnswersIs DEF Fired
  <2>2. LAST_RESPONDER' \in Senders \cup {None} /\ current_response' \in TimerRequest \cup {Nothing}
      BY <1>1, <1>12 DEF Fired
  <2> QED BY <1>5, <1>9, <1>13, <1>c, <1>u, <2>1, <2>2 DEF TypeOK
<1>17. InboxOK'
  <2>1. ASSUME NEW i \in DOMAIN inbox', NEW j \in DOMAIN inbox', inbox'[i].slot = inbox'[j].slot
        PROVE  i = j
      BY <1>9, <1>u, <2>1 DEF InboxOK
  <2>2. ASSUME NEW i \in DOMAIN inbox PROVE QueuedOK(inbox[i])'
    <3>1. PICK x \in Message : x = inbox[i]
        BY <1>9
    <3>2. QueuedOK(x) /\ x.slot \in Slots /\ x.slot # s /\ x.slot # k
        BY <1>9, <3>1 DEF InboxOK
    <3>3. /\ entries'[x.slot] = entries[x.slot]
          /\ entries[x.slot] \in Threads => calls'[entries[x.slot]] = calls[entries[x.slot]]
        BY <1>5, <1>6, <3>2
    <3>4. QueuedOK(x)'
        BY <1>t, <3>2, <3>3, QueuedFrame
    <3>5. inbox'[i] = x
        BY <1>9, <3>1
    <3> QED BY <3>4, <3>5
  <2>3. QueuedOK(m)'
    <3>1. m.op \notin BlockingOps
        BY <1>u DEF BlockingOps
    <3> QED BY <1>2, <1>5, <1>u, <3>1 DEF QueuedOK
  <2>4. \A i \in DOMAIN inbox' : QueuedOK(inbox[i])'
      BY <1>9, <2>2, <2>3
  <2> QED BY <2>1, <2>4 DEF InboxOK
<1>18. LoopOK'
  <2>2. ASSUME msg_opt # Nothing, msg_opt.blocking
        PROVE  /\ Waiting(msg_opt.slot)' /\ entries'[msg_opt.slot] = entries[msg_opt.slot]
               /\ calls'[entries[msg_opt.slot]] = calls[entries[msg_opt.slot]]
    <3>1. msg_opt.slot \in Slots /\ Waiting(msg_opt.slot) /\ ~Parked(msg_opt.slot)
        BY <2>2, MessageTypes DEF LoopOK, Parked, InLoop
    <3>2. msg_opt.slot # k
        BY <1>3, <3>1
    <3>3. entries[msg_opt.slot] \in Threads
        BY <3>1 DEF Waiting
    <3>4. Waiting(msg_opt.slot)'
        BY <1>10, <3>1, <3>2, <1>u
    <3> QED BY <1>6, <3>1, <3>2, <3>3, <3>4
  <2>3. msg_opt # Nothing /\ msg_opt.blocking /\ ~handling' => msg_opt.op \notin TimedOps
      BY <1>u DEF LoopOK
  <2> QED BY <1>16, <1>t, <1>u, <2>2, <2>3, LoopFrame
<1>19. /\ \A e \in Senders : HasRequest(e)' <=> HasRequest(e) /\ e # e0
       /\ \A e, c : FiredAt(e, c) => FiredAt(e, c)'
       /\ FiredAt(e0, r.data)'
       /\ \A e, c : InTable(e, c)' <=> InTable(e, c)
       /\ \A e \in Senders : Live(e) /\ e # e0 =>
            entries'[e[1]] = entries[e[1]] /\ calls'[entries[e[1]]] = calls[entries[e[1]]]
  <2>1. \A e \in Senders : HasRequest(e)' <=> HasRequest(e) /\ e # e0
      BY <1>1, <1>2, <1>12 DEF HasRequest, RequestsOK
  <2>2. \A e, c : FiredAt(e, c) => FiredAt(e, c)'
      BY <1>9, <1>u DEF FiredAt
  <2>3. FiredAt(e0, r.data)'
      BY <1>2, <1>9, <1>u DEF FiredAt
  <2>4. \A e, c : InTable(e, c)' <=> InTable(e, c)
      BY <1>c DEF InTable
  <2>5. ASSUME NEW e \in Senders, Live(e), e # e0
        PROVE  entries'[e[1]] = entries[e[1]] /\ calls'[entries[e[1]]] = calls[entries[e[1]]]
    <3>1. e[1] \in Slots /\ Parked(e[1]) /\ entries[e[1]] \in Threads /\ Live(e)'
        BY <1>11, <2>5, SenderIs DEF Live, Parked, Waiting
    <3>2. e[1] # k
        BY <1>10, <3>1 DEF Live
    <3> QED BY <1>6, <3>1, <3>2
  <2> QED BY <2>1, <2>2, <2>3, <2>4, <2>5
<1>20. e0 \in notifications_with_timeouts => r.data \in Conds /\ InTable(e0, r.data)
  <2>1. r.kind \in {"Sleep", "Timeout"}
      BY DEF Fired, TimerRequest
  <2> QED BY <1>1, <1>2, <2>1 DEF RequestOK
<1>21. RequestsOK'
  <2>1. ASSUME NEW q \in StoppedHeap' PROVE RequestOK(q)'
    <3>1. q \in StoppedHeap /\ RequestOK(q) /\ q.sender \in Senders /\ Live(q.sender) /\ q # r
        BY <1>12, OnRecord
    <3>2. q.sender # e0
        BY <1>1, <1>2, <3>1 DEF RequestsOK
    <3> QED BY <1>11, <1>19, <1>c, <3>1, <3>2 DEF RequestOK
  <2> QED BY <1>12, <2>1 DEF RequestsOK
<1>22. TableOK'
  <2>1. ASSUME NEW e \in Senders, NEW c \in Conds, InTable(e, c), WaiterOK(e, c) PROVE WaiterOK(e, c)'
    <3>1. CASE e # e0
        BY <1>11, <1>19, <1>c, <2>1, <3>1 DEF WaiterOK
    <3>2. CASE e = e0
      <4>1. HasRequest(e0)
          BY <1>1, <1>2 DEF HasRequest
      <4>2. e0 \in notifications_with_timeouts
          BY <2>1, <3>2, <4>1 DEF WaiterOK
      <4>3. c = r.data
          BY <1>20, <2>1, <3>2, <4>2 DEF TableOK
      <4> QED BY <1>19, <1>c, <3>2, <4>2, <4>3 DEF WaiterOK
    <3> QED BY <3>1, <3>2
  <2>2. ASSUME NEW p \in Processes, NEW c \in Conds, NEW i \in DOMAIN notify_table[<<p, c>>]
        PROVE  /\ notify_table[<<p, c>>][i][2] = p
               /\ WaiterOK(notify_table[<<p, c>>][i], c)'
    <3>1. PICK e \in Senders : e = notify_table[<<p, c>>][i] /\ e[2] = p /\ WaiterOK(e, c)
        BY TableEntries
    <3>2. InTable(e, c)
        BY <3>1 DEF InTable
    <3> QED BY <1>c, <2>1, <3>1, <3>2
  <2> QED BY <1>c, <1>19, <2>2 DEF TableOK
<1>23. RecalcsOK'
  <2>1. ASSUME NEW x \in Message, x.about \in Senders, RecalcOK(x) PROVE RecalcOK(x)'
      BY <1>10, <1>19, <1>c, <2>1, SenderIs DEF RecalcOK
  <2>2. RecalcOK(m)'
      BY <1>2, <1>3, <1>10, <1>19, <1>20, <1>c DEF RecalcOK
  <2>3. ASSUME NEW i \in DOMAIN inbox, inbox[i].op = "RecalculateSleep"
        PROVE  RecalcOK(inbox[i])' /\ \A j \in DOMAIN inbox' : inbox'[j].slot = inbox'[i].about[1] => i <= j
    <3>1. PICK x \in Message : x = inbox[i] /\ x = inbox'[i] /\ x.about \in Senders /\ RecalcOK(x)
        BY <1>9, <2>3 DEF InboxOK, QueuedOK, RecalcsOK
    <3>2. RecalcOK(inbox[i])'
        BY <2>1, <3>1
    <3>3. ASSUME NEW j \in DOMAIN inbox', inbox'[j].slot = inbox'[i].about[1] PROVE i <= j
        BY <1>9, <2>3, <3>3 DEF RecalcsOK
    <3> QED BY <3>2, <3>3
  <2>4. \A j \in DOMAIN inbox' : inbox'[j].slot = m.about[1] => Len(inbox) + 1 <= j
      BY <1>2, <1>3, <1>9
  <2>5. ASSUME handling, msg_opt.op = "RecalculateSleep" PROVE RecalcOK(msg_opt)'
    <3>1. PICK x \in Message : x = msg_opt /\ x = msg_opt' /\ x.about \in Senders /\ RecalcOK(x)
        BY <1>u, <2>5, MessageTypes DEF LoopOK, RecalcsOK
    <3> QED BY <2>1, <3>1
  <2>6. ASSUME NEW i \in DOMAIN inbox', inbox'[i].op = "RecalculateSleep"
        PROVE  RecalcOK(inbox[i])' /\ \A j \in DOMAIN inbox' : inbox'[j].slot = inbox'[i].about[1] => i <= j
      BY <1>9, <2>2, <2>3, <2>4, <2>6
  <2> QED BY <1>u, <2>5, <2>6 DEF RecalcsOK
<1>24. RecordOK'
  <2> SUFFICES ASSUME NEW x \in Slots, Parked(x)', calls'[entries'[x]] # Gone
               PROVE  /\ calls'[entries'[x]].op = "SleepMs" => HasRequest(<<x, Holder(x)>>)'
                      /\ calls'[entries'[x]].op = "WaitForCondition" =>
                            /\ calls'[entries'[x]].cond \in Conds
                            /\ InTable(<<x, Holder(x)>>, calls[entries[x]].cond)'
      BY DEF RecordOK
  <2>1. /\ Parked(x) /\ x # k /\ entries[x] \in Threads
        /\ entries'[x] = entries[x] /\ calls'[entries[x]] = calls[entries[x]]
      BY <1>6, <1>10 DEF Parked, Waiting
  <2>2. PICK e \in Senders : e = <<x, Holder(x)>>
      BY <2>1, TicktimerAssumption DEF Holder, Senders
  <2>3. e = <<x, Holder(x)>>'
      BY <2>1, <2>2 DEF Holder
  <2>4. e # e0
      BY <1>3, <2>1, <2>2
  <2>5. /\ calls[entries[x]].op = "SleepMs" => HasRequest(e)
        /\ calls[entries[x]].op = "WaitForCondition" =>
             calls[entries[x]].cond \in Conds /\ InTable(e, calls[entries[x]].cond)
      BY <2>1, <2>2 DEF RecordOK
  <2> QED BY <1>19, <2>1, <2>3, <2>4, <2>5
<1> QED BY <1>u, <1>8, <1>14, <1>15, <1>16, <1>17, <1>18, <1>21, <1>22, <1>23, <1>24

\* The alarm interrupt keeps the invariant and never panics.
LEMMA IrqInv ==
    ASSUME IInv, handle_irq
    PROVE  IInv' /\ panicked' = panicked
<1>1. alarm.enabled
    BY DEF handle_irq
<1>2. PICK r, K, s, m, v : Fired(r, K, s, m, v)
    BY IrqIs
<1>3. panicked' = panicked
    BY <1>2 DEF Fired
<1> QED BY <1>1, <1>2, <1>3, FiredInv

-----------------------------------------------------------------------------
(* The invariant holds *)

\* The server starts with nothing on record.
LEMMA InitInv ==
    ASSUME Init
    PROVE  IInv
<1> USE DEF Init
<1>1. DOMAIN inbox = {} /\ inbox \in Seq(Message)
    OBVIOUS
<1>2. \A p \in Processes, c \in Conds : DOMAIN notify_table[<<p, c>>] = {}
    OBVIOUS
<1>3. StoppedHeap = {}
    BY DEF StoppedHeap
<1>4. \A s \in Slots : entries[s] \notin Threads
    BY Markers
<1>5. TypeOK
  <2>1. <<>> \in Seq(Senders)
      OBVIOUS
  <2>2. notify_table \in [Processes \X Conds -> Seq(Senders)]
      BY <2>1
  <2>3. left \in 0 .. MaxCalls
      BY TicktimerAssumption
  <2>4. calls \in [Threads -> Call]
      BY Shapes
  <2>5. suspend \in [phase : {"no", "saved", "off"}, enabled : BOOLEAN]
      BY DEF NotSuspended
  <2> QED BY <1>1, <2>2, <2>3, <2>4, <2>5 DEF TypeOK
<1>6. EntriesOK
    BY <1>4, Shapes DEF EntriesOK
<1>7. InboxOK /\ RecalcsOK
    BY <1>1 DEF InboxOK, RecalcsOK
<1>8. LoopOK
    BY DEF LoopOK
<1>9. TimerOK /\ RearmOK
    BY FS_EmptySet DEF TimerOK, RearmOK
<1>10. RequestsOK
    BY <1>3 DEF RequestsOK
<1>11. TableOK
  <2>1. \A e \in Senders, c \in Conds : ~InTable(e, c)
      BY <1>2, SenderIs DEF InTable
  <2> QED BY <1>2, <2>1 DEF TableOK, NoRepeats
<1>12. RecordOK
    BY <1>4 DEF RecordOK, Parked, Waiting
<1> QED BY <1>5, <1>6, <1>7, <1>8, <1>9, <1>10, <1>11, <1>12 DEF IInv

\* Every step keeps the invariant.
LEMMA NextInv ==
    ASSUME IInv, [Next]_vars
    PROVE  IInv'
<1>1. CASE \E t \in Threads : ClientCall(t)
  <2>1. PICK t \in Threads : ClientCall(t)
      BY <1>1
  <2>0. PICK m \in Message : \E call : Sent(t, m, call)
      BY <2>1, ClientCallIs DEF IInv
  <2>2. PICK call : Sent(t, m, call)
      BY <2>0
  <2> QED BY <2>2, SentInv
<1>2. CASE \E p \in Processes : Terminate(p)
    BY <1>2, TerminateInv
<1>3. CASE ServerStep
    BY <1>3, ReplyInv, ElapsedInv, SleepInv, RecalcInv, WaitInv, NotifyInv, FreeInv DEF ServerStep
<1>4. CASE handle_irq
    BY <1>4, IrqInv
<1>5. CASE Tick
    BY <1>5, TickInv
<1>6. CASE UNCHANGED vars
  <2>1. /\ UNCHANGED <<now, kernelVars, timerVars, condVars, LAST_RESPONDER, suspend, panicked>>
        /\ msg_opt' = msg_opt /\ handling' = handling /\ answered' = answered
      BY <1>6 DEF vars
  <2>2. /\ now' \in Nat /\ now <= now' /\ handling' \in BOOLEAN
        /\ answered' \subseteq [thread : Threads, value : Nat]
      BY <2>1 DEF IInv, TypeOK
  <2> QED BY <2>1, <2>2, QuietInv
<1> QED BY <1>1, <1>2, <1>3, <1>4, <1>5, <1>6 DEF Next

\* The inductive invariant holds in every reachable state.
LEMMA Invariance == Spec => []IInv
<1>1. Init => IInv
    BY InitInv
<1>2. IInv /\ [Next]_vars => IInv'
    BY NextInv
<1> QED BY <1>1, <1>2, PTL DEF Spec

\* While requests are left the alarm is set for the earliest of them, or the message that
\* sets it again is under way (start_sleep, handle_irq).
THEOREM TimerArmedHolds == Spec => []TimerArmed
<1>1. IInv => TimerArmed
    BY DEF IInv, TimerArmed, TimerOK, RearmOK, Rearming
<1> QED BY <1>1, Invariance, PTL

\* While no suspend is under way, handle_irq finds the request that the alarm was set for:
\* "this interrupt is only enabled when this value is not None".
THEOREM AlarmHasResponseHolds == Spec => []AlarmHasResponse
<1>1. IInv => AlarmHasResponse
    BY DEF IInv, AlarmHasResponse, TimerOK
<1> QED BY <1>1, Invariance, PTL

\* A message that is handled and not in the loop's hands has its thread on record.
LEMMA ParkedCall ==
    ASSUME IInv, NEW s \in Slots, Waiting(s), calls[entries[s]] # Gone, handling => msg_opt.slot # s,
           calls[entries[s]].op \in TimedOps
    PROVE  /\ entries[s] \in Threads /\ Parked(s)
           /\ <<s, ProcessOf[entries[s]]>> \in Senders
           /\ <<s, ProcessOf[entries[s]]>> = <<s, Holder(s)>>
           /\ Live(<<s, ProcessOf[entries[s]]>>)
           /\ calls[entries[s]].due \in Nat
<1>1. entries[s] \in Threads /\ ProcessOf[entries[s]] \in Processes
    BY TicktimerAssumption DEF Waiting
<1>2. ~InLoop(s)
  <2> SUFFICES ASSUME InLoop(s) PROVE FALSE
      OBVIOUS
  <2>1. /\ msg_opt # Nothing /\ msg_opt.blocking /\ msg_opt.slot = s /\ ~handling
      BY DEF InLoop
  <2>2. msg_opt.op \notin TimedOps /\ Matches(msg_opt, entries[s])
      BY <2>1 DEF IInv, LoopOK
  <2> QED BY <2>2 DEF Matches
<1>3. calls[entries[s]].due \in Nat
  <2>1. calls[entries[s]] \in Call /\ calls[entries[s]].op \in Opcodes
      BY <1>1 DEF IInv, TypeOK, TimedOps, Opcodes
  <2> QED BY <2>1, Shapes DEF CallRecord
<1>4. Parked(s)
    BY <1>2 DEF Parked
<1>5. PICK e \in Senders : e = <<s, ProcessOf[entries[s]]>> /\ e[1] = s /\ e[2] = Holder(s)
    BY <1>1, SenderIs, ZenonT(30) DEF Holder
<1>6. Live(e)
    BY <1>4, <1>5 DEF Live
<1> QED BY <1>1, <1>3, <1>4, <1>5, <1>6 DEF Holder

\* What WaitersOnRecord asks of the entry s with sender e.
Recorded(s, e) ==
    LET t == entries[s]
        requests == {r \in StoppedHeap : r.sender = e}
    IN  /\ calls[t].op = "SleepMs" =>
             \E r \in requests : requests = {r} /\ r.kind = "Sleep" /\ r.msec >= calls[t].due
        /\ calls[t].op = "WaitForCondition" =>
             /\ Contains(notify_table[<<ProcessOf[t], calls[t].cond>>], e)
             /\ IF calls[t].timed
                THEN \E r \in requests : requests = {r} /\ r.kind = "Timeout"
                                         /\ r.msec >= calls[t].due
                ELSE requests = {}

\* A thread whose call has been accepted is on record where its answer will come from.
THEOREM WaitersOnRecordHolds == Spec => []WaitersOnRecord
<1>1. ASSUME IInv PROVE WaitersOnRecord
  <2> SUFFICES ASSUME NEW s \in Slots, Waiting(s), calls[entries[s]] # Gone, handling => msg_opt.slot # s
               PROVE  Recorded(s, <<s, ProcessOf[entries[s]]>>)
      BY DEF WaitersOnRecord, Recorded
  <2>0. CASE calls[entries[s]].op \notin TimedOps
      BY <2>0 DEF Recorded, TimedOps
  <2> SUFFICES ASSUME calls[entries[s]].op \in TimedOps, NEW e, e = <<s, ProcessOf[entries[s]]>>
               PROVE  Recorded(s, e)
      BY <2>0
  <2>1. /\ entries[s] \in Threads /\ Parked(s) /\ e \in Senders /\ e = <<s, Holder(s)>> /\ Live(e)
        /\ calls[entries[s]].due \in Nat /\ e[1] = s /\ e[2] = ProcessOf[entries[s]]
      BY <1>1, ParkedCall
  <2>2. ASSUME NEW r \in StoppedHeap, r.sender = e
        PROVE  /\ {q \in StoppedHeap : q.sender = e} = {r}
               /\ r.msec >= calls[entries[s]].due
               /\ calls[entries[s]].op = "SleepMs" => r.kind = "Sleep"
               /\ calls[entries[s]].op = "WaitForCondition" => r.kind = "Timeout"
    <3>1. {q \in StoppedHeap : q.sender = e} = {r}
        BY <1>1, <2>2 DEF IInv, RequestsOK
    <3>2. RequestOK(r) /\ r.msec \in Nat /\ r.kind \in {"Sleep", "Timeout"}
        BY <1>1, OnRecord DEF TimerRequest
    <3>3. /\ r.kind = "Sleep" => /\ calls[entries[s]].op = "SleepMs"
                                 /\ calls[entries[s]].due <= r.msec
          /\ r.kind = "Timeout" => /\ calls[entries[s]].op = "WaitForCondition"
                                   /\ calls[entries[s]].due <= r.msec
        BY <2>1, <2>2, <3>2 DEF RequestOK
    <3> QED BY <2>1, <3>1, <3>2, <3>3
  <2>3. ASSUME calls[entries[s]].op = "SleepMs" PROVE HasRequest(e)
      BY <1>1, <2>1, <2>3 DEF IInv, RecordOK
  <2>4. ASSUME calls[entries[s]].op = "WaitForCondition"
        PROVE  /\ Contains(notify_table[<<ProcessOf[entries[s]], calls[entries[s]].cond>>], e)
               /\ HasRequest(e) <=> calls[entries[s]].timed
    <3>1. PICK c \in Conds : c = calls[entries[s]].cond /\ InTable(e, c)
        BY <1>1, <2>1, <2>4 DEF IInv, RecordOK
    <3>2. WaiterOK(e, c) /\ ~FiredAt(e, c)
        BY <1>1, <2>1, <3>1, OnRecord
    <3>3. HasRequest(e) <=> calls[entries[s]].timed
        BY <2>1, <3>2 DEF WaiterOK
    <3>4. PICK a \in Seq(Senders) : a = notify_table[<<e[2], c>>]
        BY <1>1, <2>1, SenderIs DEF IInv, TypeOK
    <3>5. \E i \in 1 .. Len(a) : a[i] = e
        BY <3>1, <3>4 DEF InTable
    <3> QED BY <2>1, <3>1, <3>3, <3>4, <3>5 DEF Contains
  <2>5. CASE calls[entries[s]].op = "SleepMs"
      BY <2>2, <2>3, <2>5 DEF HasRequest, Recorded
  <2>6. CASE calls[entries[s]].op = "WaitForCondition"
      BY <2>2, <2>4, <2>6 DEF HasRequest, Recorded
  <2> QED BY <2>5, <2>6 DEF TimedOps
<1>2. IInv => WaitersOnRecord
    BY <1>1
<1> QED BY <1>2, Invariance, PTL

-----------------------------------------------------------------------------
(* The answers *)

\* What OnlyJustifiedAnswers asks of one answer.
Justified(a) ==
    LET call == calls[a.thread]
    IN  CASE call.op = "SleepMs" -> now >= call.due
          [] call.op = "WaitForCondition" /\ a.value = 1 -> call.timed /\ now >= call.due
          [] call.op = "WaitForCondition" /\ a.value # 1 ->
               /\ handling /\ msg_opt.op \in {"NotifyCondition", "FreeCondition"}
               /\ msg_opt.pid = ProcessOf[a.thread] /\ msg_opt.cond = call.cond
          [] OTHER -> msg_opt # Nothing /\ msg_opt.op = call.op
                      /\ entries[msg_opt.slot] = a.thread

\* An answer by reply_and_receive_next goes to the sender of the message in the loop.
LEMMA ReplyJustified ==
    ASSUME IInv, reply_and_receive_next, NEW a \in answered'
    PROVE  Justified(a)
<1>1. answered' = Answers(Replied, ReplyValue) /\ ~handling
    BY DEF reply_and_receive_next, Replied, ReplyValue
<1>2. ReplyValue \in Nat
    BY MessageTypes DEF ReplyValue, IInv
<1>3. a.thread \in Woken(Replied)
    BY <1>1, <1>2, AnswersIs DEF IInv
<1>4. PICK s \in Replied : Waiting(s) /\ entries[s] = a.thread /\ calls[a.thread] # Gone
    BY <1>3, ResumedIs DEF IInv
<1>5. msg_opt # Nothing /\ msg_opt.blocking /\ s = msg_opt.slot
    BY <1>4 DEF Replied
<1>6. msg_opt.op \notin TimedOps /\ Matches(msg_opt, entries[msg_opt.slot])
    BY <1>1, <1>5 DEF IInv, LoopOK
<1>7. calls[a.thread].op = msg_opt.op
    BY <1>4, <1>5, <1>6 DEF Matches
<1>8. calls[a.thread].op # "SleepMs" /\ calls[a.thread].op # "WaitForCondition"
    BY <1>6, <1>7 DEF TimedOps
<1> QED BY <1>4, <1>5, <1>7, <1>8 DEF Justified

\* An answer by the interrupt goes to a sleeper or a waiter whose time is over.
LEMMA IrqJustified ==
    ASSUME IInv, handle_irq, NEW a \in answered'
    PROVE  Justified(a)
<1>1. PICK r, K, s, m, v : Fired(r, K, s, m, v)
    BY IrqIs
<1>2. /\ answered' = Answers(K, v) /\ K = {r.sender[1]} /\ v \in Nat /\ r \in TimerRequest
      /\ r.kind = "Timeout" => v = 1
      /\ r = current_response
    BY <1>1 DEF Fired
<1>3. alarm.enabled /\ current_response # Nothing /\ alarm.target <= now
    BY DEF handle_irq, IInv, TimerOK
<1>4. /\ RequestOK(r) /\ r.msec \in Nat /\ r.msec <= now /\ r.kind \in {"Sleep", "Timeout"} /\ now \in Nat
    BY <1>2, <1>3, FiredRequest DEF IInv, TimerOK, TimerRequest, TypeOK
<1>5. a.thread \in Woken(K) /\ a.value = v
    BY <1>2, AnswersIs DEF IInv
<1>6. entries[r.sender[1]] = a.thread /\ calls[a.thread] # Gone /\ a.thread \in Threads
    BY <1>2, <1>5, ResumedIs DEF IInv
<1>7. calls[a.thread].op \in TimedOps
    BY <1>4, <1>6 DEF RequestOK, TimedOps
<1>8. calls[a.thread].due \in Nat
  <2>1. calls[a.thread] \in Call /\ calls[a.thread].op \in Opcodes
      BY <1>6, <1>7 DEF IInv, TypeOK, TimedOps, Opcodes
  <2> QED BY <2>1, Shapes DEF CallRecord
<1>9. CASE r.kind = "Sleep"
  <2>1. calls[a.thread].op = "SleepMs" /\ now >= calls[a.thread].due
      BY <1>4, <1>6, <1>8, <1>9 DEF RequestOK
  <2> QED BY <2>1 DEF Justified
<1>10. CASE r.kind = "Timeout"
  <2>1. /\ calls[a.thread].op = "WaitForCondition" /\ now >= calls[a.thread].due
        /\ calls[a.thread].timed /\ a.value = 1
      BY <1>2, <1>4, <1>5, <1>6, <1>8, <1>10 DEF RequestOK
  <2> QED BY <2>1 DEF Justified
<1> QED BY <1>4, <1>9, <1>10

\* An answer by a notification goes to a waiter of its process at its condition.
LEMMA DrainJustified ==
    ASSUME IInv, NotifyCondition \/ FreeCondition, NEW a \in answered'
    PROVE  Justified(a)
<1>1. PICK p0 \in Processes, c0 \in Conds, D \in SUBSET Senders, b \in Seq(Senders) : Drained(p0, c0, D, b)
    BY NotifyIs, FreeIs
<1>2. /\ p0 = msg_opt.pid /\ c0 = msg_opt.cond /\ handling
      /\ msg_opt.op \in {"NotifyCondition", "FreeCondition"}
      /\ \A e \in D : e[2] = p0 /\ InTable(e, c0)
      /\ answered' = Answers(SlotsOf(D \ AlreadyFired(D)), 0)
    BY <1>1 DEF Drained, Drains
<1>3. PICK N : N = SlotsOf(D \ AlreadyFired(D))
    OBVIOUS
<1>4. a.thread \in Woken(N) /\ a.value = 0
    BY <1>2, <1>3, AnswersIs DEF IInv
<1>5. PICK s \in N : Waiting(s) /\ entries[s] = a.thread /\ calls[a.thread] # Gone
    BY <1>4, ResumedIs DEF IInv
<1>6. /\ ProcessOf[entries[s]] = p0
      /\ calls[entries[s]] # Gone => /\ calls[entries[s]].op = "WaitForCondition"
                                     /\ calls[entries[s]].cond = c0
  <2>1. \A e \in D : e[2] = p0 /\ InTable(e, c0)
      BY <1>2
  <2>2. \A x \in SlotsOf(D \ AlreadyFired(D)) :
            /\ ProcessOf[entries[x]] = p0
            /\ calls[entries[x]] # Gone => /\ calls[entries[x]].op = "WaitForCondition"
                                           /\ calls[entries[x]].cond = c0
      BY <2>1, DrainedIs
  <2> QED BY <1>3, <2>2
<1> QED BY <1>2, <1>4, <1>5, <1>6 DEF Justified

\* No other step answers anybody.
LEMMA NoAnswer ==
    ASSUME IInv, Next, ~reply_and_receive_next, ~handle_irq, ~NotifyCondition, ~FreeCondition
    PROVE  answered' = {}
<1>1. CASE \E t \in Threads : ClientCall(t)
  <2>1. PICK t \in Threads : ClientCall(t)
      BY <1>1
  <2>0. PICK m \in Message : \E call : Sent(t, m, call)
      BY <2>1, ClientCallIs DEF IInv
  <2>2. PICK call : Sent(t, m, call)
      BY <2>0
  <2> QED BY <2>2 DEF Sent
<1>2. CASE \E p \in Processes : Terminate(p)
    BY <1>2 DEF Terminate
<1>3. CASE ServerStep
    BY <1>3 DEF ServerStep, ElapsedMs, IgnoreTerminated, SleepMs, RecalculateSleep, WaitForCondition
<1>4. CASE Tick
    BY <1>4 DEF Tick
<1> QED BY <1>1, <1>2, <1>3, <1>4 DEF Next

\* Nobody is answered early or by somebody else's event.
THEOREM OnlyJustifiedAnswersHolds == Spec => OnlyJustifiedAnswers
<1>1. ASSUME IInv, Next PROVE \A a \in answered' : Justified(a)
    BY <1>1, ReplyJustified, IrqJustified, DrainJustified, NoAnswer
<1>2. IInv /\ [Next]_vars => [\A a \in answered' : Justified(a)]_vars
    BY <1>1
<1> QED BY <1>2, Invariance, PTL DEF Spec, OnlyJustifiedAnswers, Justified

-----------------------------------------------------------------------------
(* Clients that keep to Rust's ownership *)

\* The time-out of e at condition c has been answered, and the message that says so comes
\* before message i.
ReportedBefore(e, c, i) ==
    \/ \E j \in DOMAIN inbox : /\ j < i /\ inbox[j].op = "RecalculateSleep"
                               /\ inbox[j].about = e /\ inbox[j].cond = c
    \/ handling /\ msg_opt.op = "RecalculateSleep" /\ msg_opt.about = e /\ msg_opt.cond = c

\* A wait of process p for condition c, by message m, that its sender has not given up.
WaitsAt(m, p, c) == m.op = "WaitForCondition" /\ m.blocking /\ m.pid = p /\ m.cond = c

\* When message i frees condition c of process p, nobody will be on record there.
FreeOK(i, p, c) ==
    /\ \A e \in Senders : e[2] = p /\ InTable(e, c) =>
         e \in notifications_with_timeouts /\ ReportedBefore(e, c, i)
    /\ \A j \in DOMAIN inbox : WaitsAt(inbox[j], p, c) => i < j
    /\ ~(handling /\ WaitsAt(msg_opt, p, c))

\* Every message that frees a condition, queued or handled, meets nobody there.
FreesOK ==
    /\ \A i \in DOMAIN inbox, p \in Processes, c \in Conds :
         inbox[i].op = "FreeCondition" /\ inbox[i].pid = p /\ inbox[i].cond = c => FreeOK(i, p, c)
    /\ \A p \in Processes, c \in Conds :
         handling /\ msg_opt.op = "FreeCondition" /\ msg_opt.pid = p /\ msg_opt.cond = c =>
            \A e \in Senders : ~(e[2] = p /\ InTable(e, c))

\* A step that leaves the queue alone, adds nobody at a condition but the sender of the wait
\* that it handles, and ends no report of somebody who stays in the table.
FreesKept ==
    /\ inbox' = inbox
    /\ handling' => handling /\ msg_opt' = msg_opt
    /\ \A e \in Senders, c \in Conds : InTable(e, c)' /\ ~InTable(e, c) =>
         handling /\ WaitsAt(msg_opt, e[2], c) /\ ~handling'
    /\ \A e \in Senders, c \in Conds :
         InTable(e, c)' /\ e \in notifications_with_timeouts => e \in notifications_with_timeouts'
    /\ \A e \in Senders, c \in Conds :
         InTable(e, c)' /\ handling /\ msg_opt.op = "RecalculateSleep" /\ msg_opt.about = e
             /\ msg_opt.cond = c => handling'

\* Such a step keeps the frees in order.
LEMMA FreesFrame ==
    ASSUME FreesOK, FreesKept
    PROVE  FreesOK'
<1> USE DEF FreesKept
<1>1. ASSUME NEW i \in DOMAIN inbox, NEW p \in Processes, NEW c \in Conds,
             inbox[i].op = "FreeCondition", inbox[i].pid = p, inbox[i].cond = c
      PROVE  FreeOK(i, p, c)'
  <2>0. FreeOK(i, p, c)
      BY <1>1 DEF FreesOK
  <2>1. ASSUME NEW e \in Senders, e[2] = p, InTable(e, c)'
        PROVE  e \in notifications_with_timeouts' /\ ReportedBefore(e, c, i)'
    <3>1. InTable(e, c)
        BY <2>0, <2>1 DEF FreeOK
    <3>2. e \in notifications_with_timeouts /\ ReportedBefore(e, c, i)
        BY <2>0, <2>1, <3>1 DEF FreeOK
    <3>3. e \in notifications_with_timeouts'
        BY <2>1, <3>2
    <3>4. ReportedBefore(e, c, i)'
        BY <2>1, <3>2 DEF ReportedBefore
    <3> QED BY <3>3, <3>4
  <2>2. \A j \in DOMAIN inbox' : WaitsAt(inbox'[j], p, c) => i < j
      BY <2>0 DEF FreeOK
  <2>3. ~(handling' /\ WaitsAt(msg_opt', p, c))
      BY <2>0 DEF FreeOK
  <2> QED BY <2>1, <2>2, <2>3 DEF FreeOK, WaitsAt
<1>2. ASSUME NEW p \in Processes, NEW c \in Conds, handling', msg_opt'.op = "FreeCondition",
             msg_opt'.pid = p, msg_opt'.cond = c, NEW e \in Senders, e[2] = p, InTable(e, c)'
      PROVE  FALSE
  <2>1. handling /\ msg_opt.op = "FreeCondition" /\ msg_opt.pid = p /\ msg_opt.cond = c
      BY <1>2
  <2>2. ~InTable(e, c)
      BY <1>2, <2>1 DEF FreesOK
  <2> QED BY <1>2, <2>2
<1> QED BY <1>1, <1>2 DEF FreesOK

\* A message is queued; if it frees a condition, nobody is to be met there.
LEMMA FreesAppend ==
    ASSUME IInv, FreesOK, NEW m \in Message, inbox' = Append(inbox, m),
           UNCHANGED <<msg_opt, handling, condVars>>,
           m.op = "FreeCondition" =>
               /\ \A e \in Senders, c \in Conds :
                    e[2] = m.pid /\ c = m.cond /\ InTable(e, c) =>
                        e \in notifications_with_timeouts /\ FiredAt(e, c)
               /\ \A j \in DOMAIN inbox : ~WaitsAt(inbox[j], m.pid, m.cond)
               /\ ~(handling /\ WaitsAt(msg_opt, m.pid, m.cond))
    PROVE  FreesOK'
<1>0. UNCHANGED <<notify_table, notifications_with_timeouts>>
    BY DEF condVars
<1>1. /\ \A i \in DOMAIN inbox : /\ i \in DOMAIN inbox' /\ inbox'[i] = inbox[i]
                                 /\ i \in Int /\ i < Len(inbox) + 1
      /\ Len(inbox) + 1 \in DOMAIN inbox' /\ inbox'[Len(inbox) + 1] = m
      /\ \A i \in DOMAIN inbox' : i \in DOMAIN inbox \/ i = Len(inbox) + 1
      /\ Len(inbox) + 1 \in Int
    BY AppendIs DEF IInv, TypeOK
<1>2. \A e, c : InTable(e, c)' <=> InTable(e, c)
    BY <1>0 DEF InTable
<1>3. ASSUME NEW i \in DOMAIN inbox, NEW p \in Processes, NEW c \in Conds,
             inbox[i].op = "FreeCondition", inbox[i].pid = p, inbox[i].cond = c
      PROVE  FreeOK(i, p, c)'
  <2>0. FreeOK(i, p, c)
      BY <1>3 DEF FreesOK
  <2>1. \A e : ReportedBefore(e, c, i) => ReportedBefore(e, c, i)'
      BY <1>1 DEF ReportedBefore
  <2>2. \A e \in Senders : e[2] = p /\ InTable(e, c)' =>
            e \in notifications_with_timeouts' /\ ReportedBefore(e, c, i)'
      BY <1>0, <1>2, <2>0, <2>1 DEF FreeOK
  <2>3. \A j \in DOMAIN inbox' : WaitsAt(inbox'[j], p, c) => i < j
      BY <1>1, <2>0 DEF FreeOK
  <2>4. ~(handling' /\ WaitsAt(msg_opt', p, c))
      BY <2>0 DEF FreeOK
  <2> QED BY <2>2, <2>3, <2>4 DEF FreeOK, WaitsAt
<1>4. ASSUME NEW i, i = Len(inbox) + 1, NEW p \in Processes, NEW c \in Conds,
             m.op = "FreeCondition", m.pid = p, m.cond = c
      PROVE  FreeOK(i, p, c)'
  <2>1. \A e : FiredAt(e, c) => ReportedBefore(e, c, i)'
      BY <1>1, <1>4 DEF ReportedBefore, FiredAt
  <2>2. \A e \in Senders : e[2] = p /\ InTable(e, c)' =>
            e \in notifications_with_timeouts' /\ ReportedBefore(e, c, i)'
      BY <1>0, <1>2, <1>4, <2>1
  <2>3. \A j \in DOMAIN inbox' : WaitsAt(inbox'[j], p, c) => i < j
    <3>1. ~WaitsAt(m, p, c)
        BY <1>4 DEF WaitsAt
    <3> QED BY <1>1, <1>4, <3>1
  <2>4. ~(handling' /\ WaitsAt(msg_opt', p, c))
      BY <1>4
  <2> QED BY <2>2, <2>3, <2>4 DEF FreeOK, WaitsAt
<1>5. ASSUME NEW i \in DOMAIN inbox', NEW p \in Processes, NEW c \in Conds,
             inbox'[i].op = "FreeCondition", inbox'[i].pid = p, inbox'[i].cond = c
      PROVE  FreeOK(i, p, c)'
    BY <1>1, <1>3, <1>4, <1>5
<1>6. \A p \in Processes, c \in Conds :
         handling' /\ msg_opt'.op = "FreeCondition" /\ msg_opt'.pid = p /\ msg_opt'.cond = c =>
            \A e \in Senders : ~(e[2] = p /\ InTable(e, c)')
    BY <1>2 DEF FreesOK
<1> QED BY <1>5, <1>6 DEF FreesOK

\* A client frees a condition only when none of its threads is in a wait for it.
LEMMA FreesSent ==
    ASSUME "FreeWhileWaiting" \notin Clients, IInv, FreesOK,
           NEW t \in Threads, NEW m \in Message, NEW call, Sent(t, m, call),
           m.op = "FreeCondition" => MayFree(t, m.cond)
    PROVE  FreesOK'
<1>0. /\ inbox' = Append(inbox, m) /\ UNCHANGED <<msg_opt, handling, condVars>>
      /\ m.pid = ProcessOf[t] /\ calls[t] = Idle
    BY DEF Sent
<1>1. ASSUME m.op = "FreeCondition", NEW u \in Threads, ProcessOf[u] = m.pid
      PROVE  calls[u] # Gone /\ ~(calls[u].op = "WaitForCondition" /\ calls[u].cond = m.cond)
  <2>1. calls[u] # Gone
      BY <1>0, <1>1, Shapes DEF IInv, EntriesOK
  <2> QED BY <1>0, <1>1, <2>1 DEF MayFree
<1>2. ASSUME m.op = "FreeCondition", NEW e \in Senders, NEW c \in Conds,
             e[2] = m.pid, c = m.cond, InTable(e, c)
      PROVE  e \in notifications_with_timeouts /\ FiredAt(e, c)
  <2>1. WaiterOK(e, c)
      BY <1>2, OnRecord
  <2>2. ASSUME Live(e) PROVE calls[entries[e[1]]] # Gone
                             /\ ~(/\ calls[entries[e[1]]].op = "WaitForCondition"
                                  /\ calls[entries[e[1]]].cond = c)
    <3>1. entries[e[1]] \in Threads /\ ProcessOf[entries[e[1]]] = e[2]
        BY <2>2, OnRecord DEF Live, Holder
    <3> QED BY <1>1, <1>2, <3>1
  <2> QED BY <2>1, <2>2 DEF WaiterOK
<1>3. ASSUME m.op = "FreeCondition", NEW j \in DOMAIN inbox, WaitsAt(inbox[j], m.pid, m.cond)
      PROVE  FALSE
  <2>1. PICK x \in Message : x = inbox[j] /\ QueuedOK(x) /\ WaitsAt(x, m.pid, m.cond)
      BY <1>3, MessageTypes DEF IInv, InboxOK
  <2>2. x.op \in BlockingOps /\ x.op = "WaitForCondition" /\ x.blocking /\ x.pid = m.pid /\ x.cond = m.cond
      BY <2>1 DEF WaitsAt, BlockingOps
  <2>3. /\ entries[x.slot] \in Threads /\ ProcessOf[entries[x.slot]] = m.pid
        /\ Matches(x, entries[x.slot])
      BY <2>1, <2>2 DEF QueuedOK, Holder
  <2>4. calls[entries[x.slot]] # Gone
      BY <1>1, <1>3, <2>3
  <2> QED BY <1>1, <1>3, <2>2, <2>3, <2>4 DEF Matches
<1>4. ASSUME m.op = "FreeCondition", handling, WaitsAt(msg_opt, m.pid, m.cond)
      PROVE  FALSE
  <2>1. /\ msg_opt # Nothing /\ msg_opt.op = "WaitForCondition" /\ msg_opt.blocking
        /\ msg_opt.pid = m.pid /\ msg_opt.cond = m.cond
      BY <1>4 DEF WaitsAt, IInv, LoopOK
  <2>2. /\ entries[msg_opt.slot] \in Threads /\ ProcessOf[entries[msg_opt.slot]] = m.pid
        /\ Matches(msg_opt, entries[msg_opt.slot])
      BY <2>1 DEF IInv, LoopOK, Holder, Waiting
  <2>3. calls[entries[msg_opt.slot]] # Gone
      BY <1>1, <1>4, <2>2
  <2> QED BY <1>1, <1>4, <2>1, <2>2, <2>3 DEF Matches
<1> QED BY <1>0, <1>2, <1>3, <1>4, FreesAppend

\* The end of a process gives up its waits, and does not reorder the queue.
LEMMA FreesTerminate ==
    ASSUME IInv, FreesOK, NEW q \in Processes, Terminate(q)
    PROVE  FreesOK'
<1>0. UNCHANGED <<msg_opt, handling, notify_table, notifications_with_timeouts>>
    BY DEF Terminate, condVars
<1>1. /\ DOMAIN inbox' = DOMAIN inbox
      /\ \A i \in DOMAIN inbox :
           /\ inbox'[i].op = inbox[i].op /\ inbox'[i].pid = inbox[i].pid
           /\ inbox'[i].cond = inbox[i].cond /\ inbox'[i].about = inbox[i].about
           /\ inbox'[i].blocking => inbox[i].blocking
  <2>1. /\ DOMAIN inbox' = DOMAIN inbox
        /\ \A i \in DOMAIN inbox : inbox'[i] = IF inbox[i].pid = q THEN [inbox[i] EXCEPT !.blocking = FALSE]
                                               ELSE inbox[i]
      BY DEF Terminate
  <2>2. \A i \in DOMAIN inbox : inbox[i] \in Message
      BY MessageTypes DEF IInv
  <2> QED BY <2>1, <2>2 DEF Message
<1>2. \A e, c : InTable(e, c)' <=> InTable(e, c)
    BY <1>0 DEF InTable
<1>3. \A e, c, i : ReportedBefore(e, c, i) => ReportedBefore(e, c, i)'
    BY <1>0, <1>1 DEF ReportedBefore
<1>4. \A i \in DOMAIN inbox : \A p, c : WaitsAt(inbox'[i], p, c) => WaitsAt(inbox[i], p, c)
    BY <1>1 DEF WaitsAt
<1>5. \A i, p, c : FreeOK(i, p, c) => FreeOK(i, p, c)'
  <2> TAKE i, p, c
  <2> SUFFICES ASSUME FreeOK(i, p, c) PROVE FreeOK(i, p, c)'
      OBVIOUS
  <2>1. \A e \in Senders : e[2] = p /\ InTable(e, c)' =>
            e \in notifications_with_timeouts' /\ ReportedBefore(e, c, i)'
      BY <1>0, <1>2, <1>3 DEF FreeOK
  <2>2. \A j \in DOMAIN inbox' : WaitsAt(inbox'[j], p, c) => i < j
      BY <1>1, <1>4 DEF FreeOK
  <2>3. ~(handling' /\ WaitsAt(msg_opt', p, c))
      BY <1>0 DEF FreeOK
  <2> QED BY <2>1, <2>2, <2>3 DEF FreeOK, WaitsAt
<1> QED BY <1>0, <1>1, <1>2, <1>5 DEF FreesOK

\* The server takes its messages in order.
LEMMA FreesReply ==
    ASSUME IInv, FreesOK, reply_and_receive_next
    PROVE  FreesOK'
<1>0. ~handling /\ UNCHANGED <<notify_table, notifications_with_timeouts>>
    BY DEF reply_and_receive_next, condVars
<1>1. CASE inbox = <<>>
  <2>1. DOMAIN inbox' = {} /\ ~handling'
      BY <1>0, <1>1 DEF reply_and_receive_next
  <2> QED BY <2>1 DEF FreesOK
<1>2. CASE inbox # <<>>
  <2>1. inbox \in Seq(Message) /\ inbox' = Tail(inbox) /\ msg_opt' = Head(inbox) /\ handling'
      BY <1>2 DEF reply_and_receive_next, IInv, TypeOK
  <2>2. /\ 1 \in DOMAIN inbox /\ msg_opt' = inbox[1]
        /\ \A i \in DOMAIN inbox' : /\ i + 1 \in DOMAIN inbox /\ inbox'[i] = inbox[i + 1]
                                    /\ i \in Nat
        /\ \A i \in DOMAIN inbox : i = 1 \/ (/\ i - 1 \in DOMAIN inbox' /\ inbox'[i - 1] = inbox[i]
                                             /\ i \in Nat)
      BY <1>2, <2>1, TailIs
  <2>3. \A e, c : InTable(e, c)' <=> InTable(e, c)
      BY <1>0 DEF InTable
  <2>4. ASSUME NEW i \in DOMAIN inbox', NEW p \in Processes, NEW c \in Conds,
               inbox'[i].op = "FreeCondition", inbox'[i].pid = p, inbox'[i].cond = c
        PROVE  FreeOK(i, p, c)'
    <3>0. PICK k \in DOMAIN inbox : k = i + 1 /\ inbox'[i] = inbox[k] /\ i \in Nat
        BY <2>2
    <3>1. FreeOK(k, p, c)
        BY <2>4, <3>0 DEF FreesOK
    <3>2. ASSUME NEW e, ReportedBefore(e, c, k) PROVE ReportedBefore(e, c, i)'
      <4>1. PICK j \in DOMAIN inbox : /\ j < k /\ inbox[j].op = "RecalculateSleep"
                                      /\ inbox[j].about = e /\ inbox[j].cond = c
          BY <1>0, <3>2 DEF ReportedBefore
      <4>2. CASE j = 1
          BY <2>1, <2>2, <4>1, <4>2 DEF ReportedBefore
      <4>3. CASE j # 1
        <5>1. j - 1 \in DOMAIN inbox' /\ inbox'[j - 1] = inbox[j] /\ j - 1 < i
            BY <2>2, <3>0, <4>1, <4>3
        <5> QED BY <4>1, <5>1 DEF ReportedBefore
      <4> QED BY <4>2, <4>3
    <3>3. \A e \in Senders : e[2] = p /\ InTable(e, c)' =>
              e \in notifications_with_timeouts' /\ ReportedBefore(e, c, i)'
        BY <1>0, <2>3, <3>1, <3>2 DEF FreeOK
    <3>4. ASSUME NEW j \in DOMAIN inbox', WaitsAt(inbox'[j], p, c) PROVE i < j
      <4>1. j + 1 \in DOMAIN inbox /\ WaitsAt(inbox[j + 1], p, c) /\ j \in Nat
          BY <2>2, <3>4
      <4>2. k < j + 1
          BY <3>1, <4>1 DEF FreeOK
      <4> QED BY <3>0, <4>1, <4>2
    <3>5. ~WaitsAt(msg_opt', p, c)
      <4>1. WaitsAt(inbox[1], p, c) => k < 1
          BY <2>2, <3>1 DEF FreeOK
      <4> QED BY <2>2, <3>0, <4>1
    <3> QED BY <3>3, <3>4, <3>5 DEF FreeOK, WaitsAt
  <2>5. ASSUME NEW p \in Processes, NEW c \in Conds, msg_opt'.op = "FreeCondition",
               msg_opt'.pid = p, msg_opt'.cond = c, NEW e \in Senders, e[2] = p, InTable(e, c)'
        PROVE  FALSE
    <3>1. FreeOK(1, p, c)
        BY <2>2, <2>5 DEF FreesOK
    <3>2. ReportedBefore(e, c, 1)
        BY <2>3, <2>5, <3>1 DEF FreeOK
    <3>3. \A j \in DOMAIN inbox : ~(j < 1)
        BY <2>2
    <3> QED BY <1>0, <3>2, <3>3 DEF ReportedBefore
  <2> QED BY <2>4, <2>5 DEF FreesOK
<1> QED BY <1>1, <1>2

\* The handlers.
LEMMA FreesHandlers ==
    ASSUME IInv, FreesOK, ServerStep, ~reply_and_receive_next
    PROVE  FreesOK'
<1>1. CASE ElapsedMs \/ IgnoreTerminated \/ SleepMs
  <2>1. /\ inbox' = inbox /\ handling' = FALSE /\ msg_opt.op # "RecalculateSleep"
        /\ UNCHANGED <<notify_table, notifications_with_timeouts>>
      BY <1>1 DEF ElapsedMs, IgnoreTerminated, SleepMs, Handling, Done, kernelVars, condVars
  <2>2. \A e, c : InTable(e, c)' <=> InTable(e, c)
      BY <2>1 DEF InTable
  <2>9. FreesKept
      BY <2>1, <2>2 DEF FreesKept
  <2> QED BY <2>9, FreesFrame
<1>2. CASE RecalculateSleep
  <2>1. /\ inbox' = inbox /\ handling' = FALSE
        /\ notifications_with_timeouts' = notifications_with_timeouts \ {msg_opt.about}
      BY <1>2 DEF RecalculateSleep, Done, kernelVars
  <2>2. \A e \in Senders, c \in Conds : InTable(e, c)' <=> InTable(e, c) /\ e # msg_opt.about
      BY <1>2, RecalcInv
  <2>9. FreesKept
      BY <2>1, <2>2 DEF FreesKept
  <2> QED BY <2>9, FreesFrame
<1>3. CASE WaitForCondition
  <2>1. /\ inbox' = inbox /\ handling' = FALSE /\ handling /\ msg_opt.op = "WaitForCondition" /\ msg_opt.blocking
        /\ notifications_with_timeouts \subseteq notifications_with_timeouts'
      BY <1>3 DEF WaitForCondition, Handling, Done, kernelVars
  <2>2. \A e \in Senders, c \in Conds :
            InTable(e, c)' <=> InTable(e, c) \/ (e = Sender(msg_opt) /\ c = msg_opt.cond)
      BY <1>3, WaitInv
  <2>3. \A e, c : e = Sender(msg_opt) /\ c = msg_opt.cond => WaitsAt(msg_opt, e[2], c)
      BY <2>1 DEF WaitsAt, Sender
  <2>9. FreesKept
      BY <2>1, <2>2, <2>3 DEF FreesKept
  <2> QED BY <2>9, FreesFrame
<1>4. CASE NotifyCondition \/ FreeCondition
  <2>1. PICK p0 \in Processes, c0 \in Conds, D \in SUBSET Senders, b \in Seq(Senders) : Drained(p0, c0, D, b)
      BY <1>4, NotifyIs, FreeIs
  <2>2. /\ Drains(p0, c0, D, b) /\ inbox' = inbox /\ handling' = FALSE
        /\ msg_opt.op \in {"NotifyCondition", "FreeCondition"}
        /\ notifications_with_timeouts' = notifications_with_timeouts \ D
      BY <2>1 DEF Drained, Drains
  <2>3. \A e \in Senders, c \in Conds : InTable(e, c)' <=> InTable(e, c) /\ e \notin D
      BY <2>2, DrainInv
  <2>9. FreesKept
      BY <2>2, <2>3 DEF FreesKept
  <2> QED BY <2>9, FreesFrame
<1> QED BY <1>1, <1>2, <1>3, <1>4 DEF ServerStep

\* Every step keeps the frees in order.
LEMMA NextFrees ==
    ASSUME "FreeWhileWaiting" \notin Clients, IInv, FreesOK, [Next]_vars
    PROVE  FreesOK'
<1>1. CASE \E t \in Threads : ClientCall(t)
  <2>1. PICK t \in Threads : ClientCall(t)
      BY <1>1
  <2>0. PICK m \in Message : \E call : Sent(t, m, call) /\ (m.op = "FreeCondition" => MayFree(t, m.cond))
      BY <2>1, ClientCallIs DEF IInv
  <2>2. PICK call : Sent(t, m, call) /\ (m.op = "FreeCondition" => MayFree(t, m.cond))
      BY <2>0
  <2> QED BY <2>2, FreesSent
<1>2. CASE \E p \in Processes : Terminate(p)
    BY <1>2, FreesTerminate
<1>3. CASE ServerStep
    BY <1>3, FreesReply, FreesHandlers
<1>4. CASE handle_irq
  <2>1. PICK r, K, s, m, v : Fired(r, K, s, m, v)
      BY <1>4, IrqIs
  <2>2. /\ m \in Message /\ inbox' = Append(inbox, m) /\ m.op = "RecalculateSleep"
        /\ UNCHANGED <<msg_opt, handling, condVars>>
      BY <2>1 DEF Fired
  <2> QED BY <2>2, FreesAppend
<1>5. CASE Tick \/ UNCHANGED vars
  <2>1. UNCHANGED <<inbox, msg_opt, handling, notify_table, notifications_with_timeouts>>
      BY <1>5 DEF Tick, vars, kernelVars, condVars
  <2>2. \A e, c : InTable(e, c)' <=> InTable(e, c)
      BY <2>1 DEF InTable
  <2>9. FreesKept
      BY <2>1, <2>2 DEF FreesKept
  <2> QED BY <2>9, FreesFrame
<1> QED BY <1>1, <1>2, <1>3, <1>4, <1>5 DEF Next

\* No handler's assertion fails in a step from a state with both invariants.
LEMMA NextAsserts ==
    ASSUME IInv, FreesOK, NoAssertFails, [Next]_vars
    PROVE  NoAssertFails'
<1> USE DEF NoAssertFails
<1>1. CASE \E t \in Threads : ClientCall(t)
  <2>1. PICK t \in Threads : ClientCall(t)
      BY <1>1
  <2>0. PICK m \in Message : \E call : Sent(t, m, call)
      BY <2>1, ClientCallIs DEF IInv
  <2>2. PICK call : Sent(t, m, call)
      BY <2>0
  <2> QED BY <2>2 DEF Sent
<1>2. CASE \E p \in Processes : Terminate(p)
    BY <1>2 DEF Terminate
<1>3. CASE reply_and_receive_next
    BY <1>3 DEF reply_and_receive_next
<1>4. CASE ElapsedMs \/ IgnoreTerminated
    BY <1>4 DEF ElapsedMs, IgnoreTerminated
<1>5. CASE SleepMs \/ RecalculateSleep \/ WaitForCondition \/ NotifyCondition
    BY <1>5, SleepInv, RecalcInv, WaitInv, NotifyInv
<1>6. CASE FreeCondition
  <2>1. handling /\ msg_opt.op = "FreeCondition"
      BY <1>6 DEF FreeCondition, Handling
  <2>2. PICK p \in Processes, c \in Conds : p = msg_opt.pid /\ c = msg_opt.cond
      BY <2>1 DEF IInv, LoopOK
  <2>3. \A e \in Senders : ~(e[2] = p /\ InTable(e, c))
      BY <2>1, <2>2 DEF FreesOK
  <2>4. ASSUME NEW i \in DOMAIN notify_table[<<p, c>>] PROVE FALSE
    <3>1. PICK e \in Senders : e = notify_table[<<p, c>>][i] /\ e[2] = p
        BY TableEntries DEF IInv
    <3>2. InTable(e, c)
        BY <3>1 DEF InTable
    <3> QED BY <2>3, <3>1, <3>2
  <2>5. DOMAIN notify_table[<<msg_opt.pid, msg_opt.cond>>] = {}
      BY <2>2, <2>4
  <2>6. panicked' = "no"
      BY <1>6, <2>5, FreeIs
  <2> QED BY <2>6
<1>7. CASE handle_irq
    BY <1>7, IrqInv
<1>8. CASE Tick \/ UNCHANGED vars
    BY <1>8 DEF Tick, vars
<1> QED BY <1>1, <1>2, <1>3, <1>4, <1>5, <1>6, <1>7, <1>8 DEF Next, ServerStep

\* No assertion of the handlers fails, as long as no client frees a condition that one of
\* its threads still waits for (stop_sleep, recalculate_sleep_offline, handle_irq and the
\* opcodes of the main loop).
THEOREM NoAssertFailsHolds ==
    ASSUME "FreeWhileWaiting" \notin Clients
    PROVE  Spec => []NoAssertFails
<1>1. Init => FreesOK /\ NoAssertFails
  <2>1. ASSUME Init PROVE FreesOK /\ NoAssertFails
    <3>1. DOMAIN inbox = {} /\ ~handling /\ panicked = "no"
        BY <2>1 DEF Init
    <3> QED BY <3>1 DEF FreesOK, NoAssertFails
  <2> QED BY <2>1
<1>2. IInv /\ FreesOK /\ NoAssertFails /\ [Next]_vars => FreesOK' /\ NoAssertFails'
    BY NextFrees, NextAsserts
<1> QED BY <1>1, <1>2, Invariance, PTL DEF Spec
=============================================================================
