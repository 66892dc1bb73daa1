------------------------------- MODULE Mailbox -------------------------------
(***************************************************************************)
(* What a server's queue promises, without slots, generations or indices:   *)
(* letters are delivered first-in first-out and once each; a letter whose    *)
(* sender expects an answer stays on record, under a token, until that       *)
(* answer is given; and a server thread waits only while no letter does.     *)
(***************************************************************************)
EXTENDS Sequences, Naturals

CONSTANTS
    Senders,    \* who may post a letter
    Threads,    \* threads of the server
    Tokens,     \* names of the letters being served
    Contents,   \* what a letter may carry
    Nobody      \* not a letter

\* What the sender of a letter waits for.
Expectations == {"nothing", "scalar", "memory"}

Letter == [from : Senders, expects : Expectations, body : Contents]

VARIABLES
    pending,    \* the letters not delivered yet, oldest first
    serving,    \* the delivered letter each token stands for
    idle        \* threads waiting for a letter

vars == <<pending, serving, idle>>

TypeOK ==
    /\ pending \in Seq(Letter)
    /\ serving \in [Tokens -> Letter \cup {Nobody}]
    /\ idle \in SUBSET Threads

Init ==
    /\ pending = <<>>
    /\ serving = [k \in Tokens |-> Nobody]
    /\ idle = {}

-----------------------------------------------------------------------------
\* The possible records after `letter` is handed over while `table` is current.
Handed(table, letter) ==
    IF letter.expects = "nothing"
    THEN {table}
    ELSE {[table EXCEPT ![j] = letter] : j \in {i \in Tokens : table[i] = Nobody}}

Served == {k \in Tokens : serving[k] # Nobody}

\* The record once the letter under token k is answered.
Answered(k) == [j \in Tokens |-> IF j = k THEN Nobody ELSE serving[j]]

\* A letter is queued because no thread waits.
Post(letter) ==
    /\ idle = {}
    /\ pending' = Append(pending, letter)
    /\ UNCHANGED <<serving, idle>>

\* A letter goes straight to a waiting thread.
Handoff(letter) ==
    /\ pending = <<>>
    /\ \E t \in idle : idle' = idle \ {t}
    /\ serving' \in Handed(serving, letter)
    /\ UNCHANGED pending

\* A waiting thread is released with nothing to do.
Release ==
    /\ \E t \in idle : idle' = idle \ {t}
    /\ UNCHANGED <<pending, serving>>

\* The oldest letter is delivered, with `table` the record before.
Deliver(table) ==
    /\ pending # <<>>
    /\ serving' \in Handed(table, Head(pending))
    /\ pending' = Tail(pending)
    /\ UNCHANGED idle

\* A thread starts to wait, which it may only do when no letter is pending.
Wait(table) ==
    /\ pending = <<>>
    /\ \E t \in Threads \ idle : idle' = idle \cup {t}
    /\ serving' = table
    /\ UNCHANGED pending

Reply ==
    /\ \E k \in Served : serving' = Answered(k)
    /\ UNCHANGED <<pending, idle>>

\* One call may answer a letter and then take the next one or wait.
ReplyAndReceive == \E k \in Served : Deliver(Answered(k)) \/ Wait(Answered(k))

\* The senders in S are gone: nobody waits for their scalar answers any more,
\* but memory they have lent must still come back.
Expire(S) ==
    /\ pending' = [n \in DOMAIN pending |->
                     IF pending[n].from \in S /\ pending[n].expects = "scalar"
                     THEN [pending[n] EXCEPT !.expects = "nothing"]
                     ELSE pending[n]]
    /\ UNCHANGED <<serving, idle>>

Next ==
    \/ \E letter \in Letter : Post(letter) \/ Handoff(letter)
    \/ Release
    \/ Deliver(serving)
    \/ Wait(serving)
    \/ Reply
    \/ ReplyAndReceive
    \/ \E S \in SUBSET Senders : Expire(S)

Spec == Init /\ [][Next]_vars
=============================================================================
