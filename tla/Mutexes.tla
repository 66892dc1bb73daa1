------------------------------ MODULE Mutexes ------------------------------
(***************************************************************************)
(* services/xous-ticktimer: LockMutex, UnlockMutex and FreeMutex, together    *)
(* with their client, the Mutex of the standard library (external).  It        *)
(* counts its users in an atomic and calls the server only when there is       *)
(* more than one.                                                            *)
(*                                                                         *)
(* The server receives a message, handles it and answers it in one step: in    *)
(* between it does nothing, and the others can only add to the queue.  A       *)
(* sender is named by its thread, which has one blocking call at a time        *)
(* (Ticktimer is about the entries of the queue and how they are used again).   *)
(***************************************************************************)
EXTENDS Integers, Sequences, FiniteSets, SequencesExt

CONSTANTS
    Threads,        \* client threads
    Processes,      \* their processes
    ProcessOf,      \* the process of each thread
    Addresses,      \* addresses of mutexes, in every process
    Mortal,         \* processes that may terminate
    None            \* not a thread

ASSUME MutexesAssumption ==
    /\ IsFiniteSet(Threads)
    /\ ProcessOf \in [Threads -> Processes]
    /\ Mortal \subseteq Processes
    /\ None \notin Threads

\* A mutex as the server knows it: a process and a number.
Places == Processes \X Addresses

Place(t, a) == <<ProcessOf[t], a>>

\* contending: counted, LockMutex not sent.  waiting: LockMutex sent.
\* releasing: no longer counted, UnlockMutex not sent.
Stages == {"idle", "contending", "waiting", "holding", "releasing", "gone"}

VARIABLES
    inbox,              \* queued messages, oldest first
    mutex_ready_table,  \* mutexes unlocked before anybody was waiting for them
    mutex_hash,         \* threads waiting for each mutex, oldest first
    locked,             \* std: number of threads that hold or want each mutex
    contended,          \* std: the server has been involved
    stage,              \* where each thread is
    wants,              \* the mutex it is there for
    panicked            \* an unwrap of the server has failed

serverVars == <<mutex_ready_table, mutex_hash>>
stdVars == <<locked, contended>>
threadVars == <<stage, wants>>
vars == <<inbox, serverVars, stdVars, threadVars, panicked>>

Message ==
    [op : {"LockMutex", "UnlockMutex", "FreeMutex"}, thread : Threads, place : Places,
     blocking : BOOLEAN]

TypeOK ==
    /\ inbox \in Seq(Message)
    /\ mutex_ready_table \in SUBSET Places
    /\ mutex_hash \in [Places -> Seq(Threads)]
    /\ locked \in [Places -> Nat]
    /\ contended \in SUBSET Places
    /\ stage \in [Threads -> Stages]
    /\ wants \in [Threads -> Places \cup {None}]
    /\ panicked \in BOOLEAN

Init ==
    /\ inbox = <<>>
    /\ mutex_ready_table = {}
    /\ mutex_hash = [p \in Places |-> <<>>]
    /\ locked = [p \in Places |-> 0]
    /\ contended = {}
    /\ stage = [t \in Threads |-> "idle"]
    /\ wants = [t \in Threads |-> None]
    /\ panicked = FALSE

At(t, p, stages) == wants[t] = p /\ stage[t] \in stages

Moves(t, to, p) ==
    /\ stage' = [stage EXCEPT ![t] = to]
    /\ wants' = [wants EXCEPT ![t] = p]

Send(op, t, p, blocking) ==
    inbox' = Append(inbox, [op |-> op, thread |-> t, place |-> p, blocking |-> blocking])

-----------------------------------------------------------------------------
(* std's Mutex: each step is one atomic operation or one message *)

\* try_lock: compare_exchange(0, 1); also lock when fetch_add returns 0
AcquireFast(t, a) ==
    /\ stage[t] = "idle"
    /\ locked[Place(t, a)] = 0
    /\ locked' = [locked EXCEPT ![Place(t, a)] = 1]
    /\ Moves(t, "holding", Place(t, a))
    /\ UNCHANGED <<inbox, serverVars, contended, panicked>>

\* lock: fetch_add returns more than 0
Contend(t, a) ==
    /\ stage[t] = "idle"
    /\ locked[Place(t, a)] > 0
    /\ locked' = [locked EXCEPT ![Place(t, a)] = @ + 1]
    /\ contended' = contended \cup {Place(t, a)}
    /\ Moves(t, "contending", Place(t, a))
    /\ UNCHANGED <<inbox, serverVars, panicked>>

SendLock(t) ==
    /\ stage[t] = "contending"
    /\ Send("LockMutex", t, wants[t], TRUE)
    /\ Moves(t, "waiting", wants[t])
    /\ UNCHANGED <<serverVars, stdVars, panicked>>

\* unlock: fetch_sub returns 1 if nobody else is counted
Unlock(t) ==
    LET p == wants[t]
    IN  /\ stage[t] = "holding"
        /\ locked' = [locked EXCEPT ![p] = @ - 1]
        /\ IF locked[p] = 1 THEN Moves(t, "idle", None) ELSE Moves(t, "releasing", p)
        /\ UNCHANGED <<inbox, serverVars, contended, panicked>>

SendUnlock(t) ==
    /\ stage[t] = "releasing"
    /\ Send("UnlockMutex", t, wants[t], FALSE)
    /\ Moves(t, "idle", None)
    /\ UNCHANGED <<serverVars, stdVars, panicked>>

\* drop: nobody can be using the mutex.  Its memory may become another Mutex.
Drop(t, a) ==
    LET p == Place(t, a)
    IN  /\ stage[t] = "idle"
        /\ p \in contended
        /\ \A u \in Threads : wants[u] # p
        /\ Send("FreeMutex", t, p, FALSE)
        /\ locked' = [locked EXCEPT ![p] = 0]
        /\ contended' = contended \ {p}
        /\ UNCHANGED <<serverVars, threadVars, panicked>>

-----------------------------------------------------------------------------
(* The process of some threads terminates; what it has queued stays queued. *)
Terminate(p) ==
    /\ p \in Mortal
    /\ stage' = [t \in Threads |-> IF ProcessOf[t] = p THEN "gone" ELSE stage[t]]
    /\ wants' = [t \in Threads |-> IF ProcessOf[t] = p THEN None ELSE wants[t]]
    /\ inbox' = [i \in DOMAIN inbox |->
                   IF inbox[i].place[1] = p THEN [inbox[i] EXCEPT !.blocking = FALSE] ELSE inbox[i]]
    /\ UNCHANGED <<serverVars, stdVars, panicked>>

-----------------------------------------------------------------------------
(* The server *)

Receive(op) ==
    /\ inbox # <<>> /\ ~panicked
    /\ Head(inbox).op = op
    /\ inbox' = Tail(inbox)

\* return_scalar, or the reply of the server's loop
Grant(t) ==
    /\ stage' = [stage EXCEPT ![t] = IF @ = "gone" THEN @ ELSE "holding"]
    /\ UNCHANGED wants

\* The message of a terminated client is not blocking: nothing is done.
IgnoreLock ==
    /\ Receive("LockMutex")
    /\ ~Head(inbox).blocking
    /\ UNCHANGED <<serverVars, stdVars, threadVars, panicked>>

\* Variant: the mutex stays ready.
LockReady_Kept ==
    LET p == Head(inbox).place
    IN  /\ Receive("LockMutex")
        /\ Head(inbox).blocking
        /\ p \in mutex_ready_table
        /\ Grant(Head(inbox).thread)
        /\ UNCHANGED <<serverVars, stdVars, panicked>>

\* "Return immediately without blocking."
LockReady ==
    LET p == Head(inbox).place
    IN  /\ Receive("LockMutex")
        /\ Head(inbox).blocking
        /\ p \in mutex_ready_table
        /\ mutex_ready_table' = mutex_ready_table \ {p}
        /\ Grant(Head(inbox).thread)
        /\ UNCHANGED <<mutex_hash, stdVars, panicked>>

\* Variant: the youngest waiter is first.
LockLater_Stack ==
    LET p == Head(inbox).place
    IN  /\ Receive("LockMutex")
        /\ Head(inbox).blocking
        /\ p \notin mutex_ready_table
        /\ mutex_hash' = [mutex_hash EXCEPT ![p] = <<Head(inbox).thread>> \o @]
        /\ UNCHANGED <<mutex_ready_table, stdVars, threadVars, panicked>>

LockLater ==
    LET p == Head(inbox).place
    IN  /\ Receive("LockMutex")
        /\ Head(inbox).blocking
        /\ p \notin mutex_ready_table
        /\ mutex_hash' = [mutex_hash EXCEPT ![p] = Append(@, Head(inbox).thread)]
        /\ UNCHANGED <<mutex_ready_table, stdVars, threadVars, panicked>>

\* Variant: the mutex becomes ready although a waiter has been answered.
UnlockToWaiter_AndReady ==
    LET p == Head(inbox).place
        t == Head(mutex_hash[p])
    IN  /\ Receive("UnlockMutex")
        /\ mutex_hash[p] # <<>>
        /\ mutex_hash' = [mutex_hash EXCEPT ![p] = Tail(@)]
        /\ mutex_ready_table' = mutex_ready_table \cup {p}
        /\ Grant(t)
        /\ panicked' = (stage[t] # "waiting")
        /\ UNCHANGED stdVars

\* The oldest waiter gets the mutex; return_scalar(..).unwrap() panics if it is gone.
UnlockToWaiter ==
    LET p == Head(inbox).place
        t == Head(mutex_hash[p])
    IN  /\ Receive("UnlockMutex")
        /\ mutex_hash[p] # <<>>
        /\ mutex_hash' = [mutex_hash EXCEPT ![p] = Tail(@)]
        /\ Grant(t)
        /\ panicked' = (stage[t] # "waiting")
        /\ UNCHANGED <<mutex_ready_table, stdVars>>

UnlockToReady ==
    LET p == Head(inbox).place
    IN  /\ Receive("UnlockMutex")
        /\ mutex_hash[p] = <<>>
        /\ mutex_ready_table' = mutex_ready_table \cup {p}
        /\ UNCHANGED <<mutex_hash, stdVars, threadVars, panicked>>

FreeMutex ==
    LET p == Head(inbox).place
    IN  /\ Receive("FreeMutex")
        /\ mutex_hash' = [mutex_hash EXCEPT ![p] = <<>>]
        /\ mutex_ready_table' = mutex_ready_table \ {p}
        /\ UNCHANGED <<stdVars, threadVars, panicked>>

-----------------------------------------------------------------------------
ClientStep(t) ==
    \/ \E a \in Addresses : AcquireFast(t, a) \/ Contend(t, a) \/ Drop(t, a)
    \/ SendLock(t)
    \/ Unlock(t)
    \/ SendUnlock(t)

ServerStep == LockReady \/ LockLater \/ UnlockToWaiter \/ UnlockToReady \/ FreeMutex

Next == ServerStep \/ \E t \in Threads : ClientStep(t)

Spec == Init /\ [][Next]_vars

\* The server's loop runs; a thread that has started to lock or unlock goes on, and one
\* that holds a mutex lets go of it.
Fairness ==
    /\ WF_vars(ServerStep)
    /\ \A t \in Threads : WF_vars(SendLock(t)) /\ WF_vars(Unlock(t)) /\ WF_vars(SendUnlock(t))

FairSpec == Spec /\ Fairness

\* The same when processes may terminate.
MortalNext == Next \/ IgnoreLock \/ \E p \in Processes : Terminate(p)

MortalSpec == Init /\ [][MortalNext]_vars

-----------------------------------------------------------------------------
(* Properties *)

\* Whoever holds the right to hand a mutex on: its holder, a thread about to send
\* UnlockMutex, that message, or the ready table.
Bearers(p) == {t \in Threads : At(t, p, {"holding", "releasing"})}
Unlocks(p) == {i \in DOMAIN inbox : inbox[i].op = "UnlockMutex" /\ inbox[i].place = p}

\* The threads that hold a mutex or have been counted as wanting it.
Users(p) == {t \in Threads : At(t, p, {"contending", "waiting", "holding"})}

\* There is one such right at most, so that "there was already one waiting" is never
\* logged, and it exists exactly while somebody holds the mutex or wants it: no message to
\* the server loses it, and none is left for a mutex that nobody uses.
OneToken ==
    /\ TypeOK
    /\ \A p \in Places :
          /\ \A t, u \in Bearers(p) : t = u
          /\ \A i, j \in Unlocks(p) : i = j
          /\ Bearers(p) # {} => Unlocks(p) = {} /\ p \notin mutex_ready_table
          /\ Unlocks(p) # {} => p \notin mutex_ready_table
          /\ Bearers(p) # {} \/ Unlocks(p) # {} \/ p \in mutex_ready_table <=> Users(p) # {}

\* The answer to a waiting thread can always be given: UnlockMutex does not panic.
NoPanic == ~panicked

\* The holder of each mutex; what the mutexes implement is a lock with an owner.
Owner == [p \in Places |->
            IF \E t \in Threads : At(t, p, {"holding"})
            THEN CHOOSE t \in Threads : At(t, p, {"holding"}) ELSE None]

Lock == INSTANCE OwnedLock WITH Locks <- Places, owner <- Owner

ImplementsLock == Lock!Spec

\* Every thread that wants a mutex gets it.
LockersServed ==
    \A t \in Threads : stage[t] = "contending" ~> stage[t] = "holding"
=============================================================================
