----------------------------- MODULE OwnedLock -----------------------------
(***************************************************************************)
(* What the mutexes of a system promise: each has no owner or one, and only   *)
(* its owner gives it up.                                                    *)
(***************************************************************************)
CONSTANTS Threads, Locks, None

VARIABLE owner

TypeOK == owner \in [Locks -> Threads \cup {None}]

Init == owner = [k \in Locks |-> None]

Acquire(t, k) ==
    /\ owner[k] = None
    /\ owner' = [owner EXCEPT ![k] = t]

Release(t, k) ==
    /\ owner[k] = t
    /\ owner' = [owner EXCEPT ![k] = None]

Next == \E t \in Threads, k \in Locks : Acquire(t, k) \/ Release(t, k)

Spec == Init /\ [][Next]_owner
=============================================================================
