----------------------------- MODULE MCMutexes -----------------------------
(* Instances of Mutexes for TLC *)
EXTENDS Mutexes, TLC

CONSTANTS t1, t2, t3, t4, p1, p2

\* three threads of one process, one of another
MCProcessOf == t1 :> p1 @@ t2 :> p1 @@ t3 :> p1 @@ t4 :> p2
=============================================================================
