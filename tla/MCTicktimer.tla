---------------------------- MODULE MCTicktimer ----------------------------
(* Instances of Ticktimer for TLC *)
EXTENDS Ticktimer, TLC

CONSTANTS t1, t2, t3, p1, p2

\* two threads of one process, one of another
MCProcessOf == t1 :> p1 @@ t2 :> p1 @@ t3 :> p2
=============================================================================
