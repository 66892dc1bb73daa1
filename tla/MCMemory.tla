------------------------------ MODULE MCMemory ------------------------------
(* Instances of Memory for TLC *)
EXTENDS Memory, TLC

\* The processes are alike.
Interchangeable == Permutations(Processes)
=============================================================================
