--------------------------- MODULE MCServerQueue ---------------------------
(***************************************************************************)
(* Small instances of ServerQueue.  Two client processes of one thread each, *)
(* which is what makes discard_messages_for_pid selective.                   *)
(***************************************************************************)
EXTENDS ServerQueue, TLC

MCClients == {<<p, 1>> : p \in PIDs \ {ServerPid}}

\* The client processes are interchangeable.
Symmetry == Permutations(PIDs \ {ServerPid})
=============================================================================
