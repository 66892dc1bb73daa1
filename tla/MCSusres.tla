------------------------------ MODULE MCSusres ------------------------------
(***************************************************************************)
(* Small instances of Susres: services of the first and the last order, one  *)
(* of which may subscribe while a round is on.                                *)
(***************************************************************************)
EXTENDS Susres, TLC

CONSTANTS s1, s2

MCOrderOf == [s \in Subscribers |-> IF s = s1 THEN 1 ELSE 5]
=============================================================================
