---------------------------- MODULE MCNameServer ----------------------------
(***************************************************************************)
(* Small instances of NameServer: two processes that want the same name, one    *)
(* of them for a server with a single connection.                            *)
(***************************************************************************)
EXTENDS NameServer

CONSTANTS r1, r2, n1

MCNameOf == [r \in Registrants |-> n1]

MCLimitOf == [r \in Registrants |-> IF r = r1 THEN 1 ELSE Unlimited]
=============================================================================
