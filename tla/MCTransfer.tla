----------------------------- MODULE MCTransfer -----------------------------
(***************************************************************************)
(* Instances of Transfer for TLC: two tasks, each with a destination of    *)
(* its own or both with the same one.                                      *)
(***************************************************************************)
EXTENDS Transfer, TLC

CONSTANTS t1, t2, f1, f2

Together == (t1 :> f1) @@ (t2 :> f1)
Alone == t1 :> f1
=============================================================================
