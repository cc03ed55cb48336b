----------------------------- MODULE MCDatabase -----------------------------
(***************************************************************************)
(* An instance of Database for TLC: two downloads, and numbers one of      *)
(* which is too large for its column.                                      *)
(***************************************************************************)
EXTENDS Database, TLC

CONSTANTS d1, d2

Symmetry == Permutations(Ids)
=============================================================================
