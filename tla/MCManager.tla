------------------------------ MODULE MCManager ------------------------------
(***************************************************************************)
(* Instances of Manager for TLC.                                           *)
(***************************************************************************)
EXTENDS Manager, TLC

CONSTANTS d1, d2, d3, c1, c2

\* Ids and callers are interchangeable: only `created` and the queue order
\* them, and both are part of the state.  Runs are numbered and not permuted.
Symmetry == Permutations(Ids) \cup Permutations(Callers)

=============================================================================
