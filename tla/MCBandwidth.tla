---------------------------- MODULE MCBandwidth ----------------------------
(***************************************************************************)
(* An instance of Bandwidth for TLC.  The transfers are interchangeable,   *)
(* but no symmetry is declared: the run checks liveness.                   *)
(***************************************************************************)
EXTENDS Bandwidth

CONSTANTS t1, t2
=============================================================================
