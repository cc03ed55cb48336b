------------------------------ MODULE MCService ------------------------------
(***************************************************************************)
(* An instance of Service for TLC: one download.                           *)
(***************************************************************************)
EXTENDS Service

CONSTANTS d1, c1, f1
=============================================================================
