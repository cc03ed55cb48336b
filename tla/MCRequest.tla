------------------------------ MODULE MCRequest ------------------------------
(***************************************************************************)
(* An instance of Request for TLC: short paths over every class of         *)
(* character, names of at most three.                                      *)
(***************************************************************************)
EXTENDS Request

\* A percent sign, a hexadecimal digit, a space and a semicolon.
MCByte ==
  [c \in Chars |-> CASE c = "." -> 37 [] c = "a" -> 70 [] c = "dev" -> 32 [] OTHER -> 59]
=============================================================================
