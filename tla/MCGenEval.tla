----------------------------- MODULE MCGenEval ------------------------------
(***************************************************************************)
(* Instances of Gate for TLC: two questions, one without an answer.        *)
(***************************************************************************)
EXTENDS Gate

CONSTANTS g1, g2

MCGolden == <<g1, g2>>

=============================================================================
