---------------------------- MODULE MCAskStream -----------------------------
(***************************************************************************)
(* Instances of AskStream for TLC: two questions asked in one page.        *)
(***************************************************************************)
EXTENDS AskStream

CONSTANTS q1, q2

=============================================================================
