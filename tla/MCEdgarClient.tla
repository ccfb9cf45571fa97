--------------------------- MODULE MCEdgarClient ----------------------------
(***************************************************************************)
(* Instances of EdgarClient for TLC.  The code's 0.11 s, 1 s and 10        *)
(* requests become 3, 8 and 3: in both, `Limit` intervals are just longer  *)
(* than the second they have to fill.                                      *)
(***************************************************************************)
EXTENDS EdgarClient

=============================================================================
