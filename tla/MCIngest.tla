------------------------------ MODULE MCIngest ------------------------------
(***************************************************************************)
(* Instances of Ingest for TLC: two filings of one company and fiscal year *)
(* (a 52/53-week year ends in early January twice).                        *)
(***************************************************************************)
EXTENDS Ingest

CONSTANTS f1, f2, p1, p2, p3

MCSlotOf == [f \in Filing |-> "slot"]

MCRank == [f \in Filing |-> IF f = f1 THEN 1 ELSE 2]

=============================================================================
