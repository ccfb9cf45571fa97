------------------------------- MODULE Corpus -------------------------------
(***************************************************************************)
(* What the ingestion side of secrag promises its readers.                 *)
(*                                                                         *)
(* The corpus holds one document per filing.  A reader that issues one SQL *)
(* statement sees, for every document, either nothing at all or the whole  *)
(* set of chunks that one ingestion run produced: versions are published   *)
(* atomically, never merged, and two filings of the same company and       *)
(* fiscal year are never published together.                               *)
(*                                                                         *)
(* Module Ingest is the detailed counterpart; it implements this module.   *)
(***************************************************************************)
EXTENDS Naturals

CONSTANTS
  Filing,       \* filings, identified by their accession number
  SlotOf,       \* SlotOf[f] = <<ticker, filing_type, fiscal_year>> of filing f
  Writer,       \* ingestion runs, those of the past included
  DraftCounts,  \* how many chunks the parser and chunker may make of a filing
  NoDocument    \* the corpus entry of a filing that has no document

VARIABLE corpus \* corpus[f]: the chunks of filing f, or NoDocument

\* The chunks written by run r when it cut a filing in n pieces: their
\* chunk_index values are 0 .. n-1.
Version(r, n) == { [run |-> r, idx |-> i] : i \in 0 .. n - 1 }

Versions == { Version(r, n) : r \in Writer, n \in DraftCounts }

Stored == { f \in Filing : corpus[f] # NoDocument }

\* UNIQUE (ticker, filing_type, fiscal_year)
SlotFree(f) == \A g \in Stored : SlotOf[g] = SlotOf[f] => g = f

Init ==
  /\ corpus \in [Filing -> Versions \cup {NoDocument}]
  /\ \A f \in Stored : SlotFree(f)

Publish(f) ==
  /\ SlotFree(f)
  /\ \E v \in Versions : corpus' = [corpus EXCEPT ![f] = v]

Next == \E f \in Filing : Publish(f)

Spec == Init /\ [][Next]_corpus

=============================================================================
