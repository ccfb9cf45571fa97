---------------------------- MODULE RetrievalEval ----------------------------
(***************************************************************************)
(* `python -m secrag.evals.run`: the references of the golden questions    *)
(* are resolved to chunk ids first, all of them, and each question is      *)
(* asked later; filings are re-ingested at any time.  The model follows    *)
(* one question.  It is asked by the statements of Search, with no         *)
(* filters; a request of the interface is a query without references.      *)
(*                                                                         *)
(* A reference is a filing and the item its quote is in, and stands for    *)
(* the one chunk that has the quote.                                       *)
(***************************************************************************)
EXTENDS Search

Reference == [filing : Filing, item : STRING]

\* Documents are UNIQUE in ticker and fiscal year (all are of one type).
RetrievalEvalAssumption ==
  /\ \A f, g \in Filing : DocumentOf[f].ticker = DocumentOf[g].ticker
                         /\ DocumentOf[f].year = DocumentOf[g].year => f = g
  /\ \A q \in Queries : q.refs \in Seq(Reference)

ASSUME RetrievalEvalAssumption

VARIABLES
  unresolved,  \* references of the question that resolve_refs has yet to look up
  relevant,    \* relevant_by_q: the chunk ids found
  failures,    \* references that found nothing
  stale        \* auxiliary: filings re-ingested since a reference to them was resolved

golden   == <<unresolved, relevant, failures, stale>>
evalVars == <<vars, golden>>

EvalInit ==
  /\ Init
  /\ unresolved = query.refs
  /\ relevant = {}
  /\ failures = {}
  /\ stale = {}

-----------------------------------------------------------------------------
\* Mutant: the fiscal year is not compared.
Quoted_AnyYear(ref) ==
  { c \in Published : c.ticker = DocumentOf[ref.filing].ticker /\ c.item = ref.item }

\* The rows of the SELECT of resolve_refs.
Quoted(ref) ==
  { c \in Published : /\ c.ticker = DocumentOf[ref.filing].ticker
                      /\ c.year = DocumentOf[ref.filing].year
                      /\ c.item = ref.item }

ResolveRef ==
  /\ unresolved # <<>>
  /\ LET ref == Head(unresolved) IN
       /\ relevant' = relevant \cup { c.id : c \in Quoted(ref) }
       /\ failures' = IF Quoted(ref) = {} THEN failures \cup {ref} ELSE failures
  /\ unresolved' = Tail(unresolved)
  /\ UNCHANGED <<vars, stale>>

\* GoldenResolutionError ends the evaluation before any search.
AskQuestion ==
  /\ unresolved = <<>>
  /\ failures = {}
  /\ Retrieve
  /\ UNCHANGED golden

Reingest(f) ==
  /\ Republish(f)
  /\ stale' = IF \E ref \in ToSet(query.refs) \ ToSet(unresolved) : ref.filing = f
                THEN stale \cup {f} ELSE stale
  /\ UNCHANGED <<unresolved, relevant, failures>>

EvalNext == ResolveRef \/ AskQuestion \/ \E f \in Filing : Reingest(f)

EvalSpec == EvalInit /\ [][EvalNext]_evalVars

-----------------------------------------------------------------------------
(***************************************************************************)
(* The metrics.                                                            *)
(***************************************************************************)

\* recall_at_k times the number of relevant chunks.
recall_at_k(retrieved, k) == Cardinality(relevant \cap ToSet(Take(retrieved, k)))

\* One over mrr_at_k, or 0.
mrr_at_k(retrieved, k) ==
  LET hits == { i \in 1 .. k : i <= Len(retrieved) /\ retrieved[i] \in relevant }
  IN  IF hits = {} THEN 0 ELSE Min(hits)

-----------------------------------------------------------------------------
(***************************************************************************)
(* Properties.                                                             *)
(***************************************************************************)

Passage(c) == [filing |-> CHOOSE f \in Filing : DocumentOf[f].ticker = c.ticker
                                                /\ DocumentOf[f].year = c.year,
               item |-> c.item]

\* Of an evaluated question, recall and MRR speak of the passages that were
\* quoted: a chunk counts when it is one of them, and one of them does not count
\* only if its filing was re-ingested after its reference was resolved.
MeasuresPassages ==
  pc = "done" /\ query.refs # <<>> =>
    LET retrieved == Ids(results)
        Fresh(i)  == Passage(results[i]).filing \notin stale
        Quote(i)  == Passage(results[i]) \in ToSet(query.refs)
    IN  \A k \in 1 .. query.k :
          LET top   == { i \in 1 .. k : i <= Len(results) }
              found == { i \in top : Quote(i) /\ Fresh(i) }
              rank  == mrr_at_k(retrieved, k)
          IN  /\ Cardinality(found) <= recall_at_k(retrieved, k)
              /\ recall_at_k(retrieved, k) <= Cardinality({ i \in top : Quote(i) })
              /\ recall_at_k(retrieved, k) <= Cardinality(relevant)
              /\ rank = 0 <=> recall_at_k(retrieved, k) = 0
              /\ rank > 0 => Quote(rank) /\ \A i \in found : rank <= i

=============================================================================
