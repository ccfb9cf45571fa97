------------------------------- MODULE Search -------------------------------
(***************************************************************************)
(* One call of _retrieve (the /search and /ask handlers, the evaluations): *)
(* the statements it sends to Postgres, one after the other, while filings *)
(* are being published, and what it makes of their rows.                   *)
(*                                                                         *)
(* Each statement sees the corpus as it is at that moment (READ COMMITTED).*)
(* Which of the matching chunks a search returns, and in which order, is   *)
(* left open: the index on embeddings is approximate and applies the       *)
(* filters to the neighbours it found, the full-text query may match       *)
(* nothing.                                                                *)
(***************************************************************************)
EXTENDS Retrieval

CONSTANTS
  DocumentOf,        \* the filings: a sequence of records [ticker, year]
  Items,             \* items of the chunks of a filing, in chunk_index order
  Queries,           \* the requests considered
  CandidateK,        \* CANDIDATE_K
  RerankCandidates,  \* settings.rerank_candidates
  MaxId              \* bound: chunk ids that are ever given out

Filters == [tickers : Seq(STRING), fiscal_years : Seq(Nat), items : Seq(STRING)]

SearchAssumption ==
  /\ DocumentOf \in Seq([ticker : STRING, year : Nat])
  /\ Items \in Seq(STRING)
  /\ \A q \in Queries : /\ q.k \in Nat \ {0} /\ q.rerank \in BOOLEAN
                         /\ q.filters \in Filters /\ q.years \in Seq(Nat)
  /\ CandidateK \in Nat \ {0}
  /\ RerankCandidates \in Nat \ {0}
  /\ MaxId \in Nat /\ Len(DocumentOf) * Len(Items) <= MaxId

ASSUME SearchAssumption

Filing == DOMAIN DocumentOf

VARIABLES
  corpus,   \* corpus[f]: the sequence of chunks published for filing f
  next_id,  \* the sequence behind chunks.id
  query,    \* the request
  pc,       \* the statement it sends next
  catalog,  \* the companies it has read
  scopes,   \* what infer_query_scopes made of it
  vec,      \* rows of the last vector_search
  fts,      \* rows of the last fulltext_search
  lists,    \* results of hybrid_search, one per scope
  results   \* what is returned

vars == <<corpus, next_id, query, pc, catalog, scopes, vec, fts, lists, results>>

Chunk == [id : 1 .. MaxId, ticker : { DocumentOf[f].ticker : f \in Filing },
          year : { DocumentOf[f].year : f \in Filing }, item : ToSet(Items)]

TypeOK ==
  /\ corpus \in [Filing -> Seq(Chunk)]
  /\ next_id \in 1 .. MaxId + 1
  /\ query \in Queries
  /\ pc \in {"catalog", "vector", "fulltext", "merge", "rerank", "done"}
  /\ catalog \in Seq(STRING)
  /\ scopes \in Seq(Filters)
  /\ vec \in Seq(Chunk) /\ fts \in Seq(Chunk)
  /\ lists \in Seq(Seq(Chunk))
  /\ results \in Seq(Chunk)

\* The chunks of a new version of f, numbered from id on.
NewVersion(f, id) ==
  [i \in DOMAIN Items |-> [id |-> id + i - 1, ticker |-> DocumentOf[f].ticker,
                           year |-> DocumentOf[f].year, item |-> Items[i]]]

Published == UNION { ToSet(corpus[f]) : f \in Filing }

Init ==
  /\ \E ingested \in SUBSET Filing :
       corpus = [f \in Filing |->
                   IF f \in ingested THEN NewVersion(f, (f - 1) * Len(Items) + 1) ELSE <<>>]
  /\ next_id = Len(DocumentOf) * Len(Items) + 1
  /\ query \in Queries
  /\ pc = "catalog"
  /\ catalog = <<>>
  /\ scopes = <<>>
  /\ vec = <<>>
  /\ fts = <<>>
  /\ lists = <<>>
  /\ results = <<>>

Republish(f) ==
  /\ next_id + Len(Items) <= MaxId + 1
  /\ corpus' = [corpus EXCEPT ![f] = NewVersion(f, next_id)]
  /\ next_id' = next_id + Len(Items)
  /\ UNCHANGED <<query, pc, catalog, scopes, vec, fts, lists, results>>

-----------------------------------------------------------------------------
fetch_k == IF query.rerank THEN RerankCandidates ELSE query.k

\* The filters of the hybrid_search under way.
Scope == IF scopes = <<>> THEN query.filters ELSE scopes[Len(lists) + 1]

\* What a statement with these filters and this limit may return.
Rows(filters, k) ==
  LET matching == { c \in Published : Matches(c, filters) }
  IN  { rows \in UNION { [1 .. n -> matching] : n \in 0 .. k } : IsInjective(rows) }

\* select(Document.ticker, Document.company_name).distinct(): of filings that have
\* chunks, and of those that were ingested and yielded none.
ReadCatalog ==
  /\ pc = "catalog"
  /\ query.mode = "hybrid"
  /\ \E empty \in SUBSET { f \in Filing : corpus[f] = <<>> } :
       catalog' \in SetToSeqs({ DocumentOf[f].ticker : f \in { g \in Filing : corpus[g] # <<>> } \cup empty })
  /\ scopes' = infer_query_scopes(query, catalog')
  /\ pc' = "vector"
  /\ UNCHANGED <<corpus, next_id, query, vec, fts, lists, results>>

VectorOnly ==
  /\ pc = "catalog"
  /\ query.mode = "vector"
  /\ results' \in Rows(query.filters, fetch_k)
  /\ pc' = IF query.rerank THEN "rerank" ELSE "done"
  /\ UNCHANGED <<corpus, next_id, query, catalog, scopes, vec, fts, lists>>

VectorSearch ==
  /\ pc = "vector"
  /\ vec' \in Rows(Scope, CandidateK)
  /\ pc' = "fulltext"
  /\ fts' = <<>>
  /\ UNCHANGED <<corpus, next_id, query, catalog, scopes, lists, results>>

FulltextSearch ==
  /\ pc = "fulltext"
  /\ fts' \in Rows(Scope, CandidateK)
  /\ lists' = Append(lists, Fused(vec, fts', fetch_k))
  /\ pc' = IF Len(lists') < Len(scopes) THEN "vector" ELSE "merge"
  /\ UNCHANGED <<corpus, next_id, query, catalog, scopes, vec, results>>

\* Mutant: `[0]` is forgotten.
Merge_Nested ==
  /\ pc = "merge"
  /\ results' = IF scopes = <<>> THEN lists ELSE interleave_results(lists, fetch_k)
  /\ pc' = IF query.rerank THEN "rerank" ELSE "done"
  /\ vec' = <<>> /\ fts' = <<>>
  /\ UNCHANGED <<corpus, next_id, query, catalog, scopes, lists>>

Merge ==
  /\ pc = "merge"
  /\ results' = IF scopes = <<>> THEN lists[1] ELSE interleave_results(lists, fetch_k)
  /\ pc' = IF query.rerank THEN "rerank" ELSE "done"
  /\ UNCHANGED <<corpus, next_id, query, catalog, scopes, vec, fts, lists>>

\* The cross-encoder may give any chunk any score.
Rerank ==
  /\ pc = "rerank"
  /\ \E score \in [ToSet(Ids(results)) -> 0 .. 1] :
       results' = rerank_results(results, score, query.k, scopes)
  /\ pc' = "done"
  /\ UNCHANGED <<corpus, next_id, query, catalog, scopes, vec, fts, lists>>

Retrieve == ReadCatalog \/ VectorOnly \/ VectorSearch \/ FulltextSearch \/ Merge \/ Rerank

Next == Retrieve \/ \E f \in Filing : Republish(f)

Spec == Init /\ [][Next]_vars

-----------------------------------------------------------------------------
(***************************************************************************)
(* Properties.                                                             *)
(***************************************************************************)

\* Whatever the question is split into, and whatever is published meanwhile, the
\* answer has at most k chunks, all different, all within the caller's filters.
FiltersHonoured ==
  pc = "done" =>
    /\ Len(results) <= query.k
    /\ IsInjective(Ids(results))
    /\ \A c \in ToSet(results) : Matches(c, query.filters)

\* "reserving one final slot per comparison scope": a company, or year, that any
\* search found something for is in the answer, whatever the scores, as long as
\* the answer has room for one chunk per scope.
ScopesRepresented ==
  pc = "done" /\ Len(scopes) <= query.k /\ Len(scopes) <= fetch_k =>
    \A i \in DOMAIN lists :
      scopes # <<>> /\ lists[i] # <<>> => \E c \in ToSet(results) : Matches(c, scopes[i])

\* Position of a chunk in a list, past the end when it is not there.
Rank(s, c) == IF c \in ToSet(s) THEN CHOOSE n \in DOMAIN s : s[n] = c ELSE Len(s) + 1

\* Reciprocal rank fusion respects both searches: a chunk that neither ranks
\* below another, and one ranks above it, comes first, and is not cut off in
\* favour of the other.
FusionRespectsBoth ==
  pc \in {"vector", "merge"} /\ lists # <<>> =>
    \A x, y \in ToSet(vec) \cup ToSet(fts) :
      /\ Rank(vec, x) <= Rank(vec, y)
      /\ Rank(fts, x) <= Rank(fts, y)
      /\ x # y
      => \/ y \notin ToSet(Last(lists))
         \/ Rank(Last(lists), x) < Rank(Last(lists), y)

=============================================================================
