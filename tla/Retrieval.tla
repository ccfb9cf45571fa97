----------------------------- MODULE Retrieval ------------------------------
(***************************************************************************)
(* The pure functions of retrieval/search.py: how a question is split into *)
(* scopes, how ranked lists are fused and interleaved, how the reranker's  *)
(* scores are turned into the final selection.                             *)
(*                                                                         *)
(* A chunk is a record [id, ticker, year, item]; its text is left out.     *)
(* What the regular expressions find in the question is given: the set of  *)
(* companies it mentions, its years in order of appearance, and whether it *)
(* has a word of comparison.  Tickers and items are in canonical case.     *)
(***************************************************************************)
EXTENDS Naturals, FiniteSets, SequencesExt

RRF_K == 60

NoFilters == [tickers |-> <<>>, fiscal_years |-> <<>>, items |-> <<>>]

-----------------------------------------------------------------------------
(***************************************************************************)
(* Lists.  They are defined by the ranks of their elements, not one element*)
(* after another, so that proofs need no induction over them.              *)
(***************************************************************************)

\* s[:k]
Take(s, k) == SubSeq(s, 1, IF k < Len(s) THEN k ELSE Len(s))

\* The elements of S in the order R, a set of pairs.
Arranged(S, R) ==
  LET Rank(x) == Cardinality({ y \in S : <<y, x>> \in R })
  IN  [n \in 1 .. Cardinality(S) |-> CHOOSE x \in S : Rank(x) = n - 1]

Ascending(places) == Arranged(places, { p \in places \X places : p[1] < p[2] })

\* The elements of s at a sequence of places, and at a set of places, in order.
At(s, places)   == [n \in DOMAIN places |-> s[places[n]]]
Kept(s, places) == At(s, Ascending(places))

\* dict.fromkeys: first occurrences, in order.
Unique(s) == Kept(s, { i \in DOMAIN s : \A j \in DOMAIN s : j < i => s[j] # s[i] })

-----------------------------------------------------------------------------
(***************************************************************************)
(* Filters and scopes.                                                     *)
(***************************************************************************)

\* An empty list filters nothing.
Within(value, list) == list = <<>> \/ value \in ToSet(list)

\* _apply_filters in SQL, _matches_scope in Python.
Matches(c, filters) ==
  /\ Within(c.ticker, filters.tickers)
  /\ Within(c.year, filters.fiscal_years)
  /\ Within(c.item, filters.items)

\* Mutant: a scope is made of its ticker alone.
CompanyScopes_TickerOnly(tickers, base) ==
  [i \in DOMAIN tickers |-> [NoFilters EXCEPT !.tickers = <<tickers[i]>>]]

CompanyScopes(tickers, base) ==
  [i \in DOMAIN tickers |-> [base EXCEPT !.tickers = <<tickers[i]>>]]

YearScopes(tickers, years, base) ==
  [i \in DOMAIN years |-> [base EXCEPT !.tickers = tickers, !.fiscal_years = <<years[i]>>]]

infer_query_scopes(query, catalog) ==
  LET base    == query.filters
      tickers == Unique(IF base.tickers # <<>>
                          THEN base.tickers
                          ELSE Kept(catalog, { i \in DOMAIN catalog :
                                                 catalog[i] \in query.mentions }))
      years   == IF base.fiscal_years # <<>> THEN base.fiscal_years ELSE Unique(query.years)
  IN  CASE Len(tickers) > 1                      -> CompanyScopes(tickers, base)
        [] Len(tickers) <= 1 /\ Len(years) > 1 /\ query.comparison
                                                 -> YearScopes(tickers, years, base)
        [] OTHER                                 -> <<>>

-----------------------------------------------------------------------------
(***************************************************************************)
(* Fusion.                                                                 *)
(***************************************************************************)

\* Fractions, as pairs.  (In floating point two different sums of equal value may
\* compare either way; no two such sums are equal with the lengths the model uses.)
Plus(p, q)    == <<p[1] * q[2] + q[1] * p[2], p[2] * q[2]>>
Greater(p, q) == p[1] * q[2] > q[1] * p[2]

\* What one list, without duplicates, adds to the score of id.
Reciprocal(list, id) ==
  IF id \in ToSet(list) THEN <<1, RRF_K + CHOOSE n \in DOMAIN list : list[n] = id>> ELSE <<0, 1>>

\* hybrid_search fuses two lists.
RrfScore(vec, fts, id) == Plus(Reciprocal(vec, id), Reciprocal(fts, id))

\* -score, then id.
Better(vec, fts, a, b) ==
  \/ Greater(RrfScore(vec, fts, a), RrfScore(vec, fts, b))
  \/ ~ Greater(RrfScore(vec, fts, b), RrfScore(vec, fts, a)) /\ a < b

\* Mutant: sorted without `reverse`.
rrf_fuse_Ascending(vec, fts) ==
  LET ids == ToSet(vec) \cup ToSet(fts)
  IN  Arranged(ids, { p \in ids \X ids : Better(vec, fts, p[2], p[1]) })

rrf_fuse(vec, fts) ==
  LET ids == ToSet(vec) \cup ToSet(fts)
  IN  Arranged(ids, { p \in ids \X ids : Better(vec, fts, p[1], p[2]) })

Ids(chunks) == [i \in DOMAIN chunks |-> chunks[i].id]

\* replace(by_id[cid], ...) for cid, score in fused[:k]
Fused(vec, fts, k) ==
  LET by_id(cid) == CHOOSE c \in ToSet(vec) \cup ToSet(fts) : c.id = cid
      fused      == Take(rrf_fuse(Ids(vec), Ids(fts)), k)
  IN  [i \in DOMAIN fused |-> by_id(fused[i])]

-----------------------------------------------------------------------------
(***************************************************************************)
(* Interleaving and reranking.                                             *)
(***************************************************************************)

\* A place is a pair: the n-th chunk of list l.  The first of every list come
\* first, then the second of every list, and so on.
Earlier(p, q) ==
  \/ p[1] < q[1]
  \/ p[1] = q[1] /\ p[2] < q[2]

\* The places of chunks not seen at an earlier one.
Unseen(lists) ==
  LET places == UNION { (DOMAIN lists[l]) \X {l} : l \in DOMAIN lists }
  IN  { p \in places : \A q \in places :
          Earlier(q, p) => lists[q[2]][q[1]].id # lists[p[2]][p[1]].id }

interleave_results(lists, k) ==
  LET merged == Arranged(Unseen(lists), { p \in Unseen(lists) \X Unseen(lists) :
                                            Earlier(p[1], p[2]) })
  IN  Take([n \in DOMAIN merged |-> lists[merged[n][2]][merged[n][1]]], k)

\* sorted(..., key=-score): stable.
Higher(chunks, score, i, j) ==
  \/ score[chunks[i].id] > score[chunks[j].id]
  \/ score[chunks[i].id] = score[chunks[j].id] /\ i < j

ByScore(chunks, score) ==
  LET places == DOMAIN chunks
  IN  At(chunks, Arranged(places, { p \in places \X places :
                                      Higher(chunks, score, p[1], p[2]) }))

\* Scope i takes the first of the chunks it can that earlier scopes have left;
\* taken[i] is its place, 0 when there is none.
Left(taken, reranked, scopes, i) ==
  { n \in DOMAIN reranked : /\ Matches(reranked[n], scopes[i])
                            /\ \A j \in DOMAIN taken : j < i => taken[j] # n }

Greedy(taken, reranked, scopes) ==
  \A i \in DOMAIN taken :
    IF Left(taken, reranked, scopes, i) = {}
      THEN taken[i] = 0
      ELSE /\ taken[i] \in Left(taken, reranked, scopes, i)
           /\ \A n \in Left(taken, reranked, scopes, i) : taken[i] <= n

\* `selected`: the places taken by the scopes, in the order of the scopes.
Reserved(reranked, scopes) ==
  LET taken == CHOOSE t \in [DOMAIN scopes -> 0 .. Len(reranked)] : Greedy(t, reranked, scopes)
  IN  Kept(taken, { i \in DOMAIN scopes : taken[i] # 0 })

\* Mutant: the k best, whatever their scope.
rerank_results_Unreserved(chunks, score, k, scopes) == Take(ByScore(chunks, score), k)

rerank_results(chunks, score, k, scopes) ==
  LET reranked == ByScore(chunks, score)
      selected == Reserved(reranked, scopes)
      others   == Ascending(DOMAIN reranked \ ToSet(selected))
  IN  IF scopes = <<>> \/ k < Len(scopes)
        THEN Take(reranked, k)
        ELSE ByScore(At(reranked, Take(selected \o others, k)), score)

=============================================================================
