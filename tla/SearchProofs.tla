---------------------------- MODULE SearchProofs ----------------------------
(***************************************************************************)
(* Proofs about retrieval, for any filings, requests, limits, answers of   *)
(* the two searches and scores of the reranker.                            *)
(***************************************************************************)
EXTENDS RetrievalEval, FiniteSetTheorems, SequenceTheorems, TLAPS

-----------------------------------------------------------------------------
(***************************************************************************)
(* Lists in order.                                                         *)
(***************************************************************************)

LEMMA LeastNatural ==
  ASSUME NEW T \in SUBSET Nat, T # {}
  PROVE  \E m \in T : \A n \in T : m <= n
<1> DEFINE R == OpToRel(<, Nat)
<1>1. IsWellFoundedOn(R, Nat)
  BY NatLessThanWellFounded
<1>2. R = { ss \in Nat \X Nat : ss[1] < ss[2] }
  BY DEF OpToRel
<1> HIDE DEF R
<1>3. PICK m \in T : \A n \in T : <<n, m>> \notin R
  BY <1>1, WFMin
<1>4. \A n \in T : ~ (n < m)
  BY <1>2, <1>3
<1> QED
  BY <1>4

LEMMA UpTo ==
  ASSUME NEW n \in Nat
  PROVE  IsFiniteSet(1 .. n) /\ Cardinality(1 .. n) = n
<1>1. IsFiniteSet(1 .. n) /\ Cardinality(1 .. n) = IF 1 > n THEN 0 ELSE n - 1 + 1
  BY FS_Interval
<1> QED
  BY <1>1

\* R orders S.
Orders(R, S) ==
  /\ \A x \in S : <<x, x>> \notin R
  /\ \A x, y, z \in S : <<x, y>> \in R /\ <<y, z>> \in R => <<x, z>> \in R
  /\ \A x, y \in S : x # y => <<x, y>> \in R \/ <<y, x>> \in R

Below(x, S, R) == { y \in S : <<y, x>> \in R }

LEMMA BelowGrows ==
  ASSUME NEW S, NEW R, IsFiniteSet(S), Orders(R, S), NEW x \in S
  PROVE  /\ Cardinality(Below(x, S, R)) \in Nat
         /\ Cardinality(Below(x, S, R)) < Cardinality(S)
         /\ \A y \in S : <<y, x>> \in R =>
              Cardinality(Below(y, S, R)) < Cardinality(Below(x, S, R))
<1>1. ASSUME NEW T, NEW U, IsFiniteSet(U), T \subseteq U, NEW e \in U, e \notin T
      PROVE  /\ Cardinality(T) \in Nat /\ Cardinality(U) \in Nat
             /\ Cardinality(T) < Cardinality(U)
  <2>1. T \in SUBSET U /\ T # U
    BY <1>1
  <2>2. IsFiniteSet(T) /\ Cardinality(T) <= Cardinality(U) /\ Cardinality(T) # Cardinality(U)
    BY <1>1, <2>1, FS_Subset
  <2> QED
    BY <1>1, <2>2, FS_CardinalityType
<1>2. Below(x, S, R) \subseteq S /\ x \notin Below(x, S, R)
  BY DEF Below, Orders
<1>3. ASSUME NEW y \in S, <<y, x>> \in R
      PROVE  Cardinality(Below(y, S, R)) < Cardinality(Below(x, S, R))
  <2>1. Below(y, S, R) \subseteq Below(x, S, R) /\ y \in Below(x, S, R) /\ y \notin Below(y, S, R)
    BY <1>3 DEF Below, Orders
  <2>2. IsFiniteSet(Below(x, S, R))
    BY <1>2, FS_Subset
  <2> QED
    BY <1>1, <2>1, <2>2
<1> QED
  BY <1>1, <1>2, <1>3

\* Every element of S has a place of its own in the arrangement, and every place
\* an element: those below it are as many as the places before.
LEMMA ArrangedInOrder ==
  ASSUME NEW S, NEW R, IsFiniteSet(S), Orders(R, S)
  PROVE  /\ Cardinality(S) \in Nat
         /\ Arranged(S, R) \in [1 .. Cardinality(S) -> S]
         /\ \A n \in 1 .. Cardinality(S) : Cardinality(Below(Arranged(S, R)[n], S, R)) = n - 1
         /\ \A x \in S : \E n \in 1 .. Cardinality(S) : Arranged(S, R)[n] = x
         /\ \A m, n \in 1 .. Cardinality(S) : <<Arranged(S, R)[m], Arranged(S, R)[n]>> \in R <=> m < n
         /\ \A m, n \in 1 .. Cardinality(S) : Arranged(S, R)[m] = Arranged(S, R)[n] => m = n
<1> DEFINE N    == Cardinality(S)
           rank == [x \in S |-> Cardinality(Below(x, S, R)) + 1]
           A    == Arranged(S, R)
<1>1. N \in Nat
  BY FS_CardinalityType
<1>2. rank \in [S -> 1 .. N]
  <2> SUFFICES ASSUME NEW x \in S PROVE Cardinality(Below(x, S, R)) + 1 \in 1 .. N
    OBVIOUS
  <2>1. Cardinality(Below(x, S, R)) \in Nat /\ Cardinality(Below(x, S, R)) < N
    BY BelowGrows
  <2> QED
    BY <1>1, <2>1
<1>3. ASSUME NEW x \in S, NEW y \in S, <<y, x>> \in R PROVE rank[y] < rank[x]
  <2>1. /\ Cardinality(Below(x, S, R)) \in Nat
        /\ Cardinality(Below(y, S, R)) \in Nat
        /\ Cardinality(Below(y, S, R)) < Cardinality(Below(x, S, R))
    BY <1>3, BelowGrows
  <2> QED
    BY <2>1
<1>4. \A x, y \in S : x # y => <<x, y>> \in R \/ <<y, x>> \in R
  BY DEF Orders
<1>5. A = [n \in 1 .. N |-> CHOOSE x \in S : Cardinality(Below(x, S, R)) = n - 1]
  BY DEF Arranged, Below
<1>6. \A x \in S, n \in 1 .. N : Cardinality(Below(x, S, R)) = n - 1 <=> rank[x] = n
  <2> TAKE x \in S, n \in 1 .. N
  <2>1. Cardinality(Below(x, S, R)) \in Nat
    BY BelowGrows
  <2> QED
    BY <2>1
<1> HIDE DEF rank, N, A
<1>7. \A x, y \in S : rank[x] = rank[y] => x = y
  <2> SUFFICES ASSUME NEW x \in S, NEW y \in S, x # y PROVE rank[x] # rank[y]
    OBVIOUS
  <2>1. rank[x] < rank[y] \/ rank[y] < rank[x]
    BY <1>3, <1>4
  <2>2. rank[x] \in 1 .. N /\ rank[y] \in 1 .. N
    BY <1>2
  <2> QED
    BY <1>1, <2>1, <2>2
<1>8. rank \in Surjection(S, 1 .. N)
  <2>1. rank \in Injection(S, 1 .. N)
    BY <1>2, <1>7 DEF Injection, IsInjective
  <2>2. IsFiniteSet(1 .. N) /\ Cardinality(1 .. N) = Cardinality(S)
    BY <1>1, UpTo DEF N
  <2> QED
    BY <2>1, <2>2, FS_Injection
<1>9. \A n \in 1 .. N : \E x \in S : rank[x] = n
  BY <1>8 DEF Surjection
<1>10. \A n \in 1 .. N : A[n] \in S /\ Cardinality(Below(A[n], S, R)) = n - 1
  <2> TAKE n \in 1 .. N
  <2>1. A[n] = CHOOSE x \in S : Cardinality(Below(x, S, R)) = n - 1
    BY <1>5
  <2>2. \E x \in S : Cardinality(Below(x, S, R)) = n - 1
    BY <1>6, <1>9
  <2> QED
    BY <2>1, <2>2
<1>11. \A n \in 1 .. N : A[n] \in S /\ rank[A[n]] = n
  BY <1>6, <1>10
<1>12. A \in [1 .. N -> S]
  BY <1>5, <1>10
<1>13. \A x \in S : \E n \in 1 .. N : A[n] = x
  <2> TAKE x \in S
  <2>1. rank[x] \in 1 .. N
    BY <1>2
  <2>2. A[rank[x]] \in S /\ rank[A[rank[x]]] = rank[x]
    BY <1>11, <2>1
  <2> QED
    BY <1>7, <2>1, <2>2
<1>14. ASSUME NEW m \in 1 .. N, NEW n \in 1 .. N PROVE <<A[m], A[n]>> \in R <=> m < n
  <2>1. A[m] \in S /\ A[n] \in S /\ rank[A[m]] = m /\ rank[A[n]] = n
    BY <1>11
  <2>2. <<A[m], A[n]>> \in R => m < n
    BY <1>3, <2>1
  <2>3. <<A[n], A[m]>> \in R => n < m
    BY <1>3, <2>1
  <2>4. m # n => A[m] # A[n]
    BY <2>1
  <2> QED
    BY <1>1, <1>4, <2>1, <2>2, <2>3, <2>4
<1>15. \A m, n \in 1 .. N : A[m] = A[n] => m = n
  BY <1>11
<1> QED
  BY <1>1, <1>10, <1>12, <1>13, <1>14, <1>15 DEF N, A

LEMMA ListOf ==
  ASSUME NEW S, NEW n \in Nat, NEW f \in [1 .. n -> S]
  PROVE  f \in Seq(S) /\ Len(f) = n /\ DOMAIN f = 1 .. n
OBVIOUS

LEMMA PlacesOf ==
  ASSUME NEW S, NEW s \in Seq(S), NEW P \in SUBSET DOMAIN s
  PROVE  P \in SUBSET Nat /\ IsFiniteSet(P)
<1>1. Len(s) \in Nat /\ DOMAIN s = 1 .. Len(s)
  OBVIOUS
<1>2. IsFiniteSet(1 .. Len(s))
  BY <1>1, UpTo
<1>3. P \in SUBSET (1 .. Len(s))
  BY <1>1
<1>4. IsFiniteSet(P)
  BY <1>2, <1>3, FS_Subset
<1> QED
  BY <1>1, <1>4

LEMMA AscendingPlaces ==
  ASSUME NEW P \in SUBSET Nat, IsFiniteSet(P)
  PROVE  /\ Ascending(P) \in Seq(P) /\ Len(Ascending(P)) = Cardinality(P)
         /\ \A i \in P : \E n \in DOMAIN Ascending(P) : Ascending(P)[n] = i
         /\ \A m, n \in DOMAIN Ascending(P) : Ascending(P)[m] < Ascending(P)[n] <=> m < n
         /\ \A m, n \in DOMAIN Ascending(P) : Ascending(P)[m] = Ascending(P)[n] => m = n
<1> DEFINE R == { p \in P \X P : p[1] < p[2] }
           A == Arranged(P, R)
           N == Cardinality(P)
<1>1. \A i, j \in P : <<i, j>> \in R <=> i < j
  OBVIOUS
<1>2. Ascending(P) = A
  BY DEF Ascending
<1> HIDE DEF R
<1>3. Orders(R, P)
  BY <1>1 DEF Orders
<1>4. /\ N \in Nat /\ A \in [1 .. N -> P]
      /\ \A x \in P : \E n \in 1 .. N : A[n] = x
      /\ \A m, n \in 1 .. N : <<A[m], A[n]>> \in R <=> m < n
      /\ \A m, n \in 1 .. N : A[m] = A[n] => m = n
  <2> HIDE DEF A, N
  <2>1. /\ Cardinality(P) \in Nat
        /\ Arranged(P, R) \in [1 .. Cardinality(P) -> P]
        /\ \A x \in P : \E n \in 1 .. Cardinality(P) : Arranged(P, R)[n] = x
        /\ \A m, n \in 1 .. Cardinality(P) : <<Arranged(P, R)[m], Arranged(P, R)[n]>> \in R <=> m < n
        /\ \A m, n \in 1 .. Cardinality(P) : Arranged(P, R)[m] = Arranged(P, R)[n] => m = n
    BY <1>3, ArrangedInOrder
  <2> QED
    BY <2>1 DEF A, N
<1> HIDE DEF A, N
<1>5. A \in Seq(P) /\ DOMAIN A = 1 .. N /\ Len(A) = N
  BY <1>4, ListOf
<1> QED
  BY <1>1, <1>2, <1>4, <1>5 DEF N

LEMMA KeptElements ==
  ASSUME NEW S, NEW s \in Seq(S), NEW P \in SUBSET DOMAIN s
  PROVE  Kept(s, P) \in Seq(S) /\ ToSet(Kept(s, P)) = { s[i] : i \in P }
<1> DEFINE A == Ascending(P)
<1>1. /\ A \in Seq(P)
      /\ \A i \in P : \E n \in DOMAIN A : A[n] = i
  BY PlacesOf, AscendingPlaces
<1>2. Kept(s, P) = [n \in DOMAIN A |-> s[A[n]]]
  BY DEF Kept, At
<1> HIDE DEF A
<1>3. \A n \in DOMAIN A : A[n] \in P /\ s[A[n]] \in S
  BY <1>1
<1>4. DOMAIN A = 1 .. Len(A) /\ Len(A) \in Nat
  BY <1>1
<1>5. Kept(s, P) \in [1 .. Len(A) -> S]
  BY <1>2, <1>3, <1>4
<1>6. Kept(s, P) \in Seq(S)
  BY <1>4, <1>5, ListOf
<1> QED
  BY <1>1, <1>2, <1>3, <1>6 DEF ToSet

LEMMA UniqueElements ==
  ASSUME NEW S, NEW s \in Seq(S)
  PROVE  Unique(s) \in Seq(S) /\ ToSet(Unique(s)) = ToSet(s)
<1> DEFINE P == { i \in DOMAIN s : \A j \in DOMAIN s : j < i => s[j] # s[i] }
<1>1. P \in SUBSET DOMAIN s
  OBVIOUS
<1>2. \A x \in ToSet(s) : \E i \in P : s[i] = x
  <2> TAKE x \in ToSet(s)
  <2> DEFINE T == { i \in DOMAIN s : s[i] = x }
  <2>1. T # {} /\ T \in SUBSET Nat
    BY DEF ToSet
  <2>2. PICK i \in T : \A j \in T : i <= j
    BY <2>1, LeastNatural
  <2>3. \A j \in DOMAIN s : j < i => j \notin T
    BY <2>1, <2>2
  <2> QED
    BY <2>2, <2>3
<1>3. Unique(s) = Kept(s, P)
  BY DEF Unique
<1> HIDE DEF P
<1>4. Unique(s) \in Seq(S) /\ ToSet(Unique(s)) = { s[i] : i \in P }
  BY <1>1, <1>3, KeptElements
<1> QED
  BY <1>1, <1>2, <1>4 DEF ToSet

-----------------------------------------------------------------------------
(***************************************************************************)
(* Scopes.                                                                 *)
(***************************************************************************)

\* A scope admits nothing that the filters of the caller do not.
Narrower(scope, filters) == \A c \in Chunk : Matches(c, scope) => Matches(c, filters)

LEMMA ScopesNarrow ==
  ASSUME NEW q \in Queries, NEW names \in Seq(STRING)
  PROVE  /\ infer_query_scopes(q, names) \in Seq(Filters)
         /\ \A i \in DOMAIN infer_query_scopes(q, names) :
              Narrower(infer_query_scopes(q, names)[i], q.filters)
<1> DEFINE base    == q.filters
           said    == Kept(names, { i \in DOMAIN names : names[i] \in q.mentions })
           tickers == Unique(IF base.tickers # <<>> THEN base.tickers ELSE said)
           years   == IF base.fiscal_years # <<>> THEN base.fiscal_years ELSE Unique(q.years)
<1>1. base \in Filters /\ q.years \in Seq(Nat)
  BY SearchAssumption DEF SearchAssumption
<1>2. said \in Seq(STRING)
  <2>1. { i \in DOMAIN names : names[i] \in q.mentions } \in SUBSET DOMAIN names
    OBVIOUS
  <2> QED
    BY <2>1, KeptElements
<1>3. /\ tickers \in Seq(STRING)
      /\ base.tickers # <<>> => tickers # <<>> /\ ToSet(tickers) = ToSet(base.tickers)
  <2>1. base.tickers \in Seq(STRING)
    BY <1>1 DEF Filters
  <2> HIDE DEF base, said
  <2>2. /\ tickers \in Seq(STRING)
        /\ base.tickers # <<>> => ToSet(tickers) = ToSet(base.tickers)
    <3> DEFINE named == IF base.tickers # <<>> THEN base.tickers ELSE said
    <3>1. named \in Seq(STRING)
      BY <1>2, <2>1
    <3> HIDE DEF named
    <3>2. Unique(named) \in Seq(STRING) /\ ToSet(Unique(named)) = ToSet(named)
      BY <3>1, UniqueElements
    <3> QED
      BY <3>2 DEF named
  <2>3. base.tickers # <<>> => ToSet(base.tickers) # {}
    <3>1. base.tickers # <<>> => 1 \in DOMAIN base.tickers
      BY <2>1
    <3> QED
      BY <3>1 DEF ToSet
  <2>4. ToSet(<<>>) = {}
    BY DEF ToSet
  <2> QED
    BY <2>2, <2>3, <2>4
<1>4. /\ years \in Seq(Nat)
      /\ base.fiscal_years # <<>> => ToSet(years) \subseteq ToSet(base.fiscal_years)
  <2>1. base.fiscal_years \in Seq(Nat)
    BY <1>1 DEF Filters
  <2>2. Unique(q.years) \in Seq(Nat)
    BY <1>1, UniqueElements
  <2> QED
    BY <2>1, <2>2
<1>5. infer_query_scopes(q, names) \in
        { CompanyScopes(tickers, base), YearScopes(tickers, years, base), <<>> }
  BY DEF infer_query_scopes
<1> HIDE DEF base, said, tickers, years
<1>6. /\ CompanyScopes(tickers, base) \in Seq(Filters)
      /\ \A i \in DOMAIN CompanyScopes(tickers, base) :
           Narrower(CompanyScopes(tickers, base)[i], base)
  <2> DEFINE new == CompanyScopes(tickers, base)
  <2>1. new = [i \in DOMAIN tickers |-> [base EXCEPT !.tickers = <<tickers[i]>>]]
    BY DEF CompanyScopes
  <2>2. ASSUME NEW i \in DOMAIN tickers
        PROVE  /\ [base EXCEPT !.tickers = <<tickers[i]>>] \in Filters
               /\ Narrower([base EXCEPT !.tickers = <<tickers[i]>>], base)
    <3>1. tickers[i] \in STRING /\ tickers[i] \in ToSet(tickers)
      BY <1>3 DEF ToSet
    <3>2. <<tickers[i]>> \in Seq(STRING) /\ <<tickers[i]>> # <<>> /\ ToSet(<<tickers[i]>>) = {tickers[i]}
      BY <3>1 DEF ToSet
    <3> QED
      BY <1>1, <1>3, <3>1, <3>2 DEF Filters, Narrower, Matches, Within
  <2> HIDE DEF new
  <2>3. new \in [1 .. Len(tickers) -> Filters] /\ Len(tickers) \in Nat
    BY <1>3, <2>1, <2>2
  <2>4. new \in Seq(Filters)
    BY <2>3, ListOf
  <2> QED
    BY <2>1, <2>2, <2>4 DEF new
<1>7. /\ YearScopes(tickers, years, base) \in Seq(Filters)
      /\ \A i \in DOMAIN YearScopes(tickers, years, base) :
           Narrower(YearScopes(tickers, years, base)[i], base)
  <2> DEFINE new == YearScopes(tickers, years, base)
             scope(i) == [base EXCEPT !.tickers = tickers, !.fiscal_years = <<years[i]>>]
  <2>1. new = [i \in DOMAIN years |-> scope(i)]
    BY DEF YearScopes
  <2>2. ASSUME NEW i \in DOMAIN years
        PROVE  scope(i) \in Filters /\ Narrower(scope(i), base)
    <3>1. years[i] \in Nat /\ years[i] \in ToSet(years)
      BY <1>4 DEF ToSet
    <3>2. <<years[i]>> \in Seq(Nat) /\ <<years[i]>> # <<>> /\ ToSet(<<years[i]>>) = {years[i]}
      BY <3>1 DEF ToSet
    <3> QED
      BY <1>1, <1>3, <1>4, <3>1, <3>2 DEF Filters, Narrower, Matches, Within
  <2> HIDE DEF new, scope
  <2>3. new \in [1 .. Len(years) -> Filters] /\ Len(years) \in Nat
    BY <1>4, <2>1, <2>2
  <2>4. new \in Seq(Filters)
    BY <2>3, ListOf
  <2> QED
    BY <2>1, <2>2, <2>4 DEF new
<1>8. <<>> \in Seq(Filters) /\ DOMAIN <<>> = {}
  OBVIOUS
<1> QED
  BY <1>5, <1>6, <1>7, <1>8 DEF base

-----------------------------------------------------------------------------
(***************************************************************************)
(* Fusion.                                                                 *)
(***************************************************************************)

LEMMA TakePrefix ==
  ASSUME NEW S, NEW s \in Seq(S), NEW k \in Nat
  PROVE  /\ Take(s, k) \in Seq(S)
         /\ Len(Take(s, k)) = IF k < Len(s) THEN k ELSE Len(s)
         /\ \A n \in DOMAIN Take(s, k) : n \in DOMAIN s /\ Take(s, k)[n] = s[n]
BY DEF Take

LEMMA ElementsFinite ==
  ASSUME NEW S, NEW s \in Seq(S)
  PROVE  IsFiniteSet(ToSet(s))
<1>1. Len(s) \in Nat /\ DOMAIN s = 1 .. Len(s) /\ s \in [1 .. Len(s) -> S]
  OBVIOUS
<1>2. s \in Surjection(1 .. Len(s), ToSet(s))
  BY <1>1 DEF Surjection, ToSet
<1> QED
  BY <1>1, <1>2, UpTo, FS_Surjection

Fraction == Nat \X (Nat \ {0})

LEMMA Products ==
  /\ \A a, b \in Nat : a * b \in Nat /\ a * b = b * a
  /\ \A a, b, c \in Nat : a * (b * c) = (a * b) * c /\ a * (b + c) = a * b + a * c
  /\ \A a, b \in Nat \ {0} : a * b \in Nat \ {0}
  /\ \A a, b, c \in Nat : a <= b => c * a <= c * b
  /\ \A a, b \in Nat, c \in Nat \ {0} : a < b => c * a < c * b
OBVIOUS

LEMMA FractionsOrdered ==
  ASSUME NEW p \in Fraction, NEW q \in Fraction, NEW r \in Fraction
  PROVE  /\ Greater(p, q) => ~ Greater(q, p)
         /\ ~ Greater(p, q) /\ ~ Greater(q, r) => ~ Greater(p, r)
<1> PICK a \in Nat, b \in Nat \ {0} : p = <<a, b>>
  BY DEF Fraction
<1> PICK c \in Nat, d \in Nat \ {0} : q = <<c, d>>
  BY DEF Fraction
<1> PICK e \in Nat, f \in Nat \ {0} : r = <<e, f>>
  BY DEF Fraction
<1>1. /\ Greater(p, q) <=> a * d > c * b
      /\ Greater(q, p) <=> c * b > a * d
      /\ Greater(q, r) <=> c * f > e * d
      /\ Greater(p, r) <=> a * f > e * b
  BY DEF Greater
<1>2. a * d \in Nat /\ c * b \in Nat /\ c * f \in Nat /\ e * d \in Nat /\ a * f \in Nat /\ e * b \in Nat
  BY Products
<1>3. ASSUME a * d <= c * b, c * f <= e * d PROVE a * f <= e * b
  <2>1. f * (a * d) <= f * (c * b)
    BY <1>2, <1>3, Products
  <2>2. b * (c * f) <= b * (e * d)
    BY <1>2, <1>3, Products
  <2>3. f * (a * d) = d * (a * f) /\ f * (c * b) = b * (c * f) /\ b * (e * d) = d * (e * b)
    BY Products
  <2>4. d * (a * f) <= d * (e * b)
    <3>1. f * (a * d) \in Nat /\ b * (c * f) \in Nat /\ b * (e * d) \in Nat
      BY <1>2, Products
    <3> QED
      BY <2>1, <2>2, <2>3, <3>1
  <2>5. ~ (e * b < a * f)
    <3> SUFFICES ASSUME e * b < a * f PROVE FALSE
      OBVIOUS
    <3>1. d * (e * b) < d * (a * f)
      BY <1>2, Products
    <3>2. d * (e * b) \in Nat /\ d * (a * f) \in Nat
      BY <1>2, Products
    <3> QED
      BY <2>4, <3>1, <3>2
  <2> QED
    BY <1>2, <2>5
<1> QED
  BY <1>1, <1>2, <1>3

LEMMA ScoresAreFractions ==
  ASSUME NEW vs, NEW v \in Seq(vs), NEW f \in Seq(vs), NEW id
  PROVE  RrfScore(v, f, id) \in Fraction
<1>1. ASSUME NEW list \in Seq(vs) PROVE Reciprocal(list, id) \in Fraction
  <2>1. CASE id \in ToSet(list)
    <3>1. PICK n \in DOMAIN list : list[n] = id
      BY <2>1 DEF ToSet
    <3>2. (CHOOSE m \in DOMAIN list : list[m] = id) \in Nat
      <4>1. (CHOOSE m \in DOMAIN list : list[m] = id) \in DOMAIN list
        BY <3>1
      <4> QED
        BY <4>1
    <3> QED
      BY <2>1, <3>2 DEF Reciprocal, Fraction, RRF_K
  <2>2. CASE id \notin ToSet(list)
    BY <2>2 DEF Reciprocal, Fraction
  <2> QED
    BY <2>1, <2>2
<1>2. \A p, q \in Fraction : Plus(p, q) \in Fraction
  <2> TAKE p, q \in Fraction
  <2>1. p[1] \in Nat /\ q[1] \in Nat /\ p[2] \in Nat \ {0} /\ q[2] \in Nat \ {0}
    BY DEF Fraction
  <2>2. p[1] * q[2] \in Nat /\ q[1] * p[2] \in Nat /\ p[2] * q[2] \in Nat \ {0}
    BY <2>1, Products
  <2> QED
    BY <2>2 DEF Plus, Fraction
<1> QED
  BY <1>1, <1>2 DEF RrfScore

\* The fused ids, best first.
LEMMA FusedInOrder ==
  ASSUME NEW v \in Seq(Nat), NEW f \in Seq(Nat)
  PROVE  /\ rrf_fuse(v, f) \in Seq(ToSet(v) \cup ToSet(f))
         /\ \A x \in ToSet(v) \cup ToSet(f) : \E n \in DOMAIN rrf_fuse(v, f) : rrf_fuse(v, f)[n] = x
         /\ \A m, n \in DOMAIN rrf_fuse(v, f) :
              Better(v, f, rrf_fuse(v, f)[m], rrf_fuse(v, f)[n]) <=> m < n
         /\ \A m, n \in DOMAIN rrf_fuse(v, f) : rrf_fuse(v, f)[m] = rrf_fuse(v, f)[n] => m = n
<1> DEFINE ids == ToSet(v) \cup ToSet(f)
           R   == { p \in ids \X ids : Better(v, f, p[1], p[2]) }
           A   == Arranged(ids, R)
           N   == Cardinality(ids)
<1>1. IsFiniteSet(ids) /\ ids \subseteq Nat
  <2>1. IsFiniteSet(ToSet(v)) /\ IsFiniteSet(ToSet(f))
    BY ElementsFinite
  <2>2. ToSet(v) \subseteq Nat /\ ToSet(f) \subseteq Nat
    BY DEF ToSet
  <2> QED
    BY <2>1, <2>2, FS_Union
<1>2. \A x, y \in ids : <<x, y>> \in R <=> Better(v, f, x, y)
  OBVIOUS
<1>3. rrf_fuse(v, f) = A
  BY DEF rrf_fuse
<1>4. Orders(R, ids)
  <2> HIDE DEF R, ids
  <2> DEFINE score(x) == RrfScore(v, f, x)
  <2>1. \A x : score(x) \in Fraction
    BY ScoresAreFractions
  <2>2. \A x, y : Greater(score(x), score(y)) => ~ Greater(score(y), score(x))
    BY <2>1, FractionsOrdered
  <2>3. \A x, y, z : ~ Greater(score(x), score(y)) /\ ~ Greater(score(y), score(z))
                       => ~ Greater(score(x), score(z))
    BY <2>1, FractionsOrdered
  <2>4. \A x, y : Better(v, f, x, y) <=>
          \/ Greater(score(x), score(y))
          \/ ~ Greater(score(y), score(x)) /\ x < y
    BY DEF Better
  <2> HIDE DEF score
  <2>5. ASSUME NEW x \in ids, NEW y \in ids, NEW z \in ids,
               Better(v, f, x, y), Better(v, f, y, z)
        PROVE  Better(v, f, x, z)
    <3>1. x \in Nat /\ y \in Nat /\ z \in Nat
      BY <1>1
    <3>2. x < y /\ y < z => x < z
      BY <3>1
    <3> QED
      BY <2>2, <2>3, <2>4, <2>5, <3>2
  <2>6. ASSUME NEW x \in ids, NEW y \in ids, x # y
        PROVE  Better(v, f, x, y) \/ Better(v, f, y, x)
    <3>1. x < y \/ y < x
      BY <1>1, <2>6
    <3> QED
      BY <2>2, <2>4, <3>1
  <2>7. \A x \in ids : ~ Better(v, f, x, x)
    <3> TAKE x \in ids
    <3>1. ~ (x < x)
      BY <1>1
    <3> QED
      BY <2>2, <2>4, <3>1
  <2> QED
    BY <1>2, <2>5, <2>6, <2>7 DEF Orders
<1> HIDE DEF R, ids
<1>5. /\ N \in Nat /\ A \in [1 .. N -> ids]
      /\ \A x \in ids : \E n \in 1 .. N : A[n] = x
      /\ \A m, n \in 1 .. N : <<A[m], A[n]>> \in R <=> m < n
      /\ \A m, n \in 1 .. N : A[m] = A[n] => m = n
  BY <1>1, <1>4, ArrangedInOrder
<1> HIDE DEF A, N
<1>6. A \in Seq(ids) /\ DOMAIN A = 1 .. N
  BY <1>5, ListOf
<1>7. \A m, n \in DOMAIN A : Better(v, f, A[m], A[n]) <=> m < n
  BY <1>2, <1>5, <1>6
<1> QED
  BY <1>3, <1>5, <1>6, <1>7 DEF ids

LEMMA IdsOf ==
  ASSUME NEW s \in Seq(Chunk)
  PROVE  /\ Ids(s) \in Seq(Nat) /\ DOMAIN Ids(s) = DOMAIN s
         /\ \A n \in DOMAIN s : Ids(s)[n] = s[n].id
         /\ ToSet(Ids(s)) = { c.id : c \in ToSet(s) }
<1>1. \A n \in DOMAIN s : s[n] \in Chunk /\ s[n].id \in Nat
  <2>1. \A c \in Chunk : c.id \in Nat
    BY SearchAssumption DEF SearchAssumption, Chunk
  <2>2. \A n \in DOMAIN s : s[n] \in Chunk
    OBVIOUS
  <2> QED
    BY <2>1, <2>2
<1>2. Len(s) \in Nat /\ DOMAIN s = 1 .. Len(s)
  OBVIOUS
<1>3. Ids(s) = [n \in 1 .. Len(s) |-> s[n].id]
  BY <1>2 DEF Ids
<1>4. Ids(s) \in [1 .. Len(s) -> Nat]
  BY <1>1, <1>2, <1>3
<1>5. Ids(s) \in Seq(Nat)
  BY <1>2, <1>4, ListOf
<1> QED
  BY <1>2, <1>3, <1>5 DEF ToSet

\* Of chunks that the two searches found, every result is one of them, no two have
\* the same id, and as many are there as the limit admits.
LEMMA FusedRows ==
  ASSUME NEW v \in Seq(Chunk), NEW f \in Seq(Chunk), NEW k \in Nat
  PROVE  LET order == rrf_fuse(Ids(v), Ids(f))
         IN  /\ Fused(v, f, k) \in Seq(Chunk) /\ Len(Fused(v, f, k)) <= k
             /\ Len(Fused(v, f, k)) = IF k < Len(order) THEN k ELSE Len(order)
             /\ \A n \in DOMAIN Fused(v, f, k) :
                  /\ n \in DOMAIN order
                  /\ Fused(v, f, k)[n] \in ToSet(v) \cup ToSet(f)
                  /\ Fused(v, f, k)[n].id = order[n]
             /\ IsInjective(Ids(Fused(v, f, k)))
<1> DEFINE found == ToSet(v) \cup ToSet(f)
           order == rrf_fuse(Ids(v), Ids(f))
           cut   == Take(order, k)
           by_id(cid) == CHOOSE c \in found : c.id = cid
           result == Fused(v, f, k)
<1>1. found \subseteq Chunk
  BY DEF ToSet
<1>2. /\ order \in Seq({ c.id : c \in found })
      /\ \A m, n \in DOMAIN order : order[m] = order[n] => m = n
  <2>1. ToSet(Ids(v)) \cup ToSet(Ids(f)) = { c.id : c \in found }
    BY IdsOf
  <2> HIDE DEF found
  <2>2. Ids(v) \in Seq(Nat) /\ Ids(f) \in Seq(Nat)
    BY IdsOf
  <2> QED
    BY <2>1, <2>2, FusedInOrder
<1> HIDE DEF found, order
<1>3. /\ cut \in Seq({ c.id : c \in found })
      /\ Len(cut) = IF k < Len(order) THEN k ELSE Len(order)
      /\ \A n \in DOMAIN cut : n \in DOMAIN order /\ cut[n] = order[n]
  BY <1>2, TakePrefix
<1>4. result = [n \in DOMAIN cut |-> by_id(cut[n])]
  BY DEF Fused, found, order
<1> HIDE DEF cut
<1>5. ASSUME NEW n \in DOMAIN cut
      PROVE  by_id(cut[n]) \in found /\ by_id(cut[n]).id = cut[n]
  <2>1. cut[n] \in { c.id : c \in found }
    BY <1>3
  <2> QED
    BY <2>1
<1>6. Len(cut) \in Nat /\ DOMAIN cut = 1 .. Len(cut) /\ Len(order) \in Nat
  BY <1>2, <1>3
<1> HIDE DEF by_id, result
<1>7. result \in [1 .. Len(cut) -> Chunk]
  BY <1>1, <1>4, <1>5, <1>6
<1>8. result \in Seq(Chunk) /\ Len(result) = Len(cut) /\ DOMAIN result = DOMAIN cut
  BY <1>6, <1>7, ListOf
<1>9. \A n \in DOMAIN result : result[n] \in found /\ result[n].id = order[n] /\ n \in DOMAIN order
  BY <1>3, <1>4, <1>5, <1>8
<1>10. IsInjective(Ids(result))
  <2>1. /\ DOMAIN Ids(result) = DOMAIN result
        /\ \A n \in DOMAIN result : Ids(result)[n] = result[n].id
    BY <1>8, IdsOf
  <2>2. \A n \in DOMAIN result : Ids(result)[n] = order[n] /\ n \in DOMAIN order
    BY <1>9, <2>1
  <2> QED
    BY <1>2, <2>1, <2>2 DEF IsInjective
<1>11. Len(result) <= k
  BY <1>3, <1>6, <1>8
<1> QED
  BY <1>3, <1>8, <1>9, <1>10, <1>11 DEF result, order, found

-----------------------------------------------------------------------------
(***************************************************************************)
(* Interleaving.                                                           *)
(***************************************************************************)

Places(s) == UNION { (DOMAIN s[l]) \X {l} : l \in DOMAIN s }

LEMMA PlacesFinite ==
  ASSUME NEW S, NEW s \in Seq(Seq(S))
  PROVE  /\ IsFiniteSet(Places(s))
         /\ \A p : p \in Places(s) <=> \E l \in DOMAIN s : \E n \in DOMAIN s[l] : p = <<n, l>>
         /\ \A p \in Places(s) : p[1] \in Nat /\ p[2] \in Nat
<1>1. Len(s) \in Nat /\ DOMAIN s = 1 .. Len(s) /\ \A l \in DOMAIN s : s[l] \in Seq(S)
  OBVIOUS
<1>2. \A p : p \in Places(s) <=> \E l \in DOMAIN s : \E n \in DOMAIN s[l] : p = <<n, l>>
  BY DEF Places
<1>3. \A l \in DOMAIN s : \A n \in DOMAIN s[l] : n \in Nat /\ l \in Nat
  <2> TAKE l \in DOMAIN s
  <2>1. s[l] \in Seq(S) /\ l \in Nat
    BY <1>1
  <2> QED
    BY <2>1
<1> DEFINE T(l)   == (DOMAIN s[l]) \X {l}
           rows   == [l \in DOMAIN s |-> T(l)]
           Rows_s == { T(l) : l \in DOMAIN s }
<1>4. \A l \in DOMAIN s : IsFiniteSet(T(l))
  <2> TAKE l \in DOMAIN s
  <2>1. IsFiniteSet(DOMAIN s[l])
    <3>1. s[l] \in Seq(S)
      BY <1>1
    <3>2. DOMAIN s[l] = 1 .. Len(s[l]) /\ Len(s[l]) \in Nat
      BY <3>1
    <3> QED
      BY <3>2, UpTo
  <2>2. IsFiniteSet({l})
    BY FS_Singleton
  <2> QED
    BY <2>1, <2>2, FS_Product
<1>5. IsFiniteSet(Rows_s)
  <2>1. rows \in Surjection(DOMAIN s, Rows_s)
    BY DEF Surjection
  <2>2. IsFiniteSet(DOMAIN s)
    BY <1>1, UpTo
  <2> QED
    BY <2>1, <2>2, FS_Surjection
<1>6. IsFiniteSet(UNION Rows_s)
  <2>1. \A U \in Rows_s : IsFiniteSet(U)
    BY <1>4
  <2> HIDE DEF Rows_s
  <2> QED
    BY <1>5, <2>1, FS_UNION
<1>7. Places(s) = UNION Rows_s
  BY DEF Places
<1>8. \A p \in Places(s) : p[1] \in Nat /\ p[2] \in Nat
  BY <1>2, <1>3
<1> QED
  BY <1>2, <1>6, <1>7, <1>8

\* Every id of the lists is at one place, and one only, of those merged: the
\* earliest.
LEMMA UnseenPlaces ==
  ASSUME NEW S, NEW s \in Seq(Seq(S)), NEW p \in Places(s)
  PROVE  \E q \in Unseen(s) : /\ q = p \/ Earlier(q, p)
                              /\ s[q[2]][q[1]].id = s[p[2]][p[1]].id
<1> DEFINE id(q) == s[q[2]][q[1]].id
           T     == { q \in Places(s) : id(q) = id(p) }
           First == { q[1] : q \in T }
<1>1. \A q \in Places(s) : q[1] \in Nat /\ q[2] \in Nat /\ q = <<q[1], q[2]>>
  <2> TAKE q \in Places(s)
  <2>1. \E l \in DOMAIN s : \E n \in DOMAIN s[l] : q = <<n, l>>
    BY PlacesFinite
  <2>2. q = <<q[1], q[2]>>
    BY <2>1
  <2> QED
    BY <2>2, PlacesFinite
<1> HIDE DEF id
<1>2. First \in SUBSET Nat /\ First # {}
  BY <1>1
<1>3. PICK n \in First : \A m \in First : n <= m
  BY <1>2, LeastNatural
<1> DEFINE Second == { q[2] : q \in { x \in T : x[1] = n } }
<1>4. Second \in SUBSET Nat /\ Second # {}
  BY <1>1, <1>3
<1>5. PICK l \in Second : \A m \in Second : l <= m
  <2> HIDE DEF Second
  <2> QED
    BY <1>4, LeastNatural
<1>6. PICK q \in T : q[1] = n /\ q[2] = l
  BY <1>5
<1>7. \A x \in T : ~ Earlier(x, q)
  <2> TAKE x \in T
  <2>1. n <= x[1] /\ n \in Nat /\ x[1] \in Nat
    BY <1>1, <1>3
  <2>2. x[1] = n => l <= x[2] /\ l \in Nat /\ x[2] \in Nat
    BY <1>1, <1>4, <1>5
  <2> QED
    BY <1>6, <2>1, <2>2 DEF Earlier
<1>8. q = p \/ Earlier(q, p)
  <2>1. p \in T
    OBVIOUS
  <2>2. n <= p[1] /\ n \in Nat /\ p[1] \in Nat
    BY <1>1, <1>3, <2>1
  <2>3. p[1] = n => l <= p[2] /\ l \in Nat /\ p[2] \in Nat
    BY <1>1, <1>4, <1>5, <2>1
  <2>4. p = <<p[1], p[2]>> /\ q = <<q[1], q[2]>>
    BY <1>1
  <2> QED
    BY <1>6, <2>2, <2>3, <2>4 DEF Earlier
<1>9. q \in Unseen(s)
  <2>1. Unseen(s) = { x \in Places(s) : \A y \in Places(s) : Earlier(y, x) => id(y) # id(x) }
    BY DEF Unseen, Places, id
  <2> QED
    BY <1>7, <2>1
<1>10. id(q) = id(p)
  OBVIOUS
<1> QED
  BY <1>8, <1>9, <1>10 DEF id

\* What is merged, before it is cut: the chunks at the unseen places.
LEMMA MergedPlaces ==
  ASSUME NEW S, NEW s \in Seq(Seq(S))
  PROVE  LET U == Unseen(s)
             R == { p \in U \X U : Earlier(p[1], p[2]) }
         IN  /\ U \subseteq Places(s) /\ IsFiniteSet(U) /\ Orders(R, U)
             /\ \A p \in U, q \in U : s[p[2]][p[1]].id = s[q[2]][q[1]].id => p = q
<1> DEFINE U == Unseen(s)
           R == { p \in U \X U : Earlier(p[1], p[2]) }
           id(q) == s[q[2]][q[1]].id
<1>1. U = { x \in Places(s) : \A y \in Places(s) : Earlier(y, x) => id(y) # id(x) }
  BY DEF Unseen, Places
<1>2. U \in SUBSET Places(s) /\ IsFiniteSet(U)
  <2>1. U \in SUBSET Places(s)
    BY <1>1
  <2> HIDE DEF U
  <2> QED
    BY <2>1, PlacesFinite, FS_Subset
<1>3. \A p \in U : p[1] \in Nat /\ p[2] \in Nat /\ p = <<p[1], p[2]>>
  <2> TAKE p \in U
  <2>1. p \in Places(s)
    BY <1>2
  <2>2. \E l \in DOMAIN s : \E n \in DOMAIN s[l] : p = <<n, l>>
    BY <2>1, PlacesFinite
  <2>3. p = <<p[1], p[2]>>
    BY <2>2
  <2> QED
    BY <2>1, <2>3, PlacesFinite
<1>4. \A p, q \in U : <<p, q>> \in R <=> Earlier(p, q)
  OBVIOUS
<1> HIDE DEF U, R, id
<1>5. ASSUME NEW p \in U, NEW q \in U, p # q
      PROVE  Earlier(p, q) \/ Earlier(q, p)
  <2>1. p[1] # q[1] \/ p[2] # q[2]
    BY <1>3, <1>5
  <2>2. p[1] \in Nat /\ p[2] \in Nat /\ q[1] \in Nat /\ q[2] \in Nat
    BY <1>3
  <2> QED
    BY <2>1, <2>2 DEF Earlier
<1>6. Orders(R, U)
  <2>1. \A p \in U : ~ Earlier(p, p)
    BY <1>3 DEF Earlier
  <2>2. ASSUME NEW p \in U, NEW q \in U, NEW r \in U, Earlier(p, q), Earlier(q, r)
        PROVE  Earlier(p, r)
    <3>1. /\ p[1] \in Nat /\ p[2] \in Nat /\ q[1] \in Nat /\ q[2] \in Nat
          /\ r[1] \in Nat /\ r[2] \in Nat
      BY <1>3
    <3> QED
      BY <2>2, <3>1 DEF Earlier
  <2> QED
    BY <1>4, <1>5, <2>1, <2>2 DEF Orders
<1>7. \A p \in U, q \in U : id(p) = id(q) => p = q
  <2> SUFFICES ASSUME NEW p \in U, NEW q \in U, p # q PROVE id(p) # id(q)
    OBVIOUS
  <2>1. p \in Places(s) /\ q \in Places(s)
    BY <1>2
  <2> QED
    BY <1>1, <1>5, <2>1
<1> QED
  BY <1>2, <1>6, <1>7 DEF U, R, id

\* No id is in the merged list twice, and when there is room for one chunk of each
\* list, the first of each is in it.
LEMMA InterleavedRows ==
  ASSUME NEW s \in Seq(Seq(Chunk)), NEW k \in Nat
  PROVE  /\ interleave_results(s, k) \in Seq(Chunk)
         /\ Len(interleave_results(s, k)) <= k
         /\ IsInjective(Ids(interleave_results(s, k)))
         /\ \A c \in ToSet(interleave_results(s, k)) : \E l \in DOMAIN s : c \in ToSet(s[l])
         /\ Len(s) <= k =>
              \A l \in DOMAIN s : s[l] # <<>> =>
                \E c \in ToSet(interleave_results(s, k)) : c.id = s[l][1].id
<1> DEFINE U == Unseen(s)
           R == { p \in U \X U : Earlier(p[1], p[2]) }
           A == Arranged(U, R)
           N == Cardinality(U)
           chunk(p) == s[p[2]][p[1]]
           all == [n \in DOMAIN A |-> chunk(A[n])]
           result == interleave_results(s, k)
<1>1. result = Take(all, k)
  BY DEF interleave_results
<1>2. /\ U \subseteq Places(s) /\ IsFiniteSet(U) /\ Orders(R, U)
      /\ \A p \in U, q \in U : chunk(p).id = chunk(q).id => p = q
  BY MergedPlaces
<1>3. \A p, q \in U : <<p, q>> \in R <=> Earlier(p, q)
  OBVIOUS
<1> HIDE DEF U, R
<1>4. /\ N \in Nat /\ A \in [1 .. N -> U]
      /\ \A n \in 1 .. N : Cardinality(Below(A[n], U, R)) = n - 1
      /\ \A p \in U : \E n \in 1 .. N : A[n] = p
      /\ \A m, n \in 1 .. N : A[m] = A[n] => m = n
  BY <1>2, ArrangedInOrder
<1> HIDE DEF A, N
<1>5. \A p \in U : \E l \in DOMAIN s : p[2] = l /\ p[1] \in DOMAIN s[l] /\ p = <<p[1], p[2]>>
  <2> TAKE p \in U
  <2>1. \E l \in DOMAIN s : \E n \in DOMAIN s[l] : p = <<n, l>>
    BY <1>2, PlacesFinite
  <2> QED
    BY <2>1
<1>6. \A p \in U : chunk(p) \in Chunk /\ \E l \in DOMAIN s : chunk(p) \in ToSet(s[l])
  <2> TAKE p \in U
  <2>1. PICK l \in DOMAIN s : p[2] = l /\ p[1] \in DOMAIN s[l]
    BY <1>5
  <2>2. s[l] \in Seq(Chunk)
    OBVIOUS
  <2> QED
    BY <2>1, <2>2 DEF ToSet
<1>7. all \in [1 .. N -> Chunk] /\ \A n \in 1 .. N : all[n] = chunk(A[n]) /\ A[n] \in U
  BY <1>4, <1>6
<1> HIDE DEF all, result
<1>8. all \in Seq(Chunk) /\ Len(all) = N /\ DOMAIN all = 1 .. N
  BY <1>4, <1>7, ListOf
<1>9. /\ result \in Seq(Chunk)
      /\ Len(result) = IF k < N THEN k ELSE N
      /\ \A n \in DOMAIN result : n \in 1 .. N /\ result[n] = chunk(A[n])
  BY <1>1, <1>7, <1>8, TakePrefix
<1>10. Len(result) <= k
  BY <1>4, <1>9
<1>11. IsInjective(Ids(result))
  <2>1. /\ DOMAIN Ids(result) = DOMAIN result
        /\ \A n \in DOMAIN result : Ids(result)[n] = result[n].id
    BY <1>9, IdsOf
  <2>2. ASSUME NEW m \in DOMAIN result, NEW n \in DOMAIN result, Ids(result)[m] = Ids(result)[n]
        PROVE  m = n
    <3>1. m \in 1 .. N /\ n \in 1 .. N /\ chunk(A[m]).id = chunk(A[n]).id
      BY <1>9, <2>1, <2>2
    <3>2. A[m] \in U /\ A[n] \in U
      BY <1>7, <3>1
    <3>3. A[m] = A[n]
      BY <1>2, <3>1, <3>2
    <3> QED
      BY <1>4, <3>1, <3>3
  <2> QED
    BY <2>1, <2>2 DEF IsInjective
<1>12. \A c \in ToSet(result) : \E l \in DOMAIN s : c \in ToSet(s[l])
  <2> TAKE c \in ToSet(result)
  <2>1. PICK n \in DOMAIN result : c = result[n]
    BY DEF ToSet
  <2>2. n \in 1 .. N /\ c = chunk(A[n]) /\ A[n] \in U
    BY <1>7, <1>9, <2>1
  <2> QED
    BY <1>6, <2>2
<1>13. ASSUME Len(s) <= k, NEW l \in DOMAIN s, s[l] # <<>>
       PROVE  \E c \in ToSet(result) : c.id = s[l][1].id
  <2>1. l \in 1 .. Len(s) /\ Len(s) \in Nat /\ 1 \in DOMAIN s[l]
    <3>1. s[l] \in Seq(Chunk)
      OBVIOUS
    <3> QED
      BY <1>13, <3>1
  <2>2. <<1, l>> \in Places(s)
    BY <2>1, PlacesFinite
  <2>3. PICK q \in U : (q = <<1, l>> \/ Earlier(q, <<1, l>>)) /\ chunk(q).id = s[l][1].id
    <3>1. \E q \in Unseen(s) : /\ q = <<1, l>> \/ Earlier(q, <<1, l>>)
                              /\ chunk(q).id = s[<<1, l>>[2]][<<1, l>>[1]].id
      BY <2>2, UnseenPlaces
    <3> QED
      BY <3>1 DEF U
  <2>4. q[1] = 1 /\ q[2] \in 1 .. Len(s)
    <3>1. PICK j \in DOMAIN s : q[2] = j /\ q[1] \in DOMAIN s[j]
      BY <1>5
    <3>2. s[j] \in Seq(Chunk)
      OBVIOUS
    <3>3. q[1] \in Nat /\ q[1] >= 1 /\ j \in 1 .. Len(s)
      BY <3>1, <3>2
    <3> QED
      BY <2>1, <2>3, <3>1, <3>3 DEF Earlier
  <2>5. PICK n \in 1 .. N : A[n] = q
    BY <1>4
  <2>6. Below(q, U, R) \subseteq {1} \X (1 .. q[2] - 1)
    <3> SUFFICES ASSUME NEW p \in U, <<p, q>> \in R PROVE p \in {1} \X (1 .. q[2] - 1)
      BY DEF Below
    <3>1. Earlier(p, q)
      BY <1>3
    <3>2. PICK j \in DOMAIN s : p[2] = j /\ p[1] \in DOMAIN s[j] /\ p = <<p[1], p[2]>>
      BY <1>5
    <3>3. s[j] \in Seq(Chunk)
      OBVIOUS
    <3>4. p[1] \in Nat /\ p[1] >= 1 /\ p[2] \in 1 .. Len(s)
      BY <3>2, <3>3
    <3>5. p[1] = 1 /\ p[2] \in 1 .. q[2] - 1
      BY <2>1, <2>4, <3>1, <3>4 DEF Earlier
    <3> QED
      BY <3>2, <3>5
  <2>7. Cardinality(Below(q, U, R)) <= q[2] - 1
    <3>1. IsFiniteSet(1 .. q[2] - 1) /\ Cardinality(1 .. q[2] - 1) = q[2] - 1
      <4>1. q[2] - 1 \in Nat
        BY <2>1, <2>4
      <4> QED
        BY <4>1, UpTo
    <3>2. IsFiniteSet({1}) /\ Cardinality({1}) = 1
      BY FS_Singleton
    <3>3. /\ IsFiniteSet({1} \X (1 .. q[2] - 1))
          /\ Cardinality({1} \X (1 .. q[2] - 1)) = 1 * Cardinality(1 .. q[2] - 1)
      BY <3>1, <3>2, FS_Product
    <3>4. Cardinality(Below(q, U, R)) <= Cardinality({1} \X (1 .. q[2] - 1))
      BY <2>6, <3>3, FS_Subset
    <3>5. 1 * (q[2] - 1) = q[2] - 1
      BY <2>1, <2>4
    <3> QED
      BY <3>1, <3>3, <3>4, <3>5
  <2>8. n <= Len(s)
    <3>1. Cardinality(Below(q, U, R)) = n - 1
      BY <1>4, <2>5
    <3> QED
      BY <2>1, <2>4, <2>5, <2>7, <3>1
  <2>9. n \in DOMAIN result
    BY <1>4, <1>9, <1>13, <2>1, <2>5, <2>8
  <2>10. result[n] = chunk(q)
    BY <1>9, <2>5, <2>9
  <2> QED
    BY <2>3, <2>9, <2>10 DEF ToSet
<1> QED
  BY <1>9, <1>10, <1>11, <1>12, <1>13 DEF result

-----------------------------------------------------------------------------
(***************************************************************************)
(* Reranking.                                                              *)
(***************************************************************************)

Scored(chunks, score) == \A c \in ToSet(chunks) : score[c.id] \in Nat

\* Sorting loses nothing and adds nothing.
LEMMA SortedRows ==
  ASSUME NEW s \in Seq(Chunk), NEW score, Scored(s, score)
  PROVE  /\ ByScore(s, score) \in Seq(Chunk) /\ Len(ByScore(s, score)) = Len(s)
         /\ ToSet(ByScore(s, score)) = ToSet(s)
         /\ IsInjective(Ids(s)) => IsInjective(Ids(ByScore(s, score)))
<1> DEFINE P == DOMAIN s
           R == { p \in P \X P : Higher(s, score, p[1], p[2]) }
           A == Arranged(P, R)
           N == Cardinality(P)
           result == ByScore(s, score)
<1>1. Len(s) \in Nat /\ P = 1 .. Len(s) /\ \A n \in P : s[n] \in Chunk
  OBVIOUS
<1>2. IsFiniteSet(P) /\ N = Len(s)
  BY <1>1, UpTo
<1>3. \A n \in P : score[s[n].id] \in Nat
  BY DEF Scored, ToSet
<1>4. \A i, j \in P : <<i, j>> \in R <=> Higher(s, score, i, j)
  OBVIOUS
<1>5. Orders(R, P)
  <2> DEFINE f == [n \in P |-> score[s[n].id]]
  <2>1. \A i, j \in P : Higher(s, score, i, j) <=> f[i] > f[j] \/ (f[i] = f[j] /\ i < j)
    BY DEF Higher
  <2>2. f \in [P -> Nat] /\ P \subseteq Nat
    BY <1>1, <1>3
  <2> HIDE DEF f, R, P
  <2>3. \A i \in P : f[i] \in Nat /\ i \in Nat
    BY <2>2
  <2>4. \A i \in P : ~ Higher(s, score, i, i)
    BY <2>1, <2>3
  <2>5. \A i, j, k \in P : Higher(s, score, i, j) /\ Higher(s, score, j, k) => Higher(s, score, i, k)
    BY <2>1, <2>3
  <2>6. \A i, j \in P : i # j => Higher(s, score, i, j) \/ Higher(s, score, j, i)
    BY <2>1, <2>3
  <2> QED
    BY <1>4, <2>4, <2>5, <2>6 DEF Orders
<1> HIDE DEF R
<1>6. /\ A \in [1 .. N -> P]
      /\ \A i \in P : \E n \in 1 .. N : A[n] = i
      /\ \A m, n \in 1 .. N : A[m] = A[n] => m = n
  <2> HIDE DEF P
  <2> QED
    BY <1>2, <1>5, ArrangedInOrder
<1>7. result = [n \in DOMAIN A |-> s[A[n]]]
  BY DEF ByScore, At, R
<1> HIDE DEF A, N, result
<1>8. result \in [1 .. Len(s) -> Chunk] /\ \A n \in 1 .. Len(s) : A[n] \in P /\ result[n] = s[A[n]]
  BY <1>1, <1>2, <1>6, <1>7
<1>9. result \in Seq(Chunk) /\ Len(result) = Len(s) /\ DOMAIN result = 1 .. Len(s)
  BY <1>1, <1>8, ListOf
<1>10. ToSet(result) = ToSet(s)
  <2>1. \A n \in DOMAIN result : \E i \in P : result[n] = s[i]
    BY <1>8, <1>9
  <2>2. \A i \in P : \E n \in DOMAIN result : result[n] = s[i]
    BY <1>2, <1>6, <1>8, <1>9
  <2> QED
    BY <2>1, <2>2 DEF ToSet
<1>11. ASSUME IsInjective(Ids(s)) PROVE IsInjective(Ids(result))
  <2>1. /\ DOMAIN Ids(result) = DOMAIN result
        /\ \A n \in DOMAIN result : Ids(result)[n] = result[n].id
    BY <1>9, IdsOf
  <2>2. \A i, j \in P : s[i].id = s[j].id => i = j
    <3>1. DOMAIN Ids(s) = P /\ \A n \in P : Ids(s)[n] = s[n].id
      BY IdsOf
    <3> QED
      BY <1>11, <3>1 DEF IsInjective
  <2>3. ASSUME NEW m \in DOMAIN result, NEW n \in DOMAIN result, result[m].id = result[n].id
        PROVE  m = n
    <3>1. A[m] \in P /\ A[n] \in P /\ s[A[m]].id = s[A[n]].id
      BY <1>8, <1>9, <2>3
    <3> QED
      BY <1>2, <1>6, <1>9, <2>2, <3>1
  <2> QED
    BY <2>1, <2>3 DEF IsInjective
<1> QED
  BY <1>9, <1>10, <1>11 DEF result

\* The choices of the scopes, one after the other, are defined.
LEMMA GreedyExists ==
  ASSUME NEW r \in Seq(Chunk), NEW scs \in Seq(Filters)
  PROVE  \E t \in [DOMAIN scs -> 0 .. Len(r)] : Greedy(t, r, scs)
<1> DEFINE Ways(n) == { t \in [1 .. n -> 0 .. Len(r)] : Greedy(t, r, scs) }
           Stuck == { n \in 0 .. Len(scs) : Ways(n) = {} }
<1>1. /\ Len(scs) \in Nat /\ DOMAIN scs = 1 .. Len(scs)
      /\ Len(r) \in Nat /\ DOMAIN r = 1 .. Len(r)
  OBVIOUS
<1>2. ASSUME Stuck # {} PROVE FALSE
  <2>1. Stuck \in SUBSET Nat
    BY <1>1
  <2>2. PICK n \in Stuck : \A m \in Stuck : n <= m
    <3> HIDE DEF Stuck
    <3> QED
      BY <1>2, <2>1, LeastNatural
  <2>3. n # 0
    <3>1. <<>> \in [1 .. 0 -> 0 .. Len(r)] /\ DOMAIN <<>> = {}
      OBVIOUS
    <3>2. Greedy(<<>>, r, scs)
      BY <3>1 DEF Greedy
    <3>3. Ways(0) # {}
      BY <3>1, <3>2
    <3> QED
      BY <3>3
  <2>4. n - 1 \in 0 .. Len(scs) /\ n \in 1 .. Len(scs) /\ n - 1 \notin Stuck
    <3>1. n \in 0 .. Len(scs)
      OBVIOUS
    <3>2. n - 1 \in 0 .. Len(scs) /\ n \in 1 .. Len(scs) /\ ~ (n <= n - 1)
      BY <1>1, <2>3, <3>1
    <3> HIDE DEF Stuck
    <3> QED
      BY <2>2, <3>2
  <2>5. PICK t \in [1 .. n - 1 -> 0 .. Len(r)] : Greedy(t, r, scs)
    BY <2>4
  <2> DEFINE left == { m \in DOMAIN r : /\ Matches(r[m], scs[n])
                                        /\ \A j \in 1 .. n - 1 : t[j] # m }
  <2>6. PICK x \in 0 .. Len(r) :
          IF left = {} THEN x = 0 ELSE x \in left /\ \A m \in left : x <= m
    <3>1. CASE left = {}
      <4>1. 0 \in 0 .. Len(r)
        BY <1>1
      <4> QED
        BY <3>1, <4>1
    <3>2. CASE left # {}
      <4>1. left \in SUBSET Nat /\ left \subseteq 0 .. Len(r)
        BY <1>1
      <4> HIDE DEF left
      <4>2. PICK x \in left : \A m \in left : x <= m
        BY <3>2, <4>1, LeastNatural
      <4> QED
        BY <3>2, <4>1, <4>2
    <3> QED
      BY <3>1, <3>2
  <2> DEFINE u == [i \in 1 .. n |-> IF i = n THEN x ELSE t[i]]
  <2>7. u \in [1 .. n -> 0 .. Len(r)]
    BY <1>1, <2>4
  <2>8. Greedy(u, r, scs)
    <3>0. DOMAIN u = 1 .. n /\ DOMAIN t = 1 .. n - 1
      OBVIOUS
    <3>1. \A j \in 1 .. n - 1 : j \in 1 .. n /\ j # n /\ u[j] = t[j]
      BY <1>1, <2>4
    <3>2. u[n] = x
      BY <2>4
    <3>3. n \in Nat
      BY <2>4
    <3> HIDE DEF u
    <3>4. Left(u, r, scs, n) = left
      <4>1. \A j : j \in 1 .. n /\ j < n <=> j \in 1 .. n - 1
        BY <3>3
      <4> QED
        BY <3>0, <3>1, <4>1 DEF Left
    <3>5. ASSUME NEW i \in 1 .. n - 1
          PROVE  Left(u, r, scs, i) = Left(t, r, scs, i) /\ u[i] = t[i]
      <4>1. \A j : j \in 1 .. n /\ j < i <=> j \in 1 .. n - 1 /\ j < i
        BY <3>3
      <4> QED
        BY <3>0, <3>1, <4>1 DEF Left
    <3>6. \A i \in 1 .. n : i = n \/ i \in 1 .. n - 1
      BY <3>3
    <3> HIDE DEF left
    <3> QED
      BY <2>5, <2>6, <3>0, <3>2, <3>4, <3>5, <3>6 DEF Greedy
  <2>9. u \in Ways(n)
    BY <2>7, <2>8
  <2> QED
    BY <2>2, <2>9
<1>3. Len(scs) \notin Stuck
  BY <1>2
<1>4. Ways(Len(scs)) # {}
  BY <1>1, <1>3
<1> QED
  BY <1>1, <1>4

\* No chunk is taken twice, and a scope that has a chunk finds one of its own taken.
LEMMA ReservedPlaces ==
  ASSUME NEW r \in Seq(Chunk), NEW scs \in Seq(Filters)
  PROVE  /\ Reserved(r, scs) \in Seq(DOMAIN r)
         /\ Len(Reserved(r, scs)) <= Len(scs)
         /\ \A m, n \in DOMAIN Reserved(r, scs) :
              Reserved(r, scs)[m] = Reserved(r, scs)[n] => m = n
         /\ \A i \in DOMAIN scs, n \in DOMAIN r : Matches(r[n], scs[i]) =>
              \E m \in DOMAIN Reserved(r, scs) : Matches(r[Reserved(r, scs)[m]], scs[i])
<1> DEFINE taken == CHOOSE t \in [DOMAIN scs -> 0 .. Len(r)] : Greedy(t, r, scs)
           P     == { i \in DOMAIN scs : taken[i] # 0 }
           A     == Ascending(P)
           sel   == Reserved(r, scs)
<1>1. /\ Len(scs) \in Nat /\ DOMAIN scs = 1 .. Len(scs)
      /\ Len(r) \in Nat /\ DOMAIN r = 1 .. Len(r)
  OBVIOUS
<1>2. taken \in [DOMAIN scs -> 0 .. Len(r)] /\ Greedy(taken, r, scs)
  BY GreedyExists
<1>3. sel = [n \in DOMAIN A |-> taken[A[n]]]
  BY DEF Reserved, Kept, At
<1> HIDE DEF taken, sel
<1>4. P \in SUBSET (1 .. Len(scs)) /\ P \in SUBSET Nat /\ IsFiniteSet(P) /\ Cardinality(P) <= Len(scs)
  <2>1. P \in SUBSET (1 .. Len(scs)) /\ P \in SUBSET Nat
    BY <1>1
  <2>2. IsFiniteSet(1 .. Len(scs)) /\ Cardinality(1 .. Len(scs)) = Len(scs)
    BY <1>1, UpTo
  <2> HIDE DEF P
  <2> QED
    BY <2>1, <2>2, FS_Subset
<1>5. \A i \in P : i \in DOMAIN scs /\ taken[i] \in DOMAIN r
  BY <1>1, <1>2
<1>6. ASSUME NEW i \in DOMAIN scs
      PROVE  IF Left(taken, r, scs, i) = {} THEN taken[i] = 0
             ELSE taken[i] \in Left(taken, r, scs, i)
  BY <1>2 DEF Greedy
<1>7. \A i, j \in P : j < i => taken[j] # taken[i]
  <2> SUFFICES ASSUME NEW i \in P, NEW j \in P, j < i PROVE taken[j] # taken[i]
    OBVIOUS
  <2>1. taken[i] \in Left(taken, r, scs, i)
    BY <1>6
  <2>2. j \in DOMAIN taken
    BY <1>2
  <2> QED
    BY <2>1, <2>2 DEF Left
<1>8. ASSUME NEW i \in DOMAIN scs, NEW n \in DOMAIN r, Matches(r[n], scs[i])
      PROVE  \E e \in P : Matches(r[taken[e]], scs[i])
  <2>1. CASE Left(taken, r, scs, i) = {}
    <3>1. PICK e \in DOMAIN taken : taken[e] = n
      BY <1>8, <2>1 DEF Left
    <3>2. e \in P
      BY <1>1, <1>2, <3>1
    <3> QED
      BY <1>8, <3>1, <3>2
  <2>2. CASE Left(taken, r, scs, i) # {}
    <3>1. taken[i] \in Left(taken, r, scs, i)
      BY <1>6, <2>2
    <3>2. taken[i] \in DOMAIN r /\ Matches(r[taken[i]], scs[i])
      BY <3>1 DEF Left
    <3>3. i \in P
      BY <1>1, <3>2
    <3> QED
      BY <3>2, <3>3
  <2> QED
    BY <2>1, <2>2
<1> HIDE DEF P
<1>9. /\ A \in Seq(P) /\ Len(A) = Cardinality(P)
      /\ \A i \in P : \E n \in DOMAIN A : A[n] = i
      /\ \A m, n \in DOMAIN A : A[m] = A[n] => m = n
  BY <1>4, AscendingPlaces
<1> HIDE DEF A
<1>10. DOMAIN A = 1 .. Len(A) /\ Len(A) \in Nat /\ \A n \in DOMAIN A : A[n] \in P
  BY <1>9
<1>11. sel \in [1 .. Len(A) -> DOMAIN r] /\ \A n \in DOMAIN A : sel[n] = taken[A[n]]
  BY <1>3, <1>5, <1>10
<1>12. sel \in Seq(DOMAIN r) /\ Len(sel) = Len(A) /\ DOMAIN sel = DOMAIN A
  BY <1>10, <1>11, ListOf
<1>13. ASSUME NEW m \in DOMAIN sel, NEW n \in DOMAIN sel, sel[m] = sel[n]
       PROVE  m = n
  <2>1. A[m] \in P /\ A[n] \in P /\ taken[A[m]] = taken[A[n]]
    BY <1>10, <1>11, <1>12, <1>13
  <2>2. A[m] \in Nat /\ A[n] \in Nat
    BY <1>4, <2>1
  <2>3. A[m] = A[n]
    BY <1>7, <2>1, <2>2
  <2> QED
    BY <1>9, <1>12, <2>3
<1>14. ASSUME NEW i \in DOMAIN scs, NEW n \in DOMAIN r, Matches(r[n], scs[i])
       PROVE  \E m \in DOMAIN sel : Matches(r[sel[m]], scs[i])
  <2>1. PICK e \in P : Matches(r[taken[e]], scs[i])
    BY <1>8, <1>14
  <2>2. PICK m \in DOMAIN A : A[m] = e
    BY <1>9
  <2> QED
    BY <1>11, <1>12, <2>1, <2>2
<1> QED
  BY <1>4, <1>9, <1>12, <1>13, <1>14 DEF sel

\* The selection is made of the results, with no id twice, and has a chunk of
\* every scope the results have one of, when there is room for all scopes.
LEMMA RerankedRows ==
  ASSUME NEW s \in Seq(Chunk), IsInjective(Ids(s)), NEW score, Scored(s, score),
         NEW k \in Nat, NEW scs \in Seq(Filters)
  PROVE  /\ rerank_results(s, score, k, scs) \in Seq(Chunk)
         /\ Len(rerank_results(s, score, k, scs)) <= k
         /\ ToSet(rerank_results(s, score, k, scs)) \subseteq ToSet(s)
         /\ IsInjective(Ids(rerank_results(s, score, k, scs)))
         /\ scs # <<>> /\ Len(scs) <= k =>
              \A i \in DOMAIN scs, c \in ToSet(s) : Matches(c, scs[i]) =>
                \E d \in ToSet(rerank_results(s, score, k, scs)) : Matches(d, scs[i])
<1> DEFINE r      == ByScore(s, score)
           sel    == Reserved(r, scs)
           others == Ascending(DOMAIN r \ ToSet(sel))
           order  == Take(sel \o others, k)
           picked == At(r, order)
           result == rerank_results(s, score, k, scs)
<1>1. r \in Seq(Chunk) /\ ToSet(r) = ToSet(s) /\ IsInjective(Ids(r))
  BY SortedRows
<1>2. result = IF scs = <<>> \/ k < Len(scs) THEN Take(r, k) ELSE ByScore(picked, score)
  BY DEF rerank_results
<1> HIDE DEF r, result
<1>3. \A m, n \in DOMAIN r : r[m].id = r[n].id => m = n
  <2>1. DOMAIN Ids(r) = DOMAIN r /\ \A n \in DOMAIN r : Ids(r)[n] = r[n].id
    BY <1>1, IdsOf
  <2> QED
    BY <1>1, <2>1 DEF IsInjective
<1>4. ASSUME NEW q \in Seq(DOMAIN r), \A m, n \in DOMAIN q : q[m] = q[n] => m = n
      PROVE  /\ At(r, q) \in Seq(Chunk) /\ Len(At(r, q)) = Len(q)
             /\ ToSet(At(r, q)) \subseteq ToSet(s)
             /\ IsInjective(Ids(At(r, q)))
  <2>1. Len(q) \in Nat /\ DOMAIN q = 1 .. Len(q) /\ \A n \in DOMAIN q : q[n] \in DOMAIN r
    OBVIOUS
  <2>2. At(r, q) = [n \in 1 .. Len(q) |-> r[q[n]]]
    BY <2>1 DEF At
  <2>3. \A n \in DOMAIN r : r[n] \in Chunk /\ r[n] \in ToSet(s)
    <3>1. \A n \in DOMAIN r : r[n] \in ToSet(r)
      BY DEF ToSet
    <3> QED
      BY <1>1, <3>1
  <2>4. At(r, q) \in [1 .. Len(q) -> Chunk] /\ \A n \in DOMAIN q : At(r, q)[n] = r[q[n]]
    BY <2>1, <2>2, <2>3
  <2>5. At(r, q) \in Seq(Chunk) /\ Len(At(r, q)) = Len(q) /\ DOMAIN At(r, q) = DOMAIN q
    BY <2>1, <2>4, ListOf
  <2>6. ToSet(At(r, q)) \subseteq ToSet(s)
    BY <2>1, <2>3, <2>4, <2>5 DEF ToSet
  <2>7. /\ DOMAIN Ids(At(r, q)) = DOMAIN q
        /\ \A n \in DOMAIN q : Ids(At(r, q))[n] = r[q[n]].id
    BY <2>4, <2>5, IdsOf
  <2>8. IsInjective(Ids(At(r, q)))
    BY <1>3, <1>4, <2>1, <2>7 DEF IsInjective
  <2> QED
    BY <2>5, <2>6, <2>8
<1>5. CASE scs = <<>> \/ k < Len(scs)
  <2>1. /\ result \in Seq(Chunk)
        /\ Len(result) = IF k < Len(r) THEN k ELSE Len(r)
        /\ \A n \in DOMAIN result : n \in DOMAIN r /\ result[n] = r[n]
    BY <1>1, <1>2, <1>5, TakePrefix
  <2>2. Len(result) <= k /\ Len(r) \in Nat
    BY <1>1, <2>1
  <2>3. ToSet(result) \subseteq ToSet(s)
    BY <1>1, <2>1 DEF ToSet
  <2>4. DOMAIN Ids(result) = DOMAIN result /\ \A n \in DOMAIN result : Ids(result)[n] = r[n].id
    BY <2>1, IdsOf
  <2>5. IsInjective(Ids(result))
    BY <1>3, <2>1, <2>4 DEF IsInjective
  <2>6. ~ (scs # <<>> /\ Len(scs) <= k)
    <3>1. Len(scs) \in Nat
      OBVIOUS
    <3> QED
      BY <1>5, <3>1
  <2> QED
    BY <2>1, <2>2, <2>3, <2>5, <2>6 DEF result
<1>6. CASE ~ (scs = <<>> \/ k < Len(scs))
  <2>1. /\ sel \in Seq(DOMAIN r) /\ Len(sel) <= Len(scs)
        /\ \A m, n \in DOMAIN sel : sel[m] = sel[n] => m = n
        /\ \A i \in DOMAIN scs, n \in DOMAIN r : Matches(r[n], scs[i]) =>
             \E m \in DOMAIN sel : Matches(r[sel[m]], scs[i])
    BY <1>1, ReservedPlaces
  <2> HIDE DEF sel
  <2>2. /\ others \in Seq(DOMAIN r \ ToSet(sel))
        /\ \A m, n \in DOMAIN others : others[m] = others[n] => m = n
    <3> DEFINE rest == DOMAIN r \ ToSet(sel)
    <3>1. rest \in SUBSET DOMAIN r
      OBVIOUS
    <3> HIDE DEF rest
    <3>2. rest \in SUBSET Nat /\ IsFiniteSet(rest)
      BY <1>1, <3>1, PlacesOf
    <3>3. /\ Ascending(rest) \in Seq(rest)
          /\ \A m, n \in DOMAIN Ascending(rest) : Ascending(rest)[m] = Ascending(rest)[n] => m = n
      BY <3>2, AscendingPlaces
    <3> QED
      BY <3>3 DEF rest
  <2> HIDE DEF others
  <2> DEFINE both == sel \o others
  <2>3. both \in Seq(DOMAIN r) /\ Len(both) = Len(sel) + Len(others)
    BY <2>1, <2>2
  <2>4. /\ Len(sel) \in Nat /\ DOMAIN sel = 1 .. Len(sel)
        /\ Len(others) \in Nat /\ DOMAIN others = 1 .. Len(others)
        /\ DOMAIN both = 1 .. Len(sel) + Len(others)
        /\ \A n \in DOMAIN others : others[n] \notin ToSet(sel)
        /\ \A n \in DOMAIN sel : sel[n] \in ToSet(sel)
    BY <2>1, <2>2, <2>3 DEF ToSet
  <2>5. \A n \in DOMAIN both :
          \/ n \in DOMAIN sel /\ both[n] = sel[n]
          \/ n - Len(sel) \in DOMAIN others /\ both[n] = others[n - Len(sel)] /\ n \notin DOMAIN sel
    BY <2>1, <2>2, <2>4
  <2>6. \A n \in DOMAIN sel : n \in DOMAIN both /\ both[n] = sel[n]
    BY <2>1, <2>2, <2>4
  <2> HIDE DEF both
  <2>7. ASSUME NEW m \in DOMAIN both, NEW n \in DOMAIN both, both[m] = both[n]
        PROVE  m = n
    <3>1. m \in Nat /\ n \in Nat
      BY <2>4
    <3>2. CASE m \in DOMAIN sel /\ n \in DOMAIN sel
      BY <2>1, <2>6, <2>7, <3>2
    <3>3. CASE m \in DOMAIN sel /\ n \notin DOMAIN sel
      BY <2>4, <2>5, <2>6, <2>7, <3>3
    <3>4. CASE m \notin DOMAIN sel /\ n \in DOMAIN sel
      BY <2>4, <2>5, <2>6, <2>7, <3>4
    <3>5. CASE m \notin DOMAIN sel /\ n \notin DOMAIN sel
      <4>1. /\ m - Len(sel) \in DOMAIN others /\ n - Len(sel) \in DOMAIN others
            /\ others[m - Len(sel)] = others[n - Len(sel)]
        BY <2>5, <2>7, <3>5
      <4>2. m - Len(sel) = n - Len(sel)
        BY <2>2, <4>1
      <4> QED
        BY <2>4, <3>1, <4>2
    <3> QED
      BY <3>2, <3>3, <3>4, <3>5
  <2>8. /\ order \in Seq(DOMAIN r)
        /\ Len(order) = IF k < Len(both) THEN k ELSE Len(both)
        /\ \A n \in DOMAIN order : n \in DOMAIN both /\ order[n] = both[n]
    <3>1. order = Take(both, k)
      BY DEF both
    <3> HIDE DEF order
    <3> QED
      BY <2>3, <3>1, TakePrefix
  <2> HIDE DEF order
  <2>9. \A m, n \in DOMAIN order : order[m] = order[n] => m = n
    BY <2>7, <2>8
  <2>10. /\ picked \in Seq(Chunk) /\ Len(picked) = Len(order)
         /\ ToSet(picked) \subseteq ToSet(s)
         /\ IsInjective(Ids(picked))
    BY <1>4, <2>8, <2>9
  <2> HIDE DEF picked
  <2>11. Scored(picked, score)
    BY <2>10 DEF Scored
  <2>12. result = ByScore(picked, score)
    BY <1>2, <1>6
  <2>13. /\ result \in Seq(Chunk) /\ Len(result) = Len(picked)
         /\ ToSet(result) = ToSet(picked) /\ IsInjective(Ids(result))
    BY <2>10, <2>11, <2>12, SortedRows
  <2>14. Len(result) <= k
    BY <2>3, <2>4, <2>8, <2>10, <2>13
  <2>15. ASSUME NEW i \in DOMAIN scs, NEW c \in ToSet(s), Matches(c, scs[i])
         PROVE  \E d \in ToSet(result) : Matches(d, scs[i])
    <3>1. PICK n \in DOMAIN r : r[n] = c
      BY <1>1 DEF ToSet
    <3>2. PICK m \in DOMAIN sel : Matches(r[sel[m]], scs[i])
      BY <2>1, <2>15, <3>1
    <3>3. m \in DOMAIN order /\ order[m] = sel[m]
      <4>1. m <= Len(scs) /\ Len(scs) <= k /\ Len(scs) \in Nat /\ m \in Nat /\ m >= 1
        BY <1>6, <2>1, <2>4
      <4>2. DOMAIN order = 1 .. Len(order)
        BY <2>8
      <4> QED
        BY <2>3, <2>4, <2>6, <2>8, <4>1, <4>2
    <3>4. picked[m] = r[sel[m]] /\ m \in DOMAIN picked
      BY <3>3 DEF picked, At
    <3> QED
      BY <2>13, <3>2, <3>4 DEF ToSet
  <2> QED
    BY <2>10, <2>13, <2>14, <2>15 DEF result
<1> QED
  BY <1>5, <1>6

-----------------------------------------------------------------------------
(***************************************************************************)
(* The inductive invariant.                                                *)
(***************************************************************************)

\* Chunks that are published, or that the retrieval holds.
Seen == Published \cup ToSet(vec) \cup ToSet(fts) \cup ToSet(results)
          \cup UNION { ToSet(lists[l]) : l \in DOMAIN lists }

\* An id stands for one chunk for good: it is never given out again.
InvIds ==
  /\ \A c, d \in Seen : c.id = d.id => c = d
  /\ \A c \in Seen : c.id < next_id

InvNarrow == \A i \in DOMAIN scopes : Narrower(scopes[i], query.filters)

\* The filters of the l-th hybrid search, and how many there are.
ScopeOf(l) == IF scopes = <<>> THEN query.filters ELSE scopes[l]
Searches   == IF scopes = <<>> THEN 1 ELSE Len(scopes)

InvSteps ==
  /\ pc = "catalog" => scopes = <<>> /\ lists = <<>>
  /\ pc \in {"vector", "fulltext"} => Len(lists) < Searches
  /\ pc = "merge" => Len(lists) = Searches
  /\ Len(lists) <= Searches
  /\ pc = "rerank" => query.rerank

InvRows ==
  /\ IsInjective(vec) /\ IsInjective(fts)
  /\ pc = "fulltext" => \A c \in ToSet(vec) : Matches(c, Scope)
  /\ \A l \in DOMAIN lists :
       /\ IsInjective(Ids(lists[l])) /\ Len(lists[l]) <= fetch_k
       /\ \A c \in ToSet(lists[l]) : Matches(c, ScopeOf(l))

\* Between two searches the last list is what fusion made of the rows still held.
InvFused ==
  pc \in {"vector", "merge"} /\ lists # <<>> => Last(lists) = Fused(vec, fts, fetch_k)

InvResults ==
  pc \in {"rerank", "done"} =>
    /\ Len(results) <= IF pc = "rerank" THEN fetch_k ELSE query.k
    /\ IsInjective(Ids(results))
    /\ \A c \in ToSet(results) : Matches(c, query.filters)
    /\ scopes # <<>> /\ Len(scopes) <= fetch_k /\ (pc = "done" => Len(scopes) <= query.k) =>
         \A i \in DOMAIN lists :
           lists[i] # <<>> => \E c \in ToSet(results) : Matches(c, scopes[i])

IInv ==
  /\ TypeOK
  /\ InvIds
  /\ InvNarrow
  /\ InvSteps
  /\ InvRows
  /\ InvFused
  /\ InvResults

-----------------------------------------------------------------------------
(***************************************************************************)
(* What the actions do to the data.                                        *)
(***************************************************************************)

LEMMA Parameters ==
  /\ Len(DocumentOf) \in Nat /\ Filing = 1 .. Len(DocumentOf)
  /\ \A f \in Filing : DocumentOf[f].ticker \in STRING /\ DocumentOf[f].year \in Nat
  /\ Len(Items) \in Nat /\ DOMAIN Items = 1 .. Len(Items) /\ Items \in Seq(STRING)
  /\ MaxId \in Nat
<1> DEFINE Document == [ticker : STRING, year : Nat]
<1>1. DocumentOf \in Seq(Document) /\ Items \in Seq(STRING) /\ MaxId \in Nat
  BY SearchAssumption DEF SearchAssumption
<1>2. \A d \in Document : d.ticker \in STRING /\ d.year \in Nat
  OBVIOUS
<1> HIDE DEF Document
<1>3. Len(DocumentOf) \in Nat /\ Filing = 1 .. Len(DocumentOf)
  BY <1>1 DEF Filing
<1>4. \A f \in Filing : DocumentOf[f] \in Document
  BY <1>1 DEF Filing
<1>5. Len(Items) \in Nat /\ DOMAIN Items = 1 .. Len(Items)
  BY <1>1
<1> QED
  BY <1>1, <1>2, <1>3, <1>4, <1>5

LEMMA RequestParameters ==
  ASSUME TypeOK
  PROVE  /\ query.k \in Nat \ {0} /\ query.rerank \in BOOLEAN
         /\ query.filters \in Filters /\ fetch_k \in Nat \ {0}
         /\ CandidateK \in Nat
<1>1. query \in Queries
  BY DEF TypeOK
<1>2. query.k \in Nat \ {0} /\ query.rerank \in BOOLEAN /\ query.filters \in Filters
  BY <1>1, SearchAssumption DEF SearchAssumption
<1>3. RerankCandidates \in Nat \ {0} /\ CandidateK \in Nat
  BY SearchAssumption DEF SearchAssumption
<1> QED
  BY <1>2, <1>3 DEF fetch_k

LEMMA NewVersionRows ==
  ASSUME NEW f \in Filing, NEW id \in Nat \ {0}, id + Len(Items) <= MaxId + 1
  PROVE  /\ NewVersion(f, id) \in Seq(Chunk)
         /\ \A c \in ToSet(NewVersion(f, id)) :
              \E i \in 1 .. Len(Items) :
                c = [id |-> id + i - 1, ticker |-> DocumentOf[f].ticker,
                     year |-> DocumentOf[f].year, item |-> Items[i]]
<1> DEFINE new(i) == [id |-> id + i - 1, ticker |-> DocumentOf[f].ticker,
                      year |-> DocumentOf[f].year, item |-> Items[i]]
<1>1. NewVersion(f, id) = [i \in 1 .. Len(Items) |-> new(i)]
  BY Parameters DEF NewVersion
<1>2. \A i \in 1 .. Len(Items) : new(i) \in Chunk
  <2> TAKE i \in 1 .. Len(Items)
  <2>1. id + i - 1 \in 1 .. MaxId
    BY Parameters
  <2>2. Items[i] \in ToSet(Items)
    BY Parameters DEF ToSet
  <2> QED
    BY <2>1, <2>2 DEF Chunk
<1> HIDE DEF new
<1>3. NewVersion(f, id) \in [1 .. Len(Items) -> Chunk]
  BY <1>1, <1>2
<1>4. NewVersion(f, id) \in Seq(Chunk) /\ DOMAIN NewVersion(f, id) = 1 .. Len(Items)
  BY <1>3, Parameters, ListOf
<1> QED
  BY <1>1, <1>4 DEF ToSet, new

\* The first ids of a filing come after all those of the filings before it.
LEMMA FirstIds ==
  ASSUME NEW f \in Filing, NEW g \in Filing
  PROVE  /\ (f - 1) * Len(Items) + 1 \in Nat \ {0}
         /\ (f - 1) * Len(Items) + 1 + Len(Items) <= Len(DocumentOf) * Len(Items) + 1
         /\ f < g => (f - 1) * Len(Items) + 1 + Len(Items) <= (g - 1) * Len(Items) + 1
<1> DEFINE L == Len(Items)
           N == Len(DocumentOf)
<1>1. L \in Nat /\ N \in Nat /\ f \in 1 .. N /\ g \in 1 .. N
  BY Parameters
<1> HIDE DEF L, N
<1>2. f - 1 \in Nat /\ g - 1 \in Nat /\ f \in Nat
  BY <1>1
<1>3. (f - 1) * L + L = f * L /\ (f - 1) * L \in Nat /\ f * L \in Nat
  <2>1. (f - 1) * L \in Nat /\ f * L \in Nat
    BY <1>1, <1>2, Products
  <2>2. L * (f - 1) + L * 1 = L * ((f - 1) + 1)
    BY <1>1, <1>2, Products
  <2> QED
    BY <1>1, <1>2, <2>1, <2>2, Products
<1>4. f * L <= N * L
  <2>1. L * f <= L * N
    BY <1>1, <1>2, Products
  <2> QED
    BY <1>1, <1>2, <2>1, Products
<1>5. f < g => f * L <= (g - 1) * L
  <2>1. f < g => f <= g - 1
    BY <1>1
  <2>2. f <= g - 1 => L * f <= L * (g - 1)
    BY <1>1, <1>2, Products
  <2> QED
    BY <1>1, <1>2, <2>1, <2>2, Products
<1>6. N * L \in Nat /\ (g - 1) * L \in Nat
  BY <1>1, <1>2, Products
<1> QED
  BY <1>1, <1>3, <1>4, <1>5, <1>6 DEF L, N

LEMMA SeenChunks ==
  ASSUME TypeOK
  PROVE  Published \subseteq Chunk /\ Seen \subseteq Chunk
<1>1. \A f \in Filing : ToSet(corpus[f]) \subseteq Chunk
  BY DEF TypeOK, ToSet
<1>2. \A l \in DOMAIN lists : ToSet(lists[l]) \subseteq Chunk
  <2> TAKE l \in DOMAIN lists
  <2>1. lists[l] \in Seq(Chunk)
    BY DEF TypeOK
  <2> QED
    BY <2>1 DEF ToSet
<1>3. ToSet(vec) \subseteq Chunk /\ ToSet(fts) \subseteq Chunk /\ ToSet(results) \subseteq Chunk
  BY DEF TypeOK, ToSet
<1> QED
  BY <1>1, <1>2, <1>3 DEF Published, Seen

\* Rows of a statement.
LEMMA RowsAnswer ==
  ASSUME TypeOK, InvIds, NEW flt, NEW k \in Nat, NEW rows \in Rows(flt, k)
  PROVE  /\ rows \in Seq(Chunk) /\ Len(rows) <= k
         /\ IsInjective(rows) /\ IsInjective(Ids(rows))
         /\ ToSet(rows) \subseteq Published
         /\ \A c \in ToSet(rows) : Matches(c, flt)
<1> DEFINE matching == { c \in Published : Matches(c, flt) }
<1>1. PICK n \in 0 .. k : rows \in [1 .. n -> matching]
  BY DEF Rows
<1>2. IsInjective(rows)
  BY DEF Rows
<1>3. \A i \in 1 .. n : rows[i] \in Published /\ Matches(rows[i], flt)
  BY <1>1
<1>4. matching \subseteq Chunk
  BY SeenChunks
<1> HIDE DEF matching
<1>5. n \in Nat /\ rows \in [1 .. n -> Chunk] /\ n <= k
  BY <1>1, <1>4
<1>6. rows \in Seq(Chunk) /\ Len(rows) = n /\ DOMAIN rows = 1 .. n
  BY <1>5, ListOf
<1>7. IsInjective(Ids(rows))
  <2>1. DOMAIN Ids(rows) = 1 .. n /\ \A i \in 1 .. n : Ids(rows)[i] = rows[i].id
    BY <1>6, IdsOf
  <2>2. \A i, j \in 1 .. n : rows[i].id = rows[j].id => rows[i] = rows[j]
    BY <1>3 DEF InvIds, Seen
  <2>3. \A i, j \in 1 .. n : rows[i] = rows[j] => i = j
    BY <1>2, <1>6 DEF IsInjective
  <2> QED
    BY <2>1, <2>2, <2>3 DEF IsInjective
<1> QED
  BY <1>2, <1>3, <1>5, <1>6, <1>7 DEF ToSet

\* Ids stay what they are while nothing but what was seen is held.
LEMMA IdsKept ==
  ASSUME InvIds, Seen' \subseteq Seen, next_id' = next_id
  PROVE  InvIds'
BY DEF InvIds

LEMMA CatalogNames ==
  ASSUME NEW S \in SUBSET Filing, NEW names \in SetToSeqs({ DocumentOf[f].ticker : f \in S })
  PROVE  names \in Seq(STRING)
<1> DEFINE T == { DocumentOf[f].ticker : f \in S }
           ticker == [f \in S |-> DocumentOf[f].ticker]
<1>1. T \subseteq STRING
  BY Parameters
<1>2. IsFiniteSet(T)
  <2>1. IsFiniteSet(Filing)
    BY Parameters, UpTo
  <2>2. IsFiniteSet(S)
    BY <2>1, FS_Subset
  <2>3. ticker \in Surjection(S, T)
    BY DEF Surjection
  <2> QED
    BY <2>2, <2>3, FS_Surjection
<1>3. names \in [1 .. Cardinality(T) -> T]
  BY DEF SetToSeqs
<1> HIDE DEF T
<1>4. Cardinality(T) \in Nat
  BY <1>2, FS_CardinalityType
<1>5. names \in [1 .. Cardinality(T) -> STRING]
  BY <1>1, <1>3
<1> QED
  BY <1>4, <1>5, ListOf

-----------------------------------------------------------------------------
(***************************************************************************)
(* Every step keeps the invariant.                                         *)
(***************************************************************************)

LEMMA ReadCatalogKeeps == ASSUME IInv, ReadCatalog PROVE IInv' /\ Seen' \subseteq Seen
<1> USE DEF ReadCatalog
<1>1. TypeOK /\ InvIds /\ InvSteps /\ InvRows
  BY DEF IInv
<1>2. scopes = <<>> /\ lists = <<>>
  BY <1>1 DEF InvSteps
<1>3. catalog' \in Seq(STRING)
  <2>1. PICK empty \in SUBSET { f \in Filing : corpus[f] = <<>> } :
          catalog' \in SetToSeqs({ DocumentOf[f].ticker : f \in { g \in Filing : corpus[g] # <<>> } \cup empty })
    OBVIOUS
  <2> DEFINE S == { g \in Filing : corpus[g] # <<>> } \cup empty
  <2>2. S \in SUBSET Filing /\ catalog' \in SetToSeqs({ DocumentOf[f].ticker : f \in S })
    BY <2>1
  <2> HIDE DEF S
  <2> QED
    BY <2>2, CatalogNames
<1>4. /\ scopes' \in Seq(Filters)
      /\ \A i \in DOMAIN scopes' : Narrower(scopes'[i], query.filters)
  BY <1>1, <1>3, ScopesNarrow DEF TypeOK
<1>5. TypeOK'
  BY <1>1, <1>3, <1>4 DEF TypeOK
<1>6. InvIds' /\ Seen' \subseteq Seen
  <2>1. Seen' \subseteq Seen /\ next_id' = next_id
    BY DEF Seen, Published
  <2> QED
    BY <1>1, <2>1, IdsKept
<1>7. InvNarrow'
  BY <1>4 DEF InvNarrow
<1>8. InvSteps'
  <2>1. Len(scopes') \in Nat /\ (scopes' # <<>> => Len(scopes') > 0) /\ Len(lists') = 0
    BY <1>2, <1>4
  <2> QED
    BY <2>1 DEF InvSteps, Searches
<1>9. InvRows'
  <2>1. DOMAIN lists' = {}
    BY <1>2
  <2> QED
    BY <1>1, <2>1 DEF InvRows
<1>10. InvFused' /\ InvResults'
  BY <1>2 DEF InvFused, InvResults
<1> QED
  BY <1>5, <1>6, <1>7, <1>8, <1>9, <1>10 DEF IInv

LEMMA VectorOnlyKeeps == ASSUME IInv, VectorOnly PROVE IInv' /\ Seen' \subseteq Seen
<1> USE DEF VectorOnly
<1>1. TypeOK /\ InvIds /\ InvNarrow /\ InvSteps /\ InvRows
  BY DEF IInv
<1>2. scopes = <<>> /\ lists = <<>>
  BY <1>1 DEF InvSteps
<1>3. /\ results' \in Seq(Chunk) /\ Len(results') <= fetch_k
      /\ IsInjective(Ids(results'))
      /\ ToSet(results') \subseteq Published
      /\ \A c \in ToSet(results') : Matches(c, query.filters)
  <2>1. fetch_k \in Nat
    BY <1>1, RequestParameters
  <2> QED
    BY <1>1, <2>1, RowsAnswer
<1>4. TypeOK'
  BY <1>1, <1>3 DEF TypeOK
<1>5. InvIds' /\ Seen' \subseteq Seen
  <2>1. Seen' \subseteq Seen /\ next_id' = next_id
    BY <1>3 DEF Seen, Published
  <2> QED
    BY <1>1, <2>1, IdsKept
<1>6. InvNarrow' /\ InvSteps' /\ InvFused'
  BY <1>1, <1>2 DEF InvNarrow, InvSteps, InvFused, Searches
<1>7. InvRows'
  <2>1. DOMAIN lists' = {}
    BY <1>2
  <2> QED
    BY <1>1, <2>1 DEF InvRows
<1>8. InvResults'
  <2>1. fetch_k' = fetch_k /\ (pc' = "done" => fetch_k = query.k)
    BY DEF fetch_k
  <2> QED
    BY <1>2, <1>3, <2>1 DEF InvResults
<1> QED
  BY <1>4, <1>5, <1>6, <1>7, <1>8 DEF IInv

LEMMA VectorSearchKeeps == ASSUME IInv, VectorSearch PROVE IInv' /\ Seen' \subseteq Seen
<1> USE DEF VectorSearch
<1>1. TypeOK /\ InvIds /\ InvNarrow /\ InvSteps /\ InvRows
  BY DEF IInv
<1>2. /\ vec' \in Seq(Chunk) /\ IsInjective(vec')
      /\ ToSet(vec') \subseteq Published
      /\ \A c \in ToSet(vec') : Matches(c, Scope)
  <2>1. CandidateK \in Nat
    BY <1>1, RequestParameters
  <2> QED
    BY <1>1, <2>1, RowsAnswer
<1>3. fts' \in Seq(Chunk) /\ IsInjective(fts') /\ ToSet(fts') = {}
  <2>1. DOMAIN <<>> = {}
    OBVIOUS
  <2> QED
    BY <2>1 DEF IsInjective, ToSet
<1>4. TypeOK'
  BY <1>1, <1>2, <1>3 DEF TypeOK
<1>5. InvIds' /\ Seen' \subseteq Seen
  <2>1. Seen' \subseteq Seen /\ next_id' = next_id
    BY <1>2, <1>3 DEF Seen, Published
  <2> QED
    BY <1>1, <2>1, IdsKept
<1>6. InvNarrow' /\ InvSteps' /\ InvFused' /\ InvResults'
  BY <1>1 DEF InvNarrow, InvSteps, InvFused, InvResults, Searches
<1>7. InvRows'
  <2>1. Scope' = Scope /\ fetch_k' = fetch_k /\ \A l : ScopeOf(l)' = ScopeOf(l)
    BY DEF Scope, fetch_k, ScopeOf
  <2> QED
    BY <1>1, <1>2, <1>3, <2>1 DEF InvRows
<1> QED
  BY <1>4, <1>5, <1>6, <1>7 DEF IInv

LEMMA FulltextSearchKeeps == ASSUME IInv, FulltextSearch PROVE IInv' /\ Seen' \subseteq Seen
<1> USE DEF FulltextSearch
<1> DEFINE new == Fused(vec, fts', fetch_k)
<1>1. TypeOK /\ InvIds /\ InvNarrow /\ InvSteps /\ InvRows
  BY DEF IInv
<1>2. /\ fts' \in Seq(Chunk) /\ IsInjective(fts')
      /\ ToSet(fts') \subseteq Published
      /\ \A c \in ToSet(fts') : Matches(c, Scope)
  <2>1. CandidateK \in Nat
    BY <1>1, RequestParameters
  <2> QED
    BY <1>1, <2>1, RowsAnswer
<1>3. vec \in Seq(Chunk) /\ lists \in Seq(Seq(Chunk)) /\ fetch_k \in Nat
  BY <1>1, RequestParameters DEF TypeOK
<1>4. /\ new \in Seq(Chunk) /\ Len(new) <= fetch_k /\ IsInjective(Ids(new))
      /\ \A n \in DOMAIN new : new[n] \in ToSet(vec) \cup ToSet(fts')
  BY <1>2, <1>3, FusedRows
<1>5. lists' = Append(lists, new)
  OBVIOUS
<1> HIDE DEF new
<1>6. /\ lists' \in Seq(Seq(Chunk)) /\ Len(lists') = Len(lists) + 1 /\ Len(lists) \in Nat
      /\ \A l \in DOMAIN lists' : \/ l \in DOMAIN lists /\ lists'[l] = lists[l]
                                  \/ l = Len(lists) + 1 /\ lists'[l] = new
      /\ lists'[Len(lists')] = new
  BY <1>3, <1>4, <1>5
<1>7. ToSet(new) \subseteq ToSet(vec) \cup ToSet(fts')
  BY <1>4 DEF ToSet
<1>8. TypeOK'
  BY <1>1, <1>2, <1>6 DEF TypeOK
<1>9. InvIds' /\ Seen' \subseteq Seen
  <2>1. \A l \in DOMAIN lists' : ToSet(lists'[l]) \subseteq Seen
    BY <1>2, <1>6, <1>7 DEF Seen
  <2>2. Published' = Published
    BY DEF Published
  <2>3. Seen' \subseteq Seen /\ next_id' = next_id
    BY <1>2, <2>1, <2>2 DEF Seen
  <2> QED
    BY <1>1, <2>3, IdsKept
<1>10. InvNarrow' /\ InvResults'
  BY <1>1 DEF InvNarrow, InvResults
<1>11. InvSteps'
  <2>1. Len(lists) < Searches /\ Searches' = Searches
    BY <1>1 DEF InvSteps, Searches
  <2>2. Len(scopes) \in Nat
    BY <1>1 DEF TypeOK
  <2>3. pc' = "vector" => Len(lists') < Searches
    BY <1>6, <2>2 DEF Searches
  <2>4. pc' = "merge" => Len(lists') = Searches
    BY <1>6, <2>1, <2>2 DEF Searches
  <2>5. Len(lists') <= Searches
    BY <1>6, <2>1, <2>2 DEF Searches
  <2> QED
    BY <2>1, <2>3, <2>4, <2>5 DEF InvSteps
<1>12. InvRows'
  <2>1. fetch_k' = fetch_k /\ \A l : ScopeOf(l)' = ScopeOf(l)
    BY DEF fetch_k, ScopeOf
  <2>2. \A c \in ToSet(new) : Matches(c, ScopeOf(Len(lists) + 1))
    BY <1>1, <1>2, <1>7 DEF InvRows, Scope, ScopeOf
  <2>3. \A l \in DOMAIN lists' :
          /\ IsInjective(Ids(lists'[l])) /\ Len(lists'[l]) <= fetch_k
          /\ \A c \in ToSet(lists'[l]) : Matches(c, ScopeOf(l))
    <3> TAKE l \in DOMAIN lists'
    <3>1. CASE l \in DOMAIN lists /\ lists'[l] = lists[l]
      BY <1>1, <3>1 DEF InvRows
    <3>2. CASE l = Len(lists) + 1 /\ lists'[l] = new
      BY <1>4, <2>2, <3>2
    <3> QED
      BY <1>6, <3>1, <3>2
  <2>4. IsInjective(vec') /\ IsInjective(fts')
    BY <1>1, <1>2 DEF InvRows
  <2> QED
    BY <2>1, <2>3, <2>4 DEF InvRows
<1>13. InvFused'
  <2>1. fetch_k' = fetch_k /\ vec' = vec
    BY DEF fetch_k
  <2>2. Last(lists') = Fused(vec', fts', fetch_k')
    BY <1>6, <2>1 DEF Last, new
  <2> QED
    BY <2>2 DEF InvFused
<1> QED
  BY <1>8, <1>9, <1>10, <1>11, <1>12, <1>13 DEF IInv

LEMMA MergeKeeps == ASSUME IInv, Merge PROVE IInv' /\ Seen' \subseteq Seen
<1> USE DEF Merge
<1>1. TypeOK /\ InvIds /\ InvNarrow /\ InvSteps /\ InvRows
  BY DEF IInv
<1>2. /\ lists \in Seq(Seq(Chunk)) /\ fetch_k \in Nat /\ Len(lists) = Searches
      /\ DOMAIN lists = 1 .. Len(lists) /\ \A l \in DOMAIN lists : lists[l] \in Seq(Chunk)
  BY <1>1, RequestParameters DEF TypeOK, InvSteps
<1>3. \A l \in DOMAIN lists :
        /\ ToSet(lists[l]) \subseteq Chunk /\ ToSet(lists[l]) \subseteq Seen
        /\ \A c \in ToSet(lists[l]) : Matches(c, ScopeOf(l)) /\ Matches(c, query.filters)
  <2> TAKE l \in DOMAIN lists
  <2>1. ToSet(lists[l]) \subseteq Chunk /\ ToSet(lists[l]) \subseteq Seen
    BY <1>2 DEF ToSet, Seen
  <2>2. \A c \in ToSet(lists[l]) : Matches(c, ScopeOf(l))
    BY <1>1 DEF InvRows
  <2>3. ASSUME scopes # <<>> PROVE l \in DOMAIN scopes
    <3>1. Len(lists) = Len(scopes) /\ DOMAIN scopes = 1 .. Len(scopes)
      BY <1>1, <1>2, <2>3 DEF Searches, TypeOK
    <3> QED
      BY <1>2, <3>1
  <2>4. \A c \in ToSet(lists[l]) : Matches(c, query.filters)
    BY <1>1, <2>1, <2>2, <2>3 DEF ScopeOf, InvNarrow, Narrower
  <2> QED
    BY <2>1, <2>2, <2>4
<1>4. /\ results' \in Seq(Chunk) /\ Len(results') <= fetch_k
      /\ IsInjective(Ids(results'))
      /\ \A c \in ToSet(results') : \E l \in DOMAIN lists : c \in ToSet(lists[l])
      /\ scopes # <<>> /\ Len(scopes) <= fetch_k =>
           \A l \in DOMAIN lists : lists[l] # <<>> =>
             \E c \in ToSet(results') : c.id = lists[l][1].id
  <2>1. CASE scopes = <<>>
    <3>1. 1 \in DOMAIN lists /\ results' = lists[1]
      BY <1>2, <2>1 DEF Searches
    <3> QED
      BY <1>1, <1>2, <2>1, <3>1 DEF InvRows
  <2>2. CASE scopes # <<>>
    <3>1. results' = interleave_results(lists, fetch_k) /\ Len(lists) = Len(scopes)
      BY <1>2, <2>2 DEF Searches
    <3> QED
      BY <1>2, <3>1, InterleavedRows
  <2> QED
    BY <2>1, <2>2
<1>5. ToSet(results') \subseteq Seen /\ \A c \in ToSet(results') : Matches(c, query.filters)
  BY <1>3, <1>4
<1>6. TypeOK'
  BY <1>1, <1>4 DEF TypeOK
<1>7. InvIds' /\ Seen' \subseteq Seen
  <2>1. Published' = Published
    BY DEF Published
  <2>2. Seen' \subseteq Seen /\ next_id' = next_id
    BY <1>5, <2>1 DEF Seen
  <2> QED
    BY <1>1, <2>2, IdsKept
<1>8. InvNarrow' /\ InvSteps' /\ InvFused'
  BY <1>1 DEF InvNarrow, InvSteps, InvFused, Searches
<1>9. InvRows'
  <2>1. fetch_k' = fetch_k /\ \A l : ScopeOf(l)' = ScopeOf(l)
    BY DEF fetch_k, ScopeOf
  <2> QED
    BY <1>1, <2>1 DEF InvRows
<1>10. ASSUME scopes # <<>>, Len(scopes) <= fetch_k, NEW i \in DOMAIN lists, lists[i] # <<>>
       PROVE  \E c \in ToSet(results') : Matches(c, scopes[i])
  <2>1. PICK c \in ToSet(results') : c.id = lists[i][1].id
    BY <1>4, <1>10
  <2>2. lists[i][1] \in ToSet(lists[i])
    <3>1. 1 \in DOMAIN lists[i]
      BY <1>2, <1>10
    <3> QED
      BY <3>1 DEF ToSet
  <2>3. c = lists[i][1]
    BY <1>1, <1>3, <1>5, <2>1, <2>2 DEF InvIds
  <2>4. Matches(c, scopes[i])
    BY <1>3, <1>10, <2>2, <2>3 DEF ScopeOf
  <2> QED
    BY <2>4
<1>11. InvResults'
  <2>1. fetch_k' = fetch_k /\ (pc' = "done" => fetch_k = query.k)
    BY DEF fetch_k
  <2> QED
    BY <1>4, <1>5, <1>10, <2>1 DEF InvResults
<1> QED
  BY <1>6, <1>7, <1>8, <1>9, <1>11 DEF IInv

LEMMA RerankKeeps == ASSUME IInv, Rerank PROVE IInv' /\ Seen' \subseteq Seen
<1> USE DEF Rerank
<1>1. TypeOK /\ InvIds /\ InvNarrow /\ InvSteps /\ InvRows /\ InvResults
  BY DEF IInv
<1>2. /\ results \in Seq(Chunk) /\ scopes \in Seq(Filters)
      /\ query.k \in Nat /\ IsInjective(Ids(results))
  BY <1>1, RequestParameters DEF TypeOK, InvResults
<1>3. PICK score \in [ToSet(Ids(results)) -> 0 .. 1] :
        results' = rerank_results(results, score, query.k, scopes)
  OBVIOUS
<1>4. Scored(results, score)
  <2>1. \A c \in ToSet(results) : c.id \in ToSet(Ids(results))
    BY <1>2, IdsOf
  <2> QED
    BY <1>3, <2>1 DEF Scored
<1>5. /\ results' \in Seq(Chunk) /\ Len(results') <= query.k
      /\ ToSet(results') \subseteq ToSet(results) /\ IsInjective(Ids(results'))
      /\ scopes # <<>> /\ Len(scopes) <= query.k =>
           \A i \in DOMAIN scopes, c \in ToSet(results) : Matches(c, scopes[i]) =>
             \E d \in ToSet(results') : Matches(d, scopes[i])
  BY <1>2, <1>3, <1>4, RerankedRows
<1>6. TypeOK'
  BY <1>1, <1>5 DEF TypeOK
<1>7. InvIds' /\ Seen' \subseteq Seen
  <2>1. Published' = Published
    BY DEF Published
  <2>2. Seen' \subseteq Seen /\ next_id' = next_id
    BY <1>5, <2>1 DEF Seen
  <2> QED
    BY <1>1, <2>2, IdsKept
<1>8. InvNarrow' /\ InvSteps' /\ InvFused'
  BY <1>1 DEF InvNarrow, InvSteps, InvFused, Searches
<1>9. InvRows'
  <2>1. fetch_k' = fetch_k /\ \A l : ScopeOf(l)' = ScopeOf(l)
    BY DEF fetch_k, ScopeOf
  <2> QED
    BY <1>1, <2>1 DEF InvRows
<1>10. ASSUME scopes # <<>>, Len(scopes) <= fetch_k, Len(scopes) <= query.k,
              NEW i \in DOMAIN lists, lists[i] # <<>>
       PROVE  \E d \in ToSet(results') : Matches(d, scopes[i])
  <2>1. \E c \in ToSet(results) : Matches(c, scopes[i])
    BY <1>1, <1>10 DEF InvResults
  <2>2. i \in DOMAIN scopes
    <3>1. Len(lists) <= Len(scopes) /\ Len(scopes) \in Nat /\ Len(lists) \in Nat
      BY <1>1, <1>10 DEF InvSteps, Searches, TypeOK
    <3>2. DOMAIN lists = 1 .. Len(lists) /\ DOMAIN scopes = 1 .. Len(scopes)
      BY <1>1 DEF TypeOK
    <3> QED
      BY <3>1, <3>2
  <2> QED
    BY <1>5, <1>10, <2>1, <2>2
<1>11. InvResults'
  <2>1. fetch_k' = fetch_k
    BY DEF fetch_k
  <2>2. \A c \in ToSet(results') : Matches(c, query.filters)
    BY <1>1, <1>5 DEF InvResults
  <2> QED
    BY <1>5, <1>10, <2>1, <2>2 DEF InvResults
<1> QED
  BY <1>6, <1>7, <1>8, <1>9, <1>11 DEF IInv

LEMMA RepublishAdds ==
  ASSUME TypeOK, NEW f \in Filing, Republish(f)
  PROVE  LET new == NewVersion(f, next_id)
         IN  /\ Seen' \subseteq Seen \cup ToSet(new)
             /\ \A c \in ToSet(new) :
                  /\ c.id \in Nat /\ next_id <= c.id /\ c.id < next_id + Len(Items)
                  /\ c.ticker = DocumentOf[f].ticker /\ c.year = DocumentOf[f].year
<1> USE DEF Republish
<1> DEFINE new == NewVersion(f, next_id)
<1>1. next_id \in Nat \ {0} /\ next_id \in 1 .. MaxId + 1 /\ MaxId \in Nat /\ Len(Items) \in Nat
  BY Parameters DEF TypeOK
<1>2. \A c \in ToSet(new) :
        \E i \in 1 .. Len(Items) :
          c = [id |-> next_id + i - 1, ticker |-> DocumentOf[f].ticker,
               year |-> DocumentOf[f].year, item |-> Items[i]]
  BY <1>1, NewVersionRows
<1>3. corpus' = [corpus EXCEPT ![f] = new]
  OBVIOUS
<1> HIDE DEF new
<1>4. Seen' \subseteq Seen \cup ToSet(new)
  <2>1. \A g \in Filing : corpus'[g] = corpus[g] \/ corpus'[g] = new
    BY <1>3 DEF TypeOK
  <2>2. Published' \subseteq Published \cup ToSet(new)
    BY <2>1 DEF Published
  <2> QED
    BY <2>2 DEF Seen
<1>5. \A c \in ToSet(new) :
        /\ c.id \in Nat /\ next_id <= c.id /\ c.id < next_id + Len(Items)
        /\ c.ticker = DocumentOf[f].ticker /\ c.year = DocumentOf[f].year
  <2> TAKE c \in ToSet(new)
  <2>1. PICK i \in 1 .. Len(Items) :
          c = [id |-> next_id + i - 1, ticker |-> DocumentOf[f].ticker,
               year |-> DocumentOf[f].year, item |-> Items[i]]
    BY <1>2
  <2>2. c.id = next_id + i - 1
    BY <2>1
  <2> QED
    BY <1>1, <2>1, <2>2
<1> QED
  BY <1>4, <1>5 DEF new

LEMMA RepublishKeeps == ASSUME IInv, NEW f \in Filing, Republish(f) PROVE IInv'
<1> USE DEF Republish
<1> DEFINE new == NewVersion(f, next_id)
<1>1. TypeOK /\ InvIds /\ InvNarrow /\ InvSteps /\ InvRows /\ InvFused /\ InvResults
  BY DEF IInv
<1>2. next_id \in Nat \ {0} /\ next_id \in 1 .. MaxId + 1 /\ MaxId \in Nat /\ Len(Items) \in Nat
  BY <1>1, Parameters DEF TypeOK
<1>3. /\ new \in Seq(Chunk)
      /\ \A c \in ToSet(new) :
           \E i \in 1 .. Len(Items) :
             c = [id |-> next_id + i - 1, ticker |-> DocumentOf[f].ticker,
                  year |-> DocumentOf[f].year, item |-> Items[i]]
  BY <1>2, NewVersionRows
<1>4. corpus' = [corpus EXCEPT ![f] = new]
  OBVIOUS
<1> HIDE DEF new
<1>5. TypeOK'
  <2>1. corpus' \in [Filing -> Seq(Chunk)]
    BY <1>1, <1>3, <1>4 DEF TypeOK
  <2>2. next_id' \in 1 .. MaxId + 1
    BY <1>2
  <2> QED
    BY <1>1, <2>1, <2>2 DEF TypeOK
<1>6. InvIds'
  <2>1. Seen' \subseteq Seen \cup ToSet(new)
    BY <1>1, RepublishAdds DEF new
  <2>2. \A c \in Seen : c.id \in Nat /\ c.id < next_id
    <3>1. \A c \in Chunk : c.id \in Nat
      BY <1>2 DEF Chunk
    <3> QED
      BY <1>1, <3>1, SeenChunks DEF InvIds
  <2>3. \A c \in ToSet(new) : c.id \in Nat /\ next_id <= c.id /\ c.id < next_id + Len(Items)
    BY <1>1, RepublishAdds DEF new
  <2>4. \A c, d \in ToSet(new) : c.id = d.id => c = d
    <3> TAKE c, d \in ToSet(new)
    <3>1. PICK i \in 1 .. Len(Items) :
            c = [id |-> next_id + i - 1, ticker |-> DocumentOf[f].ticker,
                 year |-> DocumentOf[f].year, item |-> Items[i]]
      BY <1>3
    <3>2. PICK j \in 1 .. Len(Items) :
            d = [id |-> next_id + j - 1, ticker |-> DocumentOf[f].ticker,
                 year |-> DocumentOf[f].year, item |-> Items[j]]
      BY <1>3
    <3>3. c.id = d.id => i = j
      BY <1>2, <3>1, <3>2
    <3> QED
      BY <3>1, <3>2, <3>3
  <2>5. \A c \in Seen, d \in ToSet(new) : c.id # d.id
    BY <1>2, <2>2, <2>3
  <2>6. \A c, d \in Seen' : c.id = d.id => c = d
    BY <1>1, <2>1, <2>4, <2>5 DEF InvIds
  <2>7. \A c \in Seen' : c.id < next_id'
    BY <1>2, <2>1, <2>2, <2>3
  <2> QED
    BY <2>6, <2>7 DEF InvIds
<1>7. fetch_k' = fetch_k /\ Scope' = Scope /\ \A l : ScopeOf(l)' = ScopeOf(l)
  BY DEF fetch_k, Scope, ScopeOf
<1>8. InvNarrow' /\ InvSteps'
  BY <1>1 DEF InvNarrow, InvSteps, Searches
<1>9. InvRows'
  BY <1>1, <1>7 DEF InvRows
<1>10. InvFused' /\ InvResults'
  BY <1>1, <1>7 DEF InvFused, InvResults
<1> QED
  BY <1>5, <1>6, <1>8, <1>9, <1>10 DEF IInv

\* At the start, what is seen are first versions, with ids in the order of the filings.
LEMMA FirstVersions ==
  ASSUME Init
  PROVE  /\ corpus \in [Filing -> Seq(Chunk)] /\ Seen = Published
         /\ \A c \in Published : \E f \in Filing, i \in 1 .. Len(Items) :
              c = [id |-> ((f - 1) * Len(Items) + 1) + i - 1, ticker |-> DocumentOf[f].ticker,
                   year |-> DocumentOf[f].year, item |-> Items[i]]
<1> USE DEF Init
<1> DEFINE L == Len(Items)
           first(f) == (f - 1) * L + 1
<1>1. PICK ingested \in SUBSET Filing :
        corpus = [f \in Filing |-> IF f \in ingested THEN NewVersion(f, first(f)) ELSE <<>>]
  OBVIOUS
<1>2. /\ L \in Nat /\ MaxId \in Nat /\ next_id = Len(DocumentOf) * L + 1
      /\ Len(DocumentOf) * L <= MaxId /\ Len(DocumentOf) * L \in Nat
  <2>1. Len(DocumentOf) * Len(Items) <= MaxId
    BY SearchAssumption DEF SearchAssumption
  <2> QED
    BY <2>1, Parameters, Products
<1>3. \A f \in Filing : first(f) \in Nat \ {0} /\ first(f) + L <= next_id
  BY <1>2, FirstIds
<1> HIDE DEF first, L
<1>4. \A f \in Filing :
        /\ corpus[f] \in Seq(Chunk)
        /\ \A c \in ToSet(corpus[f]) : \E i \in 1 .. L :
             c = [id |-> first(f) + i - 1, ticker |-> DocumentOf[f].ticker,
                  year |-> DocumentOf[f].year, item |-> Items[i]]
  <2> TAKE f \in Filing
  <2>1. CASE f \in ingested
    <3>1. first(f) + Len(Items) <= MaxId + 1
      BY <1>2, <1>3 DEF L
    <3>2. corpus[f] = NewVersion(f, first(f))
      BY <1>1, <2>1
    <3> QED
      BY <1>3, <3>1, <3>2, NewVersionRows DEF L
  <2>2. CASE f \notin ingested
    <3>1. corpus[f] = <<>>
      BY <1>1, <2>2
    <3>2. <<>> \in Seq(Chunk)
      OBVIOUS
    <3>3. \A c : c \notin ToSet(<<>>)
      BY DEF ToSet
    <3> HIDE DEF first, L
    <3>4. corpus[f] \in Seq(Chunk)
      BY <3>1, <3>2
    <3>5. \A c : c \notin ToSet(corpus[f])
      BY <3>1, <3>3
    <3> QED
      BY <3>4, <3>5
  <2> QED
    BY <2>1, <2>2
<1>5. corpus \in [Filing -> Seq(Chunk)]
  BY <1>1, <1>4
<1>6. ToSet(<<>>) = {} /\ DOMAIN <<>> = {}
  BY DEF ToSet
<1>7. Seen = Published
  BY <1>6 DEF Seen
<1>8. \A c \in Published : \E f \in Filing, i \in 1 .. L :
        c = [id |-> first(f) + i - 1, ticker |-> DocumentOf[f].ticker,
             year |-> DocumentOf[f].year, item |-> Items[i]]
  BY <1>4 DEF Published
<1> QED
  BY <1>5, <1>7, <1>8 DEF first, L

LEMMA InitEstablishes == Init => IInv
<1> SUFFICES ASSUME Init PROVE IInv
  OBVIOUS
<1> DEFINE L == Len(Items)
           first(f) == (f - 1) * L + 1
<1>1. corpus \in [Filing -> Seq(Chunk)] /\ Seen = Published
  BY FirstVersions
<1>2. /\ L \in Nat /\ MaxId \in Nat /\ next_id = Len(DocumentOf) * L + 1
      /\ Len(DocumentOf) * L <= MaxId /\ Len(DocumentOf) * L \in Nat
  <2>1. Len(DocumentOf) * Len(Items) <= MaxId
    BY SearchAssumption DEF SearchAssumption
  <2> QED
    BY <2>1, Parameters, Products DEF Init
<1>3. \A f, g \in Filing :
        /\ first(f) \in Nat \ {0} /\ first(f) + L <= next_id
        /\ f < g => first(f) + L <= first(g)
  BY <1>2, FirstIds
<1>4. \A c \in Published : \E f \in Filing, i \in 1 .. L :
        c = [id |-> first(f) + i - 1, ticker |-> DocumentOf[f].ticker,
             year |-> DocumentOf[f].year, item |-> Items[i]]
  BY FirstVersions
<1> HIDE DEF first, L
<1>5. TypeOK
  <2>1. next_id \in 1 .. MaxId + 1
    BY <1>2
  <2> QED
    BY <1>1, <2>1 DEF TypeOK, Init
<1>6. ToSet(<<>>) = {} /\ DOMAIN <<>> = {}
  BY DEF ToSet
<1>7. InvIds
  <2>1. \A c, d \in Published : c.id = d.id => c = d
    <3> TAKE c, d \in Published
    <3>1. PICK f \in Filing, i \in 1 .. L :
            c = [id |-> first(f) + i - 1, ticker |-> DocumentOf[f].ticker,
                 year |-> DocumentOf[f].year, item |-> Items[i]]
      BY <1>4
    <3>2. PICK g \in Filing, j \in 1 .. L :
            d = [id |-> first(g) + j - 1, ticker |-> DocumentOf[g].ticker,
                 year |-> DocumentOf[g].year, item |-> Items[j]]
      BY <1>4
    <3>3. f \in Nat /\ g \in Nat /\ first(f) \in Nat /\ first(g) \in Nat
      BY <1>3, Parameters
    <3>4. ASSUME c.id = d.id PROVE f = g
      <4>1. first(f) + i - 1 = first(g) + j - 1
        BY <3>1, <3>2, <3>4
      <4>2. ~ (f < g)
        BY <1>2, <1>3, <3>3, <4>1
      <4>3. ~ (g < f)
        BY <1>2, <1>3, <3>3, <4>1
      <4> QED
        BY <3>3, <4>2, <4>3
    <3>5. c.id = d.id => i = j
      BY <1>2, <3>1, <3>2, <3>3, <3>4
    <3> QED
      BY <3>1, <3>2, <3>4, <3>5
  <2>2. \A c \in Published : c.id < next_id
    <3> TAKE c \in Published
    <3>1. PICK f \in Filing, i \in 1 .. L : c.id = first(f) + i - 1
      BY <1>4
    <3> QED
      BY <1>2, <1>3, <3>1
  <2> QED
    BY <1>1, <2>1, <2>2 DEF InvIds
<1>8. InvNarrow /\ InvSteps /\ InvFused /\ InvResults
  BY <1>6 DEF Init, InvNarrow, InvSteps, InvFused, InvResults, Searches
<1>9. InvRows
  BY <1>6 DEF Init, InvRows, IsInjective
<1> QED
  BY <1>5, <1>7, <1>8, <1>9 DEF IInv

LEMMA InvInductive == IInv /\ [Next]_vars => IInv'
<1> SUFFICES ASSUME IInv, [Next]_vars PROVE IInv'
  OBVIOUS
<1>1. CASE ReadCatalog
  BY <1>1, ReadCatalogKeeps
<1>2. CASE VectorOnly
  BY <1>2, VectorOnlyKeeps
<1>3. CASE VectorSearch
  BY <1>3, VectorSearchKeeps
<1>4. CASE FulltextSearch
  BY <1>4, FulltextSearchKeeps
<1>5. CASE Merge
  BY <1>5, MergeKeeps
<1>6. CASE Rerank
  BY <1>6, RerankKeeps
<1>7. CASE \E f \in Filing : Republish(f)
  BY <1>7, RepublishKeeps
<1>8. CASE UNCHANGED vars
  <2> USE <1>8 DEF vars
  <2>1. TypeOK /\ InvIds /\ InvNarrow /\ InvSteps /\ InvRows /\ InvFused /\ InvResults
    BY DEF IInv
  <2>2. TypeOK' /\ InvNarrow' /\ InvSteps'
    BY <2>1 DEF TypeOK, InvNarrow, InvSteps, Searches
  <2>3. InvIds'
    <3>1. Seen' = Seen
      BY DEF Seen, Published
    <3> QED
      BY <2>1, <3>1 DEF InvIds
  <2>4. fetch_k' = fetch_k /\ Scope' = Scope /\ \A l : ScopeOf(l)' = ScopeOf(l)
    BY DEF fetch_k, Scope, ScopeOf
  <2>5. InvRows' /\ InvFused' /\ InvResults'
    BY <2>1, <2>4 DEF InvRows, InvFused, InvResults
  <2> QED
    BY <2>2, <2>3, <2>5 DEF IInv
<1> QED
  BY <1>1, <1>2, <1>3, <1>4, <1>5, <1>6, <1>7, <1>8 DEF Next, Retrieve

LEMMA InvAlways == Spec => []IInv
BY InitEstablishes, InvInductive, PTL DEF Spec

\* TypeOK, the type invariant of retrieval: every chunk a request holds is one of a
\* filing, and its scopes are filters.
THEOREM TypeCorrect == Spec => []TypeOK
<1>1. IInv => TypeOK
  BY DEF IInv
<1> QED
  BY <1>1, InvAlways, PTL

\* FiltersHonoured: an answer has at most k chunks, no two with the same id, all
\* within the caller's filters, however the question is split (infer_query_scopes),
\* whatever the searches return and whatever is published between two statements.
THEOREM FiltersKept == Spec => []FiltersHonoured
<1>1. IInv => FiltersHonoured
  BY DEF IInv, InvResults, FiltersHonoured
<1> QED
  BY <1>1, InvAlways, PTL

\* ScopesRepresented: a company, or year, that some search found a chunk for is in
\* the answer when there is room for all of them, whatever the scores the reranker
\* gives (interleave_results and the reserved slots of rerank_results).
THEOREM ScopesKept == Spec => []ScopesRepresented
<1>1. ASSUME IInv PROVE ScopesRepresented
  <2>1. InvResults
    BY <1>1 DEF IInv
  <2> QED
    BY <2>1 DEF InvResults, ScopesRepresented
<1> QED
  BY <1>1, InvAlways, PTL

-----------------------------------------------------------------------------
(***************************************************************************)
(* Fusion respects both searches.                                          *)
(***************************************************************************)

\* A sum of fractions grows with each of them.
LEMMA SumsGrow ==
  ASSUME NEW p \in Fraction, NEW q \in Fraction, NEW r \in Fraction, NEW s \in Fraction,
         ~ Greater(r, p), ~ Greater(s, q), Greater(p, r) \/ Greater(q, s)
  PROVE  Greater(Plus(p, q), Plus(r, s))
<1> PICK a \in Nat, b \in Nat \ {0} : p = <<a, b>>
  BY DEF Fraction
<1> PICK c \in Nat, d \in Nat \ {0} : q = <<c, d>>
  BY DEF Fraction
<1> PICK e \in Nat, f \in Nat \ {0} : r = <<e, f>>
  BY DEF Fraction
<1> PICK g \in Nat, h \in Nat \ {0} : s = <<g, h>>
  BY DEF Fraction
<1>1. /\ Greater(r, p) <=> e * b > a * f
      /\ Greater(p, r) <=> a * f > e * b
      /\ Greater(s, q) <=> g * d > c * h
      /\ Greater(q, s) <=> c * h > g * d
  BY DEF Greater
<1>2. /\ a * f \in Nat /\ e * b \in Nat /\ c * h \in Nat /\ g * d \in Nat
      /\ d * h \in Nat \ {0} /\ b * f \in Nat \ {0}
  BY Products
<1>3. Greater(Plus(p, q), Plus(r, s)) <=>
        (a * d + c * b) * (f * h) > (e * h + g * f) * (b * d)
  BY DEF Greater, Plus
<1>4. /\ (a * d + c * b) * (f * h) = (d * h) * (a * f) + (b * f) * (c * h)
      /\ (e * h + g * f) * (b * d) = (d * h) * (e * b) + (b * f) * (g * d)
  OBVIOUS
<1> DEFINE A == a * f  B == e * b  C == c * h  D == g * d  M == d * h  N == b * f
<1>5. /\ A \in Nat /\ B \in Nat /\ C \in Nat /\ D \in Nat /\ M \in Nat \ {0} /\ N \in Nat \ {0}
      /\ B <= A /\ D <= C /\ (B < A \/ D < C)
  BY <1>1, <1>2
<1>6. M * A + N * C > M * B + N * D
  <2> HIDE DEF A, B, C, D, M, N
  <2>1. M * B <= M * A /\ N * D <= N * C
    BY <1>5, Products
  <2>2. /\ B < A => M * B < M * A
        /\ D < C => N * D < N * C
    BY <1>5, Products
  <2>3. M * A \in Nat /\ M * B \in Nat /\ N * C \in Nat /\ N * D \in Nat
    BY <1>5, Products
  <2> QED
    BY <1>5, <2>1, <2>2, <2>3
<1> QED
  BY <1>3, <1>4, <1>6

LEMMA RankIs ==
  ASSUME NEW s \in Seq(Chunk), IsInjective(s)
  PROVE  /\ \A n \in DOMAIN s : Rank(s, s[n]) = n
         /\ \A x \in ToSet(s) : Rank(s, x) \in 1 .. Len(s) /\ s[Rank(s, x)] = x
         /\ \A x : x \notin ToSet(s) => Rank(s, x) = Len(s) + 1
<1>1. \A n \in DOMAIN s : Rank(s, s[n]) = n
  <2> TAKE n \in DOMAIN s
  <2>1. s[n] \in ToSet(s)
    BY DEF ToSet
  <2>2. \A m \in DOMAIN s : s[m] = s[n] => m = n
    BY DEF IsInjective
  <2> QED
    BY <2>1, <2>2 DEF Rank
<1>2. \A x \in ToSet(s) : \E n \in DOMAIN s : s[n] = x
  BY DEF ToSet
<1> QED
  BY <1>1, <1>2 DEF Rank

\* What a list adds to the score of a chunk depends on its rank alone.
LEMMA ReciprocalIs ==
  ASSUME NEW s \in Seq(Chunk), IsInjective(Ids(s)), NEW x \in Chunk,
         \A c \in ToSet(s) : c.id = x.id => c = x
  PROVE  Reciprocal(Ids(s), x.id) = IF x \in ToSet(s) THEN <<1, RRF_K + Rank(s, x)>> ELSE <<0, 1>>
<1>1. /\ DOMAIN Ids(s) = DOMAIN s
      /\ \A n \in DOMAIN s : Ids(s)[n] = s[n].id
      /\ ToSet(Ids(s)) = { c.id : c \in ToSet(s) }
  BY IdsOf
<1>2. x.id \in ToSet(Ids(s)) <=> x \in ToSet(s)
  BY <1>1
<1>3. ASSUME x \in ToSet(s) PROVE (CHOOSE n \in DOMAIN Ids(s) : Ids(s)[n] = x.id) = Rank(s, x)
  <2>1. PICK n \in DOMAIN s : s[n] = x
    BY <1>3 DEF ToSet
  <2>2. \A m \in DOMAIN s : Ids(s)[m] = x.id => m = n
    BY <1>1, <2>1 DEF IsInjective
  <2>3. \A m \in DOMAIN s : s[m] = x => m = n
    BY <1>1, <2>2
  <2>4. (CHOOSE m \in DOMAIN Ids(s) : Ids(s)[m] = x.id) = n
    BY <1>1, <2>1, <2>2
  <2> QED
    BY <1>3, <2>1, <2>3, <2>4 DEF Rank
<1>4. CASE x \in ToSet(s)
  <2>1. Reciprocal(Ids(s), x.id) =
          <<1, RRF_K + CHOOSE n \in DOMAIN Ids(s) : Ids(s)[n] = x.id>>
    BY <1>2, <1>4 DEF Reciprocal
  <2> QED
    BY <1>3, <1>4, <2>1
<1>5. CASE x \notin ToSet(s)
  BY <1>2, <1>5 DEF Reciprocal
<1> QED
  BY <1>4, <1>5

\* A chunk that a list does not rank below another gets no less from it.
LEMMA ReciprocalsOrdered ==
  ASSUME NEW s \in Seq(Chunk), IsInjective(s), IsInjective(Ids(s)), NEW x \in Chunk, NEW y \in Chunk,
         \A c \in ToSet(s) : (c.id = x.id => c = x) /\ (c.id = y.id => c = y)
  PROVE  /\ Reciprocal(Ids(s), x.id) \in Fraction
         /\ Rank(s, x) <= Rank(s, y) =>
              ~ Greater(Reciprocal(Ids(s), y.id), Reciprocal(Ids(s), x.id))
         /\ Rank(s, x) < Rank(s, y) =>
              Greater(Reciprocal(Ids(s), x.id), Reciprocal(Ids(s), y.id))
<1> DEFINE a == Rank(s, x)
           b == Rank(s, y)
           n == Len(s)
<1>1. /\ Reciprocal(Ids(s), x.id) = IF x \in ToSet(s) THEN <<1, 60 + a>> ELSE <<0, 1>>
      /\ Reciprocal(Ids(s), y.id) = IF y \in ToSet(s) THEN <<1, 60 + b>> ELSE <<0, 1>>
  BY ReciprocalIs DEF RRF_K
<1>2. /\ n \in Nat
      /\ x \in ToSet(s) => a \in 1 .. n
      /\ y \in ToSet(s) => b \in 1 .. n
      /\ x \notin ToSet(s) => a = n + 1
      /\ y \notin ToSet(s) => b = n + 1
  BY RankIs
<1> HIDE DEF a, b, n
<1>3. ASSUME NEW i \in Nat, NEW j \in Nat
      PROVE  /\ Greater(<<1, 60 + i>>, <<1, 60 + j>>) <=> i < j
             /\ Greater(<<1, 60 + i>>, <<0, 1>>)
             /\ ~ Greater(<<0, 1>>, <<1, 60 + i>>)
             /\ ~ Greater(<<0, 1>>, <<0, 1>>)
             /\ <<1, 60 + i>> \in Fraction /\ <<0, 1>> \in Fraction
  BY DEF Greater, Fraction
<1>4. a \in Nat /\ b \in Nat
  BY <1>2
<1>5. CASE x \in ToSet(s) /\ y \in ToSet(s)
  <2> DEFINE P == Reciprocal(Ids(s), x.id)
             Q == Reciprocal(Ids(s), y.id)
  <2>1. P = <<1, 60 + a>> /\ Q = <<1, 60 + b>>
    BY <1>1, <1>5
  <2> HIDE DEF P, Q
  <2>2. P \in Fraction /\ (Greater(Q, P) <=> b < a) /\ (Greater(P, Q) <=> a < b)
    BY <1>3, <1>4, <2>1
  <2>3. (a <= b => ~ Greater(Q, P)) /\ (a < b => Greater(P, Q))
    BY <1>4, <2>2
  <2> QED
    BY <2>2, <2>3 DEF P, Q, a, b
<1>6. CASE x \in ToSet(s) /\ y \notin ToSet(s)
  BY <1>1, <1>3, <1>4, <1>6
<1>7. CASE x \notin ToSet(s)
  <2>1. ~ (a < b) /\ (a <= b => y \notin ToSet(s))
    BY <1>2, <1>7
  <2> QED
    BY <1>1, <1>3, <1>4, <1>7, <2>1 DEF a, b
<1> QED
  BY <1>5, <1>6, <1>7

\* One search ranks x above y and neither ranks it below: x has the higher score.
LEMMA HigherScore ==
  ASSUME NEW v \in Seq(Chunk), NEW f \in Seq(Chunk),
         IsInjective(v), IsInjective(Ids(v)), IsInjective(f), IsInjective(Ids(f)),
         \A c, d \in ToSet(v) \cup ToSet(f) : c.id = d.id => c = d,
         NEW x \in ToSet(v) \cup ToSet(f), NEW y \in ToSet(v) \cup ToSet(f), x # y,
         Rank(v, x) <= Rank(v, y), Rank(f, x) <= Rank(f, y)
  PROVE  Better(Ids(v), Ids(f), x.id, y.id)
<1>1. x \in Chunk /\ y \in Chunk
  BY DEF ToSet
<1>2. /\ \A c \in ToSet(v) : (c.id = x.id => c = x) /\ (c.id = y.id => c = y)
      /\ \A c \in ToSet(f) : (c.id = x.id => c = x) /\ (c.id = y.id => c = y)
  OBVIOUS
<1>3. Rank(v, x) < Rank(v, y) \/ Rank(f, x) < Rank(f, y)
  <2>1. ASSUME NEW s \in Seq(Chunk), IsInjective(s), x \in ToSet(s), Rank(s, x) = Rank(s, y)
        PROVE  FALSE
    <3>1. Rank(s, x) \in 1 .. Len(s) /\ s[Rank(s, x)] = x /\ Len(s) \in Nat
      BY <2>1, RankIs
    <3>2. Rank(s, y) # Len(s) + 1
      BY <2>1, <3>1
    <3>3. s[Rank(s, y)] = y
      BY <2>1, <3>2, RankIs
    <3> QED
      BY <2>1, <3>1, <3>3
  <2>2. ASSUME NEW s \in Seq(Chunk), IsInjective(s), NEW z
        PROVE  Rank(s, z) \in Nat
    <3>1. Len(s) \in Nat
      OBVIOUS
    <3>2. CASE z \in ToSet(s)
      BY <2>2, <3>2, RankIs
    <3>3. CASE z \notin ToSet(s)
      BY <2>2, <3>1, <3>3, RankIs
    <3> QED
      BY <3>2, <3>3
  <2>3. /\ Rank(v, x) \in Nat /\ Rank(v, y) \in Nat
        /\ Rank(f, x) \in Nat /\ Rank(f, y) \in Nat
    BY <2>2
  <2>4. ~ (Rank(v, x) = Rank(v, y) /\ Rank(f, x) = Rank(f, y))
    BY <2>1
  <2> QED
    BY <2>3, <2>4
<1> DEFINE p == Reciprocal(Ids(v), x.id)
           q == Reciprocal(Ids(f), x.id)
           r == Reciprocal(Ids(v), y.id)
           t == Reciprocal(Ids(f), y.id)
<1>4. /\ p \in Fraction /\ ~ Greater(r, p)
      /\ Rank(v, x) < Rank(v, y) => Greater(p, r)
  BY <1>1, <1>2, ReciprocalsOrdered
<1>5. /\ q \in Fraction /\ ~ Greater(t, q)
      /\ Rank(f, x) < Rank(f, y) => Greater(q, t)
  BY <1>1, <1>2, ReciprocalsOrdered
<1>6. r \in Fraction /\ t \in Fraction
  BY <1>1, <1>2, ReciprocalsOrdered
<1> HIDE DEF p, q, r, t
<1>7. Greater(Plus(p, q), Plus(r, t))
  BY <1>3, <1>4, <1>5, <1>6, SumsGrow
<1> QED
  BY <1>7 DEF Better, RrfScore, p, q, r, t

\* FusionRespectsBoth: a chunk that one search ranks above another, and neither
\* below, comes before it in the result of hybrid_search and is not cut off in its
\* favour: rrf_fuse adds fractions that fall with the rank, and its order is total.
THEOREM FusionKept == Spec => []FusionRespectsBoth
<1>1. ASSUME IInv PROVE FusionRespectsBoth
  <2> DEFINE found == ToSet(vec) \cup ToSet(fts)
  <2> SUFFICES ASSUME pc \in {"vector", "merge"}, lists # <<>>,
                      NEW x \in found, NEW y \in found,
                      Rank(vec, x) <= Rank(vec, y), Rank(fts, x) <= Rank(fts, y), x # y,
                      y \in ToSet(Last(lists))
               PROVE  Rank(Last(lists), x) < Rank(Last(lists), y)
    BY DEF FusionRespectsBoth
  <2> DEFINE order == rrf_fuse(Ids(vec), Ids(fts))
             last  == Fused(vec, fts, fetch_k)
  <2>1. TypeOK /\ InvIds /\ InvRows /\ InvFused
    BY <1>1 DEF IInv
  <2>2. vec \in Seq(Chunk) /\ fts \in Seq(Chunk) /\ fetch_k \in Nat
    BY <2>1, RequestParameters DEF TypeOK
  <2>3. Last(lists) = last
    BY <2>1 DEF InvFused
  <2>4. \A c, d \in found : c.id = d.id => c = d
    BY <2>1 DEF InvIds, Seen
  <2>5. ASSUME NEW s \in Seq(Chunk), IsInjective(s), ToSet(s) \subseteq found
        PROVE  IsInjective(Ids(s))
    <3>1. DOMAIN Ids(s) = DOMAIN s /\ \A n \in DOMAIN s : Ids(s)[n] = s[n].id /\ s[n] \in found
      BY <2>5, IdsOf DEF ToSet
    <3> QED
      BY <2>4, <2>5, <3>1 DEF IsInjective
  <2>6. /\ IsInjective(vec) /\ IsInjective(Ids(vec))
        /\ IsInjective(fts) /\ IsInjective(Ids(fts))
    BY <2>1, <2>2, <2>5 DEF InvRows
  <2>7. Better(Ids(vec), Ids(fts), x.id, y.id)
    BY <2>2, <2>4, <2>6, HigherScore
  <2>8. /\ last \in Seq(Chunk) /\ IsInjective(Ids(last))
        /\ Len(last) = IF fetch_k < Len(order) THEN fetch_k ELSE Len(order)
        /\ \A n \in DOMAIN last : n \in DOMAIN order /\ last[n] \in found /\ last[n].id = order[n]
    BY <2>2, FusedRows
  <2>9. /\ Ids(vec) \in Seq(Nat) /\ Ids(fts) \in Seq(Nat)
        /\ x.id \in ToSet(Ids(vec)) \cup ToSet(Ids(fts))
    BY <2>2, IdsOf
  <2>10. order \in Seq(ToSet(Ids(vec)) \cup ToSet(Ids(fts)))
    BY <2>9, FusedInOrder
  <2>11. PICK m \in DOMAIN order : order[m] = x.id
    BY <2>9, FusedInOrder
  <2>12. PICK n \in DOMAIN last : last[n] = y
    BY <2>3 DEF ToSet
  <2>13. n \in DOMAIN order /\ order[n] = y.id
    BY <2>8, <2>12
  <2>14. m < n
    BY <2>7, <2>9, <2>11, <2>13, FusedInOrder
  <2> HIDE DEF order, last, found
  <2>15. m \in DOMAIN last
    <3>1. DOMAIN last = 1 .. Len(last) /\ Len(last) \in Nat
      BY <2>8
    <3>2. DOMAIN order = 1 .. Len(order) /\ Len(order) \in Nat
      BY <2>10
    <3> QED
      BY <2>11, <2>12, <2>14, <3>1, <3>2
  <2>16. last[m] = x
    BY <2>4, <2>8, <2>11, <2>15
  <2>17. IsInjective(last)
    <3>1. DOMAIN Ids(last) = DOMAIN last /\ \A i \in DOMAIN last : Ids(last)[i] = last[i].id
      BY <2>8, IdsOf
    <3> QED
      BY <2>8, <3>1 DEF IsInjective
  <2>18. Rank(last, x) = m /\ Rank(last, y) = n
    BY <2>8, <2>12, <2>15, <2>16, <2>17, RankIs
  <2> QED
    BY <2>3, <2>14, <2>18
<1> QED
  BY <1>1, InvAlways, PTL

-----------------------------------------------------------------------------
(***************************************************************************)
(* The evaluation asks by the same statements.                             *)
(***************************************************************************)

\* Spec: an evaluation (evals/run.py) is, of the state of retrieval, nothing but
\* retrieval: what is proved of Spec holds of the questions it asks too.
THEOREM EvaluationsSearch == EvalSpec => Spec
<1>1. EvalInit => Init
  BY DEF EvalInit
<1>2. [EvalNext]_evalVars => [Next]_vars
  <2> SUFFICES ASSUME [EvalNext]_evalVars PROVE [Next]_vars
    OBVIOUS
  <2>1. CASE ResolveRef
    BY <2>1 DEF ResolveRef
  <2>2. CASE AskQuestion
    BY <2>2 DEF AskQuestion, Next
  <2>3. CASE \E f \in Filing : Reingest(f)
    BY <2>3 DEF Reingest, Next
  <2>4. CASE UNCHANGED evalVars
    BY <2>4 DEF evalVars
  <2> QED
    BY <2>1, <2>2, <2>3, <2>4 DEF EvalNext
<1> QED
  BY <1>1, <1>2, PTL DEF EvalSpec, Spec

-----------------------------------------------------------------------------
(***************************************************************************)
(* What an evaluation measures.                                            *)
(***************************************************************************)

Quoting(c)  == Passage(c) \in ToSet(query.refs)
Resolved(c) == Quoting(c) /\ Passage(c) \notin ToSet(unresolved)

\* References are resolved before anything is searched.
InvOrder ==
  /\ unresolved \in Seq(Reference) /\ ToSet(unresolved) \subseteq ToSet(query.refs)
  /\ unresolved # <<>> => pc = "catalog"
  /\ pc = "catalog" => vec = <<>> /\ fts = <<>> /\ results = <<>>

\* Of the chunks that are published or held, those with a relevant id have been
\* quoted, and those quoted by a resolved reference to a filing that has not been
\* re-ingested since have a relevant id.
InvRelevant ==
  /\ \A id \in relevant : id \in 1 .. MaxId /\ id < next_id
  /\ \A c \in Seen :
       /\ \E f \in Filing : DocumentOf[f].ticker = c.ticker /\ DocumentOf[f].year = c.year
       /\ c.id \in relevant => Quoting(c)
       /\ Resolved(c) /\ Passage(c).filing \notin stale => c.id \in relevant

EInv == IInv /\ InvOrder /\ InvRelevant

\* A filing is known by its ticker and year.
LEMMA PassageIs ==
  ASSUME NEW c, NEW f \in Filing, DocumentOf[f].ticker = c.ticker, DocumentOf[f].year = c.year
  PROVE  Passage(c) = [filing |-> f, item |-> c.item]
<1>1. \A g \in Filing : DocumentOf[g].ticker = c.ticker /\ DocumentOf[g].year = c.year => g = f
  BY RetrievalEvalAssumption DEF RetrievalEvalAssumption
<1>2. (CHOOSE g \in Filing : DocumentOf[g].ticker = c.ticker /\ DocumentOf[g].year = c.year) = f
  BY <1>1
<1> QED
  BY <1>2 DEF Passage

LEMMA QuotedIs ==
  ASSUME TypeOK, NEW c \in Published, NEW ref \in Reference,
         \E f \in Filing : DocumentOf[f].ticker = c.ticker /\ DocumentOf[f].year = c.year
  PROVE  c \in Quoted(ref) <=> Passage(c) = ref
<1>1. PICK f \in Filing : DocumentOf[f].ticker = c.ticker /\ DocumentOf[f].year = c.year
  OBVIOUS
<1>2. Passage(c) = [filing |-> f, item |-> c.item]
  BY <1>1, PassageIs
<1>3. ref = [filing |-> ref.filing, item |-> ref.item] /\ ref.filing \in Filing
  BY DEF Reference
<1>4. Passage(c) = ref <=> f = ref.filing /\ c.item = ref.item
  BY <1>2, <1>3
<1>5. f = ref.filing <=> /\ c.ticker = DocumentOf[ref.filing].ticker
                         /\ c.year = DocumentOf[ref.filing].year
  BY <1>1, <1>3, RetrievalEvalAssumption DEF RetrievalEvalAssumption
<1> QED
  BY <1>4, <1>5 DEF Quoted

LEMMA EvalInitEstablishes == EvalInit => EInv
<1> SUFFICES ASSUME EvalInit PROVE EInv
  OBVIOUS
<1> USE DEF EvalInit
<1>1. IInv
  BY InitEstablishes
<1>2. /\ query \in Queries /\ pc = "catalog" /\ unresolved = query.refs
      /\ vec = <<>> /\ fts = <<>> /\ results = <<>> /\ lists = <<>>
  BY DEF Init
<1>3. InvOrder
  <2>1. query.refs \in Seq(Reference)
    BY <1>2, RetrievalEvalAssumption DEF RetrievalEvalAssumption
  <2> QED
    BY <1>2, <2>1 DEF InvOrder
<1>4. ASSUME NEW c \in Seen
      PROVE  \E f \in Filing : DocumentOf[f].ticker = c.ticker /\ DocumentOf[f].year = c.year
  <2>1. c \in Published
    BY <1>4, FirstVersions
  <2> QED
    BY <2>1, FirstVersions
<1>5. InvRelevant
  BY <1>2, <1>4 DEF InvRelevant, Resolved, Quoting
<1> QED
  BY <1>1, <1>3, <1>5 DEF EInv

LEMMA HeadAndTail ==
  ASSUME NEW S, NEW s \in Seq(S), s # <<>>
  PROVE  /\ Head(s) \in S /\ Tail(s) \in Seq(S)
         /\ ToSet(s) = ToSet(Tail(s)) \cup {Head(s)}
<1> DEFINE t == Tail(s)
<1>1. /\ Len(s) \in Nat \ {0} /\ DOMAIN s = 1 .. Len(s) /\ Head(s) = s[1] /\ s[1] \in S
      /\ t \in Seq(S) /\ DOMAIN t = 1 .. Len(s) - 1
      /\ \A i \in 1 .. Len(s) - 1 : t[i] = s[i + 1]
  OBVIOUS
<1> HIDE DEF t
<1>2. ToSet(s) \subseteq ToSet(t) \cup {Head(s)}
  <2>1. ASSUME NEW i \in 1 .. Len(s), i # 1 PROVE i - 1 \in DOMAIN t /\ s[i] = t[i - 1]
    <3>1. i - 1 \in 1 .. Len(s) - 1 /\ (i - 1) + 1 = i
      BY <1>1, <2>1
    <3> QED
      BY <1>1, <3>1
  <2> QED
    BY <1>1, <2>1 DEF ToSet
<1>3. ToSet(t) \cup {Head(s)} \subseteq ToSet(s)
  <2>1. \A i \in DOMAIN t : i + 1 \in DOMAIN s /\ t[i] = s[i + 1]
    BY <1>1
  <2>2. 1 \in DOMAIN s
    BY <1>1
  <2> QED
    BY <1>1, <2>1, <2>2 DEF ToSet
<1> QED
  BY <1>1, <1>2, <1>3 DEF t

LEMMA ResolveRefKeeps == ASSUME EInv, ResolveRef PROVE EInv'
<1> USE DEF ResolveRef
<1> DEFINE ref == Head(unresolved)
<1>1. /\ IInv /\ InvOrder /\ InvRelevant
      /\ TypeOK /\ InvIds /\ InvSteps
  BY DEF EInv, IInv
<1>2. UNCHANGED vars
  OBVIOUS
<1>3. IInv' /\ Seen' = Seen /\ Published' = Published
  <2>1. [Next]_vars
    BY <1>2
  <2> QED
    BY <1>1, <1>2, <2>1, InvInductive DEF vars, Seen, Published
<1>4. Seen = Published
  <2>1. pc = "catalog"
    BY <1>1 DEF InvOrder
  <2>2. vec = <<>> /\ fts = <<>> /\ results = <<>> /\ lists = <<>>
    BY <1>1, <2>1 DEF InvOrder, InvSteps
  <2>3. ToSet(<<>>) = {} /\ DOMAIN <<>> = {}
    BY DEF ToSet
  <2> QED
    BY <2>2, <2>3 DEF Seen
<1>5. /\ unresolved \in Seq(Reference) /\ unresolved # <<>> /\ ref \in Reference
      /\ unresolved' \in Seq(Reference)
      /\ ToSet(unresolved) = ToSet(unresolved') \cup {ref}
  <2>1. unresolved \in Seq(Reference) /\ unresolved # <<>> /\ unresolved' = Tail(unresolved)
    BY <1>1 DEF InvOrder
  <2> QED
    BY <2>1, HeadAndTail
<1>6. InvOrder'
  BY <1>1, <1>2, <1>5 DEF InvOrder, vars
<1>7. /\ relevant' = relevant \cup { c.id : c \in Quoted(ref) }
      /\ stale' = stale /\ query' = query
  BY DEF vars
<1>8. ref \in ToSet(query.refs)
  BY <1>1, <1>5 DEF InvOrder
<1> HIDE DEF ref
<1>9. \A c \in Seen : /\ c.id \in relevant' <=> c.id \in relevant \/ Passage(c) = ref
                      /\ c.id \in 1 .. MaxId /\ c.id < next_id
  <2> TAKE c \in Seen
  <2>1. c.id \in 1 .. MaxId /\ c.id < next_id
    <3>1. c \in Chunk
      BY <1>1, SeenChunks
    <3> QED
      BY <1>1, <3>1 DEF Chunk, InvIds
  <2>2. c \in Quoted(ref) <=> Passage(c) = ref
    BY <1>1, <1>4, <1>5, QuotedIs DEF InvRelevant
  <2>3. \A d \in Quoted(ref) : d.id = c.id => d = c
    <3>1. Quoted(ref) \subseteq Seen
      BY <1>4 DEF Quoted
    <3> QED
      BY <1>1, <3>1 DEF InvIds
  <2> QED
    BY <1>7, <2>1, <2>2, <2>3
<1>10. InvRelevant'
  <2>1. \A c : Passage(c)' = Passage(c)
    BY DEF Passage
  <2>2. \A id \in relevant' : id \in 1 .. MaxId /\ id < next_id
    <3>1. \A c \in Quoted(ref) : c \in Seen
      BY <1>4 DEF Quoted
    <3> QED
      BY <1>1, <1>7, <1>9, <3>1 DEF InvRelevant
  <2>3. next_id' = next_id
    BY DEF vars
  <2>4. ASSUME NEW c \in Seen
        PROVE  /\ \E f \in Filing : DocumentOf[f].ticker = c.ticker /\ DocumentOf[f].year = c.year
               /\ c.id \in relevant' => Passage(c) \in ToSet(query.refs)
               /\ (/\ Passage(c) \in ToSet(query.refs) /\ Passage(c) \notin ToSet(unresolved')
                   /\ Passage(c).filing \notin stale)
                  => c.id \in relevant'
    BY <1>1, <1>5, <1>8, <1>9 DEF InvRelevant, Resolved, Quoting
  <2> QED
    BY <1>3, <1>7, <2>1, <2>2, <2>3, <2>4 DEF InvRelevant, Resolved, Quoting
<1> QED
  BY <1>3, <1>6, <1>10 DEF EInv

LEMMA AskQuestionKeeps == ASSUME EInv, AskQuestion PROVE EInv'
<1> USE DEF AskQuestion
<1>1. IInv /\ InvOrder /\ InvRelevant
  BY DEF EInv
<1>2. IInv' /\ Seen' \subseteq Seen
  <2>1. ReadCatalog \/ VectorOnly \/ VectorSearch \/ FulltextSearch \/ Merge \/ Rerank
    BY DEF Retrieve
  <2> QED
    BY <1>1, <2>1, ReadCatalogKeeps, VectorOnlyKeeps, VectorSearchKeeps, FulltextSearchKeeps,
       MergeKeeps, RerankKeeps
<1>3. query' = query /\ next_id' = next_id /\ pc' # "catalog"
  <2>1. pc' \in {"vector", "rerank", "done", "fulltext", "merge"}
    BY DEF Retrieve, ReadCatalog, VectorOnly, VectorSearch, FulltextSearch, Merge, Rerank
  <2>2. query' = query /\ next_id' = next_id
    BY DEF Retrieve, ReadCatalog, VectorOnly, VectorSearch, FulltextSearch, Merge, Rerank
  <2> QED
    BY <2>1, <2>2
<1>4. unresolved' = unresolved /\ relevant' = relevant /\ stale' = stale /\ unresolved = <<>>
  BY DEF golden
<1>5. InvOrder'
  BY <1>1, <1>3, <1>4 DEF InvOrder
<1>6. InvRelevant'
  <2>1. \A c : Passage(c)' = Passage(c)
    BY DEF Passage
  <2> QED
    BY <1>1, <1>2, <1>3, <1>4, <2>1 DEF InvRelevant, Resolved, Quoting
<1> QED
  BY <1>2, <1>5, <1>6 DEF EInv

LEMMA ReingestKeeps == ASSUME EInv, NEW f \in Filing, Reingest(f) PROVE EInv'
<1> USE DEF Reingest
<1> DEFINE new == NewVersion(f, next_id)
<1>1. IInv /\ InvOrder /\ InvRelevant /\ TypeOK
  BY DEF EInv, IInv
<1>2. IInv'
  BY <1>1, RepublishKeeps
<1>3. /\ Seen' \subseteq Seen \cup ToSet(new)
      /\ \A c \in ToSet(new) :
           /\ c.id \in Nat /\ next_id <= c.id
           /\ c.ticker = DocumentOf[f].ticker /\ c.year = DocumentOf[f].year
  BY <1>1, RepublishAdds
<1>4. /\ UNCHANGED <<query, pc, vec, fts, results, unresolved, relevant>>
      /\ next_id' = next_id + Len(Items)
  BY DEF Republish
<1>5. /\ stale \subseteq stale'
      /\ \A ref \in ToSet(query.refs) \ ToSet(unresolved) : ref.filing = f => f \in stale'
  OBVIOUS
<1> HIDE DEF new
<1>6. InvOrder'
  BY <1>1, <1>4 DEF InvOrder
<1>7. next_id \in Nat /\ next_id' \in Nat /\ next_id <= next_id'
  BY <1>1, <1>4, Parameters DEF TypeOK
<1>8. \A id \in relevant' : id \in 1 .. MaxId /\ id < next_id'
  <2> TAKE id \in relevant'
  <2>1. id \in 1 .. MaxId /\ id < next_id
    BY <1>1, <1>4 DEF InvRelevant
  <2>2. id \in Nat
    BY <2>1, Parameters
  <2> QED
    BY <1>7, <2>1, <2>2
<1>9. ASSUME NEW c \in ToSet(new)
      PROVE  c.id \notin relevant /\ Passage(c).filing = f
  <2>1. Passage(c).filing = f
    BY <1>3, PassageIs
  <2>2. c.id \notin relevant
    BY <1>1, <1>3, <1>7 DEF InvRelevant
  <2> QED
    BY <2>1, <2>2
<1>10. InvRelevant'
  <2>1. \A c : Passage(c)' = Passage(c)
    BY DEF Passage
  <2>2. ASSUME NEW c \in Seen \cup ToSet(new)
        PROVE  /\ \E g \in Filing : DocumentOf[g].ticker = c.ticker /\ DocumentOf[g].year = c.year
               /\ c.id \in relevant => Passage(c) \in ToSet(query.refs)
               /\ (/\ Passage(c) \in ToSet(query.refs) /\ Passage(c) \notin ToSet(unresolved)
                   /\ Passage(c).filing \notin stale')
                  => c.id \in relevant
    <3>1. CASE c \in Seen
      BY <1>1, <1>5, <3>1 DEF InvRelevant, Resolved, Quoting
    <3>2. CASE c \in ToSet(new)
      BY <1>3, <1>5, <1>9, <3>2
    <3> QED
      BY <3>1, <3>2
  <2> QED
    BY <1>3, <1>4, <1>8, <2>1, <2>2 DEF InvRelevant, Resolved, Quoting
<1> QED
  BY <1>2, <1>6, <1>10 DEF EInv

LEMMA EvalInvInductive == EInv /\ [EvalNext]_evalVars => EInv'
<1> SUFFICES ASSUME EInv, [EvalNext]_evalVars PROVE EInv'
  OBVIOUS
<1>1. CASE ResolveRef
  BY <1>1, ResolveRefKeeps
<1>2. CASE AskQuestion
  BY <1>2, AskQuestionKeeps
<1>3. CASE \E f \in Filing : Reingest(f)
  BY <1>3, ReingestKeeps
<1>4. CASE UNCHANGED evalVars
  <2>1. UNCHANGED vars /\ UNCHANGED golden
    BY <1>4 DEF evalVars
  <2>2. IInv'
    <3>1. [Next]_vars
      BY <2>1
    <3> QED
      BY <3>1, InvInductive DEF EInv
  <2>3. Seen' = Seen /\ query' = query /\ next_id' = next_id
    BY <2>1 DEF vars, Seen, Published
  <2>4. InvOrder'
    BY <2>1 DEF EInv, InvOrder, vars, golden
  <2>5. InvRelevant'
    <3>1. \A c : Passage(c)' = Passage(c)
      BY DEF Passage
    <3> QED
      BY <2>1, <2>3, <3>1 DEF EInv, InvRelevant, Resolved, Quoting, golden
  <2> QED
    BY <2>2, <2>4, <2>5 DEF EInv
<1> QED
  BY <1>1, <1>2, <1>3, <1>4 DEF EvalNext

LEMMA EvalInvAlways == EvalSpec => []EInv
BY EvalInitEstablishes, EvalInvInductive, PTL DEF EvalSpec

\* Recall counts the places with a relevant id.
LEMMA RecallIs ==
  ASSUME NEW s \in Seq(Chunk), IsInjective(Ids(s)), NEW k \in Nat
  PROVE  LET hits == { i \in 1 .. k : i <= Len(Ids(s)) /\ Ids(s)[i] \in relevant }
         IN  /\ hits = { i \in 1 .. k : i <= Len(s) /\ s[i].id \in relevant }
             /\ IsFiniteSet(hits)
             /\ recall_at_k(Ids(s), k) = Cardinality(hits)
<1> DEFINE ids  == Ids(s)
           hits == { i \in 1 .. k : i <= Len(ids) /\ ids[i] \in relevant }
           top  == relevant \cap ToSet(Take(ids, k))
           at   == [i \in hits |-> ids[i]]
<1>1. /\ ids \in Seq(Nat) /\ DOMAIN ids = DOMAIN s /\ \A n \in DOMAIN s : ids[n] = s[n].id
      /\ IsInjective(ids)
  BY IdsOf
<1> HIDE DEF ids
<1>2. /\ Len(ids) \in Nat /\ Len(s) = Len(ids) /\ DOMAIN ids = 1 .. Len(ids) /\ DOMAIN s = 1 .. Len(s)
  BY <1>1
<1>3. /\ Take(ids, k) \in Seq(Nat)
      /\ Len(Take(ids, k)) = IF k < Len(ids) THEN k ELSE Len(ids)
      /\ \A n \in DOMAIN Take(ids, k) : Take(ids, k)[n] = ids[n]
  BY <1>1, TakePrefix
<1>4. DOMAIN Take(ids, k) = { i \in 1 .. k : i <= Len(ids) }
  <2>1. DOMAIN Take(ids, k) = 1 .. Len(Take(ids, k))
    BY <1>3
  <2> QED
    BY <1>2, <1>3, <2>1
<1>5. IsFiniteSet(hits)
  <2>1. hits \in SUBSET (1 .. k)
    OBVIOUS
  <2> QED
    BY <2>1, UpTo, FS_Subset
<1>6. at \in Bijection(hits, top)
  <2>1. \A i \in hits : i \in DOMAIN Take(ids, k) /\ i \in DOMAIN ids
    BY <1>2, <1>4
  <2>2. at \in [hits -> top]
    BY <1>3, <2>1 DEF ToSet
  <2>3. \A i, j \in hits : at[i] = at[j] => i = j
    BY <1>1, <2>1 DEF IsInjective
  <2>4. \A x \in top : \E i \in hits : at[i] = x
    BY <1>3, <1>4 DEF ToSet
  <2> HIDE DEF at, hits, top
  <2> QED
    BY <2>2, <2>3, <2>4 DEF Bijection, Injection, Surjection, IsInjective
<1>7. Cardinality(top) = Cardinality(hits)
  <2> HIDE DEF at, hits, top
  <2>1. ExistsBijection(hits, top)
    BY <1>6 DEF ExistsBijection
  <2> QED
    BY <1>5, <2>1, FS_Bijection
<1>8. hits = { i \in 1 .. k : i <= Len(s) /\ s[i].id \in relevant }
  BY <1>1, <1>2
<1> QED
  BY <1>5, <1>7, <1>8 DEF recall_at_k, ids

\* MeasuresPassages: the recall and the MRR of a question (evals/metrics.py) count
\* the passages that were quoted and found, and miss one of these only if its filing
\* was re-ingested after its reference was resolved (resolve_refs); for any corpus,
\* any golden questions, any answer of the searches and re-ingestion at any time.
THEOREM PassagesMeasured == EvalSpec => []MeasuresPassages
<1>1. ASSUME EInv PROVE MeasuresPassages
  <2> DEFINE retrieved == Ids(results)
             Fresh(i)  == Passage(results[i]).filing \notin stale
             Quote(i)  == Passage(results[i]) \in ToSet(query.refs)
             top(k)    == { i \in 1 .. k : i <= Len(results) }
             found(k)  == { i \in top(k) : Quote(i) /\ Fresh(i) }
             hits(k)   == { i \in 1 .. k : i <= Len(retrieved) /\ retrieved[i] \in relevant }
  <2> SUFFICES ASSUME pc = "done", query.refs # <<>>, NEW k \in 1 .. query.k
               PROVE  /\ Cardinality(found(k)) <= recall_at_k(retrieved, k)
                      /\ recall_at_k(retrieved, k) <= Cardinality({ i \in top(k) : Quote(i) })
                      /\ recall_at_k(retrieved, k) <= Cardinality(relevant)
                      /\ mrr_at_k(retrieved, k) = 0 <=> recall_at_k(retrieved, k) = 0
                      /\ mrr_at_k(retrieved, k) > 0 =>
                           Quote(mrr_at_k(retrieved, k))
                           /\ \A i \in found(k) : mrr_at_k(retrieved, k) <= i
    BY DEF MeasuresPassages
  <2>1. IInv /\ InvOrder /\ InvRelevant /\ TypeOK /\ InvResults
    BY <1>1 DEF EInv, IInv
  <2>2. results \in Seq(Chunk) /\ IsInjective(Ids(results)) /\ query.k \in Nat
    BY <2>1, RequestParameters DEF InvResults, TypeOK
  <2>3. k \in Nat
    BY <2>2
  <2>4. /\ hits(k) = { i \in 1 .. k : i <= Len(results) /\ results[i].id \in relevant }
        /\ IsFiniteSet(hits(k))
        /\ recall_at_k(retrieved, k) = Cardinality(hits(k))
    BY <2>2, <2>3, RecallIs
  <2>5. mrr_at_k(retrieved, k) = IF hits(k) = {} THEN 0 ELSE Min(hits(k))
    BY DEF mrr_at_k
  <2>6. recall_at_k(retrieved, k) <= Cardinality(relevant)
    <3>1. relevant \in SUBSET (1 .. MaxId) /\ MaxId \in Nat
      BY <2>1, Parameters DEF InvRelevant
    <3>2. IsFiniteSet(relevant)
      BY <3>1, UpTo, FS_Subset
    <3> QED
      BY <3>2, FS_Subset DEF recall_at_k
  <2> HIDE DEF retrieved
  <2>7. \A i \in top(k) : results[i] \in Seen
    <3>1. \A i \in top(k) : i \in DOMAIN results
      BY <2>2
    <3> QED
      BY <3>1 DEF Seen, ToSet
  <2>8. unresolved = <<>> /\ ToSet(unresolved) = {}
    <3>1. unresolved = <<>>
      BY <2>1 DEF InvOrder
    <3> QED
      BY <3>1 DEF ToSet
  <2>9. found(k) \subseteq hits(k)
    BY <2>1, <2>4, <2>7, <2>8 DEF InvRelevant, Resolved, Quoting
  <2>10. hits(k) \subseteq { i \in top(k) : Quote(i) }
    BY <2>1, <2>4, <2>7 DEF InvRelevant, Quoting
  <2>11. /\ Cardinality(found(k)) <= Cardinality(hits(k))
         /\ Cardinality(hits(k)) <= Cardinality({ i \in top(k) : Quote(i) })
    <3>1. { i \in top(k) : Quote(i) } \in SUBSET (1 .. k)
      OBVIOUS
    <3>2. IsFiniteSet({ i \in top(k) : Quote(i) })
      BY <2>3, <3>1, UpTo, FS_Subset
    <3> HIDE DEF found, hits, top, Quote
    <3> QED
      BY <2>4, <2>9, <2>10, <3>2, FS_Subset
  <2>12. hits(k) # {} => /\ Min(hits(k)) \in hits(k)
                         /\ \A i \in hits(k) : Min(hits(k)) <= i
    <3>1. hits(k) \in SUBSET Nat
      BY <2>3
    <3> HIDE DEF hits
    <3> QED
      BY <3>1, LeastNatural DEF Min
  <2>13. hits(k) \subseteq Nat \ {0}
    BY <2>3
  <2>14. Cardinality(hits(k)) = 0 <=> hits(k) = {}
    BY <2>4, FS_EmptySet
  <2> HIDE DEF hits, found, top, Fresh
  <2>15. Min(hits(k)) > 0 \/ hits(k) = {}
    BY <2>12, <2>13
  <2>16. hits(k) # {} => Quote(Min(hits(k))) /\ \A i \in found(k) : Min(hits(k)) <= i
    BY <2>9, <2>10, <2>12
  <2> HIDE DEF Quote
  <2> QED
    BY <2>4, <2>5, <2>6, <2>11, <2>14, <2>15, <2>16
<1> QED
  BY <1>1, EvalInvAlways, PTL

=============================================================================
