-------------------------- MODULE FilingTextProofs --------------------------
(***************************************************************************)
(* Proofs about the sections and chunks of a filing, for any blocks, any   *)
(* sizes of them and any limits.                                           *)
(***************************************************************************)
EXTENDS FilingText, SequenceTheorems, WellFoundedInduction, TLAPS

-----------------------------------------------------------------------------
(***************************************************************************)
(* Induction over the turns of a loop.  The set of the turns at which a    *)
(* formula holds takes the place of the formula.                           *)
(***************************************************************************)

\* What holds before the first turn of n, and is kept by each, holds after each.
LEMMA TurnByTurn ==
  ASSUME NEW n \in Nat, NEW good, 0 \in good,
         \A k \in 0 .. n - 1 : k \in good => k + 1 \in good
  PROVE  \A k \in 0 .. n : k \in good
<1> DEFINE R   == OpToRel(<, Nat)
           bad == { k \in 0 .. n : k \notin good }
<1>1. IsWellFoundedOn(R, Nat)
  BY NatLessThanWellFounded
<1>2. R = { ss \in Nat \X Nat : ss[1] < ss[2] }
  BY DEF OpToRel
<1> HIDE DEF R
<1>3. SUFFICES ASSUME bad # {} PROVE FALSE
  OBVIOUS
<1>4. bad \in SUBSET Nat
  OBVIOUS
<1> HIDE DEF bad
<1>5. PICK m \in bad : \A k \in bad : <<k, m>> \notin R
  BY <1>1, <1>3, <1>4, WFMin
<1>6. m \in 0 .. n /\ m \notin good
  BY <1>5 DEF bad
<1>7. m - 1 \in 0 .. n - 1
  BY <1>6
<1>8. m - 1 \notin bad
  <2>1. <<m - 1, m>> \in R
    BY <1>2, <1>6, <1>7
  <2> QED
    BY <1>5, <2>1
<1>9. m - 1 \in good
  BY <1>7, <1>8 DEF bad
<1>10. (m - 1) + 1 = m
  BY <1>6
<1> QED
  BY <1>6, <1>7, <1>9, <1>10

\* g takes the value of f at i - 1 to that at i.
Iterates(f, base, g, n) == f[0] = base /\ \A i \in 1 .. n : f[i] = g[<<i, f[i - 1]>>]

\* There is such a recursive function.
LEMMA IterationExists ==
  ASSUME NEW n \in Nat, NEW V, NEW base \in V, NEW g \in [Nat \X V -> V]
  PROVE  \E f \in [0 .. n -> V] : Iterates(f, base, g, n)
<1> DEFINE good == { k \in 0 .. n : \E f \in [0 .. k -> V] : Iterates(f, base, g, k) }
<1>1. 0 \in good
  <2> DEFINE h == [i \in 0 .. 0 |-> base]
  <2>1. Iterates(h, base, g, 0) /\ h \in [0 .. 0 -> V]
    BY DEF Iterates
  <2> HIDE DEF h
  <2> QED
    BY <2>1
<1>2. ASSUME NEW k \in 0 .. n - 1, k \in good
      PROVE  k + 1 \in good
  <2>1. PICK f \in [0 .. k -> V] : Iterates(f, base, g, k)
    BY <1>2
  <2> DEFINE h == [i \in 0 .. k + 1 |-> IF i = k + 1 THEN g[<<k + 1, f[k]>>] ELSE f[i]]
  <2>2. h \in [0 .. k + 1 -> V]
    OBVIOUS
  <2>3. h[0] = base
    BY <2>1 DEF Iterates
  <2>4. h[k + 1] = g[<<k + 1, f[k]>>]
    OBVIOUS
  <2>5. \A i \in 0 .. k : h[i] = f[i]
    OBVIOUS
  <2> HIDE DEF h
  <2>6. ASSUME NEW i \in 1 .. k + 1 PROVE h[i] = g[<<i, h[i - 1]>>]
    <3>1. CASE i = k + 1
      <4>1. i - 1 = k
        BY <3>1
      <4> QED
        BY <2>4, <2>5, <3>1, <4>1
    <3>2. CASE i # k + 1
      <4>1. i \in 1 .. k /\ i \in 0 .. k /\ i - 1 \in 0 .. k
        BY <3>2
      <4> QED
        BY <2>1, <2>5, <4>1 DEF Iterates
    <3> QED
      BY <3>1, <3>2
  <2>7. Iterates(h, base, g, k + 1) /\ k + 1 \in 0 .. n
    BY <2>3, <2>6 DEF Iterates
  <2> QED
    BY <2>2, <2>7
<1>3. n \in good
  <2> HIDE DEF good
  <2>1. \A k \in 0 .. n - 1 : k \in good => k + 1 \in good
    BY <1>2
  <2>2. \A k \in 0 .. n : k \in good
    BY <1>1, <2>1, TurnByTurn
  <2> QED
    BY <2>2
<1> QED
  BY <1>3

-----------------------------------------------------------------------------
(***************************************************************************)
(* FlattenSeq.                                                             *)
(***************************************************************************)

\* The functions that FlattenSeq chooses from.
Flattens(f, ss) ==
  f = [i \in 1 .. Len(ss) |-> IF i = 1 THEN ss[i] ELSE f[i - 1] \o ss[i]]

\* FlattenSeq is a recursive function over the places of the sequence.
LEMMA FlattenFunction ==
  ASSUME NEW T, NEW ss \in Seq(Seq(T)), ss # <<>>
  PROVE  \E f : /\ Flattens(f, ss)
                /\ FlattenSeq(ss) = f[Len(ss)]
<1> DEFINE n == Len(ss)
           V == Seq(T)
           g == [p \in Nat \X V |-> IF p[1] \in 1 .. n THEN p[2] \o ss[p[1]] ELSE <<>>]
<1>1. n \in Nat /\ n # 0
  OBVIOUS
<1>2. g \in [Nat \X V -> V]
  OBVIOUS
<1>3. <<>> \in V
  OBVIOUS
<1> HIDE DEF n, g, V
<1>4. PICK f \in [0 .. n -> V] : Iterates(f, <<>>, g, n)
  BY <1>1, <1>2, <1>3, IterationExists
<1> DEFINE h == [i \in 1 .. n |-> f[i]]
<1>5. Flattens(h, ss)
  <2>1. ASSUME NEW i \in 1 .. n PROVE h[i] = IF i = 1 THEN ss[i] ELSE h[i - 1] \o ss[i]
    <3>1. f[i - 1] \in V /\ i \in Nat
      BY <1>1
    <3>2. f[i] = f[i - 1] \o ss[i]
      BY <1>4, <3>1 DEF g, Iterates
    <3>3. ss[i] \in V
      BY DEF n, V
    <3>4. CASE i = 1
      <4>1. f[i - 1] = <<>>
        BY <1>4, <3>4 DEF Iterates
      <4>2. f[i] = ss[i]
        BY <3>2, <3>3, <4>1 DEF V
      <4> QED
        BY <3>4, <4>2
    <3>5. CASE i # 1
      <4>1. i - 1 \in 1 .. n
        BY <1>1, <3>5
      <4> QED
        BY <3>2, <3>5, <4>1
    <3> QED
      BY <3>4, <3>5
  <2>2. h = [i \in 1 .. n |-> IF i = 1 THEN ss[i] ELSE h[i - 1] \o ss[i]]
    <3>1. \A i \in 1 .. n : h[i] = IF i = 1 THEN ss[i] ELSE h[i - 1] \o ss[i]
      BY <2>1
    <3>2. h = [i \in 1 .. n |-> h[i]]
      OBVIOUS
    <3> HIDE DEF h
    <3> QED
      BY <3>1, <3>2
  <2> QED
    BY <2>2 DEF Flattens, n
<1> DEFINE F == CHOOSE e : e = [i \in 1 .. Len(ss) |-> IF i = 1 THEN ss[i] ELSE e[i - 1] \o ss[i]]
<1>6. FlattenSeq(ss) = F[Len(ss)]
  BY <1>1 DEF FlattenSeq, n
<1>7. F = [i \in 1 .. Len(ss) |-> IF i = 1 THEN ss[i] ELSE F[i - 1] \o ss[i]]
  <2> HIDE DEF h
  <2>1. h = [i \in 1 .. Len(ss) |-> IF i = 1 THEN ss[i] ELSE h[i - 1] \o ss[i]]
    BY <1>5 DEF Flattens
  <2> QED
    BY <2>1
<1> QED
  BY <1>6, <1>7 DEF Flattens

\* Its value at a place, from that at the place before.
LEMMA FlattensAt ==
  ASSUME NEW f, NEW ss, Flattens(f, ss), NEW i \in 1 .. Len(ss)
  PROVE  f[i] = IF i = 1 THEN ss[i] ELSE f[i - 1] \o ss[i]
<1> DEFINE h == [j \in 1 .. Len(ss) |-> IF j = 1 THEN ss[j] ELSE f[j - 1] \o ss[j]]
<1>1. f = h
  BY DEF Flattens
<1>2. h[i] = IF i = 1 THEN ss[i] ELSE f[i - 1] \o ss[i]
  OBVIOUS
<1> HIDE DEF h
<1> QED
  BY <1>1, <1>2

\* Joining and appending associate.
LEMMA AppendConcat ==
  ASSUME NEW T, NEW s \in Seq(T), NEW t \in Seq(T), NEW e \in T
  PROVE  s \o Append(t, e) = Append(s \o t, e)
<1>1. s \o t \in Seq(T) /\ <<e>> \in Seq(T)
  OBVIOUS
<1>2. Append(t, e) = t \o <<e>> /\ Append(s \o t, e) = (s \o t) \o <<e>>
  BY <1>1, AppendIsConcat
<1>3. (s \o t) \o <<e>> = s \o (t \o <<e>>)
  BY <1>1, ConcatAssociative
<1> QED
  BY <1>2, <1>3

\* The first n values are the same.
SameUpTo(ss, tt, n) ==
  n <= Len(ss) /\ n <= Len(tt) /\ \A i \in 1 .. n : ss[i] = tt[i]

Agree(f, e, n, S) == \A i \in 1 .. n : f[i] \in S /\ e[i] = f[i]

\* Flattening sequences that begin alike begins alike.
LEMMA FlattensAgree ==
  ASSUME NEW T, NEW ss \in Seq(Seq(T)), NEW tt \in Seq(Seq(T)), NEW f, NEW e,
         Flattens(f, ss), Flattens(e, tt), NEW n \in Nat, SameUpTo(ss, tt, n)
  PROVE  Agree(f, e, n, Seq(T))
<1> SUFFICES \A i \in 1 .. n : f[i] \in Seq(T) /\ e[i] = f[i]
  BY DEF Agree
<1> USE DEF SameUpTo
<1> DEFINE good == { k \in 0 .. n : k = 0 \/ (f[k] \in Seq(T) /\ e[k] = f[k]) }
<1>0. n \in Nat /\ Len(ss) \in Nat /\ Len(tt) \in Nat
  OBVIOUS
<1>1. \A i \in 1 .. n : f[i] = IF i = 1 THEN ss[i] ELSE f[i - 1] \o ss[i]
  <2> TAKE i \in 1 .. n
  <2>1. i \in 1 .. Len(ss)
    BY <1>0
  <2> QED
    BY <2>1, FlattensAt
<1>2. \A i \in 1 .. n : e[i] = IF i = 1 THEN tt[i] ELSE e[i - 1] \o tt[i]
  <2> TAKE i \in 1 .. n
  <2>1. i \in 1 .. Len(tt)
    BY <1>0
  <2> QED
    BY <2>1, FlattensAt
<1>3. \A i \in 1 .. n : ss[i] \in Seq(T)
  OBVIOUS
<1>4. ASSUME NEW k \in 0 .. n - 1, k \in good PROVE k + 1 \in good
  <2>1. k + 1 \in 1 .. n /\ k + 1 \in 0 .. n
    OBVIOUS
  <2>2. CASE k = 0
    <3>1. f[1] = ss[1] /\ e[1] = tt[1] /\ 1 \in 1 .. n /\ 1 \in 0 .. n
      BY <1>1, <1>2, <2>1, <2>2
    <3>2. f[1] \in Seq(T) /\ e[1] = f[1]
      BY <1>3, <3>1
    <3> QED
      BY <2>2, <3>1, <3>2
  <2>3. CASE k # 0
    <3>1. f[k] \in Seq(T) /\ e[k] = f[k]
      BY <1>4, <2>3
    <3>2. k + 1 # 1 /\ (k + 1) - 1 = k
      BY <2>3
    <3>3. f[k + 1] = f[k] \o ss[k + 1] /\ e[k + 1] = e[k] \o tt[k + 1]
      BY <1>1, <1>2, <2>1, <3>2
    <3>4. ss[k + 1] \in Seq(T) /\ ss[k + 1] = tt[k + 1]
      BY <1>3, <2>1
    <3>5. f[k + 1] \in Seq(T) /\ e[k + 1] = f[k + 1]
      BY <3>1, <3>3, <3>4
    <3> QED
      BY <2>1, <3>5
  <2> QED
    BY <2>2, <2>3
<1>5. \A k \in 0 .. n : k \in good
  <2>1. 0 \in good
    OBVIOUS
  <2> HIDE DEF good
  <2>2. \A k \in 0 .. n - 1 : k \in good => k + 1 \in good
    BY <1>4
  <2> QED
    BY <2>1, <2>2, TurnByTurn
<1> QED
  BY <1>5

\* The flattened sequence of a longer one, and of nothing.
LEMMA FlattenAppend ==
  ASSUME NEW T, NEW ss \in Seq(Seq(T)), NEW x \in Seq(T)
  PROVE  FlattenSeq(Append(ss, x)) = FlattenSeq(ss) \o x
<1> DEFINE tt == Append(ss, x)
           n  == Len(ss)
<1>1. /\ tt \in Seq(Seq(T)) /\ tt # <<>> /\ Len(tt) = n + 1 /\ n \in Nat
      /\ tt[n + 1] = x
      /\ \A i \in 1 .. n : ss[i] = tt[i]
  BY AppendProperties
<1>0. n = Len(ss)
  OBVIOUS
<1> HIDE DEF tt, n
<1>2. PICK e : Flattens(e, tt) /\ FlattenSeq(tt) = e[Len(tt)]
  BY <1>1, FlattenFunction
<1>3. e[n + 1] = IF n + 1 = 1 THEN x ELSE e[n] \o x
  <2>1. n + 1 \in 1 .. Len(tt) /\ (n + 1) - 1 = n
    BY <1>1
  <2> QED
    BY <1>1, <1>2, <2>1, FlattensAt
<1>4. CASE ss = <<>>
  <2>1. FlattenSeq(tt) = x
    BY <1>0, <1>1, <1>2, <1>3, <1>4
  <2>2. FlattenSeq(ss) = <<>>
    BY <1>4 DEF FlattenSeq
  <2> QED
    BY <2>1, <2>2 DEF tt
<1>5. CASE ss # <<>>
  <2>1. PICK f : Flattens(f, ss) /\ FlattenSeq(ss) = f[n]
    BY <1>0, <1>5, FlattenFunction
  <2>2. \A i \in 1 .. n : f[i] \in Seq(T) /\ e[i] = f[i]
    <3>1. tt \in Seq(Seq(T)) /\ n \in Nat /\ SameUpTo(ss, tt, n)
      BY <1>0, <1>1 DEF SameUpTo
    <3>2. Agree(f, e, n, Seq(T))
      BY <1>2, <2>1, <3>1, FlattensAgree
    <3> QED
      BY <3>2 DEF Agree
  <2>3. n \in 1 .. n /\ n + 1 # 1
    BY <1>0, <1>1, <1>5
  <2>4. e[n + 1] = f[n] \o x
    BY <1>3, <2>2, <2>3
  <2>5. FlattenSeq(tt) = f[n] \o x
    BY <1>1, <1>2, <2>4
  <2> QED
    BY <2>1, <2>5 DEF tt
<1> QED
  BY <1>4, <1>5

\* Nothing, flattened, is nothing.
LEMMA FlattenEmpty == FlattenSeq(<<>>) = <<>>
  BY DEF FlattenSeq

\* Sequences of a kind, flattened, are of that kind.
LEMMA FlattenType ==
  ASSUME NEW T, NEW ss \in Seq(Seq(T))
  PROVE  FlattenSeq(ss) \in Seq(T)
<1>1. CASE ss = <<>>
  BY <1>1, FlattenEmpty, EmptySeq
<1>2. CASE ss # <<>>
  <2>1. PICK f : Flattens(f, ss) /\ FlattenSeq(ss) = f[Len(ss)]
    BY <1>2, FlattenFunction
  <2>2. Len(ss) \in Nat /\ Len(ss) \in 1 .. Len(ss)
    BY <1>2
  <2>3. Agree(f, f, Len(ss), Seq(T))
    <3>1. SameUpTo(ss, ss, Len(ss))
      BY <2>2 DEF SameUpTo
    <3> QED
      BY <2>1, <2>2, <3>1, FlattensAgree
  <2> QED
    BY <2>1, <2>2, <2>3 DEF Agree
<1> QED
  BY <1>1, <1>2

\* A turn of a loop over ss.
LEMMA FlattenTurn ==
  ASSUME NEW T, NEW ss \in Seq(Seq(T)), NEW k \in 0 .. Len(ss) - 1
  PROVE  FlattenSeq(SubSeq(ss, 1, k + 1)) = FlattenSeq(SubSeq(ss, 1, k)) \o ss[k + 1]
<1>1. SubSeq(ss, 1, k) \in Seq(Seq(T)) /\ ss[k + 1] \in Seq(T)
  OBVIOUS
<1>2. SubSeq(ss, 1, k + 1) = Append(SubSeq(ss, 1, k), ss[k + 1])
  OBVIOUS
<1> QED
  BY <1>1, <1>2, FlattenAppend

\* Flattening goes over concatenation.
LEMMA FlattenConcat ==
  ASSUME NEW T, NEW ss \in Seq(Seq(T)), NEW tt \in Seq(Seq(T))
  PROVE  FlattenSeq(ss \o tt) = FlattenSeq(ss) \o FlattenSeq(tt)
<1> DEFINE S    == Seq(T)
           n    == Len(tt)
           to(k) == SubSeq(tt, 1, k)
           good == { k \in 0 .. n : FlattenSeq(ss \o to(k)) = FlattenSeq(ss) \o FlattenSeq(to(k)) }
<1>0. FlattenSeq(ss) \in Seq(T)
  BY FlattenType
<1>1. 0 \in good
  <2>1. to(0) = <<>> /\ ss \o <<>> = ss /\ 0 \in 0 .. n
    OBVIOUS
  <2>2. FlattenSeq(ss) \o <<>> = FlattenSeq(ss)
    BY <1>0
  <2> QED
    BY <2>1, <2>2, FlattenEmpty
<1>2. ASSUME NEW k \in 0 .. n - 1, k \in good PROVE k + 1 \in good
  <2>1. to(k) \in Seq(Seq(T)) /\ tt[k + 1] \in Seq(T) /\ ss \o to(k) \in Seq(Seq(T)) /\ k + 1 \in 0 .. n
    OBVIOUS
  <2>2. to(k + 1) = Append(to(k), tt[k + 1])
    OBVIOUS
  <2> HIDE DEF to
  <2>3. ss \o to(k + 1) = Append(ss \o to(k), tt[k + 1])
    <3>1. ss \in Seq(S) /\ to(k) \in Seq(S) /\ tt[k + 1] \in S
      BY <2>1
    <3> HIDE DEF S
    <3>2. ss \o Append(to(k), tt[k + 1]) = Append(ss \o to(k), tt[k + 1])
      BY <3>1, AppendConcat
    <3> QED
      BY <2>2, <3>2
  <2>4. FlattenSeq(ss \o to(k + 1)) = FlattenSeq(ss \o to(k)) \o tt[k + 1]
    BY <2>1, <2>3, FlattenAppend
  <2>5. FlattenSeq(to(k + 1)) = FlattenSeq(to(k)) \o tt[k + 1]
    BY <2>1, <2>2, FlattenAppend
  <2>6. FlattenSeq(to(k)) \in Seq(T)
    BY <2>1, FlattenType
  <2>7. FlattenSeq(ss \o to(k)) = FlattenSeq(ss) \o FlattenSeq(to(k))
    BY <1>2
  <2>8. FlattenSeq(ss \o to(k + 1)) = FlattenSeq(ss) \o FlattenSeq(to(k + 1))
    <3>1. (FlattenSeq(ss) \o FlattenSeq(to(k))) \o tt[k + 1]
            = FlattenSeq(ss) \o (FlattenSeq(to(k)) \o tt[k + 1])
      <4> DEFINE a == FlattenSeq(ss)
                 b == FlattenSeq(to(k))
                 c == tt[k + 1]
      <4>1. a \in Seq(T) /\ b \in Seq(T) /\ c \in Seq(T)
        BY <1>0, <2>1, <2>6
      <4> HIDE DEF a, b, c
      <4>2. (a \o b) \o c = a \o (b \o c)
        BY <4>1
      <4> QED
        BY <4>2 DEF a, b, c
    <3> QED
      BY <2>4, <2>5, <2>7, <3>1
  <2> QED
    BY <2>1, <2>8
<1>3. n \in good
  <2>0. n \in Nat
    OBVIOUS
  <2> HIDE DEF good, n
  <2>1. \A k \in 0 .. n - 1 : k \in good => k + 1 \in good
    BY <1>2
  <2>2. \A k \in 0 .. n : k \in good
    BY <1>1, <2>0, <2>1, TurnByTurn
  <2> QED
    BY <2>0, <2>2
<1>4. to(n) = tt
  OBVIOUS
<1> QED
  BY <1>3, <1>4

-----------------------------------------------------------------------------
(***************************************************************************)
(* Flattening what a function makes of the elements of a sequence.         *)
(***************************************************************************)

\* A function on 1 .. n is a sequence.
LEMMA FunctionSeq ==
  ASSUME NEW n \in Nat, NEW S, NEW f \in [1 .. n -> S]
  PROVE  f \in Seq(S) /\ Len(f) = n
  OBVIOUS

\* As an operator, it is one word to the provers.
Maps(A, B) == [A -> B]

Mapped(g, s) == [i \in DOMAIN s |-> g[s[i]]]

Units(g, s) == FlattenSeq(Mapped(g, s))

\* Mapping keeps the length and goes element by element.
LEMMA MappedType ==
  ASSUME NEW A, NEW B, NEW g \in Maps(A, B), NEW s \in Seq(A)
  PROVE  /\ Mapped(g, s) \in Seq(B)
         /\ Len(Mapped(g, s)) = Len(s)
         /\ \A i \in 1 .. Len(s) : Mapped(g, s)[i] = g[s[i]]
<1>1. DOMAIN s = 1 .. Len(s) /\ Len(s) \in Nat /\ \A i \in 1 .. Len(s) : s[i] \in A
  OBVIOUS
<1>2. Mapped(g, s) = [i \in 1 .. Len(s) |-> g[s[i]]]
  BY <1>1 DEF Mapped
<1>3. Mapped(g, s) \in [1 .. Len(s) -> B]
  BY <1>1, <1>2 DEF Maps
<1>4. Mapped(g, s) \in Seq(B) /\ Len(Mapped(g, s)) = Len(s)
  BY <1>1, <1>3, FunctionSeq
<1> QED
  BY <1>2, <1>4

\* It goes over Append.
LEMMA MappedAppend ==
  ASSUME NEW A, NEW B, NEW g \in Maps(A, B), NEW s \in Seq(A), NEW x \in A
  PROVE  Mapped(g, Append(s, x)) = Append(Mapped(g, s), g[x])
<1> DEFINE t == Append(s, x)
           u == Mapped(g, s)
           v == Mapped(g, t)
           w == Append(u, g[x])
<1>1. /\ t \in Seq(A) /\ Len(t) = Len(s) + 1 /\ Len(s) \in Nat
      /\ \A i \in 1 .. Len(s) : t[i] = s[i]
      /\ t[Len(s) + 1] = x
  BY AppendProperties
<1>2. u \in Seq(B) /\ Len(u) = Len(s) /\ \A i \in 1 .. Len(s) : u[i] = g[s[i]]
  BY MappedType
<1>3. v \in Seq(B) /\ Len(v) = Len(s) + 1 /\ \A i \in 1 .. Len(s) + 1 : v[i] = g[t[i]]
  <2> HIDE DEF t
  <2> QED
    BY <1>1, MappedType
<1>4. g[x] \in B
  BY DEF Maps
<1> HIDE DEF t, u, v
<1>5. /\ w \in Seq(B) /\ Len(w) = Len(s) + 1
      /\ \A i \in 1 .. Len(s) : w[i] = u[i]
      /\ w[Len(s) + 1] = g[x]
  BY <1>2, <1>4, AppendProperties
<1> HIDE DEF w
<1>6. ASSUME NEW i \in 1 .. Len(s) + 1 PROVE v[i] = w[i]
  <2>1. CASE i \in 1 .. Len(s)
    BY <1>1, <1>2, <1>3, <1>5, <2>1
  <2>2. CASE i \notin 1 .. Len(s)
    <3>1. i = Len(s) + 1
      BY <1>1, <2>2
    <3> QED
      BY <1>1, <1>3, <1>5, <3>1
  <2> QED
    BY <2>1, <2>2
<1>7. v = w
  BY <1>3, <1>5, <1>6, SeqEqual
<1> QED
  BY <1>7 DEF t, u, v, w

\* And over concatenation.
LEMMA MappedConcat ==
  ASSUME NEW A, NEW B, NEW g \in Maps(A, B), NEW s \in Seq(A), NEW t \in Seq(A)
  PROVE  Mapped(g, s \o t) = Mapped(g, s) \o Mapped(g, t)
<1> DEFINE st == s \o t
           u  == Mapped(g, s)
           v  == Mapped(g, t)
           w  == Mapped(g, st)
           uv == u \o v
<1>1. /\ st \in Seq(A) /\ Len(st) = Len(s) + Len(t) /\ Len(s) \in Nat /\ Len(t) \in Nat
      /\ \A i \in 1 .. Len(s) + Len(t) : st[i] = IF i <= Len(s) THEN s[i] ELSE t[i - Len(s)]
  OBVIOUS
<1>2. /\ u \in Seq(B) /\ Len(u) = Len(s) /\ \A i \in 1 .. Len(s) : u[i] = g[s[i]]
      /\ v \in Seq(B) /\ Len(v) = Len(t) /\ \A i \in 1 .. Len(t) : v[i] = g[t[i]]
  BY MappedType
<1>3. w \in Seq(B) /\ Len(w) = Len(s) + Len(t) /\ \A i \in 1 .. Len(s) + Len(t) : w[i] = g[st[i]]
  <2> HIDE DEF st
  <2> QED
    BY <1>1, MappedType
<1> HIDE DEF st, u, v, w
<1>4. /\ uv \in Seq(B) /\ Len(uv) = Len(s) + Len(t)
      /\ \A i \in 1 .. Len(s) + Len(t) : uv[i] = IF i <= Len(s) THEN u[i] ELSE v[i - Len(s)]
  <2>1. u \in Seq(B) /\ v \in Seq(B) /\ Len(u) = Len(s) /\ Len(v) = Len(t)
    BY <1>2
  <2> QED
    BY <2>1
<1> HIDE DEF uv
<1>5. ASSUME NEW i \in 1 .. Len(s) + Len(t) PROVE w[i] = uv[i]
  <2>1. CASE i <= Len(s)
    <3>1. i \in 1 .. Len(s)
      BY <1>1, <2>1
    <3>2. uv[i] = g[s[i]] /\ w[i] = g[st[i]] /\ st[i] = s[i]
      BY <1>1, <1>2, <1>3, <1>4, <2>1, <3>1
    <3> QED
      BY <3>2
  <2>2. CASE ~(i <= Len(s))
    <3>1. i - Len(s) \in 1 .. Len(t)
      BY <1>1, <2>2
    <3>2. uv[i] = v[i - Len(s)] /\ w[i] = g[st[i]] /\ st[i] = t[i - Len(s)]
      BY <1>1, <1>3, <1>4, <2>2
    <3>3. v[i - Len(s)] = g[t[i - Len(s)]]
      BY <1>2, <3>1
    <3> QED
      BY <3>2, <3>3
  <2> QED
    BY <2>1, <2>2
<1>6. w = uv
  BY <1>3, <1>4, <1>5, SeqEqual
<1> QED
  BY <1>6 DEF st, u, v, w, uv

\* The units of a sequence are of the kind of those of its elements.
LEMMA UnitsType ==
  ASSUME NEW A, NEW T, NEW g \in Maps(A, Seq(T)), NEW s \in Seq(A)
  PROVE  Units(g, s) \in Seq(T)
<1> DEFINE B == Seq(T)
<1>1. g \in Maps(A, B)
  OBVIOUS
<1> HIDE DEF B
<1>2. Mapped(g, s) \in Seq(B)
  BY <1>1, MappedType
<1> QED
  BY <1>2, FlattenType DEF Units, B

\* Nothing has no units.
LEMMA UnitsEmpty ==
  ASSUME NEW g
  PROVE  Units(g, <<>>) = <<>>
<1>1. Mapped(g, <<>>) = <<>>
  BY DEF Mapped
<1> QED
  BY <1>1, FlattenEmpty DEF Units

\* One element more adds its units.
LEMMA UnitsAppend ==
  ASSUME NEW A, NEW T, NEW g \in Maps(A, Seq(T)), NEW s \in Seq(A), NEW x \in A
  PROVE  Units(g, Append(s, x)) = Units(g, s) \o g[x]
<1> DEFINE B == Seq(T)
<1>1. g \in Maps(A, B) /\ g[x] \in B
  BY DEF Maps
<1> HIDE DEF B
<1>2. Mapped(g, s) \in Seq(B) /\ Mapped(g, Append(s, x)) = Append(Mapped(g, s), g[x])
  BY <1>1, MappedType, MappedAppend
<1>3. Mapped(g, s) \in Seq(Seq(T)) /\ g[x] \in Seq(T)
  BY <1>1, <1>2 DEF B
<1>4. FlattenSeq(Append(Mapped(g, s), g[x])) = FlattenSeq(Mapped(g, s)) \o g[x]
  BY <1>3, FlattenAppend
<1> QED
  BY <1>2, <1>4 DEF Units

\* The units of two sequences in a row.
LEMMA UnitsConcat ==
  ASSUME NEW A, NEW T, NEW g \in Maps(A, Seq(T)), NEW s \in Seq(A), NEW t \in Seq(A)
  PROVE  Units(g, s \o t) = Units(g, s) \o Units(g, t)
<1> DEFINE B == Seq(T)
<1>1. g \in Maps(A, B)
  OBVIOUS
<1> HIDE DEF B
<1>2. /\ Mapped(g, s) \in Seq(B) /\ Mapped(g, t) \in Seq(B)
      /\ Mapped(g, s \o t) = Mapped(g, s) \o Mapped(g, t)
  BY <1>1, MappedType, MappedConcat
<1>3. Mapped(g, s) \in Seq(Seq(T)) /\ Mapped(g, t) \in Seq(Seq(T))
  BY <1>2 DEF B
<1>4. FlattenSeq(Mapped(g, s) \o Mapped(g, t)) = FlattenSeq(Mapped(g, s)) \o FlattenSeq(Mapped(g, t))
  BY <1>3, FlattenConcat
<1> QED
  BY <1>2, <1>4 DEF Units

\* A turn of a loop over s.
LEMMA UnitsTurn ==
  ASSUME NEW A, NEW T, NEW g \in Maps(A, Seq(T)), NEW s \in Seq(A), NEW k \in 0 .. Len(s) - 1
  PROVE  Units(g, SubSeq(s, 1, k + 1)) = Units(g, SubSeq(s, 1, k)) \o g[s[k + 1]]
<1>1. SubSeq(s, 1, k) \in Seq(A) /\ s[k + 1] \in A
  OBVIOUS
<1>2. SubSeq(s, 1, k + 1) = Append(SubSeq(s, 1, k), s[k + 1])
  OBVIOUS
<1>3. Units(g, Append(SubSeq(s, 1, k), s[k + 1])) = Units(g, SubSeq(s, 1, k)) \o g[s[k + 1]]
  BY <1>1, UnitsAppend
<1> QED
  BY <1>2, <1>3

LastReplaced(s, x) == [s EXCEPT ![Len(s)] = x]

HasMore(g, s, x, more) == s # <<>> /\ g[x] = g[s[Len(s)]] \o more

\* The last element replaced by one that has more.
LEMMA UnitsExtend ==
  ASSUME NEW A, NEW T, NEW g \in Maps(A, Seq(T)), NEW s \in Seq(A),
         NEW x \in A, NEW more \in Seq(T), HasMore(g, s, x, more)
  PROVE  Units(g, LastReplaced(s, x)) = Units(g, s) \o more
<1> USE DEF HasMore
<1> DEFINE n     == Len(s)
           front == SubSeq(s, 1, n - 1)
           last  == s[n]
<1>1. n \in Nat /\ n # 0 /\ front \in Seq(A) /\ last \in A
  OBVIOUS
<1>2. s = Append(front, last)
  OBVIOUS
<1>3. [s EXCEPT ![n] = x] = Append(front, x)
  <2> DEFINE e == [s EXCEPT ![n] = x]
             d == Append(front, x)
  <2>1. e \in Seq(A) /\ Len(e) = n /\ \A j \in 1 .. n : e[j] = IF j = n THEN x ELSE s[j]
    <3>1. n \in 1 .. Len(s)
      BY <1>1
    <3> QED
      BY <3>1, ExceptSeq
  <2>2. d \in Seq(A) /\ Len(d) = n /\ \A j \in 1 .. n : d[j] = IF j = n THEN x ELSE s[j]
    <3>1. Len(front) = n - 1 /\ \A j \in 1 .. n - 1 : front[j] = s[j]
      <4>1. n - 1 \in Nat /\ n - 1 <= Len(s)
        BY <1>1
      <4>2. SubSeq(s, 1, n - 1) = [j \in 1 .. n - 1 |-> s[j]]
        BY <1>1 DEF SubSeq
      <4> HIDE DEF n
      <4> QED
        BY <1>1, <4>1, <4>2
    <3> HIDE DEF front, n
    <3> QED
      BY <1>1, <3>1
  <2> HIDE DEF e, d, n
  <2>3. \A j \in 1 .. Len(e) : e[j] = d[j]
    BY <2>1, <2>2
  <2>4. e = d
    BY <2>1, <2>2, <2>3, SeqEqual
  <2> QED
    BY <2>4 DEF e, d
<1> HIDE DEF front, last
<1>4. Units(g, s) = Units(g, front) \o g[last]
  <2>1. Units(g, Append(front, last)) = Units(g, front) \o g[last]
    BY <1>1, UnitsAppend
  <2> QED
    BY <1>2, <2>1
<1>5. Units(g, [s EXCEPT ![n] = x]) = Units(g, front) \o g[x]
  <2>1. Units(g, Append(front, x)) = Units(g, front) \o g[x]
    BY <1>1, UnitsAppend
  <2> QED
    BY <1>3, <2>1
<1> DEFINE a == Units(g, front)
           b == g[last]
<1>6. a \in Seq(T) /\ b \in Seq(T) /\ g[x] = b \o more
  <2>1. b \in Seq(T) /\ g[x] = b \o more
    BY <1>1 DEF last, Maps
  <2>2. a \in Seq(T)
    BY <1>1, UnitsType
  <2> QED
    BY <2>1, <2>2
<1> HIDE DEF a, b
<1>7. a \o (b \o more) = (a \o b) \o more
  BY <1>6
<1> QED
  BY <1>4, <1>5, <1>6, <1>7 DEF a, b, LastReplaced

-----------------------------------------------------------------------------
(***************************************************************************)
(* The inductive invariant.                                                *)
(***************************************************************************)

Section == [item : Nat, heading : Seq(Block), blocks : Seq(Block)]

Proto == [is_table : BOOLEAN, body : Piece]

Chunk == [item : Nat, is_table : BOOLEAN, body : Piece]

TypeOK ==
  /\ pc \in {"parse", "pack", "merge", "embed"}
  /\ turn \in Nat
  /\ blocks \in Seq(Block)
  /\ sections \in Seq(Section)
  /\ last_idx \in Nat
  /\ sec \in Nat
  /\ parts \in Seq(Piece)
  /\ protos \in Seq(Proto)
  /\ merged \in Seq(Proto)
  /\ chunks \in Seq(Chunk)

\* The loops stay within what they run over.
InRange ==
  /\ sections # <<>>
  /\ pc = "parse" => turn <= Len(blocks)
  /\ pc \in {"pack", "merge"} => sec \in 1 .. Len(sections)
  /\ pc = "pack" => turn <= Len(sections[sec].blocks)
  /\ pc = "merge" => turn <= Len(protos)

\* The headings ascend, and last_idx is the last and the greatest seen.
InOrder ==
  /\ \A s, t \in DOMAIN sections : s < t => sections[s].item < sections[t].item
  /\ sections[1].item = 0
  /\ last_idx = sections[Len(sections)].item
  /\ pc = "parse" => \A p \in 1 .. turn : match_item_heading(blocks[p]) <= last_idx

\* CutAtRecords(n) of any blocks and sections.
IsRecord(bs, p) ==
  /\ match_item_heading(bs[p]) > 0
  /\ \A q \in 1 .. p - 1 : match_item_heading(bs[p]) > match_item_heading(bs[q])

RecordsIn(bs, n) == { p \in 1 .. n : IsRecord(bs, p) }

\* Section s goes on to the block before the start of the next.
Stop(start, k, s, n) == IF s = k THEN n + 1 ELSE start[s + 1]

CutHere(start, bs, ss, n, s) ==
  /\ start[s] < Stop(start, Len(ss), s, n)
  /\ ss[s].blocks = SubSeq(bs, start[s] + 1, Stop(start, Len(ss), s, n) - 1)
  /\ s > 1 => ss[s].item = match_item_heading(bs[start[s]])

CutBy(start, bs, ss, n) ==
  /\ start \in [1 .. Len(ss) -> {0} \cup RecordsIn(bs, n)]
  /\ start[1] = 0
  /\ \A p \in RecordsIn(bs, n) : \E s \in 1 .. Len(ss) : start[s] = p
  /\ \A s \in 1 .. Len(ss) : CutHere(start, bs, ss, n, s)

IsCut(bs, ss, n) == \E start : CutBy(start, bs, ss, n)

CutSoFar == IsCut(blocks, sections, IF pc = "parse" THEN turn ELSE Len(blocks))

\* What SizesHaveCause says of the length of a text; a table has a header.
TextBody(body) ==
  /\ body.header = <<>>
  /\ \/ Len(body.units) = 1
     \/ body.len < 9 * TargetTokens
     \/ approx_tokens(body) <= MaxTokens + MergeSlack + 2

Sound(proto) == IF proto.is_table THEN proto.body.header # <<>> ELSE TextBody(proto.body)

AllTextBodies(bodies) == \A j \in 1 .. Len(bodies) : TextBody(bodies[j])

AllSound(ps) == \A p \in 1 .. Len(ps) : Sound(ps[p])

BodiesSound ==
  /\ AllTextBodies(parts)
  /\ AllSound(protos)
  /\ AllSound(merged)
  /\ AllSound(chunks)

\* The units of one piece, and of a sequence of pieces; the same of the others.
Unit == Nat \X Seq(Text) \X Seq(Text)

TagUnder(item, header) == [p \in Piece |-> Tag(item, header, p.units)]

TagProto(item) == [p \in Proto |-> Tag(item, p.body.header, p.body.units)]

TagChunk == [c \in Chunk |-> ChunkUnits(c)]

TagBlock(item) == [b \in Block |-> BlockUnits(item, b)]

TagSection == [s \in Section |-> SectionUnits(s)]

UnitsUnder(item, header, bodies) == Units(TagUnder(item, header), bodies)

ProtoUnits(item, ps) == Units(TagProto(item), ps)

AllChunkUnits(cs) == Units(TagChunk, cs)

AllBlockUnits(item, bs) == Units(TagBlock(item), bs)

AllSectionUnits(ss) == Units(TagSection, ss)

\* What the loops have taken is what they have put out.
UnitsSoFar ==
  /\ pc \in {"parse", "pack"} => merged = <<>>
  /\ pc = "parse" => parts = <<>> /\ protos = <<>> /\ chunks = <<>>
  /\ pc \in {"merge", "embed"} => parts = <<>>
  /\ pc = "pack" =>
       ProtoUnits(sections[sec].item, protos) \o UnitsUnder(sections[sec].item, <<>>, parts)
         = AllBlockUnits(sections[sec].item, SubSeq(sections[sec].blocks, 1, turn))
  /\ pc = "merge" =>
       /\ ProtoUnits(sections[sec].item, protos) = SectionUnits(sections[sec])
       /\ ProtoUnits(sections[sec].item, merged)
            = ProtoUnits(sections[sec].item, SubSeq(protos, 1, turn))
  /\ pc \in {"pack", "merge"} =>
       AllChunkUnits(chunks) = AllSectionUnits(SubSeq(sections, 1, sec - 1))
  /\ pc = "embed" => AllChunkUnits(chunks) = AllSectionUnits(sections)

\* Why the text at m of merged may be small.
Cause(ps, m) ==
  \/ approx_tokens(ps[m].body) >= MinMergeTokens
  \/ m = 1
  \/ ps[m - 1].is_table
  \/ approx_tokens(ps[m - 1].body) + approx_tokens(ps[m].body) > MaxTokens + MergeSlack

Causes ==
  /\ \A m \in DOMAIN merged : ~merged[m].is_table => Cause(merged, m)
  /\ \A c \in DOMAIN chunks :
       ~chunks[c].is_table => Cause(chunks, c) \/ chunks[c - 1].item # chunks[c].item
  /\ pc \in {"pack", "merge"} =>
       \A c \in DOMAIN chunks : chunks[c].item < sections[sec].item

IInv ==
  /\ TypeOK
  /\ InRange
  /\ InOrder
  /\ CutSoFar
  /\ BodiesSound
  /\ UnitsSoFar
  /\ Causes

-----------------------------------------------------------------------------
(***************************************************************************)
(* Pieces: Glue, Join and Packed.                                          *)
(***************************************************************************)

\* approx_tokens is at least one, and a quarter of the length, rounded down.
LEMMA TokensOfPiece ==
  ASSUME NEW p \in Piece
  PROVE  /\ approx_tokens(p) \in Nat
         /\ approx_tokens(p) >= 1
         /\ p.len <= 4 * approx_tokens(p) + 3
         /\ p.len < 4 \/ 4 * approx_tokens(p) <= p.len
  BY DEF approx_tokens, Piece

\* Of a piece as long as two and what is between them.
LEMMA TokensOfTwo ==
  ASSUME NEW p \in Piece, NEW q \in Piece, NEW r \in Piece, r.len = p.len + 2 + q.len
  PROVE  /\ approx_tokens(r) >= approx_tokens(p)
         /\ approx_tokens(r) <= approx_tokens(p) + approx_tokens(q) + 2
<1> DEFINE k == p.len
           l == q.len
           m == r.len
<1>1. k \in Nat /\ l \in Nat /\ m \in Nat /\ m = k + 2 + l
  BY DEF Piece
<1>2. /\ approx_tokens(p) = IF k < 4 THEN 1 ELSE k \div 4
      /\ approx_tokens(q) = IF l < 4 THEN 1 ELSE l \div 4
      /\ approx_tokens(r) = IF m < 4 THEN 1 ELSE m \div 4
  BY DEF approx_tokens
<1> HIDE DEF k, l, m
<1>3. /\ k \div 4 \in Nat /\ 4 * (k \div 4) <= k /\ k <= 4 * (k \div 4) + 3
      /\ l \div 4 \in Nat /\ 4 * (l \div 4) <= l /\ l <= 4 * (l \div 4) + 3
      /\ m \div 4 \in Nat /\ 4 * (m \div 4) <= m /\ m <= 4 * (m \div 4) + 3
  BY <1>1
<1> DEFINE kd == k \div 4
           ld == l \div 4
           md == m \div 4
<1> HIDE DEF kd, ld, md
<1>4. /\ kd \in Nat /\ 4 * kd <= k /\ k <= 4 * kd + 3
      /\ ld \in Nat /\ 4 * ld <= l /\ l <= 4 * ld + 3
      /\ md \in Nat /\ 4 * md <= m /\ m <= 4 * md + 3
      /\ approx_tokens(p) = IF k < 4 THEN 1 ELSE kd
      /\ approx_tokens(q) = IF l < 4 THEN 1 ELSE ld
      /\ approx_tokens(r) = IF m < 4 THEN 1 ELSE md
  BY <1>2, <1>3 DEF kd, ld, md
<1> QED
  BY <1>1, <1>4

\* What Glue makes of two pieces.
LEMMA GlueType ==
  ASSUME NEW p \in Piece, NEW q \in Piece, NEW n \in Nat
  PROVE  /\ Glue(p, q, n) \in Piece
         /\ Glue(p, q, n).len = p.len + n + q.len
         /\ Glue(p, q, n).header = p.header \o q.header
         /\ Glue(p, q, n).units = p.units \o q.units
  BY DEF Glue, Piece

\* The functions that Join chooses from.
Joins(f, pieces, n) ==
  f = [i \in 1 .. Len(pieces) |-> IF i = 1 THEN pieces[1] ELSE Glue(f[i - 1], pieces[i], n)]

\* Join is a recursive function over the places of its pieces.
LEMMA JoinFunction ==
  ASSUME NEW pieces \in Seq(Piece), pieces # <<>>, NEW n \in Nat
  PROVE  \E f : Joins(f, pieces, n) /\ Join(pieces, n) = f[Len(pieces)]
<1> DEFINE k == Len(pieces)
           g == [p \in Nat \X Piece |->
                   IF p[1] = 1 \/ p[1] \notin 1 .. k THEN pieces[1] ELSE Glue(p[2], pieces[p[1]], n)]
<1>1. k \in Nat /\ k # 0 /\ 1 \in 1 .. k
  OBVIOUS
<1>2. \A i \in 1 .. k : pieces[i] \in Piece
  OBVIOUS
<1> HIDE DEF k
<1>3. g \in [Nat \X Piece -> Piece]
  <2>1. ASSUME NEW p \in Nat \X Piece
        PROVE  (IF p[1] = 1 \/ p[1] \notin 1 .. k THEN pieces[1] ELSE Glue(p[2], pieces[p[1]], n)) \in Piece
    <3>1. CASE p[1] = 1 \/ p[1] \notin 1 .. k
      BY <1>1, <1>2, <3>1
    <3>2. CASE ~(p[1] = 1 \/ p[1] \notin 1 .. k)
      <4>1. p[2] \in Piece /\ pieces[p[1]] \in Piece
        BY <1>2, <3>2
      <4> QED
        BY <3>2, <4>1, GlueType
    <3> QED
      BY <3>1, <3>2
  <2> QED
    BY <2>1
<1> HIDE DEF g
<1>4. PICK f \in [0 .. k -> Piece] : Iterates(f, pieces[1], g, k)
  BY <1>1, <1>2, <1>3, IterationExists
<1> DEFINE h == [i \in 1 .. k |-> f[i]]
<1>5. \A i \in 1 .. k : h[i] = IF i = 1 THEN pieces[1] ELSE Glue(h[i - 1], pieces[i], n)
  <2> TAKE i \in 1 .. k
  <2>1. i \in Nat /\ f[i - 1] \in Piece /\ f[i] = g[<<i, f[i - 1]>>]
    BY <1>1, <1>4 DEF Iterates
  <2>2. f[i] = IF i = 1 THEN pieces[1] ELSE Glue(f[i - 1], pieces[i], n)
    BY <2>1 DEF g
  <2>3. i # 1 => i - 1 \in 1 .. k
    BY <1>1
  <2>4. i # 1 => h[i - 1] = f[i - 1]
    BY <2>3
  <2> QED
    BY <2>2, <2>4
<1>6. h = [i \in 1 .. k |-> h[i]]
  OBVIOUS
<1> HIDE DEF h
<1>7. h = [i \in 1 .. k |-> IF i = 1 THEN pieces[1] ELSE Glue(h[i - 1], pieces[i], n)]
  BY <1>5, <1>6
<1> DEFINE F == CHOOSE e : e = [i \in 1 .. Len(pieces) |->
                                 IF i = 1 THEN pieces[1] ELSE Glue(e[i - 1], pieces[i], n)]
<1>8. Join(pieces, n) = F[Len(pieces)]
  BY DEF Join
<1>9. F = [i \in 1 .. Len(pieces) |-> IF i = 1 THEN pieces[1] ELSE Glue(F[i - 1], pieces[i], n)]
  <2>1. h = [i \in 1 .. Len(pieces) |-> IF i = 1 THEN pieces[1] ELSE Glue(h[i - 1], pieces[i], n)]
    BY <1>7 DEF k
  <2> QED
    BY <2>1
<1> QED
  BY <1>8, <1>9 DEF Joins

\* Its value at a place, from that at the place before.
LEMMA JoinsAt ==
  ASSUME NEW f, NEW pieces, NEW n, Joins(f, pieces, n), NEW i \in 1 .. Len(pieces)
  PROVE  f[i] = IF i = 1 THEN pieces[1] ELSE Glue(f[i - 1], pieces[i], n)
<1> DEFINE h == [j \in 1 .. Len(pieces) |->
                   IF j = 1 THEN pieces[1] ELSE Glue(f[j - 1], pieces[j], n)]
<1>1. f = h
  BY DEF Joins
<1>2. h[i] = IF i = 1 THEN pieces[1] ELSE Glue(f[i - 1], pieces[i], n)
  OBVIOUS
<1> HIDE DEF h
<1> QED
  BY <1>1, <1>2

\* What a packing loop has after a piece, and the functions Packed chooses from.
Took(acc, p, start, limit, n) ==
  LET top == Len(acc.parts)
  IN  IF acc.parts = <<>> \/ acc.tokens + approx_tokens(p) > limit
        THEN [parts |-> Append(acc.parts, p), tokens |-> start + approx_tokens(p)]
        ELSE [parts  |-> [acc.parts EXCEPT ![top] = Glue(@, p, n)],
              tokens |-> acc.tokens + approx_tokens(p)]

Packs(f, pieces, start, limit, n) ==
  f = [i \in 0 .. Len(pieces) |->
         IF i = 0 THEN [parts |-> <<>>, tokens |-> start]
         ELSE Took(f[i - 1], pieces[i], start, limit, n)]

Accs == [parts : Seq(Piece), tokens : Nat]

\* A turn of the packing loop keeps the kinds of buf and buf_tokens.
LEMMA TookType ==
  ASSUME NEW acc \in Accs, NEW p \in Piece, NEW start \in Nat, NEW limit \in Nat, NEW n \in Nat
  PROVE  Took(acc, p, start, limit, n) \in Accs
<1>1. approx_tokens(p) \in Nat
  BY TokensOfPiece
<1>2. acc.parts \in Seq(Piece) /\ acc.tokens \in Nat
  BY DEF Accs
<1> DEFINE top == Len(acc.parts)
<1>3. CASE acc.parts = <<>> \/ acc.tokens + approx_tokens(p) > limit
  <2>1. Append(acc.parts, p) \in Seq(Piece) /\ start + approx_tokens(p) \in Nat
    BY <1>1, <1>2
  <2> QED
    BY <1>3, <2>1 DEF Took, Accs
<1>4. CASE ~(acc.parts = <<>> \/ acc.tokens + approx_tokens(p) > limit)
  <2>1. top \in 1 .. Len(acc.parts) /\ acc.parts[top] \in Piece
    BY <1>2, <1>4
  <2>2. Glue(acc.parts[top], p, n) \in Piece
    BY <2>1, GlueType
  <2>3. [acc.parts EXCEPT ![top] = Glue(acc.parts[top], p, n)] \in Seq(Piece)
    BY <1>2, <2>1, <2>2, ExceptSeq
  <2>4. Took(acc, p, start, limit, n)
          = [parts  |-> [acc.parts EXCEPT ![top] = Glue(acc.parts[top], p, n)],
             tokens |-> acc.tokens + approx_tokens(p)]
    BY <1>4 DEF Took
  <2> QED
    BY <1>1, <1>2, <2>3, <2>4 DEF Accs
<1> QED
  BY <1>3, <1>4

\* Packed is a recursive function over the places of its pieces.
LEMMA PackedFunction ==
  ASSUME NEW pieces \in Seq(Piece), NEW start \in Nat, NEW limit \in Nat, NEW n \in Nat
  PROVE  \E f : /\ Packs(f, pieces, start, limit, n)
                /\ Packed(pieces, start, limit, n) = f[Len(pieces)].parts
<1> DEFINE k    == Len(pieces)
           base == [parts |-> <<>>, tokens |-> start]
           g    == [p \in Nat \X Accs |->
                      IF p[1] \in 1 .. k THEN Took(p[2], pieces[p[1]], start, limit, n) ELSE base]
<1>1. k \in Nat /\ \A i \in 1 .. k : pieces[i] \in Piece
  OBVIOUS
<1>2. base \in Accs
  BY DEF Accs
<1> HIDE DEF k
<1>3. g \in [Nat \X Accs -> Accs]
  <2> HIDE DEF base
  <2>1. ASSUME NEW p \in Nat \X Accs
        PROVE  (IF p[1] \in 1 .. k THEN Took(p[2], pieces[p[1]], start, limit, n) ELSE base) \in Accs
    <3>1. CASE p[1] \in 1 .. k
      <4>1. p[2] \in Accs /\ pieces[p[1]] \in Piece
        BY <1>1, <3>1
      <4> QED
        BY <3>1, <4>1, TookType
    <3>2. CASE p[1] \notin 1 .. k
      BY <1>2, <3>2
    <3> QED
      BY <3>1, <3>2
  <2> QED
    BY <2>1
<1> HIDE DEF g, base
<1>4. PICK f \in [0 .. k -> Accs] : Iterates(f, base, g, k)
  BY <1>1, <1>2, <1>3, IterationExists
<1>5. ASSUME NEW i \in 0 .. k
      PROVE  f[i] = IF i = 0 THEN base ELSE Took(f[i - 1], pieces[i], start, limit, n)
  <2>1. CASE i = 0
    BY <1>4, <2>1 DEF Iterates
  <2>2. CASE i # 0
    <3>1. i \in 1 .. k /\ i \in Nat /\ i - 1 \in 0 .. k
      BY <1>1, <2>2
    <3>2. f[i] = g[<<i, f[i - 1]>>] /\ f[i - 1] \in Accs
      BY <1>4, <3>1 DEF Iterates
    <3>3. f[i] = Took(f[i - 1], pieces[i], start, limit, n)
      BY <3>1, <3>2 DEF g
    <3> QED
      BY <2>2, <3>3
  <2> QED
    BY <2>1, <2>2
<1>6. f = [i \in 0 .. k |-> f[i]]
  OBVIOUS
<1>7. f = [i \in 0 .. k |-> IF i = 0 THEN base ELSE Took(f[i - 1], pieces[i], start, limit, n)]
  BY <1>5, <1>6
<1>8. Packs(f, pieces, start, limit, n)
  BY <1>7 DEF Packs, k, base
<1> DEFINE F == CHOOSE e : Packs(e, pieces, start, limit, n)
<1>9. Packs(F, pieces, start, limit, n)
  BY <1>8
<1>10. Packed(pieces, start, limit, n) = F[Len(pieces)].parts
  BY DEF Packed, Packs, Took
<1> HIDE DEF F
<1> QED
  BY <1>9, <1>10

\* Its value at a place, from that at the place before: a turn of the loop.
LEMMA PacksAt ==
  ASSUME NEW f, NEW pieces, NEW start, NEW limit, NEW n, Packs(f, pieces, start, limit, n),
         NEW i \in 0 .. Len(pieces)
  PROVE  f[i] = IF i = 0 THEN [parts |-> <<>>, tokens |-> start]
                ELSE Took(f[i - 1], pieces[i], start, limit, n)
<1> DEFINE h == [j \in 0 .. Len(pieces) |->
                   IF j = 0 THEN [parts |-> <<>>, tokens |-> start]
                   ELSE Took(f[j - 1], pieces[j], start, limit, n)]
<1>1. f = h
  BY DEF Packs
<1>2. h[i] = IF i = 0 THEN [parts |-> <<>>, tokens |-> start]
             ELSE Took(f[i - 1], pieces[i], start, limit, n)
  OBVIOUS
<1> HIDE DEF h
<1> QED
  BY <1>1, <1>2

-----------------------------------------------------------------------------
(***************************************************************************)
(* The units of pieces.                                                    *)
(***************************************************************************)

\* Tagging keeps the length and goes unit by unit.
LEMMA TagType ==
  ASSUME NEW item \in Nat, NEW h \in Seq(Text), NEW u \in Seq(Seq(Text))
  PROVE  /\ Tag(item, h, u) \in Seq(Unit)
         /\ Len(Tag(item, h, u)) = Len(u)
         /\ \A i \in 1 .. Len(u) : Tag(item, h, u)[i] = <<item, h, u[i]>>
<1>1. DOMAIN u = 1 .. Len(u) /\ Len(u) \in Nat /\ \A i \in 1 .. Len(u) : u[i] \in Seq(Text)
  OBVIOUS
<1>2. Tag(item, h, u) = [i \in 1 .. Len(u) |-> <<item, h, u[i]>>]
  BY <1>1 DEF Tag
<1>3. \A i \in 1 .. Len(u) : <<item, h, u[i]>> \in Unit
  BY <1>1 DEF Unit
<1>4. Tag(item, h, u) \in [1 .. Len(u) -> Unit]
  BY <1>2, <1>3
<1>5. Tag(item, h, u) \in Seq(Unit) /\ Len(Tag(item, h, u)) = Len(u)
  BY <1>1, <1>4, FunctionSeq
<1> QED
  BY <1>2, <1>5

\* It goes over concatenation.
LEMMA TagConcat ==
  ASSUME NEW item \in Nat, NEW h \in Seq(Text), NEW u \in Seq(Seq(Text)), NEW v \in Seq(Seq(Text))
  PROVE  Tag(item, h, u \o v) = Tag(item, h, u) \o Tag(item, h, v)
<1> DEFINE a == Tag(item, h, u)
           b == Tag(item, h, v)
           c == Tag(item, h, u \o v)
<1>1. u \o v \in Seq(Seq(Text)) /\ Len(u \o v) = Len(u) + Len(v) /\ Len(u) \in Nat /\ Len(v) \in Nat
  OBVIOUS
<1>2. a \in Seq(Unit) /\ b \in Seq(Unit) /\ c \in Seq(Unit)
  BY <1>1, TagType
<1>3. Len(a) = Len(u) /\ Len(b) = Len(v) /\ Len(c) = Len(u) + Len(v)
  BY <1>1, TagType
<1>4. Len(a \o b) = Len(u) + Len(v) /\ a \o b \in Seq(Unit)
  <2> HIDE DEF a, b, c
  <2> QED
    BY <1>2, <1>3
<1>5. ASSUME NEW i \in 1 .. Len(u) + Len(v) PROVE c[i] = (a \o b)[i]
  <2>1. c[i] = <<item, h, (u \o v)[i]>>
    BY <1>1, TagType
  <2>2. CASE i <= Len(u)
    <3>1. i \in 1 .. Len(u) /\ (u \o v)[i] = u[i]
      BY <1>1, <2>2
    <3>2. a[i] = <<item, h, u[i]>>
      BY <3>1, TagType
    <3>3. (a \o b)[i] = a[i]
      BY <1>2, <1>3, <3>1
    <3> QED
      BY <2>1, <3>1, <3>2, <3>3
  <2>3. CASE i > Len(u)
    <3>1. i - Len(u) \in 1 .. Len(v) /\ (u \o v)[i] = v[i - Len(u)]
      BY <1>1, <2>3
    <3>2. b[i - Len(u)] = <<item, h, v[i - Len(u)]>>
      BY <3>1, TagType
    <3>3. (a \o b)[i] = b[i - Len(u)]
      BY <1>1, <1>2, <1>3, <2>3, <3>1
    <3> QED
      BY <2>1, <3>1, <3>2, <3>3
  <2>4. i <= Len(u) \/ i > Len(u)
    BY <1>1
  <2> HIDE DEF a, b, c
  <2> QED
    BY <2>2, <2>3, <2>4
<1> HIDE DEF a, b, c
<1>6. c = a \o b
  BY <1>2, <1>3, <1>4, <1>5, SeqEqual
<1> QED
  BY <1>6 DEF a, b, c

\* The units of one piece under a header, as a function.
LEMMA TagUnderMaps ==
  ASSUME NEW item \in Nat, NEW h \in Seq(Text)
  PROVE  /\ TagUnder(item, h) \in Maps(Piece, Seq(Unit))
         /\ \A p \in Piece : TagUnder(item, h)[p] = Tag(item, h, p.units)
<1>1. ASSUME NEW p \in Piece PROVE Tag(item, h, p.units) \in Seq(Unit)
  <2>1. p.units \in Seq(Seq(Text))
    BY DEF Piece
  <2> QED
    BY <2>1, TagType
<1> QED
  BY <1>1 DEF TagUnder, Maps

\* Those of one body, as a function.
LEMMA TagProtoMaps ==
  ASSUME NEW item \in Nat
  PROVE  /\ TagProto(item) \in Maps(Proto, Seq(Unit))
         /\ \A p \in Proto : TagProto(item)[p] = Tag(item, p.body.header, p.body.units)
<1>1. ASSUME NEW p \in Proto PROVE Tag(item, p.body.header, p.body.units) \in Seq(Unit)
  <2>1. p.body.units \in Seq(Seq(Text)) /\ p.body.header \in Seq(Text)
    BY DEF Piece, Proto
  <2> QED
    BY <2>1, TagType
<1> QED
  BY <1>1 DEF TagProto, Maps

\* Those of one chunk, as a function.
LEMMA TagChunkMaps ==
  /\ TagChunk \in Maps(Chunk, Seq(Unit))
  /\ \A c \in Chunk : TagChunk[c] = Tag(c.item, c.body.header, c.body.units)
<1>1. ASSUME NEW c \in Chunk
      PROVE  ChunkUnits(c) = Tag(c.item, c.body.header, c.body.units) /\ ChunkUnits(c) \in Seq(Unit)
  <2>1. c.item \in Nat /\ c.body.units \in Seq(Seq(Text)) /\ c.body.header \in Seq(Text)
    BY DEF Piece, Chunk
  <2> QED
    BY <2>1, TagType DEF ChunkUnits
<1> QED
  BY <1>1 DEF TagChunk, Maps

\* What a line of a block is.
LEMMA LineType ==
  ASSUME NEW block \in Block, NEW l \in 1 .. Len(block.lines)
  PROVE  block.lines[l].len \in Nat /\ block.lines[l].texts \in Seq(Text)
<1>1. block.lines \in Seq(TextLine)
  BY DEF Block
<1>2. block.lines[l] \in TextLine
  BY <1>1
<1> QED
  BY <1>2 DEF TextLine

\* What a block is.
LEMMA BlockType ==
  ASSUME NEW block \in Block
  PROVE  /\ block.lines \in Seq(TextLine)
         /\ Len(block.lines) \in Nat
         /\ Len(block.lines) >= 1
         /\ block.kind \in {"text", "table"}
         /\ block.item \in Nat
         /\ block.kind = "table" => Len(block.lines) > 2 /\ block.lines[1].texts # <<>>
<1>1. block.lines \in Seq(TextLine) /\ block.lines # <<>>
  BY DEF Block
<1>2. Len(block.lines) \in Nat /\ Len(block.lines) >= 1
  BY <1>1
<1> QED
  BY <1>1, <1>2 DEF Block

\* The units of one block, as a function.
LEMMA TagBlockMaps ==
  ASSUME NEW item \in Nat
  PROVE  /\ TagBlock(item) \in Maps(Block, Seq(Unit))
         /\ \A b \in Block : TagBlock(item)[b] = BlockUnits(item, b)
<1>1. ASSUME NEW b \in Block PROVE BlockUnits(item, b) \in Seq(Unit)
  <2>1. b.lines \in Seq(TextLine) /\ Len(b.lines) \in Nat
    BY BlockType
  <2>2. \A l \in 1 .. Len(b.lines) : b.lines[l].texts \in Seq(Text)
    BY LineType
  <2>3. CASE b.kind = "text"
    <3>1. <<>> \in Seq(Text)
      OBVIOUS
    <3>2. \A l \in 1 .. Len(b.lines) : <<item, <<>>, b.lines[l].texts>> \in Unit
      BY <2>2, <3>1 DEF Unit
    <3>3. DOMAIN b.lines = 1 .. Len(b.lines)
      BY <2>1
    <3>4. BlockUnits(item, b) = [l \in 1 .. Len(b.lines) |-> <<item, <<>>, b.lines[l].texts>>]
      BY <2>3, <3>3 DEF BlockUnits
    <3>5. BlockUnits(item, b) \in [1 .. Len(b.lines) -> Unit]
      BY <3>2, <3>4
    <3> QED
      BY <2>1, <3>5, FunctionSeq
  <2>4. CASE b.kind # "text"
    <3> DEFINE n == Len(b.lines) - 2
    <3>1. b.kind = "table"
      BY <2>4, BlockType
    <3>2. Len(b.lines) > 2
      BY <3>1, BlockType
    <3>3. n \in Nat /\ 1 \in 1 .. Len(b.lines) /\ \A l \in 1 .. n : l + 2 \in 1 .. Len(b.lines)
      BY <2>1, <3>2
    <3>4. \A l \in 1 .. n : <<item, b.lines[1].texts, b.lines[l + 2].texts>> \in Unit
      BY <2>2, <3>3 DEF Unit
    <3>5. BlockUnits(item, b) = [l \in 1 .. n |-> <<item, b.lines[1].texts, b.lines[l + 2].texts>>]
      BY <2>4 DEF BlockUnits
    <3> HIDE DEF n
    <3>6. BlockUnits(item, b) \in [1 .. n -> Unit]
      BY <3>4, <3>5
    <3> QED
      BY <3>3, <3>6, FunctionSeq
  <2> QED
    BY <2>3, <2>4
<1> QED
  BY <1>1 DEF TagBlock, Maps

\* Those of a section are those of its blocks.
LEMMA SectionUnitsAre ==
  ASSUME NEW section \in Section
  PROVE  SectionUnits(section) = AllBlockUnits(section.item, section.blocks)
<1>1. section.item \in Nat /\ section.blocks \in Seq(Block)
  BY DEF Section
<1>2. DOMAIN section.blocks = 1 .. Len(section.blocks)
      /\ \A b \in 1 .. Len(section.blocks) : section.blocks[b] \in Block
  BY <1>1
<1>3. \A b \in 1 .. Len(section.blocks) :
        TagBlock(section.item)[section.blocks[b]] = BlockUnits(section.item, section.blocks[b])
  BY <1>1, <1>2, TagBlockMaps
<1>4. Mapped(TagBlock(section.item), section.blocks)
        = [b \in 1 .. Len(section.blocks) |-> BlockUnits(section.item, section.blocks[b])]
  BY <1>2, <1>3 DEF Mapped
<1> QED
  BY <1>2, <1>4 DEF SectionUnits, AllBlockUnits, Units

\* Those of one section, as a function.
LEMMA TagSectionMaps ==
  /\ TagSection \in Maps(Section, Seq(Unit))
  /\ \A s \in Section : TagSection[s] = AllBlockUnits(s.item, s.blocks)
<1>1. ASSUME NEW s \in Section
      PROVE  SectionUnits(s) = AllBlockUnits(s.item, s.blocks) /\ SectionUnits(s) \in Seq(Unit)
  <2>1. s.item \in Nat /\ s.blocks \in Seq(Block)
    BY DEF Section
  <2>2. AllBlockUnits(s.item, s.blocks) \in Seq(Unit)
    <3>1. TagBlock(s.item) \in Maps(Block, Seq(Unit))
      BY <2>1, TagBlockMaps
    <3> QED
      BY <2>1, <3>1, UnitsType DEF AllBlockUnits
  <2> QED
    BY <2>2, SectionUnitsAre
<1> QED
  BY <1>1 DEF TagSection, Maps

\* What ChunksKeepText compares.
LEMMA AllUnitsAre ==
  ASSUME NEW cs \in Seq(Chunk), NEW ss \in Seq(Section)
  PROVE  /\ FlattenSeq([c \in DOMAIN cs |-> ChunkUnits(cs[c])]) = AllChunkUnits(cs)
         /\ FlattenSeq([s \in DOMAIN ss |-> SectionUnits(ss[s])]) = AllSectionUnits(ss)
<1>1. \A c \in DOMAIN cs : cs[c] \in Chunk
  OBVIOUS
<1>2. [c \in DOMAIN cs |-> ChunkUnits(cs[c])] = Mapped(TagChunk, cs)
  BY <1>1 DEF Mapped, TagChunk
<1>3. \A s \in DOMAIN ss : ss[s] \in Section
  OBVIOUS
<1>4. [s \in DOMAIN ss |-> SectionUnits(ss[s])] = Mapped(TagSection, ss)
  BY <1>3 DEF Mapped, TagSection
<1> QED
  BY <1>2, <1>4 DEF AllChunkUnits, AllSectionUnits, Units

-----------------------------------------------------------------------------
(***************************************************************************)
(* What Join and Packed keep of the pieces.                                *)
(***************************************************************************)

\* UnitsType, of pieces under a header.
LEMMA UnderType ==
  ASSUME NEW item \in Nat, NEW h \in Seq(Text), NEW s \in Seq(Piece)
  PROVE  UnitsUnder(item, h, s) \in Seq(Unit)
<1>1. TagUnder(item, h) \in Maps(Piece, Seq(Unit))
  BY TagUnderMaps
<1> QED
  BY <1>1, UnitsType DEF UnitsUnder

\* UnitsEmpty, of pieces.
LEMMA UnderEmpty ==
  ASSUME NEW item, NEW h
  PROVE  UnitsUnder(item, h, <<>>) = <<>>
  BY UnitsEmpty DEF UnitsUnder

\* UnitsAppend, of pieces.
LEMMA UnderAppend ==
  ASSUME NEW item \in Nat, NEW h \in Seq(Text), NEW s \in Seq(Piece), NEW p \in Piece
  PROVE  UnitsUnder(item, h, Append(s, p)) = UnitsUnder(item, h, s) \o Tag(item, h, p.units)
<1>1. TagUnder(item, h) \in Maps(Piece, Seq(Unit)) /\ TagUnder(item, h)[p] = Tag(item, h, p.units)
  BY TagUnderMaps
<1>2. Units(TagUnder(item, h), Append(s, p)) = Units(TagUnder(item, h), s) \o TagUnder(item, h)[p]
  BY <1>1, UnitsAppend
<1> QED
  BY <1>1, <1>2 DEF UnitsUnder

\* UnitsConcat, of pieces.
LEMMA UnderConcat ==
  ASSUME NEW item \in Nat, NEW h \in Seq(Text), NEW s \in Seq(Piece), NEW t \in Seq(Piece)
  PROVE  UnitsUnder(item, h, s \o t) = UnitsUnder(item, h, s) \o UnitsUnder(item, h, t)
<1>1. TagUnder(item, h) \in Maps(Piece, Seq(Unit))
  BY TagUnderMaps
<1> QED
  BY <1>1, UnitsConcat DEF UnitsUnder

\* UnitsTurn, of pieces.
LEMMA UnderTurn ==
  ASSUME NEW item \in Nat, NEW h \in Seq(Text), NEW s \in Seq(Piece), NEW k \in 0 .. Len(s) - 1
  PROVE  UnitsUnder(item, h, SubSeq(s, 1, k + 1))
           = UnitsUnder(item, h, SubSeq(s, 1, k)) \o Tag(item, h, s[k + 1].units)
<1>1. SubSeq(s, 1, k) \in Seq(Piece) /\ s[k + 1] \in Piece
  OBVIOUS
<1>2. SubSeq(s, 1, k + 1) = Append(SubSeq(s, 1, k), s[k + 1])
  OBVIOUS
<1> QED
  BY <1>1, <1>2, UnderAppend

\* The last piece gets another one glued on.
LEMMA UnderGlue ==
  ASSUME NEW item \in Nat, NEW h \in Seq(Text), NEW s \in Seq(Piece), s # <<>>,
         NEW p \in Piece, NEW n \in Nat
  PROVE  UnitsUnder(item, h, [s EXCEPT ![Len(s)] = Glue(s[Len(s)], p, n)])
           = UnitsUnder(item, h, s) \o Tag(item, h, p.units)
<1> DEFINE last == s[Len(s)]
           x    == Glue(last, p, n)
           g    == TagUnder(item, h)
           more == Tag(item, h, p.units)
<1>1. last \in Piece
  OBVIOUS
<1>2. g \in Maps(Piece, Seq(Unit)) /\ \A q \in Piece : g[q] = Tag(item, h, q.units)
  BY TagUnderMaps
<1>3. x \in Piece /\ x.units = last.units \o p.units
  <2> HIDE DEF last
  <2> QED
    BY <1>1, GlueType
<1>4. last.units \in Seq(Seq(Text)) /\ p.units \in Seq(Seq(Text))
  BY <1>1 DEF Piece
<1>5. more \in Seq(Unit)
  BY <1>4, TagType
<1>6. g[x] = g[last] \o more
  <2> HIDE DEF last, x, g
  <2>1. Tag(item, h, last.units \o p.units) = Tag(item, h, last.units) \o more
    BY <1>4, TagConcat
  <2> QED
    BY <1>1, <1>2, <1>3, <2>1
<1> HIDE DEF x, g, more
<1>7. Units(g, LastReplaced(s, x)) = Units(g, s) \o more
  <2>1. g \in Maps(Piece, Seq(Unit)) /\ x \in Piece
    BY <1>2, <1>3
  <2>2. HasMore(g, s, x, more)
    BY <1>6 DEF HasMore
  <2> QED
    BY <1>5, <2>1, <2>2, UnitsExtend
<1> QED
  BY <1>7 DEF x, g, more, UnitsUnder, LastReplaced

Plain(pieces) == \A i \in 1 .. Len(pieces) : pieces[i].header = <<>>

\* The units of p are those of the pieces.
IsJoined(item, h, p, pieces) ==
  p \in Piece /\ Tag(item, h, p.units) = UnitsUnder(item, h, pieces)

\* Joined pieces have the units of all, in order; and no header if none had one.
LEMMA JoinKeeps ==
  ASSUME NEW pieces \in Seq(Piece), pieces # <<>>, NEW n \in Nat,
         NEW item \in Nat, NEW h \in Seq(Text)
  PROVE  /\ IsJoined(item, h, Join(pieces, n), pieces)
         /\ Plain(pieces) => Join(pieces, n).header = <<>>
<1> DEFINE m == Len(pieces)
           to(k) == SubSeq(pieces, 1, k)
<1>0. m \in Nat /\ m # 0 /\ to(m) = pieces /\ to(0) = <<>>
      /\ \A k \in 0 .. m : to(k) \in Seq(Piece)
  OBVIOUS
<1>1. PICK f : Joins(f, pieces, n) /\ Join(pieces, n) = f[m]
  BY JoinFunction
<1>2. \A i \in 1 .. m : f[i] = IF i = 1 THEN pieces[1] ELSE Glue(f[i - 1], pieces[i], n)
  BY <1>1, JoinsAt
<1>3. \A i \in 1 .. m : pieces[i] \in Piece /\ pieces[i].units \in Seq(Seq(Text))
                        /\ pieces[i].header \in Seq(Text)
  <2>1. \A i \in 1 .. m : pieces[i] \in Piece
    OBVIOUS
  <2> QED
    BY <2>1 DEF Piece
<1>4. ASSUME NEW k \in 0 .. m - 1
      PROVE  UnitsUnder(item, h, to(k + 1)) = UnitsUnder(item, h, to(k)) \o Tag(item, h, pieces[k + 1].units)
  BY UnderTurn
<1> DEFINE P(k)  == /\ IsJoined(item, h, f[k], to(k))
                    /\ Plain(pieces) => f[k].header = <<>>
           good == { k \in 0 .. m : k = 0 \/ P(k) }
<1> HIDE DEF m, to
<1>5. ASSUME NEW k \in 0 .. m - 1, k \in good PROVE k + 1 \in good
  <2>1. k + 1 \in 0 .. m /\ k + 1 \in 1 .. m /\ (k + 1) - 1 = k
    BY <1>0
  <2>2. CASE k = 0
    <3>1. f[1] = pieces[1] /\ 1 \in 1 .. m
      BY <1>2, <2>1, <2>2
    <3>2. Tag(item, h, pieces[1].units) \in Seq(Unit)
      BY <1>3, <3>1, TagType
    <3>3. UnitsUnder(item, h, to(1)) = UnitsUnder(item, h, to(0)) \o Tag(item, h, pieces[1].units)
      BY <1>4, <2>2
    <3>4. UnitsUnder(item, h, to(0)) = <<>>
      BY <1>0, UnderEmpty
    <3>5. UnitsUnder(item, h, to(1)) = Tag(item, h, pieces[1].units)
      <4> DEFINE a == Tag(item, h, pieces[1].units)
      <4> HIDE DEF a
      <4>1. a \in Seq(Unit) /\ UnitsUnder(item, h, to(1)) = <<>> \o a
        BY <3>2, <3>3, <3>4 DEF a
      <4>2. <<>> \o a = a
        BY <4>1
      <4> QED
        BY <4>1, <4>2 DEF a
    <3>6. IsJoined(item, h, f[1], to(1))
      BY <1>3, <3>1, <3>5 DEF IsJoined
    <3>7. Plain(pieces) => f[1].header = <<>>
      BY <3>1 DEF Plain, m
    <3> QED
      BY <2>1, <2>2, <3>6, <3>7
  <2>3. CASE k # 0
    <3> DEFINE p == f[k]
               q == pieces[k + 1]
    <3>1. p \in Piece /\ Tag(item, h, p.units) = UnitsUnder(item, h, to(k))
          /\ (Plain(pieces) => p.header = <<>>)
      BY <1>5, <2>3 DEF IsJoined
    <3>2. q \in Piece /\ q.units \in Seq(Seq(Text)) /\ (Plain(pieces) => q.header = <<>>)
      BY <1>3, <2>1 DEF Plain, m
    <3>3. f[k + 1] = Glue(p, q, n)
      BY <1>2, <2>1, <2>3
    <3>4. UnitsUnder(item, h, to(k + 1)) = UnitsUnder(item, h, to(k)) \o Tag(item, h, q.units)
      BY <1>4
    <3> HIDE DEF p, q
    <3>5. f[k + 1] \in Piece /\ f[k + 1].units = p.units \o q.units /\ f[k + 1].header = p.header \o q.header
      <4>1. p \in Piece /\ q \in Piece
        BY <3>1, <3>2
      <4>2. /\ Glue(p, q, n) \in Piece
            /\ Glue(p, q, n).units = p.units \o q.units
            /\ Glue(p, q, n).header = p.header \o q.header
        BY <4>1, GlueType
      <4> QED
        BY <3>3, <4>2
    <3>6. p.units \in Seq(Seq(Text))
      BY <3>1 DEF Piece
    <3>7. Tag(item, h, p.units \o q.units) = Tag(item, h, p.units) \o Tag(item, h, q.units)
      BY <3>2, <3>6, TagConcat
    <3>8. IsJoined(item, h, f[k + 1], to(k + 1))
      BY <3>1, <3>4, <3>5, <3>7 DEF IsJoined
    <3>9. Plain(pieces) => f[k + 1].header = <<>>
      <4>1. <<>> \o <<>> = <<>>
        OBVIOUS
      <4> QED
        BY <3>1, <3>2, <3>5, <4>1
    <3> QED
      BY <2>1, <3>8, <3>9
  <2> QED
    BY <2>2, <2>3
<1>6. \A k \in 0 .. m : k \in good
  <2>1. 0 \in good
    BY <1>0
  <2> HIDE DEF good
  <2>2. \A k \in 0 .. m - 1 : k \in good => k + 1 \in good
    BY <1>5
  <2> QED
    BY <1>0, <2>1, <2>2, TurnByTurn
<1>7. P(m)
  BY <1>0, <1>6
<1> QED
  BY <1>0, <1>1, <1>7

\* What a packing loop has after i pieces.
PackedSoFar(acc, pieces, item, h, i) ==
  /\ acc \in Accs
  /\ UnitsUnder(item, h, acc.parts) = UnitsUnder(item, h, SubSeq(pieces, 1, i))
  /\ Plain(pieces) => Plain(acc.parts)

\* A turn of the packing loop takes over the units of one more piece.
LEMMA TookKeeps ==
  ASSUME NEW acc, NEW pieces \in Seq(Piece), NEW i \in 0 .. Len(pieces) - 1,
         NEW start \in Nat, NEW limit \in Nat, NEW n \in Nat,
         NEW item \in Nat, NEW h \in Seq(Text),
         PackedSoFar(acc, pieces, item, h, i)
  PROVE  PackedSoFar(Took(acc, pieces[i + 1], start, limit, n), pieces, item, h, i + 1)
<1> DEFINE p   == pieces[i + 1]
           new == Took(acc, p, start, limit, n)
           ps  == acc.parts
           top == Len(ps)
<1>1. p \in Piece /\ i \in Nat /\ i + 1 > 0
  OBVIOUS
<1>2. acc \in Accs /\ ps \in Seq(Piece)
  BY DEF PackedSoFar, Accs
<1>3. new \in Accs
  <2> HIDE DEF p
  <2> QED
    BY <1>1, <1>2, TookType
<1>4. UnitsUnder(item, h, ps) = UnitsUnder(item, h, SubSeq(pieces, 1, i))
  BY DEF PackedSoFar
<1>5. UnitsUnder(item, h, SubSeq(pieces, 1, i + 1))
        = UnitsUnder(item, h, SubSeq(pieces, 1, i)) \o Tag(item, h, p.units)
  BY UnderTurn
<1>6. Plain(pieces) => p.header = <<>>
  BY <1>1 DEF Plain
<1>7. Plain(pieces) => Plain(ps)
  BY DEF PackedSoFar
<1> HIDE DEF p, ps
<1>8. SUFFICES /\ UnitsUnder(item, h, new.parts) = UnitsUnder(item, h, ps) \o Tag(item, h, p.units)
               /\ Plain(pieces) => Plain(new.parts)
  <2> HIDE DEF new
  <2>1. UnitsUnder(item, h, new.parts) = UnitsUnder(item, h, SubSeq(pieces, 1, i + 1))
    BY <1>4, <1>5, <1>8
  <2>2. PackedSoFar(new, pieces, item, h, i + 1)
    BY <1>3, <1>8, <2>1 DEF PackedSoFar
  <2> QED
    BY <2>2 DEF new, p
<1>9. CASE ps = <<>> \/ acc.tokens + approx_tokens(p) > limit
  <2>1. new.parts = Append(ps, p)
    BY <1>9 DEF Took, ps
  <2>2. UnitsUnder(item, h, Append(ps, p)) = UnitsUnder(item, h, ps) \o Tag(item, h, p.units)
    BY <1>1, <1>2, UnderAppend
  <2>3. Plain(pieces) => Plain(Append(ps, p))
    <3> SUFFICES ASSUME Plain(pieces), NEW j \in 1 .. Len(Append(ps, p))
                 PROVE  Append(ps, p)[j].header = <<>>
      BY DEF Plain
    <3>1. Plain(ps) /\ p.header = <<>>
      BY <1>6, <1>7
    <3>2. Len(Append(ps, p)) = Len(ps) + 1 /\ Append(ps, p)[Len(ps) + 1] = p /\ Len(ps) \in Nat
          /\ \A k \in 1 .. Len(ps) : Append(ps, p)[k] = ps[k]
      BY <1>1, <1>2, AppendProperties
    <3> QED
      BY <3>1, <3>2 DEF Plain
  <2> QED
    BY <2>1, <2>2, <2>3
<1>10. CASE ~(ps = <<>> \/ acc.tokens + approx_tokens(p) > limit)
  <2> DEFINE last == ps[Len(ps)]
             x    == Glue(last, p, n)
             qs   == [ps EXCEPT ![Len(ps)] = x]
  <2>0. Len(ps) \in 1 .. Len(ps) /\ Len(ps) \in Nat /\ last \in Piece
    BY <1>2, <1>10
  <2>1. new.parts = qs
    BY <1>10 DEF Took, ps
  <2>2. UnitsUnder(item, h, qs) = UnitsUnder(item, h, ps) \o Tag(item, h, p.units)
    BY <1>1, <1>2, <1>10, UnderGlue
  <2>3. x \in Piece /\ x.header = last.header \o p.header
    <3> HIDE DEF last
    <3> QED
      BY <1>1, <2>0, GlueType
  <2>4. qs \in Seq(Piece) /\ Len(qs) = Len(ps)
        /\ \A j \in 1 .. Len(ps) : qs[j] = IF j = Len(ps) THEN x ELSE ps[j]
    <3> HIDE DEF x
    <3> QED
      BY <1>2, <2>0, <2>3, ExceptSeq
  <2>5. Plain(pieces) => Plain(qs)
    <3> HIDE DEF qs, x
    <3> SUFFICES ASSUME Plain(pieces), NEW j \in 1 .. Len(ps)
                 PROVE  qs[j].header = <<>>
      BY <2>4 DEF Plain
    <3>1. \A k \in 1 .. Len(ps) : ps[k].header = <<>>
      BY <1>7 DEF Plain
    <3>2. p.header = <<>> /\ last.header = <<>>
      BY <1>6, <2>0, <3>1
    <3>3. x.header = <<>>
      <4>1. <<>> \o <<>> = <<>>
        OBVIOUS
      <4> QED
        BY <2>3, <3>2, <4>1
    <3> QED
      BY <2>4, <3>1, <3>3
  <2> HIDE DEF qs, new
  <2> QED
    BY <2>1, <2>2, <2>5
<1> QED
  BY <1>9, <1>10

\* The pieces, packed as ps.
Repacked(item, h, ps, pieces) ==
  /\ ps \in Seq(Piece)
  /\ UnitsUnder(item, h, ps) = UnitsUnder(item, h, pieces)
  /\ Plain(pieces) => Plain(ps)

\* So the packing loop keeps all units, in order, whatever it starts with and the limit.
LEMMA PackedKeeps ==
  ASSUME NEW pieces \in Seq(Piece), NEW start \in Nat, NEW limit \in Nat, NEW n \in Nat,
         NEW item \in Nat, NEW h \in Seq(Text)
  PROVE  Repacked(item, h, Packed(pieces, start, limit, n), pieces)
<1> DEFINE m == Len(pieces)
<1>0. m \in Nat /\ SubSeq(pieces, 1, m) = pieces /\ SubSeq(pieces, 1, 0) = <<>>
  OBVIOUS
<1>1. PICK f : Packs(f, pieces, start, limit, n) /\ Packed(pieces, start, limit, n) = f[m].parts
  BY PackedFunction
<1>2. \A i \in 0 .. m : f[i] = IF i = 0 THEN [parts |-> <<>>, tokens |-> start]
                               ELSE Took(f[i - 1], pieces[i], start, limit, n)
  BY <1>1, PacksAt
<1> DEFINE good == { k \in 0 .. m : PackedSoFar(f[k], pieces, item, h, k) }
<1>3. 0 \in good
  <2>1. f[0] = [parts |-> <<>>, tokens |-> start]
    BY <1>0, <1>2
  <2>2. [parts |-> <<>>, tokens |-> start] \in Accs
    BY DEF Accs
  <2>3. Plain(<<>>)
    BY DEF Plain
  <2>4. f[0] \in Accs /\ f[0].parts = <<>>
    BY <2>1, <2>2
  <2>5. UnitsUnder(item, h, f[0].parts) = UnitsUnder(item, h, SubSeq(pieces, 1, 0))
    BY <1>0, <2>4
  <2>6. Plain(f[0].parts)
    BY <2>3, <2>4
  <2>7. PackedSoFar(f[0], pieces, item, h, 0)
    BY <2>4, <2>5, <2>6 DEF PackedSoFar
  <2> QED
    BY <1>0, <2>7
<1>4. ASSUME NEW k \in 0 .. m - 1, k \in good PROVE k + 1 \in good
  <2>1. k + 1 \in 0 .. m /\ k + 1 # 0 /\ (k + 1) - 1 = k
    BY <1>0
  <2>2. f[k + 1] = Took(f[k], pieces[k + 1], start, limit, n)
    BY <1>2, <2>1
  <2>3. PackedSoFar(f[k], pieces, item, h, k)
    BY <1>4
  <2> HIDE DEF good
  <2>4. PackedSoFar(f[k + 1], pieces, item, h, k + 1)
    <3>1. PackedSoFar(Took(f[k], pieces[k + 1], start, limit, n), pieces, item, h, k + 1)
      BY <2>3, TookKeeps
    <3> QED
      BY <2>2, <3>1
  <2> USE DEF good
  <2> QED
    BY <2>1, <2>4
<1>5. m \in good
  <2> HIDE DEF good, m
  <2>1. \A k \in 0 .. m - 1 : k \in good => k + 1 \in good
    BY <1>4
  <2>2. \A k \in 0 .. m : k \in good
    BY <1>0, <1>3, <2>1, TurnByTurn
  <2> QED
    BY <1>0, <2>2
<1>6. PackedSoFar(f[m], pieces, item, h, m)
  BY <1>5
<1> HIDE DEF m
<1> QED
  BY <1>0, <1>1, <1>6 DEF PackedSoFar, Accs, Repacked

FromPieces(p, pieces) == \E i \in 1 .. Len(pieces) : p = pieces[i]

\* A part is one of the pieces, or short enough for the limit; the tokens that the
\* loop has for the last part bound its length, too.
SizesSoFar(acc, pieces, limit, n) ==
  /\ acc \in Accs
  /\ \A j \in 1 .. Len(acc.parts) :
       FromPieces(acc.parts[j], pieces) \/ acc.parts[j].len < 9 * limit
  /\ acc.parts # <<>> => acc.parts[Len(acc.parts)].len + n <= 9 * acc.tokens

\* Nine characters per token have room for one more piece and its separator.
LEMMA LengthSum ==
  ASSUME NEW a \in Nat, NEW t \in Nat, NEW b \in Nat, NEW u \in Nat, NEW n \in {1, 2},
         a + n <= 9 * t, u >= 1, b <= 4 * u + 3
  PROVE  (a + n + b) + n <= 9 * (t + u)
  OBVIOUS

\* A turn of the packing loop keeps parts of several pieces within nine characters per token.
LEMMA TookSizes ==
  ASSUME NEW acc, NEW pieces \in Seq(Piece), NEW i \in 1 .. Len(pieces),
         NEW limit \in Nat, NEW n \in {1, 2},
         SizesSoFar(acc, pieces, limit, n)
  PROVE  SizesSoFar(Took(acc, pieces[i], 0, limit, n), pieces, limit, n)
<1> DEFINE p   == pieces[i]
           new == Took(acc, p, 0, limit, n)
           ps  == acc.parts
           tk  == approx_tokens(p)
<1>1. p \in Piece /\ FromPieces(p, pieces)
  BY DEF FromPieces
<1>2. acc \in Accs /\ ps \in Seq(Piece) /\ acc.tokens \in Nat
  BY DEF SizesSoFar, Accs
<1>3. \A j \in 1 .. Len(ps) : FromPieces(ps[j], pieces) \/ ps[j].len < 9 * limit
  BY DEF SizesSoFar
<1>4. ps # <<>> => ps[Len(ps)].len + n <= 9 * acc.tokens
  BY DEF SizesSoFar
<1> HIDE DEF p, ps
<1>5. tk \in Nat /\ tk >= 1 /\ p.len <= 4 * tk + 3 /\ p.len \in Nat
  <2>1. p.len \in Nat
    BY <1>1 DEF Piece
  <2> QED
    BY <1>1, <2>1, TokensOfPiece
<1>6. new \in Accs
  <2> HIDE DEF tk
  <2> QED
    BY <1>1, <1>2, TookType
<1>7. SUFFICES /\ \A j \in 1 .. Len(new.parts) :
                    FromPieces(new.parts[j], pieces) \/ new.parts[j].len < 9 * limit
               /\ new.parts[Len(new.parts)].len + n <= 9 * new.tokens
  <2> HIDE DEF new
  <2>1. SizesSoFar(new, pieces, limit, n)
    BY <1>6, <1>7 DEF SizesSoFar
  <2> QED
    BY <2>1 DEF new, p
<1>8. CASE ps = <<>> \/ acc.tokens + tk > limit
  <2> DEFINE qs == Append(ps, p)
  <2>1. new.parts = qs /\ new.tokens = tk
    <3>1. new.parts = qs /\ new.tokens = 0 + tk
      BY <1>8 DEF Took, ps
    <3> HIDE DEF new
    <3> QED
      BY <1>5, <3>1
  <2>2. Len(qs) = Len(ps) + 1 /\ qs[Len(ps) + 1] = p /\ Len(ps) \in Nat
        /\ \A k \in 1 .. Len(ps) : qs[k] = ps[k]
    BY <1>1, <1>2, AppendProperties
  <2> HIDE DEF qs, new, tk
  <2>3. ASSUME NEW j \in 1 .. Len(qs) PROVE FromPieces(qs[j], pieces) \/ qs[j].len < 9 * limit
    <3>1. j \in 1 .. Len(ps) \/ j = Len(ps) + 1
      BY <2>2
    <3>2. CASE j \in 1 .. Len(ps)
      BY <1>3, <2>2, <3>2
    <3>3. CASE j = Len(ps) + 1
      BY <1>1, <2>2, <3>3
    <3> QED
      BY <3>1, <3>2, <3>3
  <2>4. qs[Len(qs)] = p
    BY <2>2
  <2>5. p.len + n <= 9 * tk
    BY <1>5
  <2> QED
    BY <2>1, <2>3, <2>4, <2>5
<1>9. CASE ~(ps = <<>> \/ acc.tokens + tk > limit)
  <2> DEFINE last == ps[Len(ps)]
             x    == Glue(last, p, n)
             qs   == [ps EXCEPT ![Len(ps)] = x]
             sum  == acc.tokens + tk
  <2>1. Len(ps) \in 1 .. Len(ps) /\ Len(ps) \in Nat /\ last \in Piece
    BY <1>2, <1>9
  <2>2. new.parts = qs /\ new.tokens = sum
    BY <1>9 DEF Took, ps
  <2>3. x \in Piece /\ x.len = last.len + n + p.len
    <3> HIDE DEF last
    <3>1. p \in Piece /\ last \in Piece /\ n \in Nat
      BY <1>1, <2>1
    <3> QED
      BY <3>1, GlueType
  <2>4. last.len \in Nat /\ last.len + n <= 9 * acc.tokens
    <3>1. last.len \in Nat
      <4> HIDE DEF last
      <4> QED
        BY <2>1 DEF Piece
    <3> QED
      BY <1>4, <1>9, <3>1
  <2>5. qs \in Seq(Piece) /\ Len(qs) = Len(ps)
        /\ \A j \in 1 .. Len(ps) : qs[j] = IF j = Len(ps) THEN x ELSE ps[j]
    <3> HIDE DEF x
    <3> QED
      BY <1>2, <2>1, <2>3, ExceptSeq
  <2>6. sum \in Nat /\ sum <= limit /\ sum = acc.tokens + tk
    <3> HIDE DEF tk
    <3> QED
      BY <1>2, <1>5, <1>9
  <2> HIDE DEF last, x, qs, sum, tk, new
  <2>7. x.len + n <= 9 * sum
    <3>1. (last.len + n + p.len) + n <= 9 * (acc.tokens + tk)
      BY <1>2, <1>5, <2>4, LengthSum
    <3> QED
      BY <2>3, <2>6, <3>1
  <2>8. x.len < 9 * limit
    <3>1. x.len \in Nat
      BY <2>3 DEF Piece
    <3> QED
      BY <2>6, <2>7, <3>1
  <2>9. \A j \in 1 .. Len(qs) : FromPieces(qs[j], pieces) \/ qs[j].len < 9 * limit
    BY <1>3, <2>5, <2>8
  <2>10. qs[Len(qs)] = x
    BY <2>1, <2>5
  <2> QED
    BY <2>2, <2>7, <2>9, <2>10
<1> QED
  BY <1>8, <1>9

\* So a part is a single piece, or shorter than nine characters per token of the limit.
LEMMA PackedSizes ==
  ASSUME NEW pieces \in Seq(Piece), NEW limit \in Nat, NEW n \in {1, 2},
         NEW j \in 1 .. Len(Packed(pieces, 0, limit, n))
  PROVE  \/ FromPieces(Packed(pieces, 0, limit, n)[j], pieces)
         \/ Packed(pieces, 0, limit, n)[j].len < 9 * limit
<1> DEFINE m == Len(pieces)
<1>0. m \in Nat /\ n \in Nat
  OBVIOUS
<1>1. PICK f : Packs(f, pieces, 0, limit, n) /\ Packed(pieces, 0, limit, n) = f[m].parts
  BY <1>0, PackedFunction
<1>2. \A i \in 0 .. m : f[i] = IF i = 0 THEN [parts |-> <<>>, tokens |-> 0]
                               ELSE Took(f[i - 1], pieces[i], 0, limit, n)
  BY <1>1, PacksAt
<1> DEFINE good == { k \in 0 .. m : SizesSoFar(f[k], pieces, limit, n) }
<1>3. 0 \in good
  <2>1. f[0] = [parts |-> <<>>, tokens |-> 0]
    BY <1>0, <1>2
  <2>2. f[0] \in Accs /\ f[0].parts = <<>>
    BY <2>1 DEF Accs
  <2> QED
    BY <1>0, <2>2 DEF SizesSoFar
<1>4. ASSUME NEW k \in 0 .. m - 1, k \in good PROVE k + 1 \in good
  <2>1. k + 1 \in 0 .. m /\ k + 1 # 0 /\ (k + 1) - 1 = k /\ k + 1 \in 1 .. Len(pieces)
    BY <1>0
  <2>2. f[k + 1] = Took(f[k], pieces[k + 1], 0, limit, n)
    BY <1>2, <2>1
  <2>3. SizesSoFar(f[k], pieces, limit, n)
    BY <1>4
  <2>4. SizesSoFar(f[k + 1], pieces, limit, n)
    BY <2>1, <2>2, <2>3, TookSizes
  <2> QED
    BY <2>1, <2>4
<1>5. m \in good
  <2> HIDE DEF good, m
  <2>1. \A k \in 0 .. m - 1 : k \in good => k + 1 \in good
    BY <1>4
  <2>2. \A k \in 0 .. m : k \in good
    BY <1>0, <1>3, <2>1, TurnByTurn
  <2> QED
    BY <1>0, <2>2
<1>6. SizesSoFar(f[m], pieces, limit, n)
  BY <1>5
<1> HIDE DEF m
<1> QED
  BY <1>1, <1>6 DEF SizesSoFar

-----------------------------------------------------------------------------
(***************************************************************************)
(* The units of what a block is cut into.                                  *)
(***************************************************************************)

SameUnits(g, s, e, t) ==
  Len(s) = Len(t) /\ \A i \in 1 .. Len(s) : g[s[i]] = e[t[i]]

\* Sequences whose elements have the same units have the same units.
LEMMA UnitsSame ==
  ASSUME NEW A, NEW B, NEW s \in Seq(A), NEW t \in Seq(B), NEW g, NEW e, SameUnits(g, s, e, t)
  PROVE  Units(g, s) = Units(e, t)
<1>1. DOMAIN s = 1 .. Len(s) /\ DOMAIN t = 1 .. Len(t)
  OBVIOUS
<1>2. Len(s) = Len(t) /\ \A i \in 1 .. Len(s) : g[s[i]] = e[t[i]]
  BY DEF SameUnits
<1>3. Mapped(g, s) = Mapped(e, t)
  BY <1>1, <1>2 DEF Mapped
<1> QED
  BY <1>3 DEF Units

Single(g, s, e) == Len(s) = Len(e) /\ \A i \in 1 .. Len(s) : g[s[i]] = <<e[i]>>

\* If each element has one unit, the units are these.
LEMMA UnitsSingle ==
  ASSUME NEW A, NEW T, NEW g \in Maps(A, Seq(T)), NEW s \in Seq(A), NEW e \in Seq(T),
         Single(g, s, e)
  PROVE  Units(g, s) = e
<1> DEFINE m      == Len(s)
           to(k)  == SubSeq(s, 1, k)
           eto(k) == SubSeq(e, 1, k)
           good   == { k \in 0 .. m : Units(g, to(k)) = eto(k) }
<1>0. m \in Nat /\ Len(e) = m /\ \A i \in 1 .. m : g[s[i]] = <<e[i]>>
  BY DEF Single
<1>1. to(0) = <<>> /\ eto(0) = <<>> /\ to(m) = s /\ eto(m) = e
  BY <1>0
<1>2. 0 \in good
  <2>1. Units(g, to(0)) = eto(0)
    BY <1>1, UnitsEmpty
  <2> QED
    BY <1>0, <2>1
<1>3. ASSUME NEW k \in 0 .. m - 1, k \in good PROVE k + 1 \in good
  <2>1. k + 1 \in 0 .. m /\ k + 1 \in 1 .. m
    BY <1>0
  <2>2. Units(g, to(k + 1)) = Units(g, to(k)) \o g[s[k + 1]]
    BY UnitsTurn
  <2>3. Units(g, to(k)) = eto(k) /\ g[s[k + 1]] = <<e[k + 1]>>
    BY <1>0, <1>3, <2>1
  <2>4. eto(k + 1) = eto(k) \o <<e[k + 1]>>
    <3>1. eto(k) \in Seq(T) /\ e[k + 1] \in T
      BY <1>0
    <3>2. eto(k + 1) = Append(eto(k), e[k + 1])
      BY <1>0
    <3>3. Append(eto(k), e[k + 1]) = eto(k) \o <<e[k + 1]>>
      <4> HIDE DEF eto
      <4> QED
        BY <3>1, AppendIsConcat
    <3> QED
      BY <3>2, <3>3
  <2> HIDE DEF to, eto
  <2>5. Units(g, to(k + 1)) = eto(k + 1)
    BY <2>2, <2>3, <2>4
  <2> QED
    BY <2>1, <2>5
<1>4. m \in good
  <2> HIDE DEF good, m
  <2>1. \A k \in 0 .. m - 1 : k \in good => k + 1 \in good
    BY <1>3
  <2>2. \A k \in 0 .. m : k \in good
    BY <1>0, <1>2, <2>1, TurnByTurn
  <2> QED
    BY <1>0, <2>2
<1> QED
  BY <1>1, <1>4

\* A sequence of one piece.
LEMMA UnderOne ==
  ASSUME NEW item \in Nat, NEW h \in Seq(Text), NEW p \in Piece
  PROVE  UnitsUnder(item, h, <<p>>) = Tag(item, h, p.units)
<1> DEFINE a == Tag(item, h, p.units)
<1>1. <<>> \in Seq(Piece) /\ Append(<<>>, p) = <<p>>
  OBVIOUS
<1>2. UnitsUnder(item, h, Append(<<>>, p)) = UnitsUnder(item, h, <<>>) \o a
  BY <1>1, UnderAppend
<1>3. UnitsUnder(item, h, <<>>) = <<>>
  BY UnderEmpty
<1>4. a \in Seq(Unit)
  <2>1. p.units \in Seq(Seq(Text))
    BY DEF Piece
  <2> QED
    BY <2>1, TagType
<1> HIDE DEF a
<1>5. <<>> \o a = a
  BY <1>4
<1>6. UnitsUnder(item, h, <<p>>) = a
  BY <1>1, <1>2, <1>3, <1>5
<1> QED
  BY <1>6 DEF a

\* The units of a sequence that has the texts of the lines from m to n.
LineUnits(item, h, block, m, n) ==
  [l \in 1 .. n - m + 1 |-> <<item, h, block.lines[m + l - 1].texts>>]

\* What cutting a block at its lines yields: a piece for each line, without header.
LEMMA CutType ==
  ASSUME NEW block \in Block, NEW m \in Nat \ {0}, NEW n \in Nat, m <= n, n <= Len(block.lines)
  PROVE  /\ Cut(block, m, n) \in Seq(Piece)
         /\ Len(Cut(block, m, n)) = n - m + 1
         /\ Cut(block, m, n) # <<>>
         /\ \A l \in 1 .. n - m + 1 : Cut(block, m, n)[l].header = <<>>
                                      /\ Cut(block, m, n)[l].units = <<block.lines[m + l - 1].texts>>
<1> DEFINE k == n - m + 1
<1>1. k \in Nat /\ k >= 1
  OBVIOUS
<1>2. Cut(block, m, n) = [l \in 1 .. k |-> [len    |-> block.lines[m + l - 1].len,
                                            header |-> <<>>,
                                            units  |-> <<block.lines[m + l - 1].texts>>]]
  BY DEF Cut
<1>3. ASSUME NEW l \in 1 .. k
      PROVE  [len    |-> block.lines[m + l - 1].len,
              header |-> <<>>,
              units  |-> <<block.lines[m + l - 1].texts>>] \in Piece
  <2>1. m + l - 1 \in 1 .. Len(block.lines)
    <3>1. Len(block.lines) \in Nat
      BY BlockType
    <3> QED
      BY <3>1
  <2>2. block.lines[m + l - 1].len \in Nat /\ block.lines[m + l - 1].texts \in Seq(Text)
    BY <2>1, LineType
  <2> DEFINE line == block.lines[m + l - 1]
  <2> HIDE DEF line
  <2>3. <<line.texts>> \in Seq(Seq(Text)) /\ <<>> \in Seq(Text)
    BY <2>2 DEF line
  <2> QED
    BY <2>2, <2>3 DEF Piece, line
<1> HIDE DEF k
<1>4. Cut(block, m, n) \in [1 .. k -> Piece]
  BY <1>2, <1>3
<1>5. Cut(block, m, n) \in Seq(Piece) /\ Len(Cut(block, m, n)) = k
  BY <1>1, <1>4, FunctionSeq
<1>6. Cut(block, m, n) # <<>>
  BY <1>1, <1>5
<1>7. \A l \in 1 .. k : Cut(block, m, n)[l].header = <<>>
                        /\ Cut(block, m, n)[l].units = <<block.lines[m + l - 1].texts>>
  BY <1>2
<1> QED
  BY <1>5, <1>6, <1>7 DEF k

\* These pieces have the units of the lines.
LEMMA CutUnits ==
  ASSUME NEW block \in Block, NEW m \in Nat \ {0}, NEW n \in Nat, m <= n, n <= Len(block.lines),
         NEW item \in Nat, NEW h \in Seq(Text)
  PROVE  /\ UnitsUnder(item, h, Cut(block, m, n)) = LineUnits(item, h, block, m, n)
         /\ Plain(Cut(block, m, n))
<1> DEFINE k == n - m + 1
           s == Cut(block, m, n)
           g == TagUnder(item, h)
           e == LineUnits(item, h, block, m, n)
<1>1. /\ k \in Nat /\ s \in Seq(Piece) /\ Len(s) = k
      /\ \A l \in 1 .. k : s[l].header = <<>> /\ s[l].units = <<block.lines[m + l - 1].texts>>
  <2>1. k \in Nat
    OBVIOUS
  <2>2. s \in Seq(Piece) /\ Len(s) = k
    BY CutType
  <2>3. \A l \in 1 .. k : s[l].header = <<>> /\ s[l].units = <<block.lines[m + l - 1].texts>>
    BY CutType
  <2> QED
    BY <2>1, <2>2, <2>3
<1>2. g \in Maps(Piece, Seq(Unit)) /\ \A p \in Piece : g[p] = Tag(item, h, p.units)
  BY TagUnderMaps
<1>3. \A l \in 1 .. k : e[l] = <<item, h, block.lines[m + l - 1].texts>>
  BY DEF LineUnits
<1>4. \A l \in 1 .. k : block.lines[m + l - 1].texts \in Seq(Text)
  <2> TAKE l \in 1 .. k
  <2>1. m + l - 1 \in 1 .. Len(block.lines)
    <3>1. Len(block.lines) \in Nat
      BY BlockType
    <3> QED
      BY <3>1
  <2> QED
    BY <2>1, LineType
<1>5. e \in [1 .. k -> Unit]
  BY <1>4 DEF LineUnits, Unit
<1> HIDE DEF k, s, g, e
<1>6. e \in Seq(Unit) /\ Len(e) = k
  BY <1>1, <1>5, FunctionSeq
<1>7. ASSUME NEW l \in 1 .. k PROVE g[s[l]] = <<e[l]>>
  <2> DEFINE t == block.lines[m + l - 1].texts
             u == <<t>>
  <2>1. s[l] \in Piece /\ s[l].units = u
    BY <1>1
  <2>2. u \in Seq(Seq(Text)) /\ Len(u) = 1 /\ u[1] = t
    <3>1. t \in Seq(Text)
      BY <1>4
    <3> HIDE DEF t
    <3> QED
      BY <3>1
  <2> HIDE DEF t, u
  <2>3. g[s[l]] = Tag(item, h, u)
    BY <1>2, <2>1
  <2>4. Tag(item, h, u) \in Seq(Unit) /\ Len(Tag(item, h, u)) = 1
        /\ Tag(item, h, u)[1] = <<item, h, t>>
    <3>1. 1 \in 1 .. Len(u)
      BY <2>2
    <3> QED
      BY <2>2, <3>1, TagType
  <2>5. Tag(item, h, u) = << Tag(item, h, u)[1] >>
    <3> DEFINE w == Tag(item, h, u)
    <3> HIDE DEF w
    <3>1. w \in Seq(Unit) /\ Len(w) = 1
      BY <2>4 DEF w
    <3>2. w = <<w[1]>>
      BY <3>1
    <3> QED
      BY <3>2 DEF w
  <2>6. e[l] = <<item, h, t>>
    BY <1>3 DEF t
  <2> QED
    BY <2>3, <2>4, <2>5, <2>6
<1>8. Single(g, s, e)
  BY <1>1, <1>6, <1>7 DEF Single
<1>9. Units(g, s) = e
  BY <1>1, <1>2, <1>6, <1>8, UnitsSingle
<1>10. Plain(s)
  BY <1>1 DEF Plain
<1> QED
  BY <1>9, <1>10 DEF s, g, e, UnitsUnder

\* The constants are numbers.
LEMMA Limits ==
  /\ MaxHeadingLen \in Nat
  /\ TargetTokens \in Nat
  /\ MaxTokens \in Nat
  /\ MinMergeTokens \in Nat
  /\ MergeSlack \in Nat
  BY TextAssumption DEF TextAssumption

\* The units of a text are its sentences.
LEMMA TextBlockUnits ==
  ASSUME NEW block \in Block, block.kind = "text", NEW item \in Nat
  PROVE  BlockUnits(item, block) = LineUnits(item, <<>>, block, 1, Len(block.lines))
<1> DEFINE n == Len(block.lines)
<1>1. n \in Nat /\ n >= 1 /\ DOMAIN block.lines = 1 .. n
  BY BlockType
<1>2. BlockUnits(item, block) = [l \in 1 .. n |-> <<item, <<>>, block.lines[l].texts>>]
  BY <1>1 DEF BlockUnits
<1> HIDE DEF n
<1>3. n - 1 + 1 = n /\ \A l \in 1 .. n : 1 + l - 1 = l
  BY <1>1
<1>4. LineUnits(item, <<>>, block, 1, n) = [l \in 1 .. n |-> <<item, <<>>, block.lines[l].texts>>]
  BY <1>3 DEF LineUnits
<1> QED
  BY <1>2, <1>4 DEF n

\* The units of a table are the rows below its header.
LEMMA TableBlockUnits ==
  ASSUME NEW block \in Block, block.kind = "table", NEW item \in Nat
  PROVE  BlockUnits(item, block) = LineUnits(item, block.lines[1].texts, block, 3, Len(block.lines))
<1> DEFINE n == Len(block.lines)
<1>1. n \in Nat /\ n >= 1
  BY BlockType
<1>2. BlockUnits(item, block)
        = [l \in 1 .. n - 2 |-> <<item, block.lines[1].texts, block.lines[l + 2].texts>>]
  BY DEF BlockUnits
<1> HIDE DEF n
<1>3. n - 3 + 1 = n - 2 /\ \A l \in 1 .. n - 2 : 3 + l - 1 = l + 2
  BY <1>1
<1>4. LineUnits(item, block.lines[1].texts, block, 3, n)
        = [l \in 1 .. n - 2 |-> <<item, block.lines[1].texts, block.lines[l + 2].texts>>]
  BY <1>3 DEF LineUnits
<1> QED
  BY <1>2, <1>4 DEF n

\* Texts have no header.
LEMMA PlainBodies ==
  ASSUME NEW bodies, AllTextBodies(bodies)
  PROVE  Plain(bodies)
  BY DEF AllTextBodies, Plain, TextBody

\* _split_long_text keeps the sentences, in order, and yields sound texts.
LEMMA SplitTextKeeps ==
  ASSUME NEW block \in Block, block.kind = "text", NEW item \in Nat
  PROVE  /\ split_long_text(block) \in Seq(Piece)
         /\ AllTextBodies(split_long_text(block))
         /\ UnitsUnder(item, <<>>, split_long_text(block)) = BlockUnits(item, block)
<1> DEFINE n     == Len(block.lines)
           cut   == Cut(block, 1, n)
           whole == Content(block)
           ps    == Packed(cut, 0, TargetTokens, 1)
<1>0. n \in Nat /\ 1 <= n /\ n <= Len(block.lines) /\ 1 \in Nat \ {0} /\ <<>> \in Seq(Text)
  BY BlockType
<1>1. cut \in Seq(Piece) /\ cut # <<>>
  BY <1>0, CutType
<1>2. UnitsUnder(item, <<>>, cut) = BlockUnits(item, block) /\ Plain(cut)
  <2>1. UnitsUnder(item, <<>>, cut) = LineUnits(item, <<>>, block, 1, n) /\ Plain(cut)
    BY <1>0, CutUnits
  <2> QED
    BY <2>1, TextBlockUnits
<1>3. whole = Join(cut, 1)
  BY DEF Content
<1>4. \A j \in 1 .. Len(cut) : Len(cut[j].units) = 1
  <2>1. Len(cut) = n - 1 + 1
        /\ \A l \in 1 .. n - 1 + 1 : cut[l].header = <<>> /\ cut[l].units = <<block.lines[1 + l - 1].texts>>
    <3> HIDE DEF n
    <3> QED
      BY <1>0, CutType DEF n
  <2> HIDE DEF cut, n
  <2> TAKE j \in 1 .. Len(cut)
  <2>2. cut[j].units = <<block.lines[1 + j - 1].texts>>
    BY <2>1
  <2>3. \A t : Len(<<t>>) = 1
    OBVIOUS
  <2> QED
    BY <2>2, <2>3
<1> HIDE DEF n, cut, whole
<1>5. CASE approx_tokens(whole) <= MaxTokens
  <2>1. split_long_text(block) = <<whole>>
    BY <1>5 DEF split_long_text, whole
  <2>2. IsJoined(item, <<>>, whole, cut) /\ (Plain(cut) => whole.header = <<>>)
    BY <1>0, <1>1, <1>3, JoinKeeps
  <2>3. whole \in Piece /\ whole.header = <<>> /\ Tag(item, <<>>, whole.units) = BlockUnits(item, block)
    BY <1>2, <2>2 DEF IsJoined
  <2>4. TextBody(whole)
    <3>1. approx_tokens(whole) \in Nat
      BY <2>3, TokensOfPiece
    <3>2. approx_tokens(whole) <= MaxTokens + MergeSlack + 2
      BY <1>5, <3>1, Limits
    <3> QED
      BY <2>3, <3>2 DEF TextBody
  <2>5. UnitsUnder(item, <<>>, <<whole>>) = BlockUnits(item, block)
    BY <1>0, <2>3, UnderOne
  <2>6. <<whole>> \in Seq(Piece) /\ Len(<<whole>>) = 1 /\ <<whole>>[1] = whole
    BY <2>3
  <2>7. AllTextBodies(<<whole>>)
    BY <2>4, <2>6 DEF AllTextBodies
  <2> QED
    BY <2>1, <2>5, <2>6, <2>7
<1>6. CASE ~(approx_tokens(whole) <= MaxTokens)
  <2>1. split_long_text(block) = ps
    BY <1>6 DEF split_long_text, whole, cut, n
  <2>2. /\ ps \in Seq(Piece)
        /\ UnitsUnder(item, <<>>, ps) = UnitsUnder(item, <<>>, cut)
        /\ Plain(cut) => Plain(ps)
    <3>1. 0 \in Nat /\ 1 \in Nat /\ TargetTokens \in Nat
      BY Limits
    <3>2. Repacked(item, <<>>, ps, cut)
      BY <1>0, <1>1, <3>1, PackedKeeps
    <3> QED
      BY <3>2 DEF Repacked
  <2>3. AllTextBodies(ps)
    <3> SUFFICES ASSUME NEW j \in 1 .. Len(ps) PROVE TextBody(ps[j])
      BY DEF AllTextBodies
    <3>1. ps[j].header = <<>>
      <4> HIDE DEF ps
      <4> QED
        BY <1>2, <2>2 DEF Plain
    <3>2. FromPieces(ps[j], cut) \/ ps[j].len < 9 * TargetTokens
      <4>1. TargetTokens \in Nat /\ 1 \in {1, 2}
        BY Limits
      <4> QED
        BY <1>1, <4>1, PackedSizes
    <3> HIDE DEF ps
    <3>3. FromPieces(ps[j], cut) => Len(ps[j].units) = 1
      BY <1>4 DEF FromPieces
    <3> QED
      BY <3>1, <3>2, <3>3 DEF TextBody
  <2> HIDE DEF ps
  <2> QED
    BY <1>2, <2>1, <2>2, <2>3
<1> QED
  BY <1>5, <1>6

\* The bodies of ps have the units of the pieces, all under the header h.
Hangs(ps, h, bodies) ==
  /\ Len(ps) = Len(bodies)
  /\ \A p \in 1 .. Len(ps) : ps[p].body.header = h /\ ps[p].body.units = bodies[p].units

\* The units of bodies that hang under a header are those of the pieces they were.
LEMMA HangingUnits ==
  ASSUME NEW item \in Nat, NEW h \in Seq(Text), NEW ps \in Seq(Proto), NEW bodies \in Seq(Piece),
         Hangs(ps, h, bodies)
  PROVE  ProtoUnits(item, ps) = UnitsUnder(item, h, bodies)
<1> DEFINE g == TagProto(item)
           e == TagUnder(item, h)
<1>1. \A p \in Proto : g[p] = Tag(item, p.body.header, p.body.units)
  BY TagProtoMaps
<1>2. \A p \in Piece : e[p] = Tag(item, h, p.units)
  BY TagUnderMaps
<1>3. \A p \in 1 .. Len(ps) : ps[p] \in Proto /\ bodies[p] \in Piece
  BY DEF Hangs
<1> HIDE DEF g, e
<1>4. \A p \in 1 .. Len(ps) : g[ps[p]] = e[bodies[p]]
  BY <1>1, <1>2, <1>3 DEF Hangs
<1>5. SameUnits(g, ps, e, bodies)
  BY <1>4 DEF SameUnits, Hangs
<1>6. Units(g, ps) = Units(e, bodies)
  BY <1>5, UnitsSame
<1> QED
  BY <1>6 DEF g, e, ProtoUnits, UnitsUnder

\* What the header of a table is: no units, but a header row.
LEMMA HeaderType ==
  ASSUME NEW block \in Block, block.kind = "table"
  PROVE  /\ Header(block) \in Piece
         /\ Header(block).header = block.lines[1].texts
         /\ Header(block).header # <<>>
         /\ Header(block).units = <<>>
<1>1. 1 \in 1 .. Len(block.lines) /\ 2 \in 1 .. Len(block.lines) /\ block.lines[1].texts # <<>>
  BY BlockType
<1>2. /\ block.lines[1].len \in Nat /\ block.lines[1].texts \in Seq(Text)
      /\ block.lines[2].len \in Nat
  BY <1>1, LineType
<1>3. <<>> \in Seq(Seq(Text)) /\ block.lines[1].len + 1 + block.lines[2].len \in Nat
  BY <1>2
<1> QED
  BY <1>1, <1>2, <1>3 DEF Header, Piece

\* A table is split in bodies that each get the header.
SplitInto(block, item, bodies) ==
  /\ bodies \in Seq(Piece)
  /\ Plain(bodies)
  /\ UnitsUnder(item, Header(block).header, bodies) = BlockUnits(item, block)
  /\ split_table(block) = [p \in 1 .. Len(bodies) |-> Glue(Header(block), bodies[p], 1)]

\* _split_table divides the rows, in order, and puts the header over each part.
LEMMA SplitTableInto ==
  ASSUME NEW block \in Block, block.kind = "table", NEW item \in Nat
  PROVE  \E bodies : SplitInto(block, item, bodies)
<1> DEFINE n      == Len(block.lines)
           h      == block.lines[1].texts
           header == Header(block)
           cut    == Cut(block, 3, n)
           join   == Join(cut, 1)
           whole  == Glue(header, join, 1)
           start  == approx_tokens(header)
           ps     == Packed(cut, start, MaxTokens, 1)
<1>0. n \in Nat /\ 3 <= n /\ n <= Len(block.lines) /\ 3 \in Nat \ {0}
  BY BlockType
<1>1. header \in Piece /\ header.header = h /\ h \in Seq(Text)
  <2>1. header \in Piece /\ header.header = h
    BY HeaderType
  <2> QED
    BY <2>1 DEF Piece
<1>2. cut \in Seq(Piece) /\ cut # <<>>
  BY <1>0, CutType
<1>3. UnitsUnder(item, h, cut) = BlockUnits(item, block) /\ Plain(cut)
  <2>1. UnitsUnder(item, h, cut) = LineUnits(item, h, block, 3, n) /\ Plain(cut)
    BY <1>0, <1>1, CutUnits
  <2> QED
    BY <2>1, TableBlockUnits
<1> HIDE DEF n, h, cut
<1>4. CASE approx_tokens(whole) <= MaxTokens
  <2> DEFINE bodies == <<join>>
  <2>1. split_table(block) = <<whole>>
    BY <1>4 DEF split_table, cut, n
  <2>2. IsJoined(item, h, join, cut) /\ (Plain(cut) => join.header = <<>>)
    BY <1>1, <1>2, JoinKeeps
  <2>3. join \in Piece /\ join.header = <<>> /\ Tag(item, h, join.units) = BlockUnits(item, block)
    BY <1>3, <2>2 DEF IsJoined
  <2> HIDE DEF join, header
  <2>4. bodies \in Seq(Piece) /\ Len(bodies) = 1 /\ bodies[1] = join
    BY <2>3
  <2>5. Plain(bodies)
    BY <2>3, <2>4 DEF Plain
  <2>6. UnitsUnder(item, h, bodies) = BlockUnits(item, block)
    BY <1>1, <2>3, UnderOne
  <2>7. <<whole>> = [p \in 1 .. Len(bodies) |-> Glue(header, bodies[p], 1)]
    <3> HIDE DEF bodies
    <3> DEFINE w == [p \in 1 .. Len(bodies) |-> Glue(header, bodies[p], 1)]
    <3>1. w = [p \in 1 .. 1 |-> whole]
      BY <2>4
    <3> HIDE DEF whole
    <3> QED
      BY <3>1
  <2> HIDE DEF bodies
  <2>8. SplitInto(block, item, bodies)
    BY <1>1, <2>1, <2>4, <2>5, <2>6, <2>7 DEF SplitInto, header
  <2> QED
    BY <2>8
<1>5. CASE ~(approx_tokens(whole) <= MaxTokens)
  <2>1. split_table(block) = [p \in DOMAIN ps |-> Glue(header, ps[p], 1)]
    BY <1>5 DEF split_table, cut, n
  <2>2. Repacked(item, h, ps, cut)
    <3>1. start \in Nat /\ MaxTokens \in Nat /\ 1 \in Nat
      <4> HIDE DEF header
      <4> QED
        BY <1>1, TokensOfPiece, Limits
    <3> HIDE DEF start
    <3> QED
      BY <1>1, <1>2, <3>1, PackedKeeps
  <2>3. ps \in Seq(Piece) /\ UnitsUnder(item, h, ps) = BlockUnits(item, block) /\ Plain(ps)
    BY <1>3, <2>2 DEF Repacked
  <2> HIDE DEF ps
  <2>4. DOMAIN ps = 1 .. Len(ps)
    BY <2>3
  <2>5. SplitInto(block, item, ps)
    BY <1>1, <2>1, <2>3, <2>4 DEF SplitInto
  <2> QED
    BY <2>5
<1> QED
  BY <1>4, <1>5

\* Protos that are sound and have the units u.
ProtosHave(item, ps, u) ==
  /\ ps \in Seq(Proto)
  /\ AllSound(ps)
  /\ ProtoUnits(item, ps) = u

\* So the bodies of a table have its units, each under its header.
LEMMA TablesKeep ==
  ASSUME NEW block \in Block, block.kind = "table", NEW item \in Nat
  PROVE  ProtosHave(item, Tables(block), BlockUnits(item, block))
<1> DEFINE header == Header(block)
           h      == Header(block).header
           ts     == Tables(block)
<1>1. header \in Piece /\ h # <<>> /\ header.units = <<>> /\ h \in Seq(Text)
  <2>1. header \in Piece /\ h # <<>> /\ header.units = <<>>
    BY HeaderType
  <2> QED
    BY <2>1 DEF Piece
<1>2. PICK bodies : SplitInto(block, item, bodies)
  BY SplitTableInto
<1>3. bodies \in Seq(Piece) /\ Plain(bodies) /\ UnitsUnder(item, h, bodies) = BlockUnits(item, block)
      /\ split_table(block) = [p \in 1 .. Len(bodies) |-> Glue(header, bodies[p], 1)]
  BY <1>2 DEF SplitInto
<1>4. Len(bodies) \in Nat /\ \A p \in 1 .. Len(bodies) : bodies[p] \in Piece
  BY <1>3
<1>5. ts = [p \in 1 .. Len(bodies) |-> [is_table |-> TRUE, body |-> Glue(header, bodies[p], 1)]]
  BY <1>3 DEF Tables
<1> HIDE DEF header, h, ts
<1>6. ASSUME NEW p \in 1 .. Len(bodies)
      PROVE  /\ Glue(header, bodies[p], 1) \in Piece
             /\ Glue(header, bodies[p], 1).header = h
             /\ Glue(header, bodies[p], 1).units = bodies[p].units
  <2> DEFINE q == bodies[p]
  <2>1. q \in Piece /\ q.header = <<>> /\ header \in Piece /\ 1 \in Nat
    BY <1>1, <1>3, <1>4 DEF Plain
  <2>2. q.units \in Seq(Seq(Text))
    BY <2>1 DEF Piece
  <2> HIDE DEF q
  <2>3. /\ Glue(header, q, 1) \in Piece
        /\ Glue(header, q, 1).header = header.header \o q.header
        /\ Glue(header, q, 1).units = header.units \o q.units
    BY <2>1, GlueType
  <2>4. <<>> \o q.units = q.units
    BY <2>2
  <2>5. h \o <<>> = h
    BY <1>1
  <2>6. header.header = h
    BY DEF header, h
  <2>7. Glue(header, q, 1).header = h /\ Glue(header, q, 1).units = q.units
    BY <1>1, <2>1, <2>3, <2>4, <2>5, <2>6
  <2> QED
    BY <2>3, <2>7 DEF q
<1>7. ts \in [1 .. Len(bodies) -> Proto]
  BY <1>5, <1>6 DEF Proto
<1>8. ts \in Seq(Proto) /\ Len(ts) = Len(bodies)
  BY <1>4, <1>7, FunctionSeq
<1>9. \A p \in 1 .. Len(bodies) :
        ts[p].is_table = TRUE /\ ts[p].body.header = h /\ ts[p].body.units = bodies[p].units
  BY <1>5, <1>6
<1>10. AllSound(ts)
  BY <1>1, <1>8, <1>9 DEF AllSound, Sound
<1>11. Hangs(ts, h, bodies)
  BY <1>8, <1>9 DEF Hangs
<1>12. ProtoUnits(item, ts) = UnitsUnder(item, h, bodies)
  BY <1>1, <1>3, <1>8, <1>11, HangingUnits
<1>13. ProtosHave(item, ts, BlockUnits(item, block))
  BY <1>3, <1>8, <1>10, <1>12 DEF ProtosHave
<1> QED
  BY <1>13 DEF ts

\* flush keeps the units of buf, in order, and yields sound texts.
LEMMA FlushedKeeps ==
  ASSUME NEW bodies \in Seq(Piece), AllTextBodies(bodies), NEW item \in Nat
  PROVE  ProtosHave(item, Flushed(bodies), UnitsUnder(item, <<>>, bodies))
<1> DEFINE ps == Packed(bodies, 0, TargetTokens, 2)
           fs == Flushed(bodies)
<1>0. 0 \in Nat /\ 2 \in Nat /\ TargetTokens \in Nat /\ <<>> \in Seq(Text) /\ 2 \in {1, 2}
  BY Limits
<1>1. Plain(bodies)
  BY PlainBodies
<1>2. Repacked(item, <<>>, ps, bodies)
  BY <1>0, PackedKeeps
<1>3. \A j \in 1 .. Len(ps) : FromPieces(ps[j], bodies) \/ ps[j].len < 9 * TargetTokens
  BY <1>0, PackedSizes
<1>4. fs = [p \in DOMAIN ps |-> [is_table |-> FALSE, body |-> ps[p]]]
  BY DEF Flushed
<1> HIDE DEF ps, fs
<1>5. ps \in Seq(Piece) /\ UnitsUnder(item, <<>>, ps) = UnitsUnder(item, <<>>, bodies) /\ Plain(ps)
  BY <1>1, <1>2 DEF Repacked
<1>6. DOMAIN ps = 1 .. Len(ps) /\ Len(ps) \in Nat /\ \A p \in 1 .. Len(ps) : ps[p] \in Piece
  BY <1>5
<1>7. fs \in [1 .. Len(ps) -> Proto]
  BY <1>4, <1>6 DEF Proto
<1>8. fs \in Seq(Proto) /\ Len(fs) = Len(ps)
  BY <1>6, <1>7, FunctionSeq
<1>9. \A p \in 1 .. Len(ps) : fs[p].is_table = FALSE /\ fs[p].body = ps[p]
  BY <1>4, <1>6
<1>10. \A p \in 1 .. Len(ps) : ps[p].header = <<>>
  BY <1>5 DEF Plain
<1>11. ASSUME NEW j \in 1 .. Len(ps) PROVE TextBody(ps[j])
  <2>1. CASE FromPieces(ps[j], bodies)
    BY <2>1 DEF FromPieces, AllTextBodies
  <2>2. CASE ~FromPieces(ps[j], bodies)
    BY <1>3, <1>10, <2>2 DEF TextBody
  <2> QED
    BY <2>1, <2>2
<1>12. AllSound(fs)
  BY <1>8, <1>9, <1>11 DEF AllSound, Sound
<1>13. Hangs(fs, <<>>, ps)
  BY <1>8, <1>9, <1>10 DEF Hangs
<1>14. ProtoUnits(item, fs) = UnitsUnder(item, <<>>, ps)
  BY <1>0, <1>5, <1>8, <1>13, HangingUnits
<1>15. ProtosHave(item, fs, UnitsUnder(item, <<>>, bodies))
  BY <1>5, <1>8, <1>12, <1>14 DEF ProtosHave
<1> QED
  BY <1>15 DEF fs

-----------------------------------------------------------------------------
(***************************************************************************)
(* The units of protos, blocks and sections, turn by turn.                 *)
(***************************************************************************)

\* UnitsType, of bodies.
LEMMA ProtoType ==
  ASSUME NEW item \in Nat, NEW s \in Seq(Proto)
  PROVE  ProtoUnits(item, s) \in Seq(Unit)
<1>1. TagProto(item) \in Maps(Proto, Seq(Unit))
  BY TagProtoMaps
<1> QED
  BY <1>1, UnitsType DEF ProtoUnits

\* UnitsEmpty, of bodies.
LEMMA ProtoEmpty ==
  ASSUME NEW item
  PROVE  ProtoUnits(item, <<>>) = <<>>
  BY UnitsEmpty DEF ProtoUnits

\* UnitsAppend, of bodies.
LEMMA ProtoAppend ==
  ASSUME NEW item \in Nat, NEW s \in Seq(Proto), NEW p \in Proto
  PROVE  ProtoUnits(item, Append(s, p))
           = ProtoUnits(item, s) \o Tag(item, p.body.header, p.body.units)
<1>1. TagProto(item) \in Maps(Proto, Seq(Unit))
      /\ TagProto(item)[p] = Tag(item, p.body.header, p.body.units)
  BY TagProtoMaps
<1>2. Units(TagProto(item), Append(s, p)) = Units(TagProto(item), s) \o TagProto(item)[p]
  BY <1>1, UnitsAppend
<1> QED
  BY <1>1, <1>2 DEF ProtoUnits

\* UnitsConcat, of bodies.
LEMMA ProtoConcat ==
  ASSUME NEW item \in Nat, NEW s \in Seq(Proto), NEW t \in Seq(Proto)
  PROVE  ProtoUnits(item, s \o t) = ProtoUnits(item, s) \o ProtoUnits(item, t)
<1>1. TagProto(item) \in Maps(Proto, Seq(Unit))
  BY TagProtoMaps
<1> QED
  BY <1>1, UnitsConcat DEF ProtoUnits

\* UnitsTurn, of bodies.
LEMMA ProtoTurn ==
  ASSUME NEW item \in Nat, NEW s \in Seq(Proto), NEW k \in 0 .. Len(s) - 1
  PROVE  ProtoUnits(item, SubSeq(s, 1, k + 1))
           = ProtoUnits(item, SubSeq(s, 1, k)) \o Tag(item, s[k + 1].body.header, s[k + 1].body.units)
<1>1. SubSeq(s, 1, k) \in Seq(Proto) /\ s[k + 1] \in Proto
  OBVIOUS
<1>2. SubSeq(s, 1, k + 1) = Append(SubSeq(s, 1, k), s[k + 1])
  OBVIOUS
<1> QED
  BY <1>1, <1>2, ProtoAppend

\* A text merged into the one before it.
WithBody(p, body) == [p EXCEPT !.body = body]

\* What changes when a body is replaced.
LEMMA WithBodyType ==
  ASSUME NEW p \in Proto, NEW body \in Piece
  PROVE  /\ WithBody(p, body) \in Proto
         /\ WithBody(p, body).is_table = p.is_table
         /\ WithBody(p, body).body = body
  BY DEF WithBody, Proto

\* Two bodies that may be merged make a sound text, no smaller than the first.
LEMMA MergedProto ==
  ASSUME NEW p \in Proto, NEW q \in Proto, Sound(p), Sound(q), Mergeable(p, q)
  PROVE  /\ WithBody(p, Glue(p.body, q.body, 2)) \in Proto
         /\ WithBody(p, Glue(p.body, q.body, 2)).is_table = FALSE
         /\ WithBody(p, Glue(p.body, q.body, 2)).body = Glue(p.body, q.body, 2)
         /\ Glue(p.body, q.body, 2) \in Piece
         /\ TextBody(Glue(p.body, q.body, 2))
         /\ approx_tokens(Glue(p.body, q.body, 2)) >= approx_tokens(p.body)
<1> DEFINE a == p.body
           b == q.body
           x == Glue(a, b, 2)
           w == WithBody(p, x)
<1>1. /\ p.is_table = FALSE /\ q.is_table = FALSE
      /\ a \in Piece /\ b \in Piece
      /\ approx_tokens(a) + approx_tokens(b) <= MaxTokens + MergeSlack
  BY DEF Mergeable, Proto
<1>2. a.header = <<>> /\ b.header = <<>>
  BY <1>1 DEF Sound, TextBody
<1>3. a.len \in Nat /\ b.len \in Nat
  BY <1>1 DEF Piece
<1> HIDE DEF a, b
<1>5. x \in Piece /\ x.len = a.len + 2 + b.len /\ x.header = a.header \o b.header
  <2>1. 2 \in Nat
    OBVIOUS
  <2> QED
    BY <1>1, <2>1, GlueType
<1>6. x.header = <<>>
  <2>1. <<>> \o <<>> = <<>>
    OBVIOUS
  <2> QED
    BY <1>2, <1>5, <2>1
<1> HIDE DEF x
<1>7. approx_tokens(x) >= approx_tokens(a)
      /\ approx_tokens(x) <= approx_tokens(a) + approx_tokens(b) + 2
  BY <1>1, <1>5, TokensOfTwo
<1>8. approx_tokens(x) <= MaxTokens + MergeSlack + 2
  <2>1. approx_tokens(a) \in Nat /\ approx_tokens(b) \in Nat /\ approx_tokens(x) \in Nat
    BY <1>1, <1>5, TokensOfPiece
  <2> QED
    BY <1>1, <1>7, <2>1, Limits
<1>9. TextBody(x)
  BY <1>6, <1>8 DEF TextBody
<1>10. w \in Proto /\ w.is_table = FALSE /\ w.body = x
  BY <1>1, <1>5, WithBodyType
<1> QED
  BY <1>5, <1>7, <1>9, <1>10 DEF a, b, x

\* Merging a body into the last one adds its units.
LEMMA ProtoMerge ==
  ASSUME NEW item \in Nat, NEW s \in Seq(Proto), s # <<>>, NEW q \in Proto,
         Sound(s[Len(s)]), Sound(q), Mergeable(s[Len(s)], q)
  PROVE  ProtoUnits(item, LastReplaced(s, WithBody(s[Len(s)], Glue(s[Len(s)].body, q.body, 2))))
           = ProtoUnits(item, s) \o Tag(item, q.body.header, q.body.units)
<1> DEFINE p    == s[Len(s)]
           y    == Glue(p.body, q.body, 2)
           x    == WithBody(p, y)
           g    == TagProto(item)
           more == Tag(item, q.body.header, q.body.units)
<1>1. p \in Proto /\ Sound(p) /\ Sound(q) /\ Mergeable(p, q)
  OBVIOUS
<1>2. g \in Maps(Proto, Seq(Unit)) /\ \A r \in Proto : g[r] = Tag(item, r.body.header, r.body.units)
  BY TagProtoMaps
<1>3. x \in Proto /\ x.body = y /\ TextBody(y)
  <2> HIDE DEF p
  <2>1. x \in Proto
    BY <1>1, MergedProto
  <2>2. x.body = y
    BY <1>1, MergedProto
  <2>3. TextBody(y)
    BY <1>1, MergedProto
  <2> QED
    BY <2>1, <2>2, <2>3
<1>4. p.is_table = FALSE /\ q.is_table = FALSE
  <2> HIDE DEF p
  <2> QED
    BY <1>1 DEF Mergeable, Proto, p
<1>5. p.body.header = <<>> /\ q.body.header = <<>> /\ y.header = <<>>
  <2> HIDE DEF p, y
  <2>1. Sound(p) /\ Sound(q)
    BY DEF p
  <2> QED
    BY <1>3, <1>4, <2>1 DEF Sound, TextBody
<1> HIDE DEF p
<1>6. p.body \in Piece /\ q.body \in Piece
  BY <1>1 DEF Proto
<1>7. y.units = p.body.units \o q.body.units
  <2>1. 2 \in Nat
    OBVIOUS
  <2> QED
    BY <1>6, <2>1, GlueType
<1>8. p.body.units \in Seq(Seq(Text)) /\ q.body.units \in Seq(Seq(Text)) /\ <<>> \in Seq(Text)
  BY <1>6 DEF Piece
<1>9. more \in Seq(Unit)
  BY <1>5, <1>8, TagType
<1>10. g[x] = g[p] \o more
  <2> HIDE DEF x, y, g
  <2>1. Tag(item, <<>>, p.body.units \o q.body.units) = Tag(item, <<>>, p.body.units) \o Tag(item, <<>>, q.body.units)
    BY <1>8, TagConcat
  <2>2. g[x] = Tag(item, <<>>, p.body.units \o q.body.units)
    BY <1>2, <1>3, <1>5, <1>7
  <2>3. g[p] = Tag(item, <<>>, p.body.units)
    BY <1>1, <1>2, <1>5
  <2>4. more = Tag(item, <<>>, q.body.units)
    BY <1>5
  <2> QED
    BY <2>1, <2>2, <2>3, <2>4
<1> HIDE DEF x, y, g, more
<1>11. HasMore(g, s, x, more)
  BY <1>10 DEF HasMore, p
<1>12. Units(g, LastReplaced(s, x)) = Units(g, s) \o more
  <2>1. g \in Maps(Proto, Seq(Unit)) /\ x \in Proto
    BY <1>2, <1>3
  <2> QED
    BY <1>9, <1>11, <2>1, UnitsExtend
<1> QED
  BY <1>12 DEF p, x, y, g, more, ProtoUnits

\* UnitsTurn, of blocks.
LEMMA BlockTurn ==
  ASSUME NEW item \in Nat, NEW s \in Seq(Block), NEW k \in 0 .. Len(s) - 1
  PROVE  /\ AllBlockUnits(item, SubSeq(s, 1, k + 1))
              = AllBlockUnits(item, SubSeq(s, 1, k)) \o BlockUnits(item, s[k + 1])
         /\ AllBlockUnits(item, SubSeq(s, 1, k)) \in Seq(Unit)
         /\ BlockUnits(item, s[k + 1]) \in Seq(Unit)
<1> DEFINE g == TagBlock(item)
           b == s[k + 1]
<1>1. b \in Block /\ SubSeq(s, 1, k) \in Seq(Block)
  OBVIOUS
<1>2. g \in Maps(Block, Seq(Unit)) /\ g[b] = BlockUnits(item, b)
  <2> HIDE DEF b
  <2> QED
    BY <1>1, TagBlockMaps
<1>3. Units(g, SubSeq(s, 1, k + 1)) = Units(g, SubSeq(s, 1, k)) \o g[b]
  <2> HIDE DEF g
  <2> QED
    BY <1>2, UnitsTurn
<1>4. Units(g, SubSeq(s, 1, k)) \in Seq(Unit)
  BY <1>1, <1>2, UnitsType
<1>5. g[b] \in Seq(Unit)
  <2> HIDE DEF g, b
  <2> QED
    BY <1>1, <1>2 DEF Maps
<1> QED
  BY <1>2, <1>3, <1>4, <1>5 DEF AllBlockUnits

\* UnitsTurn, of sections.
LEMMA SectionTurn ==
  ASSUME NEW s \in Seq(Section), NEW k \in 0 .. Len(s) - 1
  PROVE  AllSectionUnits(SubSeq(s, 1, k + 1)) = AllSectionUnits(SubSeq(s, 1, k)) \o SectionUnits(s[k + 1])
<1>1. s[k + 1] \in Section
  OBVIOUS
<1>2. TagSection \in Maps(Section, Seq(Unit)) /\ TagSection[s[k + 1]] = SectionUnits(s[k + 1])
  BY <1>1, TagSectionMaps, SectionUnitsAre
<1>3. Units(TagSection, SubSeq(s, 1, k + 1)) = Units(TagSection, SubSeq(s, 1, k)) \o TagSection[s[k + 1]]
  BY <1>2, UnitsTurn
<1> QED
  BY <1>2, <1>3 DEF AllSectionUnits

-----------------------------------------------------------------------------
(***************************************************************************)
(* CutAtRecords, of any blocks and sections.                               *)
(***************************************************************************)

\* IsCut is CutAtRecords, of the blocks and sections at hand.
LEMMA CutAtRecordsIsCut ==
  ASSUME NEW n, sections \in Seq(Section)
  PROVE  CutAtRecords(n) <=> IsCut(blocks, sections, n)
<1>1. DOMAIN sections = 1 .. Len(sections)
  OBVIOUS
<1>2. Records(n) = RecordsIn(blocks, n)
  BY DEF Records, RecordsIn, IsRecord
<1> DEFINE S == [1 .. Len(sections) -> {0} \cup RecordsIn(blocks, n)]
<1>3. CutAtRecords(n)
        <=> \E start \in S :
              /\ start[1] = 0
              /\ \A p \in RecordsIn(blocks, n) : \E s \in 1 .. Len(sections) : start[s] = p
              /\ \A s \in 1 .. Len(sections) : CutHere(start, blocks, sections, n, s)
  BY <1>1, <1>2 DEF CutAtRecords, CutHere, Stop
<1> QED
  BY <1>3 DEF IsCut, CutBy

\* The Item of a heading is a number, 0 without one.
LEMMA MatchType ==
  ASSUME NEW block \in Block
  PROVE  match_item_heading(block) \in Nat
<1>1. block.item \in Nat
  BY BlockType
<1> QED
  BY <1>1 DEF match_item_heading

\* One block more is one record more, or none.
LEMMA RecordsNext ==
  ASSUME NEW bs, NEW n \in Nat
  PROVE  RecordsIn(bs, n + 1) = RecordsIn(bs, n) \cup (IF IsRecord(bs, n + 1) THEN {n + 1} ELSE {})
<1>1. \A p : p \in 1 .. n + 1 <=> p \in 1 .. n \/ p = n + 1
  OBVIOUS
<1> QED
  BY <1>1 DEF RecordsIn

\* A section opened at a record extends the cut by this block.
LEMMA CutOpened ==
  ASSUME NEW bs \in Seq(Block), NEW ss \in Seq(Section), ss # <<>>, NEW n \in 0 .. Len(bs) - 1,
         IsCut(bs, ss, n), IsRecord(bs, n + 1),
         NEW new \in Section, new.blocks = <<>>, new.item = match_item_heading(bs[n + 1])
  PROVE  IsCut(bs, Append(ss, new), n + 1)
<1> DEFINE k  == Len(ss)
           tt == Append(ss, new)
<1>0. n \in Nat /\ k \in Nat /\ k >= 1
  OBVIOUS
<1>1. PICK start : CutBy(start, bs, ss, n)
  BY DEF IsCut
<1>2. /\ start \in [1 .. k -> {0} \cup RecordsIn(bs, n)]
      /\ start[1] = 0
      /\ \A p \in RecordsIn(bs, n) : \E s \in 1 .. k : start[s] = p
      /\ \A s \in 1 .. k : CutHere(start, bs, ss, n, s)
  BY <1>1 DEF CutBy
<1>3. RecordsIn(bs, n + 1) = RecordsIn(bs, n) \cup {n + 1}
  BY <1>0, RecordsNext
<1>4. /\ Len(tt) = k + 1 /\ tt[k + 1] = new /\ \A s \in 1 .. k : tt[s] = ss[s]
  OBVIOUS
<1>5. \A s \in 1 .. k : start[s] \in Nat /\ start[s] <= n
  BY <1>0, <1>2 DEF RecordsIn
<1> DEFINE longer == [s \in 1 .. k + 1 |-> IF s = k + 1 THEN n + 1 ELSE start[s]]
<1> HIDE DEF k, tt
<1>6. longer \in [1 .. k + 1 -> {0} \cup RecordsIn(bs, n + 1)]
  <2>1. ASSUME NEW s \in 1 .. k + 1
        PROVE  (IF s = k + 1 THEN n + 1 ELSE start[s]) \in {0} \cup RecordsIn(bs, n + 1)
    <3>1. CASE s = k + 1
      BY <1>3, <3>1
    <3>2. CASE s # k + 1
      <4>1. s \in 1 .. k
        BY <1>0, <3>2
      <4> QED
        BY <1>2, <1>3, <3>2, <4>1
    <3> QED
      BY <3>1, <3>2
  <2> QED
    BY <2>1
<1>7. longer[k + 1] = n + 1 /\ \A s \in 1 .. k : longer[s] = start[s]
  BY <1>0
<1> HIDE DEF longer
<1>8. longer[1] = 0
  BY <1>0, <1>2, <1>7
<1>9. ASSUME NEW p \in RecordsIn(bs, n + 1) PROVE \E s \in 1 .. k + 1 : longer[s] = p
  <2>1. CASE p = n + 1
    BY <1>0, <1>7, <2>1
  <2>2. CASE p \in RecordsIn(bs, n)
    <3>1. PICK s \in 1 .. k : start[s] = p
      BY <1>2, <2>2
    <3>2. s \in 1 .. k + 1 /\ longer[s] = p
      BY <1>0, <1>7, <3>1
    <3> QED
      BY <3>2
  <2> QED
    BY <1>3, <2>1, <2>2
<1>10. ASSUME NEW s \in 1 .. k + 1 PROVE CutHere(longer, bs, tt, n + 1, s)
  <2>1. CASE s = k + 1
    <3>1. Stop(longer, Len(tt), s, n + 1) = n + 2 /\ longer[s] = n + 1 /\ tt[s] = new
      BY <1>0, <1>4, <1>7, <2>1 DEF Stop
    <3>2. SubSeq(bs, (n + 1) + 1, (n + 2) - 1) = <<>>
      BY <1>0
    <3>3. n + 1 < n + 2
      BY <1>0
    <3>4. CutHere(longer, bs, tt, n + 1, s)
          <=> /\ n + 1 < n + 2
              /\ new.blocks = SubSeq(bs, (n + 1) + 1, (n + 2) - 1)
              /\ s > 1 => new.item = match_item_heading(bs[n + 1])
      BY <3>1 DEF CutHere
    <3> QED
      BY <3>2, <3>3, <3>4
  <2>2. CASE s # k + 1
    <3>1. s \in 1 .. k /\ s + 1 \in 1 .. k + 1 /\ s # Len(tt)
      BY <1>0, <1>4, <2>2
    <3>2. longer[s] = start[s] /\ tt[s] = ss[s] /\ CutHere(start, bs, ss, n, s)
      BY <1>2, <1>4, <1>7, <3>1
    <3>3. Stop(longer, Len(tt), s, n + 1) = Stop(start, k, s, n)
      <4>1. CASE s = k
        BY <1>7, <3>1, <4>1 DEF Stop
      <4>2. CASE s # k
        <5>1. s + 1 \in 1 .. k
          BY <1>0, <3>1, <4>2
        <5> QED
          BY <1>7, <3>1, <4>2, <5>1 DEF Stop
      <4> QED
        BY <4>1, <4>2
    <3> QED
      BY <3>2, <3>3 DEF CutHere, k
  <2> QED
    BY <2>1, <2>2
<1>11. CutBy(longer, bs, tt, n + 1)
  BY <1>4, <1>6, <1>8, <1>9, <1>10 DEF CutBy
<1> QED
  BY <1>11 DEF IsCut, tt

\* A section with another block.
WithBlock(section, block) == [section EXCEPT !.blocks = Append(@, block)]

\* What changes when a section gets one more block.
LEMMA WithBlockType ==
  ASSUME NEW section \in Section, NEW block \in Block
  PROVE  /\ WithBlock(section, block) \in Section
         /\ WithBlock(section, block).item = section.item
         /\ WithBlock(section, block).blocks = Append(section.blocks, block)
<1>1. section.blocks \in Seq(Block) /\ Append(section.blocks, block) \in Seq(Block)
  BY DEF Section
<1> DEFINE bs == Append(section.blocks, block)
<1>2. WithBlock(section, block) = [section EXCEPT !.blocks = bs]
  BY DEF WithBlock
<1>3. bs \in Seq(Block)
  BY <1>1
<1> HIDE DEF bs
<1>4. WithBlock(section, block) \in Section /\ WithBlock(section, block).item = section.item
      /\ WithBlock(section, block).blocks = bs
  BY <1>2, <1>3 DEF Section
<1> QED
  BY <1>4 DEF bs

\* The last section, extended by a block that is no record, extends the cut by it.
LEMMA CutExtended ==
  ASSUME NEW bs \in Seq(Block), NEW ss \in Seq(Section), ss # <<>>, NEW n \in 0 .. Len(bs) - 1,
         IsCut(bs, ss, n), ~IsRecord(bs, n + 1)
  PROVE  IsCut(bs, LastReplaced(ss, WithBlock(ss[Len(ss)], bs[n + 1])), n + 1)
<1> DEFINE k    == Len(ss)
           last == ss[k]
           new  == WithBlock(last, bs[n + 1])
           tt   == LastReplaced(ss, new)
<1>0. n \in Nat /\ k \in Nat /\ k >= 1 /\ k \in 1 .. k /\ bs[n + 1] \in Block
  OBVIOUS
<1>1. PICK start : CutBy(start, bs, ss, n)
  BY DEF IsCut
<1>2. /\ start \in [1 .. k -> {0} \cup RecordsIn(bs, n)]
      /\ start[1] = 0
      /\ \A p \in RecordsIn(bs, n) : \E s \in 1 .. k : start[s] = p
      /\ \A s \in 1 .. k : CutHere(start, bs, ss, n, s)
  BY <1>1 DEF CutBy
<1>3. RecordsIn(bs, n + 1) = RecordsIn(bs, n)
  <2>1. RecordsIn(bs, n + 1) = RecordsIn(bs, n) \cup (IF IsRecord(bs, n + 1) THEN {n + 1} ELSE {})
    BY <1>0, RecordsNext
  <2> QED
    BY <2>1
<1>4. last \in Section
  BY <1>0
<1> HIDE DEF last
<1>5. new \in Section /\ new.item = last.item /\ new.blocks = Append(last.blocks, bs[n + 1])
  BY <1>0, <1>4, WithBlockType
<1> HIDE DEF new
<1>6. Len(tt) = k /\ \A s \in 1 .. k : tt[s] = IF s = k THEN new ELSE ss[s]
  BY <1>0, <1>5, ExceptSeq DEF LastReplaced
<1>7. \A s \in 1 .. k : start[s] \in Nat /\ start[s] <= n
  BY <1>0, <1>2 DEF RecordsIn
<1> HIDE DEF k, tt
<1>8. ASSUME NEW s \in 1 .. k PROVE CutHere(start, bs, tt, n + 1, s)
  <2>0. CutHere(start, bs, ss, n, s)
    BY <1>2
  <2>1. CASE s = k
    <3> DEFINE a == start[k]
    <3>1. a \in Nat /\ a <= n
      BY <1>0, <1>7
    <3>2. Stop(start, k, k, n) = n + 1 /\ Stop(start, k, k, n + 1) = n + 2
      BY <1>0 DEF Stop
    <3>3. last.blocks = SubSeq(bs, a + 1, n) /\ (k > 1 => last.item = match_item_heading(bs[a]))
      <4>1. (n + 1) - 1 = n
        BY <1>0
      <4> QED
        BY <2>0, <2>1, <3>2, <4>1 DEF CutHere, k, last
    <3> HIDE DEF a
    <3>4. Append(SubSeq(bs, a + 1, n), bs[n + 1]) = SubSeq(bs, a + 1, n + 1)
      BY <1>0, <3>1
    <3>5. a < n + 2 /\ (n + 2) - 1 = n + 1
      BY <1>0, <3>1
    <3>6. tt[k] = new
      BY <1>0, <1>6
    <3>7. new.blocks = SubSeq(bs, a + 1, (n + 2) - 1)
      BY <1>5, <3>3, <3>4, <3>5
    <3>8. start[k] = a
      BY DEF a
    <3> QED
      BY <1>5, <1>6, <2>1, <3>2, <3>3, <3>5, <3>6, <3>7, <3>8 DEF CutHere
  <2>2. CASE s # k
    <3>1. Stop(start, k, s, n + 1) = Stop(start, k, s, n) /\ tt[s] = ss[s]
      BY <1>6, <2>2 DEF Stop
    <3> QED
      BY <1>6, <2>0, <3>1 DEF CutHere, k
  <2> QED
    BY <2>1, <2>2
<1>9. CutBy(start, bs, tt, n + 1)
  BY <1>2, <1>3, <1>6, <1>8 DEF CutBy
<1> QED
  BY <1>9 DEF IsCut, tt, new, last, k

\* The Item of the last section is that of a block before n.
LEMMA LastHeading ==
  ASSUME NEW bs \in Seq(Block), NEW ss \in Seq(Section), ss # <<>>, NEW n \in 0 .. Len(bs) - 1,
         IsCut(bs, ss, n), ss[1].item = 0, IsRecord(bs, n + 1)
  PROVE  match_item_heading(bs[n + 1]) > ss[Len(ss)].item
<1> DEFINE k == Len(ss)
<1>0. n \in Nat /\ k \in Nat /\ k >= 1
  OBVIOUS
<1>1. PICK start : CutBy(start, bs, ss, n)
  BY DEF IsCut
<1>2. CASE k = 1
  BY <1>2 DEF IsRecord
<1>3. CASE k # 1
  <2> HIDE DEF k
  <2>1. /\ start \in [1 .. k -> {0} \cup RecordsIn(bs, n)]
        /\ \A s \in 1 .. k : CutHere(start, bs, ss, n, s)
    BY <1>1 DEF CutBy, k
  <2>2. k \in 1 .. k /\ k - 1 \in 1 .. k /\ k - 1 # k /\ (k - 1) + 1 = k /\ k > 1
    BY <1>0, <1>3
  <2>3. k > 1 => ss[k].item = match_item_heading(bs[start[k]])
    BY <2>1, <2>2 DEF CutHere
  <2>4. start[k - 1] < start[k]
    <3>1. start[k - 1] < Stop(start, k, k - 1, n)
      BY <2>1, <2>2 DEF CutHere, k
    <3> QED
      BY <2>2, <3>1 DEF Stop
  <2>5. start[k - 1] \in Nat /\ start[k] \in {0} \cup RecordsIn(bs, n)
    BY <2>1, <2>2 DEF RecordsIn
  <2>6. start[k] \in 1 .. n
    BY <2>4, <2>5 DEF RecordsIn
  <2>7. match_item_heading(bs[n + 1]) > match_item_heading(bs[start[k]])
    <3>1. (n + 1) - 1 = n
      BY <1>0
    <3> QED
      BY <2>6, <3>1 DEF IsRecord
  <2> QED
    BY <2>2, <2>3, <2>7 DEF k
<1> QED
  BY <1>2, <1>3

-----------------------------------------------------------------------------
(***************************************************************************)
(* The invariant is inductive.                                             *)
(***************************************************************************)

\* A sequence with another last element.
LEMMA LastReplacedType ==
  ASSUME NEW S, NEW s \in Seq(S), s # <<>>, NEW x \in S
  PROVE  /\ LastReplaced(s, x) \in Seq(S)
         /\ Len(LastReplaced(s, x)) = Len(s)
         /\ \A i \in 1 .. Len(s) : LastReplaced(s, x)[i] = IF i = Len(s) THEN x ELSE s[i]
<1>1. Len(s) \in 1 .. Len(s)
  OBVIOUS
<1> QED
  BY <1>1, ExceptSeq DEF LastReplaced

\* What a section is.
LEMMA SectionAt ==
  ASSUME NEW s \in Seq(Section), NEW i \in 1 .. Len(s)
  PROVE  s[i] \in Section /\ s[i].item \in Nat /\ s[i].blocks \in Seq(Block)
<1>1. s[i] \in Section
  OBVIOUS
<1> QED
  BY <1>1 DEF Section

\* The invariant holds before parse_10k takes its first block.
LEMMA InitEstablishes ==
  Init => IInv
<1> SUFFICES ASSUME Init PROVE IInv
  OBVIOUS
<1> DEFINE cover == [item |-> 0, heading |-> <<>>, blocks |-> <<>>]
<1>1. /\ blocks \in Seq(Block) /\ pc = "parse" /\ turn = 0 /\ sections = <<cover>>
      /\ last_idx = 0 /\ sec = 0 /\ parts = <<>> /\ protos = <<>> /\ merged = <<>> /\ chunks = <<>>
  BY DEF Init, Start
<1>2. cover \in Section /\ cover.item = 0 /\ cover.blocks = <<>>
  <2>1. <<>> \in Seq(Block) /\ 0 \in Nat
    OBVIOUS
  <2> QED
    BY <2>1 DEF Section
<1> HIDE DEF cover
<1>3. sections \in Seq(Section) /\ Len(sections) = 1 /\ sections[1] = cover /\ sections # <<>>
  BY <1>1, <1>2
<1>4. Len(blocks) \in Nat
  BY <1>1
<1>5. TypeOK
  <2>1. /\ <<>> \in Seq(Piece) /\ <<>> \in Seq(Proto) /\ <<>> \in Seq(Chunk)
    OBVIOUS
  <2> QED
    BY <1>1, <1>3, <2>1 DEF TypeOK
<1>6. InRange
  BY <1>1, <1>3, <1>4 DEF InRange
<1>7. InOrder
  <2>1. DOMAIN sections = 1 .. 1
    BY <1>3
  <2> QED
    BY <1>1, <1>2, <1>3, <2>1 DEF InOrder
<1>8. CutSoFar
  <2> DEFINE start == [s \in 1 .. 1 |-> 0]
  <2>1. RecordsIn(blocks, 0) = {}
    BY DEF RecordsIn
  <2>2. start \in [1 .. Len(sections) -> {0} \cup RecordsIn(blocks, 0)] /\ start[1] = 0
    BY <1>3
  <2> HIDE DEF start
  <2>3. CutHere(start, blocks, sections, 0, 1)
    <3>1. Stop(start, 1, 1, 0) = 1
      BY DEF Stop
    <3>2. SubSeq(blocks, 0 + 1, 1 - 1) = <<>>
      BY <1>1
    <3>3. CutHere(start, blocks, sections, 0, 1)
          <=> /\ 0 < 1
              /\ cover.blocks = SubSeq(blocks, 0 + 1, 1 - 1)
              /\ 1 > 1 => cover.item = match_item_heading(blocks[0])
      BY <1>3, <2>2, <3>1 DEF CutHere
    <3> QED
      BY <1>2, <3>2, <3>3
  <2>4. CutBy(start, blocks, sections, 0)
    BY <1>3, <2>1, <2>2, <2>3 DEF CutBy
  <2> QED
    BY <1>1, <2>4 DEF CutSoFar, IsCut
<1>9. BodiesSound
  BY <1>1 DEF BodiesSound, AllTextBodies, AllSound
<1>10. UnitsSoFar
  BY <1>1 DEF UnitsSoFar
<1>11. Causes
  BY <1>1 DEF Causes
<1> QED
  BY <1>5, <1>6, <1>7, <1>8, <1>9, <1>10, <1>11 DEF IInv

\* What TakeBlock does to sections depends on whether the block is a record.
LEMMA TakeBlockSections ==
  ASSUME TypeOK, InRange, InOrder, CutSoFar, TakeBlock
  PROVE  /\ turn \in 0 .. Len(blocks) - 1
         /\ blocks[turn + 1] \in Block
         /\ match_item_heading(blocks[turn + 1]) \in Nat
         /\ IsRecord(blocks, turn + 1) <=> match_item_heading(blocks[turn + 1]) > last_idx
<1> DEFINE b   == blocks[turn + 1]
           idx == match_item_heading(b)
<1>1. /\ pc = "parse" /\ turn \in 0 .. Len(blocks) - 1 /\ turn \in Nat
      /\ blocks \in Seq(Block) /\ sections \in Seq(Section) /\ sections # <<>>
      /\ last_idx \in Nat
  BY DEF TakeBlock, TypeOK, InRange
<1>2. b \in Block
  BY <1>1
<1>3. idx \in Nat
  <2> HIDE DEF b
  <2> QED
    BY <1>2, MatchType
<1>4. IsRecord(blocks, turn + 1) => idx > last_idx
  <2> SUFFICES ASSUME IsRecord(blocks, turn + 1) PROVE idx > last_idx
    OBVIOUS
  <2>1. IsCut(blocks, sections, turn)
    BY <1>1 DEF CutSoFar
  <2>2. sections[1].item = 0 /\ last_idx = sections[Len(sections)].item
    BY DEF InOrder
  <2> QED
    BY <1>1, <2>1, <2>2, LastHeading
<1>5. idx > last_idx => IsRecord(blocks, turn + 1)
  <2> SUFFICES ASSUME idx > last_idx PROVE IsRecord(blocks, turn + 1)
    OBVIOUS
  <2>1. \A q \in 1 .. turn : match_item_heading(blocks[q]) <= last_idx
    BY <1>1 DEF InOrder
  <2>2. ASSUME NEW q \in 1 .. (turn + 1) - 1 PROVE idx > match_item_heading(blocks[q])
    <3>1. q \in 1 .. turn /\ blocks[q] \in Block
      BY <1>1
    <3>2. match_item_heading(blocks[q]) \in Nat
      BY <3>1, MatchType
    <3> QED
      BY <1>1, <1>3, <2>1, <3>1, <3>2
  <2>3. idx > 0
    BY <1>1, <1>3
  <2> QED
    BY <2>2, <2>3 DEF IsRecord
<1> QED
  BY <1>1, <1>2, <1>3, <1>4, <1>5

\* Extended replaces the last section.
LEMMA ExtendedIs ==
  ASSUME NEW b
  PROVE  Extended(b) = LastReplaced(sections, WithBlock(sections[Len(sections)], b))
  BY DEF Extended, LastReplaced, WithBlock

\* A turn of the loop in parse_10k keeps the invariant.
LEMMA TakeBlockStep ==
  ASSUME IInv, TakeBlock
  PROVE  IInv'
<1> DEFINE b   == blocks[turn + 1]
           idx == match_item_heading(b)
           n   == Len(sections)
<1>0. TypeOK /\ InRange /\ InOrder /\ CutSoFar /\ BodiesSound /\ UnitsSoFar /\ Causes
  BY DEF IInv
<1>1. /\ turn \in 0 .. Len(blocks) - 1 /\ b \in Block /\ idx \in Nat
      /\ IsRecord(blocks, turn + 1) <=> idx > last_idx
  BY <1>0, TakeBlockSections
<1>2. /\ blocks \in Seq(Block) /\ sections \in Seq(Section) /\ sections # <<>> /\ last_idx \in Nat
      /\ turn \in Nat
  BY <1>0 DEF TypeOK, InRange
<1>3. /\ pc = "parse" /\ pc' = "parse" /\ turn' = turn + 1 /\ blocks' = blocks
      /\ UNCHANGED <<sec, parts, protos, merged, chunks>>
      /\ \/ idx > last_idx /\ sections' = Opened(b) /\ last_idx' = idx
         \/ idx <= last_idx /\ sections' = Extended(b) /\ last_idx' = last_idx
  BY DEF TakeBlock
<1>4. IsCut(blocks, sections, turn)
  BY <1>0, <1>3 DEF CutSoFar
<1>5. /\ \A s, t \in 1 .. n : s < t => sections[s].item < sections[t].item
      /\ sections[1].item = 0
      /\ last_idx = sections[n].item
      /\ \A p \in 1 .. turn : match_item_heading(blocks[p]) <= last_idx
  BY <1>0, <1>2, <1>3 DEF InOrder
<1>6. n \in Nat /\ n >= 1 /\ n \in 1 .. n /\ 1 \in 1 .. n
  BY <1>2
<1> HIDE DEF b, idx, n
<1>7. \A s \in 1 .. n : sections[s].item \in Nat
  BY <1>2, SectionAt DEF n
<1>8. /\ sections' \in Seq(Section) /\ sections' # <<>> /\ last_idx' \in Nat
      /\ InOrder' /\ CutSoFar'
  <2>1. CASE idx > last_idx /\ sections' = Opened(b) /\ last_idx' = idx
    <3> DEFINE new == [item |-> idx, heading |-> <<b>>, blocks |-> <<>>]
    <3>1. sections' = Append(sections, new)
      BY <2>1 DEF Opened, idx
    <3>2. new \in Section /\ new.item = idx /\ new.blocks = <<>>
      <4>1. <<b>> \in Seq(Block) /\ <<>> \in Seq(Block)
        BY <1>1
      <4> QED
        BY <1>1, <4>1 DEF Section
    <3> HIDE DEF new
    <3>3. /\ sections' \in Seq(Section) /\ Len(sections') = n + 1 /\ sections'[n + 1] = new
          /\ \A s \in 1 .. n : sections'[s] = sections[s]
      BY <1>2, <3>1, <3>2, AppendProperties DEF n
    <3>4. sections' # <<>> /\ DOMAIN sections' = 1 .. n + 1
      BY <1>6, <3>3
    <3>5. InOrder'
      <4>1. ASSUME NEW s \in 1 .. n + 1, NEW t \in 1 .. n + 1, s < t
            PROVE  sections'[s].item < sections'[t].item
        <5>1. s \in 1 .. n
          BY <1>6, <4>1
        <5>2. CASE t = n + 1
          <6>1. sections[s].item <= last_idx
            <7>1. s = n \/ s < n
              BY <1>6, <5>1
            <7>2. sections[s].item \in Nat /\ sections[n].item \in Nat
              BY <1>6, <1>7, <5>1
            <7>3. s < n => sections[s].item < sections[n].item
              BY <1>5, <1>6, <5>1
            <7> QED
              BY <1>5, <7>1, <7>2, <7>3
          <6>2. sections[s].item \in Nat
            BY <1>7, <5>1
          <6> QED
            BY <1>1, <1>2, <2>1, <3>2, <3>3, <5>1, <5>2, <6>1, <6>2
        <5>3. CASE t # n + 1
          <6>1. t \in 1 .. n
            BY <1>6, <5>3
          <6> QED
            BY <1>5, <3>3, <4>1, <5>1, <6>1
        <5> QED
          BY <5>2, <5>3
      <4>2. sections'[1].item = 0
        BY <1>5, <1>6, <3>3
      <4>3. last_idx' = sections'[Len(sections')].item
        BY <2>1, <3>2, <3>3
      <4>4. ASSUME NEW p \in 1 .. turn + 1 PROVE match_item_heading(blocks[p]) <= idx
        <5>1. CASE p = turn + 1
          BY <1>1, <5>1 DEF idx, b
        <5>2. CASE p # turn + 1
          <6>1. p \in 1 .. turn /\ blocks[p] \in Block
            BY <1>1, <1>2, <5>2
          <6>2. match_item_heading(blocks[p]) \in Nat
            BY <6>1, MatchType
          <6> QED
            BY <1>1, <1>2, <1>5, <2>1, <6>1, <6>2
        <5> QED
          BY <5>1, <5>2
      <4> QED
        BY <1>3, <2>1, <3>4, <4>1, <4>2, <4>3, <4>4 DEF InOrder
    <3>6. IsCut(blocks, Append(sections, new), turn + 1)
      <4>1. new.item = match_item_heading(blocks[turn + 1])
        BY <3>2 DEF idx, b
      <4> QED
        BY <1>1, <1>2, <1>4, <2>1, <3>2, <4>1, CutOpened
    <3>7. CutSoFar'
      BY <1>3, <3>1, <3>6 DEF CutSoFar
    <3> QED
      BY <1>1, <2>1, <3>3, <3>4, <3>5, <3>7
  <2>2. CASE idx <= last_idx /\ sections' = Extended(b) /\ last_idx' = last_idx
    <3> DEFINE last == sections[n]
               new  == WithBlock(last, b)
    <3>1. sections' = LastReplaced(sections, new)
      BY <2>2, ExtendedIs DEF n
    <3>2. last \in Section
      BY <1>2, <1>6, SectionAt DEF n
    <3> HIDE DEF last
    <3>3. new \in Section /\ new.item = last.item
      BY <1>1, <3>2, WithBlockType
    <3> HIDE DEF new
    <3>4. /\ sections' \in Seq(Section) /\ Len(sections') = n
          /\ \A s \in 1 .. n : sections'[s] = IF s = n THEN new ELSE sections[s]
      <4> DEFINE tt == LastReplaced(sections, new)
      <4>1. sections \in Seq(Section) /\ sections # <<>> /\ new \in Section
        BY <1>2, <3>3
      <4>2. tt \in Seq(Section)
        BY <4>1, LastReplacedType
      <4>3. Len(tt) = n
        BY <4>1, LastReplacedType DEF n
      <4>4. \A s \in 1 .. n : tt[s] = IF s = n THEN new ELSE sections[s]
        BY <4>1, LastReplacedType DEF n
      <4> HIDE DEF tt
      <4>5. sections' = tt
        BY <3>1 DEF tt
      <4> QED
        BY <4>2, <4>3, <4>4, <4>5
    <3>5. sections' # <<>> /\ DOMAIN sections' = 1 .. n
      BY <1>6, <3>4
    <3>6. \A s \in 1 .. n : sections'[s].item = sections[s].item
      BY <3>3, <3>4 DEF last
    <3>7. InOrder'
      <4>1. \A s, t \in 1 .. n : s < t => sections'[s].item < sections'[t].item
        BY <1>5, <3>6
      <4>2. sections'[1].item = 0 /\ last_idx' = sections'[Len(sections')].item
        BY <1>5, <1>6, <2>2, <3>4, <3>6
      <4>3. ASSUME NEW p \in 1 .. turn + 1 PROVE match_item_heading(blocks[p]) <= last_idx
        <5>1. CASE p = turn + 1
          BY <2>2, <5>1 DEF idx, b
        <5>2. CASE p # turn + 1
          <6>1. p \in 1 .. turn
            BY <1>2, <5>2
          <6> QED
            BY <1>5, <6>1
        <5> QED
          BY <5>1, <5>2
      <4> QED
        BY <1>3, <2>2, <3>5, <4>1, <4>2, <4>3 DEF InOrder
    <3>8. IsCut(blocks, LastReplaced(sections, new), turn + 1)
      <4>1. ~IsRecord(blocks, turn + 1)
        BY <1>1, <1>2, <2>2
      <4> QED
        BY <1>1, <1>2, <1>4, <4>1, CutExtended DEF new, last, n, b
    <3>9. CutSoFar'
      BY <1>3, <3>1, <3>8 DEF CutSoFar
    <3> QED
      BY <1>2, <2>2, <3>4, <3>5, <3>7, <3>9
  <2> QED
    BY <1>3, <2>1, <2>2
<1>9. TypeOK'
  BY <1>0, <1>2, <1>3, <1>8 DEF TypeOK
<1>10. InRange'
  <2>1. turn + 1 <= Len(blocks)
    BY <1>1, <1>2
  <2> QED
    BY <1>3, <1>8, <2>1 DEF InRange
<1>11. BodiesSound'
  BY <1>0, <1>3 DEF BodiesSound
<1>12. UnitsSoFar'
  BY <1>0, <1>3 DEF UnitsSoFar
<1>13. Causes'
  BY <1>0, <1>3 DEF Causes
<1> QED
  BY <1>8, <1>9, <1>10, <1>11, <1>12, <1>13 DEF IInv

\* Once parse_10k has returned, its result stays.
LEMMA ParsedFrame ==
  ASSUME InOrder, CutSoFar, pc = "parse" => turn = Len(blocks), pc' # "parse",
         UNCHANGED <<blocks, sections, last_idx>>
  PROVE  InOrder' /\ CutSoFar'
<1>1. InOrder'
  BY DEF InOrder
<1>2. (IF pc = "parse" THEN turn ELSE Len(blocks)) = Len(blocks)
  OBVIOUS
<1>3. CutSoFar'
  BY <1>2 DEF CutSoFar
<1> QED
  BY <1>1, <1>3

\* Nothing is done of a section, and all of those before.
LEMMA SectionBegins ==
  ASSUME NEW item \in Nat, NEW bs \in Seq(Block)
  PROVE  /\ ProtoUnits(item, <<>>) \o UnitsUnder(item, <<>>, <<>>) = AllBlockUnits(item, SubSeq(bs, 1, 0))
         /\ SubSeq(bs, 1, 0) = <<>>
<1>1. SubSeq(bs, 1, 0) = <<>> /\ <<>> \o <<>> = <<>>
  OBVIOUS
<1>2. ProtoUnits(item, <<>>) = <<>> /\ UnitsUnder(item, <<>>, <<>>) = <<>>
  BY ProtoEmpty, UnderEmpty
<1>3. AllBlockUnits(item, <<>>) = <<>>
  BY UnitsEmpty DEF AllBlockUnits
<1> QED
  BY <1>1, <1>2, <1>3

\* So does the end of that loop, where the cover is begun.
LEMMA ParsedStep ==
  ASSUME IInv, Parsed
  PROVE  IInv'
<1>0. TypeOK /\ InRange /\ InOrder /\ CutSoFar /\ BodiesSound /\ UnitsSoFar /\ Causes
  BY DEF IInv
<1>1. /\ pc = "parse" /\ turn = Len(blocks) /\ pc' = "pack" /\ turn' = 0 /\ sec' = 1
      /\ UNCHANGED <<blocks, sections, last_idx, parts, protos, merged, chunks>>
  BY DEF Parsed
<1>2. sections \in Seq(Section) /\ sections # <<>>
  BY <1>0 DEF TypeOK, InRange
<1>3. 1 \in 1 .. Len(sections)
  BY <1>2
<1>4. sections[1].item \in Nat /\ sections[1].blocks \in Seq(Block)
  BY <1>2, <1>3, SectionAt
<1>5. TypeOK'
  BY <1>0, <1>1 DEF TypeOK
<1>6. InRange'
  <2>1. 0 <= Len(sections[1].blocks)
    BY <1>4
  <2> QED
    BY <1>1, <1>2, <1>3, <2>1 DEF InRange
<1>7. InOrder' /\ CutSoFar'
  BY <1>0, <1>1, ParsedFrame
<1>8. BodiesSound'
  BY <1>0, <1>1 DEF BodiesSound
<1>9. merged = <<>> /\ parts = <<>> /\ protos = <<>> /\ chunks = <<>>
  BY <1>0, <1>1 DEF UnitsSoFar
<1>10. UnitsSoFar'
  <2>1. ProtoUnits(sections[1].item, <<>>) \o UnitsUnder(sections[1].item, <<>>, <<>>)
          = AllBlockUnits(sections[1].item, SubSeq(sections[1].blocks, 1, 0))
    BY <1>4, SectionBegins
  <2>2. AllChunkUnits(<<>>) = <<>> /\ AllSectionUnits(<<>>) = <<>>
    BY UnitsEmpty DEF AllChunkUnits, AllSectionUnits
  <2>3. SubSeq(sections, 1, 1 - 1) = <<>>
    BY <1>2
  <2> QED
    BY <1>1, <1>9, <2>1, <2>2, <2>3 DEF UnitsSoFar
<1>11. Causes'
  BY <1>0, <1>1, <1>9 DEF Causes
<1> QED
  BY <1>5, <1>6, <1>7, <1>8, <1>10, <1>11 DEF IInv

\* Two sequences of sound bodies or chunks in a row.
LEMMA SoundConcat ==
  ASSUME NEW S, NEW s \in Seq(S), NEW t \in Seq(S), AllSound(s), AllSound(t)
  PROVE  AllSound(s \o t)
<1>1. /\ Len(s) \in Nat /\ Len(t) \in Nat /\ Len(s \o t) = Len(s) + Len(t)
      /\ \A i \in 1 .. Len(s) + Len(t) : (s \o t)[i] = IF i <= Len(s) THEN s[i] ELSE t[i - Len(s)]
  OBVIOUS
<1> SUFFICES ASSUME NEW i \in 1 .. Len(s) + Len(t) PROVE Sound((s \o t)[i])
  BY <1>1 DEF AllSound
<1>2. CASE i <= Len(s)
  <2>1. i \in 1 .. Len(s) /\ (s \o t)[i] = s[i]
    BY <1>1, <1>2
  <2>2. Sound(s[i])
    BY <2>1 DEF AllSound
  <2> QED
    BY <2>1, <2>2
<1>3. CASE i > Len(s)
  <2>1. i - Len(s) \in 1 .. Len(t) /\ (s \o t)[i] = t[i - Len(s)]
    BY <1>1, <1>3
  <2>2. Sound(t[i - Len(s)])
    BY <2>1 DEF AllSound
  <2> QED
    BY <2>1, <2>2
<1> QED
  BY <1>1, <1>2, <1>3

\* Two sequences of sound texts in a row.
LEMMA TextBodiesConcat ==
  ASSUME NEW s \in Seq(Piece), NEW t \in Seq(Piece), AllTextBodies(s), AllTextBodies(t)
  PROVE  AllTextBodies(s \o t)
<1>1. /\ Len(s) \in Nat /\ Len(t) \in Nat /\ Len(s \o t) = Len(s) + Len(t)
      /\ \A i \in 1 .. Len(s) + Len(t) : (s \o t)[i] = IF i <= Len(s) THEN s[i] ELSE t[i - Len(s)]
  OBVIOUS
<1> SUFFICES ASSUME NEW i \in 1 .. Len(s) + Len(t) PROVE TextBody((s \o t)[i])
  BY <1>1 DEF AllTextBodies
<1>2. CASE i <= Len(s)
  <2>1. i \in 1 .. Len(s) /\ (s \o t)[i] = s[i]
    BY <1>1, <1>2
  <2>2. TextBody(s[i])
    BY <2>1 DEF AllTextBodies
  <2> QED
    BY <2>1, <2>2
<1>3. CASE i > Len(s)
  <2>1. i - Len(s) \in 1 .. Len(t) /\ (s \o t)[i] = t[i - Len(s)]
    BY <1>1, <1>3
  <2>2. TextBody(t[i - Len(s)])
    BY <2>1 DEF AllTextBodies
  <2> QED
    BY <2>1, <2>2
<1> QED
  BY <1>1, <1>2, <1>3

\* What a section's loops have at hand.
LEMMA SectionNow ==
  ASSUME TypeOK, InRange, pc \in {"pack", "merge"}
  PROVE  /\ sec \in 1 .. Len(sections)
         /\ sections[sec] \in Section
         /\ sections[sec].item \in Nat
         /\ sections[sec].blocks \in Seq(Block)
         /\ <<>> \in Seq(Text)
<1>1. sec \in 1 .. Len(sections) /\ sections \in Seq(Section)
  BY DEF TypeOK, InRange
<1>2. <<>> \in Seq(Text)
  OBVIOUS
<1> QED
  BY <1>1, <1>2, SectionAt

\* A turn of the loop over a section's blocks keeps the invariant.
LEMMA PackBlockStep ==
  ASSUME IInv, PackBlock
  PROVE  IInv'
<1> DEFINE S == sections[sec]
           b == S.blocks[turn + 1]
           u == BlockUnits(S.item, b)
<1>0. TypeOK /\ InRange /\ InOrder /\ CutSoFar /\ BodiesSound /\ UnitsSoFar /\ Causes
  BY DEF IInv
<1>1. /\ pc = "pack" /\ pc' = "pack" /\ turn' = turn + 1 /\ turn < Len(S.blocks)
      /\ UNCHANGED <<blocks, sections, last_idx, sec, merged, chunks>>
      /\ \/ /\ b.kind = "table"
            /\ protos' = protos \o Flushed(parts) \o Tables(b)
            /\ parts' = <<>>
         \/ /\ b.kind = "text"
            /\ parts' = parts \o split_long_text(b)
            /\ protos' = protos
  BY DEF PackBlock
<1>2. sec \in 1 .. Len(sections) /\ S.item \in Nat /\ S.blocks \in Seq(Block) /\ <<>> \in Seq(Text)
  BY <1>0, <1>1, SectionNow
<1>3. parts \in Seq(Piece) /\ protos \in Seq(Proto) /\ turn \in Nat
  BY <1>0 DEF TypeOK
<1>4. AllTextBodies(parts) /\ AllSound(protos)
  BY <1>0 DEF BodiesSound
<1>5. ProtoUnits(S.item, protos) \o UnitsUnder(S.item, <<>>, parts)
        = AllBlockUnits(S.item, SubSeq(S.blocks, 1, turn))
  BY <1>0, <1>1 DEF UnitsSoFar
<1> HIDE DEF S
<1>6. turn \in 0 .. Len(S.blocks) - 1 /\ b \in Block /\ turn + 1 <= Len(S.blocks)
  BY <1>1, <1>2, <1>3
<1> HIDE DEF b
<1>7. /\ AllBlockUnits(S.item, SubSeq(S.blocks, 1, turn + 1))
           = AllBlockUnits(S.item, SubSeq(S.blocks, 1, turn)) \o u
      /\ u \in Seq(Unit)
  BY <1>2, <1>6, BlockTurn DEF b
<1> DEFINE P == ProtoUnits(S.item, protos)
           Q == UnitsUnder(S.item, <<>>, parts)
<1>8. P \in Seq(Unit) /\ Q \in Seq(Unit)
  BY <1>2, <1>3, ProtoType, UnderType
<1> HIDE DEF u
<1>9. /\ parts' \in Seq(Piece) /\ protos' \in Seq(Proto)
      /\ AllTextBodies(parts') /\ AllSound(protos')
      /\ ProtoUnits(S.item, protos') \o UnitsUnder(S.item, <<>>, parts')
           = AllBlockUnits(S.item, SubSeq(S.blocks, 1, turn + 1))
  <2>1. CASE /\ b.kind = "table"
             /\ protos' = protos \o Flushed(parts) \o Tables(b)
             /\ parts' = <<>>
    <3> DEFINE F == Flushed(parts)
               T == Tables(b)
    <3>1. ProtosHave(S.item, F, Q)
      BY <1>2, <1>3, <1>4, FlushedKeeps
    <3>2. ProtosHave(S.item, T, u)
      BY <1>2, <1>6, <2>1, TablesKeep DEF u
    <3> HIDE DEF F, T
    <3>3. /\ F \in Seq(Proto) /\ AllSound(F) /\ ProtoUnits(S.item, F) = Q
          /\ T \in Seq(Proto) /\ AllSound(T) /\ ProtoUnits(S.item, T) = u
      BY <3>1, <3>2 DEF ProtosHave
    <3>4. protos \o F \in Seq(Proto)
      BY <1>3, <3>3
    <3>5. (protos \o F) \o T \in Seq(Proto)
      BY <3>3, <3>4
    <3>6. protos' = (protos \o F) \o T
      BY <2>1 DEF F, T
    <3>7. AllSound(protos')
      <4>1. AllSound(protos \o F)
        BY <1>3, <1>4, <3>3, SoundConcat
      <4> DEFINE PF == protos \o F
      <4>2. PF \in Seq(Proto) /\ AllSound(PF)
        BY <3>4, <4>1
      <4> HIDE DEF PF
      <4>3. AllSound(PF \o T)
        BY <3>3, <4>2, SoundConcat
      <4> QED
        BY <3>6, <4>3 DEF PF
    <3>8. ProtoUnits(S.item, protos') = (P \o Q) \o u
      <4>1. ProtoUnits(S.item, protos \o F) = P \o Q
        BY <1>2, <1>3, <3>3, ProtoConcat
      <4> DEFINE PF == protos \o F
      <4>2. PF \in Seq(Proto) /\ ProtoUnits(S.item, PF) = P \o Q
        BY <3>4, <4>1
      <4> HIDE DEF PF, P, Q
      <4>3. ProtoUnits(S.item, PF \o T) = ProtoUnits(S.item, PF) \o ProtoUnits(S.item, T)
        BY <1>2, <3>3, <4>2, ProtoConcat
      <4> QED
        BY <3>3, <3>6, <4>2, <4>3 DEF PF
    <3>9. UnitsUnder(S.item, <<>>, parts') = <<>>
      BY <2>1, UnderEmpty
    <3>10. AllTextBodies(parts') /\ parts' \in Seq(Piece)
      BY <2>1 DEF AllTextBodies
    <3> HIDE DEF P, Q
    <3>11. ((P \o Q) \o u) \o <<>> = (P \o Q) \o u
      BY <1>7, <1>8
    <3>12. (P \o Q) \o u = AllBlockUnits(S.item, SubSeq(S.blocks, 1, turn + 1))
      BY <1>5, <1>7 DEF P, Q
    <3> QED
      BY <3>5, <3>6, <3>7, <3>8, <3>9, <3>10, <3>11, <3>12
  <2>2. CASE /\ b.kind = "text"
             /\ parts' = parts \o split_long_text(b)
             /\ protos' = protos
    <3> DEFINE L == split_long_text(b)
    <3>1. L \in Seq(Piece) /\ AllTextBodies(L) /\ UnitsUnder(S.item, <<>>, L) = u
      BY <1>2, <1>6, <2>2, SplitTextKeeps DEF u
    <3> HIDE DEF L
    <3>2. parts' = parts \o L
      BY <2>2 DEF L
    <3>3. parts \o L \in Seq(Piece)
      BY <1>3, <3>1
    <3>4. AllTextBodies(parts \o L)
      BY <1>3, <1>4, <3>1, TextBodiesConcat
    <3>5. UnitsUnder(S.item, <<>>, parts \o L) = Q \o u
      BY <1>2, <1>3, <3>1, UnderConcat
    <3> HIDE DEF P, Q
    <3>6. P \o (Q \o u) = (P \o Q) \o u
      BY <1>7, <1>8
    <3>7. (P \o Q) \o u = AllBlockUnits(S.item, SubSeq(S.blocks, 1, turn + 1))
      BY <1>5, <1>7 DEF P, Q
    <3>8. ProtoUnits(S.item, protos') = P
      BY <2>2 DEF P
    <3>9. UnitsUnder(S.item, <<>>, parts') = Q \o u
      BY <3>2, <3>5
    <3> QED
      BY <1>3, <1>4, <2>2, <3>2, <3>3, <3>4, <3>6, <3>7, <3>8, <3>9
  <2> QED
    BY <1>1, <2>1, <2>2
<1>10. TypeOK'
  BY <1>0, <1>1, <1>9 DEF TypeOK
<1>11. InRange'
  BY <1>0, <1>1, <1>6 DEF InRange, S
<1>12. InOrder' /\ CutSoFar'
  BY <1>0, <1>1, ParsedFrame
<1>13. BodiesSound'
  BY <1>0, <1>1, <1>9 DEF BodiesSound
<1>14. UnitsSoFar'
  BY <1>0, <1>1, <1>9 DEF UnitsSoFar, S
<1>15. Causes'
  BY <1>0, <1>1 DEF Causes
<1> QED
  BY <1>10, <1>11, <1>12, <1>13, <1>14, <1>15 DEF IInv

\* So does the flush after it.
LEMMA LastFlushStep ==
  ASSUME IInv, LastFlush
  PROVE  IInv'
<1> DEFINE S == sections[sec]
           F == Flushed(parts)
           P == ProtoUnits(S.item, protos)
           Q == UnitsUnder(S.item, <<>>, parts)
<1>0. TypeOK /\ InRange /\ InOrder /\ CutSoFar /\ BodiesSound /\ UnitsSoFar /\ Causes
  BY DEF IInv
<1>1. /\ pc = "pack" /\ pc' = "merge" /\ turn' = 0 /\ turn = Len(S.blocks)
      /\ UNCHANGED <<blocks, sections, last_idx, sec, merged, chunks>>
      /\ protos' = protos \o F /\ parts' = <<>>
  BY DEF LastFlush
<1>2. /\ sec \in 1 .. Len(sections) /\ S \in Section /\ S.item \in Nat /\ S.blocks \in Seq(Block)
      /\ <<>> \in Seq(Text)
  BY <1>0, <1>1, SectionNow
<1>3. parts \in Seq(Piece) /\ protos \in Seq(Proto)
  BY <1>0 DEF TypeOK
<1>4. AllTextBodies(parts) /\ AllSound(protos)
  BY <1>0 DEF BodiesSound
<1>5. P \o Q = AllBlockUnits(S.item, SubSeq(S.blocks, 1, turn)) /\ merged = <<>>
  BY <1>0, <1>1 DEF UnitsSoFar
<1> HIDE DEF S
<1>6. ProtosHave(S.item, F, Q)
  BY <1>2, <1>3, <1>4, FlushedKeeps
<1>7. F \in Seq(Proto) /\ AllSound(F) /\ ProtoUnits(S.item, F) = Q
  BY <1>6 DEF ProtosHave
<1> HIDE DEF F
<1>8. protos \o F \in Seq(Proto)
  BY <1>3, <1>7
<1>9. AllSound(protos \o F)
  BY <1>3, <1>4, <1>7, SoundConcat
<1>10. ProtoUnits(S.item, protos \o F) = SectionUnits(S)
  <2>1. ProtoUnits(S.item, protos \o F) = P \o Q
    BY <1>2, <1>3, <1>7, ProtoConcat
  <2>2. SubSeq(S.blocks, 1, turn) = S.blocks
    BY <1>1, <1>2
  <2>3. SectionUnits(S) = AllBlockUnits(S.item, S.blocks)
    BY <1>2, SectionUnitsAre
  <2> QED
    BY <1>5, <2>1, <2>2, <2>3
<1>11. TypeOK'
  <2>1. <<>> \in Seq(Piece)
    OBVIOUS
  <2> QED
    BY <1>0, <1>1, <1>8, <2>1 DEF TypeOK
<1>12. InRange'
  <2>1. 0 <= Len(protos \o F)
    BY <1>8
  <2> QED
    BY <1>0, <1>1, <1>2, <2>1 DEF InRange
<1>13. InOrder' /\ CutSoFar'
  BY <1>0, <1>1, ParsedFrame
<1>14. BodiesSound'
  <2>1. AllTextBodies(<<>>)
    BY DEF AllTextBodies
  <2> QED
    BY <1>0, <1>1, <1>9, <2>1 DEF BodiesSound
<1>15. UnitsSoFar'
  <2>1. SubSeq(protos', 1, 0) = <<>>
    BY <1>1, <1>8
  <2>2. ProtoUnits(S.item, merged) = ProtoUnits(S.item, SubSeq(protos', 1, 0))
    BY <1>5, <2>1
  <2>3. ProtoUnits(S.item, protos') = SectionUnits(S)
    BY <1>1, <1>10
  <2> QED
    BY <1>0, <1>1, <1>5, <2>2, <2>3 DEF UnitsSoFar, S
<1>16. Causes'
  BY <1>0, <1>1 DEF Causes
<1> QED
  BY <1>11, <1>12, <1>13, <1>14, <1>15, <1>16 DEF IInv

AllCaused(ps) == \A m \in 1 .. Len(ps) : ~ps[m].is_table => Cause(ps, m)

\* A turn of the merge loop: what it does to the texts of merged, its units and causes.
LEMMA MergeTurn ==
  ASSUME NEW item \in Nat, NEW ms \in Seq(Proto), NEW q \in Proto,
         AllSound(ms), Sound(q), AllCaused(ms), NEW new,
         new = IF ms # <<>> /\ Mergeable(ms[Len(ms)], q)
                 THEN LastReplaced(ms, WithBody(ms[Len(ms)], Glue(ms[Len(ms)].body, q.body, 2)))
                 ELSE Append(ms, q)
  PROVE  /\ new \in Seq(Proto)
         /\ AllSound(new)
         /\ AllCaused(new)
         /\ ProtoUnits(item, new) = ProtoUnits(item, ms) \o Tag(item, q.body.header, q.body.units)
<1> DEFINE k == Len(ms)
<1>0. k \in Nat /\ \A m \in 1 .. k : ms[m] \in Proto
  OBVIOUS
<1>1. \A m \in 1 .. k : Sound(ms[m]) /\ (~ms[m].is_table => Cause(ms, m))
  BY DEF AllSound, AllCaused
<1>2. CASE ms # <<>> /\ Mergeable(ms[Len(ms)], q)
  <2> DEFINE last == ms[k]
             y    == Glue(last.body, q.body, 2)
             x    == WithBody(last, y)
  <2>1. new = LastReplaced(ms, x)
    BY <1>2
  <2>2. k \in 1 .. k /\ last \in Proto /\ Sound(last) /\ Mergeable(last, q)
    <3>1. k \in 1 .. k
      BY <1>2
    <3> QED
      BY <1>0, <1>1, <1>2, <3>1
  <2>3. ProtoUnits(item, LastReplaced(ms, x)) = ProtoUnits(item, ms) \o Tag(item, q.body.header, q.body.units)
    <3>1. Sound(ms[Len(ms)]) /\ Mergeable(ms[Len(ms)], q)
      BY <2>2
    <3> QED
      BY <1>2, <3>1, ProtoMerge
  <2> HIDE DEF last
  <2>4. x \in Proto /\ x.is_table = FALSE /\ x.body = y
    <3>1. x \in Proto
      BY <2>2, MergedProto
    <3>2. x.is_table = FALSE
      BY <2>2, MergedProto
    <3>3. x.body = y
      BY <2>2, MergedProto
    <3> QED
      BY <3>1, <3>2, <3>3
  <2>5. y \in Piece /\ TextBody(y) /\ approx_tokens(y) >= approx_tokens(last.body)
    <3>1. y \in Piece
      BY <2>2, MergedProto
    <3>2. TextBody(y)
      BY <2>2, MergedProto
    <3>3. approx_tokens(y) >= approx_tokens(last.body)
      BY <2>2, MergedProto
    <3> QED
      BY <3>1, <3>2, <3>3
  <2> HIDE DEF x, y
  <2>6. /\ new \in Seq(Proto) /\ Len(new) = k
        /\ \A m \in 1 .. k : new[m] = IF m = k THEN x ELSE ms[m]
    <3> DEFINE tt == LastReplaced(ms, x)
    <3>1. tt \in Seq(Proto)
      BY <1>2, <2>4, LastReplacedType
    <3>2. Len(tt) = k
      BY <1>2, <2>4, LastReplacedType
    <3>3. \A m \in 1 .. k : tt[m] = IF m = k THEN x ELSE ms[m]
      BY <1>2, <2>4, LastReplacedType
    <3> HIDE DEF tt, k
    <3>4. new = tt
      BY <2>1 DEF tt
    <3> QED
      BY <3>1, <3>2, <3>3, <3>4
  <2> HIDE DEF k
  <2>7. Sound(x)
    BY <2>4, <2>5 DEF Sound
  <2>8. AllSound(new)
    BY <1>1, <2>6, <2>7 DEF AllSound
  <2>9. ASSUME NEW m \in 1 .. k, ~new[m].is_table PROVE Cause(new, m)
    <3>1. CASE m = k
      <4>1. last.is_table = FALSE
        BY <2>2 DEF Mergeable, Proto
      <4>2. Cause(ms, k)
        BY <1>1, <2>2, <4>1 DEF last
      <4>3. new[k] = x
        BY <2>2, <2>6
      <4>4. CASE k = 1
        BY <3>1, <4>4 DEF Cause
      <4>5. CASE k # 1
        <5>1. k - 1 \in 1 .. k /\ k - 1 # k
          <6>1. k \in Nat /\ k \in 1 .. k
            BY <1>0, <2>2
          <6> QED
            BY <4>5, <6>1
        <5> DEFINE p == ms[k - 1]
        <5>2. new[k - 1] = p /\ p \in Proto
          BY <1>0, <2>6, <5>1 DEF k
        <5>3. \/ approx_tokens(last.body) >= MinMergeTokens
              \/ p.is_table
              \/ approx_tokens(p.body) + approx_tokens(last.body) > MaxTokens + MergeSlack
          BY <4>2, <4>5 DEF Cause, last
        <5> HIDE DEF p
        <5>4. /\ approx_tokens(p.body) \in Nat /\ approx_tokens(last.body) \in Nat
              /\ approx_tokens(y) \in Nat
          <6>1. p.body \in Piece /\ last.body \in Piece
            BY <2>2, <5>2 DEF Proto
          <6> QED
            BY <2>5, <6>1, TokensOfPiece
        <5>5. \/ approx_tokens(y) >= MinMergeTokens
              \/ p.is_table
              \/ approx_tokens(p.body) + approx_tokens(y) > MaxTokens + MergeSlack
          BY <2>5, <5>3, <5>4, Limits
        <5> QED
          BY <2>4, <3>1, <4>3, <5>2, <5>5 DEF Cause
      <4> QED
        BY <4>4, <4>5
    <3>2. CASE m # k
      <4>1. new[m] = ms[m] /\ Cause(ms, m)
        BY <1>1, <2>6, <2>9, <3>2
      <4>2. m > 1 => new[m - 1] = ms[m - 1]
        <5>1. m > 1 => m - 1 \in 1 .. k /\ m - 1 # k
          BY <1>0 DEF k
        <5> QED
          BY <2>6, <5>1
      <4>3. m > 1 \/ m = 1
        BY <1>0 DEF k
      <4> QED
        BY <4>1, <4>2, <4>3 DEF Cause
    <3> QED
      BY <3>1, <3>2
  <2>10. AllCaused(new)
    BY <2>6, <2>9 DEF AllCaused
  <2> QED
    BY <2>1, <2>3, <2>6, <2>8, <2>10
<1>3. CASE ~(ms # <<>> /\ Mergeable(ms[Len(ms)], q))
  <2>1. new = Append(ms, q)
    BY <1>3
  <2>2. ProtoUnits(item, Append(ms, q)) = ProtoUnits(item, ms) \o Tag(item, q.body.header, q.body.units)
    BY ProtoAppend
  <2>3. /\ new \in Seq(Proto) /\ Len(new) = k + 1 /\ new[k + 1] = q
        /\ \A m \in 1 .. k : new[m] = ms[m]
    BY <2>1, AppendProperties
  <2>4. ms = <<>> \/ (k \in 1 .. k /\ ~Mergeable(ms[k], q))
    BY <1>3
  <2>5. ms = <<>> => k = 0
    OBVIOUS
  <2> HIDE DEF k
  <2>6. AllSound(new)
    <3> SUFFICES ASSUME NEW m \in 1 .. k + 1 PROVE Sound(new[m])
      BY <2>3 DEF AllSound
    <3>1. m \in 1 .. k \/ m = k + 1
      BY <1>0 DEF k
    <3> QED
      BY <1>1, <2>3, <3>1
  <2>7. ASSUME NEW m \in 1 .. k + 1, ~new[m].is_table PROVE Cause(new, m)
    <3>1. CASE m = k + 1
      <4>1. CASE ms = <<>>
        BY <2>5, <3>1, <4>1 DEF Cause
      <4>2. CASE ms # <<>>
        <5> DEFINE p == ms[k]
        <5>1. k \in 1 .. k /\ ~Mergeable(p, q) /\ p \in Proto
          BY <1>0, <2>4, <4>2 DEF k
        <5>2. new[m - 1] = p /\ new[m] = q
          <6>1. m - 1 = k
            BY <3>1, <5>1
          <6> QED
            BY <2>3, <3>1, <5>1, <6>1
        <5> HIDE DEF p
        <5>3. /\ approx_tokens(p.body) \in Nat /\ approx_tokens(q.body) \in Nat
          <6>1. p.body \in Piece /\ q.body \in Piece
            BY <5>1 DEF Proto
          <6> QED
            BY <6>1, TokensOfPiece
        <5>4. ~q.is_table
          BY <2>7, <5>2
        <5>5. \/ p.is_table
              \/ ~(approx_tokens(q.body) < MinMergeTokens)
              \/ ~(approx_tokens(p.body) + approx_tokens(q.body) <= MaxTokens + MergeSlack)
          BY <5>1, <5>4 DEF Mergeable
        <5>6. \/ p.is_table
              \/ approx_tokens(q.body) >= MinMergeTokens
              \/ approx_tokens(p.body) + approx_tokens(q.body) > MaxTokens + MergeSlack
          BY <5>3, <5>5, Limits
        <5> QED
          BY <5>2, <5>6 DEF Cause
      <4> QED
        BY <4>1, <4>2
    <3>2. CASE m # k + 1
      <4>0. m \in 1 .. k
        BY <1>0, <3>2 DEF k
      <4>1. new[m] = ms[m] /\ Cause(ms, m)
        BY <1>1, <2>3, <2>7, <4>0 DEF k
      <4>2. m > 1 => new[m - 1] = ms[m - 1]
        <5>1. m > 1 => m - 1 \in 1 .. k
          BY <1>0, <4>0 DEF k
        <5> QED
          BY <2>3, <5>1
      <4>3. m > 1 \/ m = 1
        BY <1>0, <4>0 DEF k
      <4> QED
        BY <4>1, <4>2, <4>3 DEF Cause
    <3> QED
      BY <3>1, <3>2
  <2>8. AllCaused(new)
    BY <2>3, <2>7 DEF AllCaused
  <2> QED
    BY <2>1, <2>2, <2>3, <2>6, <2>8
<1> QED
  BY <1>2, <1>3

\* A turn of the merge loop keeps the invariant.
LEMMA MergeProtoStep ==
  ASSUME IInv, MergeProto
  PROVE  IInv'
<1> DEFINE S == sections[sec]
           q == protos[turn + 1]
           k == Len(merged)
           t == Tag(S.item, q.body.header, q.body.units)
<1>0. TypeOK /\ InRange /\ InOrder /\ CutSoFar /\ BodiesSound /\ UnitsSoFar /\ Causes
  BY DEF IInv
<1>1. /\ pc = "merge" /\ pc' = "merge" /\ turn' = turn + 1 /\ turn < Len(protos)
      /\ UNCHANGED <<blocks, sections, last_idx, sec, parts, protos, chunks>>
      /\ merged' = IF merged # <<>> /\ Mergeable(merged[k], q)
                     THEN [merged EXCEPT ![k].body = Glue(@, q.body, 2)]
                     ELSE Append(merged, q)
  BY DEF MergeProto
<1>2. sec \in 1 .. Len(sections) /\ S.item \in Nat
  BY <1>0, <1>1, SectionNow
<1>3. protos \in Seq(Proto) /\ merged \in Seq(Proto) /\ turn \in Nat
  BY <1>0 DEF TypeOK
<1>4. turn \in 0 .. Len(protos) - 1 /\ q \in Proto /\ turn + 1 \in 1 .. Len(protos)
      /\ turn + 1 <= Len(protos)
  BY <1>1, <1>3
<1>5. AllSound(merged) /\ Sound(q)
  BY <1>0, <1>4 DEF BodiesSound, AllSound
<1>6. AllCaused(merged)
  <2>1. DOMAIN merged = 1 .. Len(merged)
    BY <1>3
  <2> QED
    BY <1>0, <2>1 DEF Causes, AllCaused
<1>7. /\ ProtoUnits(S.item, protos) = SectionUnits(S)
      /\ ProtoUnits(S.item, merged) = ProtoUnits(S.item, SubSeq(protos, 1, turn))
  BY <1>0, <1>1 DEF UnitsSoFar
<1> HIDE DEF S
<1>8. merged' = IF merged # <<>> /\ Mergeable(merged[k], q)
                  THEN LastReplaced(merged, WithBody(merged[k], Glue(merged[k].body, q.body, 2)))
                  ELSE Append(merged, q)
  BY <1>1 DEF LastReplaced, WithBody
<1>9. ProtoUnits(S.item, SubSeq(protos, 1, turn + 1)) = ProtoUnits(S.item, SubSeq(protos, 1, turn)) \o t
  BY <1>2, <1>3, <1>4, ProtoTurn
<1> HIDE DEF q
<1> DEFINE new == merged'
<1> HIDE DEF new
<1>10. /\ new \in Seq(Proto) /\ AllSound(new) /\ AllCaused(new)
       /\ ProtoUnits(S.item, new) = ProtoUnits(S.item, merged) \o t
  <2>1. new = IF merged # <<>> /\ Mergeable(merged[Len(merged)], q)
                THEN LastReplaced(merged, WithBody(merged[Len(merged)],
                                                   Glue(merged[Len(merged)].body, q.body, 2)))
                ELSE Append(merged, q)
    BY <1>8 DEF new
  <2>2. new \in Seq(Proto)
    BY <1>2, <1>3, <1>4, <1>5, <1>6, <2>1, MergeTurn
  <2>3. AllSound(new)
    BY <1>2, <1>3, <1>4, <1>5, <1>6, <2>1, MergeTurn
  <2>4. AllCaused(new)
    BY <1>2, <1>3, <1>4, <1>5, <1>6, <2>1, MergeTurn
  <2>5. ProtoUnits(S.item, new) = ProtoUnits(S.item, merged) \o t
    BY <1>2, <1>3, <1>4, <1>5, <1>6, <2>1, MergeTurn
  <2> QED
    BY <2>2, <2>3, <2>4, <2>5
<1> HIDE DEF t
<1>11. ProtoUnits(S.item, new) = ProtoUnits(S.item, SubSeq(protos, 1, turn + 1))
  BY <1>7, <1>9, <1>10
<1>12. merged' \in Seq(Proto) /\ AllSound(merged') /\ AllCaused(merged')
       /\ ProtoUnits(S.item, merged') = ProtoUnits(S.item, SubSeq(protos, 1, turn + 1))
  BY <1>10, <1>11 DEF new
<1>13. TypeOK'
  BY <1>0, <1>1, <1>12 DEF TypeOK
<1>14. InRange'
  BY <1>0, <1>1, <1>4 DEF InRange
<1>15. InOrder' /\ CutSoFar'
  BY <1>0, <1>1, ParsedFrame
<1>16. BodiesSound'
  BY <1>0, <1>1, <1>12 DEF BodiesSound
<1>17. UnitsSoFar'
  BY <1>0, <1>1, <1>7, <1>12 DEF UnitsSoFar, S
<1>18. Causes'
  <2>1. DOMAIN merged' = 1 .. Len(merged')
    BY <1>12
  <2> QED
    BY <1>0, <1>1, <1>12, <2>1 DEF Causes, AllCaused
<1> QED
  BY <1>13, <1>14, <1>15, <1>16, <1>17, <1>18 DEF IInv

Drafts(item, ms) == [m \in DOMAIN ms |-> Draft(item, ms[m])]

\* The drafts of a section are its merged bodies, in its Item.
LEMMA DraftsType ==
  ASSUME NEW item \in Nat, NEW ms \in Seq(Proto)
  PROVE  /\ Drafts(item, ms) \in Seq(Chunk)
         /\ Len(Drafts(item, ms)) = Len(ms)
         /\ \A m \in 1 .. Len(ms) :
              Drafts(item, ms)[m]
                = [item |-> item, is_table |-> ms[m].is_table, body |-> ms[m].body]
<1>1. DOMAIN ms = 1 .. Len(ms) /\ Len(ms) \in Nat /\ \A m \in 1 .. Len(ms) : ms[m] \in Proto
  OBVIOUS
<1>2. Drafts(item, ms)
        = [m \in 1 .. Len(ms) |-> [item |-> item, is_table |-> ms[m].is_table, body |-> ms[m].body]]
  BY <1>1 DEF Drafts, Draft
<1>3. \A m \in 1 .. Len(ms) :
        [item |-> item, is_table |-> ms[m].is_table, body |-> ms[m].body] \in Chunk
  BY <1>1 DEF Proto, Chunk
<1>4. Drafts(item, ms) \in [1 .. Len(ms) -> Chunk]
  BY <1>2, <1>3
<1>5. Drafts(item, ms) \in Seq(Chunk) /\ Len(Drafts(item, ms)) = Len(ms)
  BY <1>1, <1>4, FunctionSeq
<1> QED
  BY <1>2, <1>5

\* They add the units of these to those of the chunks before.
LEMMA DraftsKeep ==
  ASSUME NEW item \in Nat, NEW ms \in Seq(Proto), NEW cs \in Seq(Chunk), AllSound(ms)
  PROVE  /\ AllSound(Drafts(item, ms))
         /\ AllChunkUnits(cs \o Drafts(item, ms)) = AllChunkUnits(cs) \o ProtoUnits(item, ms)
<1> DEFINE ds == Drafts(item, ms)
           g  == TagProto(item)
<1>1. /\ ds \in Seq(Chunk) /\ Len(ds) = Len(ms)
      /\ \A m \in 1 .. Len(ms) :
           ds[m] = [item |-> item, is_table |-> ms[m].is_table, body |-> ms[m].body]
  BY DraftsType
<1>2. \A m \in 1 .. Len(ms) : ms[m] \in Proto /\ ds[m] \in Chunk
  <2> HIDE DEF ds
  <2> QED
    BY <1>1
<1> HIDE DEF ds
<1>3. \A m \in 1 .. Len(ms) :
        ds[m].item = item /\ ds[m].is_table = ms[m].is_table /\ ds[m].body = ms[m].body
  <2> SUFFICES ASSUME NEW m \in 1 .. Len(ms)
               PROVE  ds[m].item = item /\ ds[m].is_table = ms[m].is_table /\ ds[m].body = ms[m].body
    OBVIOUS
  <2>1. ds[m] = [item |-> item, is_table |-> ms[m].is_table, body |-> ms[m].body]
    BY <1>1
  <2> QED
    BY <2>1
<1>4. AllSound(ds)
  BY <1>1, <1>3 DEF AllSound, Sound
<1>5. \A p \in Proto : g[p] = Tag(item, p.body.header, p.body.units)
  BY TagProtoMaps
<1>6. /\ TagChunk \in Maps(Chunk, Seq(Unit))
      /\ \A c \in Chunk : TagChunk[c] = Tag(c.item, c.body.header, c.body.units)
  BY TagChunkMaps
<1> HIDE DEF g
<1>7. \A m \in 1 .. Len(ms) : TagChunk[ds[m]] = g[ms[m]]
  BY <1>2, <1>3, <1>5, <1>6
<1>8. SameUnits(TagChunk, ds, g, ms)
  BY <1>1, <1>7 DEF SameUnits
<1>9. Units(TagChunk, ds) = Units(g, ms)
  BY <1>1, <1>8, UnitsSame
<1>10. Units(TagChunk, cs \o ds) = Units(TagChunk, cs) \o Units(TagChunk, ds)
  BY <1>1, <1>6, UnitsConcat
<1>11. AllChunkUnits(cs \o ds) = AllChunkUnits(cs) \o ProtoUnits(item, ms)
  BY <1>9, <1>10 DEF AllChunkUnits, ProtoUnits, g
<1> QED
  BY <1>4, <1>11 DEF ds

\* Why a text among all chunks may be small.
AllChunksCaused(cs) ==
  \A c \in 1 .. Len(cs) : ~cs[c].is_table => Cause(cs, c) \/ cs[c - 1].item # cs[c].item

\* A small one has its cause: the first of the section, that its Item is another.
LEMMA DraftsCaused ==
  ASSUME NEW item \in Nat, NEW ms \in Seq(Proto), NEW cs \in Seq(Chunk),
         AllCaused(ms), AllChunksCaused(cs),
         \A c \in 1 .. Len(cs) : cs[c].item < item
  PROVE  /\ AllChunksCaused(cs \o Drafts(item, ms))
         /\ \A c \in 1 .. Len(cs \o Drafts(item, ms)) : (cs \o Drafts(item, ms))[c].item <= item
<1> DEFINE ds == Drafts(item, ms)
           n  == Len(cs)
           k  == Len(ms)
           es == cs \o ds
<1>1. /\ ds \in Seq(Chunk) /\ Len(ds) = k
      /\ \A m \in 1 .. k : ds[m] = [item |-> item, is_table |-> ms[m].is_table, body |-> ms[m].body]
  BY DraftsType
<1> HIDE DEF ds
<1>2. n \in Nat /\ k \in Nat
  OBVIOUS
<1>3. /\ Len(es) = n + k
      /\ \A c \in 1 .. n : es[c] = cs[c]
      /\ \A m \in 1 .. k : es[n + m] = ds[m]
  <2>1. ds \in Seq(Chunk) /\ Len(ds) = k
    BY <1>1
  <2>2. /\ Len(es) = n + k
        /\ \A i \in 1 .. n + k : es[i] = IF i <= n THEN cs[i] ELSE ds[i - n]
    <3>1. /\ Len(cs \o ds) = Len(cs) + Len(ds)
          /\ \A i \in 1 .. Len(cs) + Len(ds) :
               (cs \o ds)[i] = IF i <= Len(cs) THEN cs[i] ELSE ds[i - Len(cs)]
      BY <2>1, ConcatProperties
    <3> QED
      BY <2>1, <3>1
  <2> HIDE DEF k
  <2> HIDE DEF n, es
  <2>3. \A m \in 1 .. k : n + m \in 1 .. n + k /\ ~(n + m <= n) /\ (n + m) - n = m
    BY <1>2
  <2>4. \A c \in 1 .. n : c \in 1 .. n + k /\ c <= n
    BY <1>2
  <2> QED
    BY <2>2, <2>3, <2>4
<1>4. \A m \in 1 .. k :
        es[n + m].item = item /\ es[n + m].is_table = ms[m].is_table /\ es[n + m].body = ms[m].body
  <2> SUFFICES ASSUME NEW m \in 1 .. k
               PROVE  /\ es[n + m].item = item
                      /\ es[n + m].is_table = ms[m].is_table
                      /\ es[n + m].body = ms[m].body
    OBVIOUS
  <2>1. es[n + m] = ds[m]
    BY <1>3
  <2>2. ds[m] = [item |-> item, is_table |-> ms[m].is_table, body |-> ms[m].body]
    BY <1>1
  <2> HIDE DEF es, n, k
  <2> QED
    BY <2>1, <2>2
<1>5. \A c \in 1 .. n : cs[c].item \in Nat
  <2>1. \A c \in 1 .. n : cs[c] \in Chunk
    OBVIOUS
  <2> QED
    BY <2>1 DEF Chunk
<1>6. \A c \in 1 .. n : cs[c].item < item /\ (~cs[c].is_table => Cause(cs, c) \/ cs[c - 1].item # cs[c].item)
  BY DEF AllChunksCaused
<1>7. \A m \in 1 .. k : ~ms[m].is_table => Cause(ms, m)
  BY DEF AllCaused
<1> HIDE DEF n, k, es
<1>8. ASSUME NEW c \in 1 .. n + k
      PROVE  c \in 1 .. n \/ \E m \in 1 .. k : c = n + m
  <2>1. CASE c > n
    <3>1. c - n \in 1 .. k /\ c = n + (c - n)
      BY <1>2, <2>1
    <3> QED
      BY <3>1
  <2>2. CASE ~(c > n)
    BY <1>2, <2>2
  <2> QED
    BY <2>1, <2>2
<1>9. ASSUME NEW c \in 1 .. n + k PROVE es[c].item <= item
  <2>1. CASE c \in 1 .. n
    BY <1>3, <1>5, <1>6, <2>1
  <2>2. CASE \E m \in 1 .. k : c = n + m
    BY <1>4, <2>2
  <2> QED
    BY <1>8, <2>1, <2>2
<1>10. ASSUME NEW c \in 1 .. n + k, ~es[c].is_table
       PROVE  Cause(es, c) \/ es[c - 1].item # es[c].item
  <2>1. CASE c \in 1 .. n
    <3>1. es[c] = cs[c] /\ (Cause(cs, c) \/ cs[c - 1].item # cs[c].item)
      BY <1>3, <1>6, <1>10, <2>1
    <3>2. CASE c = 1
      BY <3>2 DEF Cause
    <3>3. CASE c # 1
      <4>1. c - 1 \in 1 .. n
        BY <1>2, <2>1, <3>3
      <4>2. es[c - 1] = cs[c - 1]
        BY <1>3, <4>1
      <4> QED
        BY <3>1, <4>2 DEF Cause
    <3> QED
      BY <3>2, <3>3
  <2>2. ASSUME NEW m \in 1 .. k, c = n + m PROVE Cause(es, c) \/ es[c - 1].item # es[c].item
    <3>1. /\ es[c].item = item /\ es[c].is_table = ms[m].is_table /\ es[c].body = ms[m].body
          /\ Cause(ms, m)
      BY <1>4, <1>7, <1>10, <2>2
    <3>2. CASE m = 1
      <4>1. c - 1 = n
        BY <1>2, <2>2, <3>2
      <4>2. CASE n = 0
        BY <2>2, <3>2, <4>2 DEF Cause
      <4>3. CASE n # 0
        <5>1. n \in 1 .. n
          BY <1>2, <4>3
        <5>2. es[c - 1].item < item /\ es[c - 1].item \in Nat
          BY <1>3, <1>5, <1>6, <4>1, <5>1
        <5> QED
          BY <3>1, <5>2
      <4> QED
        BY <4>2, <4>3
    <3>3. CASE m # 1
      <4>1. m - 1 \in 1 .. k /\ c - 1 = n + (m - 1)
        BY <1>2, <2>2, <3>3
      <4>2. es[c - 1].is_table = ms[m - 1].is_table /\ es[c - 1].body = ms[m - 1].body
        BY <1>4, <4>1
      <4> QED
        BY <3>1, <3>3, <4>2 DEF Cause
    <3> QED
      BY <3>2, <3>3
  <2> QED
    BY <1>8, <2>1, <2>2
<1> QED
  BY <1>3, <1>9, <1>10 DEF AllChunksCaused, es, ds

\* All sections before this one, and this one.
LEMMA SectionDone ==
  ASSUME NEW ss \in Seq(Section), NEW i \in 1 .. Len(ss)
  PROVE  AllSectionUnits(SubSeq(ss, 1, i)) = AllSectionUnits(SubSeq(ss, 1, i - 1)) \o SectionUnits(ss[i])
<1>1. i - 1 \in 0 .. Len(ss) - 1 /\ (i - 1) + 1 = i
  OBVIOUS
<1> DEFINE k == i - 1
<1> HIDE DEF k
<1>2. k \in 0 .. Len(ss) - 1 /\ k + 1 = i
  BY <1>1 DEF k
<1>3. AllSectionUnits(SubSeq(ss, 1, k + 1)) = AllSectionUnits(SubSeq(ss, 1, k)) \o SectionUnits(ss[k + 1])
  BY <1>2, SectionTurn
<1> QED
  BY <1>2, <1>3 DEF k

\* The end of a section, and of all of them, keeps the invariant.
LEMMA EndSectionStep ==
  ASSUME IInv, EndSection
  PROVE  IInv'
<1> DEFINE S  == sections[sec]
           ds == Drafts(S.item, merged)
           cs == chunks \o ds
<1>0. TypeOK /\ InRange /\ InOrder /\ CutSoFar /\ BodiesSound /\ UnitsSoFar /\ Causes
  BY DEF IInv
<1>1. /\ pc = "merge" /\ turn = Len(protos) /\ turn' = 0
      /\ chunks' = cs /\ protos' = <<>> /\ merged' = <<>>
      /\ UNCHANGED <<blocks, sections, last_idx, parts>>
      /\ \/ sec < Len(sections) /\ sec' = sec + 1 /\ pc' = "pack"
         \/ sec = Len(sections) /\ sec' = sec /\ pc' = "embed"
  BY DEF EndSection, Drafts
<1>2. sec \in 1 .. Len(sections) /\ S.item \in Nat
  BY <1>0, <1>1, SectionNow
<1>3. /\ sections \in Seq(Section) /\ protos \in Seq(Proto) /\ merged \in Seq(Proto)
      /\ chunks \in Seq(Chunk)
  BY <1>0 DEF TypeOK
<1>4. AllSound(merged) /\ AllSound(chunks)
  BY <1>0 DEF BodiesSound
<1>5. AllCaused(merged) /\ AllChunksCaused(chunks)
      /\ \A c \in 1 .. Len(chunks) : chunks[c].item < S.item
  <2>1. DOMAIN merged = 1 .. Len(merged) /\ DOMAIN chunks = 1 .. Len(chunks)
    BY <1>3
  <2> QED
    BY <1>0, <1>1, <2>1 DEF Causes, AllCaused, AllChunksCaused
<1>6. parts = <<>> /\ AllChunkUnits(chunks) = AllSectionUnits(SubSeq(sections, 1, sec - 1))
  BY <1>0, <1>1 DEF UnitsSoFar
<1>7. ProtoUnits(S.item, merged) = SectionUnits(S)
  <2>1. SubSeq(protos, 1, turn) = protos
    BY <1>1, <1>3
  <2> QED
    BY <1>0, <1>1, <2>1 DEF UnitsSoFar
<1>8. AllSectionUnits(SubSeq(sections, 1, sec))
        = AllSectionUnits(SubSeq(sections, 1, sec - 1)) \o SectionUnits(S)
  BY <1>2, <1>3, SectionDone
<1> HIDE DEF S
<1>9. ds \in Seq(Chunk)
  BY <1>2, <1>3, DraftsType
<1>10. AllSound(ds)
  BY <1>2, <1>3, <1>4, DraftsKeep
<1>11. AllChunkUnits(cs) = AllChunkUnits(chunks) \o ProtoUnits(S.item, merged)
  BY <1>2, <1>3, <1>4, DraftsKeep
<1>12. AllChunksCaused(cs)
  BY <1>2, <1>3, <1>5, DraftsCaused
<1>13. \A c \in 1 .. Len(cs) : cs[c].item <= S.item
  BY <1>2, <1>3, <1>5, DraftsCaused
<1> HIDE DEF ds
<1>14. cs \in Seq(Chunk)
  BY <1>3, <1>9
<1>15. AllSound(cs)
  BY <1>3, <1>4, <1>9, <1>10, SoundConcat
<1>16. AllChunkUnits(cs) = AllSectionUnits(SubSeq(sections, 1, sec))
  BY <1>6, <1>7, <1>8, <1>11
<1> HIDE DEF cs
<1>17. AllSound(<<>>) /\ <<>> \in Seq(Proto) /\ <<>> \in Seq(Block) /\ Len(<<>>) = 0
       /\ DOMAIN <<>> = {}
  <2>1. Len(<<>>) = 0
    OBVIOUS
  <2>2. AllSound(<<>>)
    BY <2>1 DEF AllSound
  <2>3. <<>> \in Seq(Proto) /\ <<>> \in Seq(Block) /\ DOMAIN <<>> = {}
    OBVIOUS
  <2> QED
    BY <2>1, <2>2, <2>3
<1>18. sec' \in Nat /\ pc' \in {"pack", "embed"}
  BY <1>1, <1>2
<1>19. TypeOK'
  BY <1>0, <1>1, <1>14, <1>17, <1>18 DEF TypeOK
<1>20. InOrder' /\ CutSoFar'
  <2>1. pc' # "parse"
    BY <1>18
  <2> QED
    BY <1>0, <1>1, <2>1, ParsedFrame
<1>21. BodiesSound'
  BY <1>0, <1>1, <1>15, <1>17 DEF BodiesSound
<1>22. DOMAIN cs = 1 .. Len(cs)
  BY <1>14
<1>23. /\ \A m \in DOMAIN merged' : ~merged'[m].is_table => Cause(merged', m)
       /\ \A c \in DOMAIN chunks' :
            ~chunks'[c].is_table => Cause(chunks', c) \/ chunks'[c - 1].item # chunks'[c].item
  BY <1>1, <1>12, <1>17, <1>22 DEF AllChunksCaused
<1>24. CASE sec < Len(sections)
  <2>1. sec' = sec + 1 /\ pc' = "pack"
    BY <1>1, <1>2, <1>24
  <2>2. sec + 1 \in 1 .. Len(sections) /\ (sec + 1) - 1 = sec /\ sec < sec + 1
    BY <1>2, <1>24
  <2> DEFINE N == sections[sec + 1]
  <2>3. N.item \in Nat /\ N.blocks \in Seq(Block)
    BY <1>3, <2>2, SectionAt
  <2>4. S.item < N.item
    <3>1. DOMAIN sections = 1 .. Len(sections)
      BY <1>3
    <3> QED
      BY <1>0, <1>2, <2>2, <3>1 DEF InOrder, S
  <2>5. InRange'
    <3>1. 0 <= Len(N.blocks)
      BY <2>3
    <3> QED
      BY <1>0, <1>1, <2>1, <2>2, <3>1 DEF InRange
  <2>6. UnitsSoFar'
    <3>1. ProtoUnits(N.item, <<>>) \o UnitsUnder(N.item, <<>>, <<>>)
            = AllBlockUnits(N.item, SubSeq(N.blocks, 1, 0))
      BY <2>3, SectionBegins
    <3>2. AllChunkUnits(chunks') = AllSectionUnits(SubSeq(sections, 1, sec' - 1))
      BY <1>1, <1>16, <2>1, <2>2
    <3> QED
      BY <1>1, <1>6, <2>1, <3>1, <3>2 DEF UnitsSoFar
  <2>7. \A c \in DOMAIN chunks' : chunks'[c].item < sections'[sec'].item
    <3> SUFFICES ASSUME NEW c \in 1 .. Len(cs) PROVE cs[c].item < N.item
      BY <1>1, <1>22, <2>1
    <3>1. cs[c].item \in Nat
      <4>1. cs[c] \in Chunk
        BY <1>14
      <4> QED
        BY <4>1 DEF Chunk
    <3>2. cs[c].item <= S.item
      BY <1>13
    <3> HIDE DEF N
    <3> QED
      BY <1>2, <2>3, <2>4, <3>1, <3>2
  <2>8. Causes'
    BY <1>23, <2>7 DEF Causes
  <2> QED
    BY <1>19, <1>20, <1>21, <2>5, <2>6, <2>8 DEF IInv
<1>25. CASE ~(sec < Len(sections))
  <2>1. sec = Len(sections) /\ sec' = sec /\ pc' = "embed"
    BY <1>1, <1>25
  <2>2. InRange'
    BY <1>0, <1>1, <2>1 DEF InRange
  <2>3. SubSeq(sections, 1, sec) = sections
    BY <1>3, <2>1
  <2>4. AllChunkUnits(chunks') = AllSectionUnits(sections)
    BY <1>1, <1>16, <2>3
  <2>5. UnitsSoFar'
    BY <1>1, <1>6, <2>1, <2>4 DEF UnitsSoFar
  <2>6. Causes'
    BY <1>23, <2>1 DEF Causes
  <2> QED
    BY <1>19, <1>20, <1>21, <2>2, <2>5, <2>6 DEF IInv
<1> QED
  BY <1>24, <1>25

-----------------------------------------------------------------------------
(***************************************************************************)
(* The theorems.                                                           *)
(***************************************************************************)

\* Every step of the loops keeps the invariant.
LEMMA InvInductive ==
  IInv /\ [Next]_vars => IInv'
<1> SUFFICES ASSUME IInv, [Next]_vars PROVE IInv'
  OBVIOUS
<1>1. CASE TakeBlock
  BY <1>1, TakeBlockStep
<1>2. CASE Parsed
  BY <1>2, ParsedStep
<1>3. CASE PackBlock
  BY <1>3, PackBlockStep
<1>4. CASE LastFlush
  BY <1>4, LastFlushStep
<1>5. CASE MergeProto
  BY <1>5, MergeProtoStep
<1>6. CASE EndSection
  BY <1>6, EndSectionStep
<1>7. CASE UNCHANGED vars
  BY <1>7 DEF vars, IInv, TypeOK, InRange, InOrder, CutSoFar, BodiesSound, UnitsSoFar, Causes
<1> QED
  BY <1>1, <1>2, <1>3, <1>4, <1>5, <1>6, <1>7 DEF Next

\* It holds throughout.
LEMMA InvAlways ==
  Spec => []IInv
<1>1. Init => IInv
  BY InitEstablishes
<1>2. IInv /\ [Next]_vars => IInv'
  BY InvInductive
<1> QED
  BY <1>1, <1>2, PTL DEF Spec

\* The loops of _ingest_filing between the file and the embedder have what they
\* expect at hand: sections, pieces and drafts of their kinds.
THEOREM TypeCorrect ==
  Spec => []TypeOK
<1>1. IInv => TypeOK
  BY DEF IInv
<1> QED
  BY <1>1, InvAlways, PTL

\* parse_10k cuts the blocks of any page at the headings whose Item is beyond all
\* before, and only there.
THEOREM CutCorrect ==
  Spec => []SectionsByRecords
<1>1. IInv => SectionsByRecords
  <2> SUFFICES ASSUME IInv, pc # "parse" PROVE CutAtRecords(Len(blocks))
    BY DEF SectionsByRecords
  <2>1. sections \in Seq(Section)
    BY DEF IInv, TypeOK
  <2>2. IsCut(blocks, sections, Len(blocks))
    BY DEF IInv, CutSoFar
  <2> QED
    BY <2>1, <2>2, CutAtRecordsIsCut
<1> QED
  BY <1>1, InvAlways, PTL

\* Sound drafts have a header if and only if they are tables.
LEMMA HeaderOfTables ==
  ASSUME AllSound(chunks), chunks \in Seq(Chunk)
  PROVE  \A c \in DOMAIN chunks : chunks[c].is_table <=> chunks[c].body.header # <<>>
<1> SUFFICES ASSUME NEW c \in DOMAIN chunks
             PROVE  chunks[c].is_table <=> chunks[c].body.header # <<>>
  OBVIOUS
<1>1. c \in 1 .. Len(chunks) /\ chunks[c] \in Chunk
  OBVIOUS
<1>2. Sound(chunks[c])
  BY <1>1 DEF AllSound
<1>3. chunks[c].is_table \in BOOLEAN
  BY <1>1 DEF Chunk
<1> QED
  BY <1>2, <1>3 DEF Sound, TextBody

\* chunk_sections loses, doubles, moves and invents nothing, whatever the sizes of
\* blocks and whatever the limits: the chunks are the sentences and rows of the
\* sections, in order and in their Item, each row below its own header.
THEOREM TextCorrect ==
  Spec => []ChunksKeepText
<1>1. IInv => ChunksKeepText
  <2> SUFFICES ASSUME IInv, pc = "embed"
               PROVE  /\ FlattenSeq([c \in DOMAIN chunks |-> ChunkUnits(chunks[c])])
                           = FlattenSeq([s \in DOMAIN sections |-> SectionUnits(sections[s])])
                      /\ \A c \in DOMAIN chunks : chunks[c].is_table <=> chunks[c].body.header # <<>>
    BY DEF ChunksKeepText
  <2>1. sections \in Seq(Section) /\ chunks \in Seq(Chunk)
    BY DEF IInv, TypeOK
  <2>2. AllChunkUnits(chunks) = AllSectionUnits(sections)
    BY DEF IInv, UnitsSoFar
  <2>3. AllChunkUnits(chunks) = FlattenSeq([c \in DOMAIN chunks |-> ChunkUnits(chunks[c])])
    BY <2>1, AllUnitsAre
  <2>4. AllSectionUnits(sections) = FlattenSeq([s \in DOMAIN sections |-> SectionUnits(sections[s])])
    BY <2>1, AllUnitsAre
  <2>5. AllSound(chunks)
    BY DEF IInv, BodiesSound
  <2> QED
    BY <2>1, <2>2, <2>3, <2>4, <2>5, HeaderOfTables
<1> QED
  BY <1>1, InvAlways, PTL

\* A small text among the chunks has a reason to be small, and one of several
\* sentences is longer than the target only by what rounding down hides, or is as
\* long as merging allows: for every limit, not only the code's.
THEOREM SizesCorrect ==
  Spec => []SizesHaveCause
<1>1. IInv => SizesHaveCause
  <2> SUFFICES ASSUME IInv, pc = "embed", NEW c \in DOMAIN chunks, ~chunks[c].is_table
               PROVE  /\ Cause(chunks, c) \/ chunks[c - 1].item # chunks[c].item
                      /\ TextBody(chunks[c].body)
    BY DEF SizesHaveCause, Cause, TextBody
  <2>1. Cause(chunks, c) \/ chunks[c - 1].item # chunks[c].item
    BY DEF IInv, Causes
  <2>2. chunks \in Seq(Chunk)
    BY DEF IInv, TypeOK
  <2>3. c \in 1 .. Len(chunks)
    BY <2>2
  <2>4. Sound(chunks[c])
    BY <2>3 DEF IInv, BodiesSound, AllSound
  <2> QED
    BY <2>1, <2>4 DEF Sound
<1> QED
  BY <1>1, InvAlways, PTL

=============================================================================
