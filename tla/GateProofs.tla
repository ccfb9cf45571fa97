----------------------------- MODULE GateProofs -----------------------------
(***************************************************************************)
(* Proofs about the generation evaluation (GenEval) and the gate over its  *)
(* results (Gate), for any golden set, any number of runs, interruptions   *)
(* and names of results.                                                   *)
(***************************************************************************)
EXTENDS Gate, FiniteSetTheorems, SequenceTheorems, TLAPS

\* The rows in hand are those of the checkpoint; an answer in hand is to a
\* question that has no row yet; what is published is complete, and what is
\* unlinked is published.
InvLocal ==
  /\ pc \in {"idle", "load"} => done = <<>>
  /\ pc \notin {"idle", "load"} => done = checkpoint
  /\ pc \in {"grade", "record"} => answer \in Row /\ answer.id \notin IdsOf(done)
  /\ pc \in {"publish", "log", "unlink"} => Complete
  /\ pc \in {"log", "unlink"} => \E r \in Generations : r.rows = checkpoint

\* No question has two rows in the checkpoint, whatever was interrupted.
InvDistinct ==
  \A i, j \in DOMAIN checkpoint :
    checkpoint[i] # Torn /\ checkpoint[j] # Torn /\ checkpoint[i].id = checkpoint[j].id => i = j

\* No two files have one name.
InvNames ==
  /\ results \in Seq(ToSet(results))
  /\ \A i, j \in DOMAIN results : results[i].name = results[j].name => i = j

\* Options of the runs whose rows may be at hand.
Known == broken \cup (IF pc \in {"idle", "load"} THEN {} ELSE {config})

\* The rows at hand are of the run, or of runs that ended early.
InvOptions ==
  /\ \A i \in DOMAIN checkpoint : checkpoint[i] # Torn => checkpoint[i].by \in Known
  /\ pc \in {"grade", "record"} => answer.by = config

IInv ==
  /\ TypeOK
  /\ InvLocal
  /\ InvDistinct
  /\ InvNames
  /\ InvOptions
  /\ ResultsComplete

-----------------------------------------------------------------------------
(***************************************************************************)
(* Files: Put takes the file of a name out and adds one at the end.        *)
(***************************************************************************)

LEMMA RemoveAtFacts ==
  ASSUME NEW S, NEW s \in Seq(S), NEW k \in 1 .. Len(s)
  PROVE  /\ RemoveAt(s, k) \in Seq(S)
         /\ Len(RemoveAt(s, k)) = Len(s) - 1
         /\ \A i \in 1 .. Len(s) - 1 : RemoveAt(s, k)[i] = IF i < k THEN s[i] ELSE s[i + 1]
<1> DEFINE a == SubSeq(s, 1, k - 1)
           b == SubSeq(s, k + 1, Len(s))
<1>1. a \in Seq(S) /\ Len(a) = k - 1 /\ \A i \in 1 .. k - 1 : a[i] = s[i]
  OBVIOUS
<1>2. b \in Seq(S) /\ Len(b) = Len(s) - k /\ \A i \in 1 .. Len(s) - k : b[i] = s[k + i]
  OBVIOUS
<1>3. RemoveAt(s, k) = a \o b
  BY DEF RemoveAt
<1> HIDE DEF a, b
<1>4. /\ a \o b \in Seq(S)
      /\ Len(a \o b) = Len(a) + Len(b)
      /\ \A i \in 1 .. Len(a) + Len(b) :
           (a \o b)[i] = IF i <= Len(a) THEN a[i] ELSE b[i - Len(a)]
  BY <1>1, <1>2, ConcatProperties
<1>5. k \in Nat /\ Len(s) \in Nat /\ Len(a) + Len(b) = Len(s) - 1
  BY <1>1, <1>2
<1>6. ASSUME NEW i \in 1 .. Len(s) - 1 PROVE (a \o b)[i] = IF i < k THEN s[i] ELSE s[i + 1]
  <2>1. CASE i < k
    BY <1>1, <1>4, <1>5, <2>1
  <2>2. CASE ~(i < k)
    <3>1. i - (k - 1) \in 1 .. Len(s) - k /\ k + (i - (k - 1)) = i + 1
      BY <1>5, <2>2
    <3>2. (a \o b)[i] = b[i - (k - 1)]
      BY <1>1, <1>4, <1>5, <2>2
    <3> QED
      BY <1>2, <2>2, <3>1, <3>2
  <2> QED
    BY <2>1, <2>2
<1> QED
  BY <1>3, <1>4, <1>5, <1>6

\* What was in the directory, without the file at place k (if any), in the same
\* order, and the new file last.
LEMMA PutFacts ==
  ASSUME InvNames, NEW file, results' = Put(file)
  PROVE  /\ InvNames'
         /\ ToSet(results') = { f \in ToSet(results) : f.name # file.name } \cup {file}
         /\ results' # <<>> /\ Last(results') = file
         /\ \E m \in [1 .. Len(results') - 1 -> DOMAIN results] :
              /\ \A i, j \in 1 .. Len(results') - 1 : i < j => m[i] < m[j]
              /\ \A i \in 1 .. Len(results') - 1 : results'[i] = results[m[i]]
              /\ \A k \in DOMAIN results : results[k].name # file.name =>
                   \E i \in 1 .. Len(results') - 1 : m[i] = k
<1> DEFINE S    == ToSet(results) \cup {file}
           same == { i \in DOMAIN results : results[i].name = file.name }
           n    == Len(results)
<1>1. results \in Seq(S) /\ n \in Nat /\ DOMAIN results = 1 .. n
  <2>1. results \in Seq(ToSet(results))
    BY DEF InvNames
  <2> QED
    BY <2>1
<1>2. \E rest \in Seq(S) : \E m :
        /\ results' = Append(rest, file)
        /\ Len(rest) <= n
        /\ m \in [1 .. Len(rest) -> 1 .. n]
        /\ \A i, j \in 1 .. Len(rest) : i < j => m[i] < m[j]
        /\ \A i \in 1 .. Len(rest) : rest[i] = results[m[i]] /\ m[i] \notin same
        /\ \A k \in (1 .. n) \ same : \E i \in 1 .. Len(rest) : m[i] = k
  <2>1. CASE same = {}
    <3> DEFINE id == [i \in 1 .. n |-> i]
    <3>1. /\ results' = Append(results, file)
          /\ id \in [1 .. n -> 1 .. n]
          /\ \A i \in 1 .. n : id[i] = i /\ id[i] \notin same
      BY <2>1 DEF Put
    <3> HIDE DEF id
    <3>2. /\ \A i, j \in 1 .. n : i < j => id[i] < id[j]
          /\ \A i \in 1 .. n : results[i] = results[id[i]]
          /\ \A k \in 1 .. n : \E i \in 1 .. n : id[i] = k
      BY <3>1
    <3> HIDE DEF same, S
    <3> QED
      BY <1>1, <3>1, <3>2
  <2>2. CASE same # {}
    <3>1. PICK k \in same : results' = Append(RemoveAt(results, k), file)
      BY <2>2 DEF Put
    <3>2. k \in 1 .. n /\ same = {k}
      BY <1>1, <3>1 DEF InvNames
    <3> DEFINE rest == RemoveAt(results, k)
               m    == [i \in 1 .. n - 1 |-> IF i < k THEN i ELSE i + 1]
    <3>3. /\ rest \in Seq(S)
          /\ Len(rest) = n - 1
          /\ \A i \in 1 .. n - 1 : rest[i] = IF i < k THEN results[i] ELSE results[i + 1]
      BY <1>1, <3>2, RemoveAtFacts
    <3>4. /\ m \in [1 .. n - 1 -> 1 .. n]
          /\ \A i \in 1 .. n - 1 : m[i] = IF i < k THEN i ELSE i + 1
      BY <1>1, <3>2
    <3>5. results' = Append(rest, file)
      BY <3>1
    <3> HIDE DEF rest, m, n
    <3>6. k \in Nat /\ n \in Nat
      BY <1>1, <3>2
    <3>7. /\ \A i, j \in 1 .. n - 1 : i < j => m[i] < m[j]
          /\ \A i \in 1 .. n - 1 : m[i] # k
      BY <3>4, <3>6
    <3>8. \A i \in 1 .. n - 1 : rest[i] = results[m[i]]
      BY <3>3, <3>4
    <3>9. \A h \in (1 .. n) \ {k} : \E i \in 1 .. n - 1 : m[i] = h
      <4> TAKE h \in (1 .. n) \ {k}
      <4>1. CASE h < k
        <5>1. h \in 1 .. n - 1 /\ m[h] = h
          BY <3>2, <3>4, <3>6, <4>1
        <5> QED
          BY <5>1
      <4>2. CASE h > k
        <5>1. h - 1 \in 1 .. n - 1 /\ m[h - 1] = h
          BY <3>2, <3>4, <3>6, <4>2
        <5> QED
          BY <5>1
      <4> QED
        BY <3>6, <4>1, <4>2
    <3> HIDE DEF same, S
    <3>10. Len(rest) = n - 1 /\ Len(rest) <= n
      BY <3>3, <3>6
    <3> QED
      BY <3>2, <3>3, <3>4, <3>5, <3>7, <3>8, <3>9, <3>10
  <2> QED
    BY <2>1, <2>2
<1>2a. PICK rest \in Seq(S) : \E m :
        /\ results' = Append(rest, file)
        /\ Len(rest) <= n
        /\ m \in [1 .. Len(rest) -> 1 .. n]
        /\ \A i, j \in 1 .. Len(rest) : i < j => m[i] < m[j]
        /\ \A i \in 1 .. Len(rest) : rest[i] = results[m[i]] /\ m[i] \notin same
        /\ \A k \in (1 .. n) \ same : \E i \in 1 .. Len(rest) : m[i] = k
  BY <1>2
<1>3. PICK m :
        /\ results' = Append(rest, file)
        /\ Len(rest) <= n
        /\ m \in [1 .. Len(rest) -> 1 .. n]
        /\ \A i, j \in 1 .. Len(rest) : i < j => m[i] < m[j]
        /\ \A i \in 1 .. Len(rest) : rest[i] = results[m[i]] /\ m[i] \notin same
        /\ \A k \in (1 .. n) \ same : \E i \in 1 .. Len(rest) : m[i] = k
  BY <1>2a
<1>4. /\ results' \in Seq(S) /\ results' # <<>>
      /\ Len(results') = Len(rest) + 1
      /\ \A i \in 1 .. Len(rest) : results'[i] = rest[i]
      /\ results'[Len(rest) + 1] = file
      /\ Len(rest) \in Nat
      /\ DOMAIN results' = 1 .. Len(rest) + 1
  BY <1>3, AppendProperties
<1>5. Last(results') = file
  BY <1>4 DEF Last
<1>6. \A i \in 1 .. Len(rest) : results'[i] = results[m[i]] /\ m[i] \in 1 .. n /\ m[i] \notin same
  BY <1>3, <1>4
<1>7. ToSet(results') = { f \in ToSet(results) : f.name # file.name } \cup {file}
  <2>1. ASSUME NEW f \in ToSet(results') PROVE f = file \/ (f \in ToSet(results) /\ f.name # file.name)
    <3>1. PICK i \in 1 .. Len(rest) + 1 : f = results'[i]
      BY <1>4 DEF ToSet
    <3>2. CASE i = Len(rest) + 1
      BY <1>4, <3>1, <3>2
    <3>3. CASE i \in 1 .. Len(rest)
      BY <1>1, <1>6, <3>1, <3>3 DEF ToSet
    <3> QED
      BY <1>4, <3>2, <3>3
  <2>2. ASSUME NEW f \in ToSet(results), f.name # file.name PROVE f \in ToSet(results')
    <3>1. PICK k \in 1 .. n : f = results[k]
      BY <1>1 DEF ToSet
    <3>2. k \in (1 .. n) \ same
      BY <2>2, <3>1
    <3>3. PICK i \in 1 .. Len(rest) : m[i] = k
      BY <1>3, <3>2
    <3>4. i \in DOMAIN results' /\ results'[i] = f
      BY <1>4, <1>6, <3>1, <3>3
    <3> QED
      BY <3>4 DEF ToSet
  <2>3. file \in ToSet(results')
    BY <1>4 DEF ToSet
  <2> QED
    BY <2>1, <2>2, <2>3
<1>8. InvNames'
  <2>1. results' \in Seq(ToSet(results'))
    BY <1>4 DEF ToSet
  <2>2. ASSUME NEW i \in DOMAIN results', NEW j \in DOMAIN results', i < j
        PROVE  results'[i].name # results'[j].name
    <3>1. i \in 1 .. Len(rest) /\ j \in 1 .. Len(rest) + 1
      BY <1>4, <2>2
    <3>2. CASE j = Len(rest) + 1
      BY <1>1, <1>4, <1>6, <3>1, <3>2
    <3>3. CASE j \in 1 .. Len(rest)
      <4>1. m[i] # m[j] /\ m[i] \in 1 .. n /\ m[j] \in 1 .. n
        BY <1>1, <1>3, <2>2, <3>1, <3>3
      <4> QED
        BY <1>1, <1>6, <3>1, <3>3, <4>1 DEF InvNames
    <3> QED
      BY <1>4, <3>1, <3>2, <3>3
  <2>3. DOMAIN results' \subseteq Nat
    BY <1>4
  <2> QED
    BY <2>1, <2>2, <2>3 DEF InvNames
<1>9. \A k \in DOMAIN results : results[k].name # file.name => \E i \in 1 .. Len(rest) : m[i] = k
  BY <1>1, <1>3
<1>10. Len(results') - 1 = Len(rest)
  BY <1>4
<1>11. /\ m \in [1 .. Len(results') - 1 -> DOMAIN results]
       /\ \A i, j \in 1 .. Len(results') - 1 : i < j => m[i] < m[j]
       /\ \A i \in 1 .. Len(results') - 1 : results'[i] = results[m[i]]
       /\ \A k \in DOMAIN results : results[k].name # file.name =>
            \E i \in 1 .. Len(results') - 1 : m[i] = k
  <2> HIDE DEF n, S, same
  <2> QED
    BY <1>1, <1>3, <1>6, <1>9, <1>10
<1>12. results' # <<>>
  BY <1>4
<1> QED
  BY <1>5, <1>7, <1>8, <1>11, <1>12

-----------------------------------------------------------------------------
(***************************************************************************)
(* Rows: without repetition and with every question, there are as many as  *)
(* questions.                                                              *)
(***************************************************************************)

LEMMA NoLonger ==
  ASSUME NEW m \in Nat, NEW n \in Nat, NEW f \in [1 .. m -> 1 .. n],
         \A i, j \in 1 .. m : f[i] = f[j] => i = j
  PROVE  m <= n
<1>1. f \in Injection(1 .. m, 1 .. n)
  BY DEF Injection, IsInjective
<1>2. \A k \in Nat : IsFiniteSet(1 .. k) /\ Cardinality(1 .. k) = k
  <2> TAKE k \in Nat
  <2>1. k \in Int /\ 1 \in Int
    OBVIOUS
  <2>2. IsFiniteSet(1 .. k) /\ Cardinality(1 .. k) = IF 1 > k THEN 0 ELSE k - 1 + 1
    BY <2>1, FS_Interval
  <2>3. Cardinality(1 .. k) = k
    BY <2>1, <2>2
  <2> QED
    BY <2>2, <2>3
<1>3. Cardinality(1 .. m) <= Cardinality(1 .. n)
  BY <1>1, <1>2, FS_Injection
<1> QED
  BY <1>2, <1>3

LEMMA CompleteRows ==
  ASSUME done \in Seq(Row), Complete,
         \A i, j \in DOMAIN done : done[i].id = done[j].id => i = j
  PROVE  IdsOf(done) = Question /\ Len(done) = Len(Golden)
<1> DEFINE m == Len(done)
           n == Len(Golden)
<1>1. /\ m \in Nat /\ DOMAIN done = 1 .. m
      /\ n \in Nat /\ DOMAIN Golden = 1 .. n
      /\ \A i, j \in 1 .. n : Golden[i] = Golden[j] => i = j
  BY GenEvalAssumption DEF GenEvalAssumption, IsInjective
<1>2. \A k \in 1 .. n : Golden[k] \in IdsOf(done)
  BY <1>1 DEF Complete, Remaining
<1>3. \A i \in 1 .. m : done[i].id \in Question
  <2>1. \A i \in 1 .. m : done[i] \in Row
    BY <1>1
  <2> QED
    BY <2>1 DEF Row
<1>4. IdsOf(done) = Question
  BY <1>1, <1>2, <1>3 DEF IdsOf, Question, ToSet
<1> DEFINE f == [i \in 1 .. m |-> CHOOSE k \in 1 .. n : Golden[k] = done[i].id]
           g == [k \in 1 .. n |-> CHOOSE i \in 1 .. m : done[i].id = Golden[k]]
<1>5. \A i \in 1 .. m : f[i] \in 1 .. n /\ Golden[f[i]] = done[i].id
  BY <1>1, <1>3 DEF Question, ToSet
<1>6. \A k \in 1 .. n : g[k] \in 1 .. m /\ done[g[k]].id = Golden[k]
  BY <1>1, <1>2 DEF IdsOf
<1>7. m <= n
  <2>1. f \in [1 .. m -> 1 .. n]
    BY <1>5
  <2>2. \A i, j \in 1 .. m : f[i] = f[j] => i = j
    BY <1>1, <1>5
  <2> HIDE DEF f, m, n
  <2> QED
    BY <1>1, <2>1, <2>2, NoLonger
<1>8. n <= m
  <2>1. g \in [1 .. n -> 1 .. m]
    BY <1>6
  <2>2. \A i, j \in 1 .. n : g[i] = g[j] => i = j
    BY <1>1, <1>6
  <2> HIDE DEF g, m, n
  <2> QED
    BY <1>1, <2>1, <2>2, NoLonger
<1>9. m = n
  <2> HIDE DEF m, n
  <2> QED
    BY <1>1, <1>7, <1>8
<1> QED
  BY <1>4, <1>9

-----------------------------------------------------------------------------
(***************************************************************************)
(* IInv is an inductive invariant.                                         *)
(***************************************************************************)

LEMMA InitEstablishes == Init => IInv
<1> SUFFICES ASSUME Init PROVE IInv
  OBVIOUS
<1>1. TypeOK
  <2>1. ToSet(results) = {}
    BY DEF Init, ToSet
  <2>2. runs \in 0 .. MaxRuns
    BY GenEvalAssumption DEF GenEvalAssumption, Init
  <2>3. checkpoint \in Seq(Row \cup {Torn}) /\ done \in Seq(Row)
    BY DEF Init
  <2> QED
    BY <2>1, <2>2, <2>3 DEF Init, TypeOK
<1>2. InvLocal /\ InvDistinct /\ InvNames /\ InvOptions
  BY DEF Init, InvLocal, InvDistinct, InvNames, InvOptions, Known, ToSet
<1>3. ResultsComplete
  BY DEF Init, ResultsComplete, Generations, ToSet
<1> QED
  BY <1>1, <1>2, <1>3 DEF IInv

\* What a step that leaves the results alone need not look at.
LEMMA ResultsKept ==
  ASSUME IInv, results' = results
  PROVE  /\ \A r \in ToSet(results') : r.kind # "retrieval" => r \in Result \cup Scrap
         /\ Generations' = Generations
         /\ InvNames'
         /\ ResultsComplete'
BY DEF IInv, TypeOK, Generations, InvNames, ResultsComplete, Result, Scrap

LEMMA FailPreserves ==
  ASSUME IInv, Fail
  PROVE  IInv'
<1> USE DEF IInv
<1>1. /\ UNCHANGED <<checkpoint, results, config, runs, paid>>
      /\ pc' = "idle" /\ done' = <<>> /\ answer' = NoAnswer /\ broken' = broken \cup {config}
  BY DEF Fail, Break, files
<1>2. TypeOK'
  BY <1>1, ResultsKept DEF Fail, Break, TypeOK
<1>3. InvLocal' /\ InvDistinct' /\ InvOptions'
  BY <1>1 DEF InvLocal, InvDistinct, InvOptions, Known
<1> QED
  BY <1>1, <1>2, <1>3, ResultsKept

LEMMA StartPreserves ==
  ASSUME IInv, NEW c \in Config, Start(c)
  PROVE  IInv'
<1> USE DEF IInv
<1>1. /\ UNCHANGED <<checkpoint, results, done, answer, broken, paid>>
      /\ pc = "idle" /\ pc' = "load" /\ config' = c /\ runs < MaxRuns /\ runs' = runs + 1
  BY DEF Start, files
<1>2. TypeOK'
  <2>1. runs' \in 0 .. MaxRuns
    BY <1>1, GenEvalAssumption DEF GenEvalAssumption, TypeOK
  <2> QED
    BY <1>1, <2>1, ResultsKept DEF TypeOK
<1>3. InvLocal' /\ InvDistinct' /\ InvOptions'
  BY <1>1 DEF InvLocal, InvDistinct, InvOptions, Known
<1> QED
  BY <1>1, <1>2, <1>3, ResultsKept

LEMMA LoadPreserves ==
  ASSUME IInv, Load
  PROVE  IInv'
<1> USE DEF IInv
<1>1. /\ UNCHANGED <<checkpoint, results, config, answer, runs, broken, paid>>
      /\ pc = "load" /\ pc' = "answer" /\ done' = checkpoint
      /\ \A i \in DOMAIN checkpoint : checkpoint[i] # Torn
  BY DEF Load, files
<1>2. TypeOK'
  <2>1. checkpoint \in Seq(Row)
    BY <1>1 DEF TypeOK
  <2> QED
    BY <1>1, <2>1, ResultsKept DEF TypeOK
<1>3. InvLocal' /\ InvDistinct' /\ InvOptions'
  BY <1>1 DEF InvLocal, InvDistinct, InvOptions, Known
<1> QED
  BY <1>1, <1>2, <1>3, ResultsKept

LEMMA AnswerPreserves ==
  ASSUME IInv, Answer
  PROVE  IInv'
<1> USE DEF IInv
<1>1. /\ UNCHANGED <<checkpoint, results, config, done, runs, broken>>
      /\ pc = "answer" /\ pc' \in {"grade", "record"}
  BY DEF Answer, files
<1>2. PICK q \in Question :
        /\ q \notin IdsOf(done)
        /\ paid' = [paid EXCEPT ![q] = paid[q] + 1]
        /\ \E good \in BOOLEAN : answer' = [id |-> q, by |-> config, good |-> good]
  BY DEF Answer, Remaining, Question, ToSet
<1>3. answer' \in Row /\ answer'.id = q /\ answer'.by = config
  BY <1>2 DEF TypeOK, Row
<1>4. TypeOK'
  <2>1. paid' \in [Question -> Nat]
    BY <1>2 DEF TypeOK
  <2> QED
    BY <1>1, <1>3, <2>1, ResultsKept DEF TypeOK
<1>5. InvLocal'
  BY <1>1, <1>2, <1>3 DEF InvLocal, IdsOf
<1>6. InvDistinct' /\ InvOptions'
  BY <1>1, <1>3 DEF InvDistinct, InvOptions, Known
<1> QED
  BY <1>1, <1>4, <1>5, <1>6, ResultsKept

LEMMA GradePreserves ==
  ASSUME IInv, Grade
  PROVE  IInv'
<1> USE DEF IInv
<1>1. /\ UNCHANGED <<checkpoint, results, config, done, answer, runs, broken, paid>>
      /\ pc = "grade" /\ pc' = "record"
  BY DEF Grade, files, local
<1>2. TypeOK'
  BY <1>1, ResultsKept DEF TypeOK
<1>3. InvLocal' /\ InvDistinct' /\ InvOptions'
  BY <1>1 DEF InvLocal, InvDistinct, InvOptions, Known, IdsOf
<1> QED
  BY <1>1, <1>2, <1>3, ResultsKept

LEMMA RecordPreserves ==
  ASSUME IInv, Record
  PROVE  IInv'
<1> USE DEF IInv
<1>1. /\ UNCHANGED <<results, config, runs, broken, paid>>
      /\ pc = "record" /\ pc' = "answer" /\ answer' = NoAnswer
      /\ checkpoint' = Append(checkpoint, answer) /\ done' = Append(done, answer)
  BY DEF Record
<1>2. done = checkpoint /\ answer \in Row /\ answer.id \notin IdsOf(done)
  BY <1>1 DEF InvLocal
<1>3. /\ done \in Seq(Row) /\ Len(done) \in Nat /\ DOMAIN done = 1 .. Len(done)
      /\ done' \in Seq(Row) /\ DOMAIN done' = 1 .. Len(done) + 1
      /\ \A i \in 1 .. Len(done) : done'[i] = done[i]
      /\ done'[Len(done) + 1] = answer
  BY <1>1, <1>2, AppendProperties DEF TypeOK
<1>4. done' = checkpoint'
  BY <1>1, <1>2
<1>5. TypeOK'
  <2>1. checkpoint' \in Seq(Row \cup {Torn})
    BY <1>3, <1>4
  <2> QED
    BY <1>1, <1>3, <2>1, ResultsKept DEF TypeOK
<1>6. InvLocal'
  BY <1>1, <1>4 DEF InvLocal
<1>7. InvDistinct'
  <2> DEFINE n == Len(done)
  <2>1. ASSUME NEW i \in 1 .. n, NEW j \in 1 .. n, done[i].id = done[j].id PROVE i = j
    BY <1>2, <1>3, <2>1, GenEvalAssumption DEF GenEvalAssumption, InvDistinct
  <2>2. \A i \in 1 .. n : done[i].id # answer.id
    BY <1>2, <1>3 DEF IdsOf
  <2> HIDE DEF n
  <2>3. ASSUME NEW i \in 1 .. n + 1, NEW j \in 1 .. n + 1, done'[i].id = done'[j].id PROVE i = j
    <3>1. CASE i \in 1 .. n /\ j \in 1 .. n
      BY <1>3, <2>1, <2>3, <3>1 DEF n
    <3>2. CASE i = n + 1 /\ j \in 1 .. n
      BY <1>3, <2>2, <2>3, <3>2 DEF n
    <3>3. CASE i \in 1 .. n /\ j = n + 1
      BY <1>3, <2>2, <2>3, <3>3 DEF n
    <3>4. n \in Nat
      BY <1>3 DEF n
    <3> QED
      BY <3>1, <3>2, <3>3, <3>4
  <2> QED
    BY <1>3, <1>4, <2>3 DEF InvDistinct, n
<1>8. InvOptions'
  BY <1>1, <1>3 DEF InvOptions, Known
<1> QED
  BY <1>1, <1>5, <1>6, <1>7, <1>8, ResultsKept

LEMMA AggregatePreserves ==
  ASSUME IInv, Aggregate \/ WriteChangelog
  PROVE  IInv'
<1> USE DEF IInv
<1>1. /\ UNCHANGED <<checkpoint, results, config, done, answer, runs, broken, paid>>
      /\ \/ pc = "answer" /\ Complete /\ pc' = "publish"
         \/ pc = "log" /\ pc' = "unlink"
  BY DEF Aggregate, WriteChangelog, files, local
<1>2. TypeOK'
  BY <1>1, ResultsKept DEF TypeOK
<1>3. InvDistinct' /\ InvOptions'
  BY <1>1 DEF InvDistinct, InvOptions, Known
<1>4. InvLocal'
  BY <1>1, ResultsKept DEF InvLocal, Complete, Remaining, IdsOf
<1> QED
  BY <1>1, <1>2, <1>3, <1>4, ResultsKept

LEMMA UnlinkPreserves ==
  ASSUME IInv, Unlink
  PROVE  IInv'
<1> USE DEF IInv
<1>1. /\ UNCHANGED <<results, config, answer, runs>> /\ broken' = {}
      /\ checkpoint' = <<>> /\ pc' = "idle" /\ done' = <<>> /\ paid' = [q \in Question |-> 0]
  BY DEF Unlink
<1>2. TypeOK'
  BY <1>1, ResultsKept DEF TypeOK
<1>3. InvLocal' /\ InvDistinct' /\ InvOptions'
  BY <1>1 DEF InvLocal, InvDistinct, InvOptions, Known
<1> QED
  BY <1>1, <1>2, <1>3, ResultsKept

\* Files of the directory that are not torn, nor results of retrieval, are results
\* of generation, and complete.
LEMMA PutPreserves ==
  ASSUME IInv, NEW file, results' = Put(file), file.kind # "retrieval" => file \in Result \cup Scrap,
         file.kind = "generation" =>
           IdsOf(file.rows) = Question /\ Len(file.rows) = Len(Golden)
  PROVE  /\ \A r \in ToSet(results') : r.kind # "retrieval" => r \in Result \cup Scrap
         /\ InvNames' /\ ResultsComplete'
<1>1. InvNames' /\ \A r \in ToSet(results') : r \in ToSet(results) \/ r = file
  BY PutFacts DEF IInv
<1>2. \A r \in ToSet(results') : r.kind # "retrieval" => r \in Result \cup Scrap
  BY <1>1 DEF IInv, TypeOK
<1>3. \A r \in Generations' : r \in Generations \/ (r = file /\ file.kind = "generation")
  BY <1>1 DEF Generations
<1> QED
  BY <1>1, <1>2, <1>3 DEF IInv, ResultsComplete, IdsOf

LEMMA InterruptedInWritePreserves ==
  ASSUME IInv, InterruptedInWrite
  PROVE  IInv'
<1> USE DEF IInv
<1>1. /\ UNCHANGED <<config, runs, paid>>
      /\ pc' = "idle" /\ done' = <<>> /\ answer' = NoAnswer /\ broken' = broken \cup {config}
  BY DEF InterruptedInWrite, Break
<1>2. CASE checkpoint' = Append(checkpoint, Torn) /\ UNCHANGED results
  <2>1. /\ checkpoint' \in Seq(Row \cup {Torn})
        /\ Len(checkpoint) \in Nat /\ DOMAIN checkpoint = 1 .. Len(checkpoint)
        /\ DOMAIN checkpoint' = 1 .. Len(checkpoint) + 1
        /\ \A i \in 1 .. Len(checkpoint) : checkpoint'[i] = checkpoint[i]
        /\ checkpoint'[Len(checkpoint) + 1] = Torn
    BY <1>2, AppendProperties DEF TypeOK
  <2>2. TypeOK'
    BY <1>1, <1>2, <2>1, ResultsKept DEF TypeOK
  <2>3. InvDistinct'
    BY <2>1 DEF InvDistinct
  <2>4. InvLocal' /\ InvOptions'
    BY <1>1, <2>1 DEF InvLocal, InvOptions, Known
  <2> QED
    BY <1>2, <2>2, <2>3, <2>4, ResultsKept
<1>3. ASSUME NEW n \in Name, results' = Put([name |-> n, kind |-> "torn"]), UNCHANGED checkpoint
      PROVE  IInv'
  <2> DEFINE file == [name |-> n, kind |-> "torn"]
  <2>1. file \in Result \cup Scrap /\ file.kind = "torn"
    BY DEF Scrap
  <2>2. /\ \A r \in ToSet(results') : r.kind # "retrieval" => r \in Result \cup Scrap
        /\ InvNames' /\ ResultsComplete'
    <3> HIDE DEF file
    <3>1. results' = Put(file)
      BY <1>3 DEF file
    <3> QED
      BY <1>1, <2>1, <3>1, PutPreserves
  <2>3. TypeOK'
    BY <1>1, <1>3, <2>2 DEF TypeOK
  <2>4. InvLocal' /\ InvDistinct' /\ InvOptions'
    BY <1>1, <1>3 DEF InvLocal, InvDistinct, InvOptions, Known
  <2> QED
    BY <2>2, <2>3, <2>4
<1> QED
  BY <1>2, <1>3 DEF InterruptedInWrite

LEMMA WriteResultPreserves ==
  ASSUME IInv, WriteResult
  PROVE  IInv'
<1> USE DEF IInv
<1>1. /\ UNCHANGED <<checkpoint, config, done, answer, runs, broken, paid>>
      /\ pc = "publish" /\ pc' = "log"
  BY DEF WriteResult, local
<1>2. PICK n \in Name :
        results' = Put([name |-> n, kind |-> "generation", by |-> config, rows |-> done])
  BY DEF WriteResult
<1> DEFINE file == [name |-> n, kind |-> "generation", by |-> config, rows |-> done]
<1>3. /\ file \in Result
      /\ file.kind = "generation" /\ file.rows = done /\ file.by = config
  BY DEF TypeOK, Result
<1> HIDE DEF file
<1>4. results' = Put(file)
  BY <1>2 DEF file
<1>5. IdsOf(done) = Question /\ Len(done) = Len(Golden)
  <2>1. done = checkpoint /\ Complete
    BY <1>1 DEF InvLocal
  <2>2. \A i \in DOMAIN done : done[i] # Torn
    BY GenEvalAssumption DEF GenEvalAssumption, TypeOK
  <2>3. \A i, j \in DOMAIN done : done[i].id = done[j].id => i = j
    BY <2>1, <2>2 DEF InvDistinct
  <2> QED
    BY <2>1, <2>3, CompleteRows DEF TypeOK
<1>7. /\ \A r \in ToSet(results') : r.kind # "retrieval" => r \in Result \cup Scrap
      /\ InvNames' /\ ResultsComplete'
  BY <1>1, <1>3, <1>4, <1>5, PutPreserves
<1>8. TypeOK'
  BY <1>1, <1>7 DEF TypeOK
<1>9. file \in Generations'
  BY <1>3, <1>4, PutFacts DEF Generations
<1>10. InvLocal'
  BY <1>1, <1>3, <1>9 DEF InvLocal, Complete, Remaining, IdsOf
<1>11. InvDistinct' /\ InvOptions'
  BY <1>1 DEF InvDistinct, InvOptions, Known
<1> QED
  BY <1>7, <1>8, <1>10, <1>11

LEMMA PublishRetrievalPreserves ==
  ASSUME IInv, PublishRetrieval
  PROVE  IInv'
<1> USE DEF IInv
<1>1. /\ UNCHANGED <<checkpoint, pc, config, done, answer, broken, paid>>
      /\ pc = "idle" /\ runs < MaxRuns /\ runs' = runs + 1
  BY DEF PublishRetrieval, local
<1>2. PICK file \in RetrievalResult \cup Scrap : results' = Put(file)
  BY DEF PublishRetrieval
<1>3. file \in Scrap \/ file.kind = "retrieval"
  BY DEF RetrievalResult
<1>4. file.kind # "generation"
  BY <1>3 DEF Scrap
<1>5. /\ \A r \in ToSet(results') : r.kind # "retrieval" => r \in Result \cup Scrap
      /\ InvNames' /\ ResultsComplete'
  BY <1>1, <1>2, <1>3, <1>4, PutPreserves
<1>6. TypeOK'
  <2>1. runs' \in 0 .. MaxRuns
    BY <1>1, GenEvalAssumption DEF GenEvalAssumption, TypeOK
  <2> QED
    BY <1>1, <1>5, <2>1 DEF TypeOK
<1>7. InvLocal' /\ InvDistinct' /\ InvOptions'
  BY <1>1 DEF InvLocal, InvDistinct, InvOptions, Known
<1> QED
  BY <1>5, <1>6, <1>7

LEMMA InvInductive == IInv /\ [GateNext]_vars => IInv'
<1> SUFFICES ASSUME IInv, [GateNext]_vars PROVE IInv'
  OBVIOUS
<1>1. CASE UNCHANGED vars
  BY <1>1 DEF vars, files, local, IInv, TypeOK, InvLocal, InvDistinct, InvNames, InvOptions, Known,
              ResultsComplete, Generations, Complete, Remaining, IdsOf
<1>2. CASE PublishRetrieval
  BY <1>2, PublishRetrievalPreserves
<1>3. ASSUME NEW c \in Config, Start(c) PROVE IInv'
  BY <1>3, StartPreserves
<1>4. CASE Interrupted \/ LoadFails \/ AnswerTimesOut \/ GradeFails
  BY <1>4, FailPreserves DEF Interrupted, LoadFails, AnswerTimesOut, GradeFails
<1>5. CASE InterruptedInWrite
  BY <1>5, InterruptedInWritePreserves
<1>6. CASE Load \/ Answer \/ Grade \/ Record
  BY <1>6, LoadPreserves, AnswerPreserves, GradePreserves, RecordPreserves
<1>7. CASE Aggregate \/ WriteResult \/ WriteChangelog \/ Unlink
  BY <1>7, AggregatePreserves, WriteResultPreserves, UnlinkPreserves
<1> QED
  BY <1>1, <1>2, <1>3, <1>4, <1>5, <1>6, <1>7 DEF GateNext, Next, Step

LEMMA InvAlways == GateSpec => []IInv
  BY InitEstablishes, InvInductive, PTL DEF GateSpec

-----------------------------------------------------------------------------
(***************************************************************************)
(* The theorems.                                                           *)
(***************************************************************************)

\* Every variable of the evaluation keeps its type, and a file in evals/results is
\* a result, or a write that was torn.
THEOREM TypeCorrect == GateSpec => []TypeOK
<1>1. IInv => TypeOK
  BY DEF IInv
<1> QED
  BY <1>1, InvAlways, PTL

\* Whatever was interrupted before, a result has one row, and one only, for every
\* golden question.
THEOREM CompleteResults == GateSpec => []ResultsComplete
<1>1. IInv => ResultsComplete
  BY DEF IInv
<1> QED
  BY <1>1, InvAlways, PTL

\* A step leaves the results alone, or puts one file.
LEMMA StepPuts ==
  ASSUME [GateNext]_vars
  PROVE  results' = results \/ \E file : results' = Put(file)
<1>1. CASE UNCHANGED vars
  BY <1>1 DEF vars, files
<1>2. CASE PublishRetrieval
  BY <1>2 DEF PublishRetrieval
<1>3. CASE Next
  BY <1>3 DEF Next, Start, Step, Answer, Interrupted, InterruptedInWrite, Fail, Break, files, vars,
              Load, LoadFails, AnswerTimesOut, Grade, GradeFails, Record, Aggregate, WriteResult,
              WriteChangelog, Unlink
<1> QED
  BY <1>1, <1>2, <1>3 DEF GateNext

\* A step leaves the checkpoint alone, adds a line to it, or unlinks it.
LEMMA StepWrites ==
  ASSUME [GateNext]_vars
  PROVE  \/ checkpoint' = checkpoint
         \/ \E line \in {answer, Torn} : checkpoint' = Append(checkpoint, line)
         \/ Unlink
<1>1. CASE UNCHANGED vars
  BY <1>1 DEF vars, files
<1>2. CASE PublishRetrieval
  BY <1>2 DEF PublishRetrieval
<1>3. CASE Next
  BY <1>3 DEF Next, Start, Step, Answer, Interrupted, InterruptedInWrite, Fail, Break, files, vars,
              Load, LoadFails, AnswerTimesOut, Grade, GradeFails, Record, Aggregate, WriteResult,
              WriteChangelog
<1> QED
  BY <1>1, <1>2, <1>3 DEF GateNext

\* A step pays for nothing but the answer to a question that has no row.
LEMMA StepPays ==
  ASSUME [GateNext]_vars
  PROVE  \/ paid' = paid
         \/ \E q \in Question : q \notin IdsOf(done) /\ pc = "answer" /\ paid' = [paid EXCEPT ![q] = @ + 1]
         \/ paid' = [q \in Question |-> 0]
<1>1. CASE UNCHANGED vars
  BY <1>1 DEF vars
<1>2. CASE PublishRetrieval
  BY <1>2 DEF PublishRetrieval
<1>3. CASE Answer
  BY <1>3 DEF Answer, Remaining, Question, ToSet
<1>4. CASE Next /\ ~Answer
  BY <1>4 DEF Next, Start, Step, Interrupted, InterruptedInWrite, Fail, Break, vars,
              Load, LoadFails, AnswerTimesOut, Grade, GradeFails, Record, Aggregate, WriteResult,
              WriteChangelog, Unlink
<1> QED
  BY <1>1, <1>2, <1>3, <1>4 DEF GateNext

\* Results of generation come from WriteResult.
LEMMA StepPublishes ==
  ASSUME [GateNext]_vars
  PROVE  \/ results' = results
         \/ \E file : file.kind # "generation" /\ results' = Put(file)
         \/ WriteResult
<1>1. CASE UNCHANGED vars
  BY <1>1 DEF vars, files
<1>2. CASE PublishRetrieval
  <2>1. PICK file \in RetrievalResult \cup Scrap : results' = Put(file)
    BY <1>2 DEF PublishRetrieval
  <2>2. file.kind # "generation"
    BY DEF RetrievalResult, Scrap
  <2> QED
    BY <2>1, <2>2
<1>3. CASE InterruptedInWrite
  <2>1. ASSUME NEW n \in Name, results' = Put([name |-> n, kind |-> "torn"])
        PROVE  \E file : file.kind # "generation" /\ results' = Put(file)
    <3>1. [name |-> n, kind |-> "torn"].kind # "generation"
      OBVIOUS
    <3> QED
      BY <2>1, <3>1
  <2> QED
    BY <1>3, <2>1 DEF InterruptedInWrite
<1>4. CASE Next /\ ~InterruptedInWrite
  BY <1>4 DEF Next, Start, Step, Answer, Interrupted, Fail, Break, files, vars, Load, LoadFails,
              AnswerTimesOut, Grade, GradeFails, Record, Aggregate, WriteChangelog, Unlink
<1> QED
  BY <1>1, <1>2, <1>3, <1>4 DEF GateNext

\* The options of every answer in a result are those of the run that publishes it,
\* or of one that ended early after the last success.
THEOREM MixturesHaveCause == GateSpec => MixedHasCause
<1> DEFINE Mixed == \A r \in Generations' :
                      \/ r \in Generations
                      \/ \A row \in ToSet(r.rows) : row.by \in broken \cup {r.by}
<1>1. ASSUME IInv, [GateNext]_vars PROVE Mixed
  <2>1. InvNames
    BY <1>1 DEF IInv
  <2>2. CASE results' = results
    BY <2>2 DEF Generations
  <2>3. ASSUME NEW file, file.kind # "generation", results' = Put(file)
        PROVE  Mixed
    BY <2>1, <2>3, PutFacts DEF Generations
  <2>4. CASE WriteResult
    <3>1. PICK n \in Name :
            results' = Put([name |-> n, kind |-> "generation", by |-> config, rows |-> done])
      BY <2>4 DEF WriteResult
    <3> DEFINE file == [name |-> n, kind |-> "generation", by |-> config, rows |-> done]
    <3>2. \A row \in ToSet(done) : row.by \in broken \cup {config}
      <4>1. done = checkpoint /\ done \in Seq(Row) /\ pc = "publish"
        BY <1>1, <2>4 DEF WriteResult, IInv, TypeOK, InvLocal
      <4>2. \A i \in DOMAIN done : done[i] # Torn
        BY <4>1, GenEvalAssumption DEF GenEvalAssumption
      <4> QED
        BY <1>1, <4>1, <4>2 DEF IInv, InvOptions, Known, ToSet
    <3>3. \A row \in ToSet(file.rows) : row.by \in broken \cup {file.by}
      BY <3>2
    <3> HIDE DEF file
    <3>4. results' = Put(file)
      BY <3>1 DEF file
    <3>5. \A r \in Generations' : r \in Generations \/ r = file
      BY <2>1, <3>4, PutFacts DEF Generations
    <3> QED
      BY <3>3, <3>5
  <2> HIDE DEF Mixed
  <2> QED
    BY <1>1, <2>2, <2>3, <2>4, StepPublishes
<1>2. IInv /\ [GateNext]_vars => [Mixed]_vars
  BY <1>1
<1> QED
  BY <1>2, InvAlways, PTL DEF GateSpec, MixedHasCause

\* A row leaves the checkpoint only when a result has it.
THEOREM RowsKept == GateSpec => RowsSurvive
<1> DEFINE Kept == \/ IsPrefix(checkpoint, checkpoint')
                   \/ \E r \in Generations : r.rows = checkpoint
<1>1. ASSUME IInv, [GateNext]_vars PROVE Kept
  <2>1. checkpoint \in Seq(Row \cup {Torn})
    BY <1>1 DEF IInv, TypeOK
  <2>2. CASE checkpoint' = checkpoint
    BY <2>1, <2>2 DEF IsPrefix
  <2>3. ASSUME NEW line \in {answer, Torn}, checkpoint' = Append(checkpoint, line)
        PROVE  Kept
    BY <2>1, <2>3 DEF IsPrefix
  <2>4. CASE Unlink
    BY <1>1, <2>4 DEF Unlink, IInv, InvLocal
  <2> QED
    BY <1>1, <2>2, <2>3, <2>4, StepWrites
<1>2. IInv /\ [GateNext]_vars => [Kept]_vars
  BY <1>1
<1> QED
  BY <1>2, InvAlways, PTL DEF GateSpec, RowsSurvive

\* "an interrupted run never re-spends API credits on questions already answered",
\* as far as they were recorded.
THEOREM RecordedPaidOnce == GateSpec => RecordedIsNotPaidAgain
<1> DEFINE Spared == \A i \in DOMAIN checkpoint :
                       checkpoint[i] # Torn => paid'[checkpoint[i].id] <= paid[checkpoint[i].id]
<1>1. ASSUME IInv, [GateNext]_vars PROVE Spared
  <2> SUFFICES ASSUME NEW i \in DOMAIN checkpoint, checkpoint[i] # Torn
               PROVE  paid'[checkpoint[i].id] <= paid[checkpoint[i].id]
    OBVIOUS
  <2> DEFINE id == checkpoint[i].id
  <2>1. id \in Question /\ paid[id] \in Nat /\ paid \in [Question -> Nat]
    <3>1. checkpoint[i] \in Row
      BY <1>1 DEF IInv, TypeOK
    <3> QED
      BY <1>1, <3>1 DEF IInv, TypeOK, Row
  <2>2. CASE paid' = paid
    BY <2>1, <2>2
  <2>3. ASSUME NEW q \in Question, q \notin IdsOf(done), pc = "answer", paid' = [paid EXCEPT ![q] = @ + 1]
        PROVE  paid'[id] <= paid[id]
    <3>1. id # q
      BY <1>1, <2>3 DEF IInv, InvLocal, IdsOf
    <3> QED
      BY <2>1, <2>3, <3>1
  <2>4. CASE paid' = [q \in Question |-> 0]
    BY <2>1, <2>4
  <2> QED
    BY <1>1, <2>2, <2>3, <2>4, StepPays
<1>2. IInv /\ [GateNext]_vars => [Spared]_vars
  BY <1>1
<1> QED
  BY <1>2, InvAlways, PTL DEF GateSpec, RecordedIsNotPaidAgain

-----------------------------------------------------------------------------
(***************************************************************************)
(* The gate looks at the latest file of a kind (those in K before, those   *)
(* in L after), which Put changes in two ways only.                        *)
(***************************************************************************)

LEMMA LatestOfPut ==
  ASSUME InvNames, NEW file, results' = Put(file), NEW K, NEW L,
         \A f \in ToSet(results) : f.name # file.name => (f \in K <=> f \in L)
  PROVE  /\ file \in L => Latest(results', L) = {file}
         /\ file \notin L =>
              /\ \A f \in Latest(results, K) : f.name # file.name => f \in Latest(results', L)
              /\ \A g \in Latest(results', L) :
                   \E f \in Latest(results, K) : f = g \/ f.name = file.name
<1> DEFINE n == Len(results')
<1>1. /\ InvNames'
      /\ n \in Nat \ {0} /\ DOMAIN results' = 1 .. n /\ results'[n] = file
      /\ DOMAIN results = 1 .. Len(results) /\ Len(results) \in Nat
  <2>1. InvNames' /\ results' # <<>> /\ Last(results') = file
    BY PutFacts
  <2>2. results' \in Seq(ToSet(results')) /\ results \in Seq(ToSet(results))
    BY <2>1 DEF InvNames
  <2> QED
    BY <2>1, <2>2 DEF Last
<1>2. PICK m \in [1 .. n - 1 -> DOMAIN results] :
        /\ \A i, j \in 1 .. n - 1 : i < j => m[i] < m[j]
        /\ \A i \in 1 .. n - 1 : results'[i] = results[m[i]]
        /\ \A k \in DOMAIN results : results[k].name # file.name =>
             \E i \in 1 .. n - 1 : m[i] = k
  BY PutFacts
<1> HIDE DEF n
<1>3. \A i \in 1 .. n - 1 : results'[i].name # file.name
  <2>1. \A i \in 1 .. n - 1 : i \in 1 .. n /\ n \in 1 .. n /\ i # n
    BY <1>1
  <2> QED
    BY <1>1, <2>1 DEF InvNames
<1>4. \A i \in 1 .. n - 1 :
        results[m[i]].name # file.name /\ (results'[i] \in L <=> results[m[i]] \in K)
  <2>1. \A i \in 1 .. n - 1 : results[m[i]] \in ToSet(results)
    BY <1>2 DEF ToSet
  <2> QED
    BY <1>2, <1>3, <2>1
<1>5. ASSUME file \in L PROVE Latest(results', L) = {file}
  <2>1. n \in DOMAIN results' /\ (\A h \in n + 1 .. n : results'[h] \notin L)
    BY <1>1
  <2>2. \A i \in DOMAIN results' : i # n => n \in i + 1 .. n
    BY <1>1
  <2> QED
    BY <1>1, <1>5, <2>1, <2>2 DEF Latest, n
<1>6. ASSUME file \notin L, NEW f \in Latest(results, K), f.name # file.name
      PROVE  f \in Latest(results', L)
  <2>1. PICK k \in 1 .. Len(results) :
          f = results[k] /\ f \in K /\ \A h \in k + 1 .. Len(results) : results[h] \notin K
    BY <1>1 DEF Latest
  <2>2. PICK i \in 1 .. n - 1 : m[i] = k
    BY <1>1, <1>2, <1>6, <2>1
  <2>3. i \in DOMAIN results' /\ results'[i] = f /\ f \in L
    BY <1>1, <1>2, <1>4, <2>1, <2>2
  <2>4. ASSUME NEW j \in i + 1 .. n PROVE results'[j] \notin L
    <3>1. CASE j = n
      BY <1>1, <1>6, <3>1
    <3>2. CASE j # n
      <4>1. j \in 1 .. n - 1 /\ i < j
        BY <1>1, <3>2
      <4>2. m[j] \in k + 1 .. Len(results)
        <5>1. m[i] < m[j]
          BY <1>2, <2>2, <4>1
        <5>2. m[j] \in 1 .. Len(results)
          BY <1>1, <1>2, <4>1
        <5> QED
          BY <2>1, <2>2, <5>1, <5>2
      <4> QED
        BY <1>4, <2>1, <4>1, <4>2
    <3> QED
      BY <3>1, <3>2
  <2> QED
    BY <1>1, <2>3, <2>4 DEF Latest, n
<1>7. ASSUME file \notin L, NEW g \in Latest(results', L)
      PROVE  \E f \in Latest(results, K) : f = g \/ f.name = file.name
  <2>1. PICK i \in 1 .. n :
          g = results'[i] /\ g \in L /\ \A h \in i + 1 .. n : results'[h] \notin L
    BY <1>1 DEF Latest, n
  <2>2. i \in 1 .. n - 1
    BY <1>1, <1>7, <2>1
  <2>3. results[m[i]] = g /\ g \in K /\ m[i] \in 1 .. Len(results)
    BY <1>1, <1>2, <1>4, <2>1, <2>2
  <2>4. ASSUME NEW k \in m[i] + 1 .. Len(results), results[k] \in K
        PROVE  results[k].name = file.name
    <3> SUFFICES ASSUME results[k].name # file.name PROVE FALSE
      OBVIOUS
    <3>1. k \in DOMAIN results /\ m[i] < k
      BY <1>1, <2>3
    <3>2. PICK j \in 1 .. n - 1 : m[j] = k
      BY <1>2, <3>1
    <3>3. i < j
      <4> SUFFICES ASSUME j <= i PROVE FALSE
        BY <2>2
      <4>1. j < i \/ j = i
        BY <2>2
      <4>2. m[j] \in Nat /\ m[i] \in Nat
        BY <1>1, <1>2, <2>2
      <4> QED
        BY <1>2, <2>2, <3>1, <3>2, <4>1, <4>2
    <3>4. j \in i + 1 .. n
      BY <1>1, <2>2, <3>3
    <3> QED
      BY <1>4, <2>1, <2>4, <3>2, <3>4
  <2>5. CASE \A k \in m[i] + 1 .. Len(results) : results[k] \notin K
    BY <1>1, <2>3, <2>5 DEF Latest
  <2>6. ASSUME NEW k \in m[i] + 1 .. Len(results), results[k] \in K
        PROVE  \E f \in Latest(results, K) : f = g \/ f.name = file.name
    <3>1. k \in DOMAIN results /\ results[k].name = file.name
      BY <1>1, <2>3, <2>4, <2>6
    <3>2. ASSUME NEW h \in k + 1 .. Len(results), results[h] \in K PROVE FALSE
      <4>1. h \in m[i] + 1 .. Len(results) /\ h \in DOMAIN results /\ h # k
        BY <1>1, <2>3, <2>6, <3>2
      <4> QED
        BY <2>4, <3>1, <3>2, <4>1 DEF InvNames
    <3> QED
      BY <2>6, <3>1, <3>2 DEF Latest
  <2> QED
    BY <2>5, <2>6
<1> QED
  BY <1>5, <1>6, <1>7

\* What turns the gate, when a file is put.
LEMMA PutTurnsWithCause ==
  ASSUME InvNames, NEW new, results' = Put(new), GatePasses(results') # GatePasses(results)
  PROVE  \/ new.kind = "torn"
         \/ Judged(new) /\ (Good(new) <=> GatePasses(results'))
         \/ \E file \in { f \in ToSet(results) : f.name = new.name } :
              \/ file.kind = "torn"
              \/ Judged(file) /\ (Good(file) <=> GatePasses(results))
<1> DEFINE old    == { f \in ToSet(results) : f.name = new.name }
           before == load_runs(results)
           after  == load_runs(results')
           KR == { f \in ToSet(results) : Reranked(f) }
           LR == { f \in ToSet(results') : Reranked(f) }
           KG == { f \in ToSet(results) : IsGeneration(f) }
           LG == { f \in ToSet(results') : IsGeneration(f) }
<1> SUFFICES ASSUME new.kind # "torn",
                    Judged(new) => ~(Good(new) <=> GatePasses(results')),
                    \A f \in old : /\ f.kind # "torn"
                                   /\ Judged(f) => ~(Good(f) <=> GatePasses(results))
             PROVE  FALSE
  OBVIOUS
<1>1. ToSet(results') = { f \in ToSet(results) : f.name # new.name } \cup {new}
  BY PutFacts
<1>2. /\ before.retrieval = Latest(results, KR) /\ before.generation = Latest(results, KG)
      /\ after.retrieval = Latest(results', LR) /\ after.generation = Latest(results', LG)
  BY DEF load_runs
<1>3. /\ \A f \in before.retrieval \cup before.generation : f \in ToSet(results) /\ Judged(f)
      /\ \A f \in after.retrieval \cup after.generation : f \in ToSet(results')
  BY <1>2 DEF Latest, Judged, Reranked, IsGeneration
<1>4. /\ new \in LR => after.retrieval = {new}
      /\ new \notin LR =>
           /\ \A f \in before.retrieval : f.name # new.name => f \in after.retrieval
           /\ \A g \in after.retrieval : \E f \in before.retrieval : f = g \/ f.name = new.name
  <2>1. \A f \in ToSet(results) : f.name # new.name => (f \in KR <=> f \in LR)
    BY <1>1
  <2> HIDE DEF KR, LR, before, after
  <2> QED
    BY <1>2, <2>1, LatestOfPut
<1>5. /\ new \in LG => after.generation = {new}
      /\ new \notin LG =>
           /\ \A f \in before.generation : f.name # new.name => f \in after.generation
           /\ \A g \in after.generation : \E f \in before.generation : f = g \/ f.name = new.name
  <2>1. \A f \in ToSet(results) : f.name # new.name => (f \in KG <=> f \in LG)
    BY <1>1
  <2> HIDE DEF KG, LG, before, after
  <2> QED
    BY <1>2, <2>1, LatestOfPut
<1>6. Judged(new) <=> new \in LR \/ new \in LG
  BY <1>1 DEF Judged, Reranked, IsGeneration
<1>7. /\ GatePasses(results) <=>
           /\ \A f \in ToSet(results) : f.kind # "torn"
           /\ before.retrieval # {}
           /\ \A f \in before.retrieval \cup before.generation : Good(f)
      /\ GatePasses(results') <=>
           /\ \A f \in ToSet(results') : f.kind # "torn"
           /\ after.retrieval # {}
           /\ \A f \in after.retrieval \cup after.generation : Good(f)
  BY DEF GatePasses
<1>8. (\A f \in ToSet(results) : f.kind # "torn") <=> (\A f \in ToSet(results') : f.kind # "torn")
  BY <1>1
<1> HIDE DEF before, after, KR, LR, KG, LG
<1>9. CASE GatePasses(results) /\ ~GatePasses(results')
  <2>1. \A f \in before.retrieval \cup before.generation : Good(f) /\ f.name # new.name
    BY <1>3, <1>7, <1>9
  <2>2. Judged(new) => Good(new)
    BY <1>9
  <2>3. after.retrieval # {} /\ \A f \in after.retrieval : Good(f)
    BY <1>4, <1>6, <1>7, <1>9, <2>1, <2>2
  <2>4. \A f \in after.generation : Good(f)
    BY <1>5, <1>6, <2>1, <2>2
  <2> QED
    BY <1>7, <1>8, <1>9, <2>3, <2>4
<1>10. CASE ~GatePasses(results) /\ GatePasses(results')
  <2>1. new \notin LR /\ new \notin LG
    BY <1>4, <1>5, <1>6, <1>7, <1>10
  <2>2. before.retrieval # {}
    BY <1>4, <1>7, <1>10, <2>1
  <2>3. PICK f \in before.retrieval \cup before.generation : ~Good(f)
    BY <1>7, <1>8, <1>10, <2>2
  <2>4. f.name # new.name
    BY <1>3, <1>10, <2>3
  <2>5. f \in after.retrieval \cup after.generation
    BY <1>4, <1>5, <2>1, <2>3, <2>4
  <2> QED
    BY <1>7, <1>10, <2>3, <2>5
<1> QED
  BY <1>9, <1>10 DEF GatePasses

\* "fail when the latest committed eval runs regress below thresholds": what turns
\* the gate is a result it judges, new or replaced, or a torn one.
THEOREM GateTurns == GateSpec => GateTurnsWithCause
<1> DEFINE Turn == GatePasses(results') # GatePasses(results) =>
                     LET new == Last(results')
                         old == { file \in ToSet(results) : file.name = new.name }
                     IN  \/ new.kind = "torn"
                         \/ Judged(new) /\ (Good(new) <=> GatePasses(results'))
                         \/ \E file \in old : \/ file.kind = "torn"
                                              \/ Judged(file) /\ (Good(file) <=> GatePasses(results))
<1>1. ASSUME IInv, [GateNext]_vars PROVE Turn
  <2>1. CASE results' = results
    BY <2>1
  <2>2. ASSUME NEW file, results' = Put(file) PROVE Turn
    <3>1. InvNames /\ Last(results') = file
      BY <1>1, <2>2, PutFacts DEF IInv
    <3> QED
      BY <2>2, <3>1, PutTurnsWithCause
  <2> QED
    BY <1>1, <2>1, <2>2, StepPuts
<1>2. IInv /\ [GateNext]_vars => [Turn]_vars
  BY <1>1
<1> QED
  BY <1>2, InvAlways, PTL DEF GateSpec, GateTurnsWithCause

=============================================================================
