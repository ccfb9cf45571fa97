------------------------- MODULE EdgarClientProofs --------------------------
(***************************************************************************)
(* Proofs about EdgarClient, for any interval, limit, number of attempts   *)
(* and of redirects, any delay and any answers of EDGAR.                   *)
(***************************************************************************)
EXTENDS EdgarClient, FiniteSetTheorems, SequenceTheorems, TLAPS

\* The most requests one attempt sends.
Burst == 1 + MaxRedirects

\* Requests of the last attempt that was let pass: those it has sent, if it is
\* under way, and never more than Burst.
Requests ==
  IF pc = "connect" THEN redirects
  ELSE IF pc = "sent" THEN redirects + 1
  ELSE Burst

\* Redirects are counted anew in each attempt, there is one left after a backoff,
\* and a client that sleeps in the throttle sleeps long enough.
InvThrottle ==
  /\ pc = "backoff" => attempt < MaxAttempts
  /\ pc \notin {"connect", "sent"} => redirects = 0
  /\ pc = "sleeping" => since + sleep >= MinInterval

\* EDGAR got requests in the order in which they are kept.
InvOrdered == \A i, j \in DOMAIN recent : i < j => recent[i] >= recent[j]

\* A request that is not of the last attempt is as old as that attempt is, and as
\* many intervals older as there are attempts between the two: the last but d is at
\* least j attempts before the last but one, if d exceeds what the last attempt and
\* j others send.
InvSpaced ==
  \A d \in 0 .. Len(recent) - 1, j \in Nat :
    d >= Requests + Burst * j => recent[Len(recent) - d] >= since + j * MinInterval

IInv ==
  /\ TypeOK
  /\ InvThrottle
  /\ InvOrdered
  /\ InvSpaced

-----------------------------------------------------------------------------
(***************************************************************************)
(* Arithmetic.                                                             *)
(***************************************************************************)

LEMMA MaxOfTwo ==
  ASSUME NEW a \in Nat, NEW b \in Nat
  PROVE  Max({a, b}) = IF a > b THEN a ELSE b
BY DEF Max

LEMMA MinOfTwo ==
  ASSUME NEW a \in Nat, NEW b \in Nat
  PROVE  Min({a, b}) = IF a < b THEN a ELSE b
BY DEF Min

LEMMA ConstantFacts ==
  /\ MinInterval \in Nat /\ MinInterval > 0
  /\ Second \in Nat /\ Second > 0
  /\ Burst \in Nat /\ Burst > 0
  /\ Horizon \in Nat /\ Horizon >= MinInterval /\ Horizon >= Second
  /\ Second * MaxWait \in Nat
  /\ Max({MinInterval, Second * MaxWait}) \in Nat
  /\ Max({MinInterval, Second * MaxWait}) >= MinInterval
  /\ Max({MinInterval, Second * MaxWait}) >= Second * MaxWait
<1>1. MinInterval \in Nat /\ Second \in Nat /\ MaxWait \in Nat /\ MaxRedirects \in Nat
  BY EdgarAssumption DEF EdgarAssumption
<1>2. Second * MaxWait \in Nat
  BY <1>1
<1>3. Horizon = IF MinInterval > Second THEN MinInterval ELSE Second
  BY <1>1, MaxOfTwo DEF Horizon
<1>4. Max({MinInterval, Second * MaxWait})
        = IF MinInterval > Second * MaxWait THEN MinInterval ELSE Second * MaxWait
  <2> DEFINE w == Second * MaxWait
  <2> HIDE DEF w
  <2> QED
    BY <1>1, <1>2, MaxOfTwo DEF w
<1>5. MinInterval > 0 /\ Second > 0 /\ Burst \in Nat /\ Burst > 0
  BY <1>1, EdgarAssumption DEF EdgarAssumption, Burst
<1>6. Horizon \in Nat /\ Horizon >= MinInterval /\ Horizon >= Second
  BY <1>1, <1>3
<1> DEFINE w == Second * MaxWait
           m == Max({MinInterval, Second * MaxWait})
<1>7. m \in Nat /\ m >= MinInterval /\ m >= w
  <2>1. m = IF MinInterval > w THEN MinInterval ELSE w
    BY <1>4
  <2>2. w \in Nat
    BY <1>2
  <2> HIDE DEF w, m
  <2> QED
    BY <1>1, <2>1, <2>2
<1> QED
  BY <1>1, <1>2, <1>5, <1>6, <1>7

LEMMA OneMore ==
  ASSUME NEW a \in Nat, NEW j \in Nat \ {0}
  PROVE  a * j = a + a * (j - 1) /\ j * a = a + (j - 1) * a /\ j - 1 \in Nat
OBVIOUS

LEMMA BackoffBounded ==
  ASSUME NEW n
  PROVE  Backoff(n) \in 0 .. Second * MaxWait
<1> DEFINE w == IF 2 ^ (n - 1) \in 0 .. MaxWait THEN 2 ^ (n - 1) ELSE MaxWait
<1>1. Second \in Nat /\ MaxWait \in Nat
  BY EdgarAssumption DEF EdgarAssumption
<1>2. w \in 0 .. MaxWait /\ Backoff(n) = Second * w
  BY <1>1 DEF Backoff
<1> HIDE DEF w
<1>3. Second * w \in Nat /\ Second * w <= Second * MaxWait
  <2>1. PICK d \in Nat : MaxWait = w + d
    <3>1. MaxWait - w \in Nat /\ MaxWait = w + (MaxWait - w)
      BY <1>1, <1>2
    <3> QED
      BY <3>1
  <2>2. w \in Nat
    BY <1>1, <1>2
  <2>3. Second * MaxWait = Second * w + Second * d
    BY <1>1, <2>1, <2>2
  <2>4. Second * w \in Nat /\ Second * d \in Nat
    BY <1>1, <2>1, <2>2
  <2> QED
    BY <2>3, <2>4
<1>4. Second * MaxWait \in Nat
  BY ConstantFacts
<1> QED
  BY <1>2, <1>3, <1>4

-----------------------------------------------------------------------------
(***************************************************************************)
(* IInv is an inductive invariant.                                         *)
(***************************************************************************)

LEMMA RequestsType == TypeOK => Requests \in Nat
  BY ConstantFacts, EdgarAssumption DEF EdgarAssumption, TypeOK, Requests

LEMMA RecentType ==
  ASSUME TypeOK
  PROVE  /\ Len(recent) \in Nat /\ DOMAIN recent = 1 .. Len(recent)
         /\ \A i \in 1 .. Len(recent) : recent[i] \in Nat /\ recent[i] < Second
BY ConstantFacts DEF TypeOK

LEMMA InitEstablishes == Init => IInv
<1> SUFFICES ASSUME Init PROVE IInv
  OBVIOUS
<1>1. TypeOK
  <2>1. attempt \in 1 .. MaxAttempts /\ redirects \in 0 .. MaxRedirects
    BY EdgarAssumption DEF EdgarAssumption, Init
  <2>2. since \in 0 .. Horizon /\ sleep \in 0 .. Max({MinInterval, Second * MaxWait})
    <3> DEFINE m == Max({MinInterval, Second * MaxWait})
    <3>1. m \in Nat
      BY ConstantFacts
    <3> HIDE DEF m
    <3>2. sleep \in 0 .. m
      BY <3>1 DEF Init
    <3> QED
      BY <3>2, ConstantFacts DEF Init, m
  <2>3. recent \in Seq(0 .. Second - 1)
    BY DEF Init
  <2> QED
    BY <2>1, <2>2, <2>3 DEF Init, TypeOK
<1>2. InvThrottle /\ InvOrdered /\ InvSpaced
  BY DEF Init, InvThrottle, InvOrdered, InvSpaced
<1> QED
  BY <1>1, <1>2 DEF IInv

\* A step that leaves the requests and the clock alone need only not take back
\* requests from the last attempt.
LEMMA SpacedKept ==
  ASSUME IInv, UNCHANGED <<since, recent>>, Requests' \in Nat, Requests' >= Requests
  PROVE  InvOrdered' /\ InvSpaced'
<1>1. InvOrdered'
  BY DEF IInv, InvOrdered
<1>2. Requests \in Nat /\ Burst \in Nat
  BY RequestsType, ConstantFacts DEF IInv
<1> DEFINE more == Requests'
<1>3. more \in Nat /\ more >= Requests
  OBVIOUS
<1> HIDE DEF more
<1>4. ASSUME NEW d \in 0 .. Len(recent) - 1, NEW j \in Nat, d >= more + Burst * j
      PROVE  recent[Len(recent) - d] >= since + j * MinInterval
  <2> DEFINE b == Burst * j
  <2>1. b \in Nat
    BY <1>2
  <2>2. d \in Nat
    BY RecentType DEF IInv
  <2>3. d >= more + b
    BY <1>4
  <2> HIDE DEF b
  <2>4. d >= Requests + b
    BY <1>2, <1>3, <2>1, <2>2, <2>3
  <2> QED
    BY <2>4 DEF IInv, InvSpaced, b
<1>5. InvSpaced'
  BY <1>4 DEF InvSpaced, Burst, more
<1> QED
  BY <1>1, <1>5

LEMMA TickPreserves ==
  ASSUME IInv, Tick
  PROVE  IInv'
<1> DEFINE n    == Len(recent)
           Kept == { i \in DOMAIN recent : recent[i] + 1 < Second }
           k    == Cardinality(Kept)
<1>1. /\ UNCHANGED <<pc, attempt, redirects>>
      /\ since' = Min({since + 1, Horizon})
      /\ sleep' = IF sleep > 0 THEN sleep - 1 ELSE 0
      /\ recent' = [i \in 1 .. k |-> recent[n - k + i] + 1]
  BY DEF Tick
<1>2. /\ n \in Nat /\ DOMAIN recent = 1 .. n
      /\ \A i \in 1 .. n : recent[i] \in Nat /\ recent[i] < Second
      /\ recent \in Seq(0 .. Second - 1)
  BY RecentType DEF IInv, TypeOK
<1>3. since \in Nat /\ since <= Horizon /\ since' = IF since + 1 < Horizon THEN since + 1 ELSE Horizon
  <2>1. since \in Nat /\ since <= Horizon /\ since + 1 \in Nat
    BY ConstantFacts DEF IInv, TypeOK
  <2> QED
    BY <1>1, <2>1, ConstantFacts, MinOfTwo
<1>4. \A i, j \in 1 .. n : i < j => recent[i] >= recent[j]
  BY <1>2 DEF IInv, InvOrdered
<1> HIDE DEF n
<1>5. IsFiniteSet(Kept) /\ k \in Nat /\ k <= n /\ Kept \subseteq 1 .. n
  <2>1. IsFiniteSet(1 .. n) /\ Cardinality(1 .. n) = n
    <3>1. 1 \in Int /\ n \in Int
      BY <1>2
    <3>2. IsFiniteSet(1 .. n) /\ Cardinality(1 .. n) = IF 1 > n THEN 0 ELSE n - 1 + 1
      BY <3>1, FS_Interval
    <3>3. Cardinality(1 .. n) = n
      BY <1>2, <3>2
    <3> QED
      BY <3>2, <3>3
  <2>2. Kept \in SUBSET (1 .. n)
    BY <1>2
  <2> HIDE DEF Kept
  <2>3. IsFiniteSet(Kept) /\ k <= n
    BY <2>1, <2>2, FS_Subset
  <2> QED
    BY <2>2, <2>3, FS_CardinalityType
\* The requests that are forgotten come first.
<1>6. \A i \in n - k + 1 .. n : i \in Kept
  <2>1. \A i \in Kept : i >= n - k + 1
    <3> SUFFICES ASSUME NEW i \in Kept PROVE i >= n - k + 1
      OBVIOUS
    <3>1. i \in 1 .. n
      BY <1>5
    <3>2. i .. n \in SUBSET Kept
      <4> SUFFICES ASSUME NEW h \in i .. n PROVE h \in Kept
        OBVIOUS
      <4>1. h \in 1 .. n /\ (h = i \/ i < h)
        BY <1>2, <3>1
      <4>2. recent[i] >= recent[h]
        BY <1>2, <1>4, <3>1, <4>1
      <4>3. recent[i] + 1 < Second /\ recent[i] \in Nat /\ recent[h] \in Nat
        BY <1>2, <3>1, <4>1
      <4> QED
        BY <1>2, <4>1, <4>2, <4>3, ConstantFacts
    <3>3. Cardinality(i .. n) = n - i + 1
      <4>1. i \in Int /\ n \in Int
        BY <1>2, <3>1
      <4>2. Cardinality(i .. n) = IF i > n THEN 0 ELSE n - i + 1
        BY <4>1, FS_Interval
      <4> QED
        BY <1>2, <3>1, <4>2
    <3> HIDE DEF Kept
    <3>4. Cardinality(i .. n) <= k
      BY <1>5, <3>2, FS_Subset
    <3> HIDE DEF k
    <3> QED
      BY <1>2, <1>5, <3>1, <3>3, <3>4
  <2>2. Kept \in SUBSET (n - k + 1 .. n)
    <3> HIDE DEF Kept, k
    <3> QED
      BY <1>2, <1>5, <2>1
  <2>3. IsFiniteSet(n - k + 1 .. n) /\ Cardinality(n - k + 1 .. n) = k
    <3> HIDE DEF Kept, k
    <3>1. n - k + 1 \in Int /\ n \in Int
      BY <1>2, <1>5
    <3>2. /\ IsFiniteSet(n - k + 1 .. n)
          /\ Cardinality(n - k + 1 .. n) = IF n - k + 1 > n THEN 0 ELSE n - (n - k + 1) + 1
      BY <3>1, FS_Interval
    <3>3. (IF n - k + 1 > n THEN 0 ELSE n - (n - k + 1) + 1) = k
      BY <1>2, <1>5
    <3> QED
      BY <3>2, <3>3
  <2>4. Kept = n - k + 1 .. n
    <3> HIDE DEF Kept
    <3> QED
      BY <2>2, <2>3, FS_Subset
  <2> QED
    BY <2>4
<1>7. /\ Len(recent') = k /\ DOMAIN recent' = 1 .. k
      /\ \A i \in 1 .. k : recent'[i] = recent[n - k + i] + 1
  <2> HIDE DEF k
  <2> QED
    BY <1>1, <1>5
<1>8. \A i \in 1 .. k : n - k + i \in 1 .. n /\ recent[n - k + i] \in Nat /\ recent[n - k + i] + 1 < Second
  <2> SUFFICES ASSUME NEW i \in 1 .. k
               PROVE  n - k + i \in 1 .. n /\ recent[n - k + i] \in Nat /\ recent[n - k + i] + 1 < Second
    OBVIOUS
  <2>1. n - k + i \in n - k + 1 .. n /\ n - k + i \in 1 .. n
    <3> HIDE DEF k
    <3> QED
      BY <1>2, <1>5
  <2>2. n - k + i \in Kept
    BY <1>6, <2>1
  <2>3. recent[n - k + i] + 1 < Second
    BY <2>2
  <2> QED
    BY <1>2, <2>1, <2>3
<1> HIDE DEF k, Kept
<1>9. recent' \in Seq(0 .. Second - 1)
  <2>1. \A i \in 1 .. k : recent[n - k + i] + 1 \in 0 .. Second - 1
    BY <1>8, ConstantFacts
  <2> QED
    BY <1>1, <1>5, <2>1
<1>10. TypeOK'
  <2>1. since' \in 0 .. Horizon
    BY <1>3, ConstantFacts
  <2>2. sleep' \in 0 .. Max({MinInterval, Second * MaxWait})
    <3> DEFINE m == Max({MinInterval, Second * MaxWait})
    <3>1. m \in Nat /\ sleep \in 0 .. m
      BY ConstantFacts DEF IInv, TypeOK
    <3> HIDE DEF m
    <3>2. sleep' \in 0 .. m
      BY <1>1, <3>1
    <3> QED
      BY <3>2 DEF m
  <2> QED
    BY <1>1, <1>9, <2>1, <2>2 DEF IInv, TypeOK, Horizon
<1>11. InvThrottle'
  <2>1. sleep \in Nat
    BY ConstantFacts DEF IInv, TypeOK
  <2>2. since + sleep >= MinInterval => since' + sleep' >= MinInterval
    BY <1>1, <1>3, <2>1, ConstantFacts
  <2> QED
    BY <1>1, <2>2 DEF IInv, InvThrottle
<1>12. InvOrdered'
  <2> SUFFICES ASSUME NEW i \in 1 .. k, NEW j \in 1 .. k, i < j PROVE recent'[i] >= recent'[j]
    BY <1>7 DEF InvOrdered
  <2>1. n - k + i < n - k + j
    BY <1>2, <1>5
  <2>2. recent[n - k + i] >= recent[n - k + j]
    BY <1>4, <1>8, <2>1
  <2> QED
    BY <1>7, <1>8, <2>2
<1>13. InvSpaced'
  <2> SUFFICES ASSUME NEW d \in 0 .. k - 1, NEW j \in Nat, d >= Requests + Burst * j
               PROVE  recent'[k - d] >= since' + j * MinInterval
    BY <1>1, <1>7 DEF InvSpaced, Requests, Burst
  <2>1. d \in 0 .. n - 1 /\ k - d \in 1 .. k /\ n - k + (k - d) = n - d
    BY <1>2, <1>5
  <2>2. recent[n - d] >= since + j * MinInterval
    BY <2>1 DEF IInv, InvSpaced, n
  <2>3. recent'[k - d] = recent[n - d] + 1 /\ recent[n - d] \in Nat
    BY <1>7, <1>8, <2>1
  <2> DEFINE a == j * MinInterval
  <2>4. a \in Nat
    BY ConstantFacts
  <2> HIDE DEF a
  <2>5. recent[n - d] >= since + a
    BY <2>2 DEF a
  <2>6. recent'[k - d] >= since' + a
    BY <1>3, <2>3, <2>4, <2>5, ConstantFacts
  <2> QED
    BY <2>6 DEF a
<1> QED
  BY <1>10, <1>11, <1>12, <1>13 DEF IInv

\* Steps that neither wake the client nor send a request.
LEMMA OthersPreserve ==
  ASSUME IInv, Get \/ Throttle \/ Redirected \/ Return \/ Refused \/ Retry
  PROVE  IInv'
<1>1. UNCHANGED <<since, recent>>
  BY DEF Get, Throttle, Redirected, Return, Refused, Retry
<1>2. /\ MaxAttempts \in Nat \ {0} /\ MaxRedirects \in Nat
      /\ attempt \in 1 .. MaxAttempts /\ redirects \in 0 .. MaxRedirects
      /\ since \in Nat /\ sleep \in 0 .. Max({MinInterval, Second * MaxWait})
  BY EdgarAssumption, ConstantFacts DEF EdgarAssumption, IInv, TypeOK
<1>3. pc' \in {"idle", "throttle", "sleeping", "connect", "sent", "backoff"}
  BY DEF Get, Throttle, Redirected, Return, Refused, Retry
<1>4. redirects' \in 0 .. MaxRedirects
  BY <1>2 DEF Get, Throttle, Redirected, Return, Refused, Retry
<1>5. attempt' \in 1 .. MaxAttempts /\ (pc' = "backoff" => attempt' < MaxAttempts)
  <2>1. CASE Get \/ Return
    BY <1>2, <2>1 DEF Get, Return
  <2>2. CASE Throttle \/ Redirected
    BY <1>2, <2>2 DEF Throttle, Redirected
  <2>3. CASE Refused
    BY <1>2, <2>3 DEF Refused, Exhausted
  <2>4. CASE Retry
    <3>1. attempt < MaxAttempts /\ attempt' = attempt + 1 /\ pc' = "throttle"
      BY <2>4 DEF Retry, IInv, InvThrottle
    <3> QED
      BY <1>2, <3>1
  <2> QED
    BY <2>1, <2>2, <2>3, <2>4
<1>6. /\ sleep' \in 0 .. Max({MinInterval, Second * MaxWait})
      /\ pc' = "sleeping" => since' + sleep' >= MinInterval
  <2> DEFINE m == Max({MinInterval, Second * MaxWait})
  <2>1. m \in Nat /\ m >= MinInterval /\ m >= Second * MaxWait /\ Second * MaxWait \in Nat
    BY ConstantFacts
  <2>2. CASE Get \/ Redirected \/ Return \/ Retry
    BY <1>2, <2>2 DEF Get, Redirected, Return, Retry
  <2>3. CASE Throttle
    <3>1. sleep' = (IF since < MinInterval THEN MinInterval - since ELSE 0) /\ since' = since
      BY <2>3 DEF Throttle
    <3> HIDE DEF m
    <3>2. sleep' \in 0 .. m /\ since' + sleep' >= MinInterval
      BY <1>2, <2>1, <3>1, ConstantFacts
    <3> QED
      BY <3>2 DEF m
  <2>4. CASE Refused
    <3>1. sleep' = sleep \/ \E n : sleep' = Backoff(n)
      BY <2>4 DEF Refused
    <3>2. sleep' \in 0 .. m
      <4>1. \A n : Backoff(n) \in 0 .. Second * MaxWait
        BY BackoffBounded
      <4> DEFINE w == Second * MaxWait
      <4>2. sleep' \in 0 .. m \/ sleep' \in 0 .. w
        BY <1>2, <3>1, <4>1
      <4> HIDE DEF m, w
      <4> QED
        BY <2>1, <4>2 DEF w
    <3>3. pc' # "sleeping"
      BY <2>4 DEF Refused
    <3> QED
      BY <3>2, <3>3
  <2> QED
    BY <2>2, <2>3, <2>4
<1>7. TypeOK'
  <2>1. recent' \in Seq(0 .. Second - 1) /\ since' \in 0 .. Horizon
    BY <1>1 DEF IInv, TypeOK
  <2> QED
    BY <1>3, <1>4, <1>5, <1>6, <2>1 DEF TypeOK
<1>8. InvThrottle'
  <2>1. pc' \notin {"connect", "sent"} => redirects' = 0
    BY DEF Get, Throttle, Redirected, Return, Refused, Retry, IInv, InvThrottle
  <2> QED
    BY <1>5, <1>6, <2>1 DEF InvThrottle
<1>9. Requests' \in Nat /\ Requests' >= Requests
  <2>1. Burst = 1 + MaxRedirects /\ Burst' = Burst
    BY DEF Burst
  <2>2. CASE Get \/ Throttle \/ Refused \/ Retry
    BY <1>2, <2>1, <2>2 DEF Get, Throttle, Refused, Retry, Requests
  <2>3. CASE Redirected \/ Return
    BY <1>2, <2>1, <2>3 DEF Redirected, Return, Requests
  <2> QED
    BY <2>2, <2>3
<1> QED
  BY <1>1, <1>7, <1>8, <1>9, SpacedKept DEF IInv

\* The client wakes: its attempt becomes the last one, and the one before is an
\* interval old.
LEMMA AwakePreserves ==
  ASSUME IInv, Awake
  PROVE  IInv'
<1>1. /\ pc = "sleeping" /\ sleep = 0 /\ since' = 0 /\ pc' = "connect"
      /\ UNCHANGED <<attempt, redirects, sleep, recent>>
  BY DEF Awake
<1>2. since \in Nat /\ since >= MinInterval /\ redirects = 0
  <2>1. since \in Nat
    BY ConstantFacts DEF IInv, TypeOK
  <2> QED
    BY <1>1, <2>1 DEF IInv, InvThrottle
<1>3. TypeOK'
  <2>1. since' \in 0 .. Horizon
    BY <1>1, ConstantFacts
  <2> QED
    BY <1>1, <2>1 DEF IInv, TypeOK
<1>4. InvThrottle' /\ InvOrdered'
  BY <1>1 DEF IInv, InvThrottle, InvOrdered
<1>5. Requests = Burst /\ Requests' = 0
  BY <1>1, <1>2 DEF Requests
<1>6. ASSUME NEW d \in 0 .. Len(recent) - 1, NEW j \in Nat, d >= 0 + Burst * j
      PROVE  recent[Len(recent) - d] >= 0 + j * MinInterval
  <2>1. recent[Len(recent) - d] \in Nat
    <3>1. Len(recent) - d \in 1 .. Len(recent)
      BY RecentType DEF IInv
    <3> QED
      BY <3>1, RecentType DEF IInv
  <2>2. CASE j = 0
    BY <2>1, <2>2, ConstantFacts
  <2>3. CASE j # 0
    <3>1. /\ Burst * j = Burst + Burst * (j - 1)
          /\ j * MinInterval = MinInterval + (j - 1) * MinInterval
          /\ j - 1 \in Nat
      BY <2>3, ConstantFacts, OneMore
    <3>2. d >= Requests + Burst * (j - 1)
      <4> DEFINE b == Burst * (j - 1)
      <4>1. b \in Nat /\ d >= 0 + (Burst + b)
        BY <1>6, <3>1, ConstantFacts
      <4> HIDE DEF b
      <4>2. d >= Burst + b
        BY <4>1, ConstantFacts
      <4> QED
        BY <1>5, <4>2 DEF b
    <3>3. recent[Len(recent) - d] >= since + (j - 1) * MinInterval
      BY <3>1, <3>2 DEF IInv, InvSpaced
    <3> DEFINE a == (j - 1) * MinInterval
    <3>4. a \in Nat
      BY <3>1, ConstantFacts
    <3> HIDE DEF a
    <3>5. recent[Len(recent) - d] >= since + a /\ j * MinInterval = MinInterval + a
      BY <3>1, <3>3 DEF a
    <3> QED
      BY <1>2, <2>1, <3>4, <3>5, ConstantFacts
  <2> QED
    BY <2>2, <2>3
<1>7. InvSpaced'
  BY <1>1, <1>5, <1>6 DEF InvSpaced, Burst
<1> QED
  BY <1>3, <1>4, <1>7 DEF IInv

\* A request is sent: it is the newest, and of the last attempt.
LEMMA SendPreserves ==
  ASSUME IInv, Send
  PROVE  IInv'
<1> DEFINE n == Len(recent)
<1>1. /\ pc = "connect" /\ pc' = "sent" /\ recent' = Append(recent, 0)
      /\ UNCHANGED <<attempt, redirects, since, sleep>>
  BY DEF Send
<1>2. /\ n \in Nat /\ DOMAIN recent = 1 .. n
      /\ \A i \in 1 .. n : recent[i] \in Nat
      /\ redirects \in Nat
  BY RecentType, EdgarAssumption DEF EdgarAssumption, IInv, TypeOK
<1>3. /\ recent' \in Seq(0 .. Second - 1)
      /\ Len(recent') = n + 1 /\ DOMAIN recent' = 1 .. n + 1
      /\ \A i \in 1 .. n : recent'[i] = recent[i]
      /\ recent'[n + 1] = 0
  <2>1. 0 \in 0 .. Second - 1
    BY ConstantFacts
  <2> QED
    BY <1>1, <2>1, AppendProperties DEF IInv, TypeOK
<1> HIDE DEF n
<1>4. TypeOK'
  BY <1>1, <1>3 DEF IInv, TypeOK
<1>5. InvThrottle'
  BY <1>1 DEF IInv, InvThrottle
<1>6. InvOrdered'
  <2> SUFFICES ASSUME NEW i \in 1 .. n + 1, NEW j \in 1 .. n + 1, i < j
               PROVE  recent'[i] >= recent'[j]
    BY <1>3 DEF InvOrdered
  <2>1. i \in 1 .. n
    BY <1>2
  <2>2. CASE j = n + 1
    BY <1>2, <1>3, <2>1, <2>2
  <2>3. CASE j # n + 1
    <3>1. j \in 1 .. n
      BY <1>2, <2>3
    <3> QED
      BY <1>2, <1>3, <2>1, <3>1 DEF IInv, InvOrdered
  <2> QED
    BY <2>2, <2>3
<1>7. Requests = redirects /\ Requests' = redirects + 1
  BY <1>1 DEF Requests
<1>8. ASSUME NEW d \in 0 .. n, NEW j \in Nat, d >= redirects + 1 + Burst * j
      PROVE  recent'[n + 1 - d] >= since + j * MinInterval
  <2> DEFINE b == Burst * j
  <2>1. b \in Nat /\ d >= redirects + 1 + b
    BY <1>8, ConstantFacts
  <2> HIDE DEF b
  <2>2. d - 1 \in 0 .. n - 1 /\ d - 1 >= redirects + b /\ n - (d - 1) = n + 1 - d /\ n + 1 - d \in 1 .. n
    BY <1>2, <2>1
  <2>3. recent[n - (d - 1)] >= since + j * MinInterval
    BY <1>7, <2>2 DEF IInv, InvSpaced, n, b
  <2> QED
    BY <1>3, <2>2, <2>3
<1>9. InvSpaced'
  <2>1. Len(recent') - 1 = n
    BY <1>2, <1>3
  <2> QED
    BY <1>1, <1>3, <1>7, <1>8, <2>1 DEF InvSpaced, Burst
<1> QED
  BY <1>4, <1>5, <1>6, <1>9 DEF IInv

LEMMA InvInductive == IInv /\ [Next]_vars => IInv'
<1>1. IInv /\ UNCHANGED vars => IInv'
  BY DEF vars, IInv, TypeOK, Horizon, InvThrottle, InvOrdered, InvSpaced, Requests, Burst
<1> QED
  BY <1>1, TickPreserves, OthersPreserve, AwakePreserves, SendPreserves DEF Next

LEMMA InvAlways == Spec => []IInv
  BY InitEstablishes, InvInductive, PTL DEF Spec

-----------------------------------------------------------------------------
(***************************************************************************)
(* The theorems.                                                           *)
(***************************************************************************)

\* The variables of the client keep their types; no call makes more than
\* MaxAttempts attempts.
THEOREM TypeCorrect == Spec => []TypeOK
<1>1. IInv => TypeOK
  BY DEF IInv
<1> QED
  BY <1>1, InvAlways, PTL

\* What the throttle is worth to EDGAR: within a Second, one attempt above the
\* Limit, and never more.
THEOREM AttemptsBounded == Spec => []AttemptsAlmostWithinLimit
<1>1. ASSUME IInv PROVE AttemptsAlmostWithinLimit
  <2> DEFINE n == Len(recent)
             b == Burst * Limit
             a == Limit * MinInterval
  <2>1. n \in Nat /\ \A i \in 1 .. n : recent[i] \in Nat /\ recent[i] < Second
    BY <1>1, RecentType DEF IInv
  <2>2. /\ Limit \in Nat /\ b \in Nat /\ a \in Nat /\ a >= Second
        /\ (Limit + 1) * (1 + MaxRedirects) = b + Burst
    BY ConstantFacts, EdgarAssumption DEF EdgarAssumption, Burst
  <2>3. Requests \in Nat /\ Requests <= Burst /\ since \in Nat
    BY <1>1, ConstantFacts, EdgarAssumption DEF EdgarAssumption, IInv, TypeOK, Requests, Burst
  <2> SUFFICES ASSUME n > b + Burst PROVE FALSE
    <3> HIDE DEF n, b
    <3> QED
      BY <2>1, <2>2, ConstantFacts DEF AttemptsAlmostWithinLimit, n
  <2> HIDE DEF n, b, a
  <2>4. n - 1 \in 0 .. n - 1 /\ n - 1 >= Requests + b /\ n - (n - 1) = 1 /\ 1 \in 1 .. n
    BY <2>1, <2>2, <2>3, ConstantFacts
  <2>5. recent[n - (n - 1)] >= since + a
    BY <1>1, <2>2, <2>4 DEF IInv, InvSpaced, n, b, a
  <2> QED
    BY <2>1, <2>2, <2>3, <2>4, <2>5, ConstantFacts
<1> QED
  BY <1>1, InvAlways, PTL

=============================================================================
