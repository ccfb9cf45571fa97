-------------------------- MODULE RateLimitProofs ---------------------------
(***************************************************************************)
(* Proofs about RateLimit: that a key lets no more than `limit` requests   *)
(* through in one life, that nobody is turned away without that many, that *)
(* a key without a deadline has a cause, and that a key outlives its       *)
(* window, for any number of requests, sources, outages and lengths of the *)
(* window.                                                                 *)
(***************************************************************************)
EXTENDS RateLimit, FiniteSetTheorems, TLAPS

\* A request that Redis has counted has sent an INCR, and one that passes or is
\* turned away by its count was counted within the limit or beyond.
InvProgress ==
  \A r \in Request :
    /\ pc[r] \in {"new", "incr"} => ~Counted(r) /\ stray[r] = "none"
    /\ pc[r] = "admitted" => Counted(r) /\ ~OverLimit(r)
    /\ pc[r] = "limited" => Counted(r) /\ OverLimit(r)
    /\ pc[r] \in {"counted", "expire"} => Counted(r)
    /\ stray[r] # "none" => pc[r] = "open"
    /\ stray[r] = "incr" => ~Counted(r)

\* A count was the value of the key at the time: the present one is no less, if
\* the key still lives.
InvStamp ==
  \A r \in Request : Counted(r) =>
    /\ stamp[r].life <= life[KeyOf(r)]
    /\ stamp[r].life = life[KeyOf(r)] => stamp[r].count <= counter[KeyOf(r)]

\* No two requests get the same count from one life of a key.
InvDistinct ==
  \A q, r \in Request :
    /\ Counted(q)
    /\ Counted(r)
    /\ KeyOf(q) = KeyOf(r)
    /\ stamp[q] = stamp[r]
    => q = r

IInv == TypeOK /\ InvProgress /\ InvStamp /\ InvDistinct

LEMMA KeyType ==
  ASSUME TypeOK, NEW r \in Request
  PROVE  KeyOf(r) \in Key
BY RateLimitAssumption DEF RateLimitAssumption, TypeOK, Key, KeyOf

LEMMA InitEstablishes == Init => IInv
BY RateLimitAssumption
   DEF RateLimitAssumption, Init, IInv, TypeOK, InvProgress, InvStamp, InvDistinct,
       Counted, NoStamp, Window, Answer, KeyOf

\* Keys are dropped when time passes and when Redis comes back without memory.
LEMMA DropPreserves ==
  ASSUME IInv, NEW K \in SUBSET Key, Drop(K),
         now' \in 0 .. MaxClock, up' \in BOOLEAN,
         UNCHANGED <<outages, pc, window, stamp, stray>>
  PROVE  IInv'
<1>1. TypeOK'
  BY DEF IInv, TypeOK, Drop
<1>2. InvProgress' /\ InvDistinct'
  BY DEF IInv, InvProgress, InvDistinct, Counted, OverLimit, KeyOf
<1>3. InvStamp'
  <2>1. ASSUME NEW r \in Request, Counted(r)
        PROVE  /\ stamp[r].life <= life'[KeyOf(r)]
               /\ stamp[r].life = life'[KeyOf(r)] => stamp[r].count <= counter'[KeyOf(r)]
    <3>1. KeyOf(r) \in Key /\ life[KeyOf(r)] \in Nat /\ stamp[r].life \in Nat
      BY KeyType DEF IInv, TypeOK
    <3>2. /\ stamp[r].life <= life[KeyOf(r)]
          /\ stamp[r].life = life[KeyOf(r)] => stamp[r].count <= counter[KeyOf(r)]
      BY <2>1 DEF IInv, InvStamp
    <3>3. CASE KeyOf(r) \in K
      BY <3>1, <3>2, <3>3 DEF Drop
    <3>4. CASE KeyOf(r) \notin K
      BY <3>1, <3>2, <3>4 DEF Drop
    <3> QED
      BY <3>3, <3>4
  <2> QED
    BY <2>1 DEF InvStamp, Counted, KeyOf
<1> QED
  BY <1>1, <1>2, <1>3 DEF IInv

\* INCR gives the request a count nobody else has.
LEMMA IncrPreserves ==
  ASSUME IInv, NEW r \in Request, Incr(r),
         \/ pc[r] = "incr" /\ pc' = [pc EXCEPT ![r] = "counted"] /\ stray' = stray
         \/ stray[r] = "incr" /\ stray' = [stray EXCEPT ![r] = "none"] /\ pc' = pc,
         UNCHANGED <<now, window>>
  PROVE  IInv'
<1> DEFINE k == KeyOf(r)
<1>1. k \in Key /\ counter[k] \in Nat /\ life[k] \in Nat /\ TypeOK
  BY KeyType DEF IInv, TypeOK
<1>2. /\ counter' = [counter EXCEPT ![k] = counter[k] + 1]
      /\ stamp' = [stamp EXCEPT ![r] = [count |-> counter[k] + 1, life |-> life[k]]]
      /\ UNCHANGED <<deadline, life, up, outages>>
  BY DEF Incr
<1>3. TypeOK'
  <2>1. counter' \in [Key -> Nat] /\ stamp' \in [Request -> [count : Nat, life : Nat]]
    BY <1>1, <1>2 DEF TypeOK
  <2>2. pc' \in [Request -> {"new", "incr", "counted", "expire"} \cup Answer]
    BY <1>1 DEF TypeOK
  <2>3. stray' \in [Request -> {"none", "incr", "expire"}]
    BY <1>1 DEF TypeOK
  <2> QED
    BY <1>1, <1>2, <2>1, <2>2, <2>3 DEF TypeOK
<1>4. ~Counted(r)
  BY DEF IInv, InvProgress
<1>5. /\ stamp'[r] = [count |-> counter[k] + 1, life |-> life[k]]
      /\ \A q \in Request \ {r} : stamp'[q] = stamp[q]
      /\ \A q \in Request : KeyOf(q)' = KeyOf(q)
  BY <1>1, <1>2 DEF TypeOK, KeyOf
<1>6. InvProgress'
  BY <1>1, <1>5 DEF IInv, InvProgress, TypeOK, Counted, OverLimit
<1>7. InvStamp'
  <2>1. ASSUME NEW q \in Request, Counted(q)'
        PROVE  /\ stamp'[q].life <= life'[KeyOf(q)]
               /\ stamp'[q].life = life'[KeyOf(q)] => stamp'[q].count <= counter'[KeyOf(q)]
    <3>1. CASE q = r
      BY <1>1, <1>2, <1>5, <3>1 DEF TypeOK
    <3>2. CASE q # r
      <4>1. KeyOf(q) \in Key /\ stamp[q].count \in Nat
        BY KeyType, <1>1 DEF TypeOK
      <4>2. /\ stamp[q].life <= life[KeyOf(q)]
            /\ stamp[q].life = life[KeyOf(q)] => stamp[q].count <= counter[KeyOf(q)]
        BY <1>5, <2>1, <3>2 DEF IInv, InvStamp, Counted
      <4> QED
        BY <1>1, <1>2, <1>5, <3>2, <4>1, <4>2 DEF TypeOK
    <3> QED
      BY <3>1, <3>2
  <2> QED
    BY <1>5, <2>1 DEF InvStamp
<1>8. InvDistinct'
  <2>1. ASSUME NEW q \in Request \ {r}, Counted(q), KeyOf(q) = k
        PROVE  stamp[q] # [count |-> counter[k] + 1, life |-> life[k]]
    BY <1>1, <2>1 DEF IInv, InvStamp, TypeOK
  <2> QED
    BY <1>5, <2>1 DEF IInv, InvDistinct, Counted
<1> QED
  BY <1>3, <1>6, <1>7, <1>8 DEF IInv

LEMMA InvInductive == IInv /\ [Next]_vars => IInv'
<1> SUFFICES ASSUME IInv, [Next]_vars PROVE IInv'
  OBVIOUS
<1>1. CASE UNCHANGED vars
  BY <1>1 DEF vars, redis, keys, IInv, TypeOK, InvProgress, InvStamp, InvDistinct,
              Counted, OverLimit, KeyOf
<1>2. CASE Tick
  BY <1>2, DropPreserves, RateLimitAssumption DEF Tick, IInv, TypeOK, RateLimitAssumption
<1>3. CASE GoDown
  <2>1. TypeOK'
    <3>1. outages' \in 0 .. MaxOutages
      BY <1>3, RateLimitAssumption DEF GoDown, IInv, TypeOK, RateLimitAssumption
    <3>2. up' \in BOOLEAN
      BY <1>3 DEF GoDown
    <3> QED
      BY <1>3, <3>1, <3>2 DEF GoDown, keys, IInv, TypeOK
  <2>2. InvProgress' /\ InvStamp' /\ InvDistinct'
    BY <1>3 DEF GoDown, keys, IInv, InvProgress, InvStamp, InvDistinct, Counted, OverLimit, KeyOf
  <2> QED
    BY <2>1, <2>2 DEF IInv
<1>4. CASE ComeBack
  <2>1. CASE UNCHANGED keys
    BY <1>4, <2>1 DEF ComeBack, keys, IInv, TypeOK, InvProgress, InvStamp, InvDistinct,
                      Counted, OverLimit, KeyOf
  <2>2. CASE Drop({ k \in Key : Exists(k) })
    BY <1>4, <2>2, DropPreserves DEF ComeBack, IInv, TypeOK
  <2> QED
    BY <1>4, <2>1, <2>2 DEF ComeBack
<1>5. ASSUME NEW r \in Request, Arrive(r) PROVE IInv'
  <2>1. now \div WindowLength \in Window
    BY RateLimitAssumption DEF RateLimitAssumption, IInv, TypeOK, Window
  <2>2. TypeOK' /\ InvProgress'
    BY <1>5, <2>1 DEF Arrive, Goto, redis, keys, IInv, TypeOK, InvProgress, Counted, OverLimit
  <2>3. ~Counted(r) /\ \A q \in Request \ {r} : KeyOf(q)' = KeyOf(q)
    BY <1>5 DEF Arrive, IInv, InvProgress, KeyOf, TypeOK
  <2>4. InvStamp' /\ InvDistinct'
    BY <1>5, <2>3 DEF Arrive, redis, keys, IInv, InvStamp, InvDistinct, Counted
  <2> QED
    BY <2>2, <2>4 DEF IInv
<1>6. ASSUME NEW r \in Request, IncrExecuted(r) PROVE IInv'
  BY <1>6, IncrPreserves DEF IncrExecuted, Goto
<1>7. ASSUME NEW r \in Request, Replied(r) \/ FailOpen(r) PROVE IInv'
  <2>1. TypeOK'
    BY <1>7 DEF Replied, FailOpen, Goto, Decide, Answer, redis, keys, IInv, TypeOK
  <2>2. InvProgress'
    BY <1>7 DEF Replied, FailOpen, Goto, Decide, IInv, TypeOK, InvProgress, Counted, OverLimit
  <2>3. InvStamp' /\ InvDistinct'
    BY <1>7 DEF Replied, FailOpen, redis, keys, IInv, InvStamp, InvDistinct, Counted, KeyOf
  <2> QED
    BY <2>1, <2>2, <2>3 DEF IInv
<1>8. ASSUME NEW r \in Request, Expire(r),
             UNCHANGED <<now, window, stamp>>,
             \/ pc[r] = "expire" /\ Decide(r) /\ UNCHANGED stray
             \/ stray[r] = "expire" /\ stray' = [stray EXCEPT ![r] = "none"] /\ UNCHANGED pc
      PROVE  IInv'
  <2>1. TypeOK'
    <3>1. deadline' \in [Key -> Nat \cup {Never}]
      BY <1>8, KeyType, RateLimitAssumption DEF RateLimitAssumption, Expire, IInv, TypeOK
    <3> QED
      BY <1>8, <3>1 DEF Expire, Goto, Decide, Answer, IInv, TypeOK
  <2>2. InvProgress'
    BY <1>8 DEF Goto, Decide, IInv, TypeOK, InvProgress, Counted, OverLimit
  <2>3. InvStamp' /\ InvDistinct'
    BY <1>8 DEF Expire, IInv, InvStamp, InvDistinct, Counted, KeyOf
  <2> QED
    BY <2>1, <2>2, <2>3 DEF IInv
<1>9. ASSUME NEW r \in Request, Expired(r) PROVE IInv'
  BY <1>8, <1>9 DEF Expired
<1>10. ASSUME NEW r \in Request, Late(r) PROVE IInv'
  BY <1>8, <1>10, IncrPreserves DEF Late
<1> QED
  BY <1>1, <1>2, <1>3, <1>4, <1>5, <1>6, <1>7, <1>9, <1>10 DEF Next, Handle

LEMMA CountUpTo ==
  ASSUME NEW n \in Nat
  PROVE  IsFiniteSet(1 .. n) /\ Cardinality(1 .. n) = n
<1>1. n \in Int /\ 1 \in Int
  OBVIOUS
<1>2. IsFiniteSet(1 .. n) /\ Cardinality(1 .. n) = IF 1 > n THEN 0 ELSE n - 1 + 1
  BY <1>1, FS_Interval
<1>3. Cardinality(1 .. n) = n
  BY <1>1, <1>2
<1> QED
  BY <1>2, <1>3

\* Distinct counts within 1 .. limit: the pigeonhole argument.
LEMMA LimitFromInv == IInv => LifeLimit
<1> SUFFICES ASSUME IInv, NEW k \in Key, NEW n,
                    NEW S, S = { r \in Sharing(k) : pc[r] = "admitted" /\ stamp[r].life = n }
             PROVE  Cardinality(S) <= Limit[k[1]]
  BY DEF LifeLimit
<1>1. Limit[k[1]] \in Nat
  BY RateLimitAssumption DEF RateLimitAssumption, Key
<1>2. \A r \in S : stamp[r].count \in 1 .. Limit[k[1]]
  BY <1>1 DEF Sharing, IInv, InvProgress, TypeOK, Counted, OverLimit, KeyOf
<1>3. \A q, r \in S : stamp[q].count = stamp[r].count => q = r
  <2>1. \A q, r \in S : stamp[q].count = stamp[r].count => stamp[q] = stamp[r]
    BY DEF Sharing, IInv, TypeOK
  <2> QED
    BY <2>1 DEF Sharing, IInv, InvDistinct
<1> DEFINE f == [r \in S |-> stamp[r].count]
<1>4. f \in Injection(S, 1 .. Limit[k[1]])
  <2>1. f \in [S -> 1 .. Limit[k[1]]]
    BY <1>2
  <2>2. \A q, r \in S : f[q] = f[r] => q = r
    BY <1>3
  <2> QED
    BY <2>1, <2>2 DEF Injection, IsInjective
<1>5. IsFiniteSet(1 .. Limit[k[1]]) /\ Cardinality(1 .. Limit[k[1]]) = Limit[k[1]]
  BY <1>1, CountUpTo
<1> QED
  BY <1>4, <1>5, FS_Injection

LEMMA InvAlways == Spec => []IInv
  BY InitEstablishes, InvInductive, PTL DEF Spec

-----------------------------------------------------------------------------
\* Every variable of the limiter keeps its type.
THEOREM TypeCorrect == Spec => []TypeOK
<1>1. IInv => TypeOK
  BY DEF IInv
<1> QED
  BY <1>1, InvAlways, PTL

\* However requests overlap, Redis fails, restarts or executes commands late, a
\* key lets no more than `limit` requests through from its first INCR to the
\* moment it is dropped.
THEOREM LifeLimitHolds == Spec => []LifeLimit
  BY InvAlways, LimitFromInv, PTL

-----------------------------------------------------------------------------
(***************************************************************************)
(* What a step does to the counts.                                         *)
(***************************************************************************)

LEMMA CountsOfStep ==
  ASSUME IInv, [Next]_vars
  PROVE  \/ /\ UNCHANGED <<counter, life, stamp>>
            /\ \A r \in Request : Counted(r) => KeyOf(r)' = KeyOf(r)
         \/ /\ UNCHANGED <<stamp, window>>
            /\ \E K \in SUBSET Key : Drop(K)
         \/ /\ UNCHANGED window
            /\ \E r \in Request : ~Counted(r) /\ Incr(r)
<1>1. CASE UNCHANGED vars
  BY <1>1 DEF vars, redis, keys, KeyOf
<1>2. CASE Tick
  BY <1>2 DEF Tick
<1>3. CASE GoDown \/ ComeBack
  BY <1>3 DEF GoDown, ComeBack, keys, KeyOf
<1>4. ASSUME NEW r \in Request, Arrive(r)
      PROVE  /\ UNCHANGED <<counter, life, stamp>>
             /\ \A q \in Request : Counted(q) => KeyOf(q)' = KeyOf(q)
  BY <1>4 DEF Arrive, redis, keys, KeyOf, IInv, TypeOK, InvProgress
<1>5. ASSUME NEW r \in Request, IncrExecuted(r) \/ (stray[r] = "incr" /\ Late(r))
      PROVE  UNCHANGED window /\ ~Counted(r) /\ Incr(r)
  BY <1>5 DEF IncrExecuted, Late, IInv, InvProgress
<1>6. ASSUME NEW r \in Request,
             Replied(r) \/ Expired(r) \/ FailOpen(r) \/ (stray[r] = "expire" /\ Late(r))
      PROVE  UNCHANGED <<counter, life, stamp, window>>
  BY <1>6 DEF Replied, Expired, FailOpen, Late, Expire, redis, keys
<1>7. ASSUME NEW r \in Request, Late(r) PROVE stray[r] \in {"incr", "expire"}
  BY <1>7 DEF Late
<1>8. ASSUME NEW r \in Request, Arrive(r) \/ Handle(r) \/ Late(r)
      PROVE  \/ /\ UNCHANGED <<counter, life, stamp>>
                /\ \A q \in Request : Counted(q) => KeyOf(q)' = KeyOf(q)
             \/ UNCHANGED window /\ ~Counted(r) /\ Incr(r)
  BY <1>4, <1>5, <1>6, <1>7, <1>8 DEF Handle, KeyOf
<1> QED
  BY <1>1, <1>2, <1>3, <1>8 DEF Next

-----------------------------------------------------------------------------
(***************************************************************************)
(* LimitedWithCause: the counts below that of a request were given to      *)
(* others.                                                                 *)
(***************************************************************************)

\* The counts that were given to requests: of which key, in which life of it.
Given == { <<KeyOf(q), stamp[q].count, stamp[q].life>> : q \in { r \in Request : Counted(r) } }

\* No count is passed over, neither in the present life of a key nor in those
\* that requests have been counted in.
InvGiven ==
  /\ \A k \in Key : \A n \in 1 .. counter[k] : <<k, n, life[k]>> \in Given
  /\ \A r \in Request : Counted(r) =>
       \A n \in 1 .. stamp[r].count : <<KeyOf(r), n, stamp[r].life>> \in Given

InvFinite == IsFiniteSet({ r \in Request : Counted(r) })

LEMMA GivenInductive ==
  ASSUME IInv, InvGiven, [Next]_vars
  PROVE  InvGiven'
<1>1. CASE /\ UNCHANGED <<counter, life, stamp>>
           /\ \A r \in Request : Counted(r) => KeyOf(r)' = KeyOf(r)
  <2>1. \A k \in Key : \A n, l : <<k, n, l>> \in Given => <<k, n, l>> \in Given'
    BY <1>1 DEF Given, Counted
  <2>2. \A r \in Request : Counted(r) => KeyOf(r) \in Key
    BY KeyType DEF IInv
  <2> QED
    BY <1>1, <2>1, <2>2 DEF InvGiven, Counted
<1>2. ASSUME UNCHANGED <<stamp, window>>, NEW K \in SUBSET Key, Drop(K) PROVE InvGiven'
  <2>1. \A k \in Key : \A n, l : <<k, n, l>> \in Given' <=> <<k, n, l>> \in Given
    BY <1>2 DEF Given, Counted, KeyOf
  <2>2. \A r \in Request : KeyOf(r) \in Key /\ KeyOf(r)' = KeyOf(r)
    BY <1>2, KeyType DEF IInv, KeyOf
  <2>3. ASSUME NEW k \in Key, NEW n \in 1 .. counter'[k] PROVE <<k, n, life'[k]>> \in Given'
    BY <1>2, <2>1, <2>3 DEF Drop, InvGiven
  <2>4. ASSUME NEW r \in Request, Counted(r)', NEW n \in 1 .. stamp'[r].count
        PROVE  <<KeyOf(r)', n, stamp'[r].life>> \in Given'
    BY <1>2, <2>1, <2>2, <2>4 DEF InvGiven, Counted
  <2> QED
    BY <2>3, <2>4 DEF InvGiven
<1>3. ASSUME UNCHANGED window, NEW r \in Request, ~Counted(r), Incr(r) PROVE InvGiven'
  <2> DEFINE k == KeyOf(r)
  <2>1. /\ k \in Key /\ counter[k] \in Nat /\ life[k] \in Nat
        /\ counter' = [counter EXCEPT ![k] = counter[k] + 1]
        /\ life' = life
        /\ stamp'[r] = [count |-> counter[k] + 1, life |-> life[k]]
        /\ \A q \in Request \ {r} : stamp'[q] = stamp[q]
        /\ \A q \in Request : KeyOf(q) \in Key /\ KeyOf(q)' = KeyOf(q)
    BY <1>3, KeyType DEF Incr, IInv, TypeOK, KeyOf
  <2>2. \A h \in Key : \A n, l : <<h, n, l>> \in Given => <<h, n, l>> \in Given'
    BY <1>3, <2>1 DEF Given, Counted
  <2>3. <<k, counter[k] + 1, life[k]>> \in Given'
    <3>1. r \in Sharing(k)'
      BY <2>1 DEF Sharing, Counted
    <3> QED
      BY <2>1, <3>1 DEF Given, Sharing
  <2>4. \A n \in 1 .. counter[k] + 1 : <<k, n, life[k]>> \in Given'
    BY <2>1, <2>2, <2>3 DEF InvGiven
  <2>5. ASSUME NEW h \in Key, NEW n \in 1 .. counter'[h] PROVE <<h, n, life'[h]>> \in Given'
    BY <2>1, <2>2, <2>4, <2>5 DEF InvGiven, IInv, TypeOK
  <2>6. ASSUME NEW q \in Request, Counted(q)', NEW n \in 1 .. stamp'[q].count
        PROVE  <<KeyOf(q)', n, stamp'[q].life>> \in Given'
    <3>1. CASE q = r
      BY <2>1, <2>4, <2>6, <3>1
    <3>2. CASE q # r
      BY <2>1, <2>2, <2>6, <3>2 DEF InvGiven, Counted
    <3> QED
      BY <3>1, <3>2
  <2> QED
    BY <2>5, <2>6 DEF InvGiven
<1> QED
  BY <1>1, <1>2, <1>3, CountsOfStep

LEMMA FiniteInductive ==
  ASSUME IInv, InvFinite, [Next]_vars
  PROVE  InvFinite'
<1> DEFINE C == { r \in Request : Counted(r) }
<1>1. PICK x : C' \subseteq C \cup {x}
  <2>1. CASE stamp' = stamp
    BY <2>1 DEF Counted
  <2>2. ASSUME NEW r \in Request, Incr(r) PROVE C' \subseteq C \cup {r}
    BY <2>2 DEF Incr, IInv, TypeOK, Counted
  <2> QED
    BY <2>1, <2>2, CountsOfStep
<1>2. IsFiniteSet(C \cup {x})
  BY FS_AddElement DEF InvFinite
<1> QED
  BY <1>1, <1>2, FS_Subset DEF InvFinite

LEMMA CauseFromInv == IInv /\ InvGiven /\ InvFinite => LimitedWithCause
<1> SUFFICES ASSUME IInv, InvGiven, InvFinite, NEW r \in Request, pc[r] = "limited",
                    NEW S, S = { q \in Sharing(KeyOf(r)) \ {r} : stamp[q].life = stamp[r].life }
             PROVE  Cardinality(S) >= Limit[SourceOf[r]]
  BY DEF LimitedWithCause
<1> DEFINE m == Limit[SourceOf[r]]
           f == [n \in 1 .. m |-> CHOOSE q \in S : stamp[q].count = n]
<1>1. m \in Nat /\ Counted(r) /\ stamp[r].count \in Nat /\ m < stamp[r].count
  BY RateLimitAssumption DEF RateLimitAssumption, IInv, TypeOK, InvProgress, OverLimit
<1>2. \A n \in 1 .. m : \E q \in S : stamp[q].count = n
  <2>1. ASSUME NEW n \in 1 .. m PROVE \E q \in S : stamp[q].count = n
    <3>1. n \in 1 .. stamp[r].count /\ n # stamp[r].count
      BY <1>1
    <3>2. PICK q \in Sharing(KeyOf(r)) : stamp[q].count = n /\ stamp[q].life = stamp[r].life
      BY <1>1, <3>1 DEF InvGiven, Given, Sharing
    <3> QED
      BY <3>1, <3>2
  <2> QED
    BY <2>1
<1>3. \A n \in 1 .. m : f[n] \in S /\ stamp[f[n]].count = n
  BY <1>2
<1>4. f \in Injection(1 .. m, S)
  <2> HIDE DEF m
  <2>1. f \in [1 .. m -> S]
    BY <1>3
  <2>2. \A a, b \in 1 .. m : f[a] = f[b] => a = b
    BY <1>3
  <2> QED
    BY <2>1, <2>2 DEF Injection, IsInjective
<1>5. IsFiniteSet(S)
  <2>1. S \subseteq { q \in Request : Counted(q) }
    BY DEF Sharing
  <2> QED
    BY <2>1, FS_Subset DEF InvFinite
<1>6. Cardinality(1 .. m) = m
  BY <1>1, CountUpTo
<1> HIDE DEF m, f
<1>7. Cardinality(1 .. m) <= Cardinality(S)
  BY <1>4, <1>5, FS_Injection
<1>8. Cardinality(S) \in Nat
  BY <1>5, FS_CardinalityType
<1> QED
  BY <1>1, <1>6, <1>7, <1>8 DEF m

LEMMA GivenAlways == Spec => []InvGiven
<1>1. Init => InvGiven
  BY DEF Init, InvGiven, Counted, NoStamp
<1>2. IInv /\ InvGiven /\ [Next]_vars => InvGiven'
  BY GivenInductive
<1> QED
  BY <1>1, <1>2, InvAlways, PTL DEF Spec

\* A request is turned away only after `limit` others of the same client, scope
\* and window were counted in the same life of the key.
THEOREM TurnedAwayWithCause == Spec => []LimitedWithCause
<1>1. Init => InvFinite
  <2> SUFFICES ASSUME Init PROVE InvFinite
    OBVIOUS
  <2>1. { r \in Request : Counted(r) } = {}
    BY DEF Init, Counted, NoStamp
  <2> QED
    BY <2>1, FS_EmptySet DEF InvFinite
<1>2. IInv /\ InvFinite /\ [Next]_vars => InvFinite'
  BY FiniteInductive
<1> QED
  BY <1>1, <1>2, InvAlways, GivenAlways, CauseFromInv, PTL DEF Spec

-----------------------------------------------------------------------------
(***************************************************************************)
(* OrphanHasCause: the first request of a key gives it a TTL before it is  *)
(* answered.                                                               *)
(***************************************************************************)

InvTtl ==
  \A r \in Request :
    /\ pc[r] \in {"admitted", "limited"}
    /\ stamp[r].count = 1
    /\ stamp[r].life = life[KeyOf(r)]
    => deadline[KeyOf(r)] # Never

LEMMA TtlInductive ==
  ASSUME IInv, InvTtl, [Next]_vars
  PROVE  InvTtl'
<1> USE KeyType DEF IInv, TypeOK
<1>1. CASE UNCHANGED <<deadline, life, pc, window, stamp>>
  BY <1>1 DEF InvTtl, KeyOf
<1>2. ASSUME NEW K \in SUBSET Key, Drop(K), UNCHANGED <<pc, window, stamp>> PROVE InvTtl'
  <2>1. ASSUME NEW r \in Request, pc[r] \in {"admitted", "limited"}, stamp[r].count = 1,
               stamp[r].life = life'[KeyOf(r)]
        PROVE  deadline'[KeyOf(r)] # Never
    <3>1. KeyOf(r) \notin K
      BY <1>2, <2>1 DEF Drop, InvStamp, Counted
    <3> QED
      BY <1>2, <2>1, <3>1 DEF Drop, InvTtl
  <2> QED
    BY <1>2, <2>1 DEF InvTtl, KeyOf
<1>3. ASSUME NEW r \in Request, Arrive(r) PROVE InvTtl'
  BY <1>3 DEF Arrive, Goto, redis, keys, InvTtl, KeyOf
<1>4. ASSUME NEW r \in Request, Incr(r), pc'[r] \in {"counted", "open"}, UNCHANGED window,
             \A q \in Request \ {r} : pc'[q] = pc[q]
      PROVE  InvTtl'
  BY <1>4 DEF Incr, InvTtl, KeyOf
<1>5. ASSUME NEW r \in Request, Replied(r) \/ FailOpen(r) PROVE InvTtl'
  BY <1>5 DEF Replied, FailOpen, Decide, Goto, redis, keys, InvTtl, KeyOf
<1>6. ASSUME NEW r \in Request, Expire(r), UNCHANGED <<window, stamp>>,
             pc' = pc \/ (pc[r] = "expire" /\ Decide(r))
      PROVE  InvTtl'
  <2> DEFINE k == KeyOf(r)
  <2>1. /\ \A h \in Key \ {k} : deadline'[h] = deadline[h]
        /\ Exists(k) => deadline'[k] \in Nat
        /\ ~Exists(k) => deadline'[k] = deadline[k]
        /\ life' = life
    BY <1>6, RateLimitAssumption DEF RateLimitAssumption, Expire
  <2>2. pc[r] = "expire" /\ stamp[r].life = life[k] => Exists(k)
    BY DEF InvProgress, InvStamp, Counted, Exists
  <2>3. \A q \in Request : deadline[KeyOf(q)] # Never => deadline'[KeyOf(q)] # Never
    BY <2>1, RateLimitAssumption DEF RateLimitAssumption
  <2>4. \A q \in Request \ {r} : pc'[q] = pc[q]
    BY <1>6 DEF Decide, Goto
  <2> QED
    BY <1>6, <2>1, <2>2, <2>3, <2>4, RateLimitAssumption
       DEF RateLimitAssumption, InvTtl, KeyOf
<1>7. CASE Tick \/ GoDown \/ ComeBack
  <2>1. UNCHANGED <<pc, window, stamp>>
    BY <1>7 DEF Tick, GoDown, ComeBack
  <2>2. UNCHANGED <<deadline, life>> \/ \E K \in SUBSET Key : Drop(K)
    BY <1>7 DEF Tick, GoDown, ComeBack, keys
  <2> QED
    BY <1>1, <1>2, <2>1, <2>2
<1>8. ASSUME NEW r \in Request, IncrExecuted(r) PROVE InvTtl'
  BY <1>4, <1>8 DEF IncrExecuted, Goto
<1>9. ASSUME NEW r \in Request, Expired(r) PROVE InvTtl'
  BY <1>6, <1>9 DEF Expired
<1>10. ASSUME NEW r \in Request, Late(r) PROVE InvTtl'
  BY <1>4, <1>6, <1>10 DEF Late, InvProgress
<1>11. CASE UNCHANGED vars
  BY <1>1, <1>11 DEF vars, redis, keys
<1> QED
  BY <1>3, <1>5, <1>7, <1>8, <1>9, <1>10, <1>11 DEF Next, Handle

LEMMA OrphanFromInv == IInv /\ InvGiven /\ InvTtl => OrphanHasCause
<1> SUFFICES ASSUME IInv, InvGiven, InvTtl, NEW k \in Key, Exists(k), deadline[k] = Never
             PROVE  \E r \in Sharing(k) : /\ stamp[r] = [count |-> 1, life |-> life[k]]
                                          /\ pc[r] \in {"counted", "expire", "open"}
  BY DEF OrphanHasCause
<1>1. <<k, 1, life[k]>> \in Given
  BY DEF InvGiven, Exists, IInv, TypeOK
<1>2. PICK r \in Sharing(k) : stamp[r].count = 1 /\ stamp[r].life = life[k]
  BY <1>1 DEF Given, Sharing
<1>3. r \in Request /\ KeyOf(r) = k /\ Counted(r)
  BY DEF Sharing
<1>4. stamp[r] = [count |-> 1, life |-> life[k]]
  BY <1>2, <1>3 DEF IInv, TypeOK
<1>5. pc[r] \notin {"admitted", "limited"}
  BY <1>2, <1>3 DEF InvTtl
<1>6. pc[r] \notin {"new", "incr"}
  BY <1>3 DEF IInv, InvProgress
<1>7. pc[r] \in {"new", "incr", "counted", "expire", "admitted", "limited", "open"}
  BY <1>3 DEF IInv, TypeOK, Answer
<1> QED
  BY <1>4, <1>5, <1>6, <1>7

\* A key without TTL is one whose first request is about to set it, or was let
\* down by Redis: two requests that overlap never make one.
THEOREM OrphansHaveCause == Spec => []OrphanHasCause
<1>1. Init => InvTtl
  BY DEF Init, InvTtl
<1>2. IInv /\ InvTtl /\ [Next]_vars => InvTtl'
  BY TtlInductive
<1> QED
  BY <1>1, <1>2, InvAlways, GivenAlways, OrphanFromInv, PTL DEF Spec

-----------------------------------------------------------------------------
(***************************************************************************)
(* KeyOutlivesWindow: a deadline lies beyond the window of its key.        *)
(***************************************************************************)

LEMMA NextWindow ==
  ASSUME NEW a \in Nat, NEW b \in Nat, a <= b
  PROVE  /\ a \div WindowLength \in Nat
         /\ a \div WindowLength <= b \div WindowLength
         /\ (b + WindowLength) \div WindowLength = b \div WindowLength + 1
BY RateLimitAssumption DEF RateLimitAssumption

InvDeadline ==
  /\ \A r \in Request : window[r] <= now \div WindowLength
  /\ \A k \in Key : deadline[k] # Never => deadline[k] \div WindowLength > k[2]

LEMMA DeadlineInductive ==
  ASSUME IInv, InvDeadline, [Next]_vars
  PROVE  InvDeadline'
<1> DEFINE W == WindowLength
<1>1. \A t \in Nat : t \div W \in Nat
  <2> TAKE t \in Nat
  <2>1. t <= t
    OBVIOUS
  <2> QED
    BY <2>1, NextWindow
<1>2. \A r \in Request : window[r] \in Nat
  <2> TAKE r \in Request
  <2>1. window[r] \in Window
    BY DEF IInv, TypeOK
  <2>2. PICK t \in 0 .. MaxClock : window[r] = t \div W
    BY <2>1 DEF Window
  <2> QED
    BY <1>1, <2>2, RateLimitAssumption DEF RateLimitAssumption
<1> USE DEF IInv, TypeOK
<1>3. now \in Nat /\ now' \in {now, now + 1}
  BY RateLimitAssumption DEF RateLimitAssumption, Next, vars, Tick, GoDown, ComeBack,
     Handle, Arrive, IncrExecuted, Replied, Expired, FailOpen, Late
<1>4. now \div W <= now' \div W
  BY <1>3, NextWindow
<1>5. \A r \in Request : window'[r] <= now' \div W
  <2>1. \/ window' = window
        \/ \E r \in Request : window' = [window EXCEPT ![r] = now \div W]
    BY DEF Next, vars, Tick, GoDown, ComeBack, Handle, Arrive, IncrExecuted, Replied,
           Expired, FailOpen, Late
  <2>2. \A r \in Request : window'[r] <= now \div W
    BY <1>1, <1>2, <1>3, <2>1 DEF InvDeadline
  <2>3. \A r \in Request : window'[r] \in Nat
    BY <1>1, <1>2, <1>3, <2>1
  <2> QED
    BY <1>1, <1>3, <1>4, <2>2, <2>3
<1>6. ASSUME NEW r \in Request, Expire(r), NEW k \in Key, deadline'[k] # Never
      PROVE  deadline'[k] \div W > k[2]
  <2>1. CASE k = KeyOf(r) /\ Exists(k)
    <3>1. deadline'[k] = now + W
      BY <1>6, <2>1 DEF Expire
    <3>2. (now + W) \div W = now \div W + 1
      BY <1>3, NextWindow
    <3>3. k[2] = window[r] /\ window[r] <= now \div W
      BY <2>1 DEF KeyOf, InvDeadline
    <3> QED
      BY <1>1, <1>2, <1>3, <3>1, <3>2, <3>3
  <2>2. CASE ~(k = KeyOf(r) /\ Exists(k))
    <3>1. deadline'[k] = deadline[k]
      BY <1>6, <2>2 DEF Expire
    <3> QED
      BY <1>6, <3>1 DEF InvDeadline
  <2> QED
    BY <2>1, <2>2
<1>7. ASSUME NEW K, Drop(K), NEW k \in Key, deadline'[k] # Never
      PROVE  deadline'[k] \div W > k[2]
  BY <1>7 DEF Drop, InvDeadline
<1>8. \/ deadline' = deadline
      \/ \E r \in Request : Expire(r)
      \/ \E K : Drop(K)
  BY DEF Next, vars, redis, keys, Tick, GoDown, ComeBack, Handle, Arrive, IncrExecuted,
         Replied, Expired, FailOpen, Late, Incr
<1>9. \A k \in Key : deadline'[k] # Never => deadline'[k] \div W > k[2]
  BY <1>6, <1>7, <1>8 DEF InvDeadline
<1> QED
  BY <1>5, <1>9 DEF InvDeadline

\* While Redis is up it forgets a count only after the window the count is for,
\* however late INCR and EXPIRE are executed.
THEOREM KeysOutliveWindows == Spec => KeyOutlivesWindow
<1>1. Init => InvDeadline
  BY RateLimitAssumption DEF RateLimitAssumption, Init, InvDeadline
<1>2. IInv /\ InvDeadline /\ [Next]_vars => InvDeadline'
  BY DeadlineInductive
<1>3. IInv /\ InvDeadline /\ [Next]_vars
        => [ up => \A k \in Key :
               life'[k] # life[k] => now' \div WindowLength > k[2] ]_vars
  <2> SUFFICES ASSUME IInv, InvDeadline, Next, up, NEW k \in Key, life'[k] # life[k]
               PROVE  now' \div WindowLength > k[2]
    OBVIOUS
  <2>1. Tick
    BY DEF Next, GoDown, ComeBack, Arrive, Handle, IncrExecuted, Replied, Expired, FailOpen,
           Late, Incr, Expire, redis, keys
  <2>2. deadline[k] = now + 1 /\ now' = now + 1
    BY <2>1 DEF Tick, Drop, IInv, TypeOK
  <2>3. deadline[k] # Never
    BY <2>2, RateLimitAssumption DEF RateLimitAssumption, IInv, TypeOK
  <2> QED
    BY <2>2, <2>3 DEF InvDeadline
<1> QED
  BY <1>1, <1>2, <1>3, InvAlways, PTL DEF Spec, KeyOutlivesWindow

=============================================================================
