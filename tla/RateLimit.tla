----------------------------- MODULE RateLimit ------------------------------
(***************************************************************************)
(* check_rate_limit: fixed-window counters in Redis, fail open.            *)
(*                                                                         *)
(* The key of a request is made of its scope, its client and the window of *)
(* the clock, read once, before the first await.  INCR and EXPIRE are two  *)
(* commands; between them, and before the first, other requests run and    *)
(* time passes.  A command may be answered, may be executed and its answer *)
(* lost, may be executed after the caller has given up, or never.  Redis   *)
(* executes a command at most once, and forgets a key at its deadline or   *)
(* when it restarts.                                                       *)
(***************************************************************************)
EXTENDS Naturals, FiniteSets

CONSTANTS
  Request,
  Source,       \* pairs of a scope ("search", "ask") and a client address
  SourceOf,     \* SourceOf[r]: where request r comes from
  Limit,        \* Limit[s]: requests per window allowed to source s
  WindowLength, \* window_s
  MaxClock,     \* bound: the model's clock stops there
  MaxOutages,   \* bound: how often Redis goes down
  Never         \* the deadline of a key without TTL

RateLimitAssumption ==
  /\ SourceOf \in [Request -> Source]
  /\ Limit \in [Source -> Nat]
  /\ WindowLength \in Nat \ {0}
  /\ MaxClock \in Nat
  /\ MaxOutages \in Nat
  /\ Never \notin Nat

ASSUME RateLimitAssumption

VARIABLES
  now,       \* time.time()
  counter,   \* counter[k]: value of key k, 0 when there is no such key
  deadline,  \* deadline[k]: when Redis drops k
  life,      \* life[k]: how often k has been dropped (auxiliary)
  up,        \* can Redis be reached?
  outages,   \* auxiliary: counts towards MaxOutages
  pc,        \* pc[r]: where check_rate_limit stands for request r
  window,    \* window[r]: the window number in the key of r
  stamp,     \* stamp[r]: count and life of the key when the INCR of r was executed
  stray      \* stray[r]: command of r that Redis may still execute, nobody waiting

keys  == <<counter, deadline, life>>
redis == <<keys, up, outages>>
vars  == <<now, redis, pc, window, stamp, stray>>

Window == { t \div WindowLength : t \in 0 .. MaxClock }
Key    == Source \X Window
KeyOf(r) == <<SourceOf[r], window[r]>>

\* Answers: admitted by its count, limited (429), admitted because Redis failed.
Answer == {"admitted", "limited", "open"}

NoStamp == [count |-> 0, life |-> 0]

Counted(r) == stamp[r].count > 0

TypeOK ==
  /\ now \in 0 .. MaxClock
  /\ counter \in [Key -> Nat]
  /\ deadline \in [Key -> Nat \cup {Never}]
  /\ life \in [Key -> Nat]
  /\ up \in BOOLEAN
  /\ outages \in 0 .. MaxOutages
  /\ pc \in [Request -> {"new", "incr", "counted", "expire"} \cup Answer]
  /\ window \in [Request -> Window]
  /\ stamp \in [Request -> [count : Nat, life : Nat]]
  /\ stray \in [Request -> {"none", "incr", "expire"}]

Init ==
  /\ now = 0
  /\ counter = [k \in Key |-> 0]
  /\ deadline = [k \in Key |-> Never]
  /\ life = [k \in Key |-> 0]
  /\ up = TRUE
  /\ outages = 0
  /\ pc = [r \in Request |-> "new"]
  /\ window = [r \in Request |-> now \div WindowLength]
  /\ stamp = [r \in Request |-> NoStamp]
  /\ stray = [r \in Request |-> "none"]

Goto(r, s) == pc' = [pc EXCEPT ![r] = s]

-----------------------------------------------------------------------------
(***************************************************************************)
(* Redis.                                                                  *)
(***************************************************************************)

\* The keys of K cease to exist.
Drop(K) ==
  /\ counter' = [k \in Key |-> IF k \in K THEN 0 ELSE counter[k]]
  /\ deadline' = [k \in Key |-> IF k \in K THEN Never ELSE deadline[k]]
  /\ life' = [k \in Key |-> IF k \in K THEN life[k] + 1 ELSE life[k]]

Exists(k) == counter[k] > 0

Tick ==
  /\ now < MaxClock
  /\ now' = now + 1
  /\ Drop({ k \in Key : Exists(k) /\ deadline[k] = now + 1 })
  /\ UNCHANGED <<up, outages, pc, window, stamp, stray>>

\* Redis stops, or the network to it fails ...
GoDown ==
  /\ up
  /\ outages < MaxOutages
  /\ up' = FALSE
  /\ outages' = outages + 1
  /\ UNCHANGED <<now, keys, pc, window, stamp, stray>>

\* ... and is back, with its memory or without.
ComeBack ==
  /\ ~up
  /\ up' = TRUE
  /\ UNCHANGED keys \/ Drop({ k \in Key : Exists(k) })
  /\ UNCHANGED <<now, outages, pc, window, stamp, stray>>

\* Mutant: DECR.
Incr_Decr(r) ==
  /\ up
  /\ counter' = [counter EXCEPT ![KeyOf(r)] = @ - 1]
  /\ stamp' = [stamp EXCEPT ![r] = [count |-> counter[KeyOf(r)] - 1,
                                    life  |-> life[KeyOf(r)]]]
  /\ UNCHANGED <<deadline, life, up, outages>>

Incr(r) ==
  /\ up
  /\ counter' = [counter EXCEPT ![KeyOf(r)] = @ + 1]
  /\ stamp' = [stamp EXCEPT ![r] = [count |-> counter[KeyOf(r)] + 1,
                                    life  |-> life[KeyOf(r)]]]
  /\ UNCHANGED <<deadline, life, up, outages>>

\* Mutant: the TTL is one second short.
Expire_Short(r) ==
  /\ up
  /\ deadline' = [deadline EXCEPT ![KeyOf(r)] =
                    IF Exists(KeyOf(r)) THEN now + WindowLength - 1 ELSE @]
  /\ UNCHANGED <<counter, life, up, outages>>

\* EXPIRE does nothing when there is no such key.
Expire(r) ==
  /\ up
  /\ deadline' = [deadline EXCEPT ![KeyOf(r)] =
                    IF Exists(KeyOf(r)) THEN now + WindowLength ELSE @]
  /\ UNCHANGED <<counter, life, up, outages>>

-----------------------------------------------------------------------------
(***************************************************************************)
(* check_rate_limit.                                                       *)
(***************************************************************************)

Arrive(r) ==
  /\ pc[r] = "new"
  /\ window' = [window EXCEPT ![r] = now \div WindowLength]
  /\ Goto(r, "incr")
  /\ UNCHANGED <<now, redis, stamp, stray>>

\* count = await r.incr(key)
IncrExecuted(r) ==
  /\ pc[r] = "incr"
  /\ Incr(r)
  /\ Goto(r, "counted")
  /\ UNCHANGED <<now, window, stray>>

\* Mutant: one request too many.
OverLimit_OffByOne(r) == stamp[r].count > Limit[SourceOf[r]] + 1

\* Mutant: one request too few.
OverLimit_Early(r) == stamp[r].count >= Limit[SourceOf[r]]

OverLimit(r) == stamp[r].count > Limit[SourceOf[r]]

Decide(r) == Goto(r, IF OverLimit(r) THEN "limited" ELSE "admitted")

\* Mutant: EXPIRE is sent by the second request of the window.
Replied_Second(r) ==
  /\ pc[r] = "counted"
  /\ IF stamp[r].count = 2 THEN Goto(r, "expire") ELSE Decide(r)
  /\ UNCHANGED <<now, redis, window, stamp, stray>>

\* The answer of INCR arrives.
Replied(r) ==
  /\ pc[r] = "counted"
  /\ IF stamp[r].count = 1 THEN Goto(r, "expire") ELSE Decide(r)
  /\ UNCHANGED <<now, redis, window, stamp, stray>>

\* await r.expire(key, window_s)
Expired(r) ==
  /\ pc[r] = "expire"
  /\ Expire(r)
  /\ Decide(r)
  /\ UNCHANGED <<now, window, stamp, stray>>

\* Mutant: the answer is awaited without a timeout.
FailOpen_Refused(r) ==
  /\ up
  /\ pc[r] \in {"incr", "expire"}
  /\ Goto(r, "open")
  /\ UNCHANGED <<now, redis, window, stamp, stray>>

\* except Exception: Redis cannot be reached, refuses, or takes more than a
\* second; in the last case it may execute the command yet.
FailOpen(r) ==
  /\ \/ /\ pc[r] = "incr"
        /\ stray' \in { stray, [stray EXCEPT ![r] = "incr"] }
     \/ /\ pc[r] = "expire"
        /\ stray' \in { stray, [stray EXCEPT ![r] = "expire"] }
     \/ /\ pc[r] = "counted"
        /\ UNCHANGED stray
  /\ Goto(r, "open")
  /\ UNCHANGED <<now, redis, window, stamp>>

Late(r) ==
  /\ \/ stray[r] = "incr" /\ Incr(r)
     \/ stray[r] = "expire" /\ Expire(r) /\ UNCHANGED stamp
  /\ stray' = [stray EXCEPT ![r] = "none"]
  /\ UNCHANGED <<now, pc, window>>

-----------------------------------------------------------------------------
Handle(r) == IncrExecuted(r) \/ Replied(r) \/ Expired(r) \/ FailOpen(r)

Next ==
  \/ Tick
  \/ GoDown
  \/ ComeBack
  \/ \E r \in Request : Arrive(r) \/ Handle(r) \/ Late(r)

Spec == Init /\ [][Next]_vars

\* Every await of the handler ends: redis-py raises after socket_timeout.
\* Nothing is assumed of Redis itself.
Fairness == \A r \in Request : WF_vars(Handle(r))

FairSpec == Spec /\ Fairness

-----------------------------------------------------------------------------
(***************************************************************************)
(* Properties.                                                             *)
(***************************************************************************)

Sharing(k) == { r \in Request : Counted(r) /\ KeyOf(r) = k }

\* While a key lives, no more than `limit` of the requests that were counted
\* under it pass, in whatever order their INCRs and answers overlap.
LifeLimit ==
  \A k \in Key : \A n \in { stamp[r].life : r \in Sharing(k) } :
    Cardinality({ r \in Sharing(k) : pc[r] = "admitted" /\ stamp[r].life = n })
      <= Limit[k[1]]

\* "Raise 429 when `limit` requests per `window_s` is exceeded for this client":
\* while Redis is up, it forgets a count only when the window it is for is over,
\* however late EXPIRE and INCR are executed.  (An INCR that comes later still
\* begins a count of its own.)
KeyOutlivesWindow ==
  [][ up => \A k \in Key :
        life'[k] # life[k] => now' \div WindowLength > k[2] ]_vars

\* A request is turned away only after `limit` others of the same client, scope
\* and window: nobody pays for the requests of someone else or of an earlier
\* window, nor for a failing Redis.
LimitedWithCause ==
  \A r \in Request : pc[r] = "limited" =>
    Cardinality({ q \in Sharing(KeyOf(r)) \ {r} : stamp[q].life = stamp[r].life })
      >= Limit[SourceOf[r]]

\* A key has a TTL, or its first request is about to give it one, or Redis let
\* down the request that should have: an orphan key is never the work of two
\* requests that overlap.
OrphanHasCause ==
  \A k \in Key : Exists(k) /\ deadline[k] = Never =>
    \E r \in Sharing(k) :
      /\ stamp[r] = [count |-> 1, life |-> life[k]]
      /\ pc[r] \in {"counted", "expire", "open"}

\* A request that arrives is answered, with Redis up or down.
EveryRequestAnswered == \A r \in Request : pc[r] = "incr" ~> pc[r] \in Answer

=============================================================================
