----------------------------- MODULE EdgarClient -----------------------------
(***************************************************************************)
(* EdgarClient._get: the throttle before each request, and the retries.    *)
(*                                                                         *)
(* Time is relative: the model keeps how long ago things happened, as far  *)
(* back as anything depends on it, and how long the client sleeps yet.     *)
(* A request leaves some time after the throttle has let it pass (name     *)
(* resolution, connection, TLS), and its answer takes any time.            *)
(***************************************************************************)
EXTENDS Naturals, SequencesExt

CONSTANTS
  MinInterval,   \* MIN_INTERVAL_S
  Second,        \* the period over which EDGAR counts requests
  Limit,         \* requests EDGAR accepts in a Second
  MaxAttempts,   \* stop_after_attempt
  MaxWait,       \* wait_exponential's max, in Seconds
  MaxRedirects   \* bound: redirects EDGAR answers with, per request

EdgarAssumption ==
  /\ MinInterval \in Nat \ {0}
  /\ Second \in Nat \ {0}
  /\ Limit \in Nat
  /\ Limit * MinInterval >= Second
  /\ MaxAttempts \in Nat \ {0}
  /\ MaxWait \in Nat
  /\ MaxRedirects \in Nat

ASSUME EdgarAssumption

VARIABLES
  pc,         \* where _get stands
  attempt,    \* attempt_number of the call
  redirects,  \* redirects followed in this attempt
  since,      \* time since _last_request_at, no more than Horizon
  sleep,      \* time the client sleeps yet
  recent      \* ages of the requests of the last Second, as EDGAR got them, oldest first

vars == <<pc, attempt, redirects, since, sleep, recent>>

\* wait_exponential(multiplier=1, max=30)
Backoff(n) == Second * (IF 2 ^ (n - 1) \in 0 .. MaxWait THEN 2 ^ (n - 1) ELSE MaxWait)

Horizon == Max({MinInterval, Second})

TypeOK ==
  /\ pc \in {"idle", "throttle", "sleeping", "connect", "sent", "backoff"}
  /\ attempt \in 1 .. MaxAttempts
  /\ redirects \in 0 .. MaxRedirects
  /\ since \in 0 .. Horizon
  /\ sleep \in 0 .. Max({MinInterval, Second * MaxWait})
  /\ recent \in Seq(0 .. Second - 1)

\* _last_request_at is 0.0, long before any time.monotonic().
Init ==
  /\ pc = "idle"
  /\ attempt = 1
  /\ redirects = 0
  /\ since = Horizon
  /\ sleep = 0
  /\ recent = <<>>

\* Time passes, anywhere; a sleeping client may wake late.  The oldest requests,
\* which come first, leave the Second.
Tick ==
  /\ since' = Min({since + 1, Horizon})
  /\ sleep' = IF sleep > 0 THEN sleep - 1 ELSE 0
  /\ recent' = LET kept == Cardinality({ i \in DOMAIN recent : recent[i] + 1 < Second })
               IN  [i \in 1 .. kept |-> recent[Len(recent) - kept + i] + 1]
  /\ UNCHANGED <<pc, attempt, redirects>>

-----------------------------------------------------------------------------
Get ==
  /\ pc = "idle"
  /\ pc' = "throttle"
  /\ attempt' = 1
  /\ UNCHANGED <<redirects, since, sleep, recent>>

\* Mutant: the client does not sleep.
Throttle_NoWait ==
  /\ pc = "throttle"
  /\ sleep' = 0
  /\ pc' = "sleeping"
  /\ UNCHANGED <<attempt, redirects, since, recent>>

\* wait = MIN_INTERVAL_S - (time.monotonic() - self._last_request_at)
Throttle ==
  /\ pc = "throttle"
  /\ sleep' = IF since < MinInterval THEN MinInterval - since ELSE 0
  /\ pc' = "sleeping"
  /\ UNCHANGED <<attempt, redirects, since, recent>>

\* _last_request_at is set; only now is the request made.
Awake ==
  /\ pc = "sleeping"
  /\ sleep = 0
  /\ since' = 0
  /\ pc' = "connect"
  /\ UNCHANGED <<attempt, redirects, sleep, recent>>

Send ==
  /\ pc = "connect"
  /\ recent' = Append(recent, 0)
  /\ pc' = "sent"
  /\ UNCHANGED <<attempt, redirects, since, sleep>>

\* follow_redirects: the next request is sent without _get.
Redirected ==
  /\ pc = "sent"
  /\ redirects < MaxRedirects
  /\ redirects' = redirects + 1
  /\ pc' = "connect"
  /\ UNCHANGED <<attempt, since, sleep, recent>>

\* The call returns, or raises what is not retried (404, timeouts, ...).
Return ==
  /\ pc \in {"connect", "sent"}
  /\ pc' = "idle"
  /\ redirects' = 0
  /\ attempt' = 1
  /\ UNCHANGED <<since, sleep, recent>>

\* Mutant: `<=` in stop_after_attempt.
Exhausted_OneMore == attempt > MaxAttempts

Exhausted == attempt >= MaxAttempts

\* _is_retryable: 429 or 5xx.
Refused ==
  /\ pc = "sent"
  /\ redirects' = 0
  /\ IF Exhausted
       THEN pc' = "idle" /\ attempt' = 1 /\ UNCHANGED sleep
       ELSE pc' = "backoff" /\ sleep' = Backoff(attempt) /\ UNCHANGED attempt
  /\ UNCHANGED <<since, recent>>

Retry ==
  /\ pc = "backoff"
  /\ sleep = 0
  /\ attempt' = attempt + 1
  /\ pc' = "throttle"
  /\ UNCHANGED <<redirects, since, sleep, recent>>

Next ==
  \/ Tick
  \/ Get \/ Throttle \/ Awake \/ Send
  \/ Redirected \/ Return \/ Refused \/ Retry

Spec == Init /\ [][Next]_vars

-----------------------------------------------------------------------------
(***************************************************************************)
(* Properties.                                                             *)
(***************************************************************************)

\* What the throttle is worth to EDGAR: one attempt above the Limit, because one
\* may be long on its way, and never more, whatever is refused and retried; each
\* with the redirects it is answered with.
AttemptsAlmostWithinLimit == Len(recent) <= (Limit + 1) * (1 + MaxRedirects)

\* "fair-access compliant (declared UA, <=10 req/s, backoff)": every request counts,
\* when it arrives, whether _get sent it or the redirect before it.
RequestsWithinLimit == Len(recent) <= Limit

=============================================================================
