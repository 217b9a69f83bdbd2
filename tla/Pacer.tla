-------------------------------- MODULE Pacer --------------------------------
(***************************************************************************)
(* fetchWithRetry and the RequestPacer of a host (api/http.ts).  The calls *)
(* of one process claim start slots, sleep towards them, share the pause a *)
(* 429 asks for, and retry on two budgets: one for 429s, one for server    *)
(* and network errors.                                                     *)
(*                                                                         *)
(* Times are counted down: nextStartAt, pausedUntil and wake are how far   *)
(* ahead of the present the moments of the code are, 0 once they passed.   *)
(***************************************************************************)
EXTENDS Integers, FiniteSets

CONSTANTS
  Fetches,
  Idempotent,        \* GET and HEAD
  Retries,           \* budget for server and network errors
  RateLimitRetries,  \* budget for 429s, per request (a login has a short one)
  MinInterval,       \* ticks between two starts
  MaxDelay,          \* bound: the longest wait a Retry-After or a backoff asks for
  Punctual           \* timers fire in the tick they are due in

ASSUME PacerAssumption ==
  /\ IsFiniteSet(Fetches) /\ Idempotent \subseteq Fetches
  /\ Retries \in Nat /\ RateLimitRetries \in [Fetches -> Nat]
  /\ MinInterval \in Nat /\ MaxDelay \in Nat /\ Punctual \in BOOLEAN

VARIABLES
  nextStartAt, pausedUntil,  \* the pacer of the host
  st, wake,                  \* where a request is, and when its sleep ends
  failures, rateLimited,     \* spent budgets
  sends,                     \* history: how often it was sent
  uncertain,                 \* history: an earlier send may have been carried out
  since                      \* history: ticks since the last start, at most MinInterval

hostVars == <<nextStartAt, pausedUntil>>
requestVars == <<st, wake, failures, rateLimited, sends, uncertain>>
pacerVars ==
  <<nextStartAt, pausedUntil, st, wake, failures, rateLimited, sends, uncertain, since>>

Later(a, b) == IF a >= b THEN a ELSE b
Sleeping(r) == st[r] \in {"slot", "backoff"}

PacerInit ==
  /\ nextStartAt = 0 /\ pausedUntil = 0
  /\ st = [r \in Fetches |-> "new"] /\ wake = [r \in Fetches |-> 0]
  /\ failures = [r \in Fetches |-> 0] /\ rateLimited = [r \in Fetches |-> 0]
  /\ sends = [r \in Fetches |-> 0] /\ uncertain = [r \in Fetches |-> FALSE]
  /\ since = MinInterval

--------------------------------------------------------------------------------
Launch(r) ==
  /\ st' = [st EXCEPT ![r] = "flight"]
  /\ sends' = [sends EXCEPT ![r] = @ + 1]
  /\ since' = 0

Sleep(r, where, d) ==
  /\ st' = [st EXCEPT ![r] = where]
  /\ wake' = [wake EXCEPT ![r] = d]
  /\ UNCHANGED <<sends, since>>

\* reserve(): the next free slot, after the pause if there is one.
Claim_KeepsSlot(r, pause) ==                                         \* mutated
  LET w == Later(nextStartAt, pause) IN
    /\ nextStartAt' = nextStartAt + MinInterval
    /\ \/ w = 0 /\ Launch(r) /\ UNCHANGED wake
       \/ w > 0 /\ Sleep(r, "slot", w)
Claim(r, pause) ==
  LET w == Later(nextStartAt, pause) IN
    /\ nextStartAt' = w + MinInterval
    /\ \/ w = 0 /\ Launch(r) /\ UNCHANGED wake
       \/ w > 0 /\ Sleep(r, "slot", w)

Begin(r) ==
  /\ st[r] = "new"
  /\ Claim(r, pausedUntil)
  /\ UNCHANGED <<pausedUntil, failures, rateLimited, uncertain>>

\* The slot has come.  If a sibling was told to slow down meanwhile, another
\* slot is claimed.
Wake_Reclaims(r) ==                                                  \* mutated
  /\ st[r] = "slot" /\ wake[r] = 0
  /\ Claim(r, pausedUntil)
  /\ UNCHANGED <<pausedUntil, failures, rateLimited, uncertain>>
Wake(r) ==
  /\ st[r] = "slot" /\ wake[r] = 0
  /\ \/ pausedUntil > 0 /\ Claim(r, pausedUntil)
     \/ pausedUntil = 0 /\ Launch(r) /\ UNCHANGED <<nextStartAt, wake>>
  /\ UNCHANGED <<pausedUntil, failures, rateLimited, uncertain>>

Retry(r) ==
  /\ st[r] = "backoff" /\ wake[r] = 0
  /\ Claim(r, pausedUntil)
  /\ UNCHANGED <<pausedUntil, failures, rateLimited, uncertain>>

\* Any answer but a 429 and a server error.
Succeed(r) ==
  /\ st[r] = "flight"
  /\ st' = [st EXCEPT ![r] = "done"]
  /\ UNCHANGED <<hostVars, wake, failures, rateLimited, sends, uncertain, since>>

\* A 429: not processed, so it is safe to repeat; everybody waits.
Throttled(r) ==
  /\ st[r] = "flight" /\ rateLimited[r] < RateLimitRetries[r]
  /\ rateLimited' = [rateLimited EXCEPT ![r] = @ + 1]
  /\ \E d \in 0 .. MaxDelay :
       /\ pausedUntil' = Later(pausedUntil, d)
       /\ Claim(r, Later(pausedUntil, d))
  /\ UNCHANGED <<failures, uncertain>>

\* A server or network error: the request may have been carried out.
MayRetry_Always(r) == failures[r] < Retries                          \* mutated
MayRetry(r) == failures[r] < Retries /\ r \in Idempotent

Err(r) ==
  /\ st[r] = "flight" /\ MayRetry(r)
  /\ failures' = [failures EXCEPT ![r] = @ + 1]
  /\ uncertain' = [uncertain EXCEPT ![r] = TRUE]
  /\ \E d \in 0 .. MaxDelay : Sleep(r, "backoff", d)
  /\ UNCHANGED <<hostVars, rateLimited>>

\* A 429 too many.
Refuse(r) ==
  /\ st[r] = "flight" /\ rateLimited[r] >= RateLimitRetries[r]
  /\ st' = [st EXCEPT ![r] = "failed"]
  /\ UNCHANGED <<hostVars, wake, failures, rateLimited, sends, uncertain, since>>

\* An error too many, or of a write.
GiveUp(r) ==
  /\ st[r] = "flight" /\ ~MayRetry(r)
  /\ st' = [st EXCEPT ![r] = "failed"]
  /\ uncertain' = [uncertain EXCEPT ![r] = TRUE]
  /\ UNCHANGED <<hostVars, wake, failures, rateLimited, sends, since>>

Before(t) == IF t > 0 THEN t - 1 ELSE 0

Tick ==
  /\ Punctual => \A r \in Fetches : Sleeping(r) => wake[r] > 0
  /\ nextStartAt' = Before(nextStartAt) /\ pausedUntil' = Before(pausedUntil)
  /\ wake' = [r \in Fetches |-> Before(wake[r])]
  /\ since' = IF since < MinInterval THEN since + 1 ELSE since
  /\ UNCHANGED <<st, failures, rateLimited, sends, uncertain>>

--------------------------------------------------------------------------------
Timer(r) == Begin(r) \/ Wake(r) \/ Retry(r)
Answer(r) == Succeed(r) \/ Throttled(r) \/ Err(r) \/ Refuse(r) \/ GiveUp(r)

PacerNext == Tick \/ \E r \in Fetches : Timer(r) \/ Answer(r)

PacerSpec == PacerInit /\ [][PacerNext]_pacerVars

\* Time passes, timers fire and every request sent is answered or fails.
PacerFairness ==
  WF_pacerVars(Tick) /\ \A r \in Fetches : WF_pacerVars(Timer(r)) /\ WF_pacerVars(Answer(r))
PacerFairSpec == PacerSpec /\ PacerFairness

--------------------------------------------------------------------------------
PacerTypeOK ==
  /\ nextStartAt \in Nat /\ pausedUntil \in Nat
  /\ st \in [Fetches -> {"new", "slot", "backoff", "flight", "done", "failed"}]
  /\ wake \in [Fetches -> Nat]
  /\ failures \in [Fetches -> 0 .. Retries]
  /\ rateLimited \in [Fetches -> Nat]
  /\ sends \in [Fetches -> Nat] /\ uncertain \in [Fetches -> BOOLEAN]
  /\ since \in 0 .. MinInterval

Starts(r) == sends'[r] # sends[r]

\* "N workers released at once still start minIntervalMs apart instead of in a
\* burst" (http.ts): also when a pause ends, whoever slept through it.
Spaced ==
  [][Punctual => \A r \in Fetches : Starts(r) => since >= MinInterval]_pacerVars

\* "holds ALL requests to that host back when any of them is told to slow down":
\* none starts in a pause, not even one that had its slot before the pause.
PauseHolds ==
  [][\A r \in Fetches : Starts(r) => pausedUntil = 0]_pacerVars

\* "a write that may have already been applied is never blindly repeated".
WriteNotRepeated ==
  [][\A r \in Fetches \ Idempotent : Starts(r) => ~uncertain[r]]_pacerVars

\* A request is answered or given up, whatever the server says and however
\* often its siblings are told to slow down.
EveryRequestEnds == \A r \in Fetches : <>(st[r] \in {"done", "failed"})
=============================================================================
