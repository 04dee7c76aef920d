----------------------------- MODULE ReplayRetry -----------------------------
(***************************************************************************)
(* The automatic-retry decision of a replay job: whether a failed or       *)
(* expired attempt may be followed by another one, and not before when.    *)
(* Source: packages/replay/src/replay-retry.ts.  Timestamps are integers.  *)
(***************************************************************************)
EXTENDS Integers

CONSTANT
    MaxSafeInteger  \* Number.MAX_SAFE_INTEGER of the JavaScript runtime

ASSUME MaxSafeIntegerAssumption == MaxSafeInteger \in Nat \ {0}

\* ReplayBackoffSchema: the delay before the next attempt.
Backoffs ==
    [kind : {"none"}]
        \cup [kind : {"fixed"}, delay : Nat \ {0}]
        \cup [kind : {"exponential"}, initial : Nat \ {0}, maximum : Nat \ {0},
              multiplier : Nat \ {0, 1}]

\* What the schema requires of a plan's retry policy.  retryableErrors holds
\* the declared error codes.
ValidRetryPolicy(policy) ==
    /\ policy.automatic \in BOOLEAN
    /\ policy.maxAttempts \in Nat \ {0}
    /\ policy.perAttemptTimeout \in Nat \ {0}
    /\ policy.totalDeadline \in Nat \ {0}
    /\ policy.backoff \in Backoffs
    /\ policy.backoff.kind = "exponential"
         => policy.backoff.maximum >= policy.backoff.initial
    /\ policy.perAttemptTimeout <= policy.totalDeadline
    /\ policy.maxAttempts = 1 => ~policy.automatic
    /\ ~policy.automatic => /\ policy.retryableErrors = {}
                            /\ policy.backoff.kind = "none"

Least(a, b) == IF a <= b THEN a ELSE b

Greatest(a, b) == IF a >= b THEN a ELSE b

\* Delay after the attempt with this sequence number (counted from 0).
retryDelay(policy, attemptSequence) ==
    LET backoff == policy.backoff
        delay[i \in 0..attemptSequence] ==
            IF i = 0 THEN backoff.initial
            ELSE Least(delay[i - 1] * backoff.multiplier, backoff.maximum)
    IN  CASE backoff.kind = "none"  -> 0
          [] backoff.kind = "fixed" -> backoff.delay
          [] OTHER                  -> delay[attemptSequence]

\* A lease expiry is declared under the name target_process_interrupted.
errorDeclared(policy, code) ==
    (IF code = "lease_expired" THEN "target_process_interrupted" ELSE code)
        \in policy.retryableErrors

\* The effect an attempt may have had on the outside world, by what is known
\* of repeating it.
Effects == {"none", "read_only", "destination_idempotency_verified", "not_retryable"}

effectRetrySafe(effect) == effect # "not_retryable"

blocked(reason) == [eligible |-> FALSE, reason |-> reason, notBefore |-> 0]

\* decideReplayRetry: the checks, in the order the code makes them.
decideReplayRetry(policy, code, effect, attemptSequence, startedAt, failedAt, evaluatedAt) ==
    LET notBefore   == failedAt + retryDelay(policy, attemptSequence)
        deadline    == startedAt + policy.totalDeadline
        startsAt    == Greatest(notBefore, evaluatedAt)
        completesAt == startsAt + policy.perAttemptTimeout
    IN  IF ~policy.automatic THEN blocked("automatic_retry_disabled")
        ELSE IF attemptSequence + 1 >= policy.maxAttempts
             THEN blocked("attempt_limit_reached")
        ELSE IF ~errorDeclared(policy, code) THEN blocked("error_not_declared")
        ELSE IF ~effectRetrySafe(effect) THEN blocked("effect_not_retry_safe")
        ELSE IF \/ failedAt < startedAt
                \/ evaluatedAt < failedAt
                \/ \E t \in {notBefore, deadline, startsAt, completesAt} : t > MaxSafeInteger
                \/ completesAt > deadline
             THEN blocked("deadline_insufficient")
        ELSE [eligible |-> TRUE, reason |-> "eligible", notBefore |-> notBefore]

==============================================================================
