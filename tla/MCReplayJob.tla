----------------------------- MODULE MCReplayJob -----------------------------
(* Small instances of ReplayJob for TLC. *)
EXTENDS ReplayJob, TLC

CONSTANTS w1, w2, d1, d2

\* No retry at all; a retry after a backoff of one; retries refused because
\* the plan's live effects may not be repeated.
NoRetry ==
    [automatic |-> FALSE, maxAttempts |-> 1, perAttemptTimeout |-> 2, totalDeadline |-> 2,
     backoff |-> [kind |-> "none"], retryableErrors |-> {}]

RetryOnce(backoff, deadline) ==
    [automatic |-> TRUE, maxAttempts |-> 2, perAttemptTimeout |-> 2, totalDeadline |-> deadline,
     backoff |-> backoff, retryableErrors |-> {"target_process_interrupted"}]

Fixed(delay) == [kind |-> "fixed", delay |-> delay]

Limit(n) == [d \in Dimensions |-> n]

MCPlans ==
    {[retryPolicy |-> NoRetry, effect |-> "none", budget |-> Limit(2)],
     [retryPolicy |-> RetryOnce(Fixed(1), 4), effect |-> "read_only", budget |-> Limit(2)],
     [retryPolicy |-> RetryOnce(Fixed(1), 4), effect |-> "not_retryable", budget |-> Limit(2)]}

MCWorkers == {w1, w2}

MCSymmetry == Permutations(MCWorkers)

\* The one plan of the budget and the liveness runs.
MCRetryPlan ==
    {[retryPolicy |-> RetryOnce(Fixed(1), 4), effect |-> "read_only", budget |-> Limit(2)]}

OneEach == {Limit(1)}

MCRequests == {Limit(1), Limit(2)}

MCUsages == {Limit(0), Limit(1), Limit(3), [d \in Dimensions |-> None]}

==============================================================================
