---------------------------- MODULE MCReplayWorker ----------------------------
(* Instances of ReplayWorker for TLC: one plan that may be retried once.   *)
EXTENDS ReplayWorker

Limit(n) == [d \in Dimensions |-> n]

MCPlans ==
    {[retryPolicy |-> [automatic |-> TRUE, maxAttempts |-> 2, perAttemptTimeout |-> 2,
                       totalDeadline |-> 4, backoff |-> [kind |-> "none"],
                       retryableErrors |-> {"target_process_interrupted"}],
      effect |-> "read_only", budget |-> Limit(2)]}

MCUsages == {Limit(1), Limit(3)}
MCObservationIds == (1..2) \X {"execution", "cancellation", "usage"}
===============================================================================
