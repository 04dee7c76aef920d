------------------------------- MODULE MCPolicy -------------------------------
(* Instances of PolicyEvaluation for TLC.                                  *)
EXTENDS PolicyEvaluation

MCLimits == [k \in Kinds |-> CASE k = "metadata" -> 2 [] k = "artifact" -> 1 [] k = "rules" -> 2]
MCRetryable == {"lease_expired", "worker_interrupted"}
===============================================================================
