-------------------------- MODULE PolicyEvaluationJob -------------------------
(***************************************************************************)
(* The transitions of one policy evaluation job, the functions of          *)
(* packages/core/src/policy/ that the stores apply to a job's whole graph  *)
(* (its job row, its attempts, its usage, its open acquisition credit).    *)
(* A transition is a guard and the graph it returns; a guard that is FALSE *)
(* is a thrown PolicyEvaluationSchedulerTransitionError.                   *)
(*                                                                         *)
(* Times are ticks of the database clock.  Of the usage counters three     *)
(* stand for all: metadata (reads, records, references and their bytes,    *)
(* which one credit covers), artifact bytes, and rule evaluations.         *)
(* Counters other than the history are far from their limits and unbounded *)
(* here; identifiers that a transition only stores are left out.           *)
(***************************************************************************)
EXTENDS Integers, Sequences

CONSTANTS
    Workers,            \* principals that may claim the job
    Deadline,           \* totalDeadlineMilliseconds, counted from creation
    AttemptTimeout,     \* perAttemptTimeoutMilliseconds
    LeaseDuration,      \* leaseDurationMilliseconds
    HeartbeatInterval,  \* heartbeatIntervalMilliseconds
    Backoff,            \* retryBackoffMilliseconds
    MaxAttempts,        \* maxAttempts
    RetryableErrors,    \* retryableErrors
    Limits,             \* the frozen limit of each kind of usage
    RuleCount,          \* rules of the sealed policy
    MaxHistory,         \* MAX_POLICY_EVALUATION_JOB_HISTORY_ENTRIES
    None                \* null

Kinds == {"metadata", "artifact", "rules"}
Reasons == {"lease_expired", "source_revision_changed",
            "source_temporarily_unavailable", "worker_interrupted"}
Active == {"acquiring", "sealed", "running"}
Terminals == {"completed", "cancelled", "failed", "timed_out", "budget_exhausted"}
Statuses == {"queued", "retry_ready"} \cup Active \cup Terminals
Closures == {"interrupted"} \cup (Terminals \ {"failed"})

\* PolicyEvaluationExecutionLimitsSchema.
ASSUME LimitsAssumption ==
    /\ {Deadline, AttemptTimeout, LeaseDuration, HeartbeatInterval,
        MaxAttempts, RuleCount} \subseteq Nat \ {0}
    /\ MaxHistory \in Nat \ {0, 1}
    /\ Backoff \in Nat
    /\ Limits \in [Kinds -> Nat]
    /\ HeartbeatInterval * 3 <= LeaseDuration
    /\ LeaseDuration <= AttemptTimeout
    /\ AttemptTimeout <= Deadline
    /\ RetryableErrors \subseteq Reasons
    /\ IF MaxAttempts = 1 THEN RetryableErrors = {} /\ Backoff = 0
                          ELSE RetryableErrors # {} /\ Backoff < Deadline

\* The records of the graph.  A fence names the worker and its lease; a
\* snapshot and a result are named by the attempt that published them.
Fences == [worker : Workers, epoch : Nat, token : Nat]
Usage == [Kinds -> Nat]
Leases == [fence : Fences, heartbeatAt : Nat, attemptDeadline : Nat, expiresAt : Nat]
Allowances == [fence : Fences, credit : Nat]
Snapshots == 1..MaxAttempts
Attempts ==
    [fence : Fences, startedAt : Nat, deadline : Nat, snapshot : Snapshots \cup {None},
     usageAtStart : Usage, usageAtClose : Usage \cup {None}, closure : Closures \cup {None}]
Graphs ==
    [status : Statuses, version : Nat, epoch : Nat, token : Nat,
     lease : Leases \cup {None}, snapshot : Snapshots \cup {None},
     result : Snapshots \cup {None}, retryAt : Nat \cup {None}, cancelled : BOOLEAN,
     attempts : Seq(Attempts), usage : Usage, allowance : Allowances \cup {None}]

ASSUME NoneAssumption ==
    /\ None \notin Nat /\ None \notin Closures /\ None \notin Fences
    /\ None \notin Leases /\ None \notin Allowances /\ None \notin Usage

NoUsage == [k \in Kinds |-> 0]

\* createJob: the graph stored with the request.
Created ==
    [status |-> "queued", version |-> 1, epoch |-> 0, token |-> 0,
     lease |-> None, snapshot |-> None, result |-> None, retryAt |-> None,
     cancelled |-> FALSE, attempts |-> <<>>, usage |-> NoUsage, allowance |-> None]

Terminal(g) == g.status \in Terminals
Latest(g) == g.attempts[Len(g.attempts)]
Open(g) == g.attempts # <<>> /\ Latest(g).closure = None

\* addPolicyEvaluationMillisecondsUpTo.
UpTo(t, duration, ceiling) == IF t + duration >= ceiling THEN ceiling ELSE t + duration

\* The work that may still be done under the open credit.
Credit(g) == IF g.allowance = None THEN 0 ELSE g.allowance.credit

-----------------------------------------------------------------------------
(* What several transitions do.                                            *)

\* Mutant: an attempt that ends early gives its credit back.
Refunded(g) == [g EXCEPT !.allowance = None]

\* chargeUncertainPolicyEvaluationAcquisition: unknown work costs all of it.
Charged(g) == [g EXCEPT !.usage["metadata"] = @ + Credit(g), !.allowance = None]

\* The last attempt, if it is open, gets its closure and its usage receipt.
Closed(g, closure) ==
    IF Open(g)
    THEN [g EXCEPT !.attempts[Len(g.attempts)].closure = closure,
                   !.attempts[Len(g.attempts)].usageAtClose = g.usage]
    ELSE g

\* The graph leaves the hands of a worker in the given status.
Released(g, status, retryAt) ==
    [g EXCEPT !.status = status, !.lease = None, !.retryAt = retryAt,
              !.version = @ + 1]

\* Mutant: a job at its last attempt is put back like any other.
RetriedForEver(g, t, reason) ==
    IF reason \notin RetryableErrors THEN Released(g, "failed", None)
    ELSE Released(g, "retry_ready", UpTo(t, Backoff, Deadline))

\* The retry decision shared by interruption, reclaim and recovery.
Retried(g, t, reason) ==
    LET retryAt == UpTo(t, Backoff, Deadline) IN
    IF \/ retryAt >= Deadline
       \/ Len(g.attempts) >= MaxAttempts
       \/ reason \notin RetryableErrors
    THEN Released(g, "failed", None)
    ELSE Released(g, "retry_ready", retryAt)

\* exhaustPolicyEvaluationJobHistory.
HistoryExhausted(g) ==
    Released(Closed(Charged(g), "budget_exhausted"), "budget_exhausted", None)

\* Mutant: the last history slot goes to whatever comes next.
CommittedAnyway(g, next) == next

\* mutate: the last history slot is kept for a terminal receipt.
Committed(g, next) ==
    IF ~Terminal(next) /\ next.version = MaxHistory THEN HistoryExhausted(g) ELSE next

-----------------------------------------------------------------------------
(* The fence.                                                              *)

HoldsLease(g, epoch, fence) ==
    /\ g.status \in Active
    /\ g.lease # None
    /\ epoch = g.epoch
    /\ g.lease.fence = fence

\* requirePolicyEvaluationLiveFence.
LiveFence(g, t, epoch, fence) ==
    /\ HoldsLease(g, epoch, fence)
    /\ t < g.lease.expiresAt
    /\ t < g.lease.attemptDeadline
    /\ t < Deadline

-----------------------------------------------------------------------------
(* The transitions.                                                        *)

\* claimPolicyEvaluationJob.
MayClaim(g, t, epoch) ==
    /\ epoch = g.epoch
    /\ g.status \in {"queued", "retry_ready"}
    /\ t < Deadline
    /\ g.retryAt # None => t >= g.retryAt
    /\ Len(g.attempts) < MaxAttempts

\* Mutant: every attempt captures its own sources.
ClaimedAfresh(g, t, w) ==
    LET fence == [worker |-> w, epoch |-> g.epoch, token |-> g.token + 1]
        attemptDeadline == UpTo(t, AttemptTimeout, Deadline)
    IN  [g EXCEPT
            !.attempts = Append(@, [fence |-> fence, startedAt |-> t, deadline |-> attemptDeadline,
                                    snapshot |-> None, usageAtStart |-> g.usage,
                                    usageAtClose |-> None, closure |-> None]),
            !.lease = [fence |-> fence, heartbeatAt |-> t, attemptDeadline |-> attemptDeadline,
                       expiresAt |-> UpTo(t, LeaseDuration, attemptDeadline)],
            !.snapshot = None,
            !.status = "acquiring",
            !.token = fence.token, !.version = @ + 1, !.retryAt = None]

Claimed(g, t, w) ==
    LET fence == [worker |-> w, epoch |-> g.epoch, token |-> g.token + 1]
        attemptDeadline == UpTo(t, AttemptTimeout, Deadline)
    IN  [g EXCEPT
            !.attempts = Append(@, [fence |-> fence, startedAt |-> t, deadline |-> attemptDeadline,
                                    snapshot |-> g.snapshot, usageAtStart |-> g.usage,
                                    usageAtClose |-> None, closure |-> None]),
            !.lease = [fence |-> fence, heartbeatAt |-> t, attemptDeadline |-> attemptDeadline,
                       expiresAt |-> UpTo(t, LeaseDuration, attemptDeadline)],
            !.status = IF g.snapshot = None THEN "acquiring" ELSE "running",
            !.token = fence.token, !.version = @ + 1, !.retryAt = None]

\* heartbeatPolicyEvaluationJob.
MayHeartbeat(g, t, epoch, fence) ==
    /\ LiveFence(g, t, epoch, fence)
    /\ t >= g.lease.heartbeatAt + HeartbeatInterval

Heartbeaten(g, t) ==
    [g EXCEPT !.lease.heartbeatAt = t,
              !.lease.expiresAt = UpTo(t, LeaseDuration, g.lease.attemptDeadline),
              !.version = @ + 1]

\* reservePolicyEvaluationUsage, for a delta of one kind.
MayReserve(g, t, epoch, fence, kind, amount) ==
    /\ LiveFence(g, t, epoch, fence)
    /\ amount > 0
    /\ kind = "metadata" => g.allowance = None
    /\ kind = "rules" => g.status = "running"
    /\ g.usage[kind] + amount <= Limits[kind]

Reserved(g, kind, amount) == [g EXCEPT !.usage[kind] = @ + amount, !.version = @ + 1]

\* reservePolicyEvaluationAcquisition: everything left becomes the credit.
MayReserveAcquisition(g, t, epoch, fence) ==
    /\ LiveFence(g, t, epoch, fence)
    /\ g.status = "acquiring"
    /\ g.allowance = None
    /\ Limits["metadata"] - g.usage["metadata"] >= 1

AcquisitionReserved(g, fence) ==
    [g EXCEPT !.allowance = [fence |-> fence, credit |-> Limits["metadata"] - g.usage["metadata"]],
              !.version = @ + 1]

\* settlePolicyEvaluationAcquisition; the usage None is unknown work.
MaySettle(g, t, epoch, fence, usage) ==
    /\ LiveFence(g, t, epoch, fence)
    /\ g.allowance # None
    /\ g.allowance.fence = fence
    /\ usage # None => usage <= g.allowance.credit

Settled(g, usage) ==
    IF usage = None
    THEN Released(Closed(Charged(g), "budget_exhausted"), "budget_exhausted", None)
    ELSE [g EXCEPT !.usage["metadata"] = @ + usage, !.allowance = None, !.version = @ + 1]

\* sealPolicyEvaluationJob and, in publishSnapshot, its history headroom.
MaySeal(g, t, epoch, fence) ==
    /\ LiveFence(g, t, epoch, fence)
    /\ g.status = "acquiring"
    /\ g.allowance = None
    /\ g.version < MaxHistory - 1

\* The snapshot is named by the attempt that published it.
Sealed(g) ==
    [g EXCEPT !.attempts[Len(g.attempts)].snapshot = Len(g.attempts),
              !.snapshot = Len(g.attempts), !.status = "sealed", !.version = @ + 1]

\* startPolicyEvaluationComputation.
MayStart(g, t, epoch, fence) == LiveFence(g, t, epoch, fence) /\ g.status = "sealed"

Started(g) == [g EXCEPT !.status = "running", !.version = @ + 1]

\* completePolicyEvaluationJob and, in publishResult, its history headroom.
MayComplete(g, t, epoch, fence) ==
    /\ LiveFence(g, t, epoch, fence)
    /\ g.status = "running"
    /\ g.usage["rules"] - Latest(g).usageAtStart["rules"] >= RuleCount
    /\ g.version < MaxHistory - 1

Completed(g) ==
    [Released(Closed(g, "completed"), "completed", None) EXCEPT !.result = g.snapshot]

\* interruptPolicyEvaluationJob: also after the attempt's work is over, but
\* not after its lease.
MayInterrupt(g, t, epoch, fence, reason) ==
    /\ HoldsLease(g, epoch, fence)
    /\ t < g.lease.expiresAt
    /\ reason # "lease_expired"
    /\ g.snapshot # None => reason # "source_revision_changed"

Interrupted(g, t, reason) ==
    LET closed == Closed(Charged(g), "interrupted") IN
    IF g.allowance # None THEN Released(closed, "budget_exhausted", None)
                          ELSE Retried(closed, t, reason)

\* Mutant: a finished job is cancelled as well.
MayCancelFinished(g) == ~g.cancelled

\* cancelPolicyEvaluationJob; a repeated request changes nothing.
MayCancel(g) == ~g.cancelled /\ ~Terminal(g)

Cancelled(g) ==
    [Released(Closed(Charged(g), "cancelled"), "cancelled", None) EXCEPT !.cancelled = TRUE]

\* Mutant: only a lost lease is reclaimed.
MayReclaimLeased(g, t, epoch) ==
    /\ epoch = g.epoch
    /\ ~Terminal(g)
    /\ g.lease # None /\ t >= g.lease.expiresAt

\* reclaimPolicyEvaluationJob.
MayReclaim(g, t, epoch) ==
    /\ epoch = g.epoch
    /\ ~Terminal(g)
    /\ t >= Deadline \/ (g.lease # None /\ t >= g.lease.expiresAt)

Reclaimed(g, t) ==
    LET closed == Closed(Charged(g), IF t >= Deadline THEN "timed_out" ELSE "interrupted") IN
    IF t >= Deadline THEN Released(closed, "timed_out", None)
    ELSE IF g.allowance # None THEN Released(closed, "budget_exhausted", None)
    ELSE Retried(closed, t, "lease_expired")

\* recoverPolicyEvaluationJob, to a later epoch; terminal jobs keep theirs.
MayRecover(g, epoch) == ~Terminal(g) /\ epoch > g.epoch /\ g.version < MaxHistory

Recovered(g, t, epoch) ==
    LET late == t >= Deadline
        last == g.version = MaxHistory - 1
        closed == [Closed(Charged(g), IF late THEN "timed_out"
                                      ELSE IF last THEN "budget_exhausted" ELSE "interrupted")
                   EXCEPT !.epoch = epoch]
    IN  IF late THEN Released(closed, "timed_out", None)
        ELSE IF last \/ g.allowance # None THEN Released(closed, "budget_exhausted", None)
        ELSE IF g.lease # None THEN Retried(closed, t, "worker_interrupted")
        ELSE [closed EXCEPT !.version = @ + 1,
                            !.retryAt = IF g.retryAt # None /\ g.retryAt < t THEN t ELSE @]

\* buildPolicyEvaluationJobOutboxIntents, for a step from previous to next.
Intents(previous, next) ==
    (IF next.cancelled /\ ~previous.cancelled
     THEN <<[event |-> "cancellation-requested"]>> ELSE <<>>)
    \o
    (IF Terminal(next) /\ ~Terminal(previous)
     THEN <<[event |-> "terminal", status |-> next.status, version |-> next.version,
             result |-> next.result]>>
     ELSE <<>>)
===============================================================================
