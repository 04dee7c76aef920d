------------------------------ MODULE ReplayJob ------------------------------
(***************************************************************************)
(* One durable replay job behind the ReplayJobRepository port: the state   *)
(* machine of packages/replay/src/replay-job-state.ts driven by the        *)
(* transactions of the reference adapter,                                  *)
(* packages/replay/src/testing/memory-replay-job-repository.ts.            *)
(*                                                                         *)
(* Every action is one repository transaction.  A worker call carries the  *)
(* fence it was given when it claimed; a worker that was paused, replaced  *)
(* or restarted may still call with an old fence, so the fence of a call   *)
(* ranges over every fence ever issued.  A call the code rejects, or       *)
(* answers from what is already stored, changes nothing.                   *)
(***************************************************************************)
EXTENDS ReplayRetry, ReplayBudget

CONSTANTS
    Workers,             \* worker identities
    Plans,               \* the immutable plans a job may be created for
    LeaseDurations,      \* lease durations workers ask for
    Requests,            \* budget vectors workers ask to reserve
    Usages,              \* usage vectors workers report
    ReservationIds,      \* identifiers workers choose for reservations
    AcknowledgementIds,  \* ... for cancellation acknowledgements
    ObservationIds,      \* ... for execution and usage observations
    MaxTime              \* bound: the clock stops here

VARIABLES
    clock,                \* the repository's clock
    plan,                 \* the job's plan
    status,               \* job.status, "absent" before createJob
    terminal,             \* job.terminal
    lease,                \* job.currentLease
    startedAt,            \* job.startedAt
    lastFencingToken,     \* job.lastFencingToken
    recoveryEpoch,        \* job.recoveryEpoch
    attempts,             \* the attempts, by attemptSequence + 1
    ledger,               \* the budget ledger
    cancellationRequest,  \* when cancellation was requested
    acknowledgements,     \* cancellation acknowledgements
    observations,         \* execution and usage observations, in order
    intents               \* outbox intents stored with the job

jobVars == <<plan, status, terminal, lease, startedAt, lastFencingToken, recoveryEpoch>>
recordVars == <<attempts, ledger, cancellationRequest, acknowledgements, observations, intents>>
vars == <<clock, jobVars, recordVars>>

------------------------------------------------------------------------------
TerminalStatuses == {"succeeded", "failed", "cancelled", "timed_out", "budget_exhausted"}

\* expectedCodeByStatus of the terminal record schema.
TerminalCodes ==
    [succeeded        |-> {"completed"},
     failed           |-> {"contract_rejected", "execution_failed", "retries_exhausted"},
     cancelled        |-> {"cancellation_committed"},
     timed_out        |-> {"deadline_reached"},
     budget_exhausted |-> {"budget_limit_reached"}]

AllCodes == UNION {TerminalCodes[s] : s \in TerminalStatuses}

\* ReplayWorkerMutationFence.  attempt stands for the attempt and lease ids,
\* which a worker draws at random for each claim.
Fence == [worker : Workers, attempt : Nat, token : Nat, epoch : Nat]
Lease == [fence : Fence, expiresAt : Nat]
AttemptStatuses == {"running", "lease_expired"} \cup TerminalStatuses
Attempt == [fence : Fence, startedAt : Nat, endedAt : Nat \cup {None},
            status : AttemptStatuses,
            disposition : {"none", "retry_scheduled", "not_retryable"}]
Terminal == [code : AllCodes, attempt : Nat, committedAt : Nat]
Acknowledgement == [id : AcknowledgementIds, fence : Fence, at : Nat]
ObservationKinds == {"execution", "cancellation", "usage"}
Observation == [id : ObservationIds, kind : ObservationKinds, fence : Fence, at : Nat]
Intent == [eventType : {"created", "cancellation_requested", "terminal"},
           createdAt : Nat, status : {"none"} \cup TerminalStatuses]
ReservationEntry ==
    [entryType : {"reservation"}, reservationId : ReservationIds, fence : Fence,
     at : Nat, committedBefore : Amounts, reserved : Amounts]
ReconciliationEntry ==
    [entryType : {"reconciliation"}, reservationId : ReservationIds, fence : Fence,
     at : Nat, actual : Usage,
     disposition : [Dimensions -> {"disputed", "settled", "overrun"}],
     released : [Dimensions -> Int], overrun : [Dimensions -> Int]]

\* A plan, as the definitions repository serves it: its retry policy, the
\* class of its live side effects and its budget.
ValidPlan(p) ==
    /\ ValidRetryPolicy(p.retryPolicy)
    /\ p.effect \in {"none", "read_only", "not_retryable"}
    /\ p.budget \in Amounts

ASSUME JobAssumption ==
    /\ \A p \in Plans : ValidPlan(p)
    /\ LeaseDurations \subseteq Nat \ {0}
    /\ Requests \subseteq Amounts
    /\ Usages \subseteq Usage
    /\ MaxTime \in Nat
    /\ None \notin Plans
    /\ None \notin Lease
    /\ None \notin Terminal

------------------------------------------------------------------------------
(* State predicates and helpers *)

sameFence(left, right) ==
    /\ left.attempt = right.attempt
    /\ left.worker = right.worker
    /\ left.token = right.token
    /\ left.epoch = right.epoch

\* Mutant: a lease still counts at the instant it expires.
FenceCurrentAtExpiry(fence) ==
    /\ status = "running"
    /\ sameFence(lease.fence, fence)
    /\ clock <= lease.expiresAt

\* assertCurrentFence: the call that every worker mutation makes first.
assertCurrentFence(fence) ==
    /\ status = "running"
    /\ sameFence(lease.fence, fence)
    /\ clock < lease.expiresAt

LeaseExpired == status = "running" /\ clock >= lease.expiresAt

\* Every fence the repository has ever handed out.
IssuedFences == {attempts[i].fence : i \in DOMAIN attempts}

\* currentAttempt: the one the current lease belongs to.
Current == Len(attempts)

\* The outbox intents, keyed by event type; only the terminal one carries
\* job state.
CreatedIntent == [eventType |-> "created", createdAt |-> clock, status |-> "none"]

CancellationIntent ==
    [eventType |-> "cancellation_requested", createdAt |-> clock, status |-> "none"]

TerminalIntent(s) == [eventType |-> "terminal", createdAt |-> clock, status |-> s]

\* Mutant: the attempt's status is left as it was.
EndedButRunning(attempt, at, s, disposition) ==
    [attempt EXCEPT !.endedAt = at, !.disposition = disposition]

\* An attempt that is over.
EndedAttempt(attempt, at, s, disposition) ==
    [attempt EXCEPT !.endedAt = at, !.status = s, !.disposition = disposition]

\* Mutant: the decision is taken for the time the lease expired, not for now.
DecisionAtExpiry ==
    decideReplayRetry(plan.retryPolicy, "lease_expired", plan.effect,
                      Current - 1, startedAt, lease.expiresAt, lease.expiresAt)

\* decideReplayRetry as claimJob asks it about the expired attempt.
RetryDecision ==
    decideReplayRetry(plan.retryPolicy, "lease_expired", plan.effect,
                      Current - 1, startedAt, lease.expiresAt, clock)

\* Mutant: the job takes over the status of its attempt.
AttemptStatusAsReason(reason) ==
    CASE reason = "deadline_insufficient" -> <<"timed_out", "deadline_reached">>
      [] OTHER                            -> <<"lease_expired", "retries_exhausted">>

\* terminalCloseReason: the status and code for a retry that is blocked.
terminalCloseReason(reason) ==
    CASE reason = "deadline_insufficient" -> <<"timed_out", "deadline_reached">>
      [] reason = "effect_not_retry_safe" -> <<"failed", "execution_failed">>
      [] OTHER                            -> <<"failed", "retries_exhausted">>

------------------------------------------------------------------------------
(* Actions *)

Init ==
    /\ clock = 0
    /\ plan = None
    /\ status = "absent"
    /\ terminal = None
    /\ lease = None
    /\ startedAt = None
    /\ lastFencingToken = 0
    /\ recoveryEpoch = 0
    /\ attempts = <<>>
    /\ ledger = <<>>
    /\ cancellationRequest = None
    /\ acknowledgements = {}
    /\ observations = <<>>
    /\ intents = {}

Tick ==
    /\ clock < MaxTime
    /\ clock' = clock + 1
    /\ UNCHANGED <<jobVars, recordVars>>

\* createJob: the queued job and its created intent, in one transaction.
CreateJob(p, epoch) ==
    /\ status = "absent"
    /\ status' = "queued"
    /\ plan' = p
    /\ recoveryEpoch' = epoch
    /\ intents' = intents \cup {CreatedIntent}
    /\ UNCHANGED <<clock, terminal, lease, startedAt, lastFencingToken, attempts,
                   ledger, cancellationRequest, acknowledgements, observations>>

\* claimReplayJob: a new attempt under the next fencing token.
Grant(worker, id, duration, epoch, earlier) ==
    LET fence == [worker |-> worker, attempt |-> id,
                  token |-> lastFencingToken + 1, epoch |-> epoch]
    IN  /\ duration <= plan.retryPolicy.perAttemptTimeout
        /\ Len(earlier) < plan.retryPolicy.maxAttempts
        /\ status' = "running"
        /\ lease' = [fence |-> fence, expiresAt |-> clock + duration]
        /\ lastFencingToken' = lastFencingToken + 1
        /\ recoveryEpoch' = epoch
        /\ startedAt' = IF startedAt = None THEN clock ELSE startedAt
        /\ attempts' = Append(earlier,
                              [fence |-> fence, startedAt |-> clock, endedAt |-> None,
                               status |-> "running", disposition |-> "none"])
        /\ UNCHANGED <<clock, plan, terminal, ledger, cancellationRequest,
                       acknowledgements, observations, intents>>

\* claimJob of a queued job.  The last conjunct bounds the model: an attempt
\* is only begun while the clock can still reach the job's deadline.
ClaimQueued(worker, id, duration, epoch) ==
    /\ status = "queued"
    /\ clock + plan.retryPolicy.totalDeadline <= MaxTime
    /\ Grant(worker, id, duration, epoch, attempts)

\* Mutant: a cancellation request does not stop the retry.
ReclaimCancelled(worker, id, duration, epoch) ==
    /\ LeaseExpired
    /\ OpenReservations(ledger) = {}
    /\ RetryDecision.eligible
    /\ clock >= RetryDecision.notBefore
    /\ Grant(worker, id, duration, epoch,
             [attempts EXCEPT ![Current] =
                EndedAttempt(@, clock, "lease_expired", "retry_scheduled")])

\* claimJob of a job whose lease has expired, when it may be retried: not
\* cancelled, nothing spent that is unaccounted for, retry due.
ReclaimExpired(worker, id, duration, epoch) ==
    /\ LeaseExpired
    /\ cancellationRequest = None
    /\ OpenReservations(ledger) = {}
    /\ RetryDecision.eligible
    /\ clock >= RetryDecision.notBefore
    /\ Grant(worker, id, duration, epoch,
             [attempts EXCEPT ![Current] =
                EndedAttempt(@, clock, "lease_expired", "retry_scheduled")])

\* The terminal record, the cleared lease and the terminal intent, committed
\* with the end of the deciding attempt.
CommitTerminal(s, code, attempt) ==
    /\ status' = s
    /\ terminal' = [code |-> code, attempt |-> Current, committedAt |-> clock]
    /\ lease' = None
    /\ attempts' = [attempts EXCEPT ![Current] = attempt]
    /\ intents' = intents \cup {TerminalIntent(s)}
    /\ UNCHANGED <<clock, plan, startedAt, lastFencingToken, recoveryEpoch, ledger,
                   cancellationRequest, acknowledgements, observations>>

\* closeExpiredReplayAttempt: the attempt ended when its lease did.
TerminalizeExpired(s, code) ==
    CommitTerminal(s, code,
                   EndedAttempt(attempts[Current], lease.expiresAt,
                                "lease_expired", "not_retryable"))

\* claimJob turns away a claim for longer than the attempt timeout before it
\* looks at the job.
SomeLeaseAccepted == \E d \in LeaseDurations : d <= plan.retryPolicy.perAttemptTimeout

\* Mutant: the closing waits for the lost worker's acknowledgement.
CloseAcknowledged ==
    /\ LeaseExpired
    /\ \E a \in acknowledgements : sameFence(a.fence, lease.fence)
    /\ TerminalizeExpired("cancelled", "cancellation_committed")

\* claimJob of a job whose lease has expired, when it may not be retried.
CloseCancelled ==
    /\ LeaseExpired
    /\ cancellationRequest # None
    /\ SomeLeaseAccepted
    /\ TerminalizeExpired("cancelled", "cancellation_committed")

CloseUnreconciled ==
    /\ LeaseExpired
    /\ cancellationRequest = None
    /\ OpenReservations(ledger) # {}
    /\ SomeLeaseAccepted
    /\ TerminalizeExpired("failed", "execution_failed")

CloseBlocked ==
    /\ LeaseExpired
    /\ cancellationRequest = None
    /\ OpenReservations(ledger) = {}
    /\ ~RetryDecision.eligible
    /\ SomeLeaseAccepted
    /\ TerminalizeExpired(terminalCloseReason(RetryDecision.reason)[1],
                          terminalCloseReason(RetryDecision.reason)[2])

\* heartbeatJob: as often as the holder likes, beyond every deadline of the
\* plan too; only the length of one extension is limited.
Heartbeat(fence, duration) ==
    /\ assertCurrentFence(fence)
    /\ duration <= plan.retryPolicy.perAttemptTimeout
    /\ lease' = [lease EXCEPT !.expiresAt = clock + duration]
    /\ UNCHANGED <<clock, plan, status, terminal, startedAt, lastFencingToken,
                   recoveryEpoch, recordVars>>

\* Mutant: the terminal intent is forgotten.
CancelQueuedQuietly ==
    /\ status = "queued"
    /\ cancellationRequest = None
    /\ cancellationRequest' = clock
    /\ status' = "cancelled"
    /\ terminal' = [code |-> "cancellation_committed", attempt |-> 0, committedAt |-> clock]
    /\ intents' = intents \cup {CancellationIntent}
    /\ UNCHANGED <<clock, plan, lease, startedAt, lastFencingToken, recoveryEpoch, attempts,
                   ledger, acknowledgements, observations>>

\* requestCancellation of a queued job: request and terminal state at once.
CancelQueued ==
    /\ status = "queued"
    /\ cancellationRequest = None
    /\ cancellationRequest' = clock
    /\ status' = "cancelled"
    /\ terminal' = [code |-> "cancellation_committed", attempt |-> 0, committedAt |-> clock]
    /\ intents' = intents \cup {CancellationIntent, TerminalIntent("cancelled")}
    /\ UNCHANGED <<clock, plan, lease, startedAt, lastFencingToken, recoveryEpoch, attempts,
                   ledger, acknowledgements, observations>>

\* Mutant: a request is taken in any state the job can be in.
CancelAnyTime ==
    /\ status \notin {"absent", "queued"}
    /\ cancellationRequest = None
    /\ cancellationRequest' = clock
    /\ intents' = intents \cup {CancellationIntent}
    /\ UNCHANGED <<clock, jobVars, attempts, ledger, acknowledgements, observations>>

\* Mutant: a second request replaces the first.
CancelAgain ==
    /\ status = "running"
    /\ cancellationRequest' = clock
    /\ intents' = intents \cup {CancellationIntent}
    /\ UNCHANGED <<clock, jobVars, attempts, ledger, acknowledgements, observations>>

\* requestCancellation of a running job: only the request.
CancelRunning ==
    /\ status = "running"
    /\ cancellationRequest = None
    /\ cancellationRequest' = clock
    /\ intents' = intents \cup {CancellationIntent}
    /\ UNCHANGED <<clock, jobVars, attempts, ledger, acknowledgements, observations>>

\* acknowledgeCancellation.
Acknowledge(fence, id) ==
    /\ cancellationRequest # None
    /\ assertCurrentFence(fence)
    /\ clock >= cancellationRequest
    /\ \A a \in acknowledgements : a.id # id
    /\ acknowledgements' = acknowledgements \cup {[id |-> id, fence |-> fence, at |-> clock]}
    /\ UNCHANGED <<clock, jobVars, attempts, ledger, cancellationRequest, observations, intents>>

\* reserveBudget.
Reserve(fence, id, requested) ==
    /\ assertCurrentFence(fence)
    /\ \A e \in Reservations(ledger) : e.reservationId # id
    /\ ReservationFits(plan.budget, Committed(ledger), requested)
    /\ ledger' = Append(ledger,
                        reserveReplayBudget(id, fence, clock, Committed(ledger), requested))
    /\ UNCHANGED <<clock, jobVars, attempts, cancellationRequest, acknowledgements,
                   observations, intents>>

\* reconcileBudget: only the fence that reserved, and only once.
Reconcile(fence, reservation, usage) ==
    LET entry == reconcileReplayBudget(reservation, clock, usage)
    IN  /\ assertCurrentFence(fence)
        /\ sameFence(reservation.fence, fence)
        /\ reservation.reservationId \in OpenReservations(ledger)
        /\ Representable(ApplyEntry(Committed(ledger), entry))
        /\ ledger' = Append(ledger, entry)
        /\ UNCHANGED <<clock, jobVars, attempts, cancellationRequest, acknowledgements,
                       observations, intents>>

\* appendExecutionObservation and appendUsageObservation.
AppendObservation(fence, id, kind) ==
    /\ assertCurrentFence(fence)
    /\ kind = "cancellation" => cancellationRequest # None
    /\ \A i \in DOMAIN observations : observations[i].id # id
    /\ observations' = Append(observations,
                              [id |-> id, kind |-> kind, fence |-> fence, at |-> clock])
    /\ UNCHANGED <<clock, jobVars, attempts, ledger, cancellationRequest,
                   acknowledgements, intents>>

\* Mutant: only the completing attempt's own overruns count.
OwnAccountingPermits(s) ==
    /\ OpenReservations(ledger) = {}
    /\ {e \in Overruns(ledger) : sameFence(e.fence, lease.fence)} # {}
         /\ cancellationRequest = None => s = "budget_exhausted"

\* What completeJob requires of the ledger: nothing left open, and an overrun
\* allows no outcome but budget_exhausted unless the job is being cancelled.
AccountingPermits(s) ==
    /\ OpenReservations(ledger) = {}
    /\ Overruns(ledger) # {} /\ cancellationRequest = None => s = "budget_exhausted"

\* Mutant: any worker's acknowledgement will do, or none.
CancelledSuffices(fence, s) == cancellationRequest # None => s = "cancelled"

\* What completeJob requires once cancellation has been requested.
CancellationPermits(fence, s) ==
    cancellationRequest # None =>
        /\ \E a \in acknowledgements : sameFence(a.fence, fence)
        /\ s = "cancelled"

\* completeJob: terminal state, ended attempt and terminal intent at once.
CompleteJob(fence, s, code) ==
    /\ assertCurrentFence(fence)
    /\ AccountingPermits(s)
    /\ CancellationPermits(fence, s)
    /\ CommitTerminal(s, code, EndedAttempt(attempts[Current], clock, s, "not_retryable"))

------------------------------------------------------------------------------
(* What anyone holding a fence may call *)
WorkerCall(fence) ==
    \/ \E d \in LeaseDurations : Heartbeat(fence, d)
    \/ \E id \in AcknowledgementIds : Acknowledge(fence, id)
    \/ \E id \in ReservationIds, r \in Requests : Reserve(fence, id, r)
    \/ \E r \in Reservations(ledger), u \in Usages : Reconcile(fence, r, u)
    \/ \E id \in ObservationIds, k \in ObservationKinds : AppendObservation(fence, id, k)
    \/ \E s \in TerminalStatuses : \E c \in TerminalCodes[s] : CompleteJob(fence, s, c)

\* claimJob, by whichever of its outcomes applies.
Claim(worker, id, epoch) ==
    \/ \E d \in LeaseDurations : ClaimQueued(worker, id, d, epoch)
    \/ \E d \in LeaseDurations : ReclaimExpired(worker, id, d, epoch)
    \/ CloseCancelled
    \/ CloseUnreconciled
    \/ CloseBlocked

Next ==
    \/ Tick
    \/ \E p \in Plans : CreateJob(p, 0)
    \/ \E w \in Workers : Claim(w, Current + 1, recoveryEpoch)
    \/ CancelQueued
    \/ CancelRunning
    \/ \E f \in IssuedFences : WorkerCall(f)

Spec == Init /\ [][Next]_vars

\* Time passes and the dispatcher keeps redelivering the job, so that some
\* worker keeps claiming it.  That the worker that holds the lease does not
\* keep it for ever is no part of this; StartedJobSettles assumes it.
FairSpec == Spec /\ WF_vars(Tick) /\ WF_vars(\E w \in Workers : Claim(w, Current + 1, recoveryEpoch))

------------------------------------------------------------------------------
(* Properties *)

\* The shape of the state.
TypeOK ==
    /\ clock \in Nat
    /\ plan \in Plans \cup {None}
    /\ status \in {"absent", "queued", "running"} \cup TerminalStatuses
    /\ terminal \in Terminal \cup {None}
    /\ lease \in Lease \cup {None}
    /\ startedAt \in Nat \cup {None}
    /\ lastFencingToken \in Nat
    /\ recoveryEpoch \in Nat
    /\ attempts \in Seq(Attempt)
    /\ ledger \in Seq(ReservationEntry \cup ReconciliationEntry)
    /\ cancellationRequest \in Nat \cup {None}
    /\ acknowledgements \subseteq Acknowledgement
    /\ observations \in Seq(Observation)
    /\ intents \subseteq Intent

\* Everything a worker has recorded, with the fence it was recorded under.
WorkerRecords == Entries(ledger) \cup acknowledgements \cup {observations[i] : i \in DOMAIN observations}

\* Fencing: whatever a worker recorded (ledger entry, acknowledgement,
\* observation), it recorded while the attempt its fence names was the
\* current one: not before that attempt began, and before it ended, if it
\* ended by losing its lease.  A paused worker leaves no trace in a
\* successor's time.
RecordsWithinAttempt ==
    \A r \in WorkerRecords : \E i \in DOMAIN attempts :
        /\ attempts[i].fence = r.fence
        /\ attempts[i].startedAt <= r.at
        /\ attempts[i].endedAt # None => r.at <= attempts[i].endedAt
        /\ attempts[i].status = "lease_expired" => r.at < attempts[i].endedAt

\* Ownership is serial: tokens are issued in order, an attempt starts when
\* its predecessor has ended, every attempt but the last ended by losing its
\* lease with a retry scheduled, and the last one is running exactly when
\* the job is.
AttemptsAreSerial ==
    /\ \A i \in DOMAIN attempts : attempts[i].fence.token = i
    /\ \A i \in 1..(Len(attempts) - 1) :
         /\ attempts[i].status = "lease_expired"
         /\ attempts[i].disposition = "retry_scheduled"
         /\ attempts[i].endedAt \in attempts[i].startedAt..attempts[i + 1].startedAt
    /\ status = "running" <=> Len(attempts) > 0 /\ attempts[Len(attempts)].status = "running"
    /\ status = "running" => lease.fence = attempts[Len(attempts)].fence

\* A retry never repeats what may not be repeated: after the first attempt,
\* the plan's effects are safe to repeat, the spending of every earlier
\* attempt is accounted for, no cancellation was pending when the attempt
\* began, and the attempt had room for its full timeout before the job's
\* deadline, however late it was claimed.
RetriesAreSafe ==
    \A i \in 2..Len(attempts) :
        /\ i <= plan.retryPolicy.maxAttempts
        /\ effectRetrySafe(plan.effect)
        /\ \A e \in Reservations(ledger) :
              e.fence.token < i => e.reservationId \notin OpenReservations(ledger)
        /\ cancellationRequest # None => cancellationRequest >= attempts[i].startedAt
        /\ attempts[i].startedAt + plan.retryPolicy.perAttemptTimeout
              <= startedAt + plan.retryPolicy.totalDeadline

\* The terminal record and the outbox agree: a terminal intent is stored
\* exactly when the job is terminal, for the same outcome and time, and a
\* cancellation intent exactly when a request is.
IntentsMatchJob ==
    /\ {i \in intents : i.eventType = "terminal"} =
         IF status \in TerminalStatuses
         THEN {[eventType |-> "terminal", createdAt |-> terminal.committedAt, status |-> status]}
         ELSE {}
    /\ {i \in intents : i.eventType = "cancellation_requested"} =
         IF cancellationRequest = None THEN {}
         ELSE {[eventType |-> "cancellation_requested",
                createdAt |-> cancellationRequest, status |-> "none"]}

\* A requested cancellation decides the outcome: a job that ends with a
\* request on record ends cancelled, and if a worker committed that end, the
\* same worker had acknowledged the request under the same fence.
CancellationHonoured ==
    status \in TerminalStatuses /\ cancellationRequest # None =>
        /\ status = "cancelled"
        /\ terminal.committedAt >= cancellationRequest
        /\ terminal.attempt # 0 /\ attempts[terminal.attempt].status = "cancelled" =>
             \E a \in acknowledgements : /\ a.fence = attempts[terminal.attempt].fence
                                          /\ a.at >= cancellationRequest

\* Cancellation is never invented: a job ends cancelled only if someone asked
\* for it, and the outbox carries the request.
CancelledOnlyOnRequest ==
    status = "cancelled" =>
        /\ cancellationRequest # None
        /\ \E i \in intents : i.eventType = "cancellation_requested"

\* A job that succeeded has nothing against it in any attempt: no overrun, no
\* unreconciled reservation, no cancellation request.
SuccessIsClean ==
    status = "succeeded" =>
        /\ Overruns(ledger) = {}
        /\ OpenReservations(ledger) = {}
        /\ cancellationRequest = None

\* The amount a reservation holds: what was reserved until it is settled or
\* overrun, then what was really used.
Held(reservation, d) ==
    LET settled == {e \in Reconciliations(ledger) :
                      e.reservationId = reservation.reservationId /\ e.actual[d] # None}
    IN  IF settled = {} THEN reservation.reserved[d]
        ELSE (CHOOSE e \in settled : TRUE).actual[d]

\* The ledger adds up: what the fold over the ledger commits in a dimension
\* is the sum, over the distinct reservations, of what each one holds; it
\* stays representable; and it exceeds the plan's limit by no more than the
\* overruns reported.
BudgetIsConserved ==
    \A d \in Dimensions :
        LET held    == MapThenSumSet(LAMBDA r : Held(r, d), Reservations(ledger))
            overrun == MapThenSumSet(LAMBDA e : e.overrun[d], Reconciliations(ledger))
        IN  /\ Committed(ledger)[d] = held
            /\ Committed(ledger)[d] <= MaxAccounting
            /\ plan # None => Committed(ledger)[d] <= plan.budget[d] + overrun

\* A stored ledger can always be read back: summarizeReplayBudgetLedger, which
\* every later accounting call and completion runs from the first entry on,
\* meets no conflict, no duplicate and no overflow in it.  A ledger it
\* rejected would leave the job unable to complete.
LedgerReadable ==
    \A i \in DOMAIN ledger :
        LET entry   == ledger[i]
            earlier == SubSeq(ledger, 1, i - 1)
            before  == Committed(earlier)
        IN  /\ ApplyEntry(before, entry) \in Amounts
            /\ entry.entryType = "reservation" =>
                 /\ entry.committedBefore = before
                 /\ \A e \in Reservations(earlier) : e.reservationId # entry.reservationId
            /\ entry.entryType = "reconciliation" =>
                 /\ entry.reservationId \in OpenReservations(earlier)
                 /\ \E e \in Reservations(earlier) : /\ e.reservationId = entry.reservationId
                                                     /\ sameFence(e.fence, entry.fence)
                 /\ \A d \in Dimensions : entry.released[d] <= before[d]

\* A terminal job never changes again: not its status or record, not its
\* attempts, ledger, acknowledgements, observations or intents, whoever
\* still holds a fence.
TerminalIsFinal ==
    [][(status \in TerminalStatuses => UNCHANGED <<jobVars, recordVars>>)]_vars

\* The evidence only grows: nothing stored is ever changed or removed.
HistoryOnlyGrows ==
    [][/\ IsPrefix(ledger, ledger')
       /\ IsPrefix(observations, observations')
       /\ acknowledgements \subseteq acknowledgements'
       /\ intents \subseteq intents'
       /\ cancellationRequest # None => cancellationRequest' = cancellationRequest
       /\ \A i \in DOMAIN attempts :
            attempts[i].status # "running" => attempts'[i] = attempts[i]]_vars

\* No holder keeps its lease alive for ever.  Nothing in the repository
\* sees to that: a heartbeat is accepted past the attempt's timeout and the
\* job's deadline.  It is the worker that stops, when it crashes or when its
\* supervisor has ended the target.  The clock of the model ends, and a lease
\* extended past its end stands for one that is always extended in time.
LeasesRunOut == []<>~(status = "running" /\ clock < lease.expiresAt)

\* If no holder heartbeats for ever, a job that was started is settled in the
\* end, whatever else its workers do: crash, stop answering, leave a
\* reservation open, or never acknowledge a cancellation.
StartedJobSettles == LeasesRunOut => (status = "running" ~> status \in TerminalStatuses)

\* The job implements the lifecycle its port promises.
Lifecycle ==
    INSTANCE ReplayJobLifecycle WITH
        phase     <- IF status \in TerminalStatuses THEN "closed" ELSE status,
        owner     <- lastFencingToken,
        cancelled <- cancellationRequest # None,
        outcome   <- IF status \in TerminalStatuses THEN status ELSE "none"

ImplementsLifecycle == Lifecycle!LifecycleSpec

==============================================================================
