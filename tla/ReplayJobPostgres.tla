-------------------------- MODULE ReplayJobPostgres ---------------------------
(***************************************************************************)
(* The same job under the PostgreSQL authority: the stored functions of    *)
(* packages/postgres/migrations as migration 0035 leaves them, the restore *)
(* of services/recovery, and the worker adapter of                         *)
(* packages/postgres/src/postgres-replay-job-worker-repository.ts.         *)
(*                                                                         *)
(* Three things differ from the reference adapter.  The installation has a *)
(* recovery epoch which every worker call must match and every claim       *)
(* stamps.  A completion cannot be "cancelled" without a request.  And the *)
(* database can be put back to an earlier state by a restore, while the    *)
(* workers of the lost timeline keep their fences.                         *)
(***************************************************************************)
EXTENDS ReplayJob

CONSTANTS
    MaxClaims,    \* bound: claims made over all timelines
    MaxRestores   \* bound: restores performed

ASSUME PostgresAssumption == MaxClaims \in Nat /\ MaxRestores \in Nat

VARIABLES
    epoch,     \* proofstack_recovery_state.recovery_epoch
    backup,    \* the database state in the last backup, None before it
    issued,    \* every fence ever handed to a worker, in any timeline
    lost,      \* the fences handed out before the last restore
    restores   \* number of restores so far

recoveryVars == <<backup, issued, lost, restores>>
pgVars == <<vars, epoch, recoveryVars>>

\* The rows a logical backup holds.
DatabaseState ==
    [plan |-> plan, status |-> status, terminal |-> terminal, lease |-> lease,
     startedAt |-> startedAt, lastFencingToken |-> lastFencingToken,
     recoveryEpoch |-> recoveryEpoch, attempts |-> attempts, ledger |-> ledger,
     cancellationRequest |-> cancellationRequest, acknowledgements |-> acknowledgements,
     observations |-> observations, intents |-> intents, epoch |-> epoch]

PgInit ==
    /\ Init
    /\ epoch = 0
    /\ backup = None
    /\ issued = {}
    /\ lost = {}
    /\ restores = 0

------------------------------------------------------------------------------
\* proofstack_assert_current_replay_recovery_epoch, made before every worker
\* mutation.
AssertCurrentEpoch(fence) == fence.epoch = epoch

PgTick == Tick /\ UNCHANGED <<epoch, recoveryVars>>

\* proofstack_create_replay_job: the row is stamped with the current epoch.
PgCreateJob(p) == CreateJob(p, epoch) /\ UNCHANGED <<epoch, recoveryVars>>

\* Mutant: a claim keeps the epoch the job row was restored with.
RowEpoch == recoveryEpoch

\* The epoch proofstack_claim_replay_job stamps on the job, the lease and the
\* new attempt.
ClaimEpoch == epoch

\* proofstack_claim_replay_job, when it hands out a fence.
PgClaimGranted(worker) ==
    /\ Cardinality(issued) < MaxClaims
    /\ \E d \in LeaseDurations :
         \/ ClaimQueued(worker, Cardinality(issued) + 1, d, ClaimEpoch)
         \/ ReclaimExpired(worker, Cardinality(issued) + 1, d, ClaimEpoch)
    /\ issued' = issued \cup {lease'.fence}
    /\ UNCHANGED <<epoch, backup, lost, restores>>

\* proofstack_claim_replay_job, when it closes an expired job instead.
PgClaimTerminalized ==
    /\ CloseCancelled \/ CloseUnreconciled \/ CloseBlocked
    /\ UNCHANGED <<epoch, recoveryVars>>

PgRequestCancellation ==
    /\ CancelQueued \/ CancelRunning
    /\ UNCHANGED <<epoch, recoveryVars>>

\* Mutant: a completion may be "cancelled" unasked.
AnyCompletion(s) == TRUE

\* proofstack_complete_replay_job cannot invent a cancellation request.
PgCompletionPermits(s) == s = "cancelled" => cancellationRequest # None

\* The worker functions, behind the epoch check.
PgWorkerCall(fence) ==
    /\ AssertCurrentEpoch(fence)
    /\ \/ \E d \in LeaseDurations : Heartbeat(fence, d)
       \/ \E id \in AcknowledgementIds : Acknowledge(fence, id)
       \/ \E id \in ReservationIds, r \in Requests : Reserve(fence, id, r)
       \/ \E r \in Reservations(ledger), u \in Usages : Reconcile(fence, r, u)
       \/ \E id \in ObservationIds, k \in ObservationKinds : AppendObservation(fence, id, k)
       \/ \E s \in TerminalStatuses : \E c \in TerminalCodes[s] :
            PgCompletionPermits(s) /\ CompleteJob(fence, s, c)
    /\ UNCHANGED <<epoch, recoveryVars>>

\* The logical backup: one consistent snapshot of the database.
TakeBackup ==
    /\ backup' = DatabaseState
    /\ UNCHANGED <<vars, epoch, issued, lost, restores>>

\* Mutant: the restored rows are put back into service as they are.
NoRecovery(db) ==
    /\ epoch' = db.epoch
    /\ lease' = db.lease
    /\ recoveryEpoch' = db.recoveryEpoch

\* proofstack_begin_replay_recovery, applied to restored state db: the next
\* epoch; a queued job moves to it; a running job's lease expires now.
BeginReplayRecovery(db) ==
    /\ epoch' = db.epoch + 1
    /\ lease' = IF db.status = "running" THEN [db.lease EXCEPT !.expiresAt = clock]
                ELSE db.lease
    /\ recoveryEpoch' = IF db.status = "queued" THEN db.epoch + 1 ELSE db.recoveryEpoch

\* restorePostgresLogicalBackup into an empty database: the backup's rows,
\* then the invalidation, before any worker is let in again.  Workers keep
\* what they hold.
Restore ==
    /\ backup # None
    /\ restores < MaxRestores
    /\ BeginReplayRecovery(backup)
    /\ plan' = backup.plan
    /\ status' = backup.status
    /\ terminal' = backup.terminal
    /\ startedAt' = backup.startedAt
    /\ lastFencingToken' = backup.lastFencingToken
    /\ attempts' = backup.attempts
    /\ ledger' = backup.ledger
    /\ cancellationRequest' = backup.cancellationRequest
    /\ acknowledgements' = backup.acknowledgements
    /\ observations' = backup.observations
    /\ intents' = backup.intents
    /\ lost' = issued
    /\ restores' = restores + 1
    /\ UNCHANGED <<clock, backup, issued>>

PgNext ==
    \/ PgTick
    \/ \E p \in Plans : PgCreateJob(p)
    \/ \E w \in Workers : PgClaimGranted(w)
    \/ PgClaimTerminalized
    \/ PgRequestCancellation
    \/ \E f \in issued : PgWorkerCall(f)
    \/ TakeBackup
    \/ Restore

PgSpec == PgInit /\ [][PgNext]_pgVars

------------------------------------------------------------------------------
(* The worker adapter *)

\* PostgresReplayJobWorkerRepository.claimJob.  A row that hands out no fence
\* but carries an attempt is taken for a broken contract: the adapter throws
\* inside the tenant transaction, which rolls back.  The claim function
\* returns an attempt with every row that closes an expired job, so those
\* closings are undone and the call changes nothing.
AdapterClaim == \E w \in Workers : PgClaimGranted(w)

AdapterNext ==
    \/ PgTick
    \/ \E p \in Plans : PgCreateJob(p)
    \/ AdapterClaim
    \/ PgRequestCancellation
    \/ \E f \in issued : PgWorkerCall(f)

AdapterFairSpec ==
    PgInit /\ [][AdapterNext]_pgVars /\ WF_pgVars(PgTick) /\ WF_pgVars(AdapterClaim)

------------------------------------------------------------------------------
(* Properties *)

\* The calls the database would carry out for a fence now.
Accepts(fence) == AssertCurrentEpoch(fence) /\ assertCurrentFence(fence)

\* After a restore, no fence of the lost timeline is honoured, whichever
\* backup was restored, however often, and whether or not the restored rows
\* still show that worker's lease.
LostFencesRejected == \A f \in lost : ~Accepts(f)

\* A live lease can be used: whoever holds it passes the epoch check, so a
\* claim made after a restore is not locked out by the epoch it restored.
LiveLeaseUsable ==
    status = "running" /\ clock < lease.expiresAt => Accepts(lease.fence)

==============================================================================
