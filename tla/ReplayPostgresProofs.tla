------------------------ MODULE ReplayPostgresProofs -------------------------
(***************************************************************************)
(* Proofs about the job under the PostgreSQL authority, through any number *)
(* of backups and restores.  What holds of the job must also hold of the   *)
(* rows in the backup, since a restore makes them the job.                 *)
(***************************************************************************)
EXTENDS ReplayJobPostgres, ReplayLedgerProofs

\* The job as the last backup holds it.
Backup == INSTANCE ReplayJobProofs WITH
    plan <- backup.plan, status <- backup.status, terminal <- backup.terminal,
    lease <- backup.lease, startedAt <- backup.startedAt,
    lastFencingToken <- backup.lastFencingToken, recoveryEpoch <- backup.recoveryEpoch,
    attempts <- backup.attempts, ledger <- backup.ledger,
    cancellationRequest <- backup.cancellationRequest,
    acknowledgements <- backup.acknowledgements, observations <- backup.observations,
    intents <- backup.intents

\* A cancellation request is on record for a cancelled job, and the outbox
\* tells of it.
RequestKnown(s, request, stored) ==
    /\ s = "cancelled" => request # None
    /\ request # None => \E i \in stored : i.eventType = "cancellation_requested"

\* What the rows must satisfy, in the database and in the backup.
JobSound == Inv /\ RetriesAreSafe /\ RequestKnown(status, cancellationRequest, intents)

BackupSound ==
    /\ Backup!Inv
    /\ Backup!RetriesAreSafe
    /\ RequestKnown(backup.status, backup.cancellationRequest, backup.intents)
    /\ backup.epoch \in Nat

\* The fences in the workers' hands are told apart by their attempt ids; none
\* of a lost timeline belongs to a live lease; a live lease is of the current
\* epoch.
FencesSound ==
    /\ epoch \in Nat
    /\ IsFiniteSet(issued)
    /\ issued \subseteq Fence
    /\ \A f \in issued : f.attempt <= Cardinality(issued)
    /\ lost \subseteq issued
    /\ status = "running" /\ clock < lease.expiresAt =>
         lease.fence \notin lost /\ lease.fence.epoch = epoch

PgInv == JobSound /\ FencesSound /\ (backup # None => BackupSound)

------------------------------------------------------------------------------
(* Backup and restore *)

\* The types of the rows are those of the job.
LEMMA BackupTypes ==
    /\ Backup!Lease = Lease
    /\ Backup!Attempt = Attempt
    /\ Backup!Terminal = Terminal
    /\ Backup!Acknowledgement = Acknowledgement
    /\ Backup!Observation = Observation
    /\ Backup!Intent = Intent
    /\ Backup!ReservationEntry = ReservationEntry
    /\ Backup!ReconciliationEntry = ReconciliationEntry
    /\ Backup!TerminalStatuses = TerminalStatuses
BY DEF Backup!Lease, Lease, Backup!Fence, Fence, Backup!Attempt, Attempt, Backup!AttemptStatuses,
   AttemptStatuses, Backup!TerminalStatuses, TerminalStatuses, Backup!Terminal, Terminal,
   Backup!AllCodes, AllCodes, Backup!TerminalCodes, TerminalCodes, Backup!Acknowledgement,
   Acknowledgement, Backup!Observation, Observation, Backup!ObservationKinds, ObservationKinds,
   Backup!Intent, Intent, Backup!ReservationEntry, ReservationEntry, Backup!ReconciliationEntry,
   ReconciliationEntry, Backup!Amounts, Amounts, Backup!Usage, Usage

\* A backup holds the job as it is.
LEMMA TakeBackupSound ==
    ASSUME JobSound, epoch \in Nat, TakeBackup
    PROVE  BackupSound'
<1>1. /\ UNCHANGED <<clock, status>>
      /\ backup'.plan = plan /\ backup'.status = status /\ backup'.terminal = terminal
      /\ backup'.lease = lease /\ backup'.startedAt = startedAt
      /\ backup'.lastFencingToken = lastFencingToken
      /\ backup'.recoveryEpoch = recoveryEpoch /\ backup'.attempts = attempts
      /\ backup'.ledger = ledger /\ backup'.cancellationRequest = cancellationRequest
      /\ backup'.acknowledgements = acknowledgements /\ backup'.observations = observations
      /\ backup'.intents = intents /\ backup'.epoch = epoch
  BY DEF TakeBackup, DatabaseState, vars, jobVars
<1>2. Backup!TypeOK'
  BY <1>1, BackupTypes DEF JobSound, Inv, TypeOK, Backup!TypeOK
<1>3. Backup!Ownership'
  BY <1>1 DEF JobSound, Inv, Ownership, AttemptInPlace, LeaseInPlace, Backup!Ownership,
     Backup!AttemptInPlace, Backup!LeaseInPlace
<1>4. Backup!RetriesAreSafe'
  BY <1>1 DEF JobSound, RetriesAreSafe, Backup!RetriesAreSafe, Backup!effectRetrySafe,
     effectRetrySafe, Backup!Reservations, Reservations, Backup!OpenReservations,
     OpenReservations, Backup!Entries, Entries, Backup!Reconciliations, Reconciliations
<1>5. RequestKnown(backup.status, backup.cancellationRequest, backup.intents)'
  BY <1>1 DEF JobSound, RequestKnown
<1> QED BY <1>1, <1>2, <1>3, <1>4, <1>5 DEF BackupSound, Backup!Inv

\* What is restored is as sound as the backup was: the lease of a running job
\* ends now and stays its last attempt's.
LEMMA RestoreSound ==
    ASSUME BackupSound, Restore, clock \in Nat
    PROVE  JobSound'
<1>1. /\ clock' = clock /\ plan' = backup.plan /\ status' = backup.status
      /\ terminal' = backup.terminal /\ startedAt' = backup.startedAt
      /\ lastFencingToken' = backup.lastFencingToken /\ attempts' = backup.attempts
      /\ ledger' = backup.ledger /\ cancellationRequest' = backup.cancellationRequest
      /\ acknowledgements' = backup.acknowledgements /\ observations' = backup.observations
      /\ intents' = backup.intents
  BY DEF Restore
<1>2. Backup!TypeOK /\ Backup!Ownership
  BY DEF BackupSound, Backup!Inv
<1>3. backup.lease # None <=> backup.status = "running"
  BY <1>2 DEF Backup!Ownership
<1>4. recoveryEpoch' \in Nat
  BY <1>2 DEF Restore, BeginReplayRecovery, BackupSound, Backup!TypeOK
<1>5. /\ lease' \in Lease \cup {None}
      /\ lease' # None <=> backup.status = "running"
      /\ backup.status = "running" => lease'.fence = backup.lease.fence
  <2>1. CASE backup.status = "running"
    <3>1. backup.lease \in Lease
      BY <1>2, <1>3, <2>1, BackupTypes DEF Backup!TypeOK
    <3>2. lease' = [backup.lease EXCEPT !.expiresAt = clock]
      BY <2>1 DEF Restore, BeginReplayRecovery
    <3>3. lease' \in Lease /\ lease'.fence = backup.lease.fence
      BY <3>1, <3>2 DEF Lease
    <3> QED BY <2>1, <3>3, JobAssumption
  <2>2. CASE backup.status # "running"
    <3>1. lease' = backup.lease
      BY <2>2 DEF Restore, BeginReplayRecovery
    <3> QED BY <1>3, <2>2, <3>1
  <2> QED BY <2>1, <2>2
<1>6. TypeOK'
  BY <1>1, <1>2, <1>4, <1>5, BackupTypes DEF TypeOK, Backup!TypeOK
<1>7. Ownership'
  BY <1>1, <1>2, <1>5 DEF Ownership, AttemptInPlace, LeaseInPlace, Backup!Ownership,
     Backup!AttemptInPlace, Backup!LeaseInPlace
<1>8. RetriesAreSafe'
  BY <1>1 DEF BackupSound, RetriesAreSafe, Backup!RetriesAreSafe, Backup!effectRetrySafe,
     effectRetrySafe, Backup!Reservations, Reservations, Backup!OpenReservations,
     OpenReservations, Backup!Entries, Entries, Backup!Reconciliations, Reconciliations
<1>9. RequestKnown(status, cancellationRequest, intents)'
  BY <1>1 DEF BackupSound, RequestKnown
<1> QED BY <1>6, <1>7, <1>8, <1>9 DEF JobSound, Inv

\* Time that passes does not spoil a backup.
LEMMA BackupKeeps ==
    ASSUME BackupSound, UNCHANGED backup, clock \in Nat, clock' \in Nat, clock' >= clock
    PROVE  BackupSound'
<1>1. Backup!TypeOK'
  BY DEF BackupSound, Backup!Inv, Backup!TypeOK
<1>2. ASSUME NEW i \in DOMAIN backup.attempts PROVE Backup!AttemptInPlace(i)'
  <2>1. backup.attempts[i].startedAt \in Nat
    <3>1. backup.attempts[i] \in Attempt
      BY BackupTypes DEF BackupSound, Backup!Inv, Backup!TypeOK
    <3> QED BY <3>1 DEF Attempt
  <2>2. Backup!AttemptInPlace(i)
    BY DEF BackupSound, Backup!Inv, Backup!Ownership
  <2> QED BY <2>1, <2>2 DEF Backup!AttemptInPlace
<1>3. Backup!Ownership'
  BY <1>2 DEF BackupSound, Backup!Inv, Backup!Ownership, Backup!LeaseInPlace
<1>4. Backup!RetriesAreSafe'
  BY DEF BackupSound, Backup!RetriesAreSafe
<1> QED BY <1>1, <1>3, <1>4 DEF BackupSound, Backup!Inv

------------------------------------------------------------------------------
(* The steps of the database between two restores *)

\* A claim under a fresh attempt id, in any epoch.
LEMMA ClaimSound ==
    ASSUME JobSound, NEW w \in Workers, NEW id \in Nat, NEW d \in LeaseDurations,
           NEW e \in Nat, ClaimQueued(w, id, d, e) \/ ReclaimExpired(w, id, d, e)
    PROVE  JobSound'
<1>1. Inv'
  BY ClaimQueuedInv, ReclaimInv DEF JobSound
<1>2. RetriesAreSafe'
  <2>1. CASE ClaimQueued(w, id, d, e)
    <3>1. attempts = <<>> /\ attempts \in Seq(Attempt)
      BY <2>1 DEF ClaimQueued, JobSound, Inv, TypeOK, Ownership
    <3>2. Len(attempts') = 1
      BY <2>1, <3>1 DEF ClaimQueued, Grant
    <3> QED BY <3>2 DEF RetriesAreSafe
  <2>2. CASE ReclaimExpired(w, id, d, e)
    BY <2>2, SafeReclaim DEF JobSound
  <2> QED BY <2>1, <2>2
<1>3. status' = "running" /\ UNCHANGED <<cancellationRequest, intents>>
  BY DEF ClaimQueued, ReclaimExpired, Grant
<1> QED BY <1>1, <1>2, <1>3 DEF JobSound, RequestKnown

\* A claim that closes an expired job.
LEMMA CloseSound ==
    ASSUME JobSound, CloseCancelled \/ CloseUnreconciled \/ CloseBlocked
    PROVE  JobSound'
<1>1. Inv'
  BY CloseInv DEF JobSound
<1>2. PICK s, code : TerminalizeExpired(s, code) /\ (s = "cancelled" => cancellationRequest # None)
  BY CloseReasonType DEF CloseCancelled, CloseUnreconciled, CloseBlocked
<1>3. status = "running" /\ lease.expiresAt \in Nat /\ "lease_expired" \in AttemptStatuses
  BY RunningJob DEF CloseCancelled, CloseUnreconciled, CloseBlocked, LeaseExpired,
     AttemptStatuses, JobSound
<1>4. RetriesAreSafe'
  BY <1>2, <1>3, SafeCommit DEF TerminalizeExpired, JobSound
<1>5. status' = s /\ UNCHANGED cancellationRequest /\ intents \subseteq intents'
  BY <1>2 DEF TerminalizeExpired, CommitTerminal
<1> QED BY <1>1, <1>2, <1>4, <1>5 DEF JobSound, RequestKnown

\* What a worker may call, when a completion cannot invent a cancellation.
LEMMA CallSound ==
    ASSUME JobSound, NEW f \in Fence, PgWorkerCall(f)
    PROVE  JobSound'
<1>1. ASSUME NEW d \in LeaseDurations, Heartbeat(f, d) PROVE JobSound'
  <2>1. /\ UNCHANGED <<plan, startedAt, ledger, cancellationRequest, attempts, status, intents>>
        /\ Len(attempts) \in Nat
    BY <1>1 DEF Heartbeat, recordVars, JobSound, Inv, TypeOK
  <2>2. RetriesAreSafe'
    BY <2>1, SafeFrame DEF JobSound
  <2> QED BY <1>1, <2>1, <2>2, HeartbeatInv DEF JobSound, RequestKnown
<1>2. CASE \/ \E id \in AcknowledgementIds : Acknowledge(f, id)
           \/ \E id \in ObservationIds, k \in ObservationKinds : AppendObservation(f, id, k)
  <2>1. /\ UNCHANGED <<plan, startedAt, ledger, cancellationRequest, attempts, status, intents>>
        /\ Len(attempts) \in Nat
    <3>1. Len(attempts) \in Nat
      BY DEF JobSound, Inv, TypeOK
    <3> QED BY <1>2, <3>1 DEF Acknowledge, AppendObservation, jobVars
  <2>2. RetriesAreSafe'
    BY <2>1, SafeFrame DEF JobSound
  <2> QED BY <1>2, <2>1, <2>2, RecordingInv DEF JobSound, RequestKnown
<1>3. CASE \/ \E id \in ReservationIds, q \in Requests : Reserve(f, id, q)
           \/ \E q \in Reservations(ledger), u \in Usages : Reconcile(f, q, u)
  <2>1. UNCHANGED <<cancellationRequest, status, intents>>
    BY <1>3 DEF Reserve, Reconcile, jobVars
  <2> QED BY <1>3, <2>1, RecordingInv, SafeLedger DEF JobSound, RequestKnown
<1>4. ASSUME NEW s \in TerminalStatuses, NEW c \in TerminalCodes[s],
             PgCompletionPermits(s), CompleteJob(f, s, c)
      PROVE  JobSound'
  <2>1. /\ status = "running" /\ clock \in Nat /\ s \in AttemptStatuses
        /\ CommitTerminal(s, c, EndedAttempt(attempts[Current], clock, s, "not_retryable"))
    BY <1>4 DEF CompleteJob, assertCurrentFence, AttemptStatuses, JobSound, Inv, TypeOK
  <2>2. RetriesAreSafe'
    BY <2>1, SafeCommit DEF JobSound
  <2>3. status' = s /\ UNCHANGED cancellationRequest /\ intents \subseteq intents'
    BY <2>1 DEF CommitTerminal
  <2> QED BY <1>4, <2>2, <2>3, CompleteInv DEF JobSound, RequestKnown, PgCompletionPermits
<1> QED BY <1>1, <1>2, <1>3, <1>4 DEF PgWorkerCall

\* Every other call.
LEMMA ControlSound ==
    ASSUME JobSound, epoch \in Nat,
           PgTick \/ (\E p \in Plans : PgCreateJob(p)) \/ PgRequestCancellation
    PROVE  JobSound'
<1>1. CASE PgTick
  <2>1. /\ Tick
        /\ UNCHANGED <<plan, startedAt, ledger, cancellationRequest, attempts, status, intents>>
        /\ Len(attempts) \in Nat
    BY <1>1 DEF PgTick, Tick, jobVars, recordVars, JobSound, Inv, TypeOK
  <2>2. RetriesAreSafe'
    BY <2>1, SafeFrame DEF JobSound
  <2> QED BY <2>1, <2>2, TickInv DEF JobSound, RequestKnown
<1>2. ASSUME NEW p \in Plans, PgCreateJob(p) PROVE JobSound'
  <2>1. /\ CreateJob(p, epoch) /\ attempts = <<>> /\ attempts' = attempts
        /\ status' = "queued" /\ UNCHANGED cancellationRequest /\ intents \subseteq intents'
    BY <1>2 DEF PgCreateJob, CreateJob, JobSound, Inv, Ownership
  <2>2. RetriesAreSafe'
    BY <2>1 DEF RetriesAreSafe
  <2> QED BY <2>1, <2>2, CreateInv DEF JobSound, RequestKnown
<1>3. CASE CancelQueued
  <2>1. /\ attempts = <<>> /\ attempts' = attempts /\ cancellationRequest' = clock
        /\ CancellationIntent \in intents' /\ clock # None
    BY <1>3, BudgetAssumption DEF CancelQueued, JobSound, Inv, TypeOK, Ownership
  <2>2. RetriesAreSafe'
    BY <2>1 DEF RetriesAreSafe
  <2> QED BY <1>3, <2>1, <2>2, CancelQueuedInv DEF JobSound, RequestKnown, CancellationIntent
<1>4. CASE CancelRunning
  <2>1. /\ cancellationRequest' = clock /\ CancellationIntent \in intents' /\ clock # None
    BY <1>4, BudgetAssumption DEF CancelRunning, JobSound, Inv, TypeOK
  <2> QED BY <1>4, <2>1, CancelRunningInv, SafeCancel DEF JobSound, RequestKnown, CancellationIntent
<1> QED BY <1>1, <1>2, <1>3, <1>4 DEF PgRequestCancellation

------------------------------------------------------------------------------
(* Fences *)

\* The fence of a new claim is new: its attempt id is above all issued ones.
LEMMA ClaimFences ==
    ASSUME PgInv, JobSound', NEW w \in Workers, PgClaimGranted(w)
    PROVE  FencesSound'
<1> DEFINE n == Cardinality(issued)
<1>1. /\ IsFiniteSet(issued) /\ n \in Nat /\ issued \subseteq Fence /\ lost \subseteq issued
      /\ \A f \in issued : f.attempt <= n
      /\ epoch \in Nat
  BY FS_CardinalityType DEF PgInv, FencesSound
<1>2. /\ lease'.fence.attempt = n + 1 /\ lease'.fence.epoch = epoch /\ status' = "running"
      /\ issued' = issued \cup {lease'.fence} /\ UNCHANGED <<epoch, lost, clock>>
  BY DEF PgClaimGranted, ClaimQueued, ReclaimExpired, Grant, ClaimEpoch
<1> HIDE DEF n
<1>3. lease'.fence \in Fence
  <2>1. lease' \in Lease
    BY <1>2, JobAssumption DEF JobSound, Inv, TypeOK, Ownership
  <2> QED BY <2>1 DEF Lease
<1>4. lease'.fence \notin issued
  BY <1>1, <1>2
<1>5. IsFiniteSet(issued') /\ Cardinality(issued') = n + 1
  BY <1>1, <1>2, <1>4, FS_AddElement DEF n
<1>6. ASSUME NEW f \in issued' PROVE f.attempt <= n + 1
  <2>1. CASE f = lease'.fence
    BY <1>1, <1>2, <2>1
  <2>2. CASE f \in issued
    <3>1. f.attempt \in Nat /\ f.attempt <= n
      BY <1>1, <2>2 DEF Fence
    <3> QED BY <1>1, <3>1
  <2> QED BY <1>2, <2>1, <2>2
<1> QED BY <1>1, <1>2, <1>3, <1>4, <1>5, <1>6 DEF FencesSound

\* A heartbeat extends a lease that is live, and so of this timeline and of
\* this epoch.
LEMMA CallFences ==
    ASSUME PgInv, NEW f \in Fence, PgWorkerCall(f)
    PROVE  FencesSound'
<1>1. UNCHANGED <<epoch, issued, lost, clock>> /\ clock \in Nat
  BY DEF PgWorkerCall, recoveryVars, Heartbeat, Acknowledge, Reserve, Reconcile,
     AppendObservation, CompleteJob, CommitTerminal, PgInv, JobSound, Inv, TypeOK
<1>2. ASSUME NEW d \in LeaseDurations, Heartbeat(f, d) PROVE FencesSound'
  <2>1. status = "running" /\ clock < lease.expiresAt /\ lease \in Lease
    BY <1>2, RunningJob DEF Heartbeat, assertCurrentFence, PgInv, JobSound
  <2>2. lease'.fence = lease.fence
    BY <1>2, <2>1 DEF Heartbeat, Lease
  <2> QED BY <1>1, <2>1, <2>2 DEF FencesSound, PgInv
<1>3. CASE UNCHANGED <<status, lease>>
  BY <1>1, <1>3 DEF FencesSound, PgInv
<1>4. CASE \/ \E id \in AcknowledgementIds : Acknowledge(f, id)
           \/ \E id \in ReservationIds, q \in Requests : Reserve(f, id, q)
           \/ \E q \in Reservations(ledger), u \in Usages : Reconcile(f, q, u)
           \/ \E id \in ObservationIds, k \in ObservationKinds : AppendObservation(f, id, k)
  BY <1>3, <1>4 DEF Acknowledge, Reserve, Reconcile, AppendObservation, jobVars
<1>5. ASSUME NEW s \in TerminalStatuses, NEW c, CompleteJob(f, s, c) PROVE FencesSound'
  <2>1. status' # "running"
    BY <1>5 DEF CompleteJob, CommitTerminal, TerminalStatuses
  <2> QED BY <1>1, <2>1 DEF FencesSound, PgInv
<1> QED BY <1>2, <1>4, <1>5 DEF PgWorkerCall

\* The other steps make no lease live.
LEMMA OtherFences ==
    ASSUME PgInv, UNCHANGED <<epoch, issued, lost>>, clock' \in Nat, clock' >= clock,
           status' = "running" => UNCHANGED <<status, lease>>
    PROVE  FencesSound'
<1>1. ASSUME status' = "running", clock' < lease'.expiresAt
      PROVE  status = "running" /\ clock < lease.expiresAt /\ lease' = lease
  <2>1. status = "running" /\ lease' = lease
    BY <1>1
  <2>2. clock \in Nat /\ lease.expiresAt \in Nat
    BY <2>1, RunningJob DEF PgInv, JobSound, Inv, TypeOK
  <2> QED BY <1>1, <2>1, <2>2
<1> QED BY <1>1 DEF FencesSound, PgInv

\* After a restore the restored lease, if there is one, is over.
LEMMA RestoreFences ==
    ASSUME PgInv, BackupSound, Restore
    PROVE  FencesSound'
<1>1. /\ issued' = issued /\ lost' = issued /\ clock' = clock /\ clock \in Nat
      /\ epoch' \in Nat /\ status' = backup.status
  BY DEF Restore, BeginReplayRecovery, BackupSound, PgInv, JobSound, Inv, TypeOK
<1>2. status' = "running" => ~(clock' < lease'.expiresAt)
  <2> SUFFICES ASSUME status' = "running" PROVE lease'.expiresAt = clock
    BY <1>1
  <2>1. backup.lease \in Lease
    BY <1>1, BackupTypes DEF BackupSound, Backup!Inv, Backup!TypeOK, Backup!Ownership
  <2>2. lease' = [backup.lease EXCEPT !.expiresAt = clock]
    BY <1>1 DEF Restore, BeginReplayRecovery
  <2> QED BY <2>1, <2>2 DEF Lease
<1> QED BY <1>1, <1>2 DEF FencesSound, PgInv

------------------------------------------------------------------------------
(* The invariant *)

\* Every step keeps it.
LEMMA NextPgInv == PgInv /\ [PgNext]_pgVars => PgInv'
<1> SUFFICES ASSUME PgInv, [PgNext]_pgVars PROVE PgInv'
  OBVIOUS
<1>1. clock \in Nat /\ epoch \in Nat /\ JobSound
  BY DEF PgInv, JobSound, Inv, TypeOK, FencesSound
<1>2. ASSUME JobSound', FencesSound', UNCHANGED backup, clock' \in Nat, clock' >= clock
      PROVE  PgInv'
  BY <1>1, <1>2, BackupKeeps DEF PgInv
<1>3. CASE UNCHANGED pgVars
  <2>1. JobSound'
    BY <1>1, <1>3 DEF pgVars, vars, jobVars, recordVars, JobSound, Inv, TypeOK, Ownership,
       AttemptInPlace, LeaseInPlace, RetriesAreSafe, RequestKnown
  <2>2. FencesSound' /\ UNCHANGED <<backup, clock>>
    BY <1>3 DEF PgInv, pgVars, vars, jobVars, recoveryVars, FencesSound
  <2> QED BY <1>1, <1>2, <2>1, <2>2
<1>4. CASE PgTick \/ (\E p \in Plans : PgCreateJob(p)) \/ PgRequestCancellation
  <2>1. JobSound'
    BY <1>1, <1>4, ControlSound
  <2>2. /\ UNCHANGED <<epoch, issued, lost, backup>> /\ clock' \in Nat /\ clock' >= clock
        /\ status' = "running" => UNCHANGED <<status, lease>>
    BY <1>1, <1>4 DEF PgTick, Tick, PgCreateJob, CreateJob, PgRequestCancellation, CancelQueued,
       CancelRunning, jobVars, recoveryVars
  <2> QED BY <1>2, <2>1, <2>2, OtherFences
<1>5. ASSUME NEW w \in Workers, PgClaimGranted(w) PROVE PgInv'
  <2>1. PICK d \in LeaseDurations :
           \/ ClaimQueued(w, Cardinality(issued) + 1, d, ClaimEpoch)
           \/ ReclaimExpired(w, Cardinality(issued) + 1, d, ClaimEpoch)
    BY <1>5 DEF PgClaimGranted
  <2>2. Cardinality(issued) + 1 \in Nat /\ ClaimEpoch \in Nat
    BY <1>1, FS_CardinalityType DEF PgInv, FencesSound, ClaimEpoch
  <2>3. JobSound'
    BY <1>1, <2>1, <2>2, ClaimSound
  <2>4. UNCHANGED <<backup, clock>>
    BY <1>5 DEF PgClaimGranted, ClaimQueued, ReclaimExpired, Grant
  <2> QED BY <1>1, <1>2, <1>5, <2>3, <2>4, ClaimFences
<1>6. CASE PgClaimTerminalized
  <2>1. JobSound'
    BY <1>1, <1>6, CloseSound DEF PgClaimTerminalized
  <2>2. UNCHANGED <<epoch, issued, lost, backup, clock>> /\ status' # "running"
    BY <1>6, CloseReasonType DEF PgClaimTerminalized, CloseCancelled, CloseUnreconciled,
       CloseBlocked, TerminalizeExpired, CommitTerminal, recoveryVars
  <2> QED BY <1>1, <1>2, <2>1, <2>2, OtherFences
<1>7. ASSUME NEW f \in issued, PgWorkerCall(f) PROVE PgInv'
  <2>1. f \in Fence
    BY DEF PgInv, FencesSound
  <2>2. UNCHANGED <<backup, clock>>
    BY <1>7 DEF PgWorkerCall, recoveryVars, Heartbeat, Acknowledge, Reserve, Reconcile,
       AppendObservation, CompleteJob, CommitTerminal
  <2> QED BY <1>1, <1>2, <1>7, <2>1, <2>2, CallSound, CallFences
<1>8. CASE TakeBackup
  <2>1. BackupSound'
    BY <1>1, <1>8, TakeBackupSound
  <2>2. JobSound'
    BY <1>1, <1>8 DEF TakeBackup, vars, jobVars, recordVars, JobSound, Inv, TypeOK, Ownership,
       AttemptInPlace, LeaseInPlace, RetriesAreSafe, RequestKnown
  <2>3. FencesSound'
    BY <1>8 DEF PgInv, TakeBackup, vars, jobVars, FencesSound
  <2> QED BY <2>1, <2>2, <2>3 DEF PgInv
<1>9. CASE Restore
  <2>1. BackupSound /\ UNCHANGED <<backup, clock>>
    BY <1>9 DEF PgInv, Restore
  <2> QED BY <1>1, <1>2, <1>9, <2>1, RestoreSound, RestoreFences
<1> QED BY <1>3, <1>4, <1>5, <1>6, <1>7, <1>8, <1>9 DEF PgNext

\* The inductive invariant: the rows are sound in the database and in the
\* backup, and the fences of lost timelines belong to no live lease.
THEOREM RestoreInvariant == PgSpec => []PgInv
<1>1. PgInit => PgInv
  <2> SUFFICES ASSUME PgInit PROVE PgInv
    OBVIOUS
  <2>1. JobSound
    BY InitInv DEF PgInit, Init, JobSound, RetriesAreSafe, RequestKnown
  <2>2. FencesSound
    BY FS_EmptySet DEF PgInit, Init, FencesSound
  <2> QED BY <2>1, <2>2 DEF PgInit, PgInv
<1> QED BY <1>1, NextPgInv, PTL DEF PgSpec

\* LostFencesRejected: whichever backup is restored, and however often, the
\* database honours no fence that was handed out before the restore.
THEOREM LostFencesStayOut == PgSpec => []LostFencesRejected
<1>1. PgInv => LostFencesRejected
  <2> SUFFICES ASSUME PgInv, NEW f \in lost, Accepts(f) PROVE FALSE
    BY DEF LostFencesRejected
  <2>1. status = "running" /\ sameFence(lease.fence, f) /\ clock < lease.expiresAt
    BY DEF Accepts, assertCurrentFence
  <2>2. lease.fence \in Fence /\ f \in Fence
    BY <2>1, RunningJob DEF PgInv, JobSound, FencesSound, Lease
  <2>3. lease.fence = f
    BY <2>1, <2>2, SameFence
  <2> QED BY <2>1, <2>3 DEF PgInv, FencesSound
<1> QED BY <1>1, RestoreInvariant, PTL

\* LiveLeaseUsable: the holder of a live lease passes the epoch check, so no
\* claim made after a restore is locked out by what was restored.
THEOREM LiveLeasesAreUsable == PgSpec => []LiveLeaseUsable
<1>1. PgInv => LiveLeaseUsable
  BY DEF PgInv, FencesSound, LiveLeaseUsable, Accepts, AssertCurrentEpoch, assertCurrentFence,
     sameFence
<1> QED BY <1>1, RestoreInvariant, PTL

\* CancelledOnlyOnRequest: no job ends cancelled that nobody asked to stop.
THEOREM CancellationIsAskedFor == PgSpec => []CancelledOnlyOnRequest
<1>1. PgInv => CancelledOnlyOnRequest
  BY DEF PgInv, JobSound, RequestKnown, CancelledOnlyOnRequest
<1> QED BY <1>1, RestoreInvariant, PTL

\* AttemptsAreSerial survives restores: whatever claims were made on a lost
\* timeline, the attempts of the restored job follow one another.
THEOREM RestoredAttemptsAreSerial == PgSpec => []AttemptsAreSerial
<1>1. PgInv => AttemptsAreSerial
  BY OwnershipIsSerial DEF PgInv, JobSound
<1> QED BY <1>1, RestoreInvariant, PTL

\* RetriesAreSafe survives restores: what a restored job retries had been
\* safe to retry when it was backed up, and is decided about anew.
THEOREM RestoredRetriesStaySafe == PgSpec => []RetriesAreSafe
<1>1. PgInv => RetriesAreSafe
  BY DEF PgInv, JobSound
<1> QED BY <1>1, RestoreInvariant, PTL

==============================================================================
