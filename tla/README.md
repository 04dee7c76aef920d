# ProofStack in TLA+

A verification project for ProofStack, the agent-reliability platform in `src/`. It models the parts
of the system where concurrency, failure and time meet:

* **durable replay jobs**, behind the repository port they are specified by, under the PostgreSQL
  authority and its restore, and as the replay workers use them;
* **delivery**: the outbox, consumer receipts and projection cursors, end to end;
* **artifacts**: the catalog and the object store it describes, with uploads and maintenance;
* **policy evaluation jobs** and the workers that capture, seal, compute and publish.

TLC checks the models on small instances (the `runs` of `PROJECT.json`); TLAPS proves their safety
properties for every value of the constants (its `theorems`).

## 1. The system

ProofStack records what an AI agent did, replays it, evaluates it and decides about releases. The
source is a TypeScript monorepo over PostgreSQL.

| Component | State | Operations | What is hard |
| --- | --- | --- | --- |
| Durable replay job (`packages/replay`) | job, attempts, lease, cancellation, budget ledger, observations, intents | create, claim, heartbeat, cancel, acknowledge, reserve, reconcile, observe, complete | stale workers, expiry, races with cancellation, retry safety |
| Retry decision (`replay-retry.ts`) | none | decide from policy, effect, times | late reclaim, deadline arithmetic |
| Budget ledger (`replay-budget.ts`) | append-only entries | reserve, reconcile, summarise | overruns of earlier attempts, overflow, duplicates |
| PostgreSQL replay authority (`packages/postgres`) | the same in tables, recovery epoch | stored functions, worker and control adapters | transaction time, adapter and function disagreeing, rollback |
| Recovery (`services/recovery`) | backup, epoch | backup, restore, lease invalidation | workers that outlive the database they wrote to |
| Replay worker (`services/replay-worker`) | a claimed attempt, a target process | dispatch, run under lease, account, complete | heartbeat against execution, lost answers |
| Outbox, receipts, cursors (`packages/core/src/outbox`) | messages, leases, positions | claim, publish, release, complete, advance | redelivery, poison messages, ordering |
| Artifacts (`packages/artifacts`) | catalog rows, stored objects | reserve, upload, tombstone, purge, reconcile | two systems, partial failure |
| Policy evaluation jobs (`packages/core/src/policy`) | job, attempts, sealed inputs, budget | claim, reclaim, seal, complete, cancel | the replay job's hazards with other rules |
| Identity (`packages/identity`) | keys, login transactions, sessions | issue, rotate, revoke, log in | one-time use, revocation |
| Release, evaluation, comparison (`packages/core`) | immutable records | publish, derive | none that is concurrent |
| API, console, SDK, OTLP | none durable | transport | none |

How they interact: the API's control port creates and cancels jobs; each change stores an outbox
intent in the same transaction; the dispatcher delivers the job to workers; a worker claims the job
and is given a *fence* (attempt, lease, worker, token, recovery epoch), which it must present with
every later call; a repository call is one transaction. Whoever claims a job whose lease expired
either takes it over or closes it. A restore puts the whole database back in time, raises the
recovery epoch and expires every lease.

What makes each modelled component correct:

* job: at most one owner, no trace of an owner after it lost the lease, a terminal outcome is final,
  a requested cancellation decides the outcome, a started job ends;
* retry: never repeat an effect that may not be repeated, never begin what cannot end in time;
* ledger: adds up, never exceeds the limit unless usage was reported, can always be read back;
* outbox: an intent exactly for each change it announces;
* recovery: nothing of the lost timeline is honoured, and the restored system still works;
* replay worker: one that keeps its lease is never refused and gives nothing up, only an ended job
  leaves the dispatch, every created job ends;
* delivery: one worker at a time per message, a completed receipt was earned by the payload it names,
  nothing is handled again after it, everything appended is handled in the end;
* artifacts: a readable artifact has its object, cleanup takes only what was abandoned, the content
  of a fixture goes as a whole, what was begun is finished;
* policy jobs: every stored graph can be read back, all work is charged within the limits whoever did
  it, the sealed snapshot is the whole evidence, the job ends.

The hazards, each with its line and the properties aimed at it, are in `PROJECT.json`.

## 2. Modules

| Module | Models | Extends |
| --- | --- | --- |
| `ReplayRetry` | `replay-retry.ts`, the retry policy schema | - |
| `ReplayBudget` | `replay-budget.ts`, the vector refinements of `replay-accounting.ts` | - |
| `ReplayJob` | `replay-job-state.ts` driven by `memory-replay-job-repository.ts`, `replay-job-outbox.ts` | `ReplayRetry`, `ReplayBudget` |
| `ReplayJobLifecycle` | the lifecycle promised by the port (abstract specification) | - |
| `ReplayJobPostgres` | migrations 0017-0035, `postgres-logical-backup.ts`, the claim adapter | `ReplayJob` |
| `ReplayWorker` | `services/replay-worker`: dispatch loop, attempt runner, lease heartbeat, accounting, completion | `ReplayJob` |
| `DeliveryLease` | the leases that outbox and receipts share | - |
| `Outbox` | `postgres-outbox-repository.ts`, migration 0002, the append of `postgres-evidence-repository.ts` | `DeliveryLease` |
| `ConsumerReceipt` | `postgres-consumer-receipt-repository.ts`, migration 0003 | `DeliveryLease` |
| `Delivery` | `process-consumer-message.ts`, `postgres-projection-cursor-repository.ts`, publishers and transport | `Outbox`, `ConsumerReceipt` |
| `ArtifactCatalog` | `postgres-artifact-catalog-repository.ts`, migration 0009, fixture ownership in `postgres-regression-version-repository.ts` | - |
| `ArtifactLifecycle` | `packages/artifacts`, the S3 store, the maintenance runtime | `ArtifactCatalog` |
| `PolicyEvaluationJob` | the transitions of `packages/core/src/policy`, as operators from graph to graph | - |
| `PolicyEvaluation` | `services/policy-worker`, `packages/policy-evaluation`, the store's `mutate` | `PolicyEvaluationJob` |
| `MCReplayJob`, `MCReplayJobPostgres`, `MCReplayWorker`, `MCDelivery`, `MCArtifacts`, `MCPolicy` | constants for TLC | |
| the eight modules named `...Proofs` | theorems, see section 5 | |

### State and actions of `ReplayJob`

A variable is a field of `StoredReplayJob`: `status`, `terminal`, `lease`, `startedAt`,
`lastFencingToken`, `recoveryEpoch` belong to `job`; `attempts`, `ledger`, `cancellationRequest`,
`acknowledgements`, `observations` and `intents` to the records beside it. `clock` is the
repository's `now()`. One job is modelled: jobs share no state.

An action is one repository call that changes something. `claimJob` has five such outcomes
(`ClaimQueued`, `ReclaimExpired`, `CloseCancelled`, `CloseUnreconciled`, `CloseBlocked`); its
`retry_not_ready` answer, every rejected call and every idempotent repetition leave the state as it
is. The awaits inside a call come before its last read of the job, and what follows runs to its end
without one, so a call is atomic; in PostgreSQL it is one transaction under the job's lock.

A worker is not modelled by its program but by what it can do: whoever has ever been given a fence
may make any call with it at any time. This covers crashes (no more calls), pauses, restarts,
reordering and late delivery. A fence's `attempt` stands for the attempt and lease identifiers, which
a worker draws at random for each claim.

Data that no property tells apart is left out: scope, principals, digests, result references, error
texts, the reason of a cancellation, the boundary payloads of observations. A plan is reduced to its
retry policy, its budget and the class of its live effects, which is what `expiredEffect` computes
from the plan's boundaries. The counters' exhaustion at 2^53 - 1 (`nextCounter`) is not reachable
within a plan's attempts and is left out.

### `ReplayJobPostgres`

It reuses the actions of `ReplayJob` and adds what differs: the epoch check before every worker
function, the epoch a claim stamps, the refusal of an unrequested "cancelled", backups and restores.
`issued` and `lost` are history variables: the fences workers hold, in any timeline. A restored
database may issue a token again that a lost timeline had used. Usually the epoch tells the two apart;
when the same backup is restored twice, both timelines run under the same epoch (each restore adds one
to the epoch of the *backup*), and then only the random attempt and lease identifiers do. The run
`restore` includes this case.

A restore is one step: the services are connected to the new database only after
`restorePostgresLogicalBackup` has returned.

`AdapterClaim` is the claim as `PostgresReplayJobWorkerRepository.claimJob` performs it, see the
findings.

### `ReplayWorker`

Here the worker *is* its program, and `ReplayJob` the repository it calls. `runner[w]` holds where a
worker is between two calls and what it remembers: its fence, the snapshot's cancellation as it last
saw it, the target's result, whether a first completion has failed. `ReceiveAndClaim` is a delivery
and its claim, `Settle` the answer to the dispatch source, `Beat` a heartbeat (before each call, and
under the running target), `LoadDefinitions` and `TargetEnds` the two steps without a repository call
that end an attempt or let it go on, `Call` the call the program makes next, `CallRefused` the
repository's refusal and the path it leads to, including the cancellation race of
`completeWithCancellationRace`. Any call's answer may be lost after it was committed (`Answered`) and
a worker may stop (`Crash`); both are faults and bounded. The delivery may go to two workers at once.

The target process is external: any result its supervisor may report, no later than the attempt's
deadline. Identifiers are derived from the attempt (`stableId`), so that a repeated call is recognised.

### `DeliveryLease`, `Outbox`, `ConsumerReceipt`, `Delivery`

An outbox row is appended with the evidence it announces, claimed in a batch under a fresh token,
handed to a transport and acknowledged or released for a later time. A delivered message opens a
receipt or finds one: processing by another, completed, deferred, or opened for another payload. The
harness calls the handler between two transactions and completes or releases the receipt after it;
its caller advances the cursor with what it was told.

Time is reduced to what the statements ask: a token's lease has ended or not (`Lapse`), a row is due
or not (`Due`). Since a lease can end at any moment, every order of events that real times allow is
covered. `nextToken` is the next lease token, unique as a UUID is. `Outbox.Batch` is what `ORDER BY
available_at, outbox_id LIMIT` may select; `FOR UPDATE SKIP LOCKED` gives concurrent claims disjoint
batches, which serial ones have too. The publisher and the transport are not part of the repository
and are external: any process that uses the port as its types say, any transport that may duplicate
and reorder. Of a projection cursor the position is modelled; its generations are separate cursors.

### `ArtifactCatalog`, `ArtifactLifecycle`

`catalog[a]` is the row of an artifact, `objects` the keys present in the bucket. The catalog's
operations are transactions; uploads, purges, retention, abandoned-reservation cleanup, purge retry
and reconciliation are programs that call catalog and store in turn, and every call is a step of its
own: `UploadBegins`, `UploadPuts`, `UploadActivates`; `Start` (list), `TakeNext`, `PurgeFinds`,
`PurgeDeletes`, `PurgeRecords`, `ReconcileActivates`. A call may fail at any of them.

A list may be taken at any time, which stands for the clock that makes a row old enough, and its
batch is any part of what is eligible, which stands for the limit. Publishing a recorded fixture takes
ownership of its artifacts, revoking it tombstones all of them in one transaction. Encryption and
content inspection are left out: a reservation fixes the bytes, so that an object is present or not. So
is the trigger of migration 0016 that keeps the artifacts of target releases and plan boundaries from
being tombstoned: the model deletes more than the code does.

### `PolicyEvaluationJob`, `PolicyEvaluation`

`PolicyEvaluationJob` follows the code's shape: a transition is a guard (`MayClaim`, ...) and a
function from the stored graph to the next (`Claimed`, ...); `Committed` is what `mutate` makes of it
when the history is full. `PolicyEvaluation` runs workers over it: observe, claim or reclaim, reserve
an acquisition credit, read, seal, settle, start, pay for the rules, publish, or interrupt. `worked`
is a history variable, the work really done, against which the charges are compared.

Metadata reads, artifact bytes and rule evaluations are the three kinds of usage; the five counters
of metadata usage are one. What is read and what the rules decide is left out. The model follows the
core transitions, which the PostgreSQL functions repeat and the adapters compare with on every call;
at the last history version the stored `close_for_retry` ends a job as history-limited where the core
function reports the failure itself, both terminal. The service never sends a heartbeat; the operation
exists and is an action. The read of an artifact's bytes is counted in the step that pays for it; the
code reads after the payment's commit and checks its deadline once more before it, so that it may read
less than was paid for, or later. `Accepted` is the stored graph's schema without its refinements on
receipt times (`updatedAt`, `committedAt`), which are not modelled. `Recover` acts on the current graph: a restore to an earlier one is not
modelled here.

## 3. Runs

| Run | Specification | Bounds | Distinct states |
| --- | --- | --- | --- |
| `fencing` | `Spec` | 2 workers (symmetric), 3 plans, 1 reservation, 1 acknowledgement, 1 observation identifier, time 0..5 | 766,640 |
| `budget` | `Spec` | 1 worker, 2 attempts, 2 reservations of 1 or 2 units, usage 0, 1, 3 or unavailable, limit 2, time 0..4 | 542,714 |
| `settles` | `FairSpec` | 1 worker, 3 plans, time 0..6 | 183,607 |
| `restore` | `PgSpec` | 2 workers, 4 claims over all timelines, 2 restores, time 0..5 | 530,006 |
| `worker` | `FairWorkerSpec` | 2 workers, 1 plan retryable once, budget 2, usage 1 or 3, 1 fault, time 0..4 | 882,478 |
| `delivery` | `DeliverySpec` | 1 message, 2 payloads, 2 publishers, 2 handlers, 3 faults, symmetric | 190,519 |
| `delivered` | `FairDelivery` | 2 messages, 1 publisher, 2 handlers, 1 fault | 218,738 |
| `artifacts` | `FairLifecycle` | 1 artifact, 1 fixture, 2 uploads, 2 maintenance processes, 1 fault | 68,318 |
| `policy` | `FairSpec` | 2 workers, 2 attempts, limits of 1 or 2, history of 13, deadline 4, 1 fault | 1,118,720 |
| `adapter` | `AdapterFairSpec` | as `settles` | violation |
| `invented_cancellation` | `Spec` | as `fencing` | violation |
| `purged_object` | `LifecycleSpec` | 1 upload, 1 maintenance process, no faults | violation |

* **fencing** asks whether two workers can get into each other's way. `RecordsWithinAttempt`: nothing
  a worker recorded falls outside its attempt. `AttemptsAreSerial`: one owner after the other.
  `RetriesAreSafe`: what must hold whenever a second attempt exists. `IntentsMatchJob`,
  `CancellationHonoured`, `TerminalIsFinal`, `HistoryOnlyGrows`, and `ImplementsLifecycle`: the
  refinement of `ReplayJobLifecycle`.
* **budget** asks whether the ledger can be trusted. `BudgetIsConserved` compares the fold of the code
  with a sum over distinct reservations; `LedgerReadable` states that the checks
  `summarizeReplayBudgetLedger` makes can never fail on what was stored, since a ledger that failed
  them would block completion; `SuccessIsClean` looks across attempts.
* **settles** asks whether a started job ends. The attempts are finite in number, expiry and redelivery
  end each of them, and no worker is assumed to do anything after its claim, except that it does not
  heartbeat for ever. That exception is the premise `LeasesRunOut` of `StartedJobSettles`, and it is
  needed: `heartbeatReplayJob` and `proofstack_heartbeat_replay_job` limit one extension by the attempt's
  timeout and look at no deadline, so that a holder that goes on extending its lease keeps the job running
  past every deadline of its plan. In this code it is the worker that stops (see `FairWorkerSpec`).
* **restore** asks whether a restore is safe under running workers.
* **worker** asks whether the program of the worker fits the rules of the repository.
  `HolderGivesNothingUp`: while it holds the lease, no moment at which a cancellation arrives makes a
  call of it fail for good, which would leave a reservation open and the job unretryable.
  `CompletedJobHasEnded` and `CreatedJobEnds` relate the dispatch to the job.
* **delivery** asks whether leases, receipts and payloads can be confused: `SingleActiveHandler`,
  `SingleActivePublisher` (for as long as their leases last; after that two may overlap, and the
  properties say what is still true then), `CompletedWasHandled`, `NotInvokedAfterCompletion`.
* **delivered** asks whether everything arrives: `AppendedIsHandled` is at-least-once delivery end to
  end, from the append to the completed receipt; `CursorMovesForward` is the projection's side.
* **artifacts** asks whether two systems stay in step: `AvailableHasObject` is what a read relies on,
  `UploadedIsNeverAbandoned` and `FixtureContentIsWhole` are about lists and owners that are out of
  date when used, `TombstonedIsPurged` and `InterruptedUploadSettles` about what maintenance repairs.
* **policy** asks the questions of the replay job of a job with other rules. `GraphIsAccepted` is the
  stored-graph schema: a graph it refuses would be stuck. `WorkIsCharged` compares charges with work
  done. `AnnouncedAsItIs` compares the intents stored step by step with those derived on reading.
  `NothingReadAfterSealing` counts metadata reads that begin, not artifact bytes, whose read may end after
  the seal. `JobSettles`.

Why the bounds are enough: a plan with a retry has two attempts, so that expiry, reclaim, a stale
worker and a successor all occur, and time 5 lets a job start at 0 or 1 and see its backoff (1), both
attempts (2) and its deadline (4); the ledger of `budget` does not ask when the job started, and time 4
is enough. Leases of 1 and 2 put the expiry before, at and after the times
other things happen. Two reservations are the least with an interaction; a limit of 2, a request of 2
and usage of 3 reach the limit, exceed it and reach the representable maximum of 4 (3 + 1). Four claims
and two restores give a lost timeline, a restored one that reissues the token, and a second loss.

For `worker`, one lost answer or crash at any point, with a retry after it and a cancellation at any
moment, gives every pair the code handles; usage 3 of a budget of 2 leaves nothing for the retry. In
`delivery`, three faults let a lease lapse, its holder come back and its successor fail; in
`delivered`, two messages make batches and let the cursor meet them in either order. Artifacts share
nothing but a fixture, and every artifact property is about one, so one is checked under two uploads
and two workers; the safety properties also hold for two artifacts of one fixture with one upload and
two workers (6,068,593 states, not kept as a run for its length). In `policy` the history of 13 runs
out in some behaviours and not in others, and each limit allows the first attempt's work and refuses
part of a second's.

Bounds in guards: `MaxFaults` limits answers lost, calls failed, processes stopped and, for policy,
recoveries. In `ReplayJob`, `Tick` stops at `MaxTime`; `ClaimQueued` begins only a job whose deadline lies
within `MaxTime`. `Heartbeat` has no bound: a lease extended past `MaxTime` does not end within the model
and stands for one that is extended again and again, which the premise of `StartedJobSettles` sets aside.
Only `ReplayWorker.Beat` extends no lease past `MaxTime`. `PgClaimGranted` stops at `MaxClaims`,
`Restore` at `MaxRestores`. `MaxSafeInteger` and `MaxAccounting` stand for the code's limits, made
small where they should be met. Deadlock is not checked: a terminal job or a delivered message does
nothing any more, and the clock ends. `artifacts` does check it.

**Fairness** (`FairSpec`): weak fairness of the clock, and of the claim of the job by some worker. The
dispatch loop (`services/replay-worker/src/dispatch-loop.ts`) settles a delivery as complete only for
a terminal job or attempt and otherwise hands it back with a delay, so an unfinished job is delivered
again. Nothing is assumed of completions or acknowledgements. Of heartbeats it is assumed, in the
property and not in the specification, that every lease is at last left to run out.

* `FairWorkerSpec`: time passes while the job runs, a live worker goes on (a promise it awaits settles),
  the target ends however often the timer heartbeats under it (`WF` of `TargetEnds`: the supervisor ends it
  at the attempt's deadline, and `runUnderReplayLease` stops its timer then), and an unsettled delivery
  comes again. After the target the program heartbeats once per call, so that here leases run out.
  `Crash` is never fair.
* `FairDelivery`: leases end and rows become due with time, a publisher polls, and the transport keeps
  delivering a message until some handler takes it. The publisher and the transport are the
  deployment's; a transport that loses messages for good is not assumed away by the code and not
  covered.
* `FairLifecycle`: a live process goes on, and the operator runs `cleanup-abandoned` and `retry-purges`
  again and again, which is what these commands of
  `docs/operations/artifact-object-storage.md` are for. Strong fairness of the start, because a process that has
  taken a list is not free until it has worked it off.
* `FairSpec` of `PolicyEvaluation`: time, live workers, and redelivery of an unfinished job. The last is
  the deployment's or an operator's: the executable consumes one job and exits, and
  `docs/development/workflow-2-policy-worker-executable.md` says that "There is no queue polling,
  automatic retry, [...] or persistent scheduler". A job that nobody delivers again stays as it is.

## 4. Findings

1. **`adapter`, a code bug.** `proofstack_claim_replay_job` returns the attempt with every row,
   also when it closes an expired job or finds the retry not ready
   (`0031_enforce_replay_reclaim_deadlines.sql`). The adapter accepts an unclaimed row only if its
   attempt is null (`postgres-replay-job-worker-repository.ts:306`) and otherwise throws inside the
   tenant transaction, which rolls the closing back. So a job whose worker is gone and which may not
   be retried stays `running` however often it is claimed. The conformance suite requires the
   `terminalized` answer, but is run against the memory adapter only, and the adapter's unit tests
   mock rows with a null attempt. A job that is terminal already is answered with such a row as well
   and makes the claim throw too. With the closing actions in place, `settles` holds.
2. **`invented_cancellation`, a divergence.** The reference adapter accepts a completion as
   `cancelled` without a request; ADR-0013 describes cancellation as a request followed by an
   acknowledgement, and the PostgreSQL function refuses the call. `restore` checks that
   `CancelledOnlyOnRequest` holds there.
3. **`purged_object`, a divergence.** An upload reads the row, stores the object and activates the row.
   If the artifact is tombstoned and purged between the first and the second, the object comes back
   after the purge has deleted it; activation then fails and nothing deletes the object again, since
   `PurgeArtifact` returns early for a purged row (`upload-artifact.ts:84`, `purge-artifact.ts:56`).
   `docs/operations/backup-and-recovery.md:112` rules such an object out.

Not findings, but worth knowing: a delivery of a job that is already terminal makes the claim throw
and is handed back each time it comes (`dispatch-loop.ts:264`), so only the dispatch source can end it;
a retry whose earlier attempts used the whole budget throws before it starts, and the job ends by its
expiry; reconciliation lists the oldest reservations first, and those without an object keep their
place until cleanup removes them.

## 5. Proofs

Every invariant and every action property that a passing run checks is also proved, for any workers,
plans, identifiers, durations, limits and numbers of faults that satisfy the named assumptions of the
modules: plans are valid and lease durations positive (`JobAssumption`), the limits of a policy are
positive where their schema says so (`LimitsAssumption`), clocks and fault counts are numbers, and
`None` is no value of the sets it stands beside (`NoneAssumption`, `OutboxAssumption`,
`ReceiptAssumption`, `CatalogAssumption` and the last conjuncts of the others). The runs evaluate them. One
theorem, `WorkersImplementJob`, has a hypothesis of its own.

| Module | Extends | Proves about |
| --- | --- | --- |
| `ReplayJobProofs` | `ReplayJob` | ownership, records, cancellation, intents, the lifecycle |
| `ReplayLedgerProofs` | `ReplayJobProofs` | the budget and the retry |
| `ReplayPostgresProofs` | `ReplayJobPostgres`, `ReplayLedgerProofs` | restores |
| `ReplayWorkerProofs` | `ReplayWorker`, `ReplayJobProofs` | the worker's program |
| `DeliveryProofs` | `Delivery` | outbox, receipts, cursor |
| `ArtifactProofs` | `ArtifactLifecycle` | catalog and store |
| `PolicyJobProofs` | `PolicyEvaluation` | the transitions as functions (lemmas) |
| `PolicyProofs` | `PolicyJobProofs` | the workers over them |

**`ReplayJobProofs`**

* `OwnershipInvariant`: `Spec => []Inv`, where `Inv` is `TypeOK` with `Ownership`. The properties
  are not inductive alone: that the last attempt runs exactly when the job does needs the lease to name
  that attempt, the token of attempt *i* to be *i*, `lastFencingToken` to be their number and every
  attempt to begin no later than now. `Ownership` says this; the proof has one step per action, with one
  lemma for granting and one for committing a terminal state.
* `TypeCorrect`, `SerialAttempts` follow from it.
* `TerminalStays`: every action needs a job that is absent, queued or running.
* `CancellationDecides`: from `Inv` and `Outcome`, which adds what is known of acknowledgements and of
  the attempt a terminal record names.
* `LifecycleRefinement`: the initial state maps to the initial state and every step to a step of
  `ReplayJobLifecycle` or to a stutter. It needs that a queued job carries no cancellation request.
* `OutboxAgrees`: intents and job change together.
* `FencedRecords`: `RecordsWithinAttempt`, strengthened by the statement that a record of the current
  attempt was made before its lease expires: this is what makes the record earlier than the end the
  expiry gives to the attempt, and it survives a heartbeat because a heartbeat only moves the expiry
  past now.
* `CleanSuccess`: success is committed only with a clean ledger, and the ledger of a terminal job does
  not change.
* `EvidenceStays`: the action property `HistoryOnlyGrows`, one case per call; the attempts need `Inv`,
  by which a call only ends the last one.

**`ReplayLedgerProofs`.** `Committed` is a fold, the sums of `BudgetIsConserved` are folds over sets and
the exponential backoff is a recursive function. The library's induction rules take an operator as
parameter, which the provers cannot instantiate; `SetInduction` states induction for a *set* of
numbers instead and follows from the well-foundedness of `<`. With it a recursive definition is shown to
have a solution and any two solutions to agree (`FoldExists`, `FoldAgrees`, `SumsExist`, `TotalsAgree`,
`DelaysExist`), after which only its equations are used.

* `BudgetAddsUp` and `LedgerReadsBack`: the invariant is `LedgerInv`. Its `SoundLedger` says that
  identifiers are unique, reconciliations have their reservation, what the fold commits is the sum of
  what is held, and every prefix was readable. The prefix statement alone is not inductive, since
  whether an entry may be appended depends on what the whole ledger before it commits; the limit holds
  only together with the sum of the reported overruns.
* `RetriesStaySafe`: `EligibleRetry` is what an eligible decision says of the time at which it is acted
  on, not at which the attempt failed. For the ledger the invariant needs `Inv`: a reservation can only
  be opened under the current token, so none of an earlier attempt comes up later.

**`ReplayPostgresProofs`.** A restore brings back an earlier state, so an invariant of the current state
alone is not inductive: the same must be known of the backup. `Backup` is the proof module instantiated
with the rows of the backup, and `PgInv` states `JobSound` of the database and `BackupSound` of the
backup, with `FencesSound` between them: fences in the workers' hands are told apart by their attempt
identifier, and a live lease is of the current epoch and not of a lost timeline. `RestoreInvariant` is
its invariance for any number of restores and claims; `LostFencesStayOut`, `LiveLeasesAreUsable`,
`CancellationIsAskedFor` follow, and `RestoredAttemptsAreSerial` and `RestoredRetriesStaySafe` carry the
job's own properties over restores.

**`ReplayWorkerProofs`.**

* `CompletionsMeanTheEnd`: a runner about to settle as complete is of an ended job (`EndInv`), and an
  end stays.
* `HoldersGoOn`: the action property `HolderGivesNothingUp`. Its invariant `Holding` has a repository
  side (`Books`: the lease carries the last token, only its holder has a reservation open, nothing is
  acknowledged before it is requested) and, for each runner that still holds its fence and has lost no
  answer, what it knows (`Informed`): it has seen what it acknowledged, comes to its completion with
  settled accounts, looks into a failed completion only if an unacknowledged request is on record, and
  after that comes back with the request acknowledged. Others cannot disturb it: a call under another
  worker's current fence means that its own is stale, and a stale fence never becomes current again
  (`Advances`).
* `WorkersImplementJob`: `WorkerSpec => Spec`, so that the theorems about `ReplayJob` hold while the
  workers run. `PortTakesAll`, its hypothesis, is that the port's sets of vectors and identifiers
  include those the workers derive from their fences; the code puts no other bound on them.

**`DeliveryProofs`.** `DeliveryInvariant` is the invariance of `Inv`. Leases lapse while their holders
work, so the invariant is about tokens: every claim and every invocation has its own, and while a token
has not lapsed its row still carries it (`Publishing`, `Consuming`). `History` relates what was invoked,
what returned and what was reported to the receipts. From it `DeliveryTypes`, `OneHandlerAtATime`,
`OnePublisherAtATime`, `CompletionsWereHandled`, and the action properties `CompletionIsFinal` and
`CursorFollows`.

**`ArtifactProofs`.** `LifecycleInvariant`. `AvailableHasObject` needs to know of every process between
two of its calls: whoever is about to activate a row has seen its object or the row is gone for good,
whoever is about to delete an object has seen a tombstone (`InStep`), and tombstones are for good
(`TombstonesAreForGood`, an action property of its own). `RowsInOrder` relates tombstone, receipt and
owner. From these `LifecycleTypes`, `AvailableArtifactsAreReadable`, `CleanupSparesUploads`,
`FixturesAreWhole`.

**`PolicyJobProofs`, `PolicyProofs`.** The transitions are functions from graph to graph, so the first
module proves, once for each, that it takes a sound graph to a sound one and what it does to lease, credit
and usage (`Ends` for those that end an attempt, `Goes` for those under a lease). `PolicyInvariant` adds
the workers: what a worker between two calls may rely on (`Relies`): it reads on a credit that is still
open, or that was charged in full when the job ended behind its back; what it would settle covers what
was read; no rules have run under its lease. `WorkIsCharged` is not inductive without this, since work and
charge happen in different steps and a cancellation, an expiry or a recovery may come between. From it
`PolicyTypes`, `StoredGraphsAreAccepted`, `OutboxTellsTheGraph`, `WorkIsPaidFor` and the action property
`EvidenceIsClosed`.

`PgInv` and `Holding`, the two furthest from the properties they serve, were checked with TLC on the
instances of `restore` and `worker` before they were proved.

Only model-checked are the liveness properties `StartedJobSettles`, `CreatedJobEnds`,
`AppendedIsHandled`, `TombstonedIsPurged`, `InterruptedUploadSettles` and `JobSettles`: fairness and
`ENABLED` are out of the prover's reach.

## 6. Mutants

Each checked property has a plausible bug that breaks it, kept beside the definition it replaces under
a comment that begins with "Mutant": for instance `FenceCurrentAtExpiry` (`<=` for `<` at the expiry),
`DecisionAtExpiry` (the retry decided for the time of the expiry), `NoRecovery` (a restore without lease
invalidation).

## 7. Not modelled, and the plan

Not modelled, and why:

* API, console, SDK, OTLP normalisation: transport, validation and presentation over the modelled ports,
  without durable state;
* the contract schemas and the OpenAPI document beyond what the modules above use: they say which
  documents are well formed, one at a time;
* evaluation, comparison, model assurance, release governance, definitions and datasets beyond fixture
  ownership: immutable records inserted once, and pure functions over them. What their repositories do
  is one insert with a conflict check, which `Outbox.AppendBatch` already shows in its general form;
* policy rules and the contents of a snapshot: pure functions of what was sealed;
* cryptography, row-level security, the audit event tables, the mapping of rows to documents in the
  PostgreSQL adapters;
* the target process session and its supervisor: no durable state, seen through their results;
* the migration runner: sequential, under one advisory lock.

These make up most of the repository's lines, which is why the modelled code is a small share of them:
what changes shared state over several steps is concentrated in the modules above.

Planned, in this order:

1. Proofs: the lifecycle refinement over restores, with a restore as an abstract step of its own; the
   delivery and artifact guarantees as abstract specifications that the modules are shown to implement.
2. `ReplayJobPostgres` with transaction time: the clock read when the transaction starts, before the
   wait for the lock, so that time may step back between calls; and the restore in two steps.
3. The identity one-time transactions and the target process session.
