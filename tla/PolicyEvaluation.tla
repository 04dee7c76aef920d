---------------------------- MODULE PolicyEvaluation ---------------------------
(***************************************************************************)
(* Policy workers at one evaluation job: the attempt of                    *)
(* services/policy-worker/src/attempt.ts, with the capture of              *)
(* packages/policy-evaluation/src/capture-artifact-evidence.ts and the     *)
(* publication of publish-with-rule-reservation.ts, over a store that      *)
(* applies the transitions of PolicyEvaluationJob one at a time.           *)
(*                                                                         *)
(* Each call of a worker is one step.  It may be refused, and its answer   *)
(* may be lost after it was committed: both take the worker to its error   *)
(* path.  A worker may also stop for good at any point, or fall silent and *)
(* go on with a lease that is no longer its own.                           *)
(***************************************************************************)
EXTENDS PolicyEvaluationJob

CONSTANTS
    MaxTime,        \* bound: the clock stops here, at or after the deadline
    MaxFaults       \* bound: answers lost, workers stopped, recoveries

ASSUME PolicyBoundsAssumption ==
    /\ MaxTime \in Nat /\ MaxTime >= Deadline
    /\ MaxFaults \in Nat

VARIABLES
    graph,      \* the stored job graph
    epoch,      \* the store's recovery epoch
    outbox,     \* the intents stored with the job after the one of its creation
    now,        \* the database clock
    worker,     \* what each worker is doing
    worked,     \* the work really done, of each kind
    faults      \* faults so far

jobVars == <<graph, outbox>>
vars == <<graph, epoch, outbox, now, worker, worked, faults>>

Places == {"idle", "claiming", "admitting", "reading", "settling", "settling unknown",
           "starting", "paying", "publishing", "failing"}

\* credit and until are the worker's copies of what it was granted, read is
\* what its AcquisitionBudget has counted.
WorkerStates ==
    [pc : Places, fence : Fences \cup {None}, credit : Nat, until : Nat, read : Nat]

Idle == [pc |-> "idle", fence |-> None, credit |-> 0, until |-> 0, read |-> 0]

Init ==
    /\ graph = Created
    /\ epoch = 0
    /\ outbox = <<>>
    /\ now = 0
    /\ worker = [w \in Workers |-> Idle]
    /\ worked = NoUsage
    /\ faults = 0

\* One committed mutation of the store.
Store(next) ==
    /\ graph' = next
    /\ outbox' = outbox \o Intents(graph, next)

At(w, pc) == worker[w].pc = pc
Fence(w) == worker[w].fence

Goto(w, pc) == worker' = [worker EXCEPT ![w].pc = pc]
Stop(w) == worker' = [worker EXCEPT ![w] = Idle]

\* Where the call leads: on, or to the error path because the answer is
\* lost, or there because the store closed the job instead.
Answered(w, next, on, error) ==
    \/ /\ Goto(w, IF Terminal(next) THEN error ELSE on)
       /\ UNCHANGED faults
    \/ /\ faults < MaxFaults
       /\ faults' = faults + 1
       /\ Goto(w, error)

\* A refused call changes nothing and takes the worker to its error path.
Refused(w, error) == Goto(w, error) /\ UNCHANGED <<jobVars, faults>>

-----------------------------------------------------------------------------
(* The attempt.                                                            *)

\* A delivery begins: whatever expired is closed first.
ObserveJob(w) ==
    /\ At(w, "idle")
    /\ ~Terminal(graph)
    /\ IF MayReclaim(graph, now, epoch)
       THEN Store(Committed(graph, Reclaimed(graph, now)))
       ELSE UNCHANGED jobVars
    /\ Goto(w, "claiming")
    /\ UNCHANGED <<epoch, now, worked, faults>>

\* The claim; a lost answer leaves a lease that nobody uses.
ClaimJob(w) ==
    /\ At(w, "claiming")
    /\ MayClaim(graph, now, epoch)
    /\ LET next == Committed(graph, Claimed(graph, now, w)) IN
       /\ Store(next)
       /\ \/ /\ worker' = [worker EXCEPT ![w] =
                  IF Terminal(next) THEN Idle
                  ELSE [Idle EXCEPT !.pc = IF next.snapshot = None THEN "admitting" ELSE "paying",
                                    !.fence = next.lease.fence]]
             /\ UNCHANGED faults
          \/ /\ faults < MaxFaults
             /\ faults' = faults + 1
             /\ Stop(w)
    /\ UNCHANGED <<epoch, now, worked>>

\* The claim is refused: the delivery is deferred or the job is over.  If it
\* was refused for the deadline, the worker reclaims before it reports; a job
\* that somebody holds is refused as such before the deadline is looked at.
ClaimRefused(w) ==
    /\ At(w, "claiming")
    /\ ~MayClaim(graph, now, epoch)
    /\ IF now >= Deadline /\ graph.lease = None /\ MayReclaim(graph, now, epoch)
       THEN Store(Committed(graph, Reclaimed(graph, now)))
       ELSE UNCHANGED jobVars
    /\ Stop(w)
    /\ UNCHANGED <<epoch, now, worked, faults>>

\* reservePolicyAcquisitionForSnapshot: the credit is committed before any
\* read, and the worker may use it until the lease it was granted under ends.
AdmitAcquisition(w) ==
    /\ At(w, "admitting")
    /\ \/ /\ MayReserveAcquisition(graph, now, epoch, Fence(w))
          /\ LET next == Committed(graph, AcquisitionReserved(graph, Fence(w))) IN
             /\ Store(next)
             /\ \/ /\ worker' = [worker EXCEPT ![w] =
                        IF Terminal(next) THEN [@ EXCEPT !.pc = "failing"]
                        ELSE [@ EXCEPT !.pc = "reading", !.credit = next.allowance.credit,
                                       !.until = next.lease.expiresAt]]
                   /\ UNCHANGED faults
                \/ /\ faults < MaxFaults
                   /\ faults' = faults + 1
                   /\ Goto(w, "failing")
       \/ /\ ~MayReserveAcquisition(graph, now, epoch, Fence(w))
          /\ Refused(w, "failing")
    /\ UNCHANGED <<epoch, now, worked>>

\* AcquisitionBudget.wrap: one read of a source within the local credit and
\* the local clock, whatever has become of the job since.
ReadSource(w) ==
    /\ At(w, "reading")
    /\ now < worker[w].until
    /\ worker[w].read < worker[w].credit
    /\ worker' = [worker EXCEPT ![w].read = @ + 1]
    /\ worked' = [worked EXCEPT !["metadata"] = @ + 1]
    /\ UNCHANGED <<jobVars, epoch, now, faults>>

\* PolicyArtifactByteReservations: the bytes are paid for, then read.  The
\* read is a later step of the code, with a deadline check of its own before
\* it; here it is counted with the payment it follows.
ReadArtifact(w) ==
    /\ At(w, "reading")
    /\ now < worker[w].until
    /\ \/ /\ MayReserve(graph, now, epoch, Fence(w), "artifact", 1)
          /\ LET next == Committed(graph, Reserved(graph, "artifact", 1)) IN
             /\ Store(next)
             /\ Answered(w, next, "reading", "settling")
             /\ worked' = IF worker'[w].pc = "reading"
                          THEN [worked EXCEPT !["artifact"] = @ + 1] ELSE worked
       \/ /\ ~MayReserve(graph, now, epoch, Fence(w), "artifact", 1)
          /\ Refused(w, "settling")
          /\ UNCHANGED worked
    /\ UNCHANGED <<epoch, now>>

\* The capture fails after its reads are drained.  A read that failed after
\* it had started leaves unknown work behind.
CaptureFails(w) ==
    /\ At(w, "reading")
    /\ \/ Goto(w, "settling")
       \/ worker[w].read > 0 /\ Goto(w, "settling unknown")
    /\ UNCHANGED <<jobVars, epoch, now, worked, faults>>

\* runSealing: settlement and publication are one transaction.
MaySealHeld(w) ==
    /\ MaySettle(graph, now, epoch, Fence(w), worker[w].read)
    /\ MaySeal(Settled(graph, worker[w].read), now, epoch, Fence(w))

SealSnapshot(w) ==
    /\ At(w, "reading")
    /\ \/ /\ now < worker[w].until
          /\ MaySealHeld(w)
          /\ Store(Sealed(Settled(graph, worker[w].read)))
          /\ \/ Goto(w, "starting") /\ UNCHANGED faults
             \/ faults < MaxFaults /\ faults' = faults + 1 /\ Goto(w, "settling")
       \/ /\ now >= worker[w].until \/ ~MaySealHeld(w)
          /\ Refused(w, "settling")
    /\ UNCHANGED <<epoch, now, worked>>

\* The capture's error path: the credit is settled for what was used.
SettleAcquisition(w) ==
    \E usage \in {worker[w].read, None} :
        /\ At(w, IF usage = None THEN "settling unknown" ELSE "settling")
        /\ \/ /\ MaySettle(graph, now, epoch, Fence(w), usage)
              /\ Store(Committed(graph, Settled(graph, usage)))
              /\ Goto(w, "failing")
              /\ UNCHANGED faults
           \/ /\ ~MaySettle(graph, now, epoch, Fence(w), usage)
              /\ Refused(w, "failing")
        /\ UNCHANGED <<epoch, now, worked>>

StartComputation(w) ==
    /\ At(w, "starting")
    /\ \/ /\ MayStart(graph, now, epoch, Fence(w))
          /\ LET next == Committed(graph, Started(graph)) IN
             Store(next) /\ Answered(w, next, "paying", "failing")
       \/ /\ ~MayStart(graph, now, epoch, Fence(w))
          /\ Refused(w, "failing")
    /\ UNCHANGED <<epoch, now, worked>>

\* publishPolicyEvaluationWithReservedRules, first half: all the rules are
\* paid for in a transaction of its own.
PayRules(w) ==
    /\ At(w, "paying")
    /\ \/ /\ MayReserve(graph, now, epoch, Fence(w), "rules", RuleCount)
          /\ LET next == Committed(graph, Reserved(graph, "rules", RuleCount)) IN
             Store(next) /\ Answered(w, next, "publishing", "failing")
       \/ /\ ~MayReserve(graph, now, epoch, Fence(w), "rules", RuleCount)
          /\ Refused(w, "failing")
    /\ UNCHANGED <<epoch, now, worked>>

\* publishResult: the rules are computed inside the transaction, which may
\* still be rolled back by the fence check at its commit.
PublishResult(w) ==
    /\ At(w, "publishing")
    /\ \/ /\ MayComplete(graph, now, epoch, Fence(w))
          /\ worked' = [worked EXCEPT !["rules"] = @ + RuleCount]
          /\ \/ Store(Completed(graph)) /\ Stop(w) /\ UNCHANGED faults
             \/ /\ faults < MaxFaults /\ faults' = faults + 1
                /\ Store(Completed(graph)) \/ UNCHANGED jobVars
                /\ Goto(w, "failing")
       \/ /\ ~MayComplete(graph, now, epoch, Fence(w))
          /\ Refused(w, "failing")
          /\ UNCHANGED worked
    /\ UNCHANGED <<epoch, now>>

\* The attempt's error path: a lease that is still its own is given up, or
\* reclaimed when it has expired.
SettleAttempt(w) ==
    /\ At(w, "failing")
    /\ CASE MayInterrupt(graph, now, epoch, Fence(w), "worker_interrupted") ->
              Store(Committed(graph, Interrupted(graph, now, "worker_interrupted")))
         [] HoldsLease(graph, epoch, Fence(w)) /\ MayReclaim(graph, now, epoch) ->
              Store(Committed(graph, Reclaimed(graph, now)))
         [] OTHER -> UNCHANGED jobVars
    /\ Stop(w)
    /\ UNCHANGED <<epoch, now, worked, faults>>

WorkerStep(w) ==
    \/ ObserveJob(w) \/ ClaimJob(w) \/ ClaimRefused(w) \/ AdmitAcquisition(w)
    \/ ReadSource(w) \/ ReadArtifact(w) \/ CaptureFails(w) \/ SealSnapshot(w)
    \/ SettleAcquisition(w) \/ StartComputation(w) \/ PayRules(w)
    \/ PublishResult(w) \/ SettleAttempt(w)

-----------------------------------------------------------------------------
(* What else happens to the job.                                           *)

Crash(w) ==
    /\ ~At(w, "idle")
    /\ faults < MaxFaults
    /\ faults' = faults + 1
    /\ Stop(w)
    /\ UNCHANGED <<jobVars, epoch, now, worked>>

Heartbeat(w) ==
    /\ ~At(w, "idle")
    /\ MayHeartbeat(graph, now, epoch, Fence(w))
    /\ Store(Committed(graph, Heartbeaten(graph, now)))
    /\ UNCHANGED <<epoch, now, worker, worked, faults>>

Cancel ==
    /\ MayCancel(graph)
    /\ Store(Committed(graph, Cancelled(graph)))
    /\ UNCHANGED <<epoch, now, worker, worked, faults>>

\* recoverAllAtCurrentEpoch, after the store's epoch has moved on.  A
\* terminal job is not selected.
Recover ==
    /\ faults < MaxFaults
    /\ faults' = faults + 1
    /\ MayRecover(graph, epoch + 1)
    /\ epoch' = epoch + 1
    /\ Store(Recovered(graph, now, epoch + 1))
    /\ UNCHANGED <<now, worker, worked>>

\* The clock is not followed any further once the job is over.
Tick ==
    /\ now < MaxTime
    /\ ~Terminal(graph)
    /\ now' = now + 1
    /\ UNCHANGED <<jobVars, epoch, worker, worked, faults>>

Next ==
    \/ \E w \in Workers : WorkerStep(w) \/ Crash(w) \/ Heartbeat(w)
    \/ Cancel \/ Recover \/ Tick

Spec == Init /\ [][Next]_vars

\* Time passes, a live worker goes on with its attempt, and a job that is
\* not over is delivered again.  The last is the deployment's or an operator's
\* doing: the worker runs once per delivery, and nothing here polls or retries.
FairSpec == Spec /\ WF_vars(Tick) /\ \A w \in Workers : WF_vars(WorkerStep(w))

-----------------------------------------------------------------------------
(* Properties.                                                             *)

\* Every variable has its type.
PolicyTypeOK ==
    /\ graph \in Graphs
    /\ graph.version <= MaxHistory
    /\ Len(graph.attempts) <= MaxAttempts
    /\ graph.epoch <= epoch
    /\ epoch \in 0..MaxFaults /\ now \in 0..MaxTime /\ faults \in 0..MaxFaults
    /\ worked \in Usage
    /\ worker \in [Workers -> WorkerStates]

\* What PolicyEvaluationJobSchema and PolicyEvaluationJobSnapshotSchema refine,
\* part by part: the status and what it comes with,
StatusAgrees(g) ==
    LET n == Len(g.attempts)
    IN  /\ g.status \in Active <=> g.lease # None
        /\ g.status = "retry_ready" <=> g.retryAt # None
        /\ g.retryAt # None => n < MaxAttempts /\ n > 0 /\ g.retryAt < Deadline
        /\ g.status = "queued" => n = 0
        /\ g.status \in {"queued", "acquiring"} => g.snapshot = None
        /\ g.status \in {"sealed", "running", "completed"} => g.snapshot # None
        /\ g.status = "completed" <=> g.result # None
        /\ g.status = "cancelled" <=> g.cancelled
        /\ g.status = "completed" => n > 0 /\ g.attempts[n].closure = "completed"

\* the lease, which owns the open latest attempt,
LeaseAgrees(g) ==
    LET n == Len(g.attempts)
    IN  /\ n = 0 <=> g.token = 0
        /\ n > 0 => g.attempts[n].fence.token = g.token /\ g.attempts[n].snapshot = g.snapshot
        /\ g.lease # None <=> n > 0 /\ g.attempts[n].closure = None
        /\ g.lease # None =>
              /\ g.lease.fence = g.attempts[n].fence /\ g.lease.fence.epoch = g.epoch
              /\ g.lease.attemptDeadline = g.attempts[n].deadline
              /\ g.lease.expiresAt <= g.lease.heartbeatAt + LeaseDuration

\* the usage and the open credit, which is all that is left,
UsageAgrees(g) ==
    /\ \A k \in Kinds : g.usage[k] <= Limits[k]
    /\ g.allowance # None =>
          /\ g.status = "acquiring" /\ g.allowance.fence = g.lease.fence
          /\ g.allowance.credit > 0
          /\ g.usage["metadata"] + g.allowance.credit = Limits["metadata"]

\* each attempt by itself and against the job,
AttemptAgrees(g, a) ==
    /\ a.closure = None <=> a.usageAtClose = None
    /\ a.closure = "completed" => a.snapshot # None
    /\ a.deadline = UpTo(a.startedAt, AttemptTimeout, Deadline)
    /\ a.startedAt < a.deadline
    /\ a.fence.epoch <= g.epoch
    /\ \A k \in Kinds : a.usageAtStart[k] <= g.usage[k]
    /\ a.closure # None => \A k \in Kinds :
          a.usageAtStart[k] <= a.usageAtClose[k] /\ a.usageAtClose[k] <= g.usage[k]

\* and each attempt against the next.
AttemptFollows(a, b) ==
    /\ a.closure # None
    /\ a.fence.token < b.fence.token /\ a.fence.epoch <= b.fence.epoch
    /\ a.snapshot # None => b.snapshot = a.snapshot
    /\ \A k \in Kinds : a.usageAtClose[k] <= b.usageAtStart[k]

Accepted(g) ==
    /\ StatusAgrees(g) /\ LeaseAgrees(g) /\ UsageAgrees(g)
    /\ \A i \in 1..Len(g.attempts) : AttemptAgrees(g, g.attempts[i])
    /\ \A i \in 1..(Len(g.attempts) - 1) : AttemptFollows(g.attempts[i], g.attempts[i + 1])

\* PolicyEvaluationJobSnapshotSchema accepts every graph that is stored, as
\* far as Accepted goes, which leaves out the refinements on receipt times
\* (updatedAt, committedAt).  The transitions parse what they return and the
\* stores parse what they read: a graph that is refused could be neither
\* reclaimed nor cancelled any more.
GraphIsAccepted == Accepted(graph)

\* Whatever workers did, be they cut off, superseded or wrong about what was
\* committed, is within the job's charges, and these are within its limits.
WorkIsCharged ==
    \A k \in Kinds :
        LET charged == graph.usage[k] + (IF k = "metadata" THEN Credit(graph) ELSE 0) IN
        worked[k] <= charged /\ charged <= Limits[k]

\* The outbox holds what buildPolicyEvaluationJobOutboxIntents derives from
\* the stored graph alone: one terminal intent with the status, the version
\* and the result the job still has.  inspectStored refuses anything else.
AnnouncedAsItIs == outbox = Intents(Created, graph)

\* The sealed snapshot is the whole evidence of the evaluation: it is never
\* replaced, and no worker, not even one that lost its lease, begins another
\* metadata read of the job's sources after it was sealed.  Reads of artifact
\* bytes are not counted here.
NothingReadAfterSealing ==
    [][graph.snapshot # None => /\ graph'.snapshot = graph.snapshot
                                /\ worked'["metadata"] = worked["metadata"]]_vars

\* Under fairness the job comes to an end: somebody finds out that its
\* lease, its deadline or its history has run out.
JobSettles == <>Terminal(graph)
===============================================================================
