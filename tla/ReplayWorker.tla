----------------------------- MODULE ReplayWorker -----------------------------
(***************************************************************************)
(* Replay workers at one job: the dispatch loop of                         *)
(* services/replay-worker/src/dispatch-loop.ts, the attempt runner it      *)
(* calls and the heartbeats the runner sends while its target executes,    *)
(* as clients of the repository that ReplayJob models.                     *)
(*                                                                         *)
(* Each repository call is one step.  The repository may refuse it, its    *)
(* answer may be lost after it was committed, and a worker may stop at any *)
(* point.  The dispatch source delivers the job again until a delivery is  *)
(* settled as complete, and may deliver it to two workers at a time.  The  *)
(* target process is seen only through the result its supervisor reports.  *)
(***************************************************************************)
EXTENDS ReplayJob

CONSTANT
    MaxFaults   \* bound: answers lost and workers stopped

ASSUME WorkerAssumption == MaxFaults \in Nat

VARIABLES
    runner,     \* what each worker is doing
    delivery,   \* "open" until some delivery of the job is settled as complete
    faults      \* faults so far

allVars == <<vars, runner, delivery, faults>>

\* beat: the heartbeat before the call was answered; seen: the snapshot the
\* runner works with has a cancellation request; raced: a first completion
\* has failed; lost: an answer it waited for was lost; until:
\* when the supervisor stops the target.
Idle == [pc |-> "idle", beat |-> FALSE, fence |-> None, result |-> None,
         seen |-> FALSE, raced |-> FALSE, lost |-> FALSE, until |-> 0]

WorkerInit ==
    /\ Init
    /\ runner = [w \in Workers |-> Idle]
    /\ delivery = "open"
    /\ faults = 0

-----------------------------------------------------------------------------
(* Steps of a runner.                                                      *)

At(w, pc) == runner[w].pc = pc
FenceOf(w) == runner[w].fence

\* A request is on record, and this runner has acknowledged it.  Nobody else
\* acknowledges under its fence, so its snapshot agrees with the store.
Requested == cancellationRequest # None
Acknowledged(w) == \E a \in acknowledgements : sameFence(a.fence, FenceOf(w))

Become(w, state) == runner' = [runner EXCEPT ![w] = state]
Goto(w, pc) == Become(w, [runner[w] EXCEPT !.pc = pc, !.beat = FALSE])

\* An error of the attempt: processDelivery hands the delivery back.
Thrown == [Idle EXCEPT !.pc = "retrying"]

\* The call is answered and the runner goes on, or its answer is lost and
\* the runner takes its error path.
Answered(w, state, error) ==
    \/ Become(w, state) /\ UNCHANGED faults
    \/ /\ faults < MaxFaults
       /\ faults' = faults + 1
       /\ Become(w, [error EXCEPT !.lost = TRUE])

\* A refused call changes nothing in the repository.
Refused == UNCHANGED <<vars, faults>>

-----------------------------------------------------------------------------
(* The dispatch loop.                                                      *)

\* What claimJob would do now.
Closes == LeaseExpired /\ (Requested \/ OpenReservations(ledger) # {} \/ ~RetryDecision.eligible)
Grants ==
    \/ status = "queued"
    \/ LeaseExpired /\ ~Closes /\ clock >= RetryDecision.notBefore

\* A delivery arrives, and processDelivery claims the job: it is this
\* worker's, or the claim has closed it, or it is deferred or refused and
\* the delivery is handed back.
ReceiveAndClaim(w) ==
    /\ At(w, "idle")
    /\ delivery = "open"
    /\ status # "absent"
    /\ \/ /\ Grants
          /\ Claim(w, Current + 1, recoveryEpoch)
          /\ Answered(w, [Idle EXCEPT !.pc = "beginning", !.fence = lease'.fence], Thrown)
       \/ /\ Closes
          /\ Claim(w, Current + 1, recoveryEpoch)
          /\ Answered(w, [Idle EXCEPT !.pc = "completing"], Thrown)
       \/ /\ ~Grants /\ ~Closes
          /\ Refused
          /\ Become(w, Thrown)
    /\ UNCHANGED delivery

\* Mutant: a delivery that comes back is dropped.
SettleOnce(w) ==
    /\ runner[w].pc \in {"completing", "retrying"}
    /\ delivery' = "completed"
    /\ Become(w, Idle)
    /\ UNCHANGED <<vars, faults>>

\* settle: complete, or retry, which leaves the delivery to come again.
Settle(w) ==
    /\ runner[w].pc \in {"completing", "retrying"}
    /\ delivery' = IF At(w, "completing") THEN "completed" ELSE delivery
    /\ Become(w, Idle)
    /\ UNCHANGED <<vars, faults>>

-----------------------------------------------------------------------------
(* The attempt runner.                                                     *)

\* Where the runner goes with the snapshot of its last call: it acknowledges
\* a request it has not acknowledged yet, settles its accounts, completes.
Accounts(w) == IF FenceOf(w).token \in OpenReservations(ledger') THEN "metering" ELSE "finishing"
Onward(w) == IF Requested /\ ~Acknowledged(w) THEN "observing" ELSE Accounts(w)

\* Mutant: a completion that fails is final.
CompletionFailed(w) == Thrown

\* completeWithCancellationRace: the first failure to complete is looked
\* into, the second is not.
NotCompleted(w) ==
    IF runner[w].raced THEN Thrown ELSE [runner[w] EXCEPT !.pc = "racing", !.beat = FALSE]

attemptDeadline ==
    Least(clock + plan.retryPolicy.perAttemptTimeout, startedAt + plan.retryPolicy.totalDeadline)

\* What the answer to a heartbeat at this point makes of the runner.
Beaten(w) ==
    LET now == [runner[w] EXCEPT !.seen = Requested]
        unacknowledged == Requested /\ ~Acknowledged(w)
    IN  CASE At(w, "beginning") ->
               IF Requested THEN [now EXCEPT !.pc = "recording", !.result = "failed"]
                            ELSE [now EXCEPT !.pc = "loading"]
          [] At(w, "leasing") -> [now EXCEPT !.pc = "executing", !.until = attemptDeadline]
          [] At(w, "executing") -> now
          [] At(w, "racing") ->
               IF unacknowledged THEN [now EXCEPT !.pc = "observing", !.raced = TRUE] ELSE Thrown
          [] At(w, "finishing") /\ unacknowledged -> NotCompleted(w)
          [] OTHER -> [now EXCEPT !.beat = TRUE]

\* What a heartbeat that fails makes of it.  While the target executes, the
\* target is aborted first.
Unbeaten(w) ==
    CASE At(w, "executing") -> [runner[w] EXCEPT !.pc = "aborting"]
      [] At(w, "finishing") -> NotCompleted(w)
      [] OTHER -> Thrown

Beating == {"beginning", "reserving", "leasing", "executing", "recording", "observing",
            "acknowledging", "metering", "reconciling", "finishing", "racing"}

\* heartbeatJob, before each call and, while the target executes, from the
\* timer of runUnderReplayLease.  The clock ends at MaxTime, and no lease is
\* extended past it.
Beat(w) ==
    /\ runner[w].pc \in Beating /\ ~runner[w].beat
    /\ \/ /\ \E d \in LeaseDurations : clock + d <= MaxTime /\ Heartbeat(FenceOf(w), d)
          /\ Answered(w, Beaten(w), Unbeaten(w))
       \/ /\ ~assertCurrentFence(FenceOf(w))
          /\ Refused
          /\ Become(w, Unbeaten(w))
    /\ UNCHANGED delivery

\* reservationAmounts: all that is left, and something in every dimension.
Remaining == [d \in Dimensions |-> plan.budget[d] - Committed(ledger)[d]]
NothingLeft == \E d \in Dimensions : Remaining[d] < 1

\* The plan and the release are looked up and checked; without them the
\* attempt fails before anything is reserved.
LoadDefinitions(w) ==
    /\ At(w, "loading")
    /\ \/ ~NothingLeft /\ Goto(w, "reserving")
       \/ NothingLeft /\ Become(w, Thrown)
       \/ Become(w, [runner[w] EXCEPT !.pc = "recording", !.result = "failed"])
    /\ UNCHANGED <<vars, delivery, faults>>

\* runUnderReplayLease returns: the target ended by itself, or was stopped
\* because of a request that was seen, a shutdown or its deadline.  Every
\* result that is neither completed nor deadline_reached is "failed" here.
\* After a failed heartbeat the result is dropped.
TargetEnds(w) ==
    /\ \/ /\ At(w, "executing")
          /\ \E result \in IF clock < runner[w].until THEN {"completed", "failed"}
                            ELSE {"deadline_reached"} :
                Become(w, [runner[w] EXCEPT !.pc = "recording", !.result = result, !.until = 0])
       \/ At(w, "aborting") /\ Become(w, Thrown)
    /\ UNCHANGED <<vars, delivery, faults>>

\* The outcome the runner asks for: the first that applies.
completionCommand(w) ==
    CASE runner[w].seen -> <<"cancelled", "cancellation_committed">>
      [] ~runner[w].seen /\ Overruns(ledger) # {} -> <<"budget_exhausted", "budget_limit_reached">>
      [] OTHER -> CASE runner[w].result = "completed" -> <<"succeeded", "completed">>
                    [] runner[w].result = "deadline_reached" -> <<"timed_out", "deadline_reached">>
                    [] OTHER -> <<"failed", "execution_failed">>

\* The identifiers are derived from the fence and the purpose of the record.
StableId(w, purpose) == <<FenceOf(w).token, purpose>>

\* The calls that follow a heartbeat, each with where it leads.  One
\* observation stands for each batch that is appended one by one.
Call(w) ==
    /\ runner[w].beat
    /\ \/ /\ At(w, "reserving")
          /\ Reserve(FenceOf(w), FenceOf(w).token, Remaining)
          /\ Answered(w, [runner[w] EXCEPT !.pc = "leasing", !.beat = FALSE], Thrown)
       \/ /\ At(w, "recording")
          /\ AppendObservation(FenceOf(w), StableId(w, "execution"), "execution")
          /\ Answered(w, [runner[w] EXCEPT !.pc = Onward(w), !.beat = FALSE], Thrown)
       \/ /\ At(w, "observing")
          /\ AppendObservation(FenceOf(w), StableId(w, "cancellation"), "cancellation")
          /\ Answered(w, [runner[w] EXCEPT !.pc = "acknowledging", !.beat = FALSE], Thrown)
       \/ /\ At(w, "acknowledging")
          /\ Acknowledge(FenceOf(w), FenceOf(w).token)
          /\ Answered(w, [runner[w] EXCEPT !.pc = Accounts(w), !.beat = FALSE], Thrown)
       \/ /\ At(w, "metering")
          /\ AppendObservation(FenceOf(w), StableId(w, "usage"), "usage")
          /\ Answered(w, [runner[w] EXCEPT !.pc = "reconciling", !.beat = FALSE], Thrown)
       \/ /\ At(w, "reconciling")
          /\ \E r \in Reservations(ledger), u \in Usages : Reconcile(FenceOf(w), r, u)
          /\ Answered(w, [runner[w] EXCEPT !.pc = Onward(w), !.beat = FALSE], Thrown)
       \/ /\ At(w, "finishing")
          /\ CompleteJob(FenceOf(w), completionCommand(w)[1], completionCommand(w)[2])
          /\ Answered(w, [Idle EXCEPT !.pc = "completing"], NotCompleted(w))
    /\ UNCHANGED delivery

\* The call is refused: the fence is lost, or, for a completion, a request
\* came in after its heartbeat.
CallRefused(w) ==
    /\ runner[w].beat
    /\ \/ /\ ~assertCurrentFence(FenceOf(w))
          /\ ~At(w, "finishing")
          /\ Become(w, Thrown)
       \/ /\ At(w, "finishing")
          /\ \/ ~assertCurrentFence(FenceOf(w))
             \/ ~AccountingPermits(completionCommand(w)[1])
             \/ ~CancellationPermits(FenceOf(w), completionCommand(w)[1])
          /\ Become(w, NotCompleted(w))
    /\ Refused
    /\ UNCHANGED delivery

RunnerStep(w) ==
    \/ ReceiveAndClaim(w) \/ Settle(w) \/ Beat(w) \/ LoadDefinitions(w)
    \/ TargetEnds(w) \/ Call(w) \/ CallRefused(w)

Crash(w) ==
    /\ ~At(w, "idle")
    /\ faults < MaxFaults
    /\ faults' = faults + 1
    /\ Become(w, Idle)
    /\ UNCHANGED <<vars, delivery>>

-----------------------------------------------------------------------------
(* The other parties.  Nothing depends on how long a job has been queued or *)
(* has been over, so time is followed only while it runs.                   *)

Control ==
    /\ \/ \E p \in Plans : CreateJob(p, 0)
       \/ CancelQueued
       \/ CancelRunning
       \/ status = "running" /\ Tick
    /\ UNCHANGED <<runner, delivery, faults>>

WorkerNext == Control \/ \E w \in Workers : RunnerStep(w) \/ Crash(w)

WorkerSpec == WorkerInit /\ [][WorkerNext]_allVars

\* Time passes, a live worker goes on, however often it heartbeats the target
\* it awaits ends (the supervisor ends it at the attempt's deadline), and a
\* delivery that was not completed comes again.
FairWorkerSpec ==
    /\ WorkerSpec
    /\ WF_allVars(status = "running" /\ Tick /\ UNCHANGED <<runner, delivery, faults>>)
    /\ \A w \in Workers : WF_allVars(RunnerStep(w)) /\ WF_allVars(TargetEnds(w))

-----------------------------------------------------------------------------
(* Properties.                                                             *)

\* A runner that holds its lease is refused nothing: it gives its attempt up
\* only if an answer was lost, its fence is no longer current, or no budget
\* was left for it to begin with.  No moment at which a cancellation arrives
\* makes it abandon a job it still owns with a reservation open.
HolderGivesNothingUp ==
    [][\A w \in Workers :
          FenceOf(w) # None /\ runner'[w].pc = "retrying" =>
              \/ runner[w].lost \/ runner'[w].lost
              \/ ~assertCurrentFence(FenceOf(w))
              \/ At(w, "aborting")
              \/ At(w, "loading") /\ NothingLeft]_allVars

\* Only an ended job stops being dispatched.
CompletedJobHasEnded == delivery = "completed" => status \in TerminalStatuses

\* Under fairness every job that was created comes to an end.
CreatedJobEnds == status = "queued" ~> status \in TerminalStatuses
===============================================================================
