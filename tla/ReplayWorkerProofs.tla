-------------------------- MODULE ReplayWorkerProofs --------------------------
(***************************************************************************)
(* Proofs about the replay workers: only an ended job stops being          *)
(* dispatched, and whatever the workers, their faults and their races do   *)
(* to the repository is a behaviour of ReplayJob, so that its theorems     *)
(* hold of the whole, and a runner that holds its lease gives nothing up.  *)
(***************************************************************************)
EXTENDS ReplayWorker, ReplayJobProofs

------------------------------------------------------------------------------
(* What a step makes of a runner *)

Ended == status \in TerminalStatuses

\* The points at which a runner holds a fence.
Working == Beating \cup {"loading", "aborting"}

\* A runner's next state x: it is about to settle as complete only if the job
\* has ended, and while it works it holds the fence it held or the one it was
\* just given.
Moved(w, x) ==
    /\ DOMAIN x = DOMAIN Idle
    /\ x.pc = "completing" => Ended'
    /\ x.pc \notin Working => x.fence = None
    /\ x.pc \in Working =>
         \/ runner[w].pc \in Working /\ x.fence = runner[w].fence
         \/ status' = "running" /\ x.fence = lease'.fence /\ x.fence.worker = w

\* A runner that threw, or is idle again, holds nothing.
LEMMA ThrownMoved ==
    ASSUME NEW w
    PROVE  Moved(w, Idle) /\ Moved(w, Thrown) /\ Moved(w, [Thrown EXCEPT !.lost = TRUE])
BY DEF Moved, Idle, Thrown, Working, Beating

\* One that goes on keeps its fence.
LEMMA OnwardMoved ==
    ASSUME NEW w, DOMAIN runner[w] = DOMAIN Idle, runner[w].pc \in Working,
           NEW x, DOMAIN x = DOMAIN Idle, x.fence = runner[w].fence, x.pc \in Working
    PROVE  Moved(w, x) /\ Moved(w, [x EXCEPT !.lost = TRUE])
BY DEF Moved, Working, Beating, Idle

\* So does one whose point of execution, and what it knows, is updated.
LEMMA UpdatedMoved ==
    ASSUME NEW w, DOMAIN runner[w] = DOMAIN Idle, runner[w].pc \in Working,
           NEW r, DOMAIN r = DOMAIN Idle, r.fence = runner[w].fence, r.pc \in Working,
           NEW p \in Working, NEW v
    PROVE  /\ Moved(w, [r EXCEPT !.beat = v])
           /\ Moved(w, [r EXCEPT !.pc = p])
           /\ Moved(w, [[r EXCEPT !.pc = p] EXCEPT !.lost = TRUE])
           /\ Moved(w, [r EXCEPT !.pc = p, !.beat = v])
           /\ Moved(w, [[r EXCEPT !.pc = p, !.beat = v] EXCEPT !.lost = TRUE])
           /\ Moved(w, [r EXCEPT !.pc = p, !.raced = v])
           /\ Moved(w, [r EXCEPT !.pc = p, !.until = v])
           /\ Moved(w, [r EXCEPT !.pc = p, !.result = v])
           /\ Moved(w, [r EXCEPT !.pc = p, !.result = v, !.until = 0])
<1>1. ASSUME NEW x, DOMAIN x = DOMAIN Idle, x.fence = runner[w].fence, x.pc \in Working
      PROVE  Moved(w, x)
  BY <1>1, OnwardMoved
<1>2. ASSUME NEW x, x \in {[r EXCEPT !.beat = v], [r EXCEPT !.pc = p],
                           [[r EXCEPT !.pc = p] EXCEPT !.lost = TRUE],
                           [r EXCEPT !.pc = p, !.beat = v],
                           [[r EXCEPT !.pc = p, !.beat = v] EXCEPT !.lost = TRUE],
                           [r EXCEPT !.pc = p, !.raced = v], [r EXCEPT !.pc = p, !.until = v],
                           [r EXCEPT !.pc = p, !.result = v],
                           [r EXCEPT !.pc = p, !.result = v, !.until = 0]}
      PROVE  DOMAIN x = DOMAIN Idle /\ x.fence = runner[w].fence /\ x.pc \in Working
  BY <1>2 DEF Idle
<1>3. ASSUME NEW x, x \in {[r EXCEPT !.beat = v], [r EXCEPT !.pc = p],
                           [[r EXCEPT !.pc = p] EXCEPT !.lost = TRUE],
                           [r EXCEPT !.pc = p, !.beat = v],
                           [[r EXCEPT !.pc = p, !.beat = v] EXCEPT !.lost = TRUE],
                           [r EXCEPT !.pc = p, !.raced = v], [r EXCEPT !.pc = p, !.until = v],
                           [r EXCEPT !.pc = p, !.result = v],
                           [r EXCEPT !.pc = p, !.result = v, !.until = 0]}
      PROVE  Moved(w, x)
  BY <1>1, <1>2, <1>3
<1> QED BY <1>3

\* An answer that comes or is lost.
LEMMA AnsweredMoved ==
    ASSUME NEW w, NEW state, NEW error, Answered(w, state, error),
           Moved(w, state), Moved(w, [error EXCEPT !.lost = TRUE])
    PROVE  \E x : Become(w, x) /\ Moved(w, x)
BY DEF Answered

\* The claim that is granted, and the one that closes an expired job.
LEMMA ClaimOutcome ==
    ASSUME NEW w \in Workers, Claim(w, Current + 1, recoveryEpoch)
    PROVE  /\ Grants => status' = "running" /\ lease'.fence.worker = w
           /\ Closes => Ended'
<1> USE DEF Claim, ClaimQueued, ReclaimExpired, CloseCancelled, CloseUnreconciled, CloseBlocked
<1>1. Grants => status' = "running" /\ lease'.fence.worker = w
  BY DEF Grants, Closes, Requested, Grant, LeaseExpired
<1>2. ASSUME Closes PROVE Ended'
  <2>1. PICK s, code : s \in TerminalStatuses /\ TerminalizeExpired(s, code)
    BY <1>2, CloseReasonType DEF Closes, Requested, LeaseExpired, TerminalStatuses
  <2> QED BY <2>1 DEF TerminalizeExpired, CommitTerminal, Ended
<1> QED BY <1>1, <1>2

\* Receiving a delivery, claiming, and settling.
LEMMA DispatchMoved ==
    ASSUME NEW w \in Workers, ReceiveAndClaim(w) \/ Settle(w)
    PROVE  \E x : Become(w, x) /\ Moved(w, x)
<1>1. CASE Settle(w)
  BY <1>1, ThrownMoved DEF Settle
<1>2. CASE Grants /\ Claim(w, Current + 1, recoveryEpoch)
           /\ Answered(w, [Idle EXCEPT !.pc = "beginning", !.fence = lease'.fence], Thrown)
  <2> DEFINE x == [Idle EXCEPT !.pc = "beginning", !.fence = lease'.fence]
  <2>1. DOMAIN x = DOMAIN Idle /\ x.pc = "beginning" /\ x.fence = lease'.fence
    BY DEF Idle
  <2>2. status' = "running" /\ lease'.fence.worker = w
    BY <1>2, ClaimOutcome
  <2> HIDE DEF x
  <2>3. Moved(w, x)
    BY <2>1, <2>2 DEF Moved, Working, Beating
  <2>4. Answered(w, x, Thrown)
    BY <1>2 DEF x
  <2> QED BY <2>3, <2>4, ThrownMoved, AnsweredMoved
<1>3. CASE Closes /\ Claim(w, Current + 1, recoveryEpoch)
           /\ Answered(w, [Idle EXCEPT !.pc = "completing"], Thrown)
  <2> DEFINE x == [Idle EXCEPT !.pc = "completing"]
  <2>1. DOMAIN x = DOMAIN Idle /\ x.pc = "completing" /\ x.fence = None
    BY DEF Idle
  <2>2. Ended'
    BY <1>3, ClaimOutcome
  <2> HIDE DEF x
  <2>3. Moved(w, x)
    BY <2>1, <2>2 DEF Moved, Working, Beating
  <2>4. Answered(w, x, Thrown)
    BY <1>3 DEF x
  <2> QED BY <2>3, <2>4, ThrownMoved, AnsweredMoved
<1> QED BY <1>1, <1>2, <1>3, ThrownMoved DEF ReceiveAndClaim

\* The state a failed completion leaves behind.
LEMMA NotCompletedMoved ==
    ASSUME NEW w, DOMAIN runner[w] = DOMAIN Idle, runner[w].pc \in Working
    PROVE  Moved(w, NotCompleted(w)) /\ Moved(w, [NotCompleted(w) EXCEPT !.lost = TRUE])
<1> DEFINE x == [runner[w] EXCEPT !.pc = "racing", !.beat = FALSE]
<1>1. "racing" \in Working
  BY DEF Working, Beating
<1>2. Moved(w, x) /\ Moved(w, [x EXCEPT !.lost = TRUE])
  BY <1>1, UpdatedMoved
<1>3. NotCompleted(w) = Thrown \/ NotCompleted(w) = x
  BY DEF NotCompleted
<1> QED BY <1>2, <1>3, ThrownMoved

\* A heartbeat, answered or not.
LEMMA BeatMoved ==
    ASSUME NEW w, DOMAIN runner[w] = DOMAIN Idle, Beat(w)
    PROVE  \E x : Become(w, x) /\ Moved(w, x)
<1>1. runner[w].pc \in Working /\ runner[w].pc \in Beating
  BY DEF Beat, Working
<1>2. /\ \A p \in Working : p # "completing"
      /\ {"recording", "loading", "executing", "observing", "aborting"} \subseteq Working
  BY DEF Working, Beating
<1>3. Moved(w, Beaten(w))
  <2> DEFINE now == [runner[w] EXCEPT !.seen = Requested]
  <2>1. DOMAIN now = DOMAIN Idle /\ now.fence = runner[w].fence /\ now.pc = runner[w].pc
    BY DEF Idle
  <2>2. Beaten(w) = CASE At(w, "beginning") ->
                           IF Requested THEN [now EXCEPT !.pc = "recording", !.result = "failed"]
                                        ELSE [now EXCEPT !.pc = "loading"]
                      [] At(w, "leasing") ->
                           [now EXCEPT !.pc = "executing", !.until = attemptDeadline]
                      [] At(w, "executing") -> now
                      [] At(w, "racing") ->
                           IF Requested /\ ~Acknowledged(w)
                           THEN [now EXCEPT !.pc = "observing", !.raced = TRUE] ELSE Thrown
                      [] At(w, "finishing") /\ (Requested /\ ~Acknowledged(w)) -> NotCompleted(w)
                      [] OTHER -> [now EXCEPT !.beat = TRUE]
    BY DEF Beaten
  <2> HIDE DEF now
  <2>3. \/ Beaten(w) \in {now, Thrown, NotCompleted(w), [now EXCEPT !.beat = TRUE],
                          [now EXCEPT !.pc = "recording", !.result = "failed"],
                          [now EXCEPT !.pc = "loading"],
                          [now EXCEPT !.pc = "executing", !.until = attemptDeadline],
                          [now EXCEPT !.pc = "observing", !.raced = TRUE]}
    BY <2>2 DEF At
  <2>4. /\ Moved(w, now)
        /\ Moved(w, [now EXCEPT !.beat = TRUE])
        /\ Moved(w, [now EXCEPT !.pc = "recording", !.result = "failed"])
        /\ Moved(w, [now EXCEPT !.pc = "loading"])
        /\ Moved(w, [now EXCEPT !.pc = "executing", !.until = attemptDeadline])
        /\ Moved(w, [now EXCEPT !.pc = "observing", !.raced = TRUE])
    BY <1>1, <1>2, <2>1, OnwardMoved, UpdatedMoved
  <2> QED BY <1>1, <2>3, <2>4, ThrownMoved, NotCompletedMoved
<1>4. Moved(w, Unbeaten(w)) /\ Moved(w, [Unbeaten(w) EXCEPT !.lost = TRUE])
  <2> DEFINE x == [runner[w] EXCEPT !.pc = "aborting"]
  <2>1. Moved(w, x) /\ Moved(w, [x EXCEPT !.lost = TRUE])
    BY <1>1, <1>2, UpdatedMoved
  <2>2. Unbeaten(w) = x \/ Unbeaten(w) = NotCompleted(w) \/ Unbeaten(w) = Thrown
    BY DEF Unbeaten
  <2> QED BY <1>1, <2>1, <2>2, ThrownMoved, NotCompletedMoved
<1> QED BY <1>3, <1>4, AnsweredMoved DEF Beat

\* The steps between the calls.
LEMMA TargetMoved ==
    ASSUME NEW w, DOMAIN runner[w] = DOMAIN Idle, LoadDefinitions(w) \/ TargetEnds(w)
    PROVE  \E x : Become(w, x) /\ Moved(w, x)
<1>1. {"loading", "executing", "reserving", "recording"} \subseteq Working
  BY DEF Working, Beating
<1>2. CASE \E x : x = Thrown /\ Become(w, x)
  BY <1>2, ThrownMoved
<1>3. CASE LoadDefinitions(w) /\ Goto(w, "reserving")
  <2>1. runner[w].pc \in Working
    BY <1>1, <1>3 DEF LoadDefinitions, At
  <2>2. Moved(w, [runner[w] EXCEPT !.pc = "reserving", !.beat = FALSE])
    BY <1>1, <2>1, UpdatedMoved
  <2> QED BY <1>3, <2>2 DEF Goto
<1>4. CASE LoadDefinitions(w)
           /\ Become(w, [runner[w] EXCEPT !.pc = "recording", !.result = "failed"])
  <2>1. runner[w].pc \in Working
    BY <1>1, <1>4 DEF LoadDefinitions, At
  <2>2. Moved(w, [runner[w] EXCEPT !.pc = "recording", !.result = "failed"])
    BY <1>1, <2>1, UpdatedMoved
  <2> QED BY <1>4, <2>2
<1>5. ASSUME NEW result, At(w, "executing"),
             Become(w, [runner[w] EXCEPT !.pc = "recording", !.result = result, !.until = 0])
      PROVE  \E x : Become(w, x) /\ Moved(w, x)
  <2>1. runner[w].pc \in Working
    BY <1>1, <1>5 DEF At
  <2>2. Moved(w, [runner[w] EXCEPT !.pc = "recording", !.result = result, !.until = 0])
    BY <1>1, <2>1, UpdatedMoved
  <2> QED BY <1>5, <2>2
<1> QED BY <1>2, <1>3, <1>4, <1>5 DEF LoadDefinitions, TargetEnds

\* The calls that follow a heartbeat, carried out or refused.
LEMMA CallMoved ==
    ASSUME NEW w, DOMAIN runner[w] = DOMAIN Idle, Call(w) \/ CallRefused(w)
    PROVE  \E x : Become(w, x) /\ Moved(w, x)
<1>1. /\ {"reserving", "recording", "observing", "acknowledging", "metering", "reconciling",
          "finishing", "leasing"} \subseteq Working
      /\ Accounts(w) \in Working /\ Onward(w) \in Working
  BY DEF Working, Beating, Accounts, Onward
<1>2. ASSUME NEW p \in Working, runner[w].pc \in Working,
             Answered(w, [runner[w] EXCEPT !.pc = p, !.beat = FALSE], Thrown)
      PROVE  \E x : Become(w, x) /\ Moved(w, x)
  <2>1. Moved(w, [runner[w] EXCEPT !.pc = p, !.beat = FALSE])
    BY <1>2, UpdatedMoved
  <2> QED BY <1>2, <2>1, ThrownMoved, AnsweredMoved
<1>3. CASE At(w, "finishing") /\ CompleteJob(FenceOf(w), completionCommand(w)[1], completionCommand(w)[2])
           /\ Answered(w, [Idle EXCEPT !.pc = "completing"], NotCompleted(w))
  <2> DEFINE x == [Idle EXCEPT !.pc = "completing"]
  <2>1. DOMAIN x = DOMAIN Idle /\ x.pc = "completing" /\ x.fence = None
    BY DEF Idle
  <2>2. Ended'
    <3>1. completionCommand(w)[1] \in TerminalStatuses
      BY DEF completionCommand, TerminalStatuses
    <3> QED BY <1>3, <3>1 DEF CompleteJob, CommitTerminal, Ended
  <2> HIDE DEF x
  <2>3. Moved(w, x)
    BY <2>1, <2>2 DEF Moved, Working, Beating
  <2>4. Answered(w, x, NotCompleted(w)) /\ runner[w].pc \in Working
    BY <1>1, <1>3 DEF x, At
  <2> QED BY <2>3, <2>4, NotCompletedMoved, AnsweredMoved
<1>4. CASE CallRefused(w)
  BY <1>1, <1>4, ThrownMoved, NotCompletedMoved DEF CallRefused, At
<1>5. CASE Call(w)
  BY <1>1, <1>2, <1>3, <1>5 DEF Call, At
<1> QED BY <1>4, <1>5

\* Every step of a runner, and a crash, moves that runner and no other.
LEMMA RunnerMoved ==
    ASSUME NEW w \in Workers, DOMAIN runner[w] = DOMAIN Idle, RunnerStep(w) \/ Crash(w)
    PROVE  \E x : Become(w, x) /\ Moved(w, x)
<1>1. CASE Crash(w)
  BY <1>1, ThrownMoved DEF Crash
<1> QED BY <1>1, DispatchMoved, BeatMoved, TargetMoved, CallMoved DEF RunnerStep

------------------------------------------------------------------------------
(* Only an ended job stops being dispatched *)

\* No step of a worker or of the control plane takes a job out of its end.
LEMMA EndStays ==
    ASSUME Ended, [WorkerNext]_allVars
    PROVE  Ended'
<1> USE DEF Ended, TerminalStatuses
<1>1. CASE UNCHANGED vars \/ Control
  BY <1>1 DEF vars, jobVars, Control, CreateJob, CancelQueued, CancelRunning, Tick
<1>2. ASSUME NEW w \in Workers, RunnerStep(w) \/ Crash(w) PROVE Ended'
  BY <1>1, <1>2 DEF RunnerStep, Crash, ReceiveAndClaim, Claim, ClaimQueued, ReclaimExpired,
     CloseCancelled, CloseUnreconciled, CloseBlocked, LeaseExpired, Refused, Settle, Beat,
     Heartbeat, LoadDefinitions, TargetEnds, Call, CallRefused, Reserve, AppendObservation,
     Acknowledge, Reconcile, CompleteJob, assertCurrentFence
<1> QED BY <1>1, <1>2 DEF WorkerNext, allVars

\* A runner that is about to settle its delivery as complete, like a delivery
\* that was, is of an ended job.
EndInv ==
    /\ runner = [w \in Workers |-> runner[w]]
    /\ \A w \in Workers : /\ DOMAIN runner[w] = DOMAIN Idle
                          /\ runner[w].pc = "completing" => Ended
    /\ delivery = "completed" => Ended

\* Every step keeps it.
LEMMA NextEndInv == EndInv /\ [WorkerNext]_allVars => EndInv'
<1> SUFFICES ASSUME EndInv, [WorkerNext]_allVars PROVE EndInv'
  OBVIOUS
<1>1. Ended => Ended'
  BY EndStays
<1>2. CASE UNCHANGED <<runner, delivery>>
  BY <1>1, <1>2 DEF EndInv
<1>3. CASE UNCHANGED allVars \/ Control
  BY <1>2, <1>3 DEF allVars, Control
<1>4. ASSUME NEW w \in Workers, RunnerStep(w) \/ Crash(w) PROVE EndInv'
  <2>1. PICK x : Become(w, x) /\ Moved(w, x)
    BY <1>4, RunnerMoved DEF EndInv
  <2>2. /\ runner' = [v \in Workers |-> runner'[v]] /\ runner'[w] = x
        /\ \A v \in Workers : v # w => runner'[v] = runner[v]
    BY <2>1 DEF Become, EndInv
  <2>3. delivery' = "completed" => Ended'
    <3>1. delivery' = delivery \/ (Settle(w) /\ At(w, "completing"))
      BY <1>4 DEF RunnerStep, Crash, ReceiveAndClaim, Settle, Beat, LoadDefinitions, TargetEnds,
         Call, CallRefused
    <3> QED BY <1>1, <3>1 DEF EndInv, At
  <2> QED BY <1>1, <2>1, <2>2, <2>3 DEF EndInv, Moved
<1> QED BY <1>3, <1>4 DEF WorkerNext

\* The invariant holds in every reachable state of the workers.
LEMMA EndInvariant == WorkerSpec => []EndInv
<1>1. WorkerInit => EndInv
  BY DEF WorkerInit, EndInv, Idle
<1> QED BY <1>1, NextEndInv, PTL DEF WorkerSpec

\* CompletedJobHasEnded: whatever answers are lost and whichever workers stop
\* or race, a delivery is settled as complete only when its job has ended.
THEOREM CompletionsMeanTheEnd == WorkerSpec => []CompletedJobHasEnded
<1>1. EndInv => CompletedJobHasEnded
  BY DEF EndInv, CompletedJobHasEnded, Ended
<1> QED BY <1>1, EndInvariant, PTL

------------------------------------------------------------------------------
(* The workers implement the job *)

\* The port takes whatever vector and identifiers the workers derive from
\* their fence.
PortTakesAll ==
    /\ Amounts \subseteq Requests
    /\ Nat \subseteq ReservationIds
    /\ Nat \subseteq AcknowledgementIds
    /\ Nat \X {"execution", "cancellation", "usage"} \subseteq ObservationIds

\* A runner at work has a fence.
FencesHeld == \A w \in Workers : runner[w].pc \in Working => runner[w].fence \in Fence

\* A fence that the repository takes for the current one is one it issued.
LEMMA CurrentIsIssued ==
    ASSUME Inv, NEW f \in Fence, assertCurrentFence(f)
    PROVE  f \in IssuedFences
<1>1. status = "running" /\ sameFence(lease.fence, f)
  BY DEF assertCurrentFence
<1>2. /\ lease.fence \in Fence /\ lease.fence = attempts[Current].fence
      /\ Current \in DOMAIN attempts
  BY <1>1, RunningJob DEF Lease
<1>3. f = attempts[Current].fence
  BY <1>1, <1>2, SameFence
<1> QED BY <1>2, <1>3 DEF IssuedFences

\* A call that a runner makes and the repository carries out is one of the
\* calls that ReplayJob lets the holder of an issued fence make.
LEMMA CallIsNext ==
    ASSUME PortTakesAll, Inv, FencesHeld, NEW w \in Workers, Call(w)
    PROVE  Next
<1> DEFINE f == FenceOf(w)
<1>1. f \in Fence
  <2>1. runner[w].pc \in Working
    BY DEF Call, At, Working, Beating
  <2> QED BY <2>1 DEF FencesHeld, FenceOf
<1>2. /\ f.token \in ReservationIds /\ f.token \in AcknowledgementIds
      /\ \A purpose \in ObservationKinds : StableId(w, purpose) \in ObservationIds
  BY <1>1 DEF PortTakesAll, Fence, StableId, ObservationKinds
<1>3. ASSUME WorkerCall(f), assertCurrentFence(f) PROVE Next
  <2>1. f \in IssuedFences
    BY <1>1, <1>3, CurrentIsIssued
  <2> QED BY <1>3, <2>1 DEF Next
<1> HIDE DEF f
<1>4. CASE Reserve(f, f.token, Remaining)
  <2>1. Remaining \in Requests
    BY <1>4 DEF Reserve, ReservationFits, PortTakesAll
  <2> QED BY <1>2, <1>3, <1>4, <2>1 DEF WorkerCall, Reserve
<1>5. ASSUME NEW k \in ObservationKinds, AppendObservation(f, StableId(w, k), k) PROVE Next
  BY <1>2, <1>3, <1>5 DEF WorkerCall, AppendObservation
<1>6. CASE Acknowledge(f, f.token)
  BY <1>2, <1>3, <1>6 DEF WorkerCall, Acknowledge
<1>7. CASE \E r \in Reservations(ledger), u \in Usages : Reconcile(f, r, u)
  BY <1>3, <1>7 DEF WorkerCall, Reconcile
<1>8. CASE CompleteJob(f, completionCommand(w)[1], completionCommand(w)[2])
  <2>1. /\ completionCommand(w)[1] \in TerminalStatuses
        /\ completionCommand(w)[2] \in TerminalCodes[completionCommand(w)[1]]
    BY DEF completionCommand, TerminalStatuses, TerminalCodes
  <2> QED BY <1>3, <1>8, <2>1 DEF WorkerCall, CompleteJob
<1> QED BY <1>4, <1>5, <1>6, <1>7, <1>8 DEF Call, f, ObservationKinds

\* Every step is a step of ReplayJob, or leaves the repository as it is.
LEMMA StepIsNext ==
    ASSUME PortTakesAll, Inv, FencesHeld, [WorkerNext]_allVars
    PROVE  [Next]_vars
<1>1. CASE UNCHANGED vars
  BY <1>1
<1>2. CASE UNCHANGED allVars \/ Control
  BY <1>1, <1>2 DEF allVars, Control, Next
<1>3. ASSUME NEW w \in Workers, RunnerStep(w) \/ Crash(w) PROVE [Next]_vars
  <2>1. CASE Claim(w, Current + 1, recoveryEpoch)
    BY <2>1 DEF Next
  <2>2. ASSUME NEW d \in LeaseDurations, runner[w].pc \in Beating, Heartbeat(FenceOf(w), d)
        PROVE  Next
    <3>1. FenceOf(w) \in Fence
      BY <2>2 DEF FencesHeld, FenceOf, Working
    <3>2. FenceOf(w) \in IssuedFences
      BY <2>2, <3>1, CurrentIsIssued DEF Heartbeat
    <3> QED BY <2>2, <3>2 DEF Next, WorkerCall
  <2>3. CASE Call(w)
    BY <2>3, CallIsNext
  <2> QED BY <1>1, <1>3, <2>1, <2>2, <2>3 DEF RunnerStep, Crash, ReceiveAndClaim, Refused, Settle,
             Beat, LoadDefinitions, TargetEnds, CallRefused
<1> QED BY <1>2, <1>3 DEF WorkerNext

\* A runner keeps the fence it was given, or is given one by a claim.
LEMMA NextFencesHeld ==
    ASSUME Inv', EndInv, FencesHeld, [WorkerNext]_allVars
    PROVE  FencesHeld'
<1>1. CASE UNCHANGED runner
  BY <1>1 DEF FencesHeld
<1>2. ASSUME NEW w \in Workers, RunnerStep(w) \/ Crash(w) PROVE FencesHeld'
  <2>1. PICK x : Become(w, x) /\ Moved(w, x)
    BY <1>2, RunnerMoved DEF EndInv
  <2>2. /\ runner'[w] = x
        /\ \A v \in Workers : v # w => runner'[v] = runner[v]
    BY <2>1 DEF Become, EndInv
  <2>3. status' = "running" => lease'.fence \in Fence
    BY JobAssumption DEF Inv, TypeOK, Ownership, Lease
  <2>4. x.pc \in Working => x.fence \in Fence
    BY <2>1, <2>3 DEF Moved, FencesHeld
  <2> QED BY <2>2, <2>4 DEF FencesHeld
<1> QED BY <1>1, <1>2 DEF WorkerNext, allVars, Control

\* Whatever the workers do, with answers lost, deliveries repeated and
\* workers stopping at any point, the repository sees a behaviour of
\* ReplayJob: what is proved of it holds while the workers run.
THEOREM WorkersImplementJob ==
    ASSUME PortTakesAll
    PROVE  WorkerSpec => Spec
<1>1. WorkerInit => Init /\ Inv /\ FencesHeld
  BY InitInv DEF WorkerInit, FencesHeld, Idle, Working, Beating
<1>2. Inv /\ EndInv /\ FencesHeld /\ [WorkerNext]_allVars => Inv' /\ FencesHeld' /\ [Next]_vars
  BY StepIsNext, NextInv, NextFencesHeld
<1> QED BY <1>1, <1>2, EndInvariant, PTL DEF WorkerSpec, Spec

------------------------------------------------------------------------------
(* A runner that holds its lease gives nothing up *)

\* The repository's side: the lease carries the last token, only its holder
\* has reservations open, and nobody acknowledges what nobody requested.
Books ==
    /\ clock \in Nat /\ lastFencingToken \in Nat
    /\ ledger \in Seq(Entries(ledger))
    /\ status = "running" =>
         /\ lastFencingToken # 0 /\ lease.fence.token = lastFencingToken
         /\ lease.expiresAt \in Nat
         /\ OpenReservations(ledger) \subseteq {lastFencingToken}
    /\ status \in {"absent", "queued"} => ledger = <<>> /\ cancellationRequest = None
    /\ cancellationRequest = None => acknowledgements = {}

\* A fence a runner works with was issued to it.
OwnFence(w) ==
    IF runner[w].pc \in Working
    THEN FenceOf(w).worker = w /\ FenceOf(w).token \in 1..lastFencingToken
    ELSE FenceOf(w) = None

AcknowledgedBy(f) == \E a \in acknowledgements : sameFence(a.fence, f)

\* What runner state r knows of the job it holds: a request it acts on is on
\* record, it has seen what it has acknowledged, it comes to its completion
\* with its accounts settled, the second time with the request acknowledged,
\* and it looks into a failed completion only when a request came between.
Informed(r) ==
    /\ r.pc \in {"observing", "acknowledging"} => Requested /\ (r.beat => r.seen)
    /\ r.seen => Requested
    /\ AcknowledgedBy(r.fence) => r.seen
    /\ r.raced =>
         \/ r.pc \in {"observing", "acknowledging"}
         \/ r.pc \in {"metering", "reconciling", "finishing"} /\ AcknowledgedBy(r.fence)
    /\ r.pc = "racing" => Requested /\ ~AcknowledgedBy(r.fence)
    /\ r.pc \in {"finishing", "racing"} => r.fence.token \notin OpenReservations(ledger)

InTouch(r) == r.lost \/ ~assertCurrentFence(r.fence) \/ Informed(r)

\* The inductive invariant.
Holding ==
    /\ Books
    /\ \A w \in Workers : OwnFence(w) /\ (runner[w].pc \in Working => InTouch(runner[w]))

\* An entry that is appended.
LEMMA AppendedEntry ==
    ASSUME NEW l, l \in Seq(Entries(l)), NEW e
    PROVE  /\ Append(l, e) \in Seq(Entries(Append(l, e)))
           /\ Entries(Append(l, e)) = Entries(l) \cup {e}
<1> DEFINE m == Append(l, e)
<1>1. /\ Len(m) = Len(l) + 1 /\ DOMAIN m = 1..Len(m) /\ m[Len(m)] = e
      /\ Len(l) \in Nat /\ DOMAIN l = 1..Len(l)
      /\ \A i \in 1..Len(l) : m[i] = l[i]
      /\ m \in Seq(Entries(l) \cup {e})
  BY l \in Seq(Entries(l) \cup {e})
<1> HIDE DEF m
<1>2. Entries(m) = Entries(l) \cup {e}
  BY <1>1 DEF Entries
<1> QED BY <1>1, <1>2 DEF m

\* A reservation opens its own identifier, a reconciliation none.
LEMMA OpenAfter ==
    ASSUME NEW l, l \in Seq(Entries(l)), NEW e
    PROVE  /\ OpenReservations(Append(l, e)) \subseteq OpenReservations(l) \cup {e.reservationId}
           /\ e.entryType = "reconciliation" =>
                OpenReservations(Append(l, e)) \subseteq OpenReservations(l)
BY AppendedEntry DEF OpenReservations, Reservations, Reconciliations

\* What the repository does for a runner.
CalledBy(w) ==
    /\ runner[w].pc \in Working
    /\ assertCurrentFence(FenceOf(w))
    /\ \/ \E d \in LeaseDurations : Heartbeat(FenceOf(w), d)
       \/ Reserve(FenceOf(w), FenceOf(w).token, Remaining)
       \/ \E id, kind : AppendObservation(FenceOf(w), id, kind)
       \/ Acknowledge(FenceOf(w), FenceOf(w).token)
       \/ \E r \in Reservations(ledger), u \in Usages : Reconcile(FenceOf(w), r, u)
       \/ CompleteJob(FenceOf(w), completionCommand(w)[1], completionCommand(w)[2])

\* Each step of a runner is at most one call to the repository.
LEMMA OneCall ==
    ASSUME NEW w \in Workers, RunnerStep(w) \/ Crash(w)
    PROVE  UNCHANGED vars \/ Claim(w, Current + 1, recoveryEpoch) \/ CalledBy(w)
<1>1. CASE Beat(w)
  BY <1>1 DEF Beat, Refused, CalledBy, Working, Heartbeat
<1>2. CASE Call(w)
  BY <1>2 DEF Call, CalledBy, At, Working, Beating, Reserve, AppendObservation, Acknowledge,
     Reconcile, CompleteJob
<1> QED BY <1>1, <1>2 DEF RunnerStep, Crash, ReceiveAndClaim, Refused, Settle, LoadDefinitions,
           TargetEnds, CallRefused

\* What every step leaves of the repository's side: a fence that is no longer
\* current never is again.
Advances ==
    /\ Books'
    /\ lastFencingToken <= lastFencingToken'
    /\ Requested => Requested'
    /\ \A f : f.token \in 1..lastFencingToken /\ ~assertCurrentFence(f) => ~assertCurrentFence(f)'

\* A claim, granted or closing, leaves no earlier fence current.
LEMMA ClaimAdvances ==
    ASSUME NEW w \in Workers, Books, Claim(w, Current + 1, recoveryEpoch)
    PROVE  /\ Advances
           /\ UNCHANGED <<ledger, acknowledgements, cancellationRequest>>
           /\ \A f : f.token \in 1..lastFencingToken => ~assertCurrentFence(f)'
<1>1. CASE \E d \in LeaseDurations : ClaimQueued(w, Current + 1, d, recoveryEpoch)
                                     \/ ReclaimExpired(w, Current + 1, d, recoveryEpoch)
  <2>1. PICK d, earlier : d \in LeaseDurations /\ Grant(w, Current + 1, d, recoveryEpoch, earlier)
    BY <1>1 DEF ClaimQueued, ReclaimExpired
  <2>2. OpenReservations(ledger) = {} /\ cancellationRequest = None
    <3>1. CASE status = "queued"
      <4>1. Entries(<<>>) = {}
        BY DEF Entries
      <4> QED BY <3>1, <4>1 DEF Books, OpenReservations, Reservations
    <3> QED BY <1>1, <3>1 DEF ClaimQueued, ReclaimExpired
  <2>3. /\ status' = "running" /\ lastFencingToken' = lastFencingToken + 1 /\ lastFencingToken \in Nat
        /\ lease'.fence.token = lastFencingToken + 1 /\ lease'.expiresAt = clock + d
        /\ UNCHANGED <<clock, ledger, acknowledgements, cancellationRequest>>
    BY <2>1 DEF Grant, Books
  <2>4. clock + d \in Nat
    BY <2>1, JobAssumption DEF Books
  <2>5. Books'
    BY <2>2, <2>3, <2>4 DEF Books
  <2>6. \A f : f.token \in 1..lastFencingToken => ~assertCurrentFence(f)'
    BY <2>3 DEF assertCurrentFence, sameFence
  <2> QED BY <2>3, <2>5, <2>6 DEF Advances, Requested
<1>2. CASE CloseCancelled \/ CloseUnreconciled \/ CloseBlocked
  <2>1. PICK s, code : s \in TerminalStatuses /\ TerminalizeExpired(s, code)
    BY <1>2, CloseReasonType DEF CloseCancelled, CloseUnreconciled, CloseBlocked, TerminalStatuses
  <2>2. /\ status' \notin {"absent", "queued", "running"}
        /\ UNCHANGED <<clock, lastFencingToken, ledger, acknowledgements, cancellationRequest>>
    BY <2>1 DEF TerminalizeExpired, CommitTerminal, TerminalStatuses
  <2> QED BY <2>2 DEF Advances, Books, Requested, assertCurrentFence
<1> QED BY <1>1, <1>2 DEF Claim

\* A call under the current fence.
LEMMA CallAdvances ==
    ASSUME NEW w \in Workers, Books, CalledBy(w)
    PROVE  Advances
<1> DEFINE f == FenceOf(w)
<1>1. /\ status = "running" /\ sameFence(lease.fence, f) /\ clock < lease.expiresAt
      /\ f.token = lastFencingToken
  BY DEF CalledBy, assertCurrentFence, sameFence, Books
<1> HIDE DEF f
<1>2. ASSUME NEW d \in LeaseDurations, Heartbeat(f, d) PROVE Advances
  <2>1. /\ lease'.fence = lease.fence /\ lease'.expiresAt = clock + d
        /\ UNCHANGED <<clock, status, lastFencingToken, ledger, acknowledgements, cancellationRequest>>
    BY <1>2 DEF Heartbeat, recordVars
  <2>2. clock + d \in Nat
    BY JobAssumption DEF Books
  <2> QED BY <1>1, <2>1, <2>2 DEF Advances, Books, Requested, assertCurrentFence
<1>3. ASSUME NEW e, ledger' = Append(ledger, e),
             OpenReservations(ledger') \subseteq OpenReservations(ledger) \cup {lastFencingToken},
             UNCHANGED <<clock, jobVars, acknowledgements, cancellationRequest>>
      PROVE  Advances
  <2>1. ledger' \in Seq(Entries(ledger'))
    BY <1>3, AppendedEntry DEF Books
  <2> QED BY <1>1, <1>3, <2>1 DEF Advances, Books, Requested, assertCurrentFence, jobVars
<1>4. CASE Reserve(f, f.token, Remaining)
  <2>1. PICK e : ledger' = Append(ledger, e) /\ e.reservationId = lastFencingToken
    BY <1>1, <1>4 DEF Reserve, reserveReplayBudget
  <2> QED BY <1>3, <1>4, <2>1, OpenAfter DEF Reserve, Books
<1>5. ASSUME NEW r, NEW u, Reconcile(f, r, u) PROVE Advances
  <2>1. PICK e : ledger' = Append(ledger, e) /\ e.entryType = "reconciliation"
    BY <1>5 DEF Reconcile, reconcileReplayBudget
  <2> QED BY <1>3, <1>5, <2>1, OpenAfter DEF Reconcile, Books
<1>6. CASE Acknowledge(f, f.token) \/ \E id, kind : AppendObservation(f, id, kind)
  <2>1. /\ UNCHANGED <<clock, status, lease, lastFencingToken, ledger, cancellationRequest>>
        /\ acknowledgements' = acknowledgements \/ cancellationRequest # None
    BY <1>6 DEF Acknowledge, AppendObservation, jobVars
  <2> QED BY <1>1, <2>1 DEF Advances, Books, Requested, assertCurrentFence
<1>7. CASE CompleteJob(f, completionCommand(w)[1], completionCommand(w)[2])
  <2>1. completionCommand(w)[1] \in TerminalStatuses
    BY DEF completionCommand, TerminalStatuses
  <2>2. /\ status' \notin {"absent", "queued", "running"}
        /\ UNCHANGED <<clock, lastFencingToken, ledger, acknowledgements, cancellationRequest>>
    BY <1>7, <2>1 DEF CompleteJob, CommitTerminal, TerminalStatuses
  <2> QED BY <2>2 DEF Advances, Books, Requested, assertCurrentFence
<1> QED BY <1>2, <1>4, <1>5, <1>6, <1>7 DEF CalledBy, f

\* The control plane and the clock.
LEMMA ControlAdvances ==
    ASSUME Books, Control \/ UNCHANGED vars
    PROVE  Advances /\ UNCHANGED <<ledger, acknowledgements>>
<1> USE DEF Advances, Books, Requested, assertCurrentFence
<1>1. CASE UNCHANGED vars
  BY <1>1 DEF vars, jobVars, recordVars
<1>2. CASE \E p \in Plans : CreateJob(p, 0)
  BY <1>2 DEF CreateJob
<1>3. CASE CancelQueued
  BY <1>3, BudgetAssumption DEF CancelQueued
<1>4. CASE CancelRunning
  BY <1>4, BudgetAssumption DEF CancelRunning, jobVars
<1>5. CASE Tick
  BY <1>5 DEF Tick, jobVars, recordVars
<1> QED BY <1>1, <1>2, <1>3, <1>4, <1>5 DEF Control

\* The ways in which a runner may give its attempt up.
GivesUp(w) ==
    \/ runner[w].lost
    \/ ~assertCurrentFence(FenceOf(w))
    \/ At(w, "aborting")
    \/ At(w, "loading") /\ NothingLeft

\* The next state x of a runner: it stays in touch, or has a reason to throw.
Kept(w, x) ==
    /\ x.pc \in Working => InTouch(x)'
    /\ x.pc = "retrying" /\ FenceOf(w) # None => x.lost \/ GivesUp(w)

\* What is not about a runner's fence leaves it in touch.
LEMMA StaysInTouch ==
    ASSUME Advances, NEW r, r.fence.token \in 1..lastFencingToken, InTouch(r),
           ~assertCurrentFence(r.fence)' \/ UNCHANGED <<ledger, acknowledgements>>
    PROVE  InTouch(r)'
<1>1. CASE r.lost \/ ~assertCurrentFence(r.fence)
  BY <1>1 DEF InTouch, Advances
<1>2. CASE Informed(r) /\ UNCHANGED <<ledger, acknowledgements>>
  <2>1. Informed(r)'
    BY <1>2 DEF Informed, AcknowledgedBy, Advances
  <2> QED BY <2>1 DEF InTouch
<1> QED BY <1>1, <1>2 DEF InTouch

\* One worker's fence is not another's.
LEMMA OneHolder ==
    ASSUME Holding, NEW v \in Workers, NEW w \in Workers, v # w,
           runner[w].pc \in Working, CalledBy(v)
    PROVE  ~assertCurrentFence(FenceOf(w))
BY DEF Holding, OwnFence, CalledBy, assertCurrentFence, sameFence

\* Every step advances.
LEMMA StepAdvances ==
    ASSUME Holding, [WorkerNext]_allVars
    PROVE  Advances
BY OneCall, ClaimAdvances, CallAdvances, ControlAdvances DEF Holding, WorkerNext, allVars

\* What others do leaves a runner in touch.
LEMMA OthersKeep ==
    ASSUME Holding, NEW v \in Workers, NEW w \in Workers, v # w, RunnerStep(v) \/ Crash(v),
           NEW r, r = runner[w], r.pc \in Working
    PROVE  InTouch(r)'
<1>1. Advances
  BY StepAdvances DEF WorkerNext
<1>2. r.fence.token \in 1..lastFencingToken /\ InTouch(r)
  BY DEF Holding, OwnFence, FenceOf
<1>3. CASE UNCHANGED vars
  BY <1>1, <1>2, <1>3, StaysInTouch, ControlAdvances DEF Holding
<1>4. CASE Claim(v, Current + 1, recoveryEpoch)
  BY <1>1, <1>2, <1>4, StaysInTouch, ClaimAdvances DEF Holding
<1>5. CASE CalledBy(v)
  <2>1. ~assertCurrentFence(r.fence)'
    BY <1>1, <1>2, <1>5, OneHolder DEF Advances, FenceOf
  <2> QED BY <1>1, <1>2, <2>1, StaysInTouch
<1> QED BY <1>3, <1>4, <1>5, OneCall

\* A runner that goes on under its fence.
LEMMA GoesOnKept ==
    ASSUME Holding, Advances, NEW w \in Workers, runner[w].pc \in Working,
           NEW x, x.fence = runner[w].fence, runner[w].lost => x.lost, x.pc \in Working,
           assertCurrentFence(runner[w].fence) /\ Informed(runner[w]) => Informed(x)'
    PROVE  Kept(w, x)
<1>1. FenceOf(w).token \in 1..lastFencingToken /\ InTouch(runner[w])
  BY DEF Holding, OwnFence
<1>2. ~assertCurrentFence(runner[w].fence) => ~assertCurrentFence(x.fence)'
  BY <1>1 DEF Advances, FenceOf
<1>3. InTouch(x)'
  BY <1>1, <1>2 DEF InTouch
<1>4. x.pc # "retrying"
  BY DEF Working, Beating
<1> QED BY <1>3, <1>4 DEF Kept

\* One that threw.
LEMMA ThrownKept ==
    ASSUME NEW w
    PROVE  /\ Kept(w, [Thrown EXCEPT !.lost = TRUE])
           /\ GivesUp(w) \/ FenceOf(w) = None => Kept(w, Thrown)
           /\ Kept(w, Idle)
BY DEF Kept, Thrown, Idle, Working, Beating

\* One whose answer was lost.
LEMMA LostKept ==
    ASSUME NEW w, NEW x, x.lost
    PROVE  Kept(w, x)
BY DEF Kept, InTouch

\* The state a failed completion leaves behind, when a request came between.
LEMMA NotCompletedKept ==
    ASSUME Holding, Advances, UNCHANGED <<ledger, acknowledgements>>,
           NEW w \in Workers, DOMAIN runner[w] = DOMAIN Idle, At(w, "finishing"),
           assertCurrentFence(FenceOf(w)) /\ Informed(runner[w]) =>
               Requested /\ ~AcknowledgedBy(FenceOf(w)),
           NEW x, x = NotCompleted(w)
    PROVE  Kept(w, x)
<1>1. InTouch(runner[w]) /\ runner[w].pc \in Working
  BY DEF Holding, At, Working, Beating
<1>2. CASE runner[w].raced
  <2>1. GivesUp(w)
    BY <1>1, <1>2 DEF InTouch, Informed, GivesUp, At, FenceOf
  <2> QED BY <1>2, <2>1, ThrownKept DEF NotCompleted
<1>3. CASE ~runner[w].raced
  <2>1. /\ x.pc = "racing" /\ x.fence = runner[w].fence /\ (x.seen <=> runner[w].seen)
        /\ (x.lost <=> runner[w].lost) /\ (x.raced <=> runner[w].raced)
    BY <1>3 DEF Idle, NotCompleted
  <2>2. assertCurrentFence(runner[w].fence) /\ Informed(runner[w]) => Informed(x)'
    BY <1>3, <2>1 DEF Informed, AcknowledgedBy, Advances, At, FenceOf
  <2>3. x.pc \in Working
    BY <2>1 DEF Working, Beating
  <2> QED BY <1>1, <2>1, <2>2, <2>3, GoesOnKept
<1> QED BY <1>2, <1>3

\* A heartbeat that is answered.
LEMMA BeatenKept ==
    ASSUME Holding, Advances, UNCHANGED <<ledger, acknowledgements>>,
           NEW w \in Workers, DOMAIN runner[w] = DOMAIN Idle,
           runner[w].pc \in Beating, ~runner[w].beat, assertCurrentFence(FenceOf(w)),
           NEW x, x = Beaten(w)
    PROVE  Kept(w, x)
<1>0. PICK r, now : r = runner[w] /\ now = [r EXCEPT !.seen = Requested]
  OBVIOUS
<1>1. /\ now.pc = r.pc /\ now.fence = r.fence /\ (now.lost <=> r.lost) /\ (now.raced <=> r.raced)
      /\ (now.seen <=> Requested) /\ (now.beat <=> r.beat) /\ DOMAIN now = DOMAIN Idle
  BY <1>0 DEF Idle
<1>2. InTouch(r) /\ r.pc \in Working
  BY <1>0 DEF Holding, Working
<1>3. AcknowledgedBy(r.fence) => Requested
  BY DEF Holding, Books, AcknowledgedBy, Requested
<1>4. Acknowledged(w) <=> AcknowledgedBy(r.fence)
  BY <1>0 DEF Acknowledged, AcknowledgedBy, FenceOf
<1>5. x = CASE r.pc = "beginning" ->
                 IF Requested THEN [now EXCEPT !.pc = "recording", !.result = "failed"]
                              ELSE [now EXCEPT !.pc = "loading"]
            [] r.pc = "leasing" -> [now EXCEPT !.pc = "executing", !.until = attemptDeadline]
            [] r.pc = "executing" -> now
            [] r.pc = "racing" ->
                 IF Requested /\ ~Acknowledged(w)
                 THEN [now EXCEPT !.pc = "observing", !.raced = TRUE] ELSE Thrown
            [] r.pc = "finishing" /\ (Requested /\ ~Acknowledged(w)) -> NotCompleted(w)
            [] OTHER -> [now EXCEPT !.beat = TRUE]
  BY <1>0 DEF Beaten, At
<1>6. CASE r.pc \in {"beginning", "leasing", "executing"}
  <2>1. x \in {now, [now EXCEPT !.pc = "recording", !.result = "failed"],
               [now EXCEPT !.pc = "loading"],
               [now EXCEPT !.pc = "executing", !.until = attemptDeadline]}
    BY <1>5, <1>6
  <2>2. x = now => r.pc = "executing"
    BY <1>1, <1>5, <1>6 DEF Idle
  <2>3. /\ x.fence = r.fence /\ (x.lost <=> r.lost) /\ (x.raced <=> r.raced)
        /\ (x.seen <=> Requested)
        /\ x.pc \in {"recording", "loading", "executing"}
    BY <1>1, <2>1, <2>2 DEF Idle
  <2>4. Informed(r) => Informed(x)'
    BY <1>3, <1>6, <2>3 DEF Informed, AcknowledgedBy, Advances
  <2>5. x.pc \in Working
    BY <2>3 DEF Working, Beating
  <2> QED BY <1>0, <1>2, <2>3, <2>4, <2>5, GoesOnKept
<1>7. CASE r.pc = "racing" /\ Requested /\ ~Acknowledged(w)
  <2>1. x = [now EXCEPT !.pc = "observing", !.raced = TRUE]
    BY <1>5, <1>7
  <2>2. x.pc = "observing" /\ x.fence = r.fence /\ (x.lost <=> r.lost) /\ (x.seen <=> Requested)
    BY <1>1, <2>1 DEF Idle
  <2>3. Informed(r) => Informed(x)'
    BY <1>3, <1>7, <2>2 DEF Informed, AcknowledgedBy, Advances
  <2>4. x.pc \in Working
    BY <2>2 DEF Working, Beating
  <2> QED BY <1>0, <1>2, <2>2, <2>3, <2>4, GoesOnKept
<1>8. CASE r.pc = "racing" /\ ~(Requested /\ ~Acknowledged(w))
  <2>1. x = Thrown
    BY <1>5, <1>8
  <2>2. GivesUp(w)
    BY <1>0, <1>2, <1>4, <1>8 DEF InTouch, Informed, GivesUp, FenceOf
  <2> QED BY <2>1, <2>2, ThrownKept
<1>9. CASE r.pc = "finishing" /\ Requested /\ ~Acknowledged(w)
  <2>1. x = NotCompleted(w)
    BY <1>5, <1>9
  <2>2. Requested /\ ~AcknowledgedBy(FenceOf(w)) /\ At(w, "finishing")
    BY <1>0, <1>4, <1>9 DEF FenceOf, At
  <2> QED BY <2>1, <2>2, NotCompletedKept
<1>10. CASE /\ r.pc \notin {"beginning", "leasing", "executing", "racing"}
            /\ ~(r.pc = "finishing" /\ Requested /\ ~Acknowledged(w))
  <2>1. x = [now EXCEPT !.beat = TRUE]
    BY <1>5, <1>10
  <2>2. /\ x.pc = r.pc /\ x.fence = r.fence /\ (x.lost <=> r.lost) /\ (x.raced <=> r.raced)
        /\ (x.seen <=> Requested)
    BY <1>1, <2>1 DEF Idle
  <2>3. Informed(r) => Informed(x)'
    BY <1>3, <2>2 DEF Informed, AcknowledgedBy, Advances
  <2> QED BY <1>0, <1>2, <2>2, <2>3, GoesOnKept
<1> QED BY <1>6, <1>7, <1>8, <1>9, <1>10

\* A heartbeat, answered or not.
LEMMA BeatKept ==
    ASSUME Holding, Advances, NEW w \in Workers, DOMAIN runner[w] = DOMAIN Idle, Beat(w)
    PROVE  \E x : Become(w, x) /\ Kept(w, x)
<1>1. runner[w].pc \in Beating /\ runner[w].pc \in Working /\ ~runner[w].beat
  BY DEF Beat, Working
<1>2. PICK y, z : y = Beaten(w) /\ z = Unbeaten(w)
  OBVIOUS
<1>3. DOMAIN z = DOMAIN Idle /\ (z.pc \in Working => z.fence = runner[w].fence)
  BY <1>2 DEF Unbeaten, NotCompleted, Thrown, Idle, Working, Beating
<1>4. CASE /\ \E d \in LeaseDurations : Heartbeat(FenceOf(w), d)
           /\ Answered(w, Beaten(w), Unbeaten(w))
  <2>1. assertCurrentFence(FenceOf(w)) /\ UNCHANGED <<ledger, acknowledgements>>
    BY <1>4 DEF Heartbeat, recordVars
  <2>2. Kept(w, y)
    BY <1>1, <1>2, <2>1, BeatenKept
  <2>3. [z EXCEPT !.lost = TRUE].lost
    BY <1>3 DEF Idle
  <2>4. Kept(w, [z EXCEPT !.lost = TRUE])
    BY <2>3, LostKept
  <2> QED BY <1>2, <1>4, <2>2, <2>4 DEF Answered
<1>5. CASE ~assertCurrentFence(FenceOf(w)) /\ Become(w, Unbeaten(w))
  <2>1. z.pc \in Working => Kept(w, z)
    <3>1. ASSUME z.pc \in Working PROVE ~assertCurrentFence(z.fence)'
      BY <1>1, <1>3, <1>5, <3>1 DEF Advances, Holding, OwnFence, FenceOf
    <3>2. z.pc \in Working => z.pc # "retrying"
      BY DEF Working, Beating
    <3> QED BY <3>1, <3>2 DEF Kept, InTouch
  <2>2. z.pc \notin Working => Kept(w, z)
    BY <1>5 DEF Kept, GivesUp
  <2> QED BY <1>2, <1>5, <2>1, <2>2
<1> QED BY <1>4, <1>5 DEF Beat

\* The steps between the calls.
LEMMA TargetKept ==
    ASSUME Holding, Advances, NEW w \in Workers, DOMAIN runner[w] = DOMAIN Idle,
           LoadDefinitions(w) \/ TargetEnds(w)
    PROVE  \E x : Become(w, x) /\ Kept(w, x)
<1>1. PICK r : r = runner[w]
  OBVIOUS
<1>2. UNCHANGED <<ledger, acknowledgements>> /\ r.pc \in {"loading", "executing", "aborting"}
  BY <1>1 DEF LoadDefinitions, TargetEnds, At, vars, jobVars, recordVars
<1>3. CASE GivesUp(w) /\ Become(w, Thrown)
  BY <1>3, ThrownKept
<1>4. ASSUME NEW x, x.pc \in {"reserving", "recording"},
             x.fence = r.fence, x.lost <=> r.lost, x.raced <=> r.raced, x.seen <=> r.seen
      PROVE  Kept(w, x)
  <2>1. Informed(r) => Informed(x)'
    BY <1>2, <1>4 DEF Informed, AcknowledgedBy, Advances
  <2>2. x.pc \in Working /\ r.pc \in Working
    BY <1>2, <1>4 DEF Working, Beating
  <2> QED BY <1>1, <1>4, <2>1, <2>2, GoesOnKept
<1>5. CASE Become(w, Thrown) /\ (At(w, "aborting") \/ (At(w, "loading") /\ NothingLeft))
  BY <1>3, <1>5 DEF GivesUp
<1>6. CASE LoadDefinitions(w)
  <2>1. PICK y, z : y = [r EXCEPT !.pc = "reserving", !.beat = FALSE]
                    /\ z = [r EXCEPT !.pc = "recording", !.result = "failed"]
    OBVIOUS
  <2>2. Become(w, y) \/ Become(w, z) \/ (Become(w, Thrown) /\ At(w, "loading") /\ NothingLeft)
    BY <1>1, <1>6, <2>1 DEF LoadDefinitions, Goto
  <2>3. /\ y.fence = r.fence /\ (y.lost <=> r.lost) /\ (y.raced <=> r.raced)
        /\ (y.seen <=> r.seen) /\ y.pc = "reserving"
    BY <1>1, <2>1 DEF Idle
  <2>4. /\ z.fence = r.fence /\ (z.lost <=> r.lost) /\ (z.raced <=> r.raced)
        /\ (z.seen <=> r.seen) /\ z.pc = "recording"
    BY <1>1, <2>1 DEF Idle
  <2>5. Kept(w, y) /\ Kept(w, z)
    BY <1>4, <2>3, <2>4
  <2> QED BY <1>5, <2>2, <2>5
<1>7. CASE At(w, "executing") /\ TargetEnds(w)
  <2>1. PICK v : Become(w, [runner[w] EXCEPT !.pc = "recording", !.result = v, !.until = 0])
    BY <1>7 DEF TargetEnds, At
  <2>2. PICK y : y = [r EXCEPT !.pc = "recording", !.result = v, !.until = 0]
    OBVIOUS
  <2>3. /\ y.fence = r.fence /\ (y.lost <=> r.lost) /\ (y.raced <=> r.raced)
        /\ (y.seen <=> r.seen) /\ y.pc = "recording"
    BY <1>1, <2>2 DEF Idle
  <2>4. Become(w, y)
    BY <1>1, <2>1, <2>2
  <2>5. Kept(w, y)
    BY <1>4, <2>3
  <2> QED BY <2>4, <2>5
<1>8. CASE ~At(w, "executing") /\ TargetEnds(w)
  <2>1. At(w, "aborting") /\ Become(w, Thrown)
    BY <1>8 DEF TargetEnds
  <2> QED BY <1>5, <2>1
<1> QED BY <1>6, <1>7, <1>8

\* The calls that follow a heartbeat and are carried out.
LEMMA CallKept ==
    ASSUME Holding, Advances, NEW w \in Workers, DOMAIN runner[w] = DOMAIN Idle, Call(w)
    PROVE  \E x : Become(w, x) /\ Kept(w, x)
<1>1. PICK r : r = runner[w]
  OBVIOUS
<1>2. /\ r.pc \in {"reserving", "recording", "observing", "acknowledging", "metering",
                   "reconciling", "finishing"}
      /\ r.beat /\ assertCurrentFence(r.fence)
  BY <1>1 DEF Call, At, FenceOf, Reserve, AppendObservation, Acknowledge, Reconcile, CompleteJob
<1>3. r.pc \in Working
  BY <1>2 DEF Working, Beating
<1>4. ASSUME NEW p \in Working, Answered(w, [runner[w] EXCEPT !.pc = p, !.beat = FALSE], Thrown),
             \A x : /\ x.pc = p /\ x.fence = r.fence /\ ~x.beat /\ (x.seen <=> r.seen)
                    /\ (x.raced <=> r.raced) /\ Informed(r)
                    => Informed(x)'
      PROVE  \E x : Become(w, x) /\ Kept(w, x)
  <2>1. PICK x : x = [runner[w] EXCEPT !.pc = p, !.beat = FALSE]
    OBVIOUS
  <2>2. /\ x.pc = p /\ x.fence = r.fence /\ ~x.beat /\ (x.seen <=> r.seen)
        /\ (x.raced <=> r.raced) /\ (x.lost <=> r.lost)
    BY <1>1, <2>1 DEF Idle
  <2>3. Kept(w, x)
    BY <1>1, <1>3, <1>4, <2>2, GoesOnKept
  <2> QED BY <1>4, <2>1, <2>3, ThrownKept DEF Answered
<1>5. {"leasing", "acknowledging", "reconciling", "observing", "metering", "finishing"} \subseteq Working
  BY DEF Working, Beating
<1>6. CASE At(w, "reserving") /\ Reserve(FenceOf(w), FenceOf(w).token, Remaining)
           /\ Answered(w, [runner[w] EXCEPT !.pc = "leasing", !.beat = FALSE], Thrown)
  <2>1. acknowledgements' = acknowledgements /\ r.pc = "reserving"
    BY <1>1, <1>6 DEF Reserve, At
  <2> QED BY <1>4, <1>5, <1>6, <2>1 DEF Informed, AcknowledgedBy, Advances
<1>7. PICK o : o = Onward(w)
  OBVIOUS
<1>8. PICK a : a = Accounts(w)
  OBVIOUS
<1>9. /\ o = IF Requested /\ ~AcknowledgedBy(r.fence) THEN "observing" ELSE a
      /\ a \in {"metering", "finishing"}
      /\ a = "finishing" => r.fence.token \notin OpenReservations(ledger')
  BY <1>1, <1>7, <1>8 DEF Onward, Accounts, Acknowledged, AcknowledgedBy, FenceOf
<1>10. CASE At(w, "recording") /\ AppendObservation(FenceOf(w), StableId(w, "execution"), "execution")
            /\ Answered(w, [runner[w] EXCEPT !.pc = Onward(w), !.beat = FALSE], Thrown)
  <2>1. UNCHANGED <<ledger, acknowledgements>> /\ r.pc = "recording"
    BY <1>1, <1>10 DEF AppendObservation, At
  <2> QED BY <1>4, <1>5, <1>7, <1>9, <1>10, <2>1 DEF Informed, AcknowledgedBy, Advances
<1>11. CASE At(w, "observing")
            /\ AppendObservation(FenceOf(w), StableId(w, "cancellation"), "cancellation")
            /\ Answered(w, [runner[w] EXCEPT !.pc = "acknowledging", !.beat = FALSE], Thrown)
  <2>1. UNCHANGED <<ledger, acknowledgements>> /\ r.pc = "observing"
    BY <1>1, <1>11 DEF AppendObservation, At
  <2> QED BY <1>4, <1>5, <1>11, <2>1 DEF Informed, AcknowledgedBy, Advances
<1>12. CASE At(w, "acknowledging") /\ Acknowledge(FenceOf(w), FenceOf(w).token)
            /\ Answered(w, [runner[w] EXCEPT !.pc = Accounts(w), !.beat = FALSE], Thrown)
  <2>1. UNCHANGED ledger /\ AcknowledgedBy(r.fence)' /\ r.pc = "acknowledging"
    <3>1. PICK k : k = [id |-> r.fence.token, fence |-> r.fence, at |-> clock]
      OBVIOUS
    <3>2. k \in acknowledgements' /\ k.fence = r.fence
      BY <1>1, <1>12, <3>1 DEF Acknowledge, FenceOf
    <3> QED BY <1>1, <1>12, <3>2 DEF Acknowledge, AcknowledgedBy, sameFence, At
  <2> QED BY <1>2, <1>4, <1>5, <1>8, <1>9, <1>12, <2>1 DEF Informed, Advances
<1>13. CASE At(w, "metering") /\ AppendObservation(FenceOf(w), StableId(w, "usage"), "usage")
            /\ Answered(w, [runner[w] EXCEPT !.pc = "reconciling", !.beat = FALSE], Thrown)
  <2>1. UNCHANGED <<ledger, acknowledgements>> /\ r.pc = "metering"
    BY <1>1, <1>13 DEF AppendObservation, At
  <2> QED BY <1>4, <1>5, <1>13, <2>1 DEF Informed, AcknowledgedBy, Advances
<1>14. CASE /\ At(w, "reconciling")
            /\ \E e \in Reservations(ledger), u \in Usages : Reconcile(FenceOf(w), e, u)
            /\ Answered(w, [runner[w] EXCEPT !.pc = Onward(w), !.beat = FALSE], Thrown)
  <2>1. UNCHANGED acknowledgements /\ r.pc = "reconciling"
    BY <1>1, <1>14 DEF Reconcile, At
  <2> QED BY <1>4, <1>5, <1>7, <1>9, <1>14, <2>1 DEF Informed, AcknowledgedBy, Advances
<1>15. CASE At(w, "finishing") /\ Answered(w, [Idle EXCEPT !.pc = "completing"], NotCompleted(w))
  <2>1. PICK y, z : y = [Idle EXCEPT !.pc = "completing"] /\ z = [NotCompleted(w) EXCEPT !.lost = TRUE]
    OBVIOUS
  <2>2. y.pc = "completing" /\ z.lost
    BY <2>1 DEF NotCompleted, Thrown, Idle
  <2>3. Kept(w, y) /\ Kept(w, z)
    BY <2>2, LostKept DEF Kept, Working, Beating
  <2> QED BY <1>15, <2>1, <2>3 DEF Answered
<1> QED BY <1>6, <1>10, <1>11, <1>12, <1>13, <1>14, <1>15 DEF Call

\* The calls that are refused.  A completion is refused to the holder of the
\* lease only if a request came after its heartbeat.
LEMMA CallRefusedKept ==
    ASSUME Holding, Advances, NEW w \in Workers, DOMAIN runner[w] = DOMAIN Idle, CallRefused(w)
    PROVE  \E x : Become(w, x) /\ Kept(w, x)
<1>1. UNCHANGED <<ledger, acknowledgements>>
  BY DEF CallRefused, Refused, vars, recordVars
<1>2. CASE ~assertCurrentFence(FenceOf(w)) /\ Become(w, Thrown)
  BY <1>2, ThrownKept DEF GivesUp
<1>3. CASE /\ At(w, "finishing")
           /\ \/ ~assertCurrentFence(FenceOf(w))
              \/ ~AccountingPermits(completionCommand(w)[1])
              \/ ~CancellationPermits(FenceOf(w), completionCommand(w)[1])
           /\ Become(w, NotCompleted(w))
  <2>1. ASSUME assertCurrentFence(FenceOf(w)), Informed(runner[w])
        PROVE  Requested /\ ~AcknowledgedBy(FenceOf(w))
    <3>1. OpenReservations(ledger) = {}
      <4>1. FenceOf(w).token = lastFencingToken /\ OpenReservations(ledger) \subseteq {lastFencingToken}
        BY <2>1 DEF assertCurrentFence, sameFence, Holding, Books
      <4>2. FenceOf(w).token \notin OpenReservations(ledger)
        BY <1>3, <2>1 DEF Informed, At, FenceOf
      <4> QED BY <4>1, <4>2
    <3>2. runner[w].seen <=> completionCommand(w)[1] = "cancelled"
      BY DEF completionCommand
    <3>3. ~runner[w].seen /\ Overruns(ledger) # {} => completionCommand(w)[1] = "budget_exhausted"
      BY DEF completionCommand
    <3>4. /\ runner[w].seen => Requested
          /\ AcknowledgedBy(FenceOf(w)) => runner[w].seen
      BY <2>1 DEF Informed, FenceOf
    <3>5. ASSUME ~Requested PROVE FALSE
      BY <1>3, <2>1, <3>1, <3>3, <3>4, <3>5 DEF AccountingPermits, CancellationPermits, Requested
    <3>6. ASSUME AcknowledgedBy(FenceOf(w)) PROVE FALSE
      BY <1>3, <2>1, <3>1, <3>2, <3>4, <3>6 DEF AccountingPermits, CancellationPermits, Requested,
         AcknowledgedBy
    <3> QED BY <3>5, <3>6
  <2>2. PICK x : x = NotCompleted(w)
    OBVIOUS
  <2>3. Kept(w, x)
    BY <1>1, <1>3, <2>1, <2>2, NotCompletedKept
  <2> QED BY <1>3, <2>2, <2>3
<1> QED BY <1>2, <1>3 DEF CallRefused

\* Receiving a delivery, claiming, and settling.  A job that is granted has no
\* request on record.
LEMMA DispatchKept ==
    ASSUME Holding, Advances, NEW w \in Workers, ReceiveAndClaim(w) \/ Settle(w) \/ Crash(w)
    PROVE  \E x : Become(w, x) /\ Kept(w, x)
<1>1. CASE Settle(w) \/ Crash(w)
  BY <1>1, ThrownKept DEF Settle, Crash
<1>2. ASSUME ReceiveAndClaim(w) PROVE FenceOf(w) = None
  BY <1>2 DEF ReceiveAndClaim, At, Holding, OwnFence, Working, Beating
<1>3. CASE ReceiveAndClaim(w) /\ Become(w, Thrown)
  BY <1>2, <1>3, ThrownKept
<1>4. CASE Grants /\ Claim(w, Current + 1, recoveryEpoch)
           /\ Answered(w, [Idle EXCEPT !.pc = "beginning", !.fence = lease'.fence], Thrown)
  <2>1. PICK x : x = [Idle EXCEPT !.pc = "beginning", !.fence = lease'.fence]
    OBVIOUS
  <2>2. x.pc = "beginning" /\ ~x.seen /\ ~x.raced
    BY <2>1 DEF Idle
  <2>3. acknowledgements' = {}
    BY <1>4, ClaimAdvances DEF Grants, Closes, Holding, Books, Requested
  <2>4. Informed(x)'
    BY <2>2, <2>3 DEF Informed, AcknowledgedBy
  <2>5. Kept(w, x)
    BY <2>2, <2>4 DEF Kept, InTouch
  <2> QED BY <1>4, <2>1, <2>5, ThrownKept DEF Answered
<1>5. CASE Answered(w, [Idle EXCEPT !.pc = "completing"], Thrown)
  <2>1. PICK x : x = [Idle EXCEPT !.pc = "completing"]
    OBVIOUS
  <2>2. x.pc = "completing"
    BY <2>1 DEF Idle
  <2>3. Kept(w, x)
    BY <2>2 DEF Kept, Working, Beating
  <2> QED BY <1>5, <2>1, <2>3, ThrownKept DEF Answered
<1> QED BY <1>1, <1>3, <1>4, <1>5 DEF ReceiveAndClaim

\* Every step of a runner keeps it in touch.
LEMMA RunnerKept ==
    ASSUME Holding, NEW w \in Workers, DOMAIN runner[w] = DOMAIN Idle, RunnerStep(w) \/ Crash(w)
    PROVE  \E x : Become(w, x) /\ Kept(w, x)
<1>1. Advances
  BY StepAdvances DEF WorkerNext
<1> QED BY <1>1, DispatchKept, BeatKept, TargetKept, CallKept, CallRefusedKept DEF RunnerStep

\* Every step keeps the invariant.
LEMMA NextHolding == EndInv /\ Holding /\ [WorkerNext]_allVars => Holding'
<1> SUFFICES ASSUME EndInv, Holding, [WorkerNext]_allVars PROVE Holding'
  OBVIOUS
<1>1. Advances /\ Books'
  BY StepAdvances DEF Advances
<1>2. CASE Control \/ UNCHANGED allVars
  <2>1. UNCHANGED runner /\ UNCHANGED <<ledger, acknowledgements>>
    BY <1>2, ControlAdvances DEF Control, allVars, Holding
  <2>2. ASSUME NEW w \in Workers PROVE OwnFence(w)'
    BY <1>1, <2>1, <2>2 DEF Holding, OwnFence, FenceOf, Advances, Books
  <2>3. ASSUME NEW w \in Workers, runner'[w].pc \in Working PROVE InTouch(runner[w])'
    <3>1. PICK r : r = runner[w]
      OBVIOUS
    <3>2. r.fence.token \in 1..lastFencingToken /\ InTouch(r)
      BY <2>1, <2>3, <3>1 DEF Holding, OwnFence, FenceOf
    <3>3. InTouch(r)'
      BY <1>1, <2>1, <3>2, StaysInTouch
    <3> QED BY <2>1, <3>1, <3>3
  <2> QED BY <1>1, <2>2, <2>3 DEF Holding
<1>3. ASSUME NEW v \in Workers, RunnerStep(v) \/ Crash(v) PROVE Holding'
  <2>1. PICK y : Become(v, y) /\ Moved(v, y)
    BY <1>3, RunnerMoved DEF EndInv
  <2>2. PICK x : Become(v, x) /\ Kept(v, x)
    BY <1>3, RunnerKept DEF EndInv
  <2>3. /\ runner'[v] = x /\ y = x
        /\ \A w \in Workers : w # v => runner'[w] = runner[w]
    BY <2>1, <2>2 DEF Become, EndInv
  <2>4. OwnFence(v)'
    <3>1. CASE x.pc \in Working /\ runner[v].pc \in Working /\ x.fence = runner[v].fence
      BY <1>1, <2>3, <3>1 DEF Holding, OwnFence, FenceOf, Advances, Books
    <3>2. CASE /\ x.pc \in Working /\ status' = "running"
               /\ x.fence = lease'.fence /\ x.fence.worker = v
      <4>1. x.fence.token = lastFencingToken' /\ lastFencingToken' \in Nat \ {0}
        BY <1>1, <3>2 DEF Books
      <4> QED BY <2>3, <3>2, <4>1 DEF OwnFence, FenceOf
    <3>3. CASE x.pc \notin Working
      BY <2>1, <2>3, <3>3 DEF OwnFence, FenceOf, Moved
    <3> QED BY <2>1, <2>3, <3>1, <3>2, <3>3 DEF Moved
  <2>5. ASSUME NEW w \in Workers, w # v PROVE OwnFence(w)'
    BY <1>1, <2>3, <2>5 DEF Holding, OwnFence, FenceOf, Advances, Books
  <2>6. ASSUME NEW w \in Workers, w # v, runner'[w].pc \in Working PROVE InTouch(runner[w])'
    <3>1. PICK r : r = runner[w]
      OBVIOUS
    <3>2. InTouch(r)'
      BY <1>3, <2>3, <2>6, <3>1, OthersKeep
    <3> QED BY <2>3, <2>6, <3>1, <3>2
  <2>7. runner'[v].pc \in Working => InTouch(runner[v])'
    BY <2>2, <2>3 DEF Kept
  <2> QED BY <1>1, <2>4, <2>5, <2>6, <2>7 DEF Holding
<1> QED BY <1>2, <1>3 DEF WorkerNext

\* The invariant holds in every reachable state of the workers.
LEMMA HoldingInvariant == WorkerSpec => [](EndInv /\ Holding)
<1>1. WorkerInit => Holding
  <2> SUFFICES ASSUME WorkerInit PROVE Holding
    OBVIOUS
  <2>1. Books
    BY DEF WorkerInit, Init, Books
  <2>2. ASSUME NEW w \in Workers PROVE OwnFence(w) /\ runner[w].pc \notin Working
    BY <2>2 DEF WorkerInit, Idle, OwnFence, FenceOf, Working, Beating
  <2> QED BY <2>1, <2>2 DEF Holding
<1>2. WorkerSpec => []Holding
  BY <1>1, NextHolding, EndInvariant, PTL DEF WorkerSpec
<1> QED BY <1>2, EndInvariant, PTL

\* HolderGivesNothingUp: whatever the moment at which a cancellation arrives
\* between its heartbeats, its calls and its completion, a runner that holds
\* its lease and gets its answers does not hand its delivery back.
THEOREM HoldersGoOn == WorkerSpec => HolderGivesNothingUp
<1>1. ASSUME EndInv, Holding, [WorkerNext]_allVars, NEW w \in Workers,
             FenceOf(w) # None, runner'[w].pc = "retrying"
      PROVE  runner'[w].lost \/ GivesUp(w)
  <2>1. runner[w].pc # "retrying"
    BY <1>1 DEF Holding, OwnFence, Working, Beating
  <2>2. PICK v \in Workers : RunnerStep(v) \/ Crash(v)
    BY <1>1, <2>1 DEF WorkerNext, Control, allVars
  <2>3. PICK x : Become(v, x) /\ Kept(v, x)
    BY <1>1, <2>2, RunnerKept DEF EndInv
  <2>4. v = w /\ runner'[w] = x
    BY <1>1, <2>1, <2>3 DEF Become, EndInv
  <2> QED BY <1>1, <2>3, <2>4 DEF Kept
<1>2. EndInv /\ Holding /\ [WorkerNext]_allVars =>
        [\A w \in Workers :
          FenceOf(w) # None /\ runner'[w].pc = "retrying" =>
              \/ runner[w].lost \/ runner'[w].lost
              \/ ~assertCurrentFence(FenceOf(w))
              \/ At(w, "aborting")
              \/ At(w, "loading") /\ NothingLeft]_allVars
  BY <1>1 DEF GivesUp
<1> QED BY <1>2, HoldingInvariant, PTL DEF WorkerSpec, HolderGivesNothingUp

==============================================================================
