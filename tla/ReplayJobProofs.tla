--------------------------- MODULE ReplayJobProofs ---------------------------
(***************************************************************************)
(* Proofs about ReplayJob, for every number of workers, plan, lease        *)
(* duration, request and usage: ownership of the job, its outcome, the     *)
(* lifecycle it implements, and what it leaves on record.  What it spends  *)
(* and when it is retried is in ReplayLedgerProofs.                        *)
(***************************************************************************)
EXTENDS ReplayJob, TLAPS

------------------------------------------------------------------------------
(* Types *)

\* Everything a fence call may carry is a fence.
LEMMA IssuedFencesType ==
    ASSUME attempts \in Seq(Attempt)
    PROVE  IssuedFences \subseteq Fence
<1>1. \A i \in DOMAIN attempts : attempts[i] \in Attempt
  OBVIOUS
<1>2. \A a \in Attempt : a.fence \in Fence
  BY DEF Attempt
<1> QED BY <1>1, <1>2 DEF IssuedFences

\* An ended attempt is an attempt.
LEMMA EndedAttemptType ==
    ASSUME NEW attempt \in Attempt, NEW at \in Nat, NEW s \in AttemptStatuses,
           NEW disposition \in {"none", "retry_scheduled", "not_retryable"}
    PROVE  EndedAttempt(attempt, at, s, disposition) \in Attempt
BY DEF EndedAttempt, Attempt

\* A reservation found in a ledger is a reservation entry.
LEMMA ReservationsType ==
    ASSUME ledger \in Seq(ReservationEntry \cup ReconciliationEntry)
    PROVE  Reservations(ledger) \subseteq ReservationEntry
BY DEF Reservations, Entries, ReservationEntry, ReconciliationEntry

\* A reconciliation built from a reservation and a usage vector is a
\* reconciliation entry.
LEMMA ReconciliationType ==
    ASSUME NEW reservation \in ReservationEntry, NEW at \in Nat, NEW usage \in Usage
    PROVE  reconcileReplayBudget(reservation, at, usage) \in ReconciliationEntry
<1> DEFINE kind(d) == Disposition(reservation.reserved[d], usage[d])
           released(d) == IF kind(d) = "settled" THEN reservation.reserved[d] - usage[d] ELSE 0
           overrun(d) == IF kind(d) = "overrun" THEN usage[d] - reservation.reserved[d] ELSE 0
<1>1. ASSUME NEW d \in Dimensions
      PROVE  /\ kind(d) \in {"disputed", "settled", "overrun"}
             /\ kind(d) # "disputed" => usage[d] \in 0..MaxAccounting
             /\ reservation.reserved[d] \in 0..MaxAccounting
  BY <1>1, BudgetAssumption DEF Disposition, Usage, ReservationEntry, Amounts
<1>2. ASSUME NEW d \in Dimensions
      PROVE  released(d) \in Int /\ overrun(d) \in Int
  BY <1>1, <1>2, BudgetAssumption
<1> HIDE DEF kind, released, overrun
<1>3. /\ [d \in Dimensions |-> kind(d)] \in [Dimensions -> {"disputed", "settled", "overrun"}]
      /\ [d \in Dimensions |-> released(d)] \in [Dimensions -> Int]
      /\ [d \in Dimensions |-> overrun(d)] \in [Dimensions -> Int]
  BY <1>1, <1>2
<1>4. reservation.reservationId \in ReservationIds /\ reservation.fence \in Fence
  BY DEF ReservationEntry
<1>5. reconcileReplayBudget(reservation, at, usage) =
        [entryType |-> "reconciliation", reservationId |-> reservation.reservationId,
         fence |-> reservation.fence, at |-> at, actual |-> usage,
         disposition |-> [d \in Dimensions |-> kind(d)],
         released |-> [d \in Dimensions |-> released(d)],
         overrun |-> [d \in Dimensions |-> overrun(d)]]
  BY DEF reconcileReplayBudget, kind, released, overrun
<1> QED BY <1>3, <1>4, <1>5 DEF ReconciliationEntry

\* A claim keeps the state well typed, given the attempts it builds on.
LEMMA GrantType ==
    ASSUME TypeOK, plan \in Plans,
           NEW worker \in Workers, NEW id \in Nat, NEW duration \in LeaseDurations,
           NEW epoch \in Nat, NEW earlier \in Seq(Attempt),
           Grant(worker, id, duration, epoch, earlier)
    PROVE  TypeOK'
<1> DEFINE fence == [worker |-> worker, attempt |-> id,
                     token |-> lastFencingToken + 1, epoch |-> epoch]
           attempt == [fence |-> fence, startedAt |-> clock, endedAt |-> None,
                       status |-> "running", disposition |-> "none"]
<1>1. clock \in Nat /\ duration \in Nat /\ lastFencingToken \in Nat
  BY JobAssumption DEF TypeOK
<1>2. fence \in Fence
  BY <1>1 DEF Fence
<1>3. attempt \in Attempt
  BY <1>1, <1>2 DEF Attempt, AttemptStatuses
<1>4. lease' = [fence |-> fence, expiresAt |-> clock + duration] /\ lease' \in Lease
  BY <1>1, <1>2 DEF Grant, Lease
<1>5. attempts' = Append(earlier, attempt) /\ attempts' \in Seq(Attempt)
  BY <1>3 DEF Grant
<1> QED BY <1>1, <1>4, <1>5 DEF TypeOK, Grant

\* So does a terminal commit, given the attempt it stores.
LEMMA CommitTerminalType ==
    ASSUME TypeOK, attempts # <<>>,
           NEW s \in TerminalStatuses, NEW code \in AllCodes, NEW attempt \in Attempt,
           CommitTerminal(s, code, attempt)
    PROVE  TypeOK'
<1>1. terminal' \in Terminal
  BY DEF CommitTerminal, Terminal, TypeOK, Current
<1>2. attempts' \in Seq(Attempt)
  BY DEF CommitTerminal, TypeOK, Current
<1>3. intents' \subseteq Intent
  BY DEF CommitTerminal, TypeOK, Intent, TerminalIntent
<1> QED BY <1>1, <1>2, <1>3 DEF TypeOK, CommitTerminal

------------------------------------------------------------------------------
(* Ownership: the inductive invariant behind fencing *)

\* How an attempt relates to its place in the history and to the job.
AttemptInPlace(i) ==
    /\ attempts[i].fence.token = i
    /\ attempts[i].startedAt <= clock
    /\ attempts[i].status = "running" <=> status = "running" /\ i = Len(attempts)
    /\ i < Len(attempts) =>
         /\ attempts[i].status = "lease_expired"
         /\ attempts[i].disposition = "retry_scheduled"
         /\ attempts[i].endedAt \in attempts[i].startedAt..attempts[i + 1].startedAt

\* What the current lease says of the last attempt.
LeaseInPlace ==
    /\ attempts # <<>>
    /\ startedAt # None
    /\ lease.fence = attempts[Len(attempts)].fence
    /\ attempts[Len(attempts)].endedAt = None

\* There is a lease exactly while the job runs, it belongs to the last
\* attempt, and the last fencing token counts the attempts.
Ownership ==
    /\ status # "absent" => plan \in Plans
    /\ lease # None <=> status = "running"
    /\ status \in {"absent", "queued"} => attempts = <<>>
    /\ lastFencingToken = Len(attempts)
    /\ status = "running" => LeaseInPlace
    /\ \A i \in DOMAIN attempts : AttemptInPlace(i)

Inv == TypeOK /\ Ownership

\* A job that does not exist yet satisfies it.
LEMMA InitInv == Init => Inv
<1> SUFFICES ASSUME Init PROVE Inv
  OBVIOUS
<1>1. TypeOK
  BY DEF Init, TypeOK
<1>2. Ownership
  BY DEF Init, Ownership
<1> QED BY <1>1, <1>2 DEF Inv

\* A step that leaves the job and its attempts alone keeps Ownership.
LEMMA OwnershipFrame ==
    ASSUME Ownership, UNCHANGED <<clock, jobVars, attempts>>
    PROVE  Ownership'
BY DEF Ownership, AttemptInPlace, LeaseInPlace, jobVars

\* A claim establishes it, when the attempts it builds on are all over, in
\* order, with a retry scheduled.
LEMMA GrantOwnership ==
    ASSUME TypeOK, plan \in Plans,
           NEW worker \in Workers, NEW id \in Nat, NEW duration \in LeaseDurations,
           NEW epoch \in Nat, NEW earlier \in Seq(Attempt),
           Len(earlier) = lastFencingToken,
           \A i \in DOMAIN earlier :
              /\ earlier[i].fence.token = i
              /\ earlier[i].status = "lease_expired"
              /\ earlier[i].disposition = "retry_scheduled"
              /\ earlier[i].startedAt <= clock
              /\ earlier[i].endedAt \in earlier[i].startedAt..clock
              /\ i < Len(earlier) => earlier[i].endedAt <= earlier[i + 1].startedAt,
           Grant(worker, id, duration, epoch, earlier)
    PROVE  Ownership'
<1> DEFINE n == Len(earlier)
<1>1. clock \in Nat /\ duration \in Nat \ {0} /\ n \in Nat
  BY JobAssumption DEF TypeOK
<1>2. /\ Len(attempts') = n + 1
      /\ \A i \in 1..n : attempts'[i] = earlier[i]
      /\ attempts'[n + 1].fence.token = lastFencingToken + 1
      /\ attempts'[n + 1].fence = lease'.fence
      /\ attempts'[n + 1].startedAt = clock
      /\ attempts'[n + 1].endedAt = None
      /\ attempts'[n + 1].status = "running"
      /\ attempts' # <<>>
      /\ DOMAIN attempts' = 1..(n + 1)
  BY <1>1 DEF Grant
<1>3. /\ status' = "running" /\ clock' = clock /\ plan' = plan
      /\ lease'.expiresAt = clock + duration
      /\ lastFencingToken' = lastFencingToken + 1
      /\ startedAt' # None
  BY <1>1, BudgetAssumption DEF Grant
<1>4. lease' \in Lease
  BY GrantType, <1>1 DEF Grant, Lease, Fence, TypeOK
<1>5. lease' # None
  BY <1>4, JobAssumption
<1>6. LeaseInPlace'
  BY <1>1, <1>2, <1>3 DEF LeaseInPlace
<1>7. ASSUME NEW i \in DOMAIN attempts' PROVE AttemptInPlace(i)'
  <2>1. CASE i = n + 1
    BY <2>1, <1>1, <1>2, <1>3 DEF AttemptInPlace
  <2>2. CASE i \in 1..n /\ i = n
    BY <2>2, <1>1, <1>2, <1>3 DEF AttemptInPlace
  <2>3. CASE i \in 1..n /\ i # n
    <3>1. i + 1 \in 1..n /\ i < n /\ i \in DOMAIN earlier /\ i + 1 \in DOMAIN earlier
      BY <2>3, <1>1
    <3>2. earlier[i] \in Attempt /\ earlier[i + 1] \in Attempt
      BY <3>1
    <3>3. /\ earlier[i].startedAt \in Nat
          /\ earlier[i].endedAt \in Nat
          /\ earlier[i + 1].startedAt \in Nat
      BY <3>1, <3>2, <1>1 DEF Attempt
    <3> QED BY <3>1, <3>3, <1>1, <1>2, <1>3 DEF AttemptInPlace
  <2> QED BY <1>1, <1>2, <1>7, <2>1, <2>2, <2>3
<1> QED BY <1>2, <1>3, <1>5, <1>6, <1>7 DEF Ownership

\* A terminal commit keeps it, when the attempt it stores is the last one,
\* over.
LEMMA CommitTerminalOwnership ==
    ASSUME TypeOK, Ownership, status = "running",
           NEW s \in TerminalStatuses, NEW code, NEW attempt \in Attempt,
           attempt.fence = attempts[Current].fence,
           attempt.startedAt = attempts[Current].startedAt,
           attempt.status # "running",
           CommitTerminal(s, code, attempt)
    PROVE  Ownership'
<1> DEFINE n == Len(attempts)
<1>1. n \in Nat \ {0} /\ attempts \in Seq(Attempt) /\ Current = n
  BY DEF TypeOK, Ownership, LeaseInPlace, Current
<1>2. /\ Len(attempts') = n
      /\ DOMAIN attempts' = 1..n
      /\ attempts'[n] = attempt
      /\ \A i \in 1..n : i # n => attempts'[i] = attempts[i]
  BY <1>1 DEF CommitTerminal
<1>3. /\ status' = s /\ s \notin {"absent", "queued", "running"}
      /\ lease' = None /\ plan' = plan /\ lastFencingToken' = lastFencingToken /\ clock' = clock
  BY DEF CommitTerminal, TerminalStatuses
<1>4. ASSUME NEW i \in 1..n PROVE AttemptInPlace(i)'
  <2>1. AttemptInPlace(i)
    BY <1>1 DEF Ownership
  <2>2. CASE i = n
    BY <2>1, <2>2, <1>1, <1>2, <1>3 DEF AttemptInPlace
  <2>3. CASE i # n
    <3>1. i < n /\ i + 1 \in 1..n
      BY <2>3, <1>1
    <3>2. attempts'[i + 1].startedAt = attempts[i + 1].startedAt
      BY <3>1, <1>1, <1>2
    <3> QED BY <2>1, <2>3, <3>1, <3>2, <1>1, <1>2, <1>3 DEF AttemptInPlace
  <2> QED BY <2>2, <2>3
<1> QED BY <1>1, <1>2, <1>3, <1>4 DEF Ownership

\* The facts about a running job that its closing and retrying rest on.
LEMMA RunningJob ==
    ASSUME Inv, status = "running"
    PROVE  /\ lease \in Lease
           /\ lease.expiresAt \in Nat
           /\ lease.fence = attempts[Current].fence
           /\ Current \in Nat \ {0}
           /\ Current \in DOMAIN attempts
           /\ attempts[Current] \in Attempt
           /\ plan \in Plans
           /\ startedAt \in Nat
<1>1. lease \in Lease
  BY JobAssumption DEF Inv, TypeOK, Ownership
<1> QED BY <1>1 DEF Inv, TypeOK, Ownership, LeaseInPlace, Current, Lease

\* closeExpiredReplayAttempt and completeReplayAttempt keep the invariant.
LEMMA CommitTerminalInv ==
    ASSUME Inv, status = "running",
           NEW s \in TerminalStatuses, NEW code \in AllCodes,
           NEW at \in Nat, NEW as \in AttemptStatuses, as # "running",
           CommitTerminal(s, code, EndedAttempt(attempts[Current], at, as, "not_retryable"))
    PROVE  Inv'
<1> DEFINE ended == EndedAttempt(attempts[Current], at, as, "not_retryable")
<1>1. attempts[Current] \in Attempt /\ attempts # <<>>
  BY RunningJob DEF Inv, Ownership, LeaseInPlace
<1>2. ended \in Attempt
  BY <1>1, EndedAttemptType
<1>3. /\ ended.fence = attempts[Current].fence
      /\ ended.startedAt = attempts[Current].startedAt
      /\ ended.status # "running"
  BY <1>1 DEF EndedAttempt, Attempt
<1> HIDE DEF ended
<1>4. TypeOK'
  BY <1>1, <1>2, CommitTerminalType DEF Inv, ended
<1>5. Ownership'
  BY <1>2, <1>3, CommitTerminalOwnership DEF Inv, ended
<1> QED BY <1>4, <1>5 DEF Inv

\* The code of an outcome is a terminal code.
LEMMA CodesAreTyped ==
    ASSUME NEW s \in TerminalStatuses, NEW code \in TerminalCodes[s]
    PROVE  code \in AllCodes
BY DEF AllCodes

\* The statuses and codes claimJob closes an expired job with.
LEMMA CloseReasonType ==
    ASSUME NEW reason
    PROVE  /\ terminalCloseReason(reason)[1] \in {"timed_out", "failed"}
           /\ terminalCloseReason(reason)[1] \in TerminalStatuses
           /\ terminalCloseReason(reason)[2] \in AllCodes
<1>1. /\ "execution_failed" \in AllCodes /\ "retries_exhausted" \in AllCodes
      /\ "deadline_reached" \in AllCodes
  BY DEF AllCodes, TerminalCodes, TerminalStatuses
<1> QED BY <1>1 DEF terminalCloseReason, TerminalStatuses

\* A claim that closes an expired job keeps the invariant.
LEMMA CloseInv ==
    ASSUME Inv, CloseCancelled \/ CloseUnreconciled \/ CloseBlocked
    PROVE  Inv'
<1>1. status = "running"
  BY DEF CloseCancelled, CloseUnreconciled, CloseBlocked, LeaseExpired
<1>2. PICK s \in TerminalStatuses, code \in AllCodes : TerminalizeExpired(s, code)
  <2>1. "cancellation_committed" \in AllCodes /\ "execution_failed" \in AllCodes
    BY DEF AllCodes, TerminalCodes, TerminalStatuses
  <2>2. "cancelled" \in TerminalStatuses /\ "failed" \in TerminalStatuses
    BY DEF TerminalStatuses
  <2> QED BY <2>1, <2>2, CloseReasonType DEF CloseCancelled, CloseUnreconciled, CloseBlocked
<1>3. lease.expiresAt \in Nat
  BY <1>1, RunningJob
<1>4. "lease_expired" \in AttemptStatuses
  BY DEF AttemptStatuses
<1> QED BY <1>1, <1>2, <1>3, <1>4, CommitTerminalInv DEF TerminalizeExpired

\* So does the claim of a queued job, which has no attempts yet.
LEMMA ClaimQueuedInv ==
    ASSUME Inv, NEW worker \in Workers, NEW id \in Nat, NEW duration \in LeaseDurations,
           NEW epoch \in Nat, ClaimQueued(worker, id, duration, epoch)
    PROVE  Inv'
<1>1. /\ attempts = <<>> /\ plan \in Plans /\ Len(attempts) = lastFencingToken
      /\ attempts \in Seq(Attempt)
      /\ Grant(worker, id, duration, epoch, attempts)
  BY DEF Inv, Ownership, TypeOK, ClaimQueued
<1>2. TypeOK'
  BY <1>1, GrantType DEF Inv
<1>3. DOMAIN attempts = {}
  BY <1>1
<1>4. Ownership'
  BY <1>1, <1>3, GrantOwnership DEF Inv
<1> QED BY <1>2, <1>4 DEF Inv

\* So does the retry: the expired attempt ends now, and the next one begins.
LEMMA ReclaimInv ==
    ASSUME Inv, NEW worker \in Workers, NEW id \in Nat, NEW duration \in LeaseDurations,
           NEW epoch \in Nat, ReclaimExpired(worker, id, duration, epoch)
    PROVE  Inv'
<1> DEFINE n == Len(attempts)
           ended == EndedAttempt(attempts[n], clock, "lease_expired", "retry_scheduled")
           earlier == [attempts EXCEPT ![n] = ended]
<1>1. status = "running" /\ clock \in Nat /\ attempts \in Seq(Attempt)
  BY DEF ReclaimExpired, LeaseExpired, Inv, TypeOK
<1>2. n \in Nat \ {0} /\ n \in DOMAIN attempts /\ attempts[n] \in Attempt /\ plan \in Plans
  BY <1>1, RunningJob DEF Current
<1>3. ended \in Attempt
  BY <1>1, <1>2, EndedAttemptType DEF AttemptStatuses
<1>4. /\ ended.fence = attempts[n].fence
      /\ ended.startedAt = attempts[n].startedAt
      /\ ended.endedAt = clock
      /\ ended.status = "lease_expired"
      /\ ended.disposition = "retry_scheduled"
  BY <1>2 DEF EndedAttempt, Attempt
<1> HIDE DEF ended
<1>5. /\ earlier \in Seq(Attempt)
      /\ Len(earlier) = n
      /\ DOMAIN earlier = 1..n
      /\ earlier[n] = ended
      /\ \A i \in 1..n : i # n => earlier[i] = attempts[i]
  BY <1>1, <1>2, <1>3
<1>6. Grant(worker, id, duration, epoch, earlier)
  BY DEF ReclaimExpired, Current, ended
<1>7. ASSUME NEW i \in 1..n PROVE AttemptInPlace(i) /\ attempts[i].startedAt \in Nat
  <2>1. i \in DOMAIN attempts /\ attempts[i] \in Attempt
    BY <1>1
  <2> QED BY <2>1 DEF Inv, Ownership, Attempt
<1>8. ASSUME NEW i \in 1..n
      PROVE  /\ earlier[i].fence.token = i
             /\ earlier[i].status = "lease_expired"
             /\ earlier[i].disposition = "retry_scheduled"
             /\ earlier[i].startedAt <= clock
             /\ earlier[i].endedAt \in earlier[i].startedAt..clock
             /\ i < n => earlier[i].endedAt <= earlier[i + 1].startedAt
  <2>1. CASE i = n
    BY <2>1, <1>1, <1>2, <1>4, <1>5, <1>7 DEF AttemptInPlace
  <2>2. CASE i # n
    <3>1. i + 1 \in 1..n /\ i < n
      BY <2>2, <1>2
    <3>2. earlier[i] = attempts[i] /\ earlier[i + 1].startedAt = attempts[i + 1].startedAt
      BY <2>2, <3>1, <1>4, <1>5
    <3>3. AttemptInPlace(i) /\ AttemptInPlace(i + 1)
      BY <3>1, <1>7
    <3>4. attempts[i].startedAt \in Nat /\ attempts[i + 1].startedAt \in Nat
      BY <3>1, <1>7
    <3> QED BY <1>1, <1>2, <3>1, <3>2, <3>3, <3>4 DEF AttemptInPlace
  <2> QED BY <2>1, <2>2
<1>9. n = lastFencingToken
  BY DEF Inv, Ownership
<1> HIDE DEF earlier
<1>10. TypeOK'
  BY <1>2, <1>5, <1>6, GrantType DEF Inv
<1>11. Ownership'
  BY <1>2, <1>5, <1>6, <1>8, <1>9, GrantOwnership DEF Inv
<1> QED BY <1>10, <1>11 DEF Inv

\* What a worker may record keeps the invariant: it touches neither the job
\* nor its attempts.
LEMMA RecordingInv ==
    ASSUME Inv, NEW fence \in Fence,
           \/ \E id \in AcknowledgementIds : Acknowledge(fence, id)
           \/ \E id \in ReservationIds, r \in Requests : Reserve(fence, id, r)
           \/ \E r \in Reservations(ledger), u \in Usages : Reconcile(fence, r, u)
           \/ \E id \in ObservationIds, k \in ObservationKinds : AppendObservation(fence, id, k)
    PROVE  Inv'
<1>1. Ownership'
  <2>1. UNCHANGED <<clock, jobVars, attempts>>
    BY DEF Acknowledge, Reserve, Reconcile, AppendObservation
  <2> QED BY <2>1, OwnershipFrame DEF Inv
<1>2. TypeOK'
  <2>1. ASSUME NEW id \in AcknowledgementIds, Acknowledge(fence, id) PROVE TypeOK'
    <3>1. [id |-> id, fence |-> fence, at |-> clock] \in Acknowledgement
      BY DEF Inv, TypeOK, Acknowledgement
    <3> QED BY <2>1, <3>1 DEF Inv, TypeOK, Acknowledge, jobVars
  <2>2. ASSUME NEW id \in ReservationIds, NEW r \in Requests, Reserve(fence, id, r)
        PROVE  TypeOK'
    <3>1. r \in Amounts /\ Committed(ledger) \in Amounts
      BY <2>2, JobAssumption DEF Reserve, ReservationFits
    <3>2. reserveReplayBudget(id, fence, clock, Committed(ledger), r) \in ReservationEntry
      BY <3>1 DEF reserveReplayBudget, ReservationEntry, Inv, TypeOK
    <3>3. ledger' \in Seq(ReservationEntry \cup ReconciliationEntry)
      BY <2>2, <3>2 DEF Reserve, Inv, TypeOK
    <3> QED BY <2>2, <3>3 DEF Inv, TypeOK, Reserve, jobVars
  <2>3. ASSUME NEW r \in Reservations(ledger), NEW u \in Usages, Reconcile(fence, r, u)
        PROVE  TypeOK'
    <3>1. r \in ReservationEntry /\ clock \in Nat /\ u \in Usage
      BY ReservationsType, JobAssumption DEF Inv, TypeOK
    <3>2. reconcileReplayBudget(r, clock, u) \in ReconciliationEntry
      BY <3>1, ReconciliationType
    <3>3. ledger' \in Seq(ReservationEntry \cup ReconciliationEntry)
      BY <2>3, <3>2 DEF Reconcile, Inv, TypeOK
    <3> QED BY <2>3, <3>3 DEF Inv, TypeOK, Reconcile, jobVars
  <2>4. ASSUME NEW id \in ObservationIds, NEW k \in ObservationKinds,
               AppendObservation(fence, id, k)
        PROVE  TypeOK'
    <3>1. [id |-> id, kind |-> k, fence |-> fence, at |-> clock] \in Observation
      BY DEF Inv, TypeOK, Observation
    <3>2. observations' \in Seq(Observation)
      BY <2>4, <3>1 DEF AppendObservation, Inv, TypeOK
    <3> QED BY <2>4, <3>2 DEF Inv, TypeOK, AppendObservation, jobVars
  <2> QED BY <2>1, <2>2, <2>3, <2>4
<1> QED BY <1>1, <1>2 DEF Inv

\* A heartbeat moves the end of the lease only.
LEMMA HeartbeatInv ==
    ASSUME Inv, NEW fence, NEW duration \in LeaseDurations, Heartbeat(fence, duration)
    PROVE  Inv'
<1>1. status = "running" /\ clock \in Nat /\ duration \in Nat \ {0}
  BY JobAssumption DEF Heartbeat, assertCurrentFence, Inv, TypeOK
<1>2. lease \in Lease
  BY <1>1, RunningJob
<1>3. lease' \in Lease /\ lease'.fence = lease.fence /\ lease'.expiresAt = clock + duration
  BY <1>1, <1>2 DEF Heartbeat, Lease
<1>4. lease' # None
  BY <1>3, JobAssumption
<1>5. TypeOK'
  BY <1>3 DEF Inv, TypeOK, Heartbeat, recordVars
<1>6. LeaseInPlace'
  BY <1>1, <1>3 DEF Inv, Ownership, LeaseInPlace, Heartbeat, recordVars
<1>7. Ownership'
  BY <1>1, <1>4, <1>6 DEF Inv, Ownership, AttemptInPlace, Heartbeat, recordVars
<1> QED BY <1>5, <1>7 DEF Inv

\* A completion commits the current attempt's end.
LEMMA CompleteInv ==
    ASSUME Inv, NEW fence, NEW s \in TerminalStatuses, NEW code \in TerminalCodes[s],
           CompleteJob(fence, s, code)
    PROVE  Inv'
<1>1. status = "running" /\ clock \in Nat /\ code \in AllCodes
  BY CodesAreTyped DEF CompleteJob, assertCurrentFence, Inv, TypeOK
<1>2. s \in AttemptStatuses /\ s # "running"
  BY DEF AttemptStatuses, TerminalStatuses
<1> QED BY <1>1, <1>2, CommitTerminalInv DEF CompleteJob

\* Cancelling a queued job ends it before any attempt.
LEMMA CancelQueuedInv ==
    ASSUME Inv, CancelQueued
    PROVE  Inv'
<1>1. terminal' \in Terminal
  <2>1. "cancellation_committed" \in AllCodes
    BY DEF AllCodes, TerminalCodes, TerminalStatuses
  <2> QED BY <2>1 DEF CancelQueued, Terminal, Inv, TypeOK
<1>2. intents' \subseteq Intent
  BY DEF CancelQueued, Inv, TypeOK, Intent, CancellationIntent, TerminalIntent, TerminalStatuses
<1>3. TypeOK'
  BY <1>1, <1>2 DEF Inv, TypeOK, CancelQueued, TerminalStatuses
<1>4. Ownership'
  BY DEF Inv, Ownership, CancelQueued
<1> QED BY <1>3, <1>4 DEF Inv

\* Cancelling a running job stores the request only.
LEMMA CancelRunningInv ==
    ASSUME Inv, CancelRunning
    PROVE  Inv'
<1>1. intents' \subseteq Intent
  BY DEF CancelRunning, Inv, TypeOK, Intent, CancellationIntent
<1>2. TypeOK'
  BY <1>1 DEF Inv, TypeOK, CancelRunning, jobVars
<1>3. Ownership'
  BY OwnershipFrame DEF Inv, CancelRunning
<1> QED BY <1>2, <1>3 DEF Inv

\* A job is created with no attempt, in any recovery epoch.
LEMMA CreateInv ==
    ASSUME Inv, NEW p \in Plans, NEW epoch \in Nat, CreateJob(p, epoch)
    PROVE  Inv'
<1>1. intents' \subseteq Intent
  BY DEF CreateJob, Inv, TypeOK, Intent, CreatedIntent
<1>2. TypeOK'
  BY <1>1 DEF Inv, TypeOK, CreateJob
<1>3. Ownership'
  BY DEF Inv, Ownership, CreateJob
<1> QED BY <1>2, <1>3 DEF Inv

\* Time passing moves no attempt out of its place.
LEMMA TickInv ==
    ASSUME Inv, Tick
    PROVE  Inv'
<1>1. TypeOK'
  BY DEF Inv, TypeOK, Tick, jobVars, recordVars
<1>2. ASSUME NEW i \in DOMAIN attempts PROVE AttemptInPlace(i)'
  <2>1. attempts[i] \in Attempt /\ clock \in Nat
    BY DEF Inv, TypeOK
  <2>2. attempts[i].startedAt \in Nat
    BY <2>1 DEF Attempt
  <2>3. AttemptInPlace(i)
    BY DEF Inv, Ownership
  <2> QED BY <2>1, <2>2, <2>3 DEF AttemptInPlace, Tick, jobVars, recordVars
<1>3. Ownership'
  BY <1>2 DEF Inv, Ownership, LeaseInPlace, Tick, jobVars, recordVars
<1> QED BY <1>1, <1>3 DEF Inv

\* Every step keeps the invariant.
LEMMA NextInv == Inv /\ [Next]_vars => Inv'
<1> SUFFICES ASSUME Inv, [Next]_vars PROVE Inv'
  OBVIOUS
<1>1. CASE UNCHANGED vars
  BY <1>1 DEF Inv, TypeOK, Ownership, AttemptInPlace, LeaseInPlace, vars, jobVars, recordVars
<1>2. CASE Tick
  BY <1>2, TickInv
<1>3. ASSUME NEW p \in Plans, CreateJob(p, 0) PROVE Inv'
  BY <1>3, CreateInv
<1>4. ASSUME NEW w \in Workers, Claim(w, Current + 1, recoveryEpoch) PROVE Inv'
  <2>1. Current + 1 \in Nat /\ recoveryEpoch \in Nat
    BY DEF Inv, TypeOK, Current
  <2> QED BY <1>4, <2>1, ClaimQueuedInv, ReclaimInv, CloseInv DEF Claim
<1>5. CASE CancelQueued
  BY <1>5, CancelQueuedInv
<1>6. CASE CancelRunning
  BY <1>6, CancelRunningInv
<1>7. ASSUME NEW f \in IssuedFences, WorkerCall(f) PROVE Inv'
  <2>1. f \in Fence
    BY IssuedFencesType DEF Inv, TypeOK
  <2> QED BY <1>7, <2>1, RecordingInv, HeartbeatInv, CompleteInv DEF WorkerCall
<1> QED BY <1>1, <1>2, <1>3, <1>4, <1>5, <1>6, <1>7 DEF Next

\* The inductive invariant of the job: types and ownership, whatever order
\* the transactions of any number of workers are applied in.
THEOREM OwnershipInvariant == Spec => []Inv
BY InitInv, NextInv, PTL DEF Spec

\* TypeOK: every transaction stores records of the declared shape.
THEOREM TypeCorrect == Spec => []TypeOK
<1>1. Inv => TypeOK
  BY DEF Inv
<1> QED BY <1>1, OwnershipInvariant, PTL

\* Ownership makes the attempts serial.
LEMMA OwnershipIsSerial ==
    ASSUME Inv
    PROVE  AttemptsAreSerial
<1>1. attempts \in Seq(Attempt) /\ Len(attempts) \in Nat /\ DOMAIN attempts = 1..Len(attempts)
  BY DEF Inv, TypeOK
<1>2. \A i \in 1..Len(attempts) : AttemptInPlace(i)
  BY <1>1 DEF Inv, Ownership
<1>3. \A i \in 1..(Len(attempts) - 1) : i \in 1..Len(attempts) /\ i < Len(attempts)
  BY <1>1
<1>4. status = "running" => LeaseInPlace /\ Len(attempts) > 0
  BY <1>1 DEF Inv, Ownership, LeaseInPlace
<1>5. \A i \in DOMAIN attempts : attempts[i].fence.token = i
  BY <1>1, <1>2 DEF AttemptInPlace
<1>6. ASSUME NEW i \in 1..(Len(attempts) - 1)
      PROVE  /\ attempts[i].status = "lease_expired"
             /\ attempts[i].disposition = "retry_scheduled"
             /\ attempts[i].endedAt \in attempts[i].startedAt..attempts[i + 1].startedAt
  BY <1>2, <1>3 DEF AttemptInPlace
<1>7. status = "running" <=> Len(attempts) > 0 /\ attempts[Len(attempts)].status = "running"
  <2>1. Len(attempts) > 0 => AttemptInPlace(Len(attempts))
    BY <1>1, <1>2
  <2> QED BY <1>4, <2>1 DEF AttemptInPlace
<1>8. status = "running" => lease.fence = attempts[Len(attempts)].fence
  BY <1>4 DEF LeaseInPlace
<1> QED BY <1>5, <1>6, <1>7, <1>8 DEF AttemptsAreSerial

\* AttemptsAreSerial: fencing tokens are issued in order, one attempt at a
\* time, and the lease belongs to the last one.
THEOREM SerialAttempts == Spec => []AttemptsAreSerial
BY OwnershipIsSerial, OwnershipInvariant, PTL

------------------------------------------------------------------------------
(* Terminal jobs *)

\* Every transaction but the clock's starts from a job that is absent, queued
\* or running, whoever calls and with whatever fence.
LEMMA TerminalStep ==
    ASSUME [Next]_vars, status \in TerminalStatuses
    PROVE  UNCHANGED <<jobVars, recordVars>>
<1> USE DEF TerminalStatuses
<1>1. CASE UNCHANGED vars
  BY <1>1 DEF vars
<1>2. CASE Tick
  BY <1>2 DEF Tick
<1>3. CASE \E p \in Plans : CreateJob(p, 0)
  BY <1>3 DEF CreateJob
<1>4. CASE \E w \in Workers : Claim(w, Current + 1, recoveryEpoch)
  BY <1>4 DEF Claim, ClaimQueued, ReclaimExpired, CloseCancelled, CloseUnreconciled,
     CloseBlocked, LeaseExpired
<1>5. CASE CancelQueued \/ CancelRunning
  BY <1>5 DEF CancelQueued, CancelRunning
<1>6. CASE \E f \in IssuedFences : WorkerCall(f)
  BY <1>6 DEF WorkerCall, Heartbeat, Acknowledge, Reserve, Reconcile,
     AppendObservation, CompleteJob, assertCurrentFence
<1> QED BY <1>1, <1>2, <1>3, <1>4, <1>5, <1>6 DEF Next

\* TerminalIsFinal: once an outcome is committed, no transaction of any worker
\* or of the control plane changes the job or what is recorded about it.
THEOREM TerminalStays == Spec => TerminalIsFinal
<1>1. [Next]_vars => [(status \in TerminalStatuses => UNCHANGED <<jobVars, recordVars>>)]_vars
  BY TerminalStep
<1> QED BY <1>1, PTL DEF Spec, TerminalIsFinal

------------------------------------------------------------------------------
(* Cancellation and outcome *)

\* A terminal record exactly for a terminal job; a request that is not in
\* the future and, while the job is queued, not there at all; every
\* acknowledgement after the request.
Outcome ==
    /\ status \in {"absent", "queued"} => cancellationRequest = None
    /\ cancellationRequest # None => cancellationRequest <= clock
    /\ \A a \in acknowledgements : cancellationRequest # None /\ a.at >= cancellationRequest
    /\ CancellationHonoured

\* Fences that agree in every field are the same fence.
LEMMA SameFence ==
    ASSUME NEW left \in Fence, NEW right \in Fence, sameFence(left, right)
    PROVE  left = right
BY DEF sameFence, Fence

\* The clock never goes back.
LEMMA ClockStep ==
    ASSUME Inv, [Next]_vars
    PROVE  clock \in Nat /\ clock' \in Nat /\ clock' >= clock
<1>1. clock \in Nat
  BY DEF Inv, TypeOK
<1>2. clock' = clock \/ clock' = clock + 1
  BY DEF Next, vars, Tick, CreateJob, Claim, ClaimQueued, ReclaimExpired, Grant, CloseCancelled,
     CloseUnreconciled, CloseBlocked, TerminalizeExpired, CommitTerminal, CancelQueued,
     CancelRunning, WorkerCall, Heartbeat, Acknowledge, Reserve, Reconcile, AppendObservation,
     CompleteJob
<1> QED BY <1>1, <1>2

\* A terminal commit that respects cancellation honours it.
LEMMA CommitTerminalOutcome ==
    ASSUME Inv, Outcome, status = "running",
           NEW s \in TerminalStatuses, NEW code, NEW attempt \in Attempt,
           CommitTerminal(s, code, attempt),
           cancellationRequest # None =>
              /\ s = "cancelled"
              /\ attempt.status = "cancelled" =>
                   \E a \in acknowledgements : a.fence = attempt.fence
    PROVE  Outcome'
<1>1. Current \in DOMAIN attempts /\ attempts \in Seq(Attempt) /\ clock \in Nat
  BY RunningJob DEF Inv, TypeOK
<1>2. /\ terminal'.attempt = Current /\ terminal'.committedAt = clock
      /\ attempts'[Current] = attempt
  BY <1>1 DEF CommitTerminal
<1>3. /\ status' = s /\ clock' = clock
      /\ cancellationRequest' = cancellationRequest
      /\ acknowledgements' = acknowledgements
  BY DEF CommitTerminal
<1>4. CancellationHonoured'
  BY <1>2, <1>3 DEF CancellationHonoured, Outcome
<1> QED BY <1>3, <1>4 DEF Outcome, TerminalStatuses

\* Every step keeps it.
LEMMA NextOutcome == Inv /\ Outcome /\ [Next]_vars => Outcome'
<1> SUFFICES ASSUME Inv, Outcome, [Next]_vars PROVE Outcome'
  OBVIOUS
<1>1. clock \in Nat /\ clock' \in Nat /\ clock' >= clock /\ cancellationRequest \in Nat \cup {None}
  BY ClockStep DEF Inv, TypeOK
<1>2. CASE status \in TerminalStatuses
  <2>1. UNCHANGED <<jobVars, recordVars>>
    BY <1>2, TerminalStep
  <2> QED BY <1>1, <2>1 DEF Outcome, CancellationHonoured, jobVars, recordVars
<1>3. CASE /\ status \notin TerminalStatuses /\ status' = status
           /\ UNCHANGED <<cancellationRequest, acknowledgements>>
  BY <1>1, <1>3 DEF Outcome, CancellationHonoured
<1>4. ASSUME NEW p \in Plans, CreateJob(p, 0) PROVE Outcome'
  BY <1>4 DEF CreateJob, Outcome, CancellationHonoured, TerminalStatuses
<1>5. ASSUME NEW w \in Workers, Claim(w, Current + 1, recoveryEpoch) PROVE Outcome'
  <2>1. ASSUME NEW d, \/ ClaimQueued(w, Current + 1, d, recoveryEpoch)
                      \/ ReclaimExpired(w, Current + 1, d, recoveryEpoch)
        PROVE  Outcome'
    BY <2>1 DEF ClaimQueued, ReclaimExpired, Grant, Outcome, CancellationHonoured, TerminalStatuses
  <2>2. ASSUME NEW s \in TerminalStatuses, NEW code, status = "running",
               cancellationRequest # None => s = "cancelled", TerminalizeExpired(s, code)
        PROVE  Outcome'
    <3> DEFINE ended == EndedAttempt(attempts[Current], lease.expiresAt,
                                     "lease_expired", "not_retryable")
    <3>1. ended \in Attempt /\ ended.status = "lease_expired"
      <4>1. attempts[Current] \in Attempt /\ lease.expiresAt \in Nat
        BY <2>2, RunningJob
      <4> QED BY <4>1, EndedAttemptType DEF EndedAttempt, AttemptStatuses, Attempt
    <3> HIDE DEF ended
    <3>2. CommitTerminal(s, code, ended)
      BY <2>2 DEF TerminalizeExpired, ended
    <3> QED BY <2>2, <3>1, <3>2, CommitTerminalOutcome
  <2>3. CASE CloseCancelled
    BY <2>2, <2>3 DEF CloseCancelled, LeaseExpired, TerminalStatuses
  <2>4. CASE CloseUnreconciled
    BY <2>2, <2>4 DEF CloseUnreconciled, LeaseExpired, TerminalStatuses
  <2>5. CASE CloseBlocked
    BY <2>2, <2>5, CloseReasonType DEF CloseBlocked, LeaseExpired
  <2> QED BY <1>5, <2>1, <2>3, <2>4, <2>5 DEF Claim
<1>6. CASE CancelQueued
  BY <1>1, <1>6, BudgetAssumption DEF CancelQueued, Outcome, CancellationHonoured, TerminalStatuses
<1>7. CASE CancelRunning
  BY <1>1, <1>7, BudgetAssumption DEF CancelRunning, Outcome, CancellationHonoured, TerminalStatuses,
     jobVars
<1>8. ASSUME NEW f \in IssuedFences, WorkerCall(f) PROVE Outcome'
  <2>1. f \in Fence
    BY IssuedFencesType DEF Inv, TypeOK
  <2>2. ASSUME NEW id \in AcknowledgementIds, Acknowledge(f, id) PROVE Outcome'
    BY <1>1, <2>2 DEF Acknowledge, assertCurrentFence, Outcome, CancellationHonoured,
       TerminalStatuses, jobVars
  <2>3. ASSUME NEW s \in TerminalStatuses, NEW c \in TerminalCodes[s], CompleteJob(f, s, c)
        PROVE  Outcome'
    <3> DEFINE ended == EndedAttempt(attempts[Current], clock, s, "not_retryable")
    <3>1. /\ status = "running" /\ sameFence(lease.fence, f)
          /\ CancellationPermits(f, s) /\ CommitTerminal(s, c, ended)
      BY <2>3 DEF CompleteJob, assertCurrentFence
    <3>2. /\ lease.fence = attempts[Current].fence /\ lease.fence \in Fence
          /\ attempts[Current] \in Attempt
      BY <3>1, RunningJob DEF Lease
    <3>3. ended \in Attempt /\ ended.fence = f
      <4>1. ended \in Attempt
        BY <1>1, <3>2, EndedAttemptType DEF AttemptStatuses
      <4>2. ended.fence = attempts[Current].fence
        BY <3>2 DEF EndedAttempt, Attempt
      <4> QED BY <2>1, <3>1, <3>2, <4>1, <4>2, SameFence
    <3>4. \A a \in acknowledgements : sameFence(a.fence, f) => a.fence = f
      <4>1. \A a \in acknowledgements : a.fence \in Fence
        BY DEF Inv, TypeOK, Acknowledgement
      <4> QED BY <2>1, <4>1, SameFence
    <3> HIDE DEF ended
    <3> QED BY <3>1, <3>3, <3>4, CommitTerminalOutcome DEF CancellationPermits
  <2>4. CASE \/ \E d \in LeaseDurations : Heartbeat(f, d)
             \/ \E id \in ReservationIds, r \in Requests : Reserve(f, id, r)
             \/ \E r \in Reservations(ledger), u \in Usages : Reconcile(f, r, u)
             \/ \E id \in ObservationIds, k \in ObservationKinds : AppendObservation(f, id, k)
    <3>1. status = "running" /\ status' = status /\ UNCHANGED <<cancellationRequest, acknowledgements>>
      BY <2>4 DEF Heartbeat, Reserve, Reconcile, AppendObservation, assertCurrentFence,
         jobVars, recordVars
    <3> QED BY <1>3, <3>1 DEF TerminalStatuses
  <2> QED BY <1>8, <2>2, <2>3, <2>4 DEF WorkerCall
<1>9. CASE UNCHANGED vars \/ Tick
  BY <1>2, <1>3, <1>9 DEF vars, Tick, jobVars, recordVars
<1> QED BY <1>4, <1>5, <1>6, <1>7, <1>8, <1>9 DEF Next

\* Ownership and outcome hold together in every reachable state.
LEMMA OutcomeInvariant == Spec => [](Inv /\ Outcome)
<1>1. Init => Outcome
  BY DEF Init, Outcome, CancellationHonoured, TerminalStatuses
<1> QED BY <1>1, InitInv, NextInv, NextOutcome, PTL DEF Spec

\* CancellationHonoured: a job that was asked to stop ends cancelled, and a
\* worker that commits that end has acknowledged under the same fence.
THEOREM CancellationDecides == Spec => []CancellationHonoured
<1>1. Outcome => CancellationHonoured
  BY DEF Outcome
<1> QED BY <1>1, OutcomeInvariant, PTL

------------------------------------------------------------------------------
(* Refinement *)

\* ImplementsLifecycle: every transaction is a step of the lifecycle the port
\* promises, or none: one owner at a time, numbered in order, none after a
\* cancellation request, and an outcome that stays.
THEOREM LifecycleRefinement == Spec => ImplementsLifecycle
<1> USE DEF Lifecycle!Outcomes, TerminalStatuses
<1>1. Init => Lifecycle!LifecycleInit
  BY DEF Init, Lifecycle!LifecycleInit
<1>2. ASSUME NEW s \in TerminalStatuses, NEW code, NEW attempt,
             status = "running", cancellationRequest # None => s = "cancelled",
             CommitTerminal(s, code, attempt)
      PROVE  Lifecycle!Close(s)
  BY <1>2 DEF Lifecycle!Close, CommitTerminal
<1>3. ASSUME NEW worker, NEW id, NEW duration, NEW epoch, NEW earlier,
             status \in {"queued", "running"}, cancellationRequest = None,
             Grant(worker, id, duration, epoch, earlier)
      PROVE  Lifecycle!TakeOwnership
  BY <1>3 DEF Lifecycle!TakeOwnership, Grant
<1>4. Inv /\ Outcome /\ [Next]_vars => [Lifecycle!LifecycleNext]_(Lifecycle!lifecycleVars)
  <2> SUFFICES ASSUME Inv, Outcome, [Next]_vars
               PROVE  Lifecycle!LifecycleNext \/ UNCHANGED Lifecycle!lifecycleVars
    OBVIOUS
  <2> USE DEF Lifecycle!LifecycleNext, Lifecycle!lifecycleVars
  <2>1. CASE UNCHANGED vars \/ Tick
    BY <2>1 DEF vars, Tick, jobVars, recordVars
  <2>2. ASSUME NEW p \in Plans, CreateJob(p, 0) PROVE Lifecycle!Create
    BY <2>2 DEF CreateJob, Lifecycle!Create
  <2>3. ASSUME NEW w \in Workers, Claim(w, Current + 1, recoveryEpoch)
        PROVE  Lifecycle!LifecycleNext
    <3>1. ASSUME NEW d \in LeaseDurations, ClaimQueued(w, Current + 1, d, recoveryEpoch)
          PROVE  Lifecycle!TakeOwnership
      BY <3>1, <1>3 DEF ClaimQueued, Outcome
    <3>2. ASSUME NEW d \in LeaseDurations, ReclaimExpired(w, Current + 1, d, recoveryEpoch)
          PROVE  Lifecycle!TakeOwnership
      BY <3>2, <1>3 DEF ReclaimExpired, LeaseExpired
    <3>3. CASE CloseCancelled
      BY <3>3, <1>2 DEF CloseCancelled, LeaseExpired, TerminalizeExpired
    <3>4. CASE CloseUnreconciled
      BY <3>4, <1>2 DEF CloseUnreconciled, LeaseExpired, TerminalizeExpired
    <3>5. CASE CloseBlocked
      BY <3>5, <1>2, CloseReasonType DEF CloseBlocked, LeaseExpired, TerminalizeExpired
    <3> QED BY <2>3, <3>1, <3>2, <3>3, <3>4, <3>5 DEF Claim
  <2>4. CASE CancelQueued \/ CancelRunning
    <3>1. cancellationRequest = None /\ cancellationRequest' # None
      BY <2>4, BudgetAssumption DEF CancelQueued, CancelRunning, Inv, TypeOK
    <3>2. CASE CancelQueued
      BY <3>1, <3>2 DEF CancelQueued, Lifecycle!RequestCancel
    <3>3. CASE CancelRunning
      BY <3>1, <3>3 DEF CancelRunning, Lifecycle!RequestCancel, jobVars
    <3> QED BY <2>4, <3>2, <3>3
  <2>5. ASSUME NEW f \in IssuedFences, WorkerCall(f)
        PROVE  Lifecycle!LifecycleNext \/ UNCHANGED Lifecycle!lifecycleVars
    <3>1. ASSUME NEW s \in TerminalStatuses, NEW c \in TerminalCodes[s], CompleteJob(f, s, c)
          PROVE  Lifecycle!Close(s)
      BY <3>1, <1>2 DEF CompleteJob, CancellationPermits, assertCurrentFence
    <3>2. ASSUME NEW d \in LeaseDurations, Heartbeat(f, d)
          PROVE  UNCHANGED Lifecycle!lifecycleVars
      BY <3>2 DEF Heartbeat, recordVars
    <3> QED BY <2>5, <3>1, <3>2 DEF WorkerCall, Acknowledge, Reserve, Reconcile,
               AppendObservation, jobVars
  <2> QED BY <2>1, <2>2, <2>3, <2>4, <2>5 DEF Next
<1> QED BY <1>1, <1>4, OutcomeInvariant, PTL DEF Spec, ImplementsLifecycle, Lifecycle!LifecycleSpec

------------------------------------------------------------------------------
(* The outbox *)

\* A terminal commit stores the one terminal intent.
LEMMA CommitTerminalIntents ==
    ASSUME IntentsMatchJob, status = "running",
           NEW s \in TerminalStatuses, NEW code, NEW attempt, CommitTerminal(s, code, attempt)
    PROVE  IntentsMatchJob'
<1>1. /\ status' = s /\ terminal'.committedAt = clock
      /\ cancellationRequest' = cancellationRequest
      /\ intents' = intents \cup {[eventType |-> "terminal", createdAt |-> clock, status |-> s]}
  BY DEF CommitTerminal, TerminalIntent
<1>2. {i \in intents : i.eventType = "terminal"} = {}
  BY DEF IntentsMatchJob, TerminalStatuses
<1> QED BY <1>1, <1>2 DEF IntentsMatchJob

\* Every step keeps the outbox in agreement with the job.
LEMMA NextIntents == Inv /\ Outcome /\ IntentsMatchJob /\ [Next]_vars => IntentsMatchJob'
<1> SUFFICES ASSUME Inv, Outcome, IntentsMatchJob, [Next]_vars PROVE IntentsMatchJob'
  OBVIOUS
<1>1. CASE status \in TerminalStatuses
  <2>1. UNCHANGED <<jobVars, recordVars>>
    BY <1>1, TerminalStep
  <2> QED BY <2>1 DEF IntentsMatchJob, jobVars, recordVars
<1>2. CASE /\ status \notin TerminalStatuses /\ status' \notin TerminalStatuses
           /\ UNCHANGED <<cancellationRequest, intents>>
  BY <1>2 DEF IntentsMatchJob
<1>3. ASSUME NEW p \in Plans, CreateJob(p, 0) PROVE IntentsMatchJob'
  BY <1>3 DEF CreateJob, CreatedIntent, IntentsMatchJob, TerminalStatuses
<1>4. ASSUME NEW w \in Workers, Claim(w, Current + 1, recoveryEpoch) PROVE IntentsMatchJob'
  <2>1. ASSUME NEW d, \/ ClaimQueued(w, Current + 1, d, recoveryEpoch)
                      \/ ReclaimExpired(w, Current + 1, d, recoveryEpoch)
        PROVE  IntentsMatchJob'
    BY <1>2, <2>1 DEF ClaimQueued, ReclaimExpired, LeaseExpired, Grant, TerminalStatuses
  <2>2. CASE CloseCancelled
    BY <2>2, CommitTerminalIntents DEF CloseCancelled, LeaseExpired, TerminalizeExpired,
       TerminalStatuses
  <2>3. CASE CloseUnreconciled
    BY <2>3, CommitTerminalIntents DEF CloseUnreconciled, LeaseExpired, TerminalizeExpired,
       TerminalStatuses
  <2>4. CASE CloseBlocked
    BY <2>4, CommitTerminalIntents, CloseReasonType DEF CloseBlocked, LeaseExpired,
       TerminalizeExpired
  <2> QED BY <1>4, <2>1, <2>2, <2>3, <2>4 DEF Claim
<1>5. CASE CancelQueued \/ CancelRunning
  <2> DEFINE request == [eventType |-> "cancellation_requested", createdAt |-> clock,
                         status |-> "none"]
  <2>1. clock # None /\ cancellationRequest = None /\ cancellationRequest' = clock
    BY <1>5, BudgetAssumption DEF CancelQueued, CancelRunning, Inv, TypeOK
  <2>2. {i \in intents : i.eventType = "cancellation_requested"} = {}
    BY <2>1 DEF IntentsMatchJob
  <2>3. status \notin TerminalStatuses
    BY <1>5 DEF CancelQueued, CancelRunning, TerminalStatuses
  <2>4. {i \in intents : i.eventType = "terminal"} = {}
    BY <2>3 DEF IntentsMatchJob
  <2>5. CASE CancelQueued
    <3>1. /\ status' = "cancelled" /\ terminal'.committedAt = clock
          /\ intents' = intents \cup {request, [eventType |-> "terminal", createdAt |-> clock,
                                                status |-> "cancelled"]}
      BY <2>5 DEF CancelQueued, CancellationIntent, TerminalIntent
    <3> QED BY <2>1, <2>2, <2>4, <3>1 DEF IntentsMatchJob, TerminalStatuses
  <2>6. CASE CancelRunning
    <3>1. status' = status /\ intents' = intents \cup {request}
      BY <2>6 DEF CancelRunning, CancellationIntent, jobVars
    <3> QED BY <2>1, <2>2, <2>3, <2>4, <3>1 DEF IntentsMatchJob
  <2> QED BY <1>5, <2>5, <2>6
<1>6. ASSUME NEW f \in IssuedFences, WorkerCall(f) PROVE IntentsMatchJob'
  <2>1. ASSUME NEW s \in TerminalStatuses, NEW c \in TerminalCodes[s], CompleteJob(f, s, c)
        PROVE  IntentsMatchJob'
    BY <2>1, CommitTerminalIntents DEF CompleteJob, assertCurrentFence
  <2>2. ASSUME NEW d \in LeaseDurations, Heartbeat(f, d) PROVE IntentsMatchJob'
    BY <1>2, <2>2 DEF Heartbeat, assertCurrentFence, recordVars, TerminalStatuses
  <2>3. CASE \/ \E id \in AcknowledgementIds : Acknowledge(f, id)
             \/ \E id \in ReservationIds, r \in Requests : Reserve(f, id, r)
             \/ \E r \in Reservations(ledger), u \in Usages : Reconcile(f, r, u)
             \/ \E id \in ObservationIds, k \in ObservationKinds : AppendObservation(f, id, k)
    <3>1. status = "running" /\ status' = status /\ UNCHANGED <<cancellationRequest, intents>>
      BY <2>3 DEF Acknowledge, Reserve, Reconcile, AppendObservation, assertCurrentFence, jobVars
    <3> QED BY <1>2, <3>1 DEF TerminalStatuses
  <2> QED BY <1>6, <2>1, <2>2, <2>3 DEF WorkerCall
<1>7. CASE UNCHANGED vars \/ Tick
  BY <1>1, <1>2, <1>7 DEF vars, Tick, jobVars, recordVars
<1> QED BY <1>3, <1>4, <1>5, <1>6, <1>7 DEF Next

\* IntentsMatchJob: the outbox carries a terminal intent exactly when the job
\* is terminal, for that outcome and time, and a cancellation intent exactly
\* when a request is stored.
THEOREM OutboxAgrees == Spec => []IntentsMatchJob
<1>1. Init => IntentsMatchJob
  BY DEF Init, IntentsMatchJob, TerminalStatuses
<1> QED BY <1>1, OutcomeInvariant, NextIntents, PTL DEF Spec

------------------------------------------------------------------------------
(* Worker records *)

\* RecordsWithinAttempt for one record, strengthened for the attempt that is
\* still running: its records are from before the lease expires.
RecordedIn(r, i) ==
    /\ attempts[i].fence = r.fence
    /\ attempts[i].startedAt <= r.at
    /\ r.at <= clock
    /\ attempts[i].endedAt # None => r.at <= attempts[i].endedAt
    /\ attempts[i].status = "lease_expired" => r.at < attempts[i].endedAt
    /\ attempts[i].status = "running" => r.at < lease.expiresAt

Records == \A r \in WorkerRecords : \E i \in DOMAIN attempts : RecordedIn(r, i)

\* Every worker record carries a fence and a time.
LEMMA RecordType ==
    ASSUME Inv, NEW r \in WorkerRecords
    PROVE  r.at \in Nat /\ r.fence \in Fence
<1>1. r \in ReservationEntry \cup ReconciliationEntry \cup Acknowledgement \cup Observation
  BY DEF Inv, TypeOK, WorkerRecords, Entries
<1> QED BY <1>1 DEF ReservationEntry, ReconciliationEntry, Acknowledgement, Observation

\* A step that keeps the records and only moves the clock or the lease's end
\* forward keeps Records.
LEMMA RecordsFrame ==
    ASSUME Inv, Records, clock' \in Nat, clock' >= clock,
           UNCHANGED <<ledger, acknowledgements, observations, attempts>>,
           \/ UNCHANGED lease
           \/ lease'.expiresAt \in Nat /\ lease'.expiresAt > clock
    PROVE  Records'
<1>1. WorkerRecords' = WorkerRecords
  BY DEF WorkerRecords
<1>2. ASSUME NEW r \in WorkerRecords PROVE \E i \in DOMAIN attempts : RecordedIn(r, i)'
  <2>1. r.at \in Nat /\ clock \in Nat
    BY RecordType DEF Inv, TypeOK
  <2>2. PICK i \in DOMAIN attempts : RecordedIn(r, i)
    BY DEF Records
  <2>3. RecordedIn(r, i)'
    BY <2>1, <2>2 DEF RecordedIn
  <2> QED BY <2>3
<1> QED BY <1>1, <1>2 DEF Records

\* A step that adds one record under the current fence keeps it.
LEMMA RecordsAdd ==
    ASSUME Inv, Records, NEW fence \in Fence, assertCurrentFence(fence),
           UNCHANGED <<clock, lease, attempts>>, NEW new,
           WorkerRecords' \subseteq WorkerRecords \cup {new},
           new.fence = fence, new.at = clock
    PROVE  Records'
<1>1. status = "running" /\ clock \in Nat /\ sameFence(lease.fence, fence) /\ clock < lease.expiresAt
  BY DEF assertCurrentFence, Inv, TypeOK
<1>2. /\ Current \in DOMAIN attempts /\ lease.fence = attempts[Current].fence
      /\ lease.fence \in Fence /\ attempts[Current].startedAt <= clock
      /\ attempts[Current].endedAt = None
      /\ attempts[Current].status = "running"
  <2>1. Current \in DOMAIN attempts /\ lease \in Lease /\ Current = Len(attempts)
    BY <1>1, RunningJob DEF Current
  <2>2. AttemptInPlace(Current) /\ LeaseInPlace
    BY <1>1, <2>1 DEF Inv, Ownership
  <2> QED BY <1>1, <2>1, <2>2 DEF AttemptInPlace, LeaseInPlace, Lease
<1>3. fence = attempts[Current].fence
  BY <1>1, <1>2, SameFence
<1>4. RecordedIn(new, Current)
  BY <1>1, <1>2, <1>3 DEF RecordedIn
<1>5. \A r, i : RecordedIn(r, i) => RecordedIn(r, i)'
  BY DEF RecordedIn
<1> QED BY <1>2, <1>4, <1>5 DEF Records

\* A terminal commit ends the running attempt no earlier than its records.
LEMMA RecordsCommit ==
    ASSUME Inv, Records, status = "running",
           NEW s, NEW code, NEW at \in Nat, NEW as \in AttemptStatuses, as # "running",
           (at = clock /\ as # "lease_expired") \/ at = lease.expiresAt,
           CommitTerminal(s, code, EndedAttempt(attempts[Current], at, as, "not_retryable"))
    PROVE  Records'
<1> DEFINE ended == EndedAttempt(attempts[Current], at, as, "not_retryable")
<1>1. /\ Current \in DOMAIN attempts /\ attempts[Current] \in Attempt /\ attempts \in Seq(Attempt)
      /\ lease.expiresAt \in Nat /\ clock \in Nat /\ Current = Len(attempts)
  BY RunningJob DEF Inv, TypeOK, Current
<1>2. /\ ended.fence = attempts[Current].fence /\ ended.startedAt = attempts[Current].startedAt
      /\ ended.endedAt = at /\ ended.status = as
  BY <1>1 DEF EndedAttempt, Attempt
<1> HIDE DEF ended
<1>3. /\ DOMAIN attempts' = DOMAIN attempts
      /\ attempts'[Current] = ended
      /\ \A i \in DOMAIN attempts : i # Current => attempts'[i] = attempts[i]
      /\ clock' = clock
      /\ WorkerRecords' = WorkerRecords
  BY <1>1 DEF CommitTerminal, WorkerRecords, ended
<1>4. attempts[Current].status = "running"
  BY <1>1 DEF Inv, Ownership, AttemptInPlace
<1>5. ASSUME NEW r \in WorkerRecords PROVE \E i \in DOMAIN attempts : RecordedIn(r, i)'
  <2>1. r.at \in Nat
    BY RecordType
  <2>2. PICK i \in DOMAIN attempts : RecordedIn(r, i)
    BY DEF Records
  <2>3. CASE i = Current
    <3>1. /\ attempts[i].fence = r.fence /\ attempts[i].startedAt <= r.at
          /\ r.at <= clock /\ r.at < lease.expiresAt
      BY <1>4, <2>2, <2>3 DEF RecordedIn
    <3>2. r.at <= at /\ (as = "lease_expired" => r.at < at)
      <4>1. CASE at = clock /\ as # "lease_expired"
        BY <3>1, <4>1
      <4>2. CASE at = lease.expiresAt
        <5>1. r.at < at
          BY <3>1, <4>2
        <5>2. ASSUME NEW x \in Nat, NEW y \in Nat, x < y PROVE x <= y
          BY <5>2
        <5> QED BY <2>1, <5>1, <5>2
      <4> QED BY <4>1, <4>2
    <3>3. attempts'[i] = ended
      BY <1>3, <2>3
    <3>4. RecordedIn(r, i)'
      BY <1>2, <1>3, <2>3, <3>1, <3>2, <3>3 DEF RecordedIn
    <3> QED BY <3>4
  <2>4. CASE i # Current
    <3>1. attempts[i].status # "running"
      BY <1>1, <2>4 DEF Inv, Ownership, AttemptInPlace
    <3> QED BY <1>3, <2>2, <2>4, <3>1 DEF RecordedIn
  <2> QED BY <2>3, <2>4
<1> QED BY <1>3, <1>5 DEF Records

\* A claim ends the attempt it replaces after all of its records.
LEMMA RecordsGrant ==
    ASSUME Inv, Records, NEW worker, NEW id, NEW duration, NEW epoch,
           \/ ClaimQueued(worker, id, duration, epoch)
           \/ ReclaimExpired(worker, id, duration, epoch)
    PROVE  Records'
<1>1. WorkerRecords' = WorkerRecords /\ clock' = clock /\ attempts \in Seq(Attempt) /\ clock \in Nat
  BY DEF ClaimQueued, ReclaimExpired, Grant, WorkerRecords, Inv, TypeOK
<1>2. CASE ClaimQueued(worker, id, duration, epoch)
  <2>1. attempts = <<>>
    BY <1>2 DEF ClaimQueued, Inv, Ownership
  <2>2. WorkerRecords = {}
    BY <2>1 DEF Records
  <2> QED BY <1>1, <2>2 DEF Records
<1>3. CASE ReclaimExpired(worker, id, duration, epoch)
  <2> DEFINE ended == EndedAttempt(attempts[Current], clock, "lease_expired", "retry_scheduled")
             earlier == [attempts EXCEPT ![Current] = ended]
  <2>1. status = "running" /\ clock >= lease.expiresAt
    BY <1>3 DEF ReclaimExpired, LeaseExpired
  <2>2. /\ Current \in DOMAIN attempts /\ attempts[Current] \in Attempt /\ Current = Len(attempts)
        /\ lease.expiresAt \in Nat
    BY <2>1, RunningJob DEF Current
  <2>3. ended \in Attempt
    BY <1>1, <2>2, EndedAttemptType DEF AttemptStatuses
  <2>4. /\ ended.fence = attempts[Current].fence /\ ended.startedAt = attempts[Current].startedAt
        /\ ended.endedAt = clock /\ ended.status = "lease_expired"
    BY <2>2 DEF EndedAttempt, Attempt
  <2> HIDE DEF ended
  <2>5. PICK new : attempts' = Append(earlier, new)
    BY <1>3 DEF ReclaimExpired, Grant, ended
  <2>6. /\ \A i \in DOMAIN attempts : i \in DOMAIN attempts'
        /\ attempts'[Current] = ended
        /\ \A i \in DOMAIN attempts : i # Current => attempts'[i] = attempts[i]
    <3>1. /\ earlier \in Seq(Attempt) /\ Len(earlier) = Len(attempts)
          /\ earlier[Current] = ended
          /\ \A i \in DOMAIN attempts : i # Current => earlier[i] = attempts[i]
      BY <1>1, <2>2, <2>3
    <3>2. DOMAIN attempts = 1..Len(earlier) /\ Len(earlier) \in Nat
      BY <1>1, <3>1
    <3> HIDE DEF earlier
    <3>3. \A i \in 1..Len(earlier) : i \in DOMAIN attempts' /\ attempts'[i] = earlier[i]
      BY <2>5, <3>1, <3>2
    <3> QED BY <2>2, <3>1, <3>2, <3>3
  <2>7. ASSUME NEW r \in WorkerRecords PROVE \E i \in DOMAIN attempts' : RecordedIn(r, i)'
    <3>1. r.at \in Nat
      BY RecordType
    <3>2. PICK i \in DOMAIN attempts : RecordedIn(r, i)
      BY DEF Records
    <3>3. AttemptInPlace(i) /\ AttemptInPlace(Current)
      BY <2>2 DEF Inv, Ownership
    <3>4. CASE i = Current
      BY <1>1, <2>1, <2>2, <2>4, <2>6, <3>1, <3>2, <3>3, <3>4 DEF RecordedIn, AttemptInPlace
    <3>5. CASE i # Current
      BY <1>1, <2>2, <2>6, <3>2, <3>3, <3>5 DEF RecordedIn, AttemptInPlace
    <3> QED BY <3>4, <3>5
  <2> QED BY <1>1, <2>7 DEF Records
<1> QED BY <1>2, <1>3

\* Every step keeps the records within their attempts.
LEMMA NextRecords == Inv /\ Records /\ [Next]_vars => Records'
<1> SUFFICES ASSUME Inv, Records, [Next]_vars PROVE Records'
  OBVIOUS
<1>1. clock \in Nat /\ clock' \in Nat /\ clock' >= clock
  BY ClockStep
<1>2. CASE UNCHANGED <<ledger, acknowledgements, observations, attempts, lease>>
  BY <1>1, <1>2, RecordsFrame
<1>3. CASE UNCHANGED vars \/ Tick \/ (\E p \in Plans : CreateJob(p, 0)) \/ CancelQueued \/ CancelRunning
  BY <1>2, <1>3 DEF vars, Tick, CreateJob, CancelQueued, CancelRunning, jobVars, recordVars
<1>4. ASSUME NEW w \in Workers, Claim(w, Current + 1, recoveryEpoch) PROVE Records'
  <2>1. ASSUME NEW s, NEW code, status = "running", TerminalizeExpired(s, code) PROVE Records'
    <3>1. lease.expiresAt \in Nat /\ "lease_expired" \in AttemptStatuses
      BY <2>1, RunningJob DEF AttemptStatuses
    <3> QED BY <2>1, <3>1, RecordsCommit DEF TerminalizeExpired
  <2>2. CASE CloseCancelled \/ CloseUnreconciled \/ CloseBlocked
    BY <2>1, <2>2 DEF CloseCancelled, CloseUnreconciled, CloseBlocked, LeaseExpired
  <2> QED BY <1>4, <2>2, RecordsGrant DEF Claim
<1>5. ASSUME NEW f \in IssuedFences, WorkerCall(f) PROVE Records'
  <2>1. f \in Fence
    BY IssuedFencesType DEF Inv, TypeOK
  <2>2. ASSUME NEW d \in LeaseDurations, Heartbeat(f, d) PROVE Records'
    <3>1. d \in Nat \ {0} /\ lease \in Lease
      BY <2>2, JobAssumption, RunningJob DEF Heartbeat, assertCurrentFence
    <3>2. lease'.expiresAt = clock + d /\ UNCHANGED <<ledger, acknowledgements, observations, attempts>>
      BY <2>2, <3>1 DEF Heartbeat, Lease, recordVars
    <3> QED BY <1>1, <3>1, <3>2, RecordsFrame
  <2>3. ASSUME NEW id \in AcknowledgementIds, Acknowledge(f, id) PROVE Records'
    <3> DEFINE new == [id |-> id, fence |-> f, at |-> clock]
    <3>1. new.fence = f /\ new.at = clock
      OBVIOUS
    <3>2. WorkerRecords' \subseteq WorkerRecords \cup {new}
      BY <2>3 DEF Acknowledge, WorkerRecords
    <3> HIDE DEF new
    <3> QED BY <2>1, <2>3, <3>1, <3>2, RecordsAdd DEF Acknowledge, jobVars
  <2>4. ASSUME NEW id \in ReservationIds, NEW q \in Requests, Reserve(f, id, q) PROVE Records'
    <3> DEFINE new == reserveReplayBudget(id, f, clock, Committed(ledger), q)
    <3>1. new.fence = f /\ new.at = clock
      BY DEF reserveReplayBudget
    <3> HIDE DEF new
    <3>2. Entries(ledger') \subseteq Entries(ledger) \cup {new}
      BY <2>4 DEF Reserve, Entries, new, Inv, TypeOK
    <3>3. WorkerRecords' \subseteq WorkerRecords \cup {new}
      BY <2>4, <3>2 DEF Reserve, WorkerRecords
    <3> QED BY <2>1, <2>4, <3>1, <3>3, RecordsAdd DEF Reserve, jobVars
  <2>5. ASSUME NEW q \in Reservations(ledger), NEW u \in Usages, Reconcile(f, q, u) PROVE Records'
    <3> DEFINE new == reconcileReplayBudget(q, clock, u)
    <3>1. new.fence = q.fence /\ new.at = clock
      BY DEF reconcileReplayBudget
    <3>2. q.fence = f
      <4>1. q.fence \in Fence
        BY ReservationsType DEF Inv, TypeOK, ReservationEntry
      <4> QED BY <2>1, <2>5, <4>1, SameFence DEF Reconcile
    <3> HIDE DEF new
    <3>3. Entries(ledger') \subseteq Entries(ledger) \cup {new}
      BY <2>5 DEF Reconcile, Entries, new, Inv, TypeOK
    <3>4. WorkerRecords' \subseteq WorkerRecords \cup {new}
      BY <2>5, <3>3 DEF Reconcile, WorkerRecords
    <3> QED BY <2>1, <2>5, <3>1, <3>2, <3>4, RecordsAdd DEF Reconcile, jobVars
  <2>6. ASSUME NEW id \in ObservationIds, NEW k \in ObservationKinds, AppendObservation(f, id, k)
        PROVE  Records'
    <3> DEFINE new == [id |-> id, kind |-> k, fence |-> f, at |-> clock]
    <3>1. new.fence = f /\ new.at = clock
      OBVIOUS
    <3> HIDE DEF new
    <3>2. \A i \in DOMAIN observations' :
             \/ i \in DOMAIN observations /\ observations'[i] = observations[i]
             \/ observations'[i] = new
      BY <2>6 DEF AppendObservation, new, Inv, TypeOK
    <3>3. WorkerRecords' \subseteq WorkerRecords \cup {new}
      BY <2>6, <3>2 DEF AppendObservation, WorkerRecords
    <3> QED BY <2>1, <2>6, <3>1, <3>3, RecordsAdd DEF AppendObservation, jobVars
  <2>7. ASSUME NEW s \in TerminalStatuses, NEW c \in TerminalCodes[s], CompleteJob(f, s, c)
        PROVE  Records'
    <3>1. s \in AttemptStatuses /\ s # "running" /\ s # "lease_expired"
      BY DEF AttemptStatuses, TerminalStatuses
    <3> QED BY <1>1, <2>7, <3>1, RecordsCommit DEF CompleteJob, assertCurrentFence
  <2> QED BY <1>5, <2>2, <2>3, <2>4, <2>5, <2>6, <2>7 DEF WorkerCall
<1> QED BY <1>3, <1>4, <1>5 DEF Next

\* RecordsWithinAttempt: a paused worker leaves no trace in its successor's
\* time; what it recorded, it recorded while its own lease was live.
THEOREM FencedRecords == Spec => []RecordsWithinAttempt
<1>1. Init => Records
  BY DEF Init, Records, WorkerRecords, Entries
<1>2. Records => RecordsWithinAttempt
  BY DEF Records, RecordedIn, RecordsWithinAttempt
<1> QED BY <1>1, <1>2, OwnershipInvariant, NextRecords, PTL DEF Spec

------------------------------------------------------------------------------
(* Success *)

\* A step that does not make the job succeed keeps SuccessIsClean.
LEMMA NextSuccess == SuccessIsClean /\ [Next]_vars => SuccessIsClean'
<1> SUFFICES ASSUME SuccessIsClean, [Next]_vars, status' = "succeeded" PROVE SuccessIsClean'
  BY DEF SuccessIsClean
<1>1. CASE status \in TerminalStatuses
  <2>1. UNCHANGED <<jobVars, recordVars>>
    BY <1>1, TerminalStep
  <2> QED BY <2>1 DEF SuccessIsClean, jobVars, recordVars
<1>2. CASE status \notin TerminalStatuses
  <2>1. status # status'
    BY <1>2 DEF TerminalStatuses
  <2>2. ASSUME NEW w \in Workers, Claim(w, Current + 1, recoveryEpoch) PROVE FALSE
    BY <2>2, CloseReasonType DEF Claim, ClaimQueued, ReclaimExpired, Grant, CloseCancelled,
       CloseUnreconciled, CloseBlocked, TerminalizeExpired, CommitTerminal
  <2>3. PICK f \in IssuedFences : WorkerCall(f)
    BY <2>1, <2>2 DEF Next, vars, jobVars, Tick, CreateJob, CancelQueued, CancelRunning
  <2>4. PICK s \in TerminalStatuses : \E c \in TerminalCodes[s] : CompleteJob(f, s, c)
    BY <2>1, <2>3 DEF WorkerCall, Heartbeat, Acknowledge, Reserve, Reconcile,
       AppendObservation, jobVars
  <2>5. /\ s = "succeeded" /\ AccountingPermits(s) /\ CancellationPermits(f, s)
        /\ UNCHANGED <<ledger, cancellationRequest>>
    BY <2>4 DEF CompleteJob, CommitTerminal
  <2> QED BY <2>5 DEF SuccessIsClean, AccountingPermits, CancellationPermits
<1> QED BY <1>1, <1>2

\* SuccessIsClean: no job succeeds over an overrun or an open reservation of
\* any attempt, or over a cancellation request.
THEOREM CleanSuccess == Spec => []SuccessIsClean
<1>1. Init => SuccessIsClean
  BY DEF Init, SuccessIsClean
<1> QED BY <1>1, NextSuccess, PTL DEF Spec

------------------------------------------------------------------------------
(* The history *)

\* A sequence is a prefix of itself and of what it becomes by an append.
LEMMA PrefixOfAppend ==
    ASSUME NEW S, NEW s \in Seq(S)
    PROVE  /\ IsPrefix(s, s)
           /\ \A e \in S : IsPrefix(s, Append(s, e))
BY DEF IsPrefix

\* One transaction leaves what is on record as it is, or adds to it.
LEMMA HistoryStep ==
    ASSUME Inv, [Next]_vars
    PROVE  /\ IsPrefix(ledger, ledger')
           /\ IsPrefix(observations, observations')
           /\ acknowledgements \subseteq acknowledgements'
           /\ intents \subseteq intents'
           /\ cancellationRequest # None => cancellationRequest' = cancellationRequest
           /\ \A i \in DOMAIN attempts :
                attempts[i].status # "running" => attempts'[i] = attempts[i]
<1> DEFINE EntryType == ReservationEntry \cup ReconciliationEntry
           Kept == /\ IsPrefix(ledger, ledger')
                   /\ IsPrefix(observations, observations')
                   /\ acknowledgements \subseteq acknowledgements'
                   /\ intents \subseteq intents'
                   /\ cancellationRequest # None => cancellationRequest' = cancellationRequest
           EndedKept == \A i \in DOMAIN attempts :
                          attempts[i].status # "running" => attempts'[i] = attempts[i]
<1>1. /\ ledger \in Seq(EntryType) /\ observations \in Seq(Observation)
      /\ attempts \in Seq(Attempt) /\ Inv'
  BY NextInv DEF Inv, TypeOK
<1>2. IsPrefix(ledger, ledger) /\ IsPrefix(observations, observations)
  BY <1>1, PrefixOfAppend
<1>3. CASE UNCHANGED recordVars
  BY <1>2, <1>3 DEF recordVars
<1>4. CASE UNCHANGED vars \/ Tick \/ \E f \in IssuedFences, d \in LeaseDurations : Heartbeat(f, d)
  BY <1>3, <1>4 DEF vars, Tick, Heartbeat
<1>5. CASE (\E p \in Plans : CreateJob(p, 0)) \/ CancelQueued \/ CancelRunning
  BY <1>2, <1>5 DEF CreateJob, CancelQueued, CancelRunning
<1>6. ASSUME NEW w, NEW id, NEW d, NEW e,
             ClaimQueued(w, id, d, e) \/ ReclaimExpired(w, id, d, e)
      PROVE  Kept /\ EndedKept
  <2>1. Kept
    BY <1>2, <1>6 DEF ClaimQueued, ReclaimExpired, Grant
  <2>2. CASE ClaimQueued(w, id, d, e)
    BY <2>1, <2>2, <1>1 DEF ClaimQueued, Grant, Inv, Ownership
  <2>3. CASE ReclaimExpired(w, id, d, e)
    <3> DEFINE ended == EndedAttempt(attempts[Current], clock, "lease_expired", "retry_scheduled")
               earlier == [attempts EXCEPT ![Current] = ended]
    <3>1. status = "running" /\ clock \in Nat
      BY <2>3 DEF ReclaimExpired, LeaseExpired, Inv, TypeOK
    <3>2. /\ Current \in DOMAIN attempts /\ attempts[Current] \in Attempt /\ Current = Len(attempts)
          /\ attempts[Current].status = "running"
      BY <3>1, RunningJob DEF Current, Inv, Ownership, AttemptInPlace
    <3>3. ended \in Attempt
      BY <3>1, <3>2, EndedAttemptType DEF AttemptStatuses
    <3>4. PICK new : attempts' = Append(earlier, new)
      BY <2>3 DEF ReclaimExpired, Grant
    <3> HIDE DEF ended
    <3>5. /\ earlier \in Seq(Attempt) /\ Len(earlier) = Len(attempts)
          /\ \A i \in DOMAIN attempts : i # Current => earlier[i] = attempts[i]
      BY <1>1, <3>2, <3>3
    <3>6. DOMAIN attempts = 1..Len(earlier) /\ Len(earlier) \in Nat
      BY <1>1, <3>5
    <3> HIDE DEF earlier
    <3>7. \A i \in 1..Len(earlier) : attempts'[i] = earlier[i]
      BY <3>4, <3>5, <3>6
    <3> QED BY <2>1, <3>2, <3>5, <3>6, <3>7
  <2> QED BY <1>6, <2>2, <2>3
<1>7. ASSUME NEW s, NEW code, NEW attempt, CommitTerminal(s, code, attempt), status = "running"
      PROVE  Kept /\ EndedKept
  <2>1. /\ Current \in DOMAIN attempts /\ Current = Len(attempts)
        /\ attempts[Current].status = "running"
    BY <1>7, RunningJob DEF Current, Inv, Ownership, AttemptInPlace
  <2>2. Kept
    BY <1>2, <1>7 DEF CommitTerminal
  <2> QED BY <1>7, <2>1, <2>2 DEF CommitTerminal
<1>8. ASSUME NEW w \in Workers, Claim(w, Current + 1, recoveryEpoch) PROVE Kept /\ EndedKept
  <2>1. CASE CloseCancelled \/ CloseUnreconciled \/ CloseBlocked
    BY <2>1, <1>7 DEF CloseCancelled, CloseUnreconciled, CloseBlocked, LeaseExpired, TerminalizeExpired
  <2> QED BY <1>6, <1>8, <2>1 DEF Claim
<1>9. ASSUME NEW f \in IssuedFences, WorkerCall(f) PROVE Kept /\ EndedKept
  <2>1. f \in Fence /\ clock \in Nat
    BY IssuedFencesType DEF Inv, TypeOK
  <2>2. ASSUME NEW id \in AcknowledgementIds, Acknowledge(f, id) PROVE Kept /\ EndedKept
    BY <1>2, <2>2 DEF Acknowledge
  <2>3. ASSUME NEW e, ledger' = Append(ledger, e),
               UNCHANGED <<attempts, cancellationRequest, acknowledgements, observations, intents>>
        PROVE  Kept /\ EndedKept
    <3>1. IsPrefix(ledger, ledger')
      <4>1. ledger \in Seq(EntryType \cup {e})
        BY <1>1
      <4> QED BY <2>3, <4>1, PrefixOfAppend
    <3> QED BY <1>2, <2>3, <3>1
  <2>4. ASSUME NEW id \in ObservationIds, NEW k \in ObservationKinds, AppendObservation(f, id, k)
        PROVE  Kept /\ EndedKept
    <3> DEFINE new == [id |-> id, kind |-> k, fence |-> f, at |-> clock]
    <3>1. new \in Observation
      BY <2>1 DEF Observation
    <3>2. observations' = Append(observations, new)
      BY <2>4 DEF AppendObservation
    <3>3. IsPrefix(observations, observations')
      BY <1>1, <3>1, <3>2, PrefixOfAppend
    <3> QED BY <1>2, <2>4, <3>3 DEF AppendObservation
  <2>5. ASSUME NEW s \in TerminalStatuses, NEW c \in TerminalCodes[s], CompleteJob(f, s, c)
        PROVE  Kept /\ EndedKept
    BY <1>7, <2>5 DEF CompleteJob, assertCurrentFence
  <2>6. CASE \/ \E id \in ReservationIds, r \in Requests : Reserve(f, id, r)
             \/ \E r \in Reservations(ledger), u \in Usages : Reconcile(f, r, u)
    BY <2>3, <2>6 DEF Reserve, Reconcile
  <2> QED BY <1>4, <1>9, <2>2, <2>4, <2>5, <2>6 DEF WorkerCall
<1> QED BY <1>4, <1>5, <1>8, <1>9 DEF Next

\* HistoryOnlyGrows: no transaction rewrites or removes evidence: ledger,
\* observations, acknowledgements, intents, the first cancellation request
\* and every attempt that is over stay as they were stored.
THEOREM EvidenceStays == Spec => HistoryOnlyGrows
<1> DEFINE Grows == /\ IsPrefix(ledger, ledger')
                    /\ IsPrefix(observations, observations')
                    /\ acknowledgements \subseteq acknowledgements'
                    /\ intents \subseteq intents'
                    /\ cancellationRequest # None => cancellationRequest' = cancellationRequest
                    /\ \A i \in DOMAIN attempts :
                         attempts[i].status # "running" => attempts'[i] = attempts[i]
<1>1. Inv /\ [Next]_vars => [Grows]_vars
  BY HistoryStep
<1>2. HistoryOnlyGrows <=> [][Grows]_vars
  BY DEF HistoryOnlyGrows
<1> QED BY <1>1, <1>2, OwnershipInvariant, PTL DEF Spec

==============================================================================
