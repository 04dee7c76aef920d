---------------------------- MODULE ReplayBudget -----------------------------
(***************************************************************************)
(* The budget ledger of a replay job: reservations made before work starts *)
(* and the reconciliation of each one against measured usage.              *)
(* Source: packages/replay/src/replay-budget.ts and the vector refinements *)
(* of packages/contracts/src/replay-accounting.ts.  An amount vector is a  *)
(* function on Dimensions; the arithmetic is pointwise.                    *)
(***************************************************************************)
EXTENDS Integers, Sequences, FiniteSets, SequencesExt

CONSTANTS
    Dimensions,     \* REPLAY_BUDGET_DIMENSIONS (ten of them in the code)
    MaxAccounting,  \* MAX_REPLAY_ACCOUNTING_VALUE, the bound checkedAdd enforces
    None            \* "no value"; as a measurement: usage is unavailable

ASSUME BudgetAssumption ==
    /\ Dimensions # {}
    /\ MaxAccounting \in Nat
    /\ None \notin Nat

Amounts == [Dimensions -> 0..MaxAccounting]

Usage == [Dimensions -> 0..MaxAccounting \cup {None}]

emptyReplayBudgetAmounts == [d \in Dimensions |-> 0]

\* Mutant: the request is compared with the limit alone.
FitsLimitAlone(limit, committed, requested) ==
    /\ {committed, requested} \subseteq Amounts
    /\ \E d \in Dimensions : requested[d] > 0
    /\ \A d \in Dimensions : requested[d] <= limit[d]

\* The reservation schema: both vectors are amounts, something is reserved,
\* and in every dimension the reservation fits what the committed amount
\* leaves of the limit.
ReservationFits(limit, committed, requested) ==
    /\ {committed, requested} \subseteq Amounts
    /\ \E d \in Dimensions : requested[d] > 0
    /\ \A d \in Dimensions : committed[d] <= limit[d] - requested[d]

reserveReplayBudget(id, fence, at, committed, requested) ==
    [entryType |-> "reservation", reservationId |-> id, fence |-> fence, at |-> at,
     committedBefore |-> committed, reserved |-> requested]

Disposition(reserved, actual) ==
    CASE actual = None       -> "disputed"
      [] actual \in 0..reserved -> "settled"
      [] OTHER               -> "overrun"

\* reconcileReplayBudget: unused reservation is released, usage above it is
\* kept as an overrun, unavailable usage releases nothing.
reconcileReplayBudget(reservation, at, usage) ==
    LET kind(d) == Disposition(reservation.reserved[d], usage[d])
    IN  [entryType     |-> "reconciliation",
         reservationId |-> reservation.reservationId,
         fence         |-> reservation.fence,
         at            |-> at,
         actual        |-> usage,
         disposition   |-> [d \in Dimensions |-> kind(d)],
         released      |-> [d \in Dimensions |->
                              IF kind(d) = "settled"
                              THEN reservation.reserved[d] - usage[d] ELSE 0],
         overrun       |-> [d \in Dimensions |->
                              IF kind(d) = "overrun"
                              THEN usage[d] - reservation.reserved[d] ELSE 0]]

\* applyReplayBudgetReservation and applyReplayBudgetReconciliation.
ApplyEntry(committed, entry) ==
    [d \in Dimensions |->
        IF entry.entryType = "reservation"
        THEN committed[d] + entry.reserved[d]
        ELSE committed[d] - entry.released[d] + entry.overrun[d]]

\* The committed vector of summarizeReplayBudgetLedger: the entries applied
\* in ledger order.
Committed(ledger) ==
    LET committed[i \in 0..Len(ledger)] ==
            IF i = 0 THEN emptyReplayBudgetAmounts
            ELSE ApplyEntry(committed[i - 1], ledger[i])
    IN  committed[Len(ledger)]

Entries(ledger) == {ledger[i] : i \in DOMAIN ledger}

Reservations(ledger) == {e \in Entries(ledger) : e.entryType = "reservation"}

Reconciliations(ledger) == {e \in Entries(ledger) : e.entryType = "reconciliation"}

\* summarizeReplayBudgetLedger's openReservationIds.
OpenReservations(ledger) ==
    {e.reservationId : e \in Reservations(ledger)}
        \ {e.reservationId : e \in Reconciliations(ledger)}

\* summarizeReplayBudgetLedger's overruns.
Overruns(ledger) ==
    {e \in Reconciliations(ledger) : \E d \in Dimensions : e.disposition[d] = "overrun"}

\* Mutant: the addition is not checked.
AnySum(committed) == TRUE

\* checkedAdd: an entry whose application would leave the representable range
\* is refused as a whole.
Representable(committed) == \A d \in Dimensions : committed[d] <= MaxAccounting

==============================================================================
