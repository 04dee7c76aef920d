-------------------------- MODULE ReplayJobLifecycle --------------------------
(***************************************************************************)
(* What the ReplayJobRepository port promises of one job, without leases,  *)
(* clocks, ledgers or fences: the state diagram of ADR-0013                *)
(* (docs/architecture/0013-bounded-replay-execution.md) and the type   *)
(* of packages/contracts/src/replay-job.ts.  A job has at most one owner   *)
(* at a time, owners are numbered in the order they take over, a job that  *)
(* has been asked to stop gets no new owner and can only end cancelled,    *)
(* and an outcome, once committed, stays.                                  *)
(***************************************************************************)
EXTENDS Naturals

VARIABLES
    phase,      \* absent, queued, running or closed
    owner,      \* number of owners the job has had
    cancelled,  \* cancellation has been requested
    outcome     \* terminal status, "none" while the job is open

lifecycleVars == <<phase, owner, cancelled, outcome>>

Outcomes == {"succeeded", "failed", "cancelled", "timed_out", "budget_exhausted"}

LifecycleInit ==
    /\ phase = "absent"
    /\ owner = 0
    /\ cancelled = FALSE
    /\ outcome = "none"

Create ==
    /\ phase = "absent"
    /\ phase' = "queued"
    /\ UNCHANGED <<owner, cancelled, outcome>>

TakeOwnership ==
    /\ phase \in {"queued", "running"}
    /\ ~cancelled
    /\ phase' = "running"
    /\ owner' = owner + 1
    /\ UNCHANGED <<cancelled, outcome>>

RequestCancel ==
    /\ ~cancelled
    /\ cancelled' = TRUE
    /\ \/ /\ phase = "queued"
          /\ phase' = "closed"
          /\ outcome' = "cancelled"
       \/ /\ phase = "running"
          /\ UNCHANGED <<phase, outcome>>
    /\ UNCHANGED owner

Close(o) ==
    /\ phase = "running"
    /\ cancelled => o = "cancelled"
    /\ phase' = "closed"
    /\ outcome' = o
    /\ UNCHANGED <<owner, cancelled>>

LifecycleNext ==
    \/ Create
    \/ TakeOwnership
    \/ RequestCancel
    \/ \E o \in Outcomes : Close(o)

LifecycleSpec == LifecycleInit /\ [][LifecycleNext]_lifecycleVars

==============================================================================
