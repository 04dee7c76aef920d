-------------------------------- MODULE Outbox --------------------------------
(***************************************************************************)
(* The transactional outbox of one tenant: the rows of                     *)
(* packages/postgres/migrations/0002_outbox_delivery.sql, the append of    *)
(* packages/postgres/src/postgres-evidence-repository.ts that creates      *)
(* them, and the three transactions of                                     *)
(* packages/postgres/src/postgres-outbox-repository.ts.                    *)
(***************************************************************************)
EXTENDS DeliveryLease

CONSTANT ClaimLimit     \* the batch size publishers ask for

ASSUME ClaimAssumption == ClaimLimit \in Nat \ {0}

VARIABLES
    outbox,        \* the row of each message, None before it is appended
    nextStamp      \* orders the rows by the time they became claimable

outboxVars == <<outbox, nextStamp>>

\* availableAt is None while a retry delay is running, and the order in which
\* the row became claimable afterwards.
OutboxRow ==
    [content : Contents, availableAt : Nat \cup {None}, attempts : 0..AttemptLimit,
     token : Nat \cup {None}, published : BOOLEAN, error : BOOLEAN]

ASSUME OutboxAssumption == None \notin OutboxRow

\* proofstack_outbox_lease_state: a published row carries no lease.
OutboxShape(row) == row.published => row.token = None /\ ~row.error

OutboxInit == outbox = [m \in Messages |-> None] /\ nextStamp = 1

Unpublished == {m \in Messages : outbox[m] # None /\ ~outbox[m].published}

------------------------------------------------------------------------------
\* PostgresEvidenceRepository.append: one transaction for the batch.  A new
\* event is stored with its intent; an identical one leaves both alone; a
\* conflicting one rolls the whole batch back.
AppendBatch(batch) ==
    /\ \A m \in DOMAIN batch : outbox[m] # None => outbox[m].content = batch[m]
    /\ \E m \in DOMAIN batch : outbox[m] = None
    /\ outbox' = [m \in Messages |->
                    IF m \in DOMAIN batch /\ outbox[m] = None
                    THEN [content |-> batch[m], availableAt |-> nextStamp, attempts |-> 0,
                          token |-> None, published |-> FALSE, error |-> FALSE]
                    ELSE outbox[m]]
    /\ nextStamp' = nextStamp + 1

\* Mutant: a lease that is still current does not keep others away.
CandidatesIgnoringLease == {m \in Unpublished : outbox[m].availableAt # None}

\* Mutant: a lease is given back only by its holder.
CandidatesUnleased ==
    {m \in Unpublished : outbox[m].availableAt # None /\ outbox[m].token = None}

\* The rows CLAIM_OUTBOX_SQL selects from.
Candidates ==
    {m \in Unpublished : outbox[m].availableAt # None /\ ~LeaseCurrent(outbox[m].token)}

ClaimedBefore(m, n) ==
    \/ outbox[m].availableAt < outbox[n].availableAt
    \/ outbox[m].availableAt = outbox[n].availableAt /\ m < n

\* ORDER BY available_at, outbox_id LIMIT n.
Batch == {m \in Candidates : Cardinality({n \in Candidates : ClaimedBefore(n, m)}) < ClaimLimit}

\* claim: the batch under one new token.  A row at its attempt limit fails
\* the statement, and with it the claim of the whole batch.
ClaimOutbox ==
    /\ Batch # {}
    /\ \A m \in Batch : outbox[m].attempts < AttemptLimit
    /\ outbox' = [m \in Messages |->
                    IF m \in Batch
                    THEN [outbox[m] EXCEPT !.token = nextToken, !.attempts = @ + 1]
                    ELSE outbox[m]]
    /\ nextToken' = nextToken + 1
    /\ UNCHANGED <<lapsed, nextStamp>>

\* The WHERE clause of ACKNOWLEDGE_OUTBOX_SQL and RETRY_OUTBOX_SQL.
HoldsOutboxLease(m, token) ==
    m \in Unpublished /\ outbox[m].token = token /\ token \notin lapsed

\* acknowledge; answers false and changes nothing without the lease.
AcknowledgeOutbox(m, token) ==
    /\ outbox' = IF HoldsOutboxLease(m, token)
                 THEN [outbox EXCEPT ![m].published = TRUE, ![m].token = None, ![m].error = FALSE]
                 ELSE outbox
    /\ UNCHANGED <<leaseVars, nextStamp>>

\* retry: the row is given back and becomes due after the delay.
RetryOutbox(m, token) ==
    /\ outbox' = IF HoldsOutboxLease(m, token)
                 THEN [outbox EXCEPT ![m].availableAt = None, ![m].token = None, ![m].error = TRUE]
                 ELSE outbox
    /\ UNCHANGED <<leaseVars, nextStamp>>

\* The retry delay of a row is over.
OutboxDue(m) ==
    /\ m \in Unpublished
    /\ outbox[m].availableAt = None
    /\ outbox' = [outbox EXCEPT ![m].availableAt = nextStamp]
    /\ nextStamp' = nextStamp + 1
    /\ UNCHANGED leaseVars

==============================================================================
