--------------------------- MODULE ConsumerReceipt ----------------------------
(***************************************************************************)
(* The receipts of one consumer: the rows and transitions of               *)
(* packages/postgres/migrations/0003_leased_consumer_receipts.sql and the  *)
(* transactions of                                                         *)
(* packages/postgres/src/postgres-consumer-receipt-repository.ts.          *)
(***************************************************************************)
EXTENDS DeliveryLease

VARIABLE receipts    \* the row of each message, None before its first claim

\* due is meaningful for an available row: its retry delay is over.
ReceiptRow ==
    [content : Contents, state : {"available", "processing", "completed"},
     attempts : 1..AttemptLimit, token : Nat \cup {None}, due : BOOLEAN, error : BOOLEAN]

ASSUME ReceiptAssumption == None \notin ReceiptRow

\* proofstack_consumer_receipt_state_shape: what belongs to each state.
ReceiptShape(row) ==
    /\ row.token # None <=> row.state = "processing"
    /\ row.state = "available" => row.error
    /\ row.state = "completed" => ~row.error

ReceiptInit == receipts = [m \in Messages |-> None]

\* claim throws ConsumerReceiptConflictError.
Conflicts(m, content) == receipts[m].content # content

\* Mutant: a completed receipt is handed out like any other.
NeverCompleted(m) == FALSE

\* The claim's answer "completed".
Completed(m) == receipts[m].state = "completed"

\* Mutant: a current lease does not make the receipt busy.
NeverBusy(m) == FALSE

\* The claim's answer "busy".
Busy(m) == receipts[m].state = "processing" /\ LeaseCurrent(receipts[m].token)

\* The claim's answer "deferred".
Deferred(m) == receipts[m].state = "available" /\ ~receipts[m].due

\* claim, when it acquires: the first claim inserts the row, a later one
\* takes over an available or abandoned row.  last_error survives a reclaim,
\* and a row at its attempt limit cannot be reclaimed.
AcquireReceipt(m, content) ==
    /\ \/ /\ receipts[m] = None
          /\ receipts' = [receipts EXCEPT ![m] =
                [content |-> content, state |-> "processing", attempts |-> 1,
                 token |-> nextToken, due |-> TRUE, error |-> FALSE]]
       \/ /\ receipts[m] # None
          /\ ~Conflicts(m, content)
          /\ ~Completed(m)
          /\ ~Busy(m)
          /\ ~Deferred(m)
          /\ receipts[m].attempts < AttemptLimit
          /\ receipts' = [receipts EXCEPT ![m].state = "processing", ![m].token = nextToken,
                                          ![m].attempts = @ + 1]
    /\ nextToken' = nextToken + 1
    /\ UNCHANGED lapsed

\* The WHERE clause of COMPLETE_RECEIPT_SQL and RELEASE_RECEIPT_SQL.
HoldsReceiptLease(m, token) ==
    /\ receipts[m] # None
    /\ receipts[m].state = "processing"
    /\ receipts[m].token = token
    /\ token \notin lapsed

\* Mutant: the error of an earlier attempt is kept.
CompleteKeepingError(m, token) ==
    /\ receipts' = IF HoldsReceiptLease(m, token)
                   THEN [receipts EXCEPT ![m].state = "completed", ![m].token = None]
                   ELSE receipts
    /\ UNCHANGED leaseVars

\* complete; answers false and changes nothing without the lease.
CompleteReceipt(m, token) ==
    /\ receipts' = IF HoldsReceiptLease(m, token)
                   THEN [receipts EXCEPT ![m].state = "completed", ![m].token = None,
                                         ![m].error = FALSE]
                   ELSE receipts
    /\ UNCHANGED leaseVars

\* release: available again after the delay.
ReleaseReceipt(m, token) ==
    /\ receipts' = IF HoldsReceiptLease(m, token)
                   THEN [receipts EXCEPT ![m].state = "available", ![m].token = None,
                                         ![m].due = FALSE, ![m].error = TRUE]
                   ELSE receipts
    /\ UNCHANGED leaseVars

\* The retry delay of an available receipt is over.
ReceiptDue(m) ==
    /\ receipts[m] # None
    /\ receipts[m].state = "available"
    /\ ~receipts[m].due
    /\ receipts' = [receipts EXCEPT ![m].due = TRUE]
    /\ UNCHANGED leaseVars

==============================================================================
