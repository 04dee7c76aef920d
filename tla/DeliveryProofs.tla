---------------------------- MODULE DeliveryProofs ----------------------------
(***************************************************************************)
(* Proofs about Delivery, for any messages, payloads, publishers, handlers *)
(* and number of faults.                                                   *)
(***************************************************************************)
EXTENDS Delivery, TLAPS

------------------------------------------------------------------------------
(* The inductive invariant *)

PublisherState ==
    [token : Nat, work : UNION {[S -> {"todo", "handed", "failed"}] : S \in SUBSET Messages}]

HandlerState ==
    [msg : Messages, content : Contents, token : Nat, phase : {"running", "returned", "threw"}]

Leases == nextToken \in Nat \ {0} /\ lapsed \subseteq IssuedTokens

OutboxTyped ==
    /\ outbox \in [Messages -> OutboxRow \cup {None}] /\ nextStamp \in Nat
    /\ \A m \in Messages : outbox[m] # None => OutboxShape(outbox[m])

PublishersTyped == publisher \in [Publishers -> PublisherState \cup {Idle}]

ReceiptsTyped ==
    /\ receipts \in [Messages -> ReceiptRow \cup {None}]
    /\ \A m \in Messages : receipts[m] # None => ReceiptShape(receipts[m])

HandlersTyped == handler \in [Handlers -> HandlerState \cup {Idle}]

\* The publishing side: every claim has a token of its own, and while it has
\* not lapsed the rows still to settle carry it.
Publishing ==
    /\ \A p \in Publishers : publisher[p] # Idle => publisher[p].token \in IssuedTokens
    /\ \A p, q \in Publishers :
         publisher[p] # Idle /\ publisher[q] # Idle /\ publisher[p].token = publisher[q].token
         => p = q
    /\ \A p \in Publishers : publisher[p] # Idle =>
         \A m \in DOMAIN publisher[p].work :
            /\ outbox[m] # None
            /\ publisher[p].token \notin lapsed => outbox[m].token = publisher[p].token

\* The consuming side: every invocation has a token of its own, and while it
\* has not lapsed the receipt is being processed under it.
Consuming ==
    /\ \A h \in Handlers : handler[h] # Idle => handler[h].token \in IssuedTokens
    /\ \A g, h \in Handlers :
         handler[g] # Idle /\ handler[h] # Idle /\ handler[g].token = handler[h].token => g = h
    /\ \A h \in Handlers : handler[h] # Idle /\ handler[h].token \notin lapsed =>
         /\ receipts[handler[h].msg] # None
         /\ receipts[handler[h].msg].token = handler[h].token

\* The history: what was invoked, what returned and what was reported agree
\* with the receipts.
History ==
    /\ sent \subseteq Delivered
    /\ invoked \subseteq Invocation /\ effects \subseteq invoked /\ reported \subseteq Messages
    /\ cursor \in reported \cup {0}
    /\ \A i \in invoked : receipts[i.msg] # None /\ i.content = receipts[i.msg].content
    /\ \A h \in Handlers : handler[h] # Idle =>
         [msg |-> handler[h].msg, content |-> handler[h].content, token |-> handler[h].token]
           \in invoked
    /\ \A h \in Handlers : handler[h] # Idle /\ handler[h].phase = "returned" =>
         \E e \in effects : e.msg = handler[h].msg
    /\ \A m \in Messages : receipts[m] # None /\ receipts[m].state = "completed" =>
         \E e \in effects : e.msg = m
    /\ \A m \in reported : receipts[m] # None /\ receipts[m].state = "completed"

Typed == Leases /\ OutboxTyped /\ PublishersTyped /\ ReceiptsTyped /\ HandlersTyped

Inv == Typed /\ Publishing /\ Consuming /\ History

------------------------------------------------------------------------------
(* What the transactions do to a row, field by field *)

OutboxKept(m) == outbox'[m] = outbox[m]

\* append stores new rows without a lease and leaves the others alone.
LEMMA AppendRows ==
    ASSUME OutboxTyped, NEW batch \in Batches, AppendBatch(batch)
    PROVE  /\ OutboxTyped'
           /\ \A m \in Messages : outbox[m] # None => OutboxKept(m)
<1>1. \A m \in DOMAIN batch : m \in Messages /\ batch[m] \in Contents
  BY DEF Batches
<1>2. ASSUME NEW m \in Messages
      PROVE  \/ OutboxKept(m)
             \/ /\ outbox[m] = None
                /\ outbox'[m] \in OutboxRow /\ OutboxShape(outbox'[m])
  <2>1. CASE m \in DOMAIN batch /\ outbox[m] = None
    <3> DEFINE row == [content |-> batch[m], availableAt |-> nextStamp, attempts |-> 0,
                       token |-> None, published |-> FALSE, error |-> FALSE]
    <3>1. outbox'[m] = row
      BY <2>1 DEF AppendBatch
    <3>2. row \in OutboxRow /\ OutboxShape(row)
      BY <1>1, <2>1, DeliveryAssumption DEF OutboxTyped, OutboxRow, OutboxShape
    <3> QED BY <2>1, <3>1, <3>2
  <2>2. CASE ~(m \in DOMAIN batch /\ outbox[m] = None)
    BY <2>2 DEF AppendBatch, OutboxKept
  <2> QED BY <2>1, <2>2
<1>3. outbox' \in [Messages -> OutboxRow \cup {None}] /\ nextStamp' \in Nat
  <2>1. outbox' = [m \in Messages |-> outbox'[m]]
    BY DEF AppendBatch
  <2> QED BY <1>2, <2>1 DEF OutboxTyped, OutboxKept, AppendBatch
<1> QED BY <1>2, <1>3 DEF OutboxTyped, OutboxKept

\* claim puts its token on the rows of its batch, none of which had a current
\* lease, and on no other.
LEMMA ClaimRows ==
    ASSUME Leases, OutboxTyped, ClaimOutbox
    PROVE  /\ OutboxTyped' /\ Batch \in SUBSET Messages
           /\ \A m \in Batch : /\ outbox[m] # None /\ ~LeaseCurrent(outbox[m].token)
                               /\ outbox'[m] # None /\ outbox'[m].token = nextToken
           /\ \A m \in Messages \ Batch : OutboxKept(m)
<1>1. Batch \in SUBSET Messages
  BY DEF Batch, Candidates, Unpublished
<1>2. \A m \in Batch : /\ outbox[m] # None /\ ~outbox[m].published
                       /\ ~LeaseCurrent(outbox[m].token)
  BY DEF Batch, Candidates, Unpublished
<1>3. ASSUME NEW m \in Batch
      PROVE  /\ outbox'[m] \in OutboxRow /\ OutboxShape(outbox'[m])
             /\ outbox'[m].token = nextToken
  <2>1. /\ outbox'[m] = [outbox[m] EXCEPT !.token = nextToken, !.attempts = @ + 1]
        /\ outbox[m].attempts < AttemptLimit
    BY <1>1 DEF ClaimOutbox
  <2>2. outbox[m] \in OutboxRow /\ nextToken \in Nat
    BY <1>1, <1>2 DEF OutboxTyped, Leases
  <2>3. outbox[m].attempts + 1 \in 0..AttemptLimit
    BY <2>1, <2>2, DeliveryAssumption DEF OutboxRow
  <2>4. outbox'[m] \in OutboxRow
    BY <2>1, <2>2, <2>3 DEF OutboxRow
  <2>5. OutboxShape(outbox'[m]) /\ outbox'[m].token = nextToken
    BY <1>2, <2>1, <2>2 DEF OutboxRow, OutboxShape
  <2> QED BY <2>4, <2>5
<1>4. \A m \in Messages \ Batch : OutboxKept(m)
  BY DEF ClaimOutbox, OutboxKept
<1>5. OutboxTyped'
  <2>1. outbox' = [m \in Messages |-> outbox'[m]] /\ nextStamp' = nextStamp
    BY DEF ClaimOutbox
  <2>2. outbox' \in [Messages -> OutboxRow \cup {None}]
    BY <1>3, <1>4, <2>1 DEF OutboxTyped, OutboxKept
  <2> QED BY <1>3, <1>4, <2>1, <2>2 DEF OutboxTyped, OutboxKept
<1> QED BY <1>1, <1>2, <1>3, <1>4, <1>5, OutboxAssumption

\* acknowledge and retry take the lease off the row they settle, and do
\* nothing for a caller without the lease.
LEMMA SettleRows ==
    ASSUME OutboxTyped, NEW m \in Messages, NEW token,
           AcknowledgeOutbox(m, token) \/ RetryOutbox(m, token)
    PROVE  /\ OutboxTyped' /\ UNCHANGED leaseVars
           /\ \A n \in Messages \ {m} : OutboxKept(n)
           /\ \/ OutboxKept(m)
              \/ /\ outbox[m] # None /\ outbox[m].token = token
                 /\ outbox'[m] # None
<1>1. UNCHANGED <<leaseVars, nextStamp>>
  BY DEF AcknowledgeOutbox, RetryOutbox
<1>2. CASE outbox' = outbox
  BY <1>1, <1>2 DEF OutboxTyped, OutboxKept
<1>3. CASE outbox' # outbox
  <2>1. /\ outbox[m] # None /\ ~outbox[m].published /\ outbox[m].token = token
        /\ outbox[m] \in OutboxRow
    BY <1>3 DEF AcknowledgeOutbox, RetryOutbox, HoldsOutboxLease, Unpublished, OutboxTyped
  <2>2. PICK row \in {[outbox[m] EXCEPT !.published = TRUE, !.token = None, !.error = FALSE],
                      [outbox[m] EXCEPT !.availableAt = None, !.token = None, !.error = TRUE]} :
          outbox' = [outbox EXCEPT ![m] = row]
    BY <1>3 DEF AcknowledgeOutbox, RetryOutbox
  <2>3. row \in OutboxRow
    BY <2>1, <2>2 DEF OutboxRow
  <2>4. OutboxShape(row)
    BY <2>1, <2>2 DEF OutboxRow, OutboxShape
  <2> QED BY <1>1, <2>1, <2>2, <2>3, <2>4, OutboxAssumption DEF OutboxTyped, OutboxKept
<1> QED BY <1>2, <1>3

\* A row that becomes due keeps its lease.
LEMMA OutboxDueRows ==
    ASSUME OutboxTyped, NEW m \in Messages, OutboxDue(m)
    PROVE  /\ OutboxTyped' /\ UNCHANGED leaseVars
           /\ \A n \in Messages : outbox[n] # None =>
                outbox'[n] # None /\ outbox'[n].token = outbox[n].token
<1>1. /\ outbox[m] # None /\ ~outbox[m].published /\ outbox[m] \in OutboxRow
  BY DEF OutboxDue, Unpublished, OutboxTyped
<1> DEFINE row == [outbox[m] EXCEPT !.availableAt = nextStamp]
<1>2. row \in OutboxRow /\ OutboxShape(row) /\ row.token = outbox[m].token
  BY <1>1 DEF OutboxRow, OutboxShape, OutboxTyped
<1>3. outbox' = [outbox EXCEPT ![m] = row] /\ nextStamp' = nextStamp + 1 /\ UNCHANGED leaseVars
  BY DEF OutboxDue
<1> HIDE DEF row
<1> QED BY <1>2, <1>3, OutboxAssumption DEF OutboxTyped

\* Whoever is not idle is in the state of its kind.
LEMMA NotIdle ==
    /\ PublishersTyped => \A p \in Publishers : publisher[p] # Idle <=> publisher[p] \in PublisherState
    /\ HandlersTyped => \A h \in Handlers : handler[h] # Idle <=> handler[h] \in HandlerState
<1>1. Idle.token \notin Nat
  BY DeliveryAssumption DEF Idle
<1>2. \A s \in PublisherState : s.token \in Nat
  BY DEF PublisherState
<1>3. \A s \in HandlerState : s.token \in Nat
  BY DEF HandlerState
<1> QED BY <1>1, <1>2, <1>3 DEF PublishersTyped, HandlersTyped

\* A publisher that marks an item of its batch keeps the rest of its state.
LEMMA MarkedWork ==
    ASSUME PublishersTyped, NEW p \in Publishers, publisher[p] # Idle,
           NEW m \in DOMAIN publisher[p].work, NEW mark \in {"todo", "handed", "failed"},
           publisher' = [publisher EXCEPT ![p].work[m] = mark]
    PROVE  /\ PublishersTyped'
           /\ \A q \in Publishers \ {p} : publisher'[q] = publisher[q]
           /\ publisher'[p] # Idle
           /\ publisher'[p].token = publisher[p].token
           /\ DOMAIN publisher'[p].work = DOMAIN publisher[p].work
<1>1. publisher[p] \in PublisherState
  BY NotIdle
<1> DEFINE work == [publisher[p].work EXCEPT ![m] = mark]
           state == [publisher[p] EXCEPT !.work = work]
<1>2. publisher' = [publisher EXCEPT ![p] = state]
  BY DEF PublishersTyped
<1>3. PICK S \in SUBSET Messages : publisher[p].work \in [S -> {"todo", "handed", "failed"}]
  BY <1>1 DEF PublisherState
<1>4. work \in [S -> {"todo", "handed", "failed"}] /\ DOMAIN work = DOMAIN publisher[p].work
  BY <1>3
<1> HIDE DEF work
<1>5. state \in PublisherState /\ state.token = publisher[p].token /\ state.work = work
  BY <1>1, <1>4 DEF PublisherState
<1> HIDE DEF state
<1>6. PublishersTyped' /\ publisher'[p] = state
  BY <1>2, <1>5 DEF PublishersTyped
<1>7. publisher'[p] # Idle
  BY <1>5, <1>6, DeliveryAssumption DEF PublisherState, Idle
<1> QED BY <1>2, <1>4, <1>5, <1>6, <1>7 DEF PublishersTyped

\* A publisher that settles an item is idle or has that item less to settle.
LEMMA SettledWork ==
    ASSUME PublishersTyped, NEW p \in Publishers, publisher[p] # Idle,
           NEW m \in DOMAIN publisher[p].work, publisher' = [publisher EXCEPT ![p] = Settled(p, m)]
    PROVE  /\ PublishersTyped'
           /\ \A q \in Publishers \ {p} : publisher'[q] = publisher[q]
           /\ publisher'[p] # Idle =>
                /\ publisher'[p].token = publisher[p].token
                /\ DOMAIN publisher'[p].work = DOMAIN publisher[p].work \ {m}
<1>1. publisher[p] \in PublisherState
  BY NotIdle
<1> DEFINE left == DOMAIN publisher[p].work \ {m}
           work == [n \in left |-> publisher[p].work[n]]
           state == [publisher[p] EXCEPT !.work = work]
<1>2. PICK S \in SUBSET Messages : publisher[p].work \in [S -> {"todo", "handed", "failed"}]
  BY <1>1 DEF PublisherState
<1>3. left \in SUBSET Messages /\ work \in [left -> {"todo", "handed", "failed"}] /\ DOMAIN work = left
  BY <1>2
<1>4. Settled(p, m) = Idle \/ Settled(p, m) = state
  BY DEF Settled
<1> HIDE DEF work, left
<1>5. state \in PublisherState /\ state.token = publisher[p].token /\ state.work = work
  BY <1>1, <1>3 DEF PublisherState
<1> HIDE DEF state
<1>6. PublishersTyped' /\ publisher'[p] = Settled(p, m)
  BY <1>4, <1>5 DEF PublishersTyped
<1> QED BY <1>3, <1>4, <1>5, <1>6 DEF PublishersTyped, left

ReceiptKept(m) == receipts'[m] = receipts[m]

\* A claim that acquires puts its token on the one receipt, which nobody holds,
\* is not completed, and is for the same payload if it existed.
LEMMA AcquireRows ==
    ASSUME Leases, ReceiptsTyped, NEW m \in Messages, NEW content \in Contents,
           AcquireReceipt(m, content)
    PROVE  /\ ReceiptsTyped'
           /\ \A n \in Messages \ {m} : ReceiptKept(n)
           /\ receipts'[m] # None /\ receipts'[m].content = content
           /\ receipts'[m].state = "processing" /\ receipts'[m].token = nextToken
           /\ receipts[m] # None => /\ receipts[m].content = content
                                    /\ receipts[m].state # "completed"
                                    /\ ~LeaseCurrent(receipts[m].token)
<1>1. nextToken \in Nat /\ nextToken # None
  BY DeliveryAssumption DEF Leases
<1>2. CASE receipts[m] = None
  <2> DEFINE row == [content |-> content, state |-> "processing", attempts |-> 1,
                     token |-> nextToken, due |-> TRUE, error |-> FALSE]
  <2>1. receipts' = [receipts EXCEPT ![m] = row]
    BY <1>2 DEF AcquireReceipt
  <2>2. /\ row \in ReceiptRow /\ ReceiptShape(row)
        /\ row.content = content /\ row.state = "processing" /\ row.token = nextToken
    BY <1>1, DeliveryAssumption DEF ReceiptRow, ReceiptShape
  <2> HIDE DEF row
  <2>3. /\ receipts'[m] = row /\ \A n \in Messages \ {m} : ReceiptKept(n)
    BY <2>1 DEF ReceiptsTyped, ReceiptKept
  <2>4. ReceiptsTyped'
    BY <2>1, <2>2 DEF ReceiptsTyped
  <2> QED BY <1>2, <2>2, <2>3, <2>4, ReceiptAssumption
<1>3. CASE receipts[m] # None
  <2> DEFINE row == [receipts[m] EXCEPT !.state = "processing", !.token = nextToken,
                                        !.attempts = @ + 1]
  <2>1. /\ receipts' = [receipts EXCEPT ![m] = row]
        /\ receipts[m] \in ReceiptRow /\ receipts[m].attempts < AttemptLimit
        /\ receipts[m].content = content /\ receipts[m].state # "completed"
        /\ ~(receipts[m].state = "processing" /\ LeaseCurrent(receipts[m].token))
        /\ ~(receipts[m].state = "available" /\ ~receipts[m].due)
        /\ ReceiptShape(receipts[m])
    BY <1>3 DEF AcquireReceipt, ReceiptsTyped, Conflicts, Completed, Busy, Deferred
  <2>2. receipts[m].attempts + 1 \in 1..AttemptLimit
    BY <2>1, DeliveryAssumption DEF ReceiptRow
  <2>3. row \in ReceiptRow
    BY <1>1, <2>1, <2>2 DEF ReceiptRow
  <2>4. /\ row.state = "processing" /\ row.token = nextToken /\ row.content = content
        /\ ReceiptShape(row)
    BY <1>1, <2>1 DEF ReceiptRow, ReceiptShape
  <2>5. ~LeaseCurrent(receipts[m].token)
    BY <2>1 DEF ReceiptShape, LeaseCurrent
  <2> HIDE DEF row
  <2>6. receipts'[m] = row /\ ReceiptsTyped' /\ \A n \in Messages \ {m} : ReceiptKept(n)
    BY <2>1, <2>3, <2>4 DEF ReceiptsTyped, ReceiptKept
  <2> QED BY <2>1, <2>3, <2>4, <2>5, <2>6, ReceiptAssumption
<1> QED BY <1>2, <1>3

\* complete and release take the lease off the receipt, and do nothing for a
\* caller without the lease.
LEMMA FinishRows ==
    ASSUME ReceiptsTyped, NEW m \in Messages, NEW token, NEW state \in {"completed", "available"},
           \/ state = "completed" /\ CompleteReceipt(m, token)
           \/ state = "available" /\ ReleaseReceipt(m, token)
    PROVE  /\ ReceiptsTyped' /\ UNCHANGED leaseVars
           /\ \A n \in Messages \ {m} : ReceiptKept(n)
           /\ \/ receipts' = receipts
              \/ /\ receipts[m] # None /\ receipts[m].state = "processing"
                 /\ receipts[m].token = token
                 /\ receipts'[m] # None /\ receipts'[m].state = state
                 /\ receipts'[m].content = receipts[m].content
<1>1. UNCHANGED leaseVars
  BY DEF CompleteReceipt, ReleaseReceipt
<1>2. CASE receipts' = receipts
  BY <1>1, <1>2 DEF ReceiptsTyped, ReceiptKept
<1>3. CASE receipts' # receipts
  <2>1. /\ receipts[m] # None /\ receipts[m].state = "processing" /\ receipts[m].token = token
        /\ receipts[m] \in ReceiptRow
    BY <1>3 DEF CompleteReceipt, ReleaseReceipt, HoldsReceiptLease, ReceiptsTyped
  <2>2. ASSUME NEW row \in ReceiptRow, ReceiptShape(row), row.state = state,
               row.content = receipts[m].content, receipts' = [receipts EXCEPT ![m] = row]
        PROVE  /\ ReceiptsTyped' /\ \A n \in Messages \ {m} : ReceiptKept(n)
               /\ receipts'[m] # None /\ receipts'[m].state = state
               /\ receipts'[m].content = receipts[m].content
    BY <2>2, ReceiptAssumption DEF ReceiptsTyped, ReceiptKept
  <2>3. CASE state = "completed"
    <3> DEFINE row == [receipts[m] EXCEPT !.state = "completed", !.token = None, !.error = FALSE]
    <3>1. receipts' = [receipts EXCEPT ![m] = row]
      BY <1>3, <2>3 DEF CompleteReceipt
    <3>2. /\ row \in ReceiptRow /\ ReceiptShape(row)
          /\ row.state = "completed" /\ row.content = receipts[m].content
      BY <2>1 DEF ReceiptRow, ReceiptShape
    <3> HIDE DEF row
    <3> QED BY <1>1, <2>1, <2>2, <2>3, <3>1, <3>2
  <2>4. CASE state = "available"
    <3> DEFINE row == [receipts[m] EXCEPT !.state = "available", !.token = None,
                                          !.due = FALSE, !.error = TRUE]
    <3>1. receipts' = [receipts EXCEPT ![m] = row]
      BY <1>3, <2>4 DEF ReleaseReceipt
    <3>2. /\ row \in ReceiptRow /\ ReceiptShape(row)
          /\ row.state = "available" /\ row.content = receipts[m].content
      BY <2>1 DEF ReceiptRow, ReceiptShape
    <3> HIDE DEF row
    <3> QED BY <1>1, <2>1, <2>2, <2>4, <3>1, <3>2
  <2> QED BY <2>3, <2>4
<1> QED BY <1>2, <1>3

\* A receipt that becomes due is otherwise as it was.
LEMMA ReceiptDueRows ==
    ASSUME ReceiptsTyped, NEW m \in Messages, ReceiptDue(m)
    PROVE  /\ ReceiptsTyped' /\ UNCHANGED leaseVars
           /\ \A n \in Messages :
                /\ receipts[n] # None <=> receipts'[n] # None
                /\ receipts[n] # None => /\ receipts'[n].token = receipts[n].token
                                         /\ receipts'[n].state = receipts[n].state
                                         /\ receipts'[n].content = receipts[n].content
<1>1. receipts[m] # None /\ receipts[m].state = "available" /\ receipts[m] \in ReceiptRow
  BY DEF ReceiptDue, ReceiptsTyped
<1> DEFINE row == [receipts[m] EXCEPT !.due = TRUE]
<1>2. /\ row \in ReceiptRow /\ ReceiptShape(row) /\ row.token = receipts[m].token
      /\ row.state = receipts[m].state /\ row.content = receipts[m].content
  BY <1>1 DEF ReceiptRow, ReceiptShape, ReceiptsTyped
<1>3. receipts' = [receipts EXCEPT ![m] = row] /\ UNCHANGED leaseVars
  BY DEF ReceiptDue
<1> HIDE DEF row
<1> QED BY <1>1, <1>2, <1>3, ReceiptAssumption DEF ReceiptsTyped

------------------------------------------------------------------------------
(* What a step that is not about one side leaves alone *)

\* Tokens are only ever added, and a lapsed one stays lapsed.
TimePasses == Leases' /\ nextToken <= nextToken' /\ lapsed \subseteq lapsed'

\* A step that issues no token and lets none lapse.
LEMMA TimeStands == Leases /\ UNCHANGED leaseVars => TimePasses
BY DEF Leases, leaseVars, IssuedTokens, TimePasses

\* A claim issues a token that nobody had.
LEMMA TokenIssued ==
    ASSUME Leases, nextToken' = nextToken + 1, UNCHANGED lapsed
    PROVE  TimePasses /\ nextToken \in IssuedTokens' /\ nextToken \notin IssuedTokens
<1>1. /\ nextToken \in IssuedTokens' /\ nextToken \notin IssuedTokens
      /\ \A t \in IssuedTokens : t \in IssuedTokens'
  BY DEF Leases, IssuedTokens
<1>2. nextToken' \in Nat \ {0} /\ nextToken <= nextToken'
  BY DEF Leases
<1> QED BY <1>1, <1>2 DEF Leases, TimePasses

\* An issued token stays issued.
LEMMA TokensStay == Leases /\ TimePasses => IssuedTokens \subseteq IssuedTokens'
<1>1. \A n, k \in Nat : n <= k => 1..(n - 1) \subseteq 1..(k - 1)
  OBVIOUS
<1> QED BY <1>1, Zenon DEF Leases, IssuedTokens, TimePasses

\* The publishing side outlives whatever leaves the rows' tokens alone.
LEMMA PublishingKept ==
    ASSUME Leases, PublishersTyped, Publishing, TimePasses, UNCHANGED publisher,
           \A m \in Messages : outbox[m] # None =>
              outbox'[m] # None /\ outbox'[m].token = outbox[m].token
    PROVE  PublishersTyped' /\ Publishing'
<1>1. \A p \in Publishers : publisher[p] # Idle => DOMAIN publisher[p].work \subseteq Messages
  BY NotIdle DEF PublisherState
<1>2. PublishersTyped'
  BY DEF PublishersTyped
<1>3. \A p \in Publishers : publisher'[p] # Idle => publisher'[p].token \in IssuedTokens'
  BY TokensStay DEF Publishing
<1>4. ASSUME NEW p \in Publishers, publisher'[p] # Idle, NEW m \in DOMAIN publisher'[p].work
      PROVE  /\ outbox'[m] # None
             /\ publisher'[p].token \notin lapsed' => outbox'[m].token = publisher'[p].token
  BY <1>1, <1>4 DEF Publishing, TimePasses
<1> QED BY <1>2, <1>3, <1>4 DEF Publishing

\* The consuming side outlives whatever leaves the receipts' tokens alone.
LEMMA ConsumingKept ==
    ASSUME Leases, HandlersTyped, Consuming, TimePasses, UNCHANGED handler,
           \A m \in Messages : receipts[m] # None =>
              receipts'[m] # None /\ receipts'[m].token = receipts[m].token
    PROVE  HandlersTyped' /\ Consuming'
<1>1. \A h \in Handlers : handler[h] # Idle => handler[h].msg \in Messages
  BY NotIdle DEF HandlerState
<1>2. HandlersTyped'
  BY DEF HandlersTyped
<1>3. \A h \in Handlers : handler'[h] # Idle => handler'[h].token \in IssuedTokens'
  BY TokensStay DEF Consuming
<1>4. ASSUME NEW h \in Handlers, handler'[h] # Idle, handler'[h].token \notin lapsed'
      PROVE  /\ receipts'[handler'[h].msg] # None
             /\ receipts'[handler'[h].msg].token = handler'[h].token
  BY <1>1, <1>4 DEF Consuming, TimePasses
<1> QED BY <1>2, <1>3, <1>4 DEF Consuming

\* The history outlives whatever leaves the receipts' states alone.
LEMMA HistoryKept ==
    ASSUME HandlersTyped, History, UNCHANGED <<handler, cursor, historyVars>>,
           sent' \subseteq Delivered,
           \A m \in Messages :
              /\ receipts[m] # None <=> receipts'[m] # None
              /\ receipts[m] # None => /\ receipts'[m].state = receipts[m].state
                                       /\ receipts'[m].content = receipts[m].content
    PROVE  History'
<1>1. /\ invoked' = invoked /\ effects' = effects /\ reported' = reported
      /\ handler' = handler /\ cursor' = cursor
  BY DEF historyVars
<1>2. \A i \in invoked : i.msg \in Messages
  BY DEF History, Invocation
<1>3. \A i \in invoked' : receipts'[i.msg] # None /\ i.content = receipts'[i.msg].content
  BY <1>1, <1>2 DEF History
<1>4. \A m \in Messages : receipts'[m] # None /\ receipts'[m].state = "completed" =>
        \E e \in effects' : e.msg = m
  BY <1>1 DEF History
<1>5. \A m \in reported' : receipts'[m] # None /\ receipts'[m].state = "completed"
  BY <1>1 DEF History
<1> QED BY <1>1, <1>3, <1>4, <1>5 DEF History

------------------------------------------------------------------------------
(* Every action keeps the invariant *)

\* Nothing has been appended yet.
LEMMA InitInv == DeliveryInit => Inv
<1> SUFFICES ASSUME DeliveryInit PROVE Inv
  OBVIOUS
<1> USE DEF DeliveryInit, LeaseInit, OutboxInit, ReceiptInit
<1>1. Leases
  BY DEF Leases, IssuedTokens
<1>2. OutboxTyped /\ PublishersTyped /\ ReceiptsTyped /\ HandlersTyped
  BY DEF OutboxTyped, PublishersTyped, ReceiptsTyped, HandlersTyped
<1>3. Publishing /\ Consuming
  BY DEF Publishing, Consuming
<1>4. History
  BY DEF History
<1> QED BY <1>1, <1>2, <1>3, <1>4 DEF Inv, Typed

\* Time: a lease lapses, a delay ends.
LEMMA TimeStep ==
    ASSUME Inv, (\E t \in IssuedTokens : Lapse(t)) \/ (\E m \in Messages : Due(m))
    PROVE  Inv'
<1> USE DEF Inv, Typed
<1>1. ASSUME NEW t \in IssuedTokens, Lapse(t) PROVE Inv'
  <2>1. /\ nextToken' = nextToken /\ lapsed' = lapsed \cup {t}
        /\ UNCHANGED <<outboxVars, receipts, publisher, sent, handler, cursor, historyVars>>
    BY <1>1 DEF Lapse, processVars
  <2>2. TimePasses
    BY <2>1 DEF TimePasses, Leases, IssuedTokens
  <2>3. OutboxTyped' /\ ReceiptsTyped'
    BY <2>1 DEF OutboxTyped, ReceiptsTyped, outboxVars
  <2>4. PublishersTyped' /\ Publishing'
    BY <2>1, <2>2, PublishingKept DEF outboxVars
  <2>5. HandlersTyped' /\ Consuming'
    BY <2>1, <2>2, ConsumingKept
  <2>6. History'
    BY <2>1, HistoryKept DEF History
  <2> QED BY <2>2, <2>3, <2>4, <2>5, <2>6 DEF TimePasses
<1>2. ASSUME NEW m \in Messages, Due(m) PROVE Inv'
  <2>1. UNCHANGED <<publisher, sent, handler, cursor, historyVars>>
    BY <1>2 DEF Due, processVars
  <2>2. CASE OutboxDue(m) /\ UNCHANGED receipts
    <3>1. /\ OutboxTyped' /\ TimePasses
          /\ \A n \in Messages : outbox[n] # None =>
               outbox'[n] # None /\ outbox'[n].token = outbox[n].token
      BY <2>2, OutboxDueRows, TimeStands
    <3>2. PublishersTyped' /\ Publishing'
      BY <2>1, <3>1, PublishingKept
    <3>3. HandlersTyped' /\ Consuming' /\ ReceiptsTyped'
      BY <2>1, <2>2, <3>1, ConsumingKept DEF ReceiptsTyped
    <3>4. History'
      BY <2>1, <2>2, HistoryKept DEF History
    <3> QED BY <3>1, <3>2, <3>3, <3>4 DEF TimePasses
  <2>3. CASE ReceiptDue(m) /\ UNCHANGED outboxVars
    <3>1. /\ ReceiptsTyped' /\ TimePasses
          /\ \A n \in Messages :
                /\ receipts[n] # None <=> receipts'[n] # None
                /\ receipts[n] # None => /\ receipts'[n].token = receipts[n].token
                                         /\ receipts'[n].state = receipts[n].state
                                         /\ receipts'[n].content = receipts[n].content
      BY <2>3, ReceiptDueRows, TimeStands
    <3>2. OutboxTyped' /\ PublishersTyped' /\ Publishing'
      BY <2>1, <2>3, <3>1, PublishingKept DEF OutboxTyped, outboxVars
    <3>3. HandlersTyped' /\ Consuming'
      BY <2>1, <3>1, ConsumingKept
    <3>4. History'
      BY <2>1, <3>1, HistoryKept DEF History
    <3> QED BY <3>1, <3>2, <3>3, <3>4 DEF TimePasses
  <2> QED BY <1>2, <2>2, <2>3 DEF Due
<1> QED BY <1>1, <1>2

\* A step of the publishing side leaves the consuming side alone.
LEMMA ConsumersUntouched ==
    ASSUME Inv, TimePasses, sent' \subseteq Delivered,
           UNCHANGED <<receipts, handler, cursor, historyVars>>
    PROVE  ReceiptsTyped' /\ HandlersTyped' /\ Consuming' /\ History'
<1> USE DEF Inv, Typed
<1>1. ReceiptsTyped'
  BY DEF ReceiptsTyped
<1>2. HandlersTyped' /\ Consuming'
  BY ConsumingKept
<1>3. History'
  BY HistoryKept
<1> QED BY <1>1, <1>2, <1>3

\* A publisher claims: its token is new, and no row of its batch is held by a
\* publisher whose lease has not lapsed.
LEMMA PublisherClaimsStep ==
    ASSUME Inv, NEW p \in Publishers, PublisherClaims(p)
    PROVE  Inv'
<1> USE DEF Inv, Typed
<1> DEFINE work == [m \in Batch |-> "todo"]
           state == [token |-> nextToken, work |-> work]
<1>1. /\ publisher' = [publisher EXCEPT ![p] = state] /\ ClaimOutbox
      /\ nextToken' = nextToken + 1 /\ UNCHANGED lapsed
      /\ UNCHANGED <<receipts, sent, handler, cursor, historyVars>>
  BY DEF PublisherClaims, ClaimOutbox
<1>2. TimePasses /\ nextToken \in IssuedTokens' /\ nextToken \notin IssuedTokens
  BY <1>1, TokenIssued
<1>3. /\ OutboxTyped' /\ Batch \in SUBSET Messages
      /\ \A m \in Batch : /\ outbox[m] # None /\ ~LeaseCurrent(outbox[m].token)
                          /\ outbox'[m] # None /\ outbox'[m].token = nextToken
      /\ \A m \in Messages \ Batch : OutboxKept(m)
  BY <1>1, ClaimRows
<1>4. state \in PublisherState /\ state.token = nextToken /\ DOMAIN state.work = Batch
  <2>1. work \in [Batch -> {"todo", "handed", "failed"}] /\ DOMAIN work = Batch
    OBVIOUS
  <2> HIDE DEF work
  <2> QED BY <1>3, <2>1 DEF PublisherState, Leases
<1> HIDE DEF state
<1>5. PublishersTyped' /\ publisher'[p] = state /\ \A q \in Publishers \ {p} : publisher'[q] = publisher[q]
  BY <1>1, <1>4 DEF PublishersTyped
<1>6. \A q \in Publishers : publisher[q] # Idle =>
         publisher[q].token \in IssuedTokens /\ DOMAIN publisher[q].work \subseteq Messages
  BY NotIdle DEF PublisherState, Publishing
<1>7. Publishing'
  <2>1. ASSUME NEW q \in Publishers, publisher'[q] # Idle PROVE publisher'[q].token \in IssuedTokens'
    BY <1>2, <1>4, <1>5, <1>6, <2>1, TokensStay
  <2>2. ASSUME NEW q \in Publishers, NEW r \in Publishers, publisher'[q] # Idle,
               publisher'[r] # Idle, publisher'[q].token = publisher'[r].token
        PROVE  q = r
    BY <1>2, <1>4, <1>5, <1>6, <2>2 DEF Publishing
  <2>3. ASSUME NEW q \in Publishers, publisher'[q] # Idle, NEW m \in DOMAIN publisher'[q].work
        PROVE  /\ outbox'[m] # None
               /\ publisher'[q].token \notin lapsed' => outbox'[m].token = publisher'[q].token
    <3>1. CASE q = p
      BY <1>3, <1>4, <1>5, <2>3, <3>1
    <3>2. CASE q # p
      <4>1. /\ publisher'[q] = publisher[q] /\ m \in Messages
            /\ outbox[m] # None
            /\ publisher[q].token \notin lapsed => outbox[m].token = publisher[q].token
        BY <1>5, <1>6, <2>3, <3>2 DEF Publishing
      <4>2. publisher[q].token # None
        BY <1>6, <2>3, <4>1, DeliveryAssumption DEF IssuedTokens, Leases
      <4>3. CASE m \in Batch
        BY <1>1, <1>3, <4>1, <4>2, <4>3 DEF LeaseCurrent
      <4>4. CASE m \notin Batch
        BY <1>1, <1>3, <4>1, <4>4 DEF OutboxKept
      <4> QED BY <4>3, <4>4
    <3> QED BY <3>1, <3>2
  <2> QED BY <2>1, <2>2, <2>3 DEF Publishing
<1>8. ReceiptsTyped' /\ HandlersTyped' /\ Consuming' /\ History'
  BY <1>1, <1>2, ConsumersUntouched DEF History
<1> QED BY <1>2, <1>3, <1>5, <1>7, <1>8 DEF TimePasses

\* A publisher hands over, or fails to.
LEMMA HandOverStep ==
    ASSUME Inv, NEW p \in Publishers, publisher[p] # Idle, NEW m \in DOMAIN publisher[p].work,
           HandOver(p, m) \/ HandOverFails(p, m)
    PROVE  Inv'
<1> USE DEF Inv, Typed
<1>1. PICK mark \in {"todo", "handed", "failed"} : publisher' = [publisher EXCEPT ![p].work[m] = mark]
  BY DEF HandOver, HandOverFails
<1>2. /\ UNCHANGED <<leaseVars, outboxVars, receipts, handler, cursor, historyVars>>
      /\ sent' \in {sent, sent \cup {[msg |-> m, content |-> outbox[m].content]}}
  BY DEF HandOver, HandOverFails
<1>3. TimePasses
  BY <1>2, TimeStands
<1>4. m \in Messages /\ outbox[m] \in OutboxRow
  <2>1. m \in Messages
    BY NotIdle DEF PublisherState
  <2> QED BY <2>1 DEF Publishing, OutboxTyped
<1>5. sent' \subseteq Delivered
  <2>1. outbox[m].content \in Contents
    BY <1>4 DEF OutboxRow
  <2>2. [msg |-> m, content |-> outbox[m].content] \in Delivered
    BY <1>4, <2>1 DEF Delivered
  <2> QED BY <1>2, <2>2 DEF History
<1>6. /\ PublishersTyped' /\ \A q \in Publishers \ {p} : publisher'[q] = publisher[q]
      /\ publisher'[p] # Idle /\ publisher'[p].token = publisher[p].token
      /\ DOMAIN publisher'[p].work = DOMAIN publisher[p].work
  BY <1>1, MarkedWork
<1>7. Publishing'
  <2>1. /\ outbox' = outbox /\ lapsed' = lapsed /\ IssuedTokens' = IssuedTokens
    BY <1>2 DEF outboxVars, leaseVars, IssuedTokens
  <2>2. \A q \in Publishers :
           /\ publisher'[q] # Idle <=> publisher[q] # Idle
           /\ publisher'[q] # Idle => /\ publisher'[q].token = publisher[q].token
                                      /\ DOMAIN publisher'[q].work = DOMAIN publisher[q].work
    BY <1>6
  <2> QED BY <2>1, <2>2 DEF Publishing
<1>8. OutboxTyped'
  BY <1>2 DEF OutboxTyped, outboxVars
<1>9. ReceiptsTyped' /\ HandlersTyped' /\ Consuming' /\ History'
  BY <1>2, <1>3, <1>5, ConsumersUntouched
<1> QED BY <1>3, <1>6, <1>7, <1>8, <1>9 DEF TimePasses

\* A publisher settles an item: the row it changes carries its own token, so
\* no other publisher relies on it.
LEMMA SettleStep ==
    ASSUME Inv, NEW p \in Publishers, publisher[p] # Idle, NEW m \in DOMAIN publisher[p].work,
           Settle(p, m)
    PROVE  Inv'
<1> USE DEF Inv, Typed
<1>1. /\ AcknowledgeOutbox(m, publisher[p].token) \/ RetryOutbox(m, publisher[p].token)
      /\ publisher' = [publisher EXCEPT ![p] = Settled(p, m)]
      /\ UNCHANGED <<receipts, sent, handler, cursor, historyVars>>
  BY DEF Settle
<1>2. \A q \in Publishers : publisher[q] # Idle => DOMAIN publisher[q].work \subseteq Messages
  BY NotIdle DEF PublisherState
<1>3. /\ OutboxTyped' /\ UNCHANGED leaseVars
      /\ \A n \in Messages \ {m} : OutboxKept(n)
      /\ \/ OutboxKept(m)
         \/ /\ outbox[m] # None /\ outbox[m].token = publisher[p].token
            /\ outbox'[m] # None
  BY <1>1, <1>2, SettleRows
<1>4. /\ PublishersTyped' /\ \A q \in Publishers \ {p} : publisher'[q] = publisher[q]
      /\ publisher'[p] # Idle => /\ publisher'[p].token = publisher[p].token
                                 /\ DOMAIN publisher'[p].work = DOMAIN publisher[p].work \ {m}
  BY <1>1, SettledWork
<1>5. TimePasses /\ lapsed' = lapsed /\ IssuedTokens' = IssuedTokens
  BY <1>3, TimeStands DEF leaseVars, IssuedTokens
<1>6. \A q \in Publishers : publisher'[q] # Idle =>
         publisher[q] # Idle /\ publisher'[q].token = publisher[q].token
  BY <1>4
<1>7. Publishing'
  <2>1. ASSUME NEW q \in Publishers, publisher'[q] # Idle, NEW n \in DOMAIN publisher'[q].work
        PROVE  /\ outbox'[n] # None
               /\ publisher'[q].token \notin lapsed' => outbox'[n].token = publisher'[q].token
    <3>1. /\ publisher[q] # Idle /\ n \in DOMAIN publisher[q].work /\ n \in Messages
          /\ q = p => n # m
      BY <1>2, <1>4, <1>6, <2>1
    <3>2. /\ outbox[n] # None
          /\ publisher[q].token \notin lapsed => outbox[n].token = publisher[q].token
      BY <3>1 DEF Publishing
    <3>3. CASE OutboxKept(n)
      BY <1>5, <1>6, <2>1, <3>2, <3>3 DEF OutboxKept
    <3>4. CASE n = m /\ outbox[m].token = publisher[p].token /\ outbox'[m] # None
      BY <1>5, <1>6, <2>1, <3>1, <3>2, <3>4 DEF Publishing
    <3> QED BY <1>3, <3>1, <3>3, <3>4
  <2>2. ASSUME NEW q \in Publishers, NEW r \in Publishers, publisher'[q] # Idle,
               publisher'[r] # Idle, publisher'[q].token = publisher'[r].token
        PROVE  q = r
    BY <1>6, <2>2 DEF Publishing
  <2>3. \A q \in Publishers : publisher'[q] # Idle => publisher'[q].token \in IssuedTokens'
    BY <1>5, <1>6 DEF Publishing
  <2> QED BY <2>1, <2>2, <2>3 DEF Publishing
<1>8. ReceiptsTyped' /\ HandlersTyped' /\ Consuming' /\ History'
  BY <1>1, <1>5, ConsumersUntouched DEF History
<1> QED BY <1>3, <1>4, <1>5, <1>7, <1>8 DEF TimePasses

\* The other steps of the publishing side: an append, a crash, a stray message.
LEMMA ProducerStep ==
    ASSUME Inv, \/ \E b \in Batches : AppendEvidence(b)
                \/ \E p \in Publishers : PublisherCrashes(p)
                \/ \E d \in Delivered : Stray(d.msg, d.content)
    PROVE  Inv'
<1> USE DEF Inv, Typed
<1>1. UNCHANGED <<leaseVars, receipts, handler, cursor, historyVars>>
  BY DEF AppendEvidence, PublisherCrashes, Stray, processVars
<1>2. TimePasses
  BY <1>1, TimeStands
<1>3. ASSUME NEW b \in Batches, AppendEvidence(b) PROVE Inv'
  <2>1. AppendBatch(b) /\ UNCHANGED <<publisher, sent>>
    BY <1>3 DEF AppendEvidence, processVars
  <2>2. OutboxTyped' /\ \A m \in Messages : outbox[m] # None => OutboxKept(m)
    BY <2>1, AppendRows
  <2>3. PublishersTyped' /\ Publishing'
    BY <1>2, <2>1, <2>2, PublishingKept DEF OutboxKept
  <2>4. ReceiptsTyped' /\ HandlersTyped' /\ Consuming' /\ History'
    BY <1>1, <1>2, <2>1, ConsumersUntouched DEF History
  <2> QED BY <1>2, <2>2, <2>3, <2>4 DEF TimePasses
<1>4. ASSUME NEW p \in Publishers, PublisherCrashes(p) PROVE Inv'
  <2>1. publisher' = [publisher EXCEPT ![p] = Idle] /\ UNCHANGED <<outboxVars, sent>>
    BY <1>4 DEF PublisherCrashes
  <2>2. PublishersTyped' /\ \A q \in Publishers : publisher'[q] # Idle => publisher'[q] = publisher[q]
    BY <2>1 DEF PublishersTyped
  <2>3. OutboxTyped' /\ outbox' = outbox /\ lapsed' = lapsed /\ IssuedTokens' = IssuedTokens
    BY <1>1, <2>1 DEF OutboxTyped, outboxVars, leaseVars, IssuedTokens
  <2>4. Publishing'
    BY <2>2, <2>3 DEF Publishing
  <2>5. ReceiptsTyped' /\ HandlersTyped' /\ Consuming' /\ History'
    BY <1>1, <1>2, <2>1, ConsumersUntouched DEF History
  <2> QED BY <1>2, <2>2, <2>3, <2>4, <2>5 DEF TimePasses
<1>5. ASSUME NEW d \in Delivered, Stray(d.msg, d.content) PROVE Inv'
  <2>1. /\ UNCHANGED <<outboxVars, publisher>>
        /\ sent' = sent \cup {[msg |-> d.msg, content |-> d.content]}
    BY <1>5 DEF Stray
  <2>2. sent' \subseteq Delivered
    BY <2>1 DEF Delivered, History
  <2>3. OutboxTyped' /\ PublishersTyped' /\ Publishing'
    BY <1>2, <2>1, PublishingKept DEF OutboxTyped, outboxVars
  <2>4. ReceiptsTyped' /\ HandlersTyped' /\ Consuming' /\ History'
    BY <1>1, <1>2, <2>2, ConsumersUntouched
  <2> QED BY <1>2, <2>3, <2>4 DEF TimePasses
<1> QED BY <1>3, <1>4, <1>5

\* A step of the consuming side leaves the publishing side alone.
LEMMA PublishersUntouched ==
    ASSUME Inv, TimePasses, UNCHANGED <<outboxVars, publisher>>
    PROVE  OutboxTyped' /\ PublishersTyped' /\ Publishing'
<1> USE DEF Inv, Typed
<1>1. OutboxTyped'
  BY DEF OutboxTyped, outboxVars
<1> QED BY <1>1, PublishingKept DEF outboxVars

\* A handler is invoked: its token is new, and whoever worked on the message
\* before has no current lease.
LEMMA BeginStep ==
    ASSUME Inv, NEW h \in Handlers, NEW d \in sent, Begin(h, d)
    PROVE  Inv'
<1> USE DEF Inv, Typed
<1> DEFINE state == [msg |-> d.msg, content |-> d.content, token |-> nextToken, phase |-> "running"]
           call == [msg |-> d.msg, content |-> d.content, token |-> nextToken]
<1>1. /\ handler' = [handler EXCEPT ![h] = state] /\ invoked' = invoked \cup {call}
      /\ AcquireReceipt(d.msg, d.content) /\ nextToken' = nextToken + 1 /\ UNCHANGED lapsed
      /\ UNCHANGED <<outboxVars, publisher, sent, cursor, effects, reported>>
  BY DEF Begin, AcquireReceipt
<1>2. d.msg \in Messages /\ d.content \in Contents
  BY DEF History, Delivered
<1>3. TimePasses /\ nextToken \in IssuedTokens' /\ nextToken \notin IssuedTokens
  BY <1>1, TokenIssued
<1>4. /\ ReceiptsTyped' /\ \A n \in Messages \ {d.msg} : ReceiptKept(n)
      /\ receipts'[d.msg] # None /\ receipts'[d.msg].content = d.content
      /\ receipts'[d.msg].state = "processing" /\ receipts'[d.msg].token = nextToken
      /\ receipts[d.msg] # None => /\ receipts[d.msg].content = d.content
                                   /\ receipts[d.msg].state # "completed"
                                   /\ ~LeaseCurrent(receipts[d.msg].token)
  BY <1>1, <1>2, AcquireRows
<1>5. /\ state \in HandlerState /\ state.token = nextToken /\ state.msg = d.msg
      /\ state.content = d.content /\ state.phase = "running"
      /\ call = [msg |-> state.msg, content |-> state.content, token |-> state.token]
      /\ call \in Invocation /\ call.msg = d.msg /\ call.content = d.content
  BY <1>2 DEF HandlerState, Invocation, Leases
<1> HIDE DEF state, call
<1>6. /\ HandlersTyped' /\ handler'[h] = state
      /\ \A g \in Handlers \ {h} : handler'[g] = handler[g]
  BY <1>1, <1>5 DEF HandlersTyped
<1>7. \A g \in Handlers : handler[g] # Idle =>
         handler[g].msg \in Messages /\ handler[g].token \in IssuedTokens
  BY NotIdle DEF HandlerState, Consuming
<1>8. Consuming'
  <2>1. ASSUME NEW g \in Handlers, handler'[g] # Idle PROVE handler'[g].token \in IssuedTokens'
    BY <1>3, <1>5, <1>6, <1>7, <2>1, TokensStay
  <2>2. ASSUME NEW f \in Handlers, NEW g \in Handlers, handler'[f] # Idle, handler'[g] # Idle,
               handler'[f].token = handler'[g].token
        PROVE  f = g
    BY <1>3, <1>5, <1>6, <1>7, <2>2 DEF Consuming
  <2>3. ASSUME NEW g \in Handlers, handler'[g] # Idle, handler'[g].token \notin lapsed'
        PROVE  /\ receipts'[handler'[g].msg] # None
               /\ receipts'[handler'[g].msg].token = handler'[g].token
    <3>1. CASE g = h
      BY <1>4, <1>5, <1>6, <3>1
    <3>2. CASE g # h
      <4>1. /\ handler'[g] = handler[g] /\ handler[g].msg \in Messages
            /\ receipts[handler[g].msg] # None
            /\ receipts[handler[g].msg].token = handler[g].token
            /\ handler[g].token \notin lapsed
        BY <1>1, <1>6, <1>7, <2>3, <3>2 DEF Consuming
      <4>2. handler[g].token # None
        BY <1>7, <2>3, <4>1, DeliveryAssumption DEF IssuedTokens, Leases
      <4>3. handler[g].msg # d.msg
        BY <1>4, <4>1, <4>2 DEF LeaseCurrent
      <4> QED BY <1>4, <4>1, <4>3 DEF ReceiptKept
    <3> QED BY <3>1, <3>2
  <2> QED BY <2>1, <2>2, <2>3 DEF Consuming
<1>9. History'
  <2>1. \A i \in invoked : i.msg \in Messages
    BY DEF History, Invocation
  <2>2. \A i \in invoked' : receipts'[i.msg] # None /\ i.content = receipts'[i.msg].content
    BY <1>1, <1>4, <1>5, <2>1 DEF History, ReceiptKept
  <2>3. \A g \in Handlers : handler'[g] # Idle =>
          [msg |-> handler'[g].msg, content |-> handler'[g].content, token |-> handler'[g].token]
            \in invoked'
    <3>1. ASSUME NEW g \in Handlers \ {h}, handler'[g] # Idle
          PROVE  [msg |-> handler'[g].msg, content |-> handler'[g].content, token |-> handler'[g].token]
                   \in invoked'
      BY <1>1, <1>6, <3>1 DEF History
    <3>2. [msg |-> handler'[h].msg, content |-> handler'[h].content, token |-> handler'[h].token] = call
      BY <1>5, <1>6
    <3> QED BY <1>1, <3>1, <3>2
  <2>4. \A g \in Handlers : handler'[g] # Idle /\ handler'[g].phase = "returned" =>
          \E e \in effects' : e.msg = handler'[g].msg
    BY <1>1, <1>5, <1>6 DEF History
  <2>5. \A m \in Messages : receipts'[m] # None /\ receipts'[m].state = "completed" =>
          \E e \in effects' : e.msg = m
    BY <1>1, <1>4 DEF History, ReceiptKept
  <2>6. \A m \in reported' : receipts'[m] # None /\ receipts'[m].state = "completed"
    <3>1. d.msg \notin reported
      BY <1>4 DEF History
    <3> QED BY <1>1, <1>4, <3>1 DEF History, ReceiptKept
  <2>7. /\ sent' \subseteq Delivered /\ reported' \subseteq Messages /\ cursor' \in reported' \cup {0}
        /\ invoked' \subseteq Invocation /\ effects' \subseteq invoked'
    BY <1>1, <1>5 DEF History
  <2> QED BY <2>2, <2>3, <2>4, <2>5, <2>6, <2>7 DEF History
<1>10. OutboxTyped' /\ PublishersTyped' /\ Publishing'
  BY <1>1, <1>3, PublishersUntouched
<1> QED BY <1>3, <1>4, <1>6, <1>8, <1>9, <1>10 DEF TimePasses

\* The handler returns or throws: only its phase moves.
LEMMA HandlerEndsStep ==
    ASSUME Inv, NEW h \in Handlers, HandlerReturns(h) \/ HandlerThrows(h)
    PROVE  Inv'
<1> USE DEF Inv, Typed
<1>1. /\ handler[h] # Idle /\ handler[h].phase = "running"
      /\ UNCHANGED <<leaseVars, outboxVars, receipts, publisher, sent, cursor, invoked, reported>>
  BY DEF HandlerReturns, HandlerThrows, historyVars
<1>2. handler[h] \in HandlerState
  BY <1>1, NotIdle
<1>3. TimePasses
  BY <1>1, TimeStands
<1>4. PICK phase \in {"returned", "threw"} :
        /\ handler' = [handler EXCEPT ![h].phase = phase]
        /\ phase = "returned" =>
             effects' = effects \cup {[msg |-> handler[h].msg, content |-> handler[h].content,
                                       token |-> handler[h].token]}
        /\ phase = "threw" => effects' = effects
  BY DEF HandlerReturns, HandlerThrows, historyVars
<1> DEFINE state == [handler[h] EXCEPT !.phase = phase]
<1>5. /\ state \in HandlerState /\ state.phase = phase /\ state.msg = handler[h].msg
      /\ state.content = handler[h].content /\ state.token = handler[h].token
  BY <1>2, <1>4 DEF HandlerState
<1>6. state # Idle
  BY <1>5, DeliveryAssumption DEF Idle, HandlerState
<1>7. handler' = [handler EXCEPT ![h] = state]
  BY <1>4 DEF HandlersTyped
<1> HIDE DEF state
<1>8. /\ HandlersTyped' /\ handler'[h] = state /\ \A g \in Handlers \ {h} : handler'[g] = handler[g]
  BY <1>5, <1>7 DEF HandlersTyped
<1>9. \A g \in Handlers :
        /\ handler'[g] # Idle <=> handler[g] # Idle
        /\ handler'[g] # Idle => /\ handler'[g].msg = handler[g].msg
                                 /\ handler'[g].content = handler[g].content
                                 /\ handler'[g].token = handler[g].token
  BY <1>1, <1>5, <1>6, <1>8
<1>10. Consuming'
  <2>1. receipts' = receipts /\ lapsed' = lapsed /\ IssuedTokens' = IssuedTokens
    BY <1>1 DEF leaseVars, IssuedTokens
  <2> QED BY <1>9, <2>1 DEF Consuming
<1>11. History'
  <2>1. effects \subseteq effects' /\ effects' \subseteq invoked
    BY <1>1, <1>4 DEF History
  <2>2. \A g \in Handlers : handler'[g] # Idle /\ handler'[g].phase = "returned" =>
          \E e \in effects' : e.msg = handler'[g].msg
    <3>1. ASSUME phase = "returned" PROVE \E e \in effects' : e.msg = handler[h].msg
      <4> DEFINE call == [msg |-> handler[h].msg, content |-> handler[h].content,
                          token |-> handler[h].token]
      <4>1. call \in effects' /\ call.msg = handler[h].msg
        BY <1>4, <3>1
      <4> HIDE DEF call
      <4> QED BY <4>1
    <3>2. ASSUME NEW g \in Handlers \ {h}, handler'[g] # Idle, handler'[g].phase = "returned"
          PROVE  \E e \in effects' : e.msg = handler'[g].msg
      BY <1>8, <2>1, <3>2 DEF History
    <3> QED BY <1>5, <1>8, <3>1, <3>2
  <2>3. \A m \in Messages : receipts'[m] # None /\ receipts'[m].state = "completed" =>
          \E e \in effects' : e.msg = m
    BY <1>1, <2>1 DEF History
  <2>4. \A g \in Handlers : handler'[g] # Idle =>
          [msg |-> handler'[g].msg, content |-> handler'[g].content, token |-> handler'[g].token]
            \in invoked'
    BY <1>1, <1>9 DEF History
  <2> QED BY <1>1, <2>1, <2>2, <2>3, <2>4 DEF History
<1>12. ReceiptsTyped'
  BY <1>1 DEF ReceiptsTyped
<1>13. OutboxTyped' /\ PublishersTyped' /\ Publishing'
  BY <1>1, <1>3, PublishersUntouched
<1> QED BY <1>3, <1>8, <1>10, <1>11, <1>12, <1>13 DEF TimePasses

\* A call of the harness ends: the receipt it changes carries its own token,
\* so no other handler relies on it, and it is completed only if the handler
\* returned.
LEMMA CallEnds ==
    ASSUME Inv, NEW h \in Handlers, handler[h] # Idle,
           \/ UNCHANGED <<leaseVars, receipts>>
           \/ handler[h].phase = "returned" /\ CompleteReceipt(handler[h].msg, handler[h].token)
           \/ handler[h].phase = "threw" /\ ReleaseReceipt(handler[h].msg, handler[h].token),
           handler' = [handler EXCEPT ![h] = Idle],
           UNCHANGED <<outboxVars, publisher, sent, cursor, invoked, effects>>,
           \/ reported' = reported
           \/ /\ receipts' # receipts /\ handler[h].phase = "returned"
              /\ reported' = reported \cup {handler[h].msg}
    PROVE  Inv'
<1> USE DEF Inv, Typed
<1> DEFINE m == handler[h].msg
<1>1. handler[h] \in HandlerState /\ m \in Messages
  BY NotIdle DEF HandlerState
<1>2. PICK state \in {"completed", "available"} :
        /\ \/ UNCHANGED <<leaseVars, receipts>>
           \/ state = "completed" /\ CompleteReceipt(m, handler[h].token)
           \/ state = "available" /\ ReleaseReceipt(m, handler[h].token)
        /\ handler[h].phase = "returned" <=> state = "completed"
  BY <1>1 DEF HandlerState
<1>3. /\ ReceiptsTyped' /\ UNCHANGED leaseVars
      /\ \A n \in Messages \ {m} : ReceiptKept(n)
      /\ \/ receipts' = receipts
         \/ /\ receipts[m] # None /\ receipts[m].state = "processing"
            /\ receipts[m].token = handler[h].token
            /\ receipts'[m] # None /\ receipts'[m].state = state
            /\ receipts'[m].content = receipts[m].content
  <2>1. CASE UNCHANGED <<leaseVars, receipts>>
    BY <2>1 DEF ReceiptsTyped, ReceiptKept
  <2>2. CASE ~UNCHANGED <<leaseVars, receipts>>
    BY <1>1, <1>2, <2>2, FinishRows
  <2> QED BY <2>1, <2>2
<1>4. TimePasses /\ lapsed' = lapsed /\ IssuedTokens' = IssuedTokens
  BY <1>3, TimeStands DEF leaseVars, IssuedTokens
<1>5. /\ HandlersTyped' /\ handler'[h] = Idle
      /\ \A g \in Handlers \ {h} : handler'[g] = handler[g]
  BY DEF HandlersTyped
<1>6. \A g \in Handlers : handler'[g] # Idle =>
        /\ g # h /\ handler'[g] = handler[g] /\ handler[g] # Idle /\ handler[g].msg \in Messages
  BY <1>5, NotIdle DEF HandlerState
<1>7. Consuming'
  <2>1. ASSUME NEW g \in Handlers, handler'[g] # Idle, handler'[g].token \notin lapsed'
        PROVE  /\ receipts'[handler'[g].msg] # None
               /\ receipts'[handler'[g].msg].token = handler'[g].token
    <3>1. /\ g # h /\ handler'[g] = handler[g] /\ handler[g] # Idle
          /\ handler[g].msg \in Messages /\ handler[g].token # handler[h].token
          /\ receipts[handler[g].msg] # None
          /\ receipts[handler[g].msg].token = handler[g].token
      BY <1>4, <1>6, <2>1 DEF Consuming
    <3>2. ReceiptKept(handler[g].msg)
      BY <1>3, <3>1 DEF ReceiptKept
    <3> QED BY <3>1, <3>2 DEF ReceiptKept
  <2>2. \A g \in Handlers : handler'[g] # Idle => handler'[g].token \in IssuedTokens'
    BY <1>4, <1>6 DEF Consuming
  <2>3. ASSUME NEW f \in Handlers, NEW g \in Handlers, handler'[f] # Idle, handler'[g] # Idle,
               handler'[f].token = handler'[g].token
        PROVE  f = g
    BY <1>6, <2>3 DEF Consuming
  <2> QED BY <2>1, <2>2, <2>3 DEF Consuming
<1>8. History'
  <2>1. \A n \in Messages :
          /\ receipts[n] # None <=> receipts'[n] # None
          /\ receipts[n] # None =>
               /\ receipts'[n].content = receipts[n].content
               /\ receipts[n].state = "completed" => receipts'[n].state = "completed"
               /\ receipts'[n].state = "completed" =>
                    \/ receipts[n].state = "completed"
                    \/ n = m /\ handler[h].phase = "returned"
    BY <1>2, <1>3 DEF ReceiptKept
  <2>2. \A i \in invoked : i.msg \in Messages
    BY DEF History, Invocation
  <2>3. \A i \in invoked' : receipts'[i.msg] # None /\ i.content = receipts'[i.msg].content
    BY <2>1, <2>2 DEF History
  <2>4. \A g \in Handlers : handler'[g] # Idle =>
          /\ [msg |-> handler'[g].msg, content |-> handler'[g].content, token |-> handler'[g].token]
                \in invoked'
          /\ handler'[g].phase = "returned" => \E e \in effects' : e.msg = handler'[g].msg
    BY <1>6 DEF History
  <2>5. \A n \in Messages : receipts'[n] # None /\ receipts'[n].state = "completed" =>
          \E e \in effects' : e.msg = n
    BY <2>1 DEF History
  <2>6. reported' \subseteq Messages /\ reported \subseteq reported'
    BY <1>1 DEF History
  <2>7. \A n \in reported' : receipts'[n] # None /\ receipts'[n].state = "completed"
    <3>1. \A n \in reported : receipts'[n] # None /\ receipts'[n].state = "completed"
      BY <2>1 DEF History
    <3>2. ASSUME receipts' # receipts, handler[h].phase = "returned"
          PROVE  receipts'[m] # None /\ receipts'[m].state = "completed"
      BY <1>2, <1>3, <3>2
    <3> QED BY <3>1, <3>2
  <2> QED BY <2>3, <2>4, <2>5, <2>6, <2>7 DEF History
<1>9. OutboxTyped' /\ PublishersTyped' /\ Publishing'
  BY <1>4, PublishersUntouched
<1> QED BY <1>3, <1>4, <1>5, <1>7, <1>8, <1>9 DEF TimePasses

\* The caller's side of the harness: an answer "completed" for a message whose
\* receipt says so, and the projection cursor.
LEMMA CallerStep ==
    ASSUME Inv, \/ \E h \in Handlers, d \in sent : BeginCompleted(h, d)
                \/ \E m \in Messages : AdvanceCursor(m)
    PROVE  Inv'
<1> USE DEF Inv, Typed
<1>1. UNCHANGED <<leaseVars, outboxVars, receipts, publisher, sent, handler, invoked, effects>>
  BY DEF BeginCompleted, AdvanceCursor, processVars, historyVars
<1>2. TimePasses
  BY <1>1, TimeStands
<1>3. /\ reported' \subseteq Messages /\ cursor' \in reported' \cup {0}
      /\ \A m \in reported' : receipts[m] # None /\ receipts[m].state = "completed"
  <2>1. ASSUME NEW h \in Handlers, NEW d \in sent, BeginCompleted(h, d)
        PROVE  /\ reported' \subseteq Messages /\ cursor' \in reported' \cup {0}
               /\ \A m \in reported' : receipts[m] # None /\ receipts[m].state = "completed"
    <3>1. /\ d.msg \in Messages /\ receipts[d.msg] # None /\ receipts[d.msg].state = "completed"
          /\ reported' = reported \cup {d.msg} /\ cursor' = cursor
      BY <2>1 DEF BeginCompleted, Completed, processVars, History, Delivered
    <3> QED BY <3>1 DEF History
  <2>2. ASSUME NEW m \in Messages, AdvanceCursor(m)
        PROVE  /\ reported' \subseteq Messages /\ cursor' \in reported' \cup {0}
               /\ \A n \in reported' : receipts[n] # None /\ receipts[n].state = "completed"
    BY <2>2 DEF AdvanceCursor, Advance, historyVars, History
  <2> QED BY <2>1, <2>2
<1>4. History'
  BY <1>1, <1>3 DEF History
<1>5. ReceiptsTyped' /\ HandlersTyped' /\ Consuming'
  BY <1>1, <1>2, ConsumingKept DEF ReceiptsTyped
<1>6. OutboxTyped' /\ PublishersTyped' /\ Publishing'
  BY <1>1, <1>2, PublishersUntouched
<1> QED BY <1>2, <1>4, <1>5, <1>6 DEF TimePasses

\* Every step of the system keeps the invariant.
LEMMA NextInv == Inv /\ [Next]_deliveryVars => Inv'
<1> SUFFICES ASSUME Inv, [Next]_deliveryVars PROVE Inv'
  OBVIOUS
<1>1. CASE UNCHANGED deliveryVars
  <2>1. UNCHANGED <<leaseVars, outboxVars, receipts, publisher, sent, handler, cursor, historyVars>>
    BY <1>1 DEF deliveryVars, processVars
  <2>2. TimePasses
    BY <2>1, TimeStands DEF Inv, Typed
  <2>3. ReceiptsTyped' /\ HandlersTyped' /\ Consuming' /\ History'
    BY <2>1, <2>2, ConsumersUntouched DEF Inv, History
  <2>4. OutboxTyped' /\ PublishersTyped' /\ Publishing'
    BY <2>1, <2>2, PublishersUntouched
  <2> QED BY <2>2, <2>3, <2>4 DEF Inv, Typed, TimePasses
<1>2. ASSUME NEW p \in Publishers, PublisherWorks(p) PROVE Inv'
  BY <1>2, PublisherClaimsStep, HandOverStep, SettleStep DEF PublisherWorks
<1>3. ASSUME NEW p \in Publishers, publisher[p] # Idle, NEW m \in DOMAIN publisher[p].work,
             HandOverFails(p, m)
      PROVE  Inv'
  BY <1>3, HandOverStep
<1>4. ASSUME NEW h \in Handlers, HandlerWorks(h) \/ HandlerThrows(h) \/ HandlerCrashes(h)
      PROVE  Inv'
  <2>1. CASE HandlerReturns(h) \/ HandlerThrows(h)
    BY <2>1, HandlerEndsStep
  <2>2. CASE HandlerFinishes(h)
    BY <2>2, CallEnds DEF HandlerFinishes, Finish
  <2>3. CASE HandlerCrashes(h)
    BY <2>3, CallEnds DEF HandlerCrashes, historyVars
  <2> QED BY <1>4, <2>1, <2>2, <2>3 DEF HandlerWorks
<1>5. CASE Next
  BY <1>2, <1>3, <1>4, <1>5, TimeStep, ProducerStep, BeginStep, CallerStep DEF Next
<1> QED BY <1>1, <1>5

------------------------------------------------------------------------------
(* Theorems *)

\* The inductive invariant of the outbox, the receipts and whoever holds them.
THEOREM DeliveryInvariant == DeliverySpec => []Inv
BY InitInv, NextInv, PTL DEF DeliverySpec

\* Rows and receipts never break the CHECK constraints of migrations 0002 and
\* 0003, so no transaction of a publisher or a consumer fails on them for ever.
THEOREM DeliveryTypes == DeliverySpec => []DeliveryTypeOK
<1>1. Inv => DeliveryTypeOK
  BY DEF Inv, Typed, Leases, OutboxTyped, ReceiptsTyped, History, DeliveryTypeOK
<1> QED BY <1>1, DeliveryInvariant, PTL

\* However often the transport delivers a message, two calls of
\* processConsumerMessage never work on it under leases that both still run.
THEOREM OneHandlerAtATime == DeliverySpec => []SingleActiveHandler
<1>1. Inv => SingleActiveHandler
  <2> SUFFICES ASSUME Inv, NEW g \in Handlers, NEW h \in Handlers,
                      handler[g] # Idle, handler[h] # Idle, handler[g].msg = handler[h].msg,
                      {handler[g].token, handler[h].token} \cap lapsed = {}
               PROVE  g = h
    BY DEF SingleActiveHandler
  <2>1. handler[g].token \notin lapsed /\ handler[h].token \notin lapsed
    OBVIOUS
  <2> QED BY <2>1 DEF Inv, Consuming
<1> QED BY <1>1, DeliveryInvariant, PTL

\* Two publishers never hold a row of the outbox under leases that both run.
THEOREM OnePublisherAtATime == DeliverySpec => []SingleActivePublisher
<1>1. Inv => SingleActivePublisher
  <2> SUFFICES ASSUME Inv, NEW p \in Publishers, NEW q \in Publishers,
                      publisher[p] # Idle, publisher[q] # Idle,
                      DOMAIN publisher[p].work \cap DOMAIN publisher[q].work # {},
                      {publisher[p].token, publisher[q].token} \cap lapsed = {}
               PROVE  p = q
    BY DEF SingleActivePublisher
  <2>1. PICK m \in DOMAIN publisher[p].work : m \in DOMAIN publisher[q].work
    OBVIOUS
  <2>2. publisher[p].token \notin lapsed /\ publisher[q].token \notin lapsed
    OBVIOUS
  <2> QED BY <2>1, <2>2 DEF Inv, Publishing
<1> QED BY <1>1, DeliveryInvariant, PTL

\* A receipt is completed only by a handler that returned, and every handler
\* of the message was given the payload the receipt was opened for.
THEOREM CompletionsWereHandled == DeliverySpec => []CompletedWasHandled
<1>1. Inv => CompletedWasHandled
  BY DEF Inv, History, CompletedWasHandled
<1> QED BY <1>1, DeliveryInvariant, PTL

\* A claim for a completed message answers "completed": the handler is not
\* invoked for it again, whatever is redelivered.
THEOREM CompletionIsFinal == DeliverySpec => NotInvokedAfterCompletion
<1> DEFINE Final == \A m \in Messages : receipts[m] # None /\ receipts[m].state = "completed" =>
                        {i \in invoked' : i.msg = m} = {i \in invoked : i.msg = m}
<1>1. Inv /\ [Next]_deliveryVars => [Final]_deliveryVars
  <2> SUFFICES ASSUME Inv, Next, NEW m \in Messages, receipts[m] # None,
                      receipts[m].state = "completed"
               PROVE  {i \in invoked' : i.msg = m} = {i \in invoked : i.msg = m}
    OBVIOUS
  <2>1. CASE invoked' = invoked
    BY <2>1
  <2>2. ASSUME NEW h \in Handlers, NEW d \in sent, Begin(h, d)
        PROVE  {i \in invoked' : i.msg = m} = {i \in invoked : i.msg = m}
    <3> DEFINE call == [msg |-> d.msg, content |-> d.content, token |-> nextToken]
    <3>1. invoked' = invoked \cup {call} /\ call.msg = d.msg
      BY <2>2 DEF Begin
    <3>2. d.msg # m
      BY <2>2 DEF Begin, AcquireReceipt, Completed
    <3> HIDE DEF call
    <3> QED BY <3>1, <3>2
  <2>3. CASE ~\E h \in Handlers, d \in sent : Begin(h, d)
    BY <2>1, <2>3 DEF Next, Lapse, Due, AppendEvidence, PublisherWorks, PublisherClaims, HandOver,
       HandOverFails, Settle, PublisherCrashes, Stray, BeginCompleted, HandlerWorks,
       HandlerReturns, HandlerFinishes, HandlerThrows, HandlerCrashes, AdvanceCursor, historyVars
  <2> QED BY <2>2, <2>3
<1> QED BY <1>1, DeliveryInvariant, PTL DEF DeliverySpec, NotInvokedAfterCompletion

\* The projection cursor only moves forward, and only to a completed message:
\* whoever was told that it is done was told the truth, and it stays true.
THEOREM CursorFollows == DeliverySpec => CursorMovesForward
<1> DEFINE Forward == cursor' # cursor => cursor' > cursor /\ receipts[cursor'].state = "completed"
<1>1. Inv /\ [Next]_deliveryVars => [Forward]_deliveryVars
  <2> SUFFICES ASSUME Inv, Next, cursor' # cursor
               PROVE  cursor' > cursor /\ receipts[cursor'].state = "completed"
    OBVIOUS
  <2>1. PICK m \in Messages : AdvanceCursor(m)
    BY DEF Next, Lapse, Due, AppendEvidence, PublisherWorks, PublisherClaims, HandOver,
       HandOverFails, Settle, PublisherCrashes, Stray, Begin, BeginCompleted, HandlerWorks,
       HandlerReturns, HandlerFinishes, HandlerThrows, HandlerCrashes, processVars
  <2> QED BY <2>1 DEF AdvanceCursor, Advance, Inv, History
<1> QED BY <1>1, DeliveryInvariant, PTL DEF DeliverySpec, CursorMovesForward

==============================================================================
