------------------------------- MODULE Delivery -------------------------------
(***************************************************************************)
(* End-to-end delivery: evidence is appended with its outbox intent,       *)
(* publishers claim intents and hand them to a transport, consumers run    *)
(* packages/core/src/outbox/process-consumer-message.ts on what arrives,   *)
(* and a projection cursor follows                                         *)
(* (packages/postgres/src/postgres-projection-cursor-repository.ts).       *)
(*                                                                         *)
(* The publisher, the transport and the caller of the harness are not part *)
(* of the repository: the publisher hands over what it claimed and then    *)
(* acknowledges or retries it; the transport may deliver what it was given *)
(* any number of times, at any time.                                       *)
(***************************************************************************)
EXTENDS Outbox, ConsumerReceipt

CONSTANTS
    Publishers,
    Handlers,      \* calls of processConsumerMessage in progress at once
    MaxFaults      \* bound: crashes, errors, and leases too short for the work

ASSUME FaultAssumption == MaxFaults \in Nat

VARIABLES
    publisher,     \* what each publisher is doing: its token and its batch
    sent,          \* what the transport has been given
    handler,       \* what each call of the harness is doing
    cursor,        \* last_outbox_id of the projection, 0 before the first
    invoked,       \* history: every invocation of a handler
    effects,       \* history: the invocations that returned
    reported,      \* history: messages a caller was told are done
    faults

processVars == <<publisher, sent, handler, cursor>>
historyVars == <<invoked, effects, reported>>
deliveryVars == <<leaseVars, outboxVars, receipts, processVars, historyVars, faults>>

Idle == [token |-> None]

\* One invocation of the handler: its message, payload and lease.
Invocation == [msg : Messages, content : Contents, token : Nat]
Delivered == [msg : Messages, content : Contents]

DeliveryInit ==
    /\ LeaseInit /\ OutboxInit /\ ReceiptInit
    /\ publisher = [p \in Publishers |-> Idle]
    /\ sent = {}
    /\ handler = [h \in Handlers |-> Idle]
    /\ cursor = 0
    /\ invoked = {} /\ effects = {} /\ reported = {}
    /\ faults = 0

Fault == faults < MaxFaults /\ faults' = faults + 1

------------------------------------------------------------------------------
(* Time *)

\* The tokens in use by a process that has not finished with them.
InUse ==
    {publisher[p].token : p \in Publishers} \cup {handler[h].token : h \in Handlers}

\* A lease runs out.  While its holder is still at work that is a fault.
Lapse(token) ==
    /\ token \notin lapsed
    /\ lapsed' = lapsed \cup {token}
    /\ IF token \in InUse THEN Fault ELSE UNCHANGED faults
    /\ UNCHANGED <<nextToken, outboxVars, receipts, processVars, historyVars>>

Due(m) ==
    /\ \/ OutboxDue(m) /\ UNCHANGED receipts
       \/ ReceiptDue(m) /\ UNCHANGED outboxVars
    /\ UNCHANGED <<processVars, historyVars, faults>>

------------------------------------------------------------------------------
(* Producers and publishers *)

AppendEvidence(batch) ==
    /\ AppendBatch(batch)
    /\ UNCHANGED <<leaseVars, receipts, processVars, historyVars, faults>>

PublisherClaims(p) ==
    /\ publisher[p] = Idle
    /\ ClaimOutbox
    /\ publisher' = [publisher EXCEPT ![p] =
                       [token |-> nextToken, work |-> [m \in Batch |-> "todo"]]]
    /\ UNCHANGED <<receipts, sent, handler, cursor, historyVars, faults>>

\* The transport takes the message.
HandOver(p, m) ==
    /\ publisher[p].work[m] = "todo"
    /\ sent' = sent \cup {[msg |-> m, content |-> outbox[m].content]}
    /\ publisher' = [publisher EXCEPT ![p].work[m] = "handed"]
    /\ UNCHANGED <<leaseVars, outboxVars, receipts, handler, cursor, historyVars, faults>>

\* The transport reports an error; it may have taken the message all the same.
HandOverFails(p, m) ==
    /\ publisher[p].work[m] = "todo"
    /\ Fault
    /\ sent' \in {sent, sent \cup {[msg |-> m, content |-> outbox[m].content]}}
    /\ publisher' = [publisher EXCEPT ![p].work[m] = "failed"]
    /\ UNCHANGED <<leaseVars, outboxVars, receipts, handler, cursor, historyVars>>

\* The publisher after it has settled m.
Settled(p, m) ==
    LET left == DOMAIN publisher[p].work \ {m}
    IN  IF left = {} THEN Idle
        ELSE [publisher[p] EXCEPT !.work = [n \in left |-> publisher[p].work[n]]]

\* acknowledge what was handed over, retry what was not.
Settle(p, m) ==
    /\ \/ publisher[p].work[m] = "handed" /\ AcknowledgeOutbox(m, publisher[p].token)
       \/ publisher[p].work[m] = "failed" /\ RetryOutbox(m, publisher[p].token)
    /\ publisher' = [publisher EXCEPT ![p] = Settled(p, m)]
    /\ UNCHANGED <<receipts, sent, handler, cursor, historyVars, faults>>

PublisherCrashes(p) ==
    /\ publisher[p] # Idle
    /\ Fault
    /\ publisher' = [publisher EXCEPT ![p] = Idle]
    /\ UNCHANGED <<leaseVars, outboxVars, receipts, sent, handler, cursor, historyVars>>

\* Another producer reuses a message identifier for something else.
Stray(m, content) ==
    /\ Fault
    /\ sent' = sent \cup {[msg |-> m, content |-> content]}
    /\ UNCHANGED <<leaseVars, outboxVars, receipts, publisher, handler, cursor, historyVars>>

------------------------------------------------------------------------------
(* processConsumerMessage *)

\* The claim acquires the receipt and the handler is invoked.
Begin(h, d) ==
    /\ handler[h] = Idle
    /\ AcquireReceipt(d.msg, d.content)
    /\ handler' = [handler EXCEPT ![h] =
                     [msg |-> d.msg, content |-> d.content, token |-> nextToken,
                      phase |-> "running"]]
    /\ invoked' = invoked \cup {[msg |-> d.msg, content |-> d.content, token |-> nextToken]}
    /\ UNCHANGED <<outboxVars, publisher, sent, cursor, effects, reported, faults>>

\* The claim finds the message completed; the caller is told so.
BeginCompleted(h, d) ==
    /\ handler[h] = Idle
    /\ receipts[d.msg] # None
    /\ ~Conflicts(d.msg, d.content)
    /\ Completed(d.msg)
    /\ reported' = reported \cup {d.msg}
    /\ UNCHANGED <<leaseVars, outboxVars, receipts, processVars, invoked, effects, faults>>

HandlerReturns(h) ==
    /\ handler[h] # Idle
    /\ handler[h].phase = "running"
    /\ handler' = [handler EXCEPT ![h].phase = "returned"]
    /\ effects' = effects \cup {[msg |-> handler[h].msg, content |-> handler[h].content,
                                 token |-> handler[h].token]}
    /\ UNCHANGED <<leaseVars, outboxVars, receipts, publisher, sent, cursor, invoked,
                   reported, faults>>

HandlerThrows(h) ==
    /\ handler[h] # Idle
    /\ handler[h].phase = "running"
    /\ Fault
    /\ handler' = [handler EXCEPT ![h].phase = "threw"]
    /\ UNCHANGED <<leaseVars, outboxVars, receipts, publisher, sent, cursor, historyVars>>

\* Mutant: a handler that threw is completed like one that returned.
FinishAlways(h) ==
    /\ handler[h].phase \in {"returned", "threw"}
    /\ CompleteReceipt(handler[h].msg, handler[h].token)
    /\ reported' = IF receipts' # receipts THEN reported \cup {handler[h].msg} ELSE reported

\* complete after the handler returned, release after it threw.  Without the
\* lease neither changes anything and the call throws.
Finish(h) ==
    \/ /\ handler[h].phase = "returned"
       /\ CompleteReceipt(handler[h].msg, handler[h].token)
       /\ reported' = IF receipts' # receipts THEN reported \cup {handler[h].msg} ELSE reported
    \/ /\ handler[h].phase = "threw"
       /\ ReleaseReceipt(handler[h].msg, handler[h].token)
       /\ UNCHANGED reported

HandlerFinishes(h) ==
    /\ handler[h] # Idle
    /\ Finish(h)
    /\ handler' = [handler EXCEPT ![h] = Idle]
    /\ UNCHANGED <<outboxVars, publisher, sent, cursor, invoked, effects, faults>>

\* The process dies, or the transaction's answer is lost on the way: the
\* receipt may have been completed or released, nobody is told.
HandlerCrashes(h) ==
    /\ handler[h] # Idle
    /\ Fault
    /\ \/ UNCHANGED <<leaseVars, receipts>>
       \/ handler[h].phase = "returned" /\ CompleteReceipt(handler[h].msg, handler[h].token)
       \/ handler[h].phase = "threw" /\ ReleaseReceipt(handler[h].msg, handler[h].token)
    /\ handler' = [handler EXCEPT ![h] = Idle]
    /\ UNCHANGED <<outboxVars, publisher, sent, cursor, historyVars>>

\* Mutant: the position asked for is written as it is.
AdvanceAnywhere(m) == cursor' = m

\* advance: nothing at or behind the current position.
Advance(m) == m > cursor /\ cursor' = m

\* A caller that knows a message is done advances the cursor, as late as it likes.
AdvanceCursor(m) ==
    /\ m \in reported
    /\ Advance(m)
    /\ UNCHANGED <<leaseVars, outboxVars, receipts, publisher, sent, handler, historyVars, faults>>

------------------------------------------------------------------------------
Batches == UNION {[S -> Contents] : S \in SUBSET Messages}

PublisherWorks(p) ==
    \/ PublisherClaims(p)
    \/ publisher[p] # Idle /\ \E m \in DOMAIN publisher[p].work : HandOver(p, m) \/ Settle(p, m)

HandlerWorks(h) == HandlerReturns(h) \/ HandlerFinishes(h)

Next ==
    \/ \E t \in IssuedTokens : Lapse(t)
    \/ \E m \in Messages : Due(m)
    \/ \E b \in Batches : AppendEvidence(b)
    \/ \E p \in Publishers : PublisherWorks(p)
    \/ \E p \in Publishers : /\ publisher[p] # Idle
                             /\ \E m \in DOMAIN publisher[p].work : HandOverFails(p, m)
    \/ \E p \in Publishers : PublisherCrashes(p)
    \/ \E d \in Delivered : Stray(d.msg, d.content)
    \/ \E h \in Handlers, d \in sent : Begin(h, d) \/ BeginCompleted(h, d)
    \/ \E h \in Handlers : HandlerWorks(h) \/ HandlerThrows(h) \/ HandlerCrashes(h)
    \/ \E m \in Messages : AdvanceCursor(m)

DeliverySpec == DeliveryInit /\ [][Next]_deliveryVars

\* Time passes, publishers poll, and the transport keeps delivering what it
\* was given until a handler takes it.
FairDelivery ==
    /\ DeliverySpec
    /\ WF_deliveryVars(\E t \in IssuedTokens : Lapse(t))
    /\ \A m \in Messages : WF_deliveryVars(Due(m))
    /\ \A p \in Publishers : WF_deliveryVars(PublisherWorks(p))
    /\ \A m \in Messages : WF_deliveryVars(\E h \in Handlers : \E d \in sent : d.msg = m /\ Begin(h, d))
    /\ \A h \in Handlers : WF_deliveryVars(HandlerWorks(h))

------------------------------------------------------------------------------
(* Properties *)

\* The shape of the state, and of the rows as the tables' constraints demand
\* it: a transaction that broke one would fail and be tried again for ever.
DeliveryTypeOK ==
    /\ nextToken \in Nat /\ lapsed \subseteq IssuedTokens
    /\ outbox \in [Messages -> OutboxRow \cup {None}]
    /\ receipts \in [Messages -> ReceiptRow \cup {None}]
    /\ \A m \in Messages : /\ outbox[m] # None => OutboxShape(outbox[m])
                           /\ receipts[m] # None => ReceiptShape(receipts[m])
    /\ sent \subseteq Delivered
    /\ invoked \subseteq Invocation /\ effects \subseteq invoked
    /\ reported \subseteq Messages /\ cursor \in reported \cup {0}

\* One message is worked on by one handler at a time, for as long as leases
\* last: two calls of the harness are never inside or after their handler for
\* the same message with both leases still running, however often the
\* transport delivers and whatever crashed before.
SingleActiveHandler ==
    \A g, h \in Handlers :
        /\ handler[g] # Idle /\ handler[h] # Idle
        /\ handler[g].msg = handler[h].msg
        /\ {handler[g].token, handler[h].token} \cap lapsed = {}
        => g = h

\* Likewise two publishers never hold the same message under leases that are
\* both still running.
SingleActivePublisher ==
    \A p, q \in Publishers :
        /\ publisher[p] # Idle /\ publisher[q] # Idle
        /\ DOMAIN publisher[p].work \cap DOMAIN publisher[q].work # {}
        /\ {publisher[p].token, publisher[q].token} \cap lapsed = {}
        => p = q

\* A receipt is completed only for a handler that returned, and that handler
\* worked on the payload the receipt was opened for; so did every handler
\* ever invoked for the message.
CompletedWasHandled ==
    \A m \in Messages : receipts[m] # None =>
        /\ \A i \in invoked : i.msg = m => i.content = receipts[m].content
        /\ receipts[m].state = "completed" => \E e \in effects : e.msg = m

\* Once a message is completed its handler is never invoked again.
NotInvokedAfterCompletion ==
    [][\A m \in Messages :
         receipts[m] # None /\ receipts[m].state = "completed" =>
            {i \in invoked' : i.msg = m} = {i \in invoked : i.msg = m}]_deliveryVars

\* The cursor only moves forward, to a message whose receipt is completed,
\* although callers report their results late and out of order.
CursorMovesForward ==
    [][cursor' # cursor =>
         /\ cursor' > cursor
         /\ receipts[cursor'].state = "completed"]_deliveryVars

\* At least once: whatever is appended is handled to completion, through any
\* crash, error or lapsed lease, unless its identifier was taken by another
\* payload.
AppendedIsHandled ==
    \A m \in Messages :
        outbox[m] # None ~> /\ outbox[m] # None
                            /\ receipts[m] # None
                            /\ \/ receipts[m].state = "completed"
                               \/ receipts[m].content # outbox[m].content

==============================================================================
