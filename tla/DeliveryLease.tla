---------------------------- MODULE DeliveryLease ----------------------------
(***************************************************************************)
(* What the outbox and the consumer receipts share: leases that a random   *)
(* token stands for, and time.  Time is seen only through comparisons with *)
(* clock_timestamp(), so it is modelled by what those can say: a lease has *)
(* lapsed or not, a delayed row is due or not.  A lease is never extended, *)
(* so a lapsed token stays lapsed.                                         *)
(***************************************************************************)
EXTENDS Naturals, FiniteSets

CONSTANTS
    None,
    Messages,      \* outbox identifiers, numbers
    Contents,      \* payloads, told apart by their digest
    AttemptLimit   \* the largest attempt_count a row may hold

ASSUME DeliveryAssumption ==
    /\ Messages \subseteq Nat \ {0}
    /\ AttemptLimit \in Nat \ {0}
    /\ None \notin Nat

VARIABLES
    nextToken,     \* the next lease token; randomUUID never repeats one
    lapsed         \* the tokens whose lease_expires_at has passed

leaseVars == <<nextToken, lapsed>>

LeaseInit == nextToken = 1 /\ lapsed = {}

IssuedTokens == 1..(nextToken - 1)

\* A row's lease still holds off other claims.
LeaseCurrent(token) == token # None /\ token \notin lapsed

==============================================================================
