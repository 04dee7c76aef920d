--------------------------- MODULE ArtifactCatalog ---------------------------
(* The catalog half of an artifact (packages/postgres/src/                     *)
(* postgres-artifact-catalog-repository.ts and migrations 0009, 0014): the row *)
(* that says what state the content is in, its tombstone, its purge receipt    *)
(* and the recorded fixture that owns it.  Every operation is one transaction  *)
(* that locks the row, so each is one step.  An operation that throws changes  *)
(* nothing: callers ask the guard first.                                       *)
(*                                                                             *)
(* Encryption plans and object keys are fixed by the reservation and encrypting*)
(* checks the content against it, so there is one possible object per artifact *)
(* and the receipt is only present or absent.  A reservation carries of its    *)
(* immutable metadata the retention mode alone.                                *)
EXTENDS Naturals

CONSTANTS
  Artifacts,      \* reserved artifact identifiers
  Fixtures,       \* recorded interaction fixture versions
  None            \* no tombstone, no purge receipt, no owner

Triggers == {"manual", "retention", "abandoned", "fixture_revocation"}

ASSUME CatalogAssumption == None \notin Fixtures \cup Triggers \cup {"present", "missing"}

VARIABLES
  catalog,        \* artifact -> its row with its tombstone, receipt and owner
  revoked         \* fixture versions whose content was revoked

catalogVars == <<catalog, revoked>>

CatalogRow ==
  [state: {"absent", "reserved", "available", "tombstoned", "purged"},
   retention: {"retain", "expire"}, received: BOOLEAN,
   tombstone: Triggers \cup {None}, purge: {"present", "missing", None},
   owner: Fixtures \cup {None}]

(* The lifecycle CHECK of the table and the trigger that lets a row move only  *)
(* with its tombstone or its purge receipt.                                    *)
CatalogShape(row) ==
  /\ row.state \in {"absent", "reserved"} => ~row.received
  /\ row.state = "available" => row.received
  /\ row.tombstone # None <=> row.state \in {"tombstoned", "purged"}
  /\ row.purge # None <=> row.state = "purged"

CatalogInit ==
  /\ catalog = [a \in Artifacts |->
       [state |-> "absent", retention |-> "retain", received |-> FALSE,
        tombstone |-> None, purge |-> None, owner |-> None]]
  /\ revoked = {}

(* A reservation for a known identifier either is the same and changes nothing *)
(* or conflicts.                                                               *)
Reserve(a, retention) ==
  /\ catalog[a].state = "absent"
  /\ catalog' = [catalog EXCEPT ![a].state = "reserved", ![a].retention = retention]

(* Mutant: a row is activated whatever has become of it.                     *)
ActivateAnyState(a) ==
  catalog' = [catalog EXCEPT ![a].state = "available", ![a].received = TRUE]

(* A row that is already available keeps its receipt: there is only one.       *)
Activate(a) ==
  catalog' = IF catalog[a].state = "reserved"
             THEN [catalog EXCEPT ![a].state = "available", ![a].received = TRUE]
             ELSE catalog

(* Mutant: cleanup takes a row that was activated since it was listed.       *)
MayTombstoneAnyLive(a, trigger) ==
  /\ catalog[a].state \in {"reserved", "available"}
  /\ (catalog[a].owner # None <=> trigger = "fixture_revocation")

(* Mutant: the fixture that owns the content is not asked for.               *)
MayTombstoneOwned(a, trigger) ==
  \/ catalog[a].state = "reserved" /\ trigger = "abandoned"
  \/ catalog[a].state = "available" /\ trigger # "abandoned"

(* The state the trigger is for, and at commit the deferred guard: content a   *)
(* fixture owns goes only with the fixture's revocation.  The guard of target  *)
(* releases and plan boundaries on their artifacts is left out: the model      *)
(* deletes such artifacts too.                                                 *)
MayTombstone(a, trigger) ==
  /\ \/ catalog[a].state = "reserved" /\ trigger = "abandoned"
     \/ catalog[a].state = "available" /\ trigger # "abandoned"
  /\ catalog[a].owner # None <=> trigger = "fixture_revocation"

Tombstoned(rows, trigger) ==
  [a \in Artifacts |-> IF a \in rows
                       THEN [catalog[a] EXCEPT !.state = "tombstoned", !.tombstone = trigger]
                       ELSE catalog[a]]

(* A row whose recorded tombstone is the same answers without a change.        *)
SameTombstone(a, trigger) == catalog[a].tombstone = trigger

(* The receipt keeps whether this caller's delete found the object.            *)
RecordPurge(a, wasPresent) ==
  catalog' = IF catalog[a].state = "tombstoned"
             THEN [catalog EXCEPT ![a].state = "purged",
                                  ![a].purge = IF wasPresent THEN "present" ELSE "missing"]
             ELSE catalog

(* A row is past its expiry, or a reservation past the cleanup threshold, from *)
(* some moment on: a list that may be taken at any time stands for the clock.  *)
Expired ==
  {a \in Artifacts : catalog[a].state = "available" /\ catalog[a].retention = "expire"}

(* Mutant: only reservations that expire are cleaned up.                     *)
AbandonedExpiring ==
  {a \in Artifacts : catalog[a].state = "reserved" /\ catalog[a].retention = "expire"}

Abandoned == {a \in Artifacts : catalog[a].state = "reserved"}

(* Mutant: only content that was received has to be purged.                  *)
PendingPurgeOfAvailable ==
  {a \in Artifacts : catalog[a].state = "tombstoned" /\ catalog[a].received}

PendingPurge == {a \in Artifacts : catalog[a].state = "tombstoned"}

(* What a query with a LIMIT may answer, if anything; its order is not modelled*)
(* and a batch of every size up to the whole is possible.                      *)
Batches(rows) == SUBSET rows \ {{}}

Owned(f) == {a \in Artifacts : catalog[a].owner = f}

(* Publication locks the artifact rows and binds them to the version together: *)
(* all available, retained without expiry and owned by no other.               *)
PublishRecordedFixture(f, content) ==
  /\ Owned(f) = {}
  /\ content # {}
  /\ \A a \in content : /\ catalog[a].state = "available"
                        /\ catalog[a].retention = "retain"
                        /\ catalog[a].owner = None
  /\ catalog' = [a \in Artifacts |-> IF a \in content
                                     THEN [catalog[a] EXCEPT !.owner = f] ELSE catalog[a]]
  /\ UNCHANGED revoked

(* Revocation tombstones the complete owned set in one transaction.            *)
RevokeFixtureContent(f) ==
  /\ Owned(f) # {} /\ f \notin revoked
  /\ \A a \in Owned(f) : catalog[a].state = "available"
  /\ revoked' = revoked \cup {f}
  /\ catalog' = Tombstoned(Owned(f), "fixture_revocation")
==============================================================================
