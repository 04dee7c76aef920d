---------------------------- MODULE ArtifactProofs ----------------------------
(***************************************************************************)
(* Proofs about ArtifactLifecycle, for any artifacts, fixtures, uploads,   *)
(* maintenance processes and number of failures.                           *)
(***************************************************************************)
EXTENDS ArtifactLifecycle, TLAPS

-----------------------------------------------------------------------------
(* The inductive invariant.                                                *)

UploadState == [pc: {"idle", "put", "activate"}, artifact: Artifacts \cup {None}]

WorkerState ==
  [pc: {"idle", "next", "find", "delete", "record", "activate"},
   command: Commands \cup {None}, queue: SUBSET Artifacts,
   artifact: Artifacts \cup {None}, deleted: BOOLEAN]

\* Every variable has its type, and whoever is at work has an artifact.
Typed ==
  /\ catalog \in [Artifacts -> CatalogRow]
  /\ objects \subseteq Artifacts
  /\ uploads \in [Uploaders -> UploadState]
  /\ workers \in [Workers -> WorkerState]
  /\ \A u \in Uploaders : uploads[u].pc # "idle" => uploads[u].artifact \in Artifacts
  /\ \A w \in Workers : workers[w].pc \notin {"idle", "next"} => workers[w].artifact \in Artifacts

Gone(a) == catalog[a].state \in {"tombstoned", "purged"}

\* The two systems: an object is in the store for as long as a row may be, or
\* may yet become, available.  Whoever is about to activate a row has seen its
\* object; whoever is about to delete an object has seen its tombstone, and a
\* tombstone is for good.
InStep ==
  /\ \A a \in Artifacts : catalog[a].state = "available" => a \in objects
  /\ \A u \in Uploaders : uploads[u].pc = "activate" =>
       Gone(uploads[u].artifact) \/ uploads[u].artifact \in objects
  /\ \A w \in Workers :
       /\ workers[w].pc = "activate" =>
            Gone(workers[w].artifact) \/ workers[w].artifact \in objects
       /\ workers[w].pc \in {"delete", "record"} => Gone(workers[w].artifact)

\* The rows: their shape, what a tombstone says of the past, and the fixture
\* that owns them.  A revoked fixture keeps its content, so that its name
\* cannot be published again.
RowInOrder(a) ==
  /\ CatalogShape(catalog[a])
  /\ catalog[a].tombstone = "abandoned" => ~catalog[a].received
  /\ catalog[a].owner # None =>
       IF catalog[a].owner \in revoked
       THEN catalog[a].tombstone = "fixture_revocation"
       ELSE catalog[a].state = "available"

RowsInOrder ==
  /\ \A a \in Artifacts : RowInOrder(a)
  /\ revoked \subseteq Fixtures
  /\ \A f \in revoked : Owned(f) # {}

Inv == Typed /\ InStep /\ RowsInOrder

-----------------------------------------------------------------------------
(* What a transaction does to a row, field by field.                       *)

Kept(a) == catalog'[a] = catalog[a]

Reserving(a) ==
  /\ catalog[a].state = "absent" /\ catalog'[a].state = "reserved"
  /\ catalog'[a].received = catalog[a].received /\ catalog'[a].tombstone = catalog[a].tombstone
  /\ catalog'[a].purge = catalog[a].purge /\ catalog'[a].owner = catalog[a].owner

Activating(a) ==
  /\ catalog[a].state = "reserved" /\ catalog'[a].state = "available"
  /\ catalog'[a].received = TRUE /\ catalog'[a].tombstone = catalog[a].tombstone
  /\ catalog'[a].purge = catalog[a].purge /\ catalog'[a].owner = catalog[a].owner

Tombstoning(a, trigger) ==
  /\ catalog'[a].state = "tombstoned" /\ catalog'[a].tombstone = trigger
  /\ catalog'[a].received = catalog[a].received
  /\ catalog'[a].purge = catalog[a].purge /\ catalog'[a].owner = catalog[a].owner

Purging(a) ==
  /\ catalog[a].state = "tombstoned" /\ catalog'[a].state = "purged"
  /\ catalog'[a].purge \in {"present", "missing"}
  /\ catalog'[a].received = catalog[a].received
  /\ catalog'[a].tombstone = catalog[a].tombstone /\ catalog'[a].owner = catalog[a].owner

Binding(a, f) ==
  /\ catalog'[a].state = catalog[a].state /\ catalog'[a].received = catalog[a].received
  /\ catalog'[a].tombstone = catalog[a].tombstone /\ catalog'[a].purge = catalog[a].purge
  /\ catalog'[a].owner = f

RowsTyped == catalog \in [Artifacts -> CatalogRow]

\* Reserve of the catalog repository moves one absent row.
LEMMA ReserveRows ==
  ASSUME RowsTyped, NEW b \in Artifacts, NEW retention \in {"retain", "expire"},
         Reserve(b, retention)
  PROVE  /\ RowsTyped' /\ Reserving(b)
         /\ \A a \in Artifacts \ {b} : Kept(a)
BY DEF RowsTyped, Reserve, CatalogRow, Reserving, Kept

\* Activate moves one reserved row, or nothing.
LEMMA ActivateRows ==
  ASSUME RowsTyped, NEW b \in Artifacts, Activate(b)
  PROVE  /\ RowsTyped' /\ (Activating(b) \/ (Kept(b) /\ catalog[b].state # "reserved"))
         /\ \A a \in Artifacts \ {b} : Kept(a)
<1>1. CASE catalog[b].state = "reserved"
  BY <1>1 DEF RowsTyped, Activate, CatalogRow, Activating, Kept
<1>2. CASE catalog[b].state # "reserved"
  BY <1>2 DEF RowsTyped, Activate, Kept
<1> QED BY <1>1, <1>2

\* A tombstone goes on the rows it is for and on no other.
LEMMA TombstonedRows ==
  ASSUME RowsTyped, NEW rows \in SUBSET Artifacts, NEW trigger \in Triggers,
         catalog' = Tombstoned(rows, trigger)
  PROVE  /\ RowsTyped'
         /\ \A a \in rows : Tombstoning(a, trigger)
         /\ \A a \in Artifacts \ rows : Kept(a)
BY DEF RowsTyped, Tombstoned, CatalogRow, Tombstoning, Kept

\* A purge receipt moves one tombstoned row, or nothing.
LEMMA RecordPurgeRows ==
  ASSUME RowsTyped, NEW b \in Artifacts, NEW present \in BOOLEAN, RecordPurge(b, present)
  PROVE  /\ RowsTyped' /\ (Purging(b) \/ Kept(b))
         /\ \A a \in Artifacts \ {b} : Kept(a)
<1>1. PICK p \in {"present", "missing"} :
        catalog' = IF catalog[b].state = "tombstoned"
                   THEN [catalog EXCEPT ![b].state = "purged", ![b].purge = p]
                   ELSE catalog
  <2>1. CASE present
    BY <2>1 DEF RecordPurge
  <2>2. CASE ~present
    BY <2>2 DEF RecordPurge
  <2> QED BY <2>1, <2>2
<1> QED BY <1>1 DEF RowsTyped, CatalogRow, Purging, Kept

\* Publication binds the rows of its content and no other.
LEMMA PublishRows ==
  ASSUME RowsTyped, NEW f \in Fixtures, NEW content \in SUBSET Artifacts,
         PublishRecordedFixture(f, content)
  PROVE  /\ RowsTyped'
         /\ \A a \in content : Binding(a, f)
         /\ \A a \in Artifacts \ content : Kept(a)
BY DEF RowsTyped, PublishRecordedFixture, CatalogRow, Binding, Kept

\* A worker's record keeps its type as it goes on, and a worker between two
\* artifacts is at none of the steps that need one.
LEMMA WorkerStates ==
  ASSUME workers \in [Workers -> WorkerState], NEW w \in Workers, NEW a \in Artifacts
  PROVE  /\ NotWorking \in WorkerState /\ NotWorking.pc = "idle"
         /\ Proceed(w, a) \in WorkerState /\ Proceed(w, a).pc \in {"idle", "next"}
         /\ \A pc \in {"find", "delete", "record", "activate"} :
              /\ At(w, a, pc) \in WorkerState
              /\ At(w, a, pc).pc = pc /\ At(w, a, pc).artifact = a
BY DEF NotWorking, Proceed, At, WorkerState

-----------------------------------------------------------------------------
(* The catalog's transactions keep the rows in order.                      *)

\* A row that keeps its owner, and a revoked set that stays, leave the content
\* of every revoked fixture where it was.
LEMMA OwnersKept ==
  ASSUME RowsInOrder, UNCHANGED revoked,
         \A a \in Artifacts : catalog'[a].owner = catalog[a].owner
  PROVE  \A f \in revoked' : Owned(f)' # {}
BY DEF RowsInOrder, Owned

\* Reserve keeps the rows in order.
LEMMA ReserveInOrder ==
  ASSUME RowsTyped, RowsInOrder, NEW b \in Artifacts, NEW retention \in {"retain", "expire"},
         Reserve(b, retention), UNCHANGED revoked
  PROVE  RowsInOrder'
<1>1. \A a \in Artifacts : catalog'[a].owner = catalog[a].owner
  BY ReserveRows DEF Reserving, Kept
<1>2. ASSUME NEW a \in Artifacts PROVE RowInOrder(a)'
  <2>1. RowInOrder(a)
    BY DEF RowsInOrder
  <2>2. Kept(a) \/ Reserving(a)
    BY ReserveRows
  <2> QED BY <2>1, <2>2 DEF RowInOrder, CatalogShape, Kept, Reserving
<1> QED BY <1>1, <1>2, OwnersKept DEF RowsInOrder

\* Activation keeps the rows in order: only a row that was never received,
\* and that no fixture owns, is activated.
LEMMA ActivateInOrder ==
  ASSUME RowsTyped, RowsInOrder, NEW b \in Artifacts, Activate(b), UNCHANGED revoked
  PROVE  RowsInOrder'
<1>1. \A a \in Artifacts : catalog'[a].owner = catalog[a].owner
  BY ActivateRows DEF Activating, Kept
<1>2. ASSUME NEW a \in Artifacts PROVE RowInOrder(a)'
  <2>1. RowInOrder(a)
    BY DEF RowsInOrder
  <2>2. Kept(a) \/ Activating(a)
    BY ActivateRows
  <2> QED BY <2>1, <2>2, CatalogAssumption
      DEF RowInOrder, CatalogShape, Kept, Activating, Triggers
<1> QED BY <1>1, <1>2, OwnersKept DEF RowsInOrder

\* A purge receipt keeps the rows in order.
LEMMA RecordPurgeInOrder ==
  ASSUME RowsTyped, RowsInOrder, NEW b \in Artifacts, NEW present \in BOOLEAN,
         RecordPurge(b, present), UNCHANGED revoked
  PROVE  RowsInOrder'
<1>1. \A a \in Artifacts : catalog'[a].owner = catalog[a].owner
  BY RecordPurgeRows DEF Purging, Kept
<1>2. ASSUME NEW a \in Artifacts PROVE RowInOrder(a)'
  <2>1. RowInOrder(a)
    BY DEF RowsInOrder
  <2>2. Kept(a) \/ Purging(a)
    BY RecordPurgeRows
  <2> QED BY <2>1, <2>2, CatalogAssumption DEF RowInOrder, CatalogShape, Kept, Purging
<1> QED BY <1>1, <1>2, OwnersKept DEF RowsInOrder

\* A manual, retention or cleanup tombstone keeps the rows in order: the
\* deferred guard refuses it for a row that a fixture owns.
LEMMA TombstoneInOrder ==
  ASSUME RowsTyped, RowsInOrder, NEW b \in Artifacts,
         NEW trigger \in Triggers \ {"fixture_revocation"}, MayTombstone(b, trigger),
         catalog' = Tombstoned({b}, trigger), UNCHANGED revoked
  PROVE  RowsInOrder'
<1>1. /\ Tombstoning(b, trigger)
      /\ \A a \in Artifacts \ {b} : Kept(a)
  BY TombstonedRows
<1>2. \A a \in Artifacts : catalog'[a].owner = catalog[a].owner
  BY <1>1 DEF Tombstoning, Kept
<1>3. ASSUME NEW a \in Artifacts PROVE RowInOrder(a)'
  <2>1. RowInOrder(a)
    BY DEF RowsInOrder
  <2>2. CASE Kept(a)
    BY <2>1, <2>2 DEF RowInOrder, CatalogShape, Kept
  <2>3. CASE a = b
    BY <1>1, <2>1, <2>3, CatalogAssumption
      DEF RowInOrder, CatalogShape, Tombstoning, MayTombstone
  <2> QED BY <1>1, <2>2, <2>3
<1> QED BY <1>2, <1>3, OwnersKept DEF RowsInOrder

\* Publication keeps the rows in order: a fixture that was revoked still owns
\* its content, so it is not published a second time.
LEMMA PublishInOrder ==
  ASSUME RowsTyped, RowsInOrder, NEW f \in Fixtures, NEW content \in SUBSET Artifacts,
         PublishRecordedFixture(f, content)
  PROVE  RowsInOrder'
<1>1. f \notin revoked /\ revoked' = revoked
  BY DEF PublishRecordedFixture, RowsInOrder
<1>2. ASSUME NEW g \in revoked' PROVE Owned(g)' # {}
  <2>1. PICK a \in Artifacts : catalog[a].owner = g
    BY <1>1, <1>2 DEF RowsInOrder, Owned
  <2>2. RowInOrder(a) /\ g # None
    BY <1>1, CatalogAssumption DEF RowsInOrder
  <2>3. a \notin content
    BY <2>1, <2>2, <1>1 DEF PublishRecordedFixture
  <2> QED BY <2>1, <2>3, PublishRows DEF Kept, Owned
<1>3. ASSUME NEW a \in Artifacts PROVE RowInOrder(a)'
  <2>1. RowInOrder(a)
    BY DEF RowsInOrder
  <2>2. CASE Kept(a)
    BY <1>1, <2>1, <2>2 DEF RowInOrder, CatalogShape, Kept
  <2>3. CASE a \in content
    <3>1. Binding(a, f) /\ catalog[a].state = "available"
      BY <2>3, PublishRows DEF PublishRecordedFixture
    <3> QED BY <1>1, <2>1, <3>1 DEF RowInOrder, CatalogShape, Binding
  <2> QED BY <2>2, <2>3, PublishRows
<1> QED BY <1>1, <1>2, <1>3 DEF RowsInOrder

\* Revocation keeps the rows in order: it takes the whole content at once.
LEMMA RevokeInOrder ==
  ASSUME RowsTyped, RowsInOrder, NEW f \in Fixtures, RevokeFixtureContent(f)
  PROVE  RowsInOrder'
<1>1. /\ \A a \in Owned(f) : Tombstoning(a, "fixture_revocation")
      /\ \A a \in Artifacts \ Owned(f) : Kept(a)
      /\ Owned(f) \in SUBSET Artifacts
  <2>1. Owned(f) \in SUBSET Artifacts /\ "fixture_revocation" \in Triggers
    BY DEF Owned, Triggers
  <2> QED BY <2>1, TombstonedRows DEF RevokeFixtureContent
<1>2. \A a \in Artifacts : catalog'[a].owner = catalog[a].owner
  BY <1>1 DEF Tombstoning, Kept
<1>3. ASSUME NEW g \in revoked' PROVE Owned(g)' # {}
  BY <1>2 DEF RevokeFixtureContent, RowsInOrder, Owned
<1>4. ASSUME NEW a \in Artifacts PROVE RowInOrder(a)'
  <2>1. RowInOrder(a)
    BY DEF RowsInOrder
  <2>2. CASE a \in Owned(f)
    <3>1. catalog[a].state = "available" /\ catalog[a].owner = f /\ revoked' = revoked \cup {f}
      BY <2>2 DEF RevokeFixtureContent, Owned
    <3> QED BY <1>1, <2>1, <2>2, <3>1, CatalogAssumption
        DEF RowInOrder, CatalogShape, Tombstoning, Triggers
  <2>3. CASE a \notin Owned(f)
    <3>1. Kept(a) /\ catalog[a].owner # f /\ revoked' = revoked \cup {f}
      BY <1>1, <2>3 DEF RevokeFixtureContent, Owned
    <3> QED BY <2>1, <3>1 DEF RowInOrder, CatalogShape, Kept
  <2> QED BY <2>2, <2>3
<1> QED BY <1>3, <1>4 DEF RowsInOrder, RevokeFixtureContent

-----------------------------------------------------------------------------
(* The two systems stay in step.                                           *)

\* A tombstone is for good, whatever the catalog does next.
ForGood == \A a \in Artifacts : Gone(a) => Gone(a)'

\* A step that revokes no tombstone, makes a row available only with its
\* object, deletes an object only under a tombstone, and moves uploads and
\* workers on only with what they have seen, keeps the systems in step.
LEMMA StaysInStep ==
  ASSUME Typed, InStep, ForGood,
         \A a \in Artifacts : catalog'[a].state = "available" => a \in objects',
         \A a \in objects : a \in objects' \/ Gone(a)',
         \A u \in Uploaders :
           \/ uploads'[u] = uploads[u]
           \/ uploads'[u].pc # "activate"
           \/ uploads'[u].artifact \in objects',
         \A w \in Workers :
           \/ workers'[w] = workers[w]
           \/ workers'[w].pc \notin {"activate", "delete", "record"}
           \/ workers'[w].pc = "activate" /\ workers'[w].artifact \in objects'
           \/ workers'[w].pc \in {"delete", "record"} /\ Gone(workers[w].artifact)'
  PROVE  InStep'
<1>1. ASSUME NEW u \in Uploaders, uploads'[u].pc = "activate"
      PROVE  Gone(uploads[u].artifact)' \/ uploads'[u].artifact \in objects'
  <2>1. CASE uploads'[u] = uploads[u]
    <3>1. uploads[u].artifact \in Artifacts
      BY <1>1, <2>1 DEF Typed
    <3> QED BY <1>1, <2>1, <3>1 DEF InStep, ForGood, Gone
  <2> QED BY <1>1, <2>1
<1>2. ASSUME NEW w \in Workers, workers'[w].pc \in {"activate", "delete", "record"}
      PROVE  /\ workers'[w].pc = "activate" =>
                  Gone(workers[w].artifact)' \/ workers'[w].artifact \in objects'
             /\ workers'[w].pc \in {"delete", "record"} => Gone(workers[w].artifact)'
  <2>1. CASE workers'[w] = workers[w]
    <3>1. workers[w].artifact \in Artifacts
      BY <1>2, <2>1 DEF Typed
    <3> QED BY <1>2, <2>1, <3>1 DEF InStep, ForGood, Gone
  <2> QED BY <1>2, <2>1
<1> QED BY <1>1, <1>2 DEF InStep

\* The catalog's transactions leave a tombstone where it is, and make no row
\* available but an activated one.
LEMMA CatalogForGood ==
  ASSUME RowsTyped,
         \/ \E a \in Artifacts, retention \in {"retain", "expire"} : Reserve(a, retention)
         \/ \E rows \in SUBSET Artifacts, trigger \in Triggers : catalog' = Tombstoned(rows, trigger)
         \/ \E a \in Artifacts, present \in BOOLEAN : RecordPurge(a, present)
         \/ \E f \in Fixtures, content \in SUBSET Artifacts : PublishRecordedFixture(f, content)
         \/ UNCHANGED catalog
  PROVE  /\ RowsTyped' /\ ForGood
         /\ \A a \in Artifacts : catalog'[a].state = "available" => catalog[a].state = "available"
<1>1. ASSUME NEW b \in Artifacts, NEW retention \in {"retain", "expire"}, Reserve(b, retention)
      PROVE  /\ RowsTyped' /\ ForGood
             /\ \A a \in Artifacts : catalog'[a].state = "available" => catalog[a].state = "available"
  BY <1>1, ReserveRows DEF ForGood, Gone, Kept, Reserving
<1>2. ASSUME NEW rows \in SUBSET Artifacts, NEW trigger \in Triggers,
             catalog' = Tombstoned(rows, trigger)
      PROVE  /\ RowsTyped' /\ ForGood
             /\ \A a \in Artifacts : catalog'[a].state = "available" => catalog[a].state = "available"
  BY <1>2, TombstonedRows DEF ForGood, Gone, Kept, Tombstoning
<1>3. ASSUME NEW b \in Artifacts, NEW present \in BOOLEAN, RecordPurge(b, present)
      PROVE  /\ RowsTyped' /\ ForGood
             /\ \A a \in Artifacts : catalog'[a].state = "available" => catalog[a].state = "available"
  BY <1>3, RecordPurgeRows DEF ForGood, Gone, Kept, Purging
<1>4. ASSUME NEW f \in Fixtures, NEW content \in SUBSET Artifacts, PublishRecordedFixture(f, content)
      PROVE  /\ RowsTyped' /\ ForGood
             /\ \A a \in Artifacts : catalog'[a].state = "available" => catalog[a].state = "available"
  BY <1>4, PublishRows DEF ForGood, Gone, Kept, Binding
<1>5. CASE UNCHANGED catalog
  BY <1>5 DEF RowsTyped, ForGood, Gone
<1> QED BY <1>1, <1>2, <1>3, <1>4, <1>5

\* An activation whose object has been seen, or whose row is already gone,
\* makes no row available without its object.
LEMMA ActivateForGood ==
  ASSUME RowsTyped, InStep, NEW b \in Artifacts, Activate(b), Gone(b) \/ b \in objects,
         UNCHANGED objects
  PROVE  /\ RowsTyped' /\ ForGood
         /\ \A a \in Artifacts : catalog'[a].state = "available" => a \in objects'
<1>1. RowsTyped' /\ ForGood
  BY ActivateRows DEF ForGood, Gone, Kept, Activating
<1>2. ASSUME NEW a \in Artifacts, catalog'[a].state = "available" PROVE a \in objects'
  <2>1. CASE a = b /\ Activating(b)
    BY <2>1 DEF Activating, Gone
  <2>2. CASE Kept(a)
    BY <1>2, <2>2 DEF Kept, InStep
  <2> QED BY <2>1, <2>2, ActivateRows
<1> QED BY <1>1, <1>2

-----------------------------------------------------------------------------
(* Every action keeps the invariant.                                       *)

\* Nothing has been reserved yet.
LEMMA InitInv == LifecycleInit => Inv
<1> SUFFICES ASSUME LifecycleInit PROVE Inv
  OBVIOUS
<1> USE DEF LifecycleInit, CatalogInit, NotUploading, NotWorking
<1>1. Typed
  BY DEF Typed, CatalogRow, UploadState, WorkerState
<1>2. InStep
  BY DEF InStep
<1>3. RowsInOrder
  BY DEF RowsInOrder, RowInOrder, CatalogShape
<1> QED BY <1>1, <1>2, <1>3 DEF Inv

\* The requests that are one transaction of the catalog.
LEMMA RequestStep ==
  ASSUME Inv,
         \/ \E a \in Artifacts, retention \in {"retain", "expire"} : ReserveArtifact(a, retention)
         \/ \E a \in Artifacts : TombstoneArtifact(a)
         \/ \E f \in Fixtures, content \in SUBSET Artifacts : PublishContent(f, content)
         \/ \E f \in Fixtures : RevokeContent(f)
  PROVE  Inv'
<1>1. RowsTyped
  BY DEF Inv, Typed, RowsTyped
<1>2. UNCHANGED <<objects, uploads, workers>>
  BY DEF ReserveArtifact, TombstoneArtifact, PublishContent, RevokeContent
<1>3. /\ RowsTyped' /\ ForGood
      /\ \A a \in Artifacts : catalog'[a].state = "available" => catalog[a].state = "available"
  <2>1. \/ \E a \in Artifacts, retention \in {"retain", "expire"} : Reserve(a, retention)
        \/ \E rows \in SUBSET Artifacts, trigger \in Triggers : catalog' = Tombstoned(rows, trigger)
        \/ \E f \in Fixtures, content \in SUBSET Artifacts : PublishRecordedFixture(f, content)
    <3>1. ASSUME NEW a \in Artifacts, TombstoneArtifact(a)
          PROVE  \E rows \in SUBSET Artifacts, trigger \in Triggers : catalog' = Tombstoned(rows, trigger)
      <4>1. {a} \in SUBSET Artifacts /\ "manual" \in Triggers
        BY DEF Triggers
      <4> QED BY <3>1, <4>1 DEF TombstoneArtifact
    <3>2. ASSUME NEW f \in Fixtures, RevokeContent(f)
          PROVE  \E rows \in SUBSET Artifacts, trigger \in Triggers : catalog' = Tombstoned(rows, trigger)
      <4>1. Owned(f) \in SUBSET Artifacts /\ "fixture_revocation" \in Triggers
        BY DEF Owned, Triggers
      <4> QED BY <3>2, <4>1 DEF RevokeContent, RevokeFixtureContent
    <3> QED BY <3>1, <3>2 DEF ReserveArtifact, PublishContent
  <2> QED BY <1>1, <2>1, CatalogForGood
<1>4. Typed'
  BY <1>2, <1>3 DEF Inv, Typed, RowsTyped
<1>5. InStep'
  BY <1>2, <1>3, StaysInStep DEF Inv, InStep
<1>6. RowsInOrder'
  <2>1. ASSUME NEW a \in Artifacts, NEW retention \in {"retain", "expire"},
               ReserveArtifact(a, retention)
        PROVE  RowsInOrder'
    BY <1>1, <2>1, ReserveInOrder DEF Inv, ReserveArtifact
  <2>2. ASSUME NEW a \in Artifacts, TombstoneArtifact(a) PROVE RowsInOrder'
    <3>1. "manual" \in Triggers \ {"fixture_revocation"}
      BY DEF Triggers
    <3> QED BY <1>1, <2>2, <3>1, TombstoneInOrder DEF Inv, TombstoneArtifact
  <2>3. ASSUME NEW f \in Fixtures, NEW content \in SUBSET Artifacts, PublishContent(f, content)
        PROVE  RowsInOrder'
    BY <1>1, <2>3, PublishInOrder DEF Inv, PublishContent
  <2>4. ASSUME NEW f \in Fixtures, RevokeContent(f) PROVE RowsInOrder'
    BY <1>1, <2>4, RevokeInOrder DEF Inv, RevokeContent
  <2> QED BY <2>1, <2>2, <2>3, <2>4
<1> QED BY <1>4, <1>5, <1>6 DEF Inv

\* An upload: the object is put before the row is activated.
LEMMA UploadStep ==
  ASSUME Inv, NEW u \in Uploaders,
         \/ \E a \in Artifacts : UploadBegins(u, a)
         \/ UploadPuts(u) \/ UploadActivates(u) \/ UploadFails(u)
  PROVE  Inv'
<1> USE DEF Inv
<1>1. RowsTyped
  BY DEF Typed, RowsTyped
<1>2. uploads \in [Uploaders -> UploadState] /\ UNCHANGED <<workers, revoked>>
  BY DEF Typed, UploadBegins, UploadPuts, UploadActivates, UploadFails, catalogVars
<1>3. ASSUME UNCHANGED catalogVars, objects \subseteq objects', objects' \subseteq Artifacts,
             uploads' \in [Uploaders -> UploadState],
             \A v \in Uploaders \ {u} : uploads'[v] = uploads[v],
             uploads'[u].pc # "idle" => uploads'[u].artifact \in Artifacts,
             uploads'[u].pc = "activate" => uploads'[u].artifact \in objects'
      PROVE  Inv'
  <2>1. Typed'
    BY <1>2, <1>3 DEF Typed, catalogVars
  <2>2. InStep'
    BY <1>2, <1>3, StaysInStep DEF InStep, ForGood, Gone, catalogVars
  <2>3. RowsInOrder'
    BY <1>3 DEF RowsInOrder, RowInOrder, Owned, catalogVars
  <2> QED BY <2>1, <2>2, <2>3
<1>4. ASSUME NEW a \in Artifacts, UploadBegins(u, a) PROVE Inv'
  BY <1>2, <1>3, <1>4 DEF UploadBegins, UploadState, Typed, catalogVars
<1>5. CASE UploadPuts(u)
  <2>1. uploads[u].artifact \in Artifacts
    BY <1>5 DEF UploadPuts, Typed
  <2> QED BY <1>2, <1>3, <1>5, <2>1 DEF UploadPuts, UploadState, Typed, catalogVars
<1>6. CASE UploadFails(u)
  <2>1. uploads[u].artifact \in Artifacts
    BY <1>6 DEF UploadFails, Typed
  <2> QED BY <1>2, <1>3, <1>6, <2>1 DEF UploadFails, UploadState, NotUploading, Typed, catalogVars
<1>7. CASE UploadActivates(u)
  <2> DEFINE a == uploads[u].artifact
  <2>1. a \in Artifacts /\ Activate(a) /\ (Gone(a) \/ a \in objects)
    BY <1>7 DEF UploadActivates, Typed, InStep
  <2>2. /\ uploads' = [uploads EXCEPT ![u] = NotUploading] /\ UNCHANGED objects
    BY <1>7 DEF UploadActivates
  <2>3. /\ RowsTyped' /\ ForGood
        /\ \A b \in Artifacts : catalog'[b].state = "available" => b \in objects'
    BY <1>1, <2>1, <2>2, ActivateForGood
  <2>4. Typed'
    BY <1>2, <2>2, <2>3 DEF Typed, RowsTyped, NotUploading, UploadState
  <2>5. InStep'
    BY <1>2, <2>2, <2>3, StaysInStep DEF NotUploading
  <2>6. RowsInOrder'
    BY <1>1, <1>2, <2>1, ActivateInOrder
  <2> QED BY <2>4, <2>5, <2>6
<1> QED BY <1>4, <1>5, <1>6, <1>7

\* A maintenance worker: it deletes an object only after it has read the
\* tombstone, and activates a row only after it has read the object.
LEMMA MaintenanceStep ==
  ASSUME Inv, NEW w \in Workers,
         \/ \E command \in Commands : Start(w, command)
         \/ WorkerStep(w) \/ WorkerFails(w)
  PROVE  Inv'
<1> USE DEF Inv
<1>1. RowsTyped /\ workers \in [Workers -> WorkerState]
  BY DEF Typed, RowsTyped
<1>2. UNCHANGED <<uploads, revoked>>
  BY DEF Start, WorkerStep, TakeNext, PurgeFinds, PurgeDeletes, PurgeRecords,
     ReconcileActivates, WorkerFails, catalogVars
<1>3. ASSUME RowsTyped', ForGood, objects' \subseteq Artifacts,
             \A a \in Artifacts : catalog'[a].state = "available" => a \in objects',
             \A a \in objects : a \in objects' \/ Gone(a)',
             RowsInOrder',
             NEW state \in WorkerState, workers' = [workers EXCEPT ![w] = state],
             state.pc \notin {"idle", "next"} => state.artifact \in Artifacts,
             \/ state.pc \notin {"activate", "delete", "record"}
             \/ state.pc = "activate" /\ state.artifact \in objects'
             \/ state.pc \in {"delete", "record"} /\ catalog'[state.artifact].state \in {"tombstoned", "purged"}
      PROVE  Inv'
  <2>1. /\ workers' \in [Workers -> WorkerState] /\ workers'[w] = state
        /\ \A v \in Workers \ {w} : workers'[v] = workers[v]
    BY <1>1, <1>3
  <2>2. Typed'
    BY <1>2, <1>3, <2>1 DEF Typed, RowsTyped
  <2>3. InStep'
    BY <1>2, <1>3, <2>1, StaysInStep DEF Gone
  <2> QED BY <1>3, <2>2, <2>3
<1>4. ASSUME UNCHANGED <<catalog, objects>>
      PROVE  /\ RowsTyped' /\ ForGood /\ objects' \subseteq Artifacts
             /\ \A a \in Artifacts : catalog'[a].state = "available" => a \in objects'
             /\ \A a \in objects : a \in objects'
             /\ RowsInOrder'
  BY <1>1, <1>2, <1>4 DEF RowsTyped, ForGood, Gone, Typed, InStep, RowsInOrder, RowInOrder, Owned
<1>5. ASSUME NEW command \in Commands, Start(w, command) PROVE Inv'
  <2>1. PICK batch \in Listed(command) :
          workers' = [workers EXCEPT ![w] = [NotWorking EXCEPT !.pc = "next", !.command = command,
                                                               !.queue = batch]]
    BY <1>5 DEF Start
  <2>2. batch \in SUBSET Artifacts
    BY <2>1 DEF Commands, Listed, Batches, Expired, Abandoned, PendingPurge
  <2> DEFINE state == [NotWorking EXCEPT !.pc = "next", !.command = command, !.queue = batch]
  <2>3. state \in WorkerState /\ state.pc = "next"
    BY <2>2 DEF NotWorking, WorkerState
  <2>4. UNCHANGED <<catalog, objects>>
    BY <1>5 DEF Start, catalogVars
  <2> HIDE DEF state
  <2> QED BY <1>3, <1>4, <2>1, <2>3, <2>4 DEF state
<1>6. ASSUME NEW a \in Artifacts, TakeNext(w, a) PROVE Inv'
  <2> DEFINE trigger == TriggerOf(workers[w].command)
  <2>1. trigger \in Triggers \ {"fixture_revocation"}
    BY DEF TriggerOf, Triggers
  <2>2. UNCHANGED objects
    BY <1>6 DEF TakeNext
  <2>3. /\ RowsTyped' /\ ForGood /\ objects' \subseteq Artifacts
        /\ \A b \in Artifacts : catalog'[b].state = "available" => b \in objects'
        /\ \A b \in objects : b \in objects'
        /\ RowsInOrder'
    <3>1. CASE catalog' = catalog
      BY <1>4, <2>2, <3>1
    <3>2. CASE MayTombstone(a, trigger) /\ catalog' = Tombstoned({a}, trigger)
      <4>1. {a} \in SUBSET Artifacts /\ trigger \in Triggers
        BY <2>1
      <4> HIDE DEF trigger
      <4>2. /\ RowsTyped' /\ ForGood
            /\ \A b \in Artifacts : catalog'[b].state = "available" => catalog[b].state = "available"
        BY <1>1, <3>2, <4>1, CatalogForGood
      <4>3. RowsInOrder'
        BY <1>1, <1>2, <2>1, <3>2, TombstoneInOrder
      <4> QED BY <2>2, <4>2, <4>3 DEF InStep, Typed
    <3> QED BY <1>6, <3>1, <3>2 DEF TakeNext
  <2>4. PICK state \in {At(w, a, "find"), At(w, a, "activate"), Proceed(w, a)} :
          /\ workers' = [workers EXCEPT ![w] = state]
          /\ state = At(w, a, "activate") => a \in objects
    BY <1>6, WorkerStates, <1>1 DEF TakeNext
  <2>5. /\ state \in WorkerState
        /\ state.pc \notin {"idle", "next"} => state.artifact \in Artifacts
        /\ \/ state.pc \notin {"activate", "delete", "record"}
           \/ state.pc = "activate" /\ state.artifact \in objects
    BY <1>1, <2>4, WorkerStates
  <2> QED BY <1>3, <2>2, <2>3, <2>4, <2>5
<1>7. CASE PurgeFinds(w)
  <2> DEFINE a == workers[w].artifact
  <2>1. a \in Artifacts /\ UNCHANGED <<catalog, objects>>
    BY <1>7 DEF PurgeFinds, Typed, catalogVars
  <2>2. CASE catalog[a].state = "tombstoned"
    <3>1. PICK state : /\ state = [workers[w] EXCEPT !.pc = "delete"]
                       /\ workers' = [workers EXCEPT ![w] = state]
      BY <1>7, <2>2 DEF PurgeFinds
    <3>2. state \in WorkerState /\ state.pc = "delete" /\ state.artifact = a
      BY <1>1, <3>1 DEF WorkerState
    <3> QED BY <1>3, <1>4, <2>1, <2>2, <3>1, <3>2
  <2>3. CASE catalog[a].state # "tombstoned"
    <3>1. workers' = [workers EXCEPT ![w] = Proceed(w, a)]
      BY <1>7, <2>3 DEF PurgeFinds
    <3> QED BY <1>1, <1>3, <1>4, <2>1, <3>1, WorkerStates
  <2> QED BY <2>2, <2>3
<1>8. CASE PurgeDeletes(w)
  <2> DEFINE a == workers[w].artifact
  <2>1. a \in Artifacts /\ Gone(a) /\ UNCHANGED <<catalog, revoked>> /\ objects' = objects \ {a}
    BY <1>8 DEF PurgeDeletes, Typed, InStep, catalogVars
  <2> PICK deleted \in BOOLEAN : deleted = (a \in objects)
    <3>1. CASE a \in objects
      <4>1. TRUE = (a \in objects)
        BY <3>1
      <4> QED BY <4>1, Zenon
    <3>2. CASE a \notin objects
      <4>1. FALSE = (a \in objects)
        BY <3>2
      <4> QED BY <4>1, Zenon
    <3> QED BY <3>1, <3>2, Zenon
  <2> DEFINE state == [workers[w] EXCEPT !.pc = "record", !.deleted = deleted]
  <2>2. workers' = [workers EXCEPT ![w] = state]
    BY <1>8 DEF PurgeDeletes
  <2>3. state \in WorkerState /\ state.pc = "record" /\ state.artifact = a
    BY <1>1 DEF WorkerState
  <2>4. /\ RowsTyped' /\ ForGood /\ RowsInOrder'
    BY <1>1, <2>1 DEF RowsTyped, ForGood, Gone, RowsInOrder, RowInOrder, Owned
  <2>5. /\ objects' \subseteq Artifacts
        /\ \A b \in Artifacts : catalog'[b].state = "available" => b \in objects'
        /\ \A b \in objects : b \in objects' \/ Gone(b)'
    BY <2>1 DEF Typed, InStep, Gone
  <2> HIDE DEF state
  <2> QED BY <1>3, <2>1, <2>2, <2>3, <2>4, <2>5 DEF Gone
<1>9. CASE PurgeRecords(w)
  <2> DEFINE a == workers[w].artifact
  <2>1. /\ a \in Artifacts /\ workers[w].deleted \in BOOLEAN
        /\ RecordPurge(a, workers[w].deleted) /\ UNCHANGED objects
        /\ workers' = [workers EXCEPT ![w] = Proceed(w, a)]
    BY <1>1, <1>9 DEF PurgeRecords, Typed, WorkerState
  <2>2. /\ RowsTyped' /\ ForGood
        /\ \A b \in Artifacts : catalog'[b].state = "available" => catalog[b].state = "available"
    BY <1>1, <2>1, CatalogForGood
  <2>3. RowsInOrder'
    BY <1>1, <1>2, <2>1, RecordPurgeInOrder
  <2> QED BY <1>1, <1>3, <2>1, <2>2, <2>3, WorkerStates DEF InStep, Typed
<1>10. CASE ReconcileActivates(w)
  <2> DEFINE a == workers[w].artifact
  <2>1. /\ a \in Artifacts /\ Activate(a) /\ (Gone(a) \/ a \in objects) /\ UNCHANGED objects
        /\ workers' = [workers EXCEPT ![w] = Proceed(w, a)]
    BY <1>10 DEF ReconcileActivates, Typed, InStep
  <2>2. /\ RowsTyped' /\ ForGood
        /\ \A b \in Artifacts : catalog'[b].state = "available" => b \in objects'
    BY <1>1, <2>1, ActivateForGood
  <2>3. RowsInOrder'
    BY <1>1, <1>2, <2>1, ActivateInOrder
  <2> QED BY <1>1, <1>3, <2>1, <2>2, <2>3, WorkerStates DEF Typed
<1>11. CASE WorkerFails(w)
  <2>1. PICK state \in WorkerState :
          state.pc \in {"idle", "next"} /\ workers' = [workers EXCEPT ![w] = state]
    <3>1. CASE workers' = [workers EXCEPT ![w] = NotWorking]
      <4>1. NotWorking \in WorkerState /\ NotWorking.pc = "idle"
        BY DEF NotWorking, WorkerState
      <4> QED BY <3>1, <4>1
    <3>2. CASE workers[w].artifact # None /\ workers' = [workers EXCEPT ![w] = Proceed(w, workers[w].artifact)]
      <4>1. workers[w].artifact \in Artifacts
        BY <1>1, <3>2 DEF WorkerState
      <4> QED BY <1>1, <3>2, <4>1, WorkerStates
    <3> QED BY <1>11, <3>1, <3>2 DEF WorkerFails
  <2>2. UNCHANGED catalog
    BY <1>11 DEF WorkerFails, catalogVars
  <2>3. /\ RowsTyped' /\ ForGood /\ RowsInOrder'
    BY <1>1, <1>2, <2>2 DEF RowsTyped, ForGood, Gone, RowsInOrder, RowInOrder, Owned
  <2>4. CASE objects' = objects
    BY <1>3, <2>1, <2>2, <2>3, <2>4 DEF Typed, InStep
  <2>5. CASE workers[w].pc = "delete" /\ objects' = objects \ {workers[w].artifact}
    <3>1. workers[w].artifact \in Artifacts /\ Gone(workers[w].artifact)
      BY <2>5 DEF Typed, InStep
    <3>2. /\ objects' \subseteq Artifacts
          /\ \A b \in Artifacts : catalog'[b].state = "available" => b \in objects'
          /\ \A b \in objects : b \in objects' \/ Gone(b)'
      BY <2>2, <2>5, <3>1 DEF Typed, InStep, Gone
    <3> QED BY <1>3, <2>1, <2>3, <3>2
  <2> QED BY <1>11, <2>4, <2>5 DEF WorkerFails
<1> QED BY <1>5, <1>6, <1>7, <1>8, <1>9, <1>10, <1>11 DEF WorkerStep

-----------------------------------------------------------------------------
(* Theorems.                                                               *)

\* Every step of the system keeps the invariant.
LEMMA NextInv == Inv /\ [LifecycleNext]_vars => Inv'
<1> SUFFICES ASSUME Inv, [LifecycleNext]_vars PROVE Inv'
  OBVIOUS
<1>1. CASE UNCHANGED vars
  BY <1>1 DEF vars, catalogVars, Inv, Typed, InStep, Gone, RowsInOrder, RowInOrder, Owned
<1>2. CASE LifecycleNext
  BY <1>2, RequestStep, UploadStep, MaintenanceStep DEF LifecycleNext, UploaderStep
<1> QED BY <1>1, <1>2

\* The inductive invariant of the catalog, the store and whoever works on them.
THEOREM LifecycleInvariant == LifecycleSpec => []Inv
BY InitInv, NextInv, PTL DEF LifecycleSpec

\* Rows, uploads and workers keep the shape that the table's CHECK, its
\* triggers and the use cases of packages/artifacts give them.
THEOREM LifecycleTypes == LifecycleSpec => []LifecycleTypeOK
<1>1. Inv => LifecycleTypeOK
  BY DEF Inv, Typed, RowsInOrder, RowInOrder, LifecycleTypeOK, UploadState, WorkerState
<1> QED BY <1>1, LifecycleInvariant, PTL

\* read-artifact.ts never meets an available artifact without its object,
\* however many uploads, purges, reconciliations and failures interleave.
THEOREM AvailableArtifactsAreReadable == LifecycleSpec => []AvailableHasObject
<1>1. Inv => AvailableHasObject
  BY DEF Inv, InStep, AvailableHasObject
<1> QED BY <1>1, LifecycleInvariant, PTL

\* Cleanup lists and tombstones in two transactions, and still never abandons
\* an artifact whose upload completed in between.
THEOREM CleanupSparesUploads == LifecycleSpec => []UploadedIsNeverAbandoned
<1>1. Inv => UploadedIsNeverAbandoned
  BY DEF Inv, RowsInOrder, RowInOrder, UploadedIsNeverAbandoned
<1> QED BY <1>1, LifecycleInvariant, PTL

\* The content of a recorded fixture version is available as a whole until its
\* revocation and tombstoned as a whole by it.
THEOREM FixturesAreWhole == LifecycleSpec => []FixtureContentIsWhole
<1>1. Inv => FixtureContentIsWhole
  BY DEF Inv, RowsInOrder, RowInOrder, FixtureContentIsWhole
<1> QED BY <1>1, LifecycleInvariant, PTL

\* No step of a request, an upload or a worker brings a tombstoned or purged
\* artifact back: what a purge has read of the row still holds when it deletes.
THEOREM TombstonesAreForGood == LifecycleSpec => [][ForGood]_vars
<1>1. Inv /\ [LifecycleNext]_vars => [ForGood]_vars
  <2> SUFFICES ASSUME Inv, LifecycleNext PROVE ForGood
    OBVIOUS
  <2>1. RowsTyped /\ Typed
    BY DEF Inv, Typed, RowsTyped
  <2>2. CASE UNCHANGED catalog
    BY <2>1, <2>2, CatalogForGood
  <2>3. ASSUME NEW b \in Artifacts, Activate(b) PROVE ForGood
    BY <2>1, <2>3, ActivateRows DEF ForGood, Gone, Kept, Activating
  <2>4. ASSUME NEW a \in Artifacts, NEW trigger \in Triggers, catalog' = Tombstoned({a}, trigger)
        PROVE  ForGood
    <3>1. {a} \in SUBSET Artifacts
      OBVIOUS
    <3> QED BY <2>1, <2>4, <3>1, CatalogForGood
  <2>5. ASSUME NEW a \in Artifacts, NEW retention \in {"retain", "expire"},
               ReserveArtifact(a, retention)
        PROVE  ForGood
    BY <2>1, <2>5, CatalogForGood DEF ReserveArtifact
  <2>6. ASSUME NEW a \in Artifacts, TombstoneArtifact(a) PROVE ForGood
    BY <2>4, <2>6 DEF TombstoneArtifact, Triggers
  <2>7. ASSUME NEW f \in Fixtures, NEW content \in SUBSET Artifacts, PublishContent(f, content)
        PROVE  ForGood
    BY <2>1, <2>7, CatalogForGood DEF PublishContent
  <2>8. ASSUME NEW f \in Fixtures, RevokeContent(f) PROVE ForGood
    <3>1. Owned(f) \in SUBSET Artifacts /\ "fixture_revocation" \in Triggers
      BY DEF Owned, Triggers
    <3> QED BY <2>1, <2>8, <3>1, CatalogForGood DEF RevokeContent, RevokeFixtureContent
  <2>9. ASSUME NEW u \in Uploaders,
               \/ \E a \in Artifacts : UploadBegins(u, a)
               \/ UploaderStep(u) \/ UploadFails(u)
        PROVE  ForGood
    <3>1. CASE UploadActivates(u)
      <4>1. uploads[u].artifact \in Artifacts
        BY <2>1, <3>1 DEF Typed, UploadActivates
      <4> QED BY <2>3, <3>1, <4>1 DEF UploadActivates
    <3> QED BY <2>2, <2>9, <3>1 DEF UploadBegins, UploaderStep, UploadPuts, UploadFails, catalogVars
  <2>10. ASSUME NEW w \in Workers,
                \/ \E command \in Commands : Start(w, command)
                \/ WorkerStep(w) \/ WorkerFails(w)
         PROVE  ForGood
    <3>1. CASE ReconcileActivates(w)
      <4>1. workers[w].artifact \in Artifacts
        BY <2>1, <3>1 DEF Typed, ReconcileActivates
      <4> QED BY <2>3, <3>1, <4>1 DEF ReconcileActivates
    <3>2. CASE PurgeRecords(w)
      <4>1. workers[w].artifact \in Artifacts /\ workers[w].deleted \in BOOLEAN
        BY <2>1, <3>2 DEF Typed, PurgeRecords, WorkerState
      <4> QED BY <2>1, <3>2, <4>1, CatalogForGood DEF PurgeRecords
    <3>3. ASSUME NEW a \in Artifacts, TakeNext(w, a) PROVE ForGood
      <4>1. TriggerOf(workers[w].command) \in Triggers
        BY DEF TriggerOf, Triggers
      <4> QED BY <2>2, <2>4, <3>3, <4>1 DEF TakeNext
    <3> QED BY <2>2, <2>10, <3>1, <3>2, <3>3
        DEF Start, WorkerStep, PurgeFinds, PurgeDeletes, WorkerFails, catalogVars
  <2> QED BY <2>5, <2>6, <2>7, <2>8, <2>9, <2>10 DEF LifecycleNext
<1> QED BY <1>1, LifecycleInvariant, PTL DEF LifecycleSpec

=============================================================================
