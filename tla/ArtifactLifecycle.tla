-------------------------- MODULE ArtifactLifecycle --------------------------
(* The artifact use cases over the catalog and the object store, which share no*)
(* transaction: upload, purge and reconcile of packages/artifacts, and the     *)
(* commands of services/artifact-maintenance that run them.  Each await on the *)
(* catalog or on the store is a step of its own, so uploaders and maintenance  *)
(* workers interleave between any two, and any of them may fail or die there.  *)
EXTENDS ArtifactCatalog

CONSTANTS
  Uploaders,      \* concurrent upload requests
  Workers,        \* maintenance processes and API purge requests
  MaxFaults       \* bound on failed calls and crashes

ASSUME LifecycleAssumption == MaxFaults \in Nat

VARIABLES
  objects,        \* artifacts whose object key holds the ciphertext
  uploads,        \* uploader -> what it is about to do, to which artifact
  workers,        \* worker -> its command, what it still has to do, its place
  faults

vars == <<catalogVars, objects, uploads, workers, faults>>

Commands == {"retention", "cleanup", "retry", "reconcile", "purge"}

NotUploading == [pc |-> "idle", artifact |-> None]
NotWorking ==
  [pc |-> "idle", command |-> None, queue |-> {}, artifact |-> None, deleted |-> FALSE]

LifecycleInit ==
  /\ CatalogInit
  /\ objects = {}
  /\ uploads = [u \in Uploaders |-> NotUploading]
  /\ workers = [w \in Workers |-> NotWorking]
  /\ faults = 0

Fault == faults < MaxFaults /\ faults' = faults + 1

-----------------------------------------------------------------------------
(* Requests that are one catalog transaction.                                  *)

ReserveArtifact(a, retention) ==
  /\ Reserve(a, retention)
  /\ UNCHANGED <<revoked, objects, uploads, workers, faults>>

TombstoneArtifact(a) ==
  /\ MayTombstone(a, "manual")
  /\ catalog' = Tombstoned({a}, "manual")
  /\ UNCHANGED <<revoked, objects, uploads, workers, faults>>

PublishContent(f, content) ==
  /\ PublishRecordedFixture(f, content)
  /\ UNCHANGED <<objects, uploads, workers, faults>>

RevokeContent(f) ==
  /\ RevokeFixtureContent(f)
  /\ UNCHANGED <<objects, uploads, workers, faults>>

-----------------------------------------------------------------------------
(* UploadArtifact: look the row up, create the object, activate the row.       *)

UploadBegins(u, a) ==
  /\ uploads[u].pc = "idle"
  /\ catalog[a].state \in {"reserved", "available"}
  /\ uploads' = [uploads EXCEPT ![u] = [pc |-> "put", artifact |-> a]]
  /\ UNCHANGED <<catalogVars, objects, workers, faults>>

UploadPuts(u) ==
  /\ uploads[u].pc = "put"
  /\ objects' = objects \cup {uploads[u].artifact}
  /\ uploads' = [uploads EXCEPT ![u].pc = "activate"]
  /\ UNCHANGED <<catalogVars, workers, faults>>

UploadActivates(u) ==
  /\ uploads[u].pc = "activate"
  /\ Activate(uploads[u].artifact)
  /\ uploads' = [uploads EXCEPT ![u] = NotUploading]
  /\ UNCHANGED <<revoked, objects, workers, faults>>

(* The request dies, or its put answers with an error, done or not.            *)
UploadFails(u) ==
  /\ uploads[u].pc # "idle"
  /\ Fault
  /\ objects' \in IF uploads[u].pc = "put"
                  THEN {objects, objects \cup {uploads[u].artifact}} ELSE {objects}
  /\ uploads' = [uploads EXCEPT ![u] = NotUploading]
  /\ UNCHANGED <<catalogVars, workers>>

-----------------------------------------------------------------------------
(* Maintenance: list a batch, then take its artifacts one after the other.     *)

(* What a command lists; an API purge names its one artifact.                  *)
Listed(command) ==
  CASE command = "retention" -> Batches(Expired)
    [] command = "cleanup"   -> Batches(Abandoned)
    [] command = "reconcile" -> Batches(Abandoned)
    [] command = "retry"     -> Batches(PendingPurge)
    [] command = "purge"     -> {{a} : a \in {b \in Artifacts : catalog[b].state # "absent"}}

Start(w, command) ==
  /\ workers[w].pc = "idle"
  /\ \E batch \in Listed(command) :
       workers' = [workers EXCEPT ![w] = [NotWorking EXCEPT !.pc = "next", !.command = command,
                                                            !.queue = batch]]
  /\ UNCHANGED <<catalogVars, objects, uploads, faults>>

(* The worker is done with its artifact, well or badly, and goes on.           *)
Proceed(w, a) ==
  IF workers[w].queue = {a}
  THEN NotWorking
  ELSE [workers[w] EXCEPT !.pc = "next", !.queue = @ \ {a}, !.artifact = None, !.deleted = FALSE]

At(w, a, pc) == [workers[w] EXCEPT !.pc = pc, !.artifact = a]

TriggerOf(command) == IF command = "retention" THEN "retention" ELSE "abandoned"

(* The first call for an artifact: tombstone it, or go straight to the purge,  *)
(* or fetch its object.  A tombstone that is refused fails the artifact alone. *)
TakeNext(w, a) ==
  LET trigger == TriggerOf(workers[w].command) IN
  /\ workers[w].pc = "next" /\ a \in workers[w].queue
  /\ workers' = [workers EXCEPT ![w] =
       CASE workers[w].command \in {"retry", "purge"} -> At(w, a, "find")
         [] workers[w].command = "reconcile" -> IF a \in objects THEN At(w, a, "activate")
                                                                 ELSE Proceed(w, a)
         [] OTHER -> IF MayTombstone(a, trigger) \/ SameTombstone(a, trigger)
                     THEN At(w, a, "find") ELSE Proceed(w, a)]
  /\ catalog' = IF workers[w].command \in {"retention", "cleanup"} /\ MayTombstone(a, trigger)
                THEN Tombstoned({a}, trigger) ELSE catalog
  /\ UNCHANGED <<revoked, objects, uploads, faults>>

(* Mutant: the purge does not look at the state of the row.                  *)
PurgeFindsAny(w) ==
  /\ workers[w].pc = "find"
  /\ workers' = [workers EXCEPT ![w].pc = "delete"]
  /\ UNCHANGED <<catalogVars, objects, uploads, faults>>

(* PurgeArtifact reads the row: a purged one is done, any other state fails.   *)
PurgeFinds(w) ==
  /\ workers[w].pc = "find"
  /\ workers' = [workers EXCEPT ![w] =
       IF catalog[workers[w].artifact].state = "tombstoned"
       THEN [@ EXCEPT !.pc = "delete"] ELSE Proceed(w, workers[w].artifact)]
  /\ UNCHANGED <<catalogVars, objects, uploads, faults>>

PurgeDeletes(w) ==
  /\ workers[w].pc = "delete"
  /\ objects' = objects \ {workers[w].artifact}
  /\ workers' = [workers EXCEPT ![w].pc = "record",
                                ![w].deleted = workers[w].artifact \in objects]
  /\ UNCHANGED <<catalogVars, uploads, faults>>

PurgeRecords(w) ==
  /\ workers[w].pc = "record"
  /\ RecordPurge(workers[w].artifact, workers[w].deleted)
  /\ workers' = [workers EXCEPT ![w] = Proceed(w, workers[w].artifact)]
  /\ UNCHANGED <<revoked, objects, uploads, faults>>

(* ReconcileArtifactReservations activates with the object it just decrypted.  *)
ReconcileActivates(w) ==
  /\ workers[w].pc = "activate"
  /\ Activate(workers[w].artifact)
  /\ workers' = [workers EXCEPT ![w] = Proceed(w, workers[w].artifact)]
  /\ UNCHANGED <<revoked, objects, uploads, faults>>

(* A call for this artifact fails, a delete done or not, and the worker goes   *)
(* on; or the worker dies with its whole batch.                                *)
WorkerFails(w) ==
  /\ workers[w].pc # "idle"
  /\ Fault
  /\ objects' \in IF workers[w].pc = "delete"
                  THEN {objects, objects \ {workers[w].artifact}} ELSE {objects}
  /\ \/ workers' = [workers EXCEPT ![w] = NotWorking]
     \/ workers[w].artifact # None /\ workers' = [workers EXCEPT ![w] = Proceed(w, workers[w].artifact)]
  /\ UNCHANGED <<catalogVars, uploads>>

-----------------------------------------------------------------------------

UploaderStep(u) ==
  UploadPuts(u) \/ UploadActivates(u)

WorkerStep(w) ==
  \/ \E a \in Artifacts : TakeNext(w, a)
  \/ PurgeFinds(w) \/ PurgeDeletes(w) \/ PurgeRecords(w) \/ ReconcileActivates(w)

LifecycleNext ==
  \/ \E a \in Artifacts :
       \/ \E retention \in {"retain", "expire"} : ReserveArtifact(a, retention)
       \/ TombstoneArtifact(a)
       \/ \E u \in Uploaders : UploadBegins(u, a)
  \/ \E f \in Fixtures : RevokeContent(f) \/ \E content \in SUBSET Artifacts : PublishContent(f, content)
  \/ \E u \in Uploaders : UploaderStep(u) \/ UploadFails(u)
  \/ \E w \in Workers : WorkerStep(w) \/ WorkerFails(w) \/ \E command \in Commands : Start(w, command)

LifecycleSpec == LifecycleInit /\ [][LifecycleNext]_vars

(* A live process goes on, and the operator runs retry-purges and              *)
(* cleanup-abandoned again and again: a worker that keeps being free while     *)
(* there is something to list eventually runs the command.                     *)
FairLifecycle ==
  /\ LifecycleSpec
  /\ \A u \in Uploaders : WF_vars(UploaderStep(u))
  /\ \A w \in Workers :
       /\ WF_vars(WorkerStep(w))
       /\ SF_vars(Start(w, "cleanup")) /\ SF_vars(Start(w, "retry"))

-----------------------------------------------------------------------------
(* Properties.                                                                 *)

(* Rows have the shape the table's CHECK and triggers allow.                   *)
LifecycleTypeOK ==
  /\ \A a \in Artifacts : catalog[a] \in CatalogRow /\ CatalogShape(catalog[a])
  /\ objects \subseteq Artifacts
  /\ \A u \in Uploaders : uploads[u] \in [pc: {"idle", "put", "activate"},
                                          artifact: Artifacts \cup {None}]
  /\ \A w \in Workers : workers[w] \in
       [pc: {"idle", "next", "find", "delete", "record", "activate"},
        command: Commands \cup {None}, queue: SUBSET Artifacts,
        artifact: Artifacts \cup {None}, deleted: BOOLEAN]

(* What a read relies on (read-artifact.ts throws ArtifactObjectMissingError   *)
(* otherwise): the object of an available artifact is in the store, whatever   *)
(* purges and uploads are in flight.                                           *)
AvailableHasObject ==
  \A a \in Artifacts : catalog[a].state = "available" => a \in objects

(* Cleanup lists a reservation, then tombstones it in another transaction: it  *)
(* never removes content whose upload completed in between.                    *)
UploadedIsNeverAbandoned ==
  \A a \in Artifacts : catalog[a].tombstone = "abandoned" => ~catalog[a].received

(* The content of a recorded fixture version goes as a whole or not at all:    *)
(* all available until the version's revocation, all gone by it afterwards,    *)
(* whatever deletion, retention and cleanup race with it.                      *)
FixtureContentIsWhole ==
  \A a \in Artifacts : catalog[a].owner # None =>
    IF catalog[a].owner \in revoked
    THEN catalog[a].tombstone = "fixture_revocation"
    ELSE catalog[a].state = "available"

(* ADR-0009: a failed or interrupted deletion leaves a purge-pending artifact  *)
(* that maintenance finishes.                                                  *)
TombstonedIsPurged ==
  \A a \in Artifacts : catalog[a].state = "tombstoned" ~> catalog[a].state = "purged"

(* ADR-0009: an upload that stored its object and died is repaired or cleaned  *)
(* up; it does not stay reserved.                                              *)
InterruptedUploadSettles ==
  \A a \in Artifacts : (catalog[a].state = "reserved" /\ a \in objects)
                       ~> catalog[a].state # "reserved"

(* docs/operations/backup-and-recovery.md: a purged catalog entry has no       *)
(* object in the live inventory.                                               *)
PurgedHasNoObject ==
  \A a \in Artifacts : catalog[a].state = "purged" => a \notin objects
==============================================================================
