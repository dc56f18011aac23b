------------------------------ MODULE Updater ------------------------------
(***************************************************************************)
(* The reconcile cycle of the parse package's Updater (Update / update):  *)
(* under updateMux it pauses the remediator, declares the commit's objects *)
(* into DeclaredResources, applies them, updates the remediator's watches  *)
(* and resumes the remediator.  Each of the three stages is skipped when   *)
(* the cacheForCommit flag says it is already done, and the first stage    *)
(* that fails returns at once, leaving the remediator paused.              *)
(*                                                                         *)
(* The applier is abstracted to the effect of one Apply call on the       *)
(* cluster and the inventory; the parser's run loop to NewCommit.         *)
(***************************************************************************)
EXTENDS Remediator

VARIABLES
    cache,          \* the cacheForCommit of the commit being synced
    oldCommit,      \* the commit the caller passes as oldCommit
    pc,             \* "idle", or the stage of update that runs next
    appliedCommit,  \* the commit of the last Apply that returned no error
    validationErrs, \* Updater.validationErrs is non-empty
    applyErrs,      \* Applier.Errors() is non-empty
    watchErrs       \* Updater.watchErrs is non-empty

updaterVars == <<cache, oldCommit, pc, appliedCommit,
                 validationErrs, applyErrs, watchErrs>>
vars == <<storeVars, remediatorVars, updaterVars>>

Stages == {"idle", "declare", "apply", "watch"}

CacheRecords == [commit : Commits \cup {NoCommit}, parserErrs : BOOLEAN,
                 declaredResourcesUpdated : BOOLEAN, applied : BOOLEAN,
                 watchesUpdated : BOOLEAN]

TypeOK ==
    /\ StoreTypeOK
    /\ RemediatorTypeOK
    /\ cache \in CacheRecords
    /\ oldCommit \in Commits \cup {NoCommit}
    /\ pc \in Stages
    /\ appliedCommit \in Commits \cup {NoCommit}
    /\ validationErrs \in BOOLEAN
    /\ applyErrs \in BOOLEAN
    /\ watchErrs \in BOOLEAN

(* Updating(): the Update method is running.                               *)
Updating == pc # "idle"

(* Errors(): the errors the updater reports, which Update may be running  *)
(* alongside (the remediator's conflict and fight errors are not modelled). *)
Errors == validationErrs \/ applyErrs \/ watchErrs

(* The value the collector's metricstransform exports as                 *)
(* current_declared_resources: aggregate_labels over no label, by max.    *)
CurrentDeclaredResources ==
    LET exported == AggregateLabelsMax(declaredMetric, {})
    IN  exported[CHOOSE s \in DOMAIN exported : TRUE]

(* A fresh cache for commit c, whose parse had errors iff perr.           *)
NewCache(c, perr) ==
    [commit |-> c, parserErrs |-> perr, declaredResourcesUpdated |-> FALSE,
     applied |-> FALSE, watchesUpdated |-> FALSE]

Init ==
    /\ StoreInit
    /\ RemediatorInit
    /\ cache = [NewCache(NoCommit, FALSE) EXCEPT !.declaredResourcesUpdated = TRUE,
                                                 !.applied = TRUE,
                                                 !.watchesUpdated = TRUE]
    /\ oldCommit = NoCommit
    /\ pc = "idle"
    /\ appliedCommit = NoCommit
    /\ validationErrs = FALSE
    /\ applyErrs = FALSE
    /\ watchErrs = FALSE

(* A stage marks itself done only when the parse had no errors.           *)
Done == ~cache.parserErrs

(* The source moves to another commit: the caller replaces the cache, so   *)
(* the progress flags start over.                                          *)
NewCommit(c, perr) ==
    /\ pc = "idle"
    /\ c # cache.commit
    /\ cache' = NewCache(c, perr)
    /\ oldCommit' = cache.commit
    /\ UNCHANGED <<storeVars, remediatorVars, pc, appliedCommit,
                   validationErrs, applyErrs, watchErrs>>

(* Mutant: the remediator is not paused when the cycle starts.           *)
UpdateBeginNoPause ==
    /\ pc = "idle"
    /\ cache.commit # NoCommit
    /\ pc' = "declare"
    /\ UNCHANGED <<storeVars, remediatorVars, cache, oldCommit,
                   appliedCommit, validationErrs, applyErrs, watchErrs>>

(* Mutant: Pause does not wait for the correction in flight.             *)
UpdateBeginNoWait ==
    /\ pc = "idle"
    /\ cache.commit # NoCommit
    /\ pc' = "declare"
    /\ paused' = TRUE
    /\ UNCHANGED <<storeVars, live, inventory, watches, queue, worker, cache, oldCommit,
                   appliedCommit, validationErrs, applyErrs, watchErrs>>

(* Update takes updateMux, sets updating and pauses the remediator.       *)
UpdateBegin ==
    /\ pc = "idle"
    /\ cache.commit # NoCommit
    /\ PauseWaitsForWorker => worker = NoWork
    /\ pc' = "declare"
    /\ paused' = TRUE
    /\ UNCHANGED <<storeVars, live, inventory, watches, queue, worker, cache, oldCommit,
                   appliedCommit, validationErrs, applyErrs, watchErrs>>

(* The declared resources are already updated for this commit.           *)
DeclareSkip ==
    /\ pc = "declare"
    /\ cache.declaredResourcesUpdated
    /\ pc' = "apply"
    /\ UNCHANGED <<storeVars, remediatorVars, cache, oldCommit, appliedCommit,
                   validationErrs, applyErrs, watchErrs>>

(* Mutant: a refused declare does not return; update goes on to apply.   *)
DeclareFailNoReturn ==
    /\ pc = "declare"
    /\ ~cache.declaredResourcesUpdated
    /\ UpdateRejected(Source[cache.commit], cache.commit, oldCommit)
    /\ validationErrs' = TRUE
    /\ pc' = "apply"
    /\ UNCHANGED <<remediatorVars, cache, oldCommit, appliedCommit,
                   applyErrs, watchErrs>>

(* Mutant: a refused declare does not record its error.                  *)
DeclareFailUnreported ==
    /\ pc = "declare"
    /\ ~cache.declaredResourcesUpdated
    /\ UpdateRejected(Source[cache.commit], cache.commit, oldCommit)
    /\ pc' = "idle"
    /\ UNCHANGED <<remediatorVars, cache, oldCommit, appliedCommit,
                   validationErrs, applyErrs, watchErrs>>

(* declare: Resources.Update refuses the objects; update returns.         *)
DeclareFail ==
    /\ pc = "declare"
    /\ ~cache.declaredResourcesUpdated
    /\ UpdateRejected(Source[cache.commit], cache.commit, oldCommit)
    /\ validationErrs' = TRUE
    /\ pc' = "idle"
    /\ UNCHANGED <<remediatorVars, cache, oldCommit, appliedCommit,
                   applyErrs, watchErrs>>

(* declare: Resources.Update installs the new snapshot.                   *)
DeclareOK ==
    /\ pc = "declare"
    /\ ~cache.declaredResourcesUpdated
    /\ UpdateAccepted(Source[cache.commit], cache.commit, oldCommit)
    /\ validationErrs' = FALSE
    /\ cache' = [cache EXCEPT !.declaredResourcesUpdated = Done]
    /\ pc' = "apply"
    /\ UNCHANGED <<remediatorVars, oldCommit, appliedCommit, applyErrs, watchErrs>>

Declare == DeclareSkip \/ DeclareFail \/ DeclareOK

(* The live objects after the applier writes the objects in applied and   *)
(* deletes the objects in pruned, at the installed commit.                *)
Actuated(applied, pruned) ==
    [id \in IDs |-> IF id \in applied THEN commit
                    ELSE IF id \in pruned THEN Absent
                    ELSE live[id]]

ApplySkip ==
    /\ pc = "apply"
    /\ cache.applied
    /\ pc' = "watch"
    /\ UNCHANGED <<storeVars, remediatorVars, cache, oldCommit, appliedCommit,
                   validationErrs, applyErrs, watchErrs>>

(* Mutant: the inventory is not extended before the objects are written.  *)
ApplyFailNoUpsert ==
    /\ pc = "apply"
    /\ ~cache.applied
    /\ \E written \in SUBSET objectMap :
          live' = Actuated(written, {})
    /\ applyErrs' = TRUE
    /\ pc' = "idle"
    /\ UNCHANGED <<storeVars, inventory, paused, watches, queue, worker, cache, oldCommit,
                   appliedCommit, validationErrs, watchErrs>>

(* apply: the applier fails after writing some of the declared objects.   *)
(* The inventory was extended with every declared object before any      *)
(* write; nothing is pruned.                                               *)
ApplyFail ==
    /\ pc = "apply"
    /\ ~cache.applied
    /\ \E written \in SUBSET objectMap :
          live' = Actuated(written, {})
    /\ inventory' = inventory \cup objectMap
    /\ applyErrs' = TRUE
    /\ pc' = "idle"
    /\ UNCHANGED <<storeVars, paused, watches, queue, worker, cache, oldCommit,
                   appliedCommit, validationErrs, watchErrs>>

(* apply: every declared object is written, every object of the          *)
(* inventory that is no longer declared is pruned, and the inventory now  *)
(* lists exactly the declared objects.                                     *)
ApplyOK ==
    /\ pc = "apply"
    /\ ~cache.applied
    /\ live' = Actuated(objectMap, inventory \ objectMap)
    /\ inventory' = objectMap
    /\ appliedCommit' = commit
    /\ applyErrs' = FALSE
    /\ cache' = [cache EXCEPT !.applied = Done]
    /\ pc' = "watch"
    /\ UNCHANGED <<storeVars, paused, watches, queue, worker, oldCommit,
                   validationErrs, watchErrs>>

Apply == ApplySkip \/ ApplyFail \/ ApplyOK

(* The watches are already updated: resume the remediator and return.     *)
WatchSkip ==
    /\ pc = "watch"
    /\ cache.watchesUpdated
    /\ paused' = FALSE
    /\ pc' = "idle"
    /\ UNCHANGED <<storeVars, live, inventory, watches, queue, worker, cache, oldCommit,
                   appliedCommit, validationErrs, applyErrs, watchErrs>>

(* watch: some watches fail to start; update returns with the remediator  *)
(* still paused.                                                           *)
WatchFail ==
    /\ pc = "watch"
    /\ ~cache.watchesUpdated
    /\ \E failed \in SUBSET (DeclaredGVKs(objectMap) \ watches) :
          /\ failed # {}
          /\ UpdateWatches(DeclaredGVKs(objectMap), failed)
    /\ watchErrs' = TRUE
    /\ pc' = "idle"
    /\ UNCHANGED <<storeVars, live, inventory, paused, worker, cache, oldCommit,
                   appliedCommit, validationErrs, applyErrs>>

(* watch: the watches now match the declared kinds; resume and return.    *)
WatchOK ==
    /\ pc = "watch"
    /\ ~cache.watchesUpdated
    /\ UpdateWatches(DeclaredGVKs(objectMap), {})
    /\ watchErrs' = FALSE
    /\ cache' = [cache EXCEPT !.watchesUpdated = Done]
    /\ paused' = FALSE
    /\ pc' = "idle"
    /\ UNCHANGED <<storeVars, live, inventory, worker, oldCommit, appliedCommit,
                   validationErrs, applyErrs>>

Watch == WatchSkip \/ WatchFail \/ WatchOK

Next ==
    \/ \E c \in Commits, perr \in BOOLEAN : NewCommit(c, perr)
    \/ UpdateBegin
    \/ Declare
    \/ Apply
    \/ Watch
    \/ \E id \in IDs : RemediateGet(id) /\ UNCHANGED updaterVars
    \/ RemediateWrite /\ UNCHANGED updaterVars
    \/ \E id \in IDs : Drift(id) /\ UNCHANGED updaterVars
    \/ \E id \in IDs : ExternalDelete(id) /\ UNCHANGED updaterVars

Spec == Init /\ [][Next]_vars

-----------------------------------------------------------------------------
(* The contract Update keeps with the remediator (SyncContract), seen     *)
(* through the store, the apply result, the inventory, the watches and    *)
(* the pause flag; the cache flags, the error flags, the gauge, the live  *)
(* objects, the queue and the worker are hidden.                          *)
Contract == INSTANCE SyncContract
    WITH installed <- commit, snapshot <- objectMap, applied <- appliedCommit,
         recorded <- inventory, watched <- watches, running <- ~paused,
         KindOf <- Kind, Snapshot <- [c \in Commits |-> NewSet(Source[c])]

-----------------------------------------------------------------------------
(* Properties.                                                             *)

(* Update implements the contract: every step of the cycle, of the       *)
(* remediator and of the cluster is a step of SyncContract or leaves its  *)
(* variables alone.                                                        *)
ImplementsContract == Contract!ContractSpec

(* A correction in flight writes what the installed snapshot declares:    *)
(* the worker's Resources.Get result is never stale when it writes, since *)
(* Update pauses the remediator before declaring a new snapshot.          *)
WorkerReadIsCurrent ==
    worker # NoWork => /\ worker.rev = commit
                       /\ worker.found = (worker.id \in objectMap)

(* Resources.Update replaces the declared snapshot only while the         *)
(* remediator is paused with no correction in flight: a worker's          *)
(* Resources.Get never sees a snapshot change under it.                    *)
SnapshotReplacedWhenQuiet ==
    [][ <<objectMap, commit>>' # <<objectMap, commit>> => paused /\ worker = NoWork ]_vars

(* The remediator's workers run only against a snapshot that has been     *)
(* applied in full, with the inventory listing it and the watches on its  *)
(* kinds: update pauses the remediator before the declare stage and       *)
(* resumes it only after apply and watch succeed, so a worker can never   *)
(* write a newly declared object ahead of the applier's ordering.          *)
RemediatorRunsOnAppliedSnapshot ==
    ~paused => /\ appliedCommit = commit
               /\ inventory = objectMap
               /\ watches = DeclaredGVKs(objectMap)

(* The partial-progress flags of cacheForCommit never claim work that was *)
(* not done for their commit: a later Update that skips a stage relies on *)
(* the stage's effect still being in place.                                *)
CacheFlagsSound ==
    /\ cache.declaredResourcesUpdated /\ cache.commit # NoCommit
           => commit = cache.commit
    /\ cache.applied /\ cache.commit # NoCommit
           => appliedCommit = cache.commit /\ inventory = objectMap
    /\ cache.watchesUpdated /\ cache.commit # NoCommit
           => watches = DeclaredGVKs(objectMap)

(* Every live object is listed in the inventory, so a later apply can     *)
(* prune it: neither a failed apply nor the remediator leaves an object   *)
(* in the cluster that the inventory does not record.                     *)
NoOrphanedObjects ==
    \A id \in IDs : live[id] # Absent => id \in inventory

(* A drifted live object of a watched kind is queued for a worker or in   *)
(* the worker's hands: a watch started late still lists the objects that  *)
(* drifted before it started.                                              *)
NoUnnoticedDrift ==
    \A id \in IDs :
        live[id] = Drifted /\ Kind[id] \in watches
            => id \in queue \/ (worker # NoWork /\ worker.id = id)

(* Whenever a cycle has ended with the remediator left paused, Errors()   *)
(* reports an error of the stage that stopped it.                         *)
StalledCycleIsReported ==
    pc = "idle" /\ paused => Errors

(* The installed commit's declared_resources stream holds the number of *)
(* objects of the installed snapshot whenever the last declare was        *)
(* accepted: Update counts the objects it keeps (nil ones skipped), and a *)
(* reset of an old commit's stream never hits the commit installed.       *)
InstalledCommitCounted ==
    ~validationErrs /\ commit # NoCommit
        => declaredMetric[[commit |-> commit]] = Cardinality(objectMap)

(* current_declared_resources, the one series the collector exports from *)
(* the declared_resources streams (the maximum over every commit's row),  *)
(* is the number of objects of the installed snapshot whenever the last   *)
(* declare was accepted: the comment on the reset in Update says it makes *)
(* the maximum follow a snapshot that shrinks.                            *)
DeclaredResourcesExported ==
    ~validationErrs => CurrentDeclaredResources = Cardinality(objectMap)

=============================================================================
