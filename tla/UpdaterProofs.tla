--------------------------- MODULE UpdaterProofs ---------------------------
(***************************************************************************)
(* Proofs about the Updater cycle, for every value of the constants that  *)
(* satisfies StoreAssumption and LiveAssumption.                          *)
(*                                                                         *)
(* RemediatorRunsOnAppliedSnapshot is not inductive by itself: a WatchOK  *)
(* step resumes the remediator, and the invariant then needs to know that *)
(* the apply stage of the same cycle succeeded.  IInv carries that along  *)
(* the stages of a cycle:                                                  *)
(*   - while a cycle runs the remediator is paused;                        *)
(*   - from the apply stage on, the store holds the cache's commit, and   *)
(*     at the watch stage the applier has applied it; a stage that runs   *)
(*     after a parse without errors finds the earlier flags set;          *)
(*   - each progress flag implies the earlier ones and the effect of its  *)
(*     stage (CacheFlagsSound without its guard);                         *)
(*   - an empty commit goes with an empty snapshot, which keeps the live  *)
(*     states written from the store's commit well typed;                 *)
(*   - a worker that found its object read a real commit, and, when Pause *)
(*     waits for the worker, a correction in flight runs while the        *)
(*     remediator runs, on the snapshot installed.                        *)
(***************************************************************************)
EXTENDS Updater, MetricsTheorems, FiniteSetTheorems, TLAPS

CycleInv ==
    /\ pc # "idle" => paused /\ cache.commit # NoCommit
    /\ pc \in {"apply", "watch"} => commit = cache.commit
    /\ pc = "watch" => appliedCommit = commit /\ inventory = objectMap
    /\ pc \in {"apply", "watch"} /\ ~cache.parserErrs
           => cache.declaredResourcesUpdated
    /\ pc = "watch" /\ ~cache.parserErrs => cache.applied

FlagsInv ==
    /\ cache.watchesUpdated => cache.applied
    /\ cache.applied => cache.declaredResourcesUpdated
    /\ cache.declaredResourcesUpdated => commit = cache.commit
    /\ cache.applied => appliedCommit = cache.commit /\ inventory = objectMap
    /\ cache.watchesUpdated => watches = DeclaredGVKs(objectMap)

SnapshotInv ==
    commit = NoCommit => objectMap = {}

WorkerInv ==
    /\ worker # NoWork /\ worker.found => worker.rev \in Commits
    /\ PauseWaitsForWorker /\ worker # NoWork
           => ~paused /\ worker.rev = commit /\ worker.found = (worker.id \in objectMap)

IInv ==
    /\ TypeOK
    /\ CycleInv
    /\ FlagsInv
    /\ SnapshotInv
    /\ RemediatorRunsOnAppliedSnapshot
    /\ WorkerInv

-----------------------------------------------------------------------------
(* Lemmas about the operators the model is built from.                     *)

(* The kinds of a set of declared objects are kinds.                       *)
LEMMA DeclaredGVKsType ==
    ASSUME NEW S \in SUBSET IDs
    PROVE  DeclaredGVKs(S) \subseteq GVKs
BY StoreAssumption DEF DeclaredGVKs

(* Update keeps a finite set of IDs.                                       *)
LEMMA NewSetFinite ==
    ASSUME NEW objs \in SUBSET (IDs \cup {NilObj})
    PROVE  /\ NewSet(objs) \subseteq IDs
           /\ Cardinality(NewSet(objs)) \in Nat
<1>1. NewSet(objs) \subseteq IDs
  BY DEF NewSet
<1>2. IsFiniteSet(NewSet(objs))
  BY <1>1, StoreAssumption, FS_Subset
<1>3. QED
  BY <1>1, <1>2, FS_CardinalityType

(* The gauge stays a function from the view's rows to counts.              *)
LEMMA RecordDeclaredType ==
    ASSUME declaredMetric \in [DeclaredRows -> Nat],
           NEW objs \in SUBSET (IDs \cup {NilObj}),
           NEW nc \in Commits, NEW oc \in Commits \cup {NoCommit}
    PROVE  RecordDeclared(objs, nc, oc) \in [DeclaredRows -> Nat]
<1>1. Cardinality(NewSet(objs)) \in Nat
  BY NewSetFinite
<1>2. \A c, n \in Nat : \A m \in RecordDeclaredResources(c, n) : m.value \in Nat
  BY DEF RecordDeclaredResources, Measurement
<1>3. \A c : \A m \in RecordDeclaredResources(c, 0) : m.value \in Nat
  BY DEF RecordDeclaredResources, Measurement
<1>4. \A m \in RecordDeclaredResources(nc, Cardinality(NewSet(objs))) : m.value \in Nat
  BY <1>1 DEF RecordDeclaredResources, Measurement
<1> DEFINE counted == Record(declaredMetric, "DeclaredResourcesView",
                              RecordDeclaredResources(nc, Cardinality(NewSet(objs))))
<1>5. counted \in [DeclaredRows -> Nat]
  BY <1>4, RecordType
<1>6. Record(counted, "DeclaredResourcesView", RecordDeclaredResources(oc, 0))
        \in [DeclaredRows -> Nat]
  BY <1>3, <1>5, RecordType
<1>7. QED
  BY <1>5, <1>6 DEF RecordDeclared

(* Update's record of the gauge leaves the new commit's row at the number  *)
(* of objects it keeps: the reset of the old commit's row, recorded after *)
(* it, is of another row.                                                  *)
LEMMA RecordDeclaredRow ==
    ASSUME declaredMetric \in [DeclaredRows -> Nat],
           NEW objs \in SUBSET (IDs \cup {NilObj}),
           NEW nc \in Commits, NEW oc \in Commits \cup {NoCommit}
    PROVE  RecordDeclared(objs, nc, oc)[[commit |-> nc]] = Cardinality(NewSet(objs))
<1> DEFINE V == "DeclaredResourcesView"
           n == Cardinality(NewSet(objs))
           Gauge(c, k) == Measurement("DeclaredResources", [commit |-> c], k)
           counted == Record(declaredMetric, V, RecordDeclaredResources(nc, n))
<1>1. ASSUME NEW c \in Commits, NEW k
      PROVE  /\ Gauge(c, k).measure = Views[V].measure
             /\ RowOf(V, Gauge(c, k).tags) = [commit |-> c]
             /\ [commit |-> c] \in DeclaredRows
  BY DEF Measurement, RowOf, Views, KeyCommit, DeclaredRows
<1>2. Views[V].aggregation = "LastValue"
  BY DEF Views
<1>3. n \in Nat
  BY NewSetFinite
<1>4. counted \in [DeclaredRows -> Nat]
  BY <1>1, <1>3, RecordType DEF RecordDeclaredResources, Measurement
<1>5. counted[[commit |-> nc]] = n
  <2>1. /\ Gauge(nc, n).measure = Views[V].measure
        /\ RowOf(V, Gauge(nc, n).tags) = [commit |-> nc]
        /\ [commit |-> nc] \in DeclaredRows
    BY <1>1
  <2>2. Record(declaredMetric, V, {Gauge(nc, n)})[RowOf(V, Gauge(nc, n).tags)]
          = Gauge(nc, n).value
    BY <1>2, <2>1, RecordLastValue
  <2>3. QED
    BY <2>1, <2>2 DEF RecordDeclaredResources, Measurement
<1>6. CASE oc # nc /\ oc # NoCommit
  <2>1. oc \in Commits /\ [commit |-> nc] # [commit |-> oc]
    BY <1>6
  <2>2. /\ Gauge(oc, 0).measure = Views[V].measure
        /\ RowOf(V, Gauge(oc, 0).tags) = [commit |-> oc]
        /\ [commit |-> oc] \in DeclaredRows
        /\ [commit |-> nc] \in DeclaredRows
    BY <1>1, <2>1
  <2>3. Record(counted, V, {Gauge(oc, 0)})[[commit |-> nc]] = counted[[commit |-> nc]]
    BY <1>4, <2>1, <2>2 DEF Record
  <2>4. Record(counted, V, RecordDeclaredResources(oc, 0))[[commit |-> nc]] = n
    BY <1>5, <2>3 DEF RecordDeclaredResources, Measurement
  <2>5. QED
    BY <1>6, <2>4 DEF RecordDeclared
<1>7. CASE ~(oc # nc /\ oc # NoCommit)
  BY <1>5, <1>7 DEF RecordDeclared
<1>8. QED
  BY <1>6, <1>7

(* Starting and stopping watches: with nothing failing, the watches are   *)
(* exactly the requested kinds.                                            *)
LEMMA UpdateWatchesAll ==
    ASSUME NEW G, NEW W
    PROVE  (G \cap W) \cup ((G \ W) \ {}) = G
OBVIOUS

-----------------------------------------------------------------------------
(* The inductive invariant.                                                *)

(* At the declare stage the store is updated with a real commit's objects. *)
LEMMA DeclareInputs ==
    ASSUME IInv, pc = "declare"
    PROVE  /\ cache.commit \in Commits
           /\ Source[cache.commit] \in SUBSET (IDs \cup {NilObj})
           /\ oldCommit \in Commits \cup {NoCommit}
<1>1. cache.commit \in Commits
  BY DEF IInv, CycleInv, TypeOK, CacheRecords
<1>2. QED
  BY <1>1, StoreAssumption DEF IInv, TypeOK

THEOREM InitIInv == Init => IInv
<1> SUFFICES ASSUME Init PROVE IInv
  OBVIOUS
<1>1. TypeOK
  BY StoreAssumption DEF Init, StoreInit, RemediatorInit, NewCache, TypeOK,
     StoreTypeOK, RemediatorTypeOK, CacheRecords, Stages, LiveStates
<1>2. CycleInv /\ SnapshotInv
  BY DEF Init, StoreInit, CycleInv, SnapshotInv
<1>3. FlagsInv
  BY DEF Init, StoreInit, RemediatorInit, NewCache, FlagsInv, DeclaredGVKs
<1>4. RemediatorRunsOnAppliedSnapshot
  BY DEF Init, StoreInit, RemediatorInit, RemediatorRunsOnAppliedSnapshot, WorkerInv,
     DeclaredGVKs
<1>5. WorkerInv
  BY DEF Init, RemediatorInit, WorkerInv
<1>6. QED
  BY <1>1, <1>2, <1>3, <1>4, <1>5 DEF IInv

THEOREM NextIInv == IInv /\ [Next]_vars => IInv'
<1> SUFFICES ASSUME IInv, [Next]_vars PROVE IInv'
  OBVIOUS
<1> USE StoreAssumption, LiveAssumption
<1>1. CASE \E c \in Commits, perr \in BOOLEAN : NewCommit(c, perr)
  BY <1>1 DEF NewCommit, NewCache, IInv, TypeOK, CacheRecords, CycleInv,
     FlagsInv, SnapshotInv, RemediatorRunsOnAppliedSnapshot, WorkerInv, storeVars,
     remediatorVars, StoreTypeOK, RemediatorTypeOK
<1>2. CASE UpdateBegin
  BY <1>2 DEF UpdateBegin, IInv, TypeOK, CycleInv, FlagsInv, SnapshotInv,
     RemediatorRunsOnAppliedSnapshot, WorkerInv, storeVars, Stages, StoreTypeOK,
     RemediatorTypeOK
<1>3. CASE Declare
  <2>1. CASE DeclareSkip
    BY <2>1 DEF DeclareSkip, IInv, TypeOK, CycleInv, FlagsInv, SnapshotInv,
       RemediatorRunsOnAppliedSnapshot, WorkerInv, storeVars, remediatorVars, Stages,
       StoreTypeOK, RemediatorTypeOK
  <2>2. CASE DeclareFail
    <3>1. declaredMetric' \in [DeclaredRows -> Nat]
      BY <2>2, DeclareInputs, RecordDeclaredType DEF DeclareFail, UpdateRejected, IInv,
         TypeOK, StoreTypeOK
    <3>2. QED
      BY <2>2, <3>1 DEF DeclareFail, UpdateRejected, IInv, TypeOK, CycleInv,
         FlagsInv, SnapshotInv, RemediatorRunsOnAppliedSnapshot, WorkerInv,
         remediatorVars, Stages, StoreTypeOK, RemediatorTypeOK
  <2>3. CASE DeclareOK
    <3>1. declaredMetric' \in [DeclaredRows -> Nat]
      BY <2>3, DeclareInputs, RecordDeclaredType DEF DeclareOK, UpdateAccepted, IInv,
         TypeOK, StoreTypeOK
    <3>2. objectMap' \subseteq IDs
      BY <2>3, DeclareInputs, NewSetFinite DEF DeclareOK, UpdateAccepted
    <3>3. TypeOK'
      BY <2>3, <3>1, <3>2 DEF DeclareOK, UpdateAccepted, IInv, TypeOK,
         CycleInv, remediatorVars, Stages, StoreTypeOK, RemediatorTypeOK,
         CacheRecords, Done
    <3>4. (CycleInv /\ FlagsInv /\ SnapshotInv /\ RemediatorRunsOnAppliedSnapshot
           /\ WorkerInv)'
      BY <2>3 DEF DeclareOK, UpdateAccepted, IInv, CycleInv, FlagsInv,
         SnapshotInv, RemediatorRunsOnAppliedSnapshot, WorkerInv, remediatorVars, Done,
         TypeOK, CacheRecords
    <3>5. QED
      BY <3>3, <3>4 DEF IInv
  <2>4. QED
    BY <1>3, <2>1, <2>2, <2>3 DEF Declare
<1>4. CASE Apply
  <2>1. CASE ApplySkip
    BY <2>1 DEF ApplySkip, IInv, TypeOK, CycleInv, FlagsInv, SnapshotInv,
       RemediatorRunsOnAppliedSnapshot, WorkerInv, storeVars, remediatorVars, Stages,
       StoreTypeOK, RemediatorTypeOK
  <2>2. CASE ApplyFail
    <3>1. commit \in Commits
      BY <2>2 DEF ApplyFail, IInv, CycleInv, TypeOK, StoreTypeOK
    <3>2. TypeOK'
      BY <2>2, <3>1 DEF ApplyFail, Actuated, IInv, TypeOK, storeVars,
         Stages, StoreTypeOK, RemediatorTypeOK, LiveStates
    <3>3. QED
      BY <2>2, <3>2 DEF ApplyFail, IInv, CycleInv, FlagsInv, SnapshotInv,
         RemediatorRunsOnAppliedSnapshot, WorkerInv, storeVars
  <2>3. CASE ApplyOK
    <3>1. commit \in Commits
      BY <2>3 DEF ApplyOK, IInv, CycleInv, TypeOK, StoreTypeOK
    <3>2. TypeOK'
      BY <2>3, <3>1 DEF ApplyOK, Actuated, IInv, TypeOK, storeVars,
         Stages, StoreTypeOK, RemediatorTypeOK, LiveStates, CacheRecords, Done
    <3>3. CycleInv' /\ SnapshotInv'
      BY <2>3 DEF ApplyOK, IInv, CycleInv, SnapshotInv, storeVars, Done,
         TypeOK, CacheRecords
    <3>4. FlagsInv'
      BY <2>3 DEF ApplyOK, IInv, CycleInv, FlagsInv, storeVars, Done,
         TypeOK, CacheRecords
    <3>5. RemediatorRunsOnAppliedSnapshot'
      BY <2>3 DEF ApplyOK, IInv, CycleInv, RemediatorRunsOnAppliedSnapshot, WorkerInv,
         storeVars
    <3>6. WorkerInv'
      BY <2>3 DEF ApplyOK, IInv, WorkerInv, storeVars
    <3>7. QED
      BY <3>2, <3>3, <3>4, <3>5, <3>6 DEF IInv
  <2>4. QED
    BY <1>4, <2>1, <2>2, <2>3 DEF Apply
<1>5. CASE Watch
  <2>1. DeclaredGVKs(objectMap) \subseteq GVKs
    BY DeclaredGVKsType DEF IInv, TypeOK, StoreTypeOK
  <2>2. CASE WatchSkip
    BY <2>2 DEF WatchSkip, IInv, TypeOK, CycleInv, FlagsInv, SnapshotInv,
       RemediatorRunsOnAppliedSnapshot, WorkerInv, storeVars, Stages, StoreTypeOK,
       RemediatorTypeOK
  <2>3. CASE WatchFail
    BY <2>1, <2>3 DEF WatchFail, UpdateWatches, Listed, IInv, TypeOK,
       CycleInv, FlagsInv, SnapshotInv, RemediatorRunsOnAppliedSnapshot, WorkerInv,
       storeVars, Stages, StoreTypeOK, RemediatorTypeOK
  <2>4. CASE WatchOK
    <3>1. watches' = DeclaredGVKs(objectMap)
      BY <2>4, UpdateWatchesAll DEF WatchOK, UpdateWatches
    <3>2. TypeOK'
      BY <2>1, <2>4, <3>1 DEF WatchOK, UpdateWatches, Listed, IInv, TypeOK,
         storeVars, Stages, StoreTypeOK, RemediatorTypeOK, CacheRecords, Done
    <3>3. CycleInv' /\ SnapshotInv' /\ FlagsInv'
      BY <2>4, <3>1 DEF WatchOK, IInv, CycleInv, FlagsInv, SnapshotInv,
         storeVars, Done, TypeOK, CacheRecords
    <3>4. RemediatorRunsOnAppliedSnapshot'
      BY <2>4, <3>1 DEF WatchOK, IInv, CycleInv,
         RemediatorRunsOnAppliedSnapshot, WorkerInv, storeVars
    <3>5. WorkerInv'
      BY <2>4 DEF WatchOK, IInv, CycleInv, WorkerInv, storeVars
    <3>6. QED
      BY <3>2, <3>3, <3>4, <3>5 DEF IInv
  <2>5. QED
    BY <1>5, <2>2, <2>3, <2>4 DEF Watch
<1>6. CASE \E id \in IDs : RemediateGet(id) /\ UNCHANGED updaterVars
  <2> PICK id \in IDs : RemediateGet(id) /\ UNCHANGED updaterVars
    BY <1>6
  <2>1. id \in objectMap => commit \in Commits
    BY DEF IInv, SnapshotInv, TypeOK, StoreTypeOK
  <2>2. TypeOK'
    BY DEF RemediateGet, Get, IInv, TypeOK, RemediatorTypeOK, WorkRecords,
       updaterVars, storeVars, StoreTypeOK
  <2>3. WorkerInv'
    BY <2>1 DEF RemediateGet, Get, WorkerInv, storeVars
  <2>4. QED
    BY <2>2, <2>3 DEF RemediateGet, updaterVars, storeVars, IInv, CycleInv,
       FlagsInv, SnapshotInv, RemediatorRunsOnAppliedSnapshot
<1>7. CASE RemediateWrite /\ UNCHANGED updaterVars
  <2>1. live' \in [IDs -> LiveStates]
    BY <1>7 DEF RemediateWrite, Corrected, IInv, WorkerInv, TypeOK,
       RemediatorTypeOK, LiveStates, WorkRecords
  <2>2. QED
    BY <1>7, <2>1 DEF RemediateWrite, Watched, updaterVars, storeVars, IInv,
       TypeOK, CycleInv, FlagsInv, SnapshotInv, RemediatorRunsOnAppliedSnapshot,
       WorkerInv, StoreTypeOK, RemediatorTypeOK, WorkRecords
<1>8. CASE \E id \in IDs : Drift(id) /\ UNCHANGED updaterVars
  BY <1>8 DEF Drift, Watched, updaterVars, storeVars, IInv, TypeOK, CycleInv,
     FlagsInv, SnapshotInv, RemediatorRunsOnAppliedSnapshot, WorkerInv,
     StoreTypeOK, RemediatorTypeOK, LiveStates
<1>9. CASE \E id \in IDs : ExternalDelete(id) /\ UNCHANGED updaterVars
  BY <1>9 DEF ExternalDelete, Watched, updaterVars, storeVars, IInv, TypeOK,
     CycleInv, FlagsInv, SnapshotInv, RemediatorRunsOnAppliedSnapshot,
     WorkerInv, StoreTypeOK, RemediatorTypeOK, LiveStates
<1>10. CASE UNCHANGED vars
  BY <1>10 DEF vars, storeVars, remediatorVars, updaterVars, IInv, TypeOK,
     CycleInv, FlagsInv, SnapshotInv, RemediatorRunsOnAppliedSnapshot,
     WorkerInv, StoreTypeOK, RemediatorTypeOK
<1>11. QED
  BY <1>1, <1>2, <1>3, <1>4, <1>5, <1>6, <1>7, <1>8, <1>9, <1>10 DEF Next

-----------------------------------------------------------------------------
(* Theorems of the specification.                                          *)

(* Every reachable state is well typed: in particular a live object only  *)
(* ever carries the content of a real commit, never of the empty one.     *)
THEOREM TypeCorrect == Spec => []TypeOK
<1>1. Spec => []IInv
  BY InitIInv, NextIInv, PTL DEF Spec
<1>2. QED
  BY <1>1, PTL DEF IInv

(* The remediator's workers only run once the installed snapshot has been *)
(* applied and watched in full (update's Pause ... Resume bracket).       *)
THEOREM RemediatorSafety == Spec => []RemediatorRunsOnAppliedSnapshot
<1>1. Spec => []IInv
  BY InitIInv, NextIInv, PTL DEF Spec
<1>2. QED
  BY <1>1, PTL DEF IInv

(* The cacheForCommit progress flags never claim a stage not done.        *)
THEOREM FlagsSafety == Spec => []CacheFlagsSound
<1>1. IInv => CacheFlagsSound
  BY DEF IInv, FlagsInv, CacheFlagsSound
<1>2. QED
  BY <1>1, InitIInv, NextIInv, PTL DEF Spec

-----------------------------------------------------------------------------
(* No orphaned objects.  It rests on IInv: the remediator only recreates  *)
(* objects of a snapshot the inventory already lists.                     *)

LEMMA OrphanStep ==
    PauseWaitsForWorker /\ IInv /\ NoOrphanedObjects /\ [Next]_vars
        => NoOrphanedObjects'
<1> SUFFICES ASSUME PauseWaitsForWorker, IInv, NoOrphanedObjects, [Next]_vars
             PROVE  NoOrphanedObjects'
  OBVIOUS
<1>1. CASE ApplyFail
  BY <1>1 DEF ApplyFail, Actuated, NoOrphanedObjects
<1>2. CASE ApplyOK
  BY <1>2 DEF ApplyOK, Actuated, NoOrphanedObjects
<1>3. CASE \E id \in IDs : RemediateGet(id) /\ UNCHANGED updaterVars
  BY <1>3 DEF RemediateGet, NoOrphanedObjects
<1>4. CASE RemediateWrite /\ UNCHANGED updaterVars
  <2>1. worker.found => worker.id \in inventory
    BY <1>4, PauseWaitsForWorker DEF RemediateWrite, IInv, WorkerInv,
       RemediatorRunsOnAppliedSnapshot
  <2>2. QED
    BY <1>4, <2>1, LiveAssumption DEF RemediateWrite, Corrected,
       NoOrphanedObjects, IInv, TypeOK, RemediatorTypeOK, WorkRecords
<1>5. CASE \E id \in IDs : Drift(id) /\ UNCHANGED updaterVars
  BY <1>5, LiveAssumption DEF Drift, NoOrphanedObjects, IInv, TypeOK,
     RemediatorTypeOK
<1>6. CASE \E id \in IDs : ExternalDelete(id) /\ UNCHANGED updaterVars
  BY <1>6 DEF ExternalDelete, NoOrphanedObjects, IInv, TypeOK,
     RemediatorTypeOK
<1>7. CASE \/ \E c \in Commits, perr \in BOOLEAN : NewCommit(c, perr)
           \/ UpdateBegin \/ Declare \/ ApplySkip \/ Watch
           \/ UNCHANGED vars
  BY <1>7 DEF NewCommit, UpdateBegin, Declare, DeclareSkip, DeclareFail,
     DeclareOK, ApplySkip, Watch, WatchSkip, WatchFail, WatchOK,
     UpdateWatches, vars, remediatorVars, NoOrphanedObjects
<1>8. QED
  BY <1>1, <1>2, <1>3, <1>4, <1>5, <1>6, <1>7 DEF Next, Apply

(* Every live object is recorded in the inventory, whatever the order of  *)
(* failed applies, drift, deletes and remediation: a later apply can      *)
(* always prune it.                                                        *)
THEOREM NoOrphans ==
    ASSUME PauseWaitsForWorker PROVE Spec => []NoOrphanedObjects
<1>1. Init => NoOrphanedObjects
  BY LiveAssumption DEF Init, RemediatorInit, NoOrphanedObjects
<1>2. QED
  BY <1>1, InitIInv, NextIInv, OrphanStep, PTL DEF Spec

(* Resources.Get's result is never stale when the worker writes it: since *)
(* Pause waits for the worker, no cycle changes the store between a        *)
(* worker's read and its write.                                           *)
THEOREM WorkerReadSafety ==
    ASSUME PauseWaitsForWorker PROVE Spec => []WorkerReadIsCurrent
<1>1. IInv => WorkerReadIsCurrent
  BY PauseWaitsForWorker DEF IInv, WorkerInv, WorkerReadIsCurrent
<1>2. QED
  BY <1>1, InitIInv, NextIInv, PTL DEF Spec


-----------------------------------------------------------------------------
(* The declared_resources stream of the installed commit.  Only an        *)
(* accepted declare changes the installed snapshot, and it also clears    *)
(* validationErrs; a refused declare, which may reset the installed       *)
(* commit's stream when it is the old commit, sets validationErrs.  So    *)
(* InstalledCommitCounted is inductive relative to IInv, which supplies   *)
(* the types of the declare's inputs.                                      *)

LEMMA CountStep ==
    IInv /\ InstalledCommitCounted /\ [Next]_vars => InstalledCommitCounted'
<1> SUFFICES ASSUME IInv, InstalledCommitCounted, [Next]_vars
             PROVE  InstalledCommitCounted'
  OBVIOUS
<1>1. CASE DeclareOK
  <2>1. /\ commit' = cache.commit
        /\ objectMap' = NewSet(Source[cache.commit])
        /\ declaredMetric' = RecordDeclared(Source[cache.commit], cache.commit, oldCommit)
    BY <1>1 DEF DeclareOK, UpdateAccepted
  <2>2. declaredMetric \in [DeclaredRows -> Nat]
    BY DEF IInv, TypeOK, StoreTypeOK
  <2>3. RecordDeclared(Source[cache.commit], cache.commit, oldCommit)[[commit |-> cache.commit]]
          = Cardinality(NewSet(Source[cache.commit]))
    BY <1>1, <2>2, DeclareInputs, RecordDeclaredRow DEF DeclareOK
  <2>4. QED
    BY <2>1, <2>3 DEF InstalledCommitCounted
<1>2. CASE DeclareFail
  BY <1>2 DEF DeclareFail, InstalledCommitCounted
<1>3. CASE UNCHANGED <<storeVars, validationErrs>>
  BY <1>3 DEF InstalledCommitCounted, storeVars
<1>4. QED
  BY <1>1, <1>2, <1>3 DEF Next, NewCommit, UpdateBegin, Declare, DeclareSkip,
     Apply, ApplySkip, ApplyFail, ApplyOK, Watch, WatchSkip, WatchFail, WatchOK,
     RemediateGet, RemediateWrite, Drift, ExternalDelete, vars, updaterVars

(* Whenever the last declare was accepted, the installed commit's         *)
(* declared_resources stream holds the number of objects Update kept,     *)
(* whatever the order of commits, refused declares and resets of old      *)
(* commits' streams.                                                       *)
THEOREM DeclaredCountSafety == Spec => []InstalledCommitCounted
<1>1. Init => InstalledCommitCounted
  BY DEF Init, StoreInit, InstalledCommitCounted
<1>2. QED
  BY <1>1, InitIInv, NextIInv, CountStep, PTL DEF Spec

-----------------------------------------------------------------------------
(* A cycle that leaves the remediator paused reports an error.  This one  *)
(* is inductive by itself: every return of update that keeps the          *)
(* remediator paused sets the error of its stage, the return that clears  *)
(* an error comes from a stage that succeeded and hands over to the next, *)
(* and the steps between cycles touch neither the pause nor the errors.   *)

LEMMA StalledStep ==
    StalledCycleIsReported /\ [Next]_vars => StalledCycleIsReported'
<1> SUFFICES ASSUME StalledCycleIsReported, [Next]_vars
             PROVE  StalledCycleIsReported'
  OBVIOUS
<1>1. CASE DeclareFail \/ ApplyFail \/ WatchFail
  BY <1>1 DEF DeclareFail, ApplyFail, WatchFail, StalledCycleIsReported, Errors
<1>2. CASE WatchSkip \/ WatchOK
  BY <1>2 DEF WatchSkip, WatchOK, StalledCycleIsReported
<1>3. CASE UpdateBegin \/ DeclareSkip \/ DeclareOK \/ ApplySkip \/ ApplyOK
  BY <1>3 DEF UpdateBegin, DeclareSkip, DeclareOK, ApplySkip, ApplyOK,
     StalledCycleIsReported
<1>4. CASE UNCHANGED <<pc, paused, validationErrs, applyErrs, watchErrs>>
  BY <1>4 DEF StalledCycleIsReported, Errors
<1>5. QED
  BY <1>1, <1>2, <1>3, <1>4 DEF Next, NewCommit, Declare, Apply, Watch,
     RemediateGet, RemediateWrite, Drift, ExternalDelete, vars, updaterVars,
     remediatorVars

(* Whenever update has returned with the remediator still paused, the     *)
(* updater's Errors() reports it, whatever stages failed or succeeded in  *)
(* earlier cycles.                                                         *)
THEOREM StalledCycleSafety == Spec => []StalledCycleIsReported
<1>1. Init => StalledCycleIsReported
  BY DEF Init, RemediatorInit, StalledCycleIsReported
<1>2. QED
  BY <1>1, StalledStep, PTL DEF Spec

-----------------------------------------------------------------------------
(* No unnoticed drift.  A drifted object of a watched kind is queued or in *)
(* the worker's hands.  The one step that could leave it drifted and      *)
(* unqueued is a worker's write that leaves the object as it is (an       *)
(* object not declared and not in the inventory), and that needs an       *)
(* orphan: so the proof rests on NoOrphanedObjects, and through it on     *)
(* Pause waiting for the worker.  A watch that starts lists every live    *)
(* object of its kind, the drifted ones among them.                       *)

LEMMA DriftStep ==
    PauseWaitsForWorker /\ IInv /\ NoOrphanedObjects /\ NoUnnoticedDrift /\ [Next]_vars
        => NoUnnoticedDrift'
<1> SUFFICES ASSUME PauseWaitsForWorker, IInv, NoOrphanedObjects, NoUnnoticedDrift,
                    [Next]_vars
             PROVE  NoUnnoticedDrift'
  OBVIOUS
<1> USE LiveAssumption
<1>1. CASE ApplyFail \/ ApplyOK
  <2>1. commit \in Commits
    BY <1>1 DEF ApplyFail, ApplyOK, IInv, CycleInv, TypeOK, StoreTypeOK
  <2>2. \A id \in IDs : live'[id] = Drifted => live[id] = Drifted
    BY <1>1, <2>1 DEF ApplyFail, ApplyOK, Actuated
  <2>3. UNCHANGED <<watches, queue, worker>>
    BY <1>1 DEF ApplyFail, ApplyOK
  <2>4. QED
    BY <2>2, <2>3 DEF NoUnnoticedDrift
<1>2. CASE WatchFail \/ WatchOK
  <2>1. PICK G, F : /\ watches' = (G \cap watches) \cup ((G \ watches) \ F)
                    /\ queue' = queue \cup Listed((G \ watches) \ F)
    BY <1>2 DEF WatchFail, WatchOK, UpdateWatches
  <2>2. UNCHANGED <<live, worker>>
    BY <1>2 DEF WatchFail, WatchOK
  <2>3. QED
    BY <2>1, <2>2 DEF NoUnnoticedDrift, Listed
<1>3. CASE \E id \in IDs : RemediateGet(id) /\ UNCHANGED updaterVars
  <2>1. PICK id \in IDs : RemediateGet(id)
    BY <1>3
  <2>2. worker' \in WorkRecords /\ worker'.id = id
    BY <2>1 DEF RemediateGet, Get, WorkRecords, IInv, TypeOK, StoreTypeOK
  <2>3. worker' # NoWork
    BY <2>2
  <2>4. QED
    BY <2>1, <2>2, <2>3 DEF RemediateGet, NoUnnoticedDrift
<1>4. CASE RemediateWrite /\ UNCHANGED updaterVars
  <2> DEFINE w == worker
  <2>1. w \in WorkRecords /\ live \in [IDs -> LiveStates]
    BY <1>4 DEF RemediateWrite, IInv, TypeOK, RemediatorTypeOK
  <2>2. w.found => w.rev \in Commits
    BY <1>4 DEF RemediateWrite, IInv, WorkerInv
  <2>3. Corrected(w) = Drifted => live[w.id] = Drifted /\ w.id \notin inventory
    BY <2>1, <2>2 DEF Corrected
  <2>4. Corrected(w) # Drifted
    BY <2>1, <2>3 DEF NoOrphanedObjects, WorkRecords
  <2>5. QED
    BY <1>4, <2>1, <2>4 DEF RemediateWrite, NoUnnoticedDrift
<1>5. CASE \E id \in IDs : Drift(id) /\ UNCHANGED updaterVars
  BY <1>5 DEF Drift, Watched, NoUnnoticedDrift
<1>6. CASE \E id \in IDs : ExternalDelete(id) /\ UNCHANGED updaterVars
  BY <1>6 DEF ExternalDelete, NoUnnoticedDrift
<1>7. CASE \/ \E c \in Commits, perr \in BOOLEAN : NewCommit(c, perr)
           \/ UpdateBegin \/ Declare \/ ApplySkip \/ WatchSkip
           \/ UNCHANGED vars
  BY <1>7 DEF NewCommit, UpdateBegin, Declare, DeclareSkip, DeclareFail,
     DeclareOK, ApplySkip, WatchSkip, vars, remediatorVars, NoUnnoticedDrift
<1>8. QED
  BY <1>1, <1>2, <1>3, <1>4, <1>5, <1>6, <1>7 DEF Next, Apply, Watch

(* Every drifted object of a watched kind is queued for a worker or being *)
(* corrected, whatever the order of drifts, deletes, failed applies and   *)
(* watches started late: no drift goes unnoticed.                         *)
THEOREM NoDriftUnnoticed ==
    ASSUME PauseWaitsForWorker PROVE Spec => []NoUnnoticedDrift
<1>1. Init => NoOrphanedObjects /\ NoUnnoticedDrift
  BY LiveAssumption DEF Init, RemediatorInit, NoOrphanedObjects, NoUnnoticedDrift
<1>2. QED
  BY <1>1, InitIInv, NextIInv, OrphanStep, DriftStep, PTL DEF Spec

-----------------------------------------------------------------------------
(* The snapshot is replaced only when the remediator is quiet.  Only an   *)
(* accepted declare replaces it; the declare stage runs inside a cycle,   *)
(* so the remediator is paused (CycleInv), and a paused remediator has no *)
(* correction in flight when Pause waits for the worker (WorkerInv).      *)

LEMMA QuietStep ==
    ASSUME PauseWaitsForWorker, IInv, [Next]_vars
    PROVE  <<objectMap, commit>>' # <<objectMap, commit>> => paused /\ worker = NoWork
<1>1. CASE DeclareOK
  <2>1. paused
    BY <1>1 DEF DeclareOK, IInv, CycleInv
  <2>2. worker = NoWork
    BY <2>1, PauseWaitsForWorker DEF IInv, WorkerInv
  <2>3. QED
    BY <2>1, <2>2
<1>2. CASE ~DeclareOK
  <2>1. UNCHANGED <<objectMap, commit>>
    BY <1>2 DEF Next, NewCommit, UpdateBegin, Declare, DeclareSkip, DeclareFail,
       UpdateRejected, Apply, ApplySkip, ApplyFail, ApplyOK, Watch, WatchSkip,
       WatchFail, WatchOK, RemediateGet, RemediateWrite, Drift, ExternalDelete,
       vars, storeVars
  <2>2. QED
    BY <2>1
<1>3. QED
  BY <1>1, <1>2

(* Resources.Update replaces the declared snapshot only while the         *)
(* remediator is paused with no correction in flight, in every behaviour: *)
(* no worker's Resources.Get can race a snapshot replacement.             *)
THEOREM SnapshotQuiet ==
    ASSUME PauseWaitsForWorker PROVE Spec => SnapshotReplacedWhenQuiet
<1>1. IInv /\ [Next]_vars
        => [<<objectMap, commit>>' # <<objectMap, commit>> => paused /\ worker = NoWork]_vars
  BY QuietStep, PauseWaitsForWorker
<1>2. QED
  BY <1>1, InitIInv, NextIInv, PTL DEF Spec, SnapshotReplacedWhenQuiet

-----------------------------------------------------------------------------
(* Update implements SyncContract.  Under the mapping of Updater.Contract *)
(* the cycle's stages are the contract's steps: UpdateBegin suspends, an  *)
(* accepted declare installs, ApplyOK and ApplyFail apply in full and in  *)
(* part, WatchFail rewatches, WatchOK and WatchSkip resume; everything    *)
(* else stutters.  Each step's guard comes from IInv: the stage runs      *)
(* inside a cycle, so the remediator is paused (CycleInv), and at the     *)
(* watch stage the store's commit is applied and recorded (CycleInv) and  *)
(* a skipped watch update left the watches on the declared kinds          *)
(* (FlagsInv).                                                             *)

(* The initial state is the contract's: nothing installed, applied,      *)
(* recorded or watched, and the remediator running.                      *)
THEOREM InitContract == Init => Contract!ContractInit
BY DEF Init, StoreInit, RemediatorInit, Contract!ContractInit

LEMMA ContractStep ==
    IInv /\ [Next]_vars => [Contract!ContractNext]_Contract!contractVars
<1> SUFFICES ASSUME IInv, [Next]_vars
             PROVE  [Contract!ContractNext]_Contract!contractVars
  OBVIOUS
<1> DEFINE Stutter == UNCHANGED <<commit, objectMap, appliedCommit, inventory,
                                  watches, paused>>
<1>0. Stutter => UNCHANGED Contract!contractVars
  BY DEF Contract!contractVars
<1>2. CASE \E c \in Commits, perr \in BOOLEAN : NewCommit(c, perr)
  BY <1>0, <1>2 DEF NewCommit, storeVars, remediatorVars
<1>3. CASE UpdateBegin
  <2>1. Contract!Suspend
    BY <1>3 DEF UpdateBegin, storeVars, Contract!Suspend
  <2>2. QED
    BY <2>1 DEF Contract!ContractNext
<1>4. CASE DeclareSkip \/ DeclareFail
  BY <1>0, <1>4 DEF DeclareSkip, DeclareFail, UpdateRejected, storeVars,
     remediatorVars
<1>5. CASE DeclareOK
  <2>1. cache.commit \in Commits /\ paused
    BY <1>5, DeclareInputs DEF DeclareOK, IInv, CycleInv
  <2>2. Contract!Install(cache.commit)
    BY <1>5, <2>1 DEF DeclareOK, UpdateAccepted, remediatorVars, Contract!Install
  <2>3. QED
    BY <2>1, <2>2 DEF Contract!ContractNext
<1>6. CASE ApplySkip
  BY <1>0, <1>6 DEF ApplySkip, storeVars, remediatorVars
<1>7. CASE ApplyFail
  <2>1. Contract!ApplyPart
    BY <1>7 DEF ApplyFail, storeVars, IInv, CycleInv, Contract!ApplyPart
  <2>2. QED
    BY <2>1 DEF Contract!ContractNext
<1>8. CASE ApplyOK
  <2>1. Contract!ApplyAll
    BY <1>8 DEF ApplyOK, storeVars, IInv, CycleInv, Contract!ApplyAll
  <2>2. QED
    BY <2>1 DEF Contract!ContractNext
<1>9. CASE WatchSkip
  <2>1. appliedCommit = commit /\ inventory = objectMap
    BY <1>9 DEF WatchSkip, IInv, CycleInv
  <2>2. watches = Contract!Kinds(objectMap)
    BY <1>9 DEF WatchSkip, IInv, FlagsInv, DeclaredGVKs, Contract!Kinds
  <2>3. Contract!Resume
    BY <1>9, <2>1, <2>2 DEF WatchSkip, storeVars, Contract!Resume
  <2>4. QED
    BY <2>3 DEF Contract!ContractNext
<1>10. CASE WatchFail
  <2>1. paused
    BY <1>10 DEF WatchFail, IInv, CycleInv
  <2>2. watches' \subseteq Contract!Kinds(objectMap)
    BY <1>10 DEF WatchFail, UpdateWatches, DeclaredGVKs, Contract!Kinds
  <2>3. Contract!Rewatch
    BY <1>10, <2>1, <2>2 DEF WatchFail, storeVars, Contract!Rewatch
  <2>4. QED
    BY <2>3 DEF Contract!ContractNext
<1>11. CASE WatchOK
  <2>1. appliedCommit = commit /\ inventory = objectMap
    BY <1>11 DEF WatchOK, IInv, CycleInv
  <2>2. watches' = Contract!Kinds(objectMap)
    BY <1>11, UpdateWatchesAll DEF WatchOK, UpdateWatches, DeclaredGVKs, Contract!Kinds
  <2>3. Contract!Resume
    BY <1>11, <2>1, <2>2 DEF WatchOK, storeVars, Contract!Resume
  <2>4. QED
    BY <2>3 DEF Contract!ContractNext
<1>12. CASE \/ \E id \in IDs : RemediateGet(id) /\ UNCHANGED updaterVars
            \/ RemediateWrite /\ UNCHANGED updaterVars
            \/ \E id \in IDs : Drift(id) /\ UNCHANGED updaterVars
            \/ \E id \in IDs : ExternalDelete(id) /\ UNCHANGED updaterVars
  BY <1>0, <1>12 DEF RemediateGet, RemediateWrite, Drift, ExternalDelete,
     updaterVars, storeVars
<1>13. CASE UNCHANGED vars
  BY <1>0, <1>13 DEF vars, storeVars, remediatorVars, updaterVars
<1>14. QED
  BY <1>2, <1>3, <1>4, <1>5, <1>6, <1>7, <1>8, <1>9, <1>10, <1>11, <1>12, <1>13
  DEF Next, Declare, Apply, Watch

(* Update implements SyncContract in every behaviour: the remediator is   *)
(* only ever suspended, handed a snapshot, its inventory and watches      *)
(* moved, and resumed in the order the contract allows.                   *)
THEOREM Refinement == Spec => ImplementsContract
BY InitContract, InitIInv, NextIInv, ContractStep, PTL
DEF Spec, ImplementsContract, Contract!ContractSpec


(* What the contract promises therefore holds of Update: whenever the     *)
(* remediator runs, the store's commit is the one applied, the inventory  *)
(* records the store's snapshot and the watches are its kinds.            *)
THEOREM ContractKept == Spec => []Contract!ContractSafe
BY Refinement, Contract!ContractSafety DEF ImplementsContract

=============================================================================
