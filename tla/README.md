# TLA+ verification of the Config Sync reconcile core

This directory models the reconcile core of the repository (spec.md, `src/`)
in TLA+, checks the models with TLC on small instances and proves the main
safety properties with TLAPS for every value of the constants.

## 1. Inventory of the system

| Component | Source | State it keeps | Operations |
|---|---|---|---|
| Declared-Resource Store | `src/pkg/declared/resources.go` | the snapshot pointer `objectMap` and its `commit`, under an RWMutex; the `declared_resources` gauge per commit (`src/pkg/metrics/record.go`) | `Update` (skip nil objects, record the gauge, reset the old commit's stream, refuse a deletion of all namespaces, swap the snapshot), `Get`, `DeclaredObjects`, `DeclaredUnstructureds`, `DeclaredGVKs` |
| Updater | `src/unnamed/part_001` lines 67-329 (package `parse`) | `updateMux`, `updating`, `validationErrs`, `watchErrs`; the caller's `cacheForCommit` with `declaredResourcesUpdated`, `applied`, `watchesUpdated`, `parserErrs` | `Update` = Pause, declare, apply, watch, Resume, each stage skipped when its flag is set, the first failing stage returning at once; `Errors`, `Updating` |
| Applier | `src/unnamed/part_003` (cli-utils `apply.Applier.Run`) | the inventory object, the live objects and their inventory-id annotation, the task context | validate, get or create the inventory, check its id, prepare apply and prune sets, build filters and the task queue, handle the validation policy, run the tasks |
| Remediator | not in `src/` (spec 4.4) | paused flag, running watches, work queue, a worker's correction in flight | `Pause`, `Resume`, `UpdateWatches`, worker correction (`Resources.Get`, then the write) |
| Inventory client | not in `src/` (spec 4.2) | the inventory object | Get, create, update, delete |
| Event Publisher Group | `src/unnamed/part_001` lines 24-66 | publisher configuration | `Build`: one publisher per positive period |
| Metrics / telemetry | `src/pkg/metrics/record.go`, `views.go`, `src/unnamed/part_000` (collector configuration) | the data of the 14 OpenCensus views | the 14 recorders; the collector's `aggregate_labels` max transforms |
| Applier client set | `src/unnamed/part_000` lines 352-462 | clients | `NewClientSet` |

**Interactions.** The parser's run loop (not in `src/`) calls `Updater.Update`
once per trigger, serialised by `updateMux`. `Update` pauses the remediator,
writes the store through `Resources.Update`, reads it back
(`DeclaredObjects`, `DeclaredGVKs`), calls the applier and the remediator's
`UpdateWatches`, and resumes the remediator. The remediator's workers run
concurrently, read the store and write the cluster. External actors change and
delete live objects at any time; watchers turn those changes into queue
entries. `Errors()` is read concurrently with `Update` under `errorMux`.

**What is hard.** The remediator racing the applier (the pause bracket);
partial progress across cycles (the skip flags); stages that fail half-way
(apply writes some objects, some watches start); drift on kinds that are not
watched yet; the gauge recorded before validation; the unlocked read of
`updating`; the remediator staying paused while apply keeps failing
(liveness); the applier's unbuffered event channel; a lost inventory object;
pruning a namespace still in use.

**Properties that make each component correct.**
- Store: a refused update changes nothing observable; the gauge shows the
  installed snapshot; readers see a whole snapshot.
- Updater: the remediator runs only on a fully applied and watched snapshot;
  the progress flags never claim undone work; a cycle that leaves the
  remediator paused is reported by `Errors()`.
- Applier: no live object owned by this sync is missing from the inventory;
  objects owned by another inventory are never overwritten or pruned; a
  namespace with local objects is never pruned; invalid objects are kept.
- Remediator: every drifted object of a watched kind is queued; drift is
  eventually corrected once a cycle succeeds.
- Publishers: a failed cycle is eventually retried.

## 2. Modules

| Module | Models | State (VARIABLES) |
|---|---|---|
| `DeclaredResources` | `Resources.Update`, `DeclaredGVKs`, the gauge | `objectMap` (set of IDs), `commit`, `declaredMetric` |
| `Metrics` | `views.go` (every view: measure, tag keys, aggregation), `record.go` (every recorder as the measurements it records, `record` as row aggregation), the collector's `aggregate_labels` max | - (operators) |
| `MetricsRecorders` | the metrics package as a state machine: one action per recorder | `views`, `now`, and history variables `lastErrs`, `lastSyncAt` |
| `MC_Metrics` | the instance TLC checks | - |
| `Remediator` | remediator, watchers, live cluster, inventory (spec-modelled); `Resources.Get` | `live`, `inventory`, `paused`, `watches`, `queue`, `worker` |
| `Updater` | `Updater.Update`/`update`/`declare`/`apply`/`watch`, `Errors` | `cache`, `oldCommit`, `pc`, `appliedCommit`, `validationErrs`, `applyErrs`, `watchErrs` |
| `SyncContract` | what `Update` promises the remediator (its doc comment and the comment before `Resume`), as an abstract specification | `installed`, `snapshot`, `applied`, `recorded`, `watched`, `running` |
| `MC_Updater` | the instance TLC checks | - |
| `UpdaterProofs` | TLAPS proofs about `Updater` | - |
| `MetricsTheorems` | lemmas about `record` (row aggregation) | - |
| `MetricsProofs` | TLAPS proofs about `MetricsRecorders` | - |

`Updater` EXTENDS `Remediator`, which EXTENDS `DeclaredResources`, which EXTENDS
`Metrics`; `MetricsRecorders` EXTENDS `Metrics`. `Updater` INSTANCEs
`SyncContract` as `Contract` under the refinement mapping `installed <-
commit`, `snapshot <- objectMap`, `applied <- appliedCommit`, `recorded <-
inventory`, `watched <- watches`, `running <- ~paused`, `Snapshot[c] <-
NewSet(Source[c])`. The store's gauge is the
`DeclaredResourcesView` of `Metrics`, recorded through the same `Record` and
exported through the same `AggregateLabelsMax` as every other view.

**Abstraction.** An object is its ID; the content of object `id` at commit
`c` is the pair `<<c, id>>`, so `live[id]` is the commit whose content the
live object carries, `Drifted` or `Absent`. `Source[c]` is the parser's output
for commit `c` (a set of IDs, possibly with a nil object). `Update` runs as a
sequence of steps with `pc` naming the next stage (`"declare"`, `"apply"`,
`"watch"`); `Updating == pc # "idle"`. Each stage is three actions: the skip
(flag set), the failure (early return, remediator left paused) and the
success (flag set to `~parserErrs`). The last stage also resumes the
remediator. The applier is, for now, the effect of one `Apply` call: on
success every declared object is written, every inventory object no longer
declared is pruned, and the inventory becomes the declared set; on failure
some declared objects are written and the inventory is extended with the
declared set first (cli-utils' pre-apply inventory task), nothing pruned.
`NewCommit` stands for the parser producing a new commit: a fresh cache, and
the previous cache's commit becomes `oldCommit`.

**The contract.** `SyncContract` states the pause bracket of
`update()` with each stage one atomic step: `Suspend` (Pause), `Install(c)`
(a declare, only while suspended), `ApplyAll` / `ApplyPart` (an apply that
succeeds records exactly the snapshot; one that fails has recorded all of
it first), `Rewatch` (watches move within the snapshot's kinds) and
`Resume`, allowed only when the installed commit is applied, the inventory
records the snapshot and the watches become its kinds. Under the mapping,
`UpdateBegin` is `Suspend`, `DeclareOK` is `Install`, `ApplyOK` and
`ApplyFail` are `ApplyAll` and `ApplyPart`, `WatchFail` is `Rewatch`,
`WatchOK` and `WatchSkip` are `Resume`; the skips, a refused declare,
`NewCommit` and every remediator and cluster step leave the contract's
variables alone.

A remediator correction is two steps of one worker: `RemediateGet` dequeues
an ID and reads it with `Resources.Get` (found, commit); `RemediateWrite`
writes the live object from what was read (the declared content if found,
a deletion if the object is only in the inventory) and the watcher queues
the change. The constant `PauseWaitsForWorker` says whether `Pause` returns
only once no correction is in flight; `UpdateBegin` waits for the worker
when it is `TRUE`. The remediator's code is not in `src/`, so both
behaviours are checked.

**Metrics.** A view's data is a function from rows (the tag map projected
on the view's keys, a missing key reading as the empty tag) to values;
`Record` aggregates a call's measurements into every view of their measure
(LastValue keeps the value; Count and Distribution count). Durations and
histogram bounds are abstracted away. `MetricsRecorders` calls any recorder
with tag values from small sets (the commit may be empty) and a clock for
`time.Now()`.

## 3. Runs

| Run | Config | Checks | Result |
|---|---|---|---|
| `updater_cycle` | `MC_Updater.cfg` | `TypeOK`, `RemediatorRunsOnAppliedSnapshot`, `CacheFlagsSound`, `NoOrphanedObjects`, `NoUnnoticedDrift`, `StalledCycleIsReported`, `InstalledCommitCounted`, `WorkerReadIsCurrent`, `SnapshotReplacedWhenQuiet` (action property), `ImplementsContract` (refinement) | pass, 937,478 distinct states |
| `declared_metric` | `MC_Updater_metric.cfg` | `DeclaredResourcesExported` | violation (finding) |
| `pause_inflight` | `MC_Updater_pause.cfg` (`PauseWaitsForWorker = FALSE`) | `NoOrphanedObjects` | violation (finding) |
| `metrics_recorders` | `MC_Metrics.cfg` | `MetricsTypeOK`, `ReconcilerErrorsCurrent`, `LastSyncExportedIsLatest`, `ApplyViewsAgree` | pass, 29,070 distinct states |

**Bounds.** `MC_Updater`: three objects of three kinds (a namespace, a
ConfigMap, a Role) and three commits: `c1 = {ns, cm}`,
`c2 = {ns, cm, role, nil}`, `c3 = {cm}`. This makes every branch happen:
`c3` after `c1`/`c2` deletes every namespace and is refused; `c3` first,
then `c1`, is accepted; `c2 -> c1` shrinks the snapshot and drops a kind (a
watch stops), `c1 -> c2` adds one (a watch starts and lists existing
objects); the nil object is skipped; parse errors keep flags unset; a
worker's read can straddle a whole cycle. Every object can drift or be
deleted, and an apply may write any subset of the declared objects before
failing. There is no counter to bound. `MC_Metrics`: one value per tag key,
two statuses and two commits (plus the empty commit), the three supported
error classes with at most one error each, and `MaxTime = 3` recorder calls:
a class with errors and then none and two syncs of one status at two commits
all fit. Its behaviours stop after `MaxTime`
calls, so that run does not check deadlock.

**Findings.**
- `declared_metric`: `Resources.Update` zeroes only the stream of the
  `oldCommit` its caller passes (resources.go 71-80). The caller passes the
  previous cache's commit, which need not be the last commit declared: `c2`
  (3 objects) declared and failed to apply, `c3` parsed and superseded by
  `c1` before its declare, `c1` (2 objects) declared. `c3`'s stream is reset,
  `c2`'s stays at 3, and `current_declared_resources` (max over commits)
  exports 3. `InstalledCommitCounted` (the installed commit's own stream is
  right) holds; the export does not.
- `pause_inflight`: if `Pause` returns while a correction is in flight, the
  cycle can prune an object the worker read, and the worker's write
  recreates it outside the inventory. Spec 4.4 does not say that `Pause`
  waits; the safety of the pause bracket depends on it.

Every property of the passing runs has a mutant in PROJECT.json, a plausible
bug in the mapped code that TLC catches: no pause at the start of `Update`;
a refused declare that does not return; a refused declare that does not
record its error; a failed apply without the pre-apply inventory upsert; a
new watch that does not list existing objects; `Update` keeping nil objects;
the gauge counting the nil object; `Pause` not waiting for the worker; a
counter counted down; only the occurring error classes recorded; the status
and commit swapped in `RecordLastSync`; `RecordApplyDuration` recording only
the duration.

## 4. Proofs

`UpdaterProofs` proves, from `StoreAssumption` and `LiveAssumption` only
(finite `IDs`, `Kind` a function into `GVKs`, the sentinels distinct from
commits):

- `TypeCorrect`: `Spec => []TypeOK`;
- `RemediatorSafety`: `Spec => []RemediatorRunsOnAppliedSnapshot`;
- `FlagsSafety`: `Spec => []CacheFlagsSound`;
- `NoOrphans`: `PauseWaitsForWorker` implies `Spec => []NoOrphanedObjects`;
- `WorkerReadSafety`: `PauseWaitsForWorker` implies
  `Spec => []WorkerReadIsCurrent`;
- `DeclaredCountSafety`: `Spec => []InstalledCommitCounted`;
- `StalledCycleSafety`: `Spec => []StalledCycleIsReported`;
- `NoDriftUnnoticed`: `PauseWaitsForWorker` implies
  `Spec => []NoUnnoticedDrift`;
- `SnapshotQuiet`: `PauseWaitsForWorker` implies the action property
  `SnapshotReplacedWhenQuiet` (the snapshot changes only in a step taken
  while the remediator is paused with no correction in flight);
- `Refinement`: `Spec => ImplementsContract`, i.e. `Updater` implements
  `SyncContract`; and `ContractKept`: `Spec => []Contract!ContractSafe`,
  from `Refinement` and `SyncContract`'s own `ContractSafety`
  (`ContractSpec => []ContractSafe`, where `ContractSafe` is inductive by
  itself: every step but `Suspend` and `Resume` requires the remediator
  stopped).

None of these is inductive alone. The inductive invariant `IInv` adds
`CycleInv` (while a cycle runs the remediator is paused; from the apply stage
on the store holds the cache's commit; at the watch stage that commit has been
applied; a stage after an error-free parse finds the earlier flags set),
`FlagsInv` (each flag implies the earlier ones and its stage's effect, without
the guard on the empty commit), `SnapshotInv` (the empty commit has an
empty snapshot, which keeps live states well typed) and `WorkerInv` (a worker
that found its object read a real commit; when `Pause` waits, a correction
in flight runs while the remediator is not paused, on the installed
snapshot). `WorkerInv` is why no cycle step disturbs an in-flight read: a
cycle step runs only while the remediator is paused, and `UpdateBegin`
pauses it only with the worker idle. The gauge's typing rests on the lemma
`RecordType` (`record` keeps a view's data a function from rows to counts). The step proof has one
case per action and, under it, one step per conjunct the action can disturb;
`WatchOK` is the step that needs `CycleInv` to re-establish the remediator
property. `IInv` was checked by TLC on the `MC_Updater` instance before
being proved. `NoOrphans` uses `IInv` to know that a worker's write only recreates an
object the inventory lists: it read the object from the installed snapshot
while the remediator ran, hence after the snapshot was applied.

The later theorems rest on `IInv` too. `InstalledCommitCounted` is
inductive relative to `IInv`: an accepted declare sets the new commit's row
to the size of the kept objects (lemma `RecordDeclaredRow`, built on
`RecordLastValue`: a LastValue view sets the measurement's row and keeps
the others), and the reset of the old commit's row cannot hit the new
commit; a refused declare sets `validationErrs`. `StalledCycleIsReported`
is inductive by itself: every step that ends a cycle with the remediator
paused sets an error flag, and only a resume or a successful stage of a
new cycle clears one. `NoUnnoticedDrift` needs `NoOrphanedObjects`
(and so `Pause` waiting for the worker): the one step that could leave an
object drifted and unqueued is a worker write that leaves it as it is, and
that happens only for a live object neither declared nor in the inventory,
an orphan; a watch that starts lists every live object of its kind, the
drifted ones among them. The action property and the
refinement need no new invariant: a snapshot changes only in `DeclareOK`,
which runs inside a cycle (`CycleInv`: paused), and a paused remediator has
no worker when `Pause` waits (`WorkerInv`); each refinement step's guard is
`CycleInv` (the stage runs paused; at the watch stage the commit is applied
and recorded) or `FlagsInv` (a skipped watch update left the watches on
the declared kinds), and `WatchOK`'s watches are the declared kinds by the
lemma `UpdateWatchesAll`.

`MetricsProofs` proves `ApplyViewsInStep`: `MetricsSpec => []ApplyViewsAgree`
for every tag domain and bound. `ApplyViewsAgree` alone is not inductive; the
invariant `AInv` adds that the two views are functions from the same rows
(they have the same tag keys) to counts and that the clock is positive. A
call of any other recorder leaves both views alone (lemma
`RecordOtherMeasure` of `MetricsTheorems`: a view ignores measurements of
other measures); `RecordApplyDuration` puts its two measurements, sharing
one tag map, in the same row of each view, a count of at least 1 in one and
a timestamp of at least 1 in the other. `MetricsTheorems` also holds
`RecordType`, which both proof modules use.

`MetricsProofs` also proves, for every tag domain and bound,
`MetricsTypeCorrect` (`[]MetricsTypeOK`), `LastSyncSafety`
(`[]LastSyncExportedIsLatest`) and `ReconcilerErrorsSafety`
(`[]ReconcilerErrorsCurrent`). Their inductive invariants: `SyncInv` says
every `last_sync_timestamp` row of a status is at most the time of that
status' last sync, some row equals it, and the clock is past it, so the
collector's max (lemma `AggregateMax`) exports it; `ErrInv` says each
`reconciler_errors` row is the count of its class in the component's last
call, or 0. These need the assumption, added to `MetricsAssumption`, that
every view's tag keys are keys of `TagDomain`.

Every property of the two passing runs is now proved for all constants.
What stays with TLC: the two violation runs (`DeclaredResourcesExported`,
`NoOrphanedObjects` without a waiting `Pause`), which are counterexamples, not
theorems. **Out of TLAPS' reach** in general: liveness under fairness and
ENABLED (no liveness property is stated yet); facts about recursive
definitions over all inputs.

## 5. Not modelled

The store's readers' copy semantics and RWMutex (Go's mutex makes the
snapshot read atomic; a model of it would hold by construction); the
remediator's conflict and resource-fight errors; the internal_errors
measurement of a skipped nil object inside the `Updater` model (its recorder
is modelled in `MetricsRecorders`); histogram bounds, metric names and
descriptions, the collector's other processors and exporters;
`NewClientSet` (wiring); manifests and e2e tests.

## 6. Plan

1. (done) `DeclaredResources`, `Remediator`, `Updater`: the cycle, its
   flags and failure paths against a concurrent remediator and external
   drift; type, remediator, flag and orphan theorems.
1b. (done) The worker's read/write split and whether `Pause` waits;
   `Metrics`/`MetricsRecorders`: every view and recorder, the collector's
   max aggregation; the exported gauges checked.
2. `Applier`: `Applier.Run` in detail - validation policy (ExitEarly,
   SkipInvalid, invalid policy), inventory get/create and id check,
   `prepareObjects` (no inventory in the local set, inventory-id
   annotation, prune set), the filters (inventory policy, prevent-remove,
   `localNamespaces`, dependency), pre-apply inventory, apply and prune
   waves, final inventory, the event channel. Properties: conflict safety
   (an object of another inventory is never written or pruned), local
   namespaces never pruned, invalid objects retained, no orphans across a
   crash between tasks. Refinement: `Applier` implements the abstract
   `Apply` step of `Updater` (mapping a completed run to `ApplyOK` /
   `ApplyFail`), checked as a PROPERTY with `INSTANCE ... WITH`.
3. `Publishers`: `PublishingGroupBuilder.Build` and the single-threaded
   event loop (sync timer reset on other events, retry backoff after a
   failed cycle, status updates), composed with `Updater`. Liveness under
   weak fairness of the loop and the workers: `RemediatorEventuallyResumes`
   and `DriftEventuallyCorrected` once failures stop; the unlocked
   `Updating()` read as a nondeterministic stale read.
4. Two syncs sharing a cluster (the e2e multi-sync scenarios): management
   conflicts, each object written by one manager.
5. Proofs: the Applier's conflict safety and its refinement of the
   `Apply` step.
