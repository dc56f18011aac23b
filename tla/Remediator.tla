----------------------------- MODULE Remediator -----------------------------
(***************************************************************************)
(* The remediator (spec section 4.4) and the live cluster it corrects.     *)
(* Watchers on the watched kinds queue the IDs of changed live objects; a  *)
(* worker, while the remediator is not paused, takes an ID and makes the   *)
(* live object match the installed snapshot of DeclaredResources.          *)
(*                                                                         *)
(* live[id] is the commit whose declared content the live object carries, *)
(* Drifted when someone else changed it, Absent when it does not exist.    *)
(* inventory is the set of IDs recorded in the ResourceGroup inventory.    *)
(*                                                                         *)
(* A correction is two steps of one worker: it dequeues an ID and reads    *)
(* the declared object with Resources.Get, then writes the live object.   *)
(* Whether Pause waits for a correction in flight is not in the source:   *)
(* PauseWaitsForWorker states it (see Updater's UpdateBegin).             *)
(***************************************************************************)
EXTENDS DeclaredResources

CONSTANTS
    Absent,   \* no live object
    Drifted,  \* a live object changed by an actor other than this sync
    NoWork,   \* the worker has no correction in flight
    PauseWaitsForWorker  \* Pause returns only once the worker is idle

(* What a worker holds between its read and its write: the ID and what   *)
(* Resources.Get returned for it.                                          *)
WorkRecords == [id : IDs, found : BOOLEAN, rev : Commits \cup {NoCommit}]

ASSUME LiveAssumption ==
    /\ Absent \notin Commits
    /\ Drifted \notin Commits \cup {Absent}
    /\ NoWork \notin WorkRecords
    /\ PauseWaitsForWorker \in BOOLEAN

VARIABLES
    live,       \* live[id]: the state of the live object id
    inventory,  \* the IDs the inventory object lists
    paused,     \* the remediator's workers are paused
    watches,    \* the kinds with a running watch
    queue,      \* the IDs queued for a worker (duplicates collapse)
    worker      \* NoWork, or the correction the worker has in flight

remediatorVars == <<live, inventory, paused, watches, queue, worker>>

LiveStates == Commits \cup {Absent, Drifted}

RemediatorTypeOK ==
    /\ live \in [IDs -> LiveStates]
    /\ inventory \subseteq IDs
    /\ paused \in BOOLEAN
    /\ watches \subseteq GVKs
    /\ queue \subseteq IDs
    /\ worker \in WorkRecords \cup {NoWork}

RemediatorInit ==
    /\ live = [id \in IDs |-> Absent]
    /\ inventory = {}
    /\ paused = FALSE
    /\ watches = {}
    /\ queue = {}
    /\ worker = NoWork

(* The IDs a watcher queues when the objects in ids change.               *)
Watched(ids) == {id \in ids : Kind[id] \in watches}

(* A new watch lists the existing objects of its kind and queues them.    *)
Listed(kinds) == {id \in IDs : Kind[id] \in kinds /\ live[id] # Absent}

(* Mutant: a new watch does not list the objects that already exist.     *)
UpdateWatchesNoList(gvks, failed) ==
    LET started == (gvks \ watches) \ failed
    IN  /\ watches' = (gvks \cap watches) \cup started
        /\ UNCHANGED queue

(* UpdateWatches(gvks): start the missing watches, stop the extra ones.   *)
(* The watches of the kinds in failed do not start; the call then returns *)
(* an error.                                                               *)
UpdateWatches(gvks, failed) ==
    LET started == (gvks \ watches) \ failed
    IN  /\ watches' = (gvks \cap watches) \cup started
        /\ queue' = queue \cup Listed(started)

(* Resources.Get(id): whether the installed snapshot declares id, and the *)
(* snapshot's commit (an empty snapshot declares nothing).                *)
Get(id) == [found |-> id \in objectMap, rev |-> commit]

(* A running worker takes a queued ID and reads its declared object.      *)
RemediateGet(id) ==
    /\ ~paused
    /\ worker = NoWork
    /\ id \in queue
    /\ queue' = queue \ {id}
    /\ worker' = [id |-> id, found |-> Get(id).found, rev |-> Get(id).rev]
    /\ UNCHANGED <<live, inventory, paused, watches, storeVars>>

(* The live state the worker's write leaves: a declared object gets the   *)
(* content it read, an undeclared object the inventory lists is deleted.  *)
Corrected(w) ==
    CASE w.found                                 -> w.rev
      [] live[w.id] # Absent /\ w.id \in inventory -> Absent
      [] OTHER                                   -> live[w.id]

(* The worker writes the live object, whether or not the remediator has  *)
(* been paused since its read; the watcher queues the change it sees.    *)
RemediateWrite ==
    /\ worker # NoWork
    /\ live' = [live EXCEPT ![worker.id] = Corrected(worker)]
    /\ queue' = IF Corrected(worker) # live[worker.id]
                THEN queue \cup Watched({worker.id}) ELSE queue
    /\ worker' = NoWork
    /\ UNCHANGED <<inventory, paused, watches, storeVars>>

(* Another actor modifies a live object; its watcher queues it.           *)
Drift(id) ==
    /\ live[id] # Absent
    /\ live' = [live EXCEPT ![id] = Drifted]
    /\ queue' = queue \cup Watched({id})
    /\ UNCHANGED <<inventory, paused, watches, worker, storeVars>>

(* Another actor deletes a live object; its watcher queues it.            *)
ExternalDelete(id) ==
    /\ live[id] # Absent
    /\ live' = [live EXCEPT ![id] = Absent]
    /\ queue' = queue \cup Watched({id})
    /\ UNCHANGED <<inventory, paused, watches, worker, storeVars>>

=============================================================================
