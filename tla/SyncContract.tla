---------------------------- MODULE SyncContract ----------------------------
(***************************************************************************)
(* What Updater.Update promises the remediator, as its doc comment and    *)
(* the comment before Resume state it: the remediator is stopped while a  *)
(* snapshot is declared, applied and watched, and it is restarted only    *)
(* after the snapshot it will correct towards has been applied and        *)
(* watched in full, so that no worker writes an object out of the         *)
(* applier's dependency order.                                             *)
(*                                                                         *)
(* Each stage is one atomic step here: a snapshot is installed, the       *)
(* applier records it whole or in part, the watches change; how a stage  *)
(* is skipped, fails or retries is left to the implementation.            *)
(***************************************************************************)
EXTENDS TLAPS

CONSTANTS
    Commits,    \* source commits
    NoCommit,   \* the empty commit of the initial, empty snapshot
    KindOf,     \* KindOf[id]: the kind of object id
    Snapshot    \* Snapshot[c]: the objects a declare of commit c installs

VARIABLES
    installed,  \* the commit of the snapshot the remediator corrects towards
    snapshot,   \* its objects
    applied,    \* the commit the applier last applied in full
    recorded,   \* the objects the inventory records
    watched,    \* the kinds the remediator watches
    running     \* the remediator's workers run

contractVars == <<installed, snapshot, applied, recorded, watched, running>>

(* The kinds of the objects of a snapshot.                                 *)
Kinds(objs) == {KindOf[id] : id \in objs}

ContractInit ==
    /\ installed = NoCommit
    /\ snapshot = {}
    /\ applied = NoCommit
    /\ recorded = {}
    /\ watched = {}
    /\ running = TRUE

(* Update pauses the remediator.                                           *)
Suspend ==
    /\ running' = FALSE
    /\ UNCHANGED <<installed, snapshot, applied, recorded, watched>>

(* A declare installs a commit's snapshot, only while the remediator is   *)
(* stopped.                                                                *)
Install(c) ==
    /\ ~running
    /\ installed' = c
    /\ snapshot' = Snapshot[c]
    /\ UNCHANGED <<applied, recorded, watched, running>>

(* An apply that succeeds records exactly the snapshot.                    *)
ApplyAll ==
    /\ ~running
    /\ applied' = installed
    /\ recorded' = snapshot
    /\ UNCHANGED <<installed, snapshot, watched, running>>

(* An apply that fails has recorded every object of the snapshot first.   *)
ApplyPart ==
    /\ ~running
    /\ recorded' = recorded \cup snapshot
    /\ UNCHANGED <<installed, snapshot, applied, watched, running>>

(* The watches move towards the snapshot's kinds: the ones kept and the   *)
(* ones that start are kinds of the snapshot.                              *)
Rewatch ==
    /\ ~running
    /\ watched' \subseteq Kinds(snapshot)
    /\ UNCHANGED <<installed, snapshot, applied, recorded, running>>

(* Resume, once the installed snapshot is applied and its watches are    *)
(* all running (the last watch update and Resume are one step).           *)
Resume ==
    /\ applied = installed
    /\ recorded = snapshot
    /\ watched' = Kinds(snapshot)
    /\ running' = TRUE
    /\ UNCHANGED <<installed, snapshot, applied, recorded>>

ContractNext ==
    \/ Suspend
    \/ \E c \in Commits : Install(c)
    \/ ApplyAll
    \/ ApplyPart
    \/ Rewatch
    \/ Resume

ContractSpec == ContractInit /\ [][ContractNext]_contractVars

(* The promise: while the remediator runs, the snapshot it corrects       *)
(* towards is the one applied, recorded and watched in full.              *)
ContractSafe ==
    running => /\ applied = installed
               /\ recorded = snapshot
               /\ watched = Kinds(snapshot)

(* The contract keeps its promise: ContractSafe is inductive, since every *)
(* step but Suspend and Resume needs the remediator stopped, Suspend      *)
(* stops it and Resume establishes the three equalities it resumes on.    *)
THEOREM ContractSafety == ContractSpec => []ContractSafe
<1>1. ContractInit => ContractSafe
  BY DEF ContractInit, ContractSafe, Kinds
<1>2. ContractSafe /\ [ContractNext]_contractVars => ContractSafe'
  BY DEF ContractSafe, ContractNext, contractVars, Suspend, Install, ApplyAll,
     ApplyPart, Rewatch, Resume
<1>3. QED
  BY <1>1, <1>2, PTL DEF ContractSpec

=============================================================================
