------------------------- MODULE DeclaredResources -------------------------
(***************************************************************************)
(* The declared-resource store of pkg/declared/resources.go: one snapshot  *)
(* (objectMap, commit) replaced as a whole under a write lock, and the     *)
(* declared_resources gauge that Update records on the way.                *)
(*                                                                         *)
(* An object is abstracted to its ID: the content of object id in the     *)
(* snapshot of commit c is the pair <<c, id>>, so a live object is         *)
(* described by the commit whose content it carries (see Remediator).      *)
(***************************************************************************)
EXTENDS Metrics, FiniteSets

CONSTANTS
    IDs,          \* object IDs (group, kind, namespace, name)
    GVKs,         \* group-version-kinds
    Kind,         \* Kind[id]: the GVK of object id
    NamespaceIDs, \* the IDs whose kind is Namespace
    Commits,      \* source commits
    NilObj,       \* a nil client.Object in the parser's output
    Source        \* Source[c]: the objects the parser produced for commit c

(* The empty commit string "".                                           *)
NoCommit == EmptyTag

ASSUME StoreAssumption ==
    /\ IsFiniteSet(IDs)
    /\ Kind \in [IDs -> GVKs]
    /\ NamespaceIDs \subseteq IDs
    /\ NoCommit \notin Commits
    /\ NilObj \notin IDs
    /\ Source \in [Commits -> SUBSET (IDs \cup {NilObj})]

VARIABLES
    objectMap,      \* the IDs of the installed snapshot
    commit,         \* the commit of the installed snapshot
    declaredMetric  \* the rows of DeclaredResourcesView, one per commit tag

storeVars == <<objectMap, commit, declaredMetric>>

(* The rows of DeclaredResourcesView: its only tag key is the commit.      *)
DeclaredRows == {[commit |-> c] : c \in Commits}

StoreTypeOK ==
    /\ objectMap \subseteq IDs
    /\ commit \in Commits \cup {NoCommit}
    /\ declaredMetric \in [DeclaredRows -> Nat]

StoreInit ==
    /\ objectMap = {}
    /\ commit = NoCommit
    /\ declaredMetric = [r \in DeclaredRows |-> 0]

(* Mutant: the nil check is dropped.                                       *)
NewSetKeepNil(objs) == objs

(* The objects Update keeps: a nil object is logged and skipped.           *)
NewSet(objs) == objs \ {NilObj}

(* Namespaces declared in a set of objects.                                *)
Namespaces(set) == set \cap NamespaceIDs

(* deletesAllNamespaces: an update that removes every namespace of a       *)
(* snapshot that had some is refused.                                      *)
DeletesAllNamespaces(previousSet, newSet) ==
    /\ Namespaces(previousSet) # {}
    /\ Namespaces(newSet) = {}

(* DeclaredGVKs: the kinds present in a snapshot (nil for an empty one).   *)
DeclaredGVKs(set) == {Kind[id] : id \in set}

(* Mutant: the old commit's stream is not reset.                          *)
RecordDeclaredNoReset(objs, newCommit, oldCommit) ==
    Record(declaredMetric, "DeclaredResourcesView",
           RecordDeclaredResources(newCommit, Cardinality(NewSet(objs))))

(* Mutant: the gauge counts the objects received, nil ones included.      *)
RecordDeclaredCountsInput(objs, newCommit, oldCommit) ==
    LET Rec(data, ms) == Record(data, "DeclaredResourcesView", ms)
        counted == Rec(declaredMetric,
                       RecordDeclaredResources(newCommit, Cardinality(objs)))
    IN  IF oldCommit # newCommit /\ oldCommit # NoCommit
        THEN Rec(counted, RecordDeclaredResources(oldCommit, 0))
        ELSE counted

(* Update records the new commit's count and, when the commit changes,   *)
(* records 0 for the old commit's stream.                                  *)
RecordDeclared(objs, newCommit, oldCommit) ==
    LET Rec(data, ms) == Record(data, "DeclaredResourcesView", ms)
        counted == Rec(declaredMetric,
                       RecordDeclaredResources(newCommit, Cardinality(NewSet(objs))))
    IN  IF oldCommit # newCommit /\ oldCommit # NoCommit
        THEN Rec(counted, RecordDeclaredResources(oldCommit, 0))
        ELSE counted

(* Update is refused: the gauge is still recorded, the snapshot kept.      *)
UpdateRejected(objs, newCommit, oldCommit) ==
    /\ DeletesAllNamespaces(objectMap, NewSet(objs))
    /\ declaredMetric' = RecordDeclared(objs, newCommit, oldCommit)
    /\ UNCHANGED <<objectMap, commit>>

(* Update is accepted: the new snapshot replaces the old one atomically.  *)
UpdateAccepted(objs, newCommit, oldCommit) ==
    /\ ~DeletesAllNamespaces(objectMap, NewSet(objs))
    /\ declaredMetric' = RecordDeclared(objs, newCommit, oldCommit)
    /\ objectMap' = NewSet(objs)
    /\ commit' = newCommit

=============================================================================
