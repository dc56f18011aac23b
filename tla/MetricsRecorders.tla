-------------------------- MODULE MetricsRecorders --------------------------
(***************************************************************************)
(* The metrics package as a state machine: the data of every view of      *)
(* views.go, and one action per recorder of record.go.  A recorder call   *)
(* hands its measurements to stats.Record, which aggregates each into the *)
(* row of every view of its measure.  Each call also advances a clock, so *)
(* the timestamps the recorders take from time.Now() increase.            *)
(*                                                                         *)
(* Two history variables remember what the callers last reported: the    *)
(* error counts by class per component and the time of the last sync per  *)
(* status.                                                                 *)
(***************************************************************************)
EXTENDS Metrics, FiniteSets

CONSTANTS
    TagDomain,   \* for each tag key, the non-empty values callers pass
    MaxErrors,   \* the largest error count of one class in one call
    MaxTime      \* the number of recorder calls a behaviour makes

ASSUME MetricsAssumption ==
    /\ MaxErrors \in Nat /\ MaxTime \in Nat \ {0}
    /\ SupportedErrorClasses \subseteq TagDomain[KeyErrorClass]
    /\ ReconcilerName \in TagDomain[KeyName]
    /\ \A v \in DOMAIN Views : Views[v].keys \subseteq DOMAIN TagDomain

VARIABLES
    views,       \* views[v]: the data of view v, row |-> value
    now,         \* the clock time.Now() reads
    lastErrs,    \* component |-> the errorCountByClass it last reported
    lastSyncAt   \* status |-> the time of the last RecordLastSync with it

metricsVars == <<views, now, lastErrs, lastSyncAt>>

(* The values a caller passes for a tag key; a commit may be empty.       *)
Values(k) == IF k = KeyCommit THEN TagDomain[k] \cup {EmptyTag} ELSE TagDomain[k]

(* The tag values a row of a view can carry.                              *)
RowValues(k) == Values(k) \cup {EmptyTag} \cup (IF k = KeyCommit THEN {CommitNone} ELSE {})

TagUniverse == UNION {RowValues(k) : k \in DOMAIN TagDomain}

ViewRows == [v \in DOMAIN Views |->
                {r \in [Views[v].keys -> TagUniverse] :
                    \A k \in Views[v].keys : r[k] \in RowValues(k)}]

Rows(v) == ViewRows[v]

(* The error counts a caller can report: a count for some classes only.   *)
ErrorCounts == UNION {[S -> 1..MaxErrors] : S \in SUBSET SupportedErrorClasses}

MetricsTypeOK ==
    /\ \A v \in DOMAIN Views : views[v] \in [Rows(v) -> Nat]
    /\ now \in 1..MaxTime + 1
    /\ lastErrs \in [Values(KeyComponent) -> ErrorCounts]
    /\ lastSyncAt \in [Values(KeyStatus) -> Nat]

MetricsInit ==
    /\ views = [v \in DOMAIN Views |-> [r \in Rows(v) |-> 0]]
    /\ now = 1
    /\ lastErrs = [c \in Values(KeyComponent) |-> <<>>]
    /\ lastSyncAt = [s \in Values(KeyStatus) |-> 0]

(* stats.Record: every view aggregates the measurements of its measure.   *)
Recorded(ms) ==
    /\ now <= MaxTime
    /\ views' = [v \in DOMAIN Views |-> Record(views[v], v, ms)]
    /\ now' = now + 1

CallAPICallDuration ==
    /\ \E op \in Values(KeyOperation), st \in Values(KeyStatus) :
          Recorded(RecordAPICallDuration(op, st))
    /\ UNCHANGED <<lastErrs, lastSyncAt>>

CallReconcilerErrors ==
    \E c \in Values(KeyComponent), m \in ErrorCounts :
        /\ Recorded(RecordReconcilerErrors(c, m))
        /\ lastErrs' = [lastErrs EXCEPT ![c] = m]
        /\ UNCHANGED lastSyncAt

CallPipelineError ==
    /\ \E t \in Values(KeyReconcilerType), c \in Values(KeyComponent), n \in 0..1 :
          Recorded(RecordPipelineError(t, c, n))
    /\ UNCHANGED <<lastErrs, lastSyncAt>>

CallReconcileDuration ==
    /\ \E st \in Values(KeyStatus) : Recorded(RecordReconcileDuration(st))
    /\ UNCHANGED <<lastErrs, lastSyncAt>>

CallParserDuration ==
    /\ \E t \in Values(KeyTrigger), src \in Values(KeyParserSource), st \in Values(KeyStatus) :
          Recorded(RecordParserDuration(t, src, st))
    /\ UNCHANGED <<lastErrs, lastSyncAt>>

CallLastSync ==
    \E st \in Values(KeyStatus), c \in Values(KeyCommit) :
        /\ Recorded(RecordLastSync(st, c, now))
        /\ lastSyncAt' = [lastSyncAt EXCEPT ![st] = now]
        /\ UNCHANGED lastErrs

CallDeclaredResources ==
    /\ \E c \in Values(KeyCommit), n \in 0..1 : Recorded(RecordDeclaredResources(c, n))
    /\ UNCHANGED <<lastErrs, lastSyncAt>>

CallApplyOperation ==
    /\ \E ctl \in Values(KeyController), op \in Values(KeyOperation), st \in Values(KeyStatus) :
          Recorded(RecordApplyOperation(ctl, op, st))
    /\ UNCHANGED <<lastErrs, lastSyncAt>>

CallApplyDuration ==
    /\ \E st \in Values(KeyStatus), c \in Values(KeyCommit) :
          Recorded(RecordApplyDuration(st, c, now))
    /\ UNCHANGED <<lastErrs, lastSyncAt>>

CallResourceFight ==
    /\ Recorded(RecordResourceFight)
    /\ UNCHANGED <<lastErrs, lastSyncAt>>

CallRemediateDuration ==
    /\ \E st \in Values(KeyStatus) : Recorded(RecordRemediateDuration(st))
    /\ UNCHANGED <<lastErrs, lastSyncAt>>

CallResourceConflict ==
    /\ \E c \in Values(KeyCommit) : Recorded(RecordResourceConflict(c))
    /\ UNCHANGED <<lastErrs, lastSyncAt>>

CallInternalError ==
    /\ \E src \in Values(KeyInternalErrorSource) : Recorded(RecordInternalError(src))
    /\ UNCHANGED <<lastErrs, lastSyncAt>>

MetricsNext ==
    \/ CallAPICallDuration \/ CallReconcilerErrors \/ CallPipelineError
    \/ CallReconcileDuration \/ CallParserDuration \/ CallLastSync
    \/ CallDeclaredResources \/ CallApplyOperation \/ CallApplyDuration
    \/ CallResourceFight \/ CallRemediateDuration \/ CallResourceConflict
    \/ CallInternalError

MetricsSpec == MetricsInit /\ [][MetricsNext]_metricsVars

-----------------------------------------------------------------------------
(* Properties.                                                             *)

(* The collector's exported series, aggregate_labels with max over the    *)
(* labels a transform drops (collector configuration, kubernetes          *)
(* pipeline).                                                              *)
Exported(v, labelSet) == AggregateLabelsMax(views[v], labelSet)

(* last_reconciler_errors reads, for every component and supported error  *)
(* class, the count the component last reported, and 0 for a class whose  *)
(* errors have all been fixed: RecordReconcilerErrors must bring a        *)
(* LastValue gauge back down by recording the classes that are absent.    *)
ReconcilerErrorsCurrent ==
    LET ex == Exported("ReconcilerErrorsView", {KeyComponent, KeyErrorClass})
    IN  \A c \in Values(KeyComponent), k \in SupportedErrorClasses :
            ex[[component |-> c, errorclass |-> k]]
                = IF k \in DOMAIN lastErrs[c] THEN lastErrs[c][k] ELSE 0

(* last_sync_timestamp, with the commit label aggregated away by max,     *)
(* reads for each status the time of the last sync with that status:      *)
(* the stream of every earlier commit holds an older time.                *)
LastSyncExportedIsLatest ==
    LET ex == Exported("LastSyncTimestampView", {KeyStatus})
    IN  \A s \in Values(KeyStatus) : ex[[status |-> s]] = lastSyncAt[s]

(* RecordApplyDuration records its two measurements in one call: a row of *)
(* apply_duration_seconds has counted an apply exactly when the same row  *)
(* of last_apply_timestamp holds a time.                                   *)
ApplyViewsAgree ==
    \A r \in Rows("ApplyDurationView") :
        (views["ApplyDurationView"][r] > 0) = (views["LastApplyTimestampView"][r] > 0)

=============================================================================
