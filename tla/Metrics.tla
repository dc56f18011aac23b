------------------------------ MODULE Metrics ------------------------------
(***************************************************************************)
(* The OpenCensus telemetry of pkg/metrics: the views of views.go, the     *)
(* row aggregation record() performs for each measurement, the            *)
(* measurement RecordDeclaredResources produces, and the Otel Collector's  *)
(* aggregate_labels transform with aggregation_type max that the          *)
(* collector configuration applies before export.                         *)
(*                                                                         *)
(* A view's data is a function from rows to values.  A row is the         *)
(* measurement's tag map projected on the view's TagKeys, a key the tags  *)
(* do not carry reading as the empty tag value.  A row never recorded     *)
(* reads 0: for the non-negative gauges and counters of this package a     *)
(* missing row and a zero row export the same maximum.  Histogram bucket  *)
(* bounds are left out: a Distribution row is abstracted to its count.    *)
(***************************************************************************)
EXTENDS Naturals

CONSTANTS
    EmptyTag,        \* the empty tag value ""
    CommitNone,      \* metrics.CommitNone, the commit tag of an unknown commit
    ReconcilerName   \* the reconciler's name, from its environment

(* The tag keys (tag.Key values) the views use.                           *)
KeyOperation == "operation"
KeyStatus == "status"
KeyComponent == "component"
KeyErrorClass == "errorclass"
KeyName == "name"
KeyReconcilerType == "reconciler"
KeyTrigger == "trigger"
KeyParserSource == "source"
KeyCommit == "commit"
KeyController == "controller"
KeyInternalErrorSource == "internal_error_source"

(* views.go: every view, by its variable name, with the measure it        *)
(* aggregates, its TagKeys and its aggregation.                           *)
Views ==
  [APICallDurationView |->
     [measure |-> "APICallDuration", keys |-> {KeyOperation, KeyStatus},
      aggregation |-> "Distribution"],
   ReconcilerErrorsView |->
     [measure |-> "ReconcilerErrors", keys |-> {KeyComponent, KeyErrorClass},
      aggregation |-> "LastValue"],
   PipelineErrorView |->
     [measure |-> "PipelineError",
      keys |-> {KeyName, KeyReconcilerType, KeyComponent},
      aggregation |-> "LastValue"],
   ReconcileDurationView |->
     [measure |-> "ReconcileDuration", keys |-> {KeyStatus},
      aggregation |-> "Distribution"],
   ParserDurationView |->
     [measure |-> "ParserDuration", keys |-> {KeyStatus, KeyTrigger, KeyParserSource},
      aggregation |-> "Distribution"],
   LastSyncTimestampView |->
     [measure |-> "LastSync", keys |-> {KeyCommit, KeyStatus},
      aggregation |-> "LastValue"],
   DeclaredResourcesView |->
     [measure |-> "DeclaredResources", keys |-> {KeyCommit},
      aggregation |-> "LastValue"],
   ApplyOperationsView |->
     [measure |-> "ApplyOperations", keys |-> {KeyController, KeyOperation, KeyStatus},
      aggregation |-> "Count"],
   ApplyDurationView |->
     [measure |-> "ApplyDuration", keys |-> {KeyCommit, KeyStatus},
      aggregation |-> "Distribution"],
   LastApplyTimestampView |->
     [measure |-> "LastApply", keys |-> {KeyCommit, KeyStatus},
      aggregation |-> "LastValue"],
   ResourceFightsView |->
     [measure |-> "ResourceFights", keys |-> {}, aggregation |-> "Count"],
   RemediateDurationView |->
     [measure |-> "RemediateDuration", keys |-> {KeyStatus},
      aggregation |-> "Distribution"],
   ResourceConflictsView |->
     [measure |-> "ResourceConflicts", keys |-> {KeyCommit},
      aggregation |-> "Count"],
   InternalErrorsView |->
     [measure |-> "InternalErrors", keys |-> {KeyInternalErrorSource},
      aggregation |-> "Count"]]

(* A measurement of measure with value, recorded in a context whose tag   *)
(* map is tags.                                                           *)
Measurement(measure, tags, value) ==
    [measure |-> measure, tags |-> tags, value |-> value]

(* The row of view a measurement with tags falls in.                      *)
RowOf(view, tags) ==
    [k \in Views[view].keys |-> IF k \in DOMAIN tags THEN tags[k] ELSE EmptyTag]

(* Mutant: a Count or Distribution row counted down instead of up.        *)
AggregatedDecrement(view, old, value) ==
    IF Views[view].aggregation = "LastValue" THEN value ELSE old - 1

(* A row's value after one more measurement of value.                     *)
Aggregated(view, old, value) ==
    IF Views[view].aggregation = "LastValue" THEN value ELSE old + 1

(* record(ctx, ms...): the data of view after the measurements ms, no two *)
(* of which fall in the same row of a view.                               *)
Record(data, view, ms) ==
    [r \in DOMAIN data |->
        IF \E m \in ms : m.measure = Views[view].measure /\ RowOf(view, m.tags) = r
        THEN LET m == CHOOSE m \in ms : m.measure = Views[view].measure
                                        /\ RowOf(view, m.tags) = r
             IN  Aggregated(view, data[r], m.value)
        ELSE data[r]]

(* The recorders of record.go, each the set of measurements it records. *)
(* A duration or a histogram value is abstracted to 0: a Distribution    *)
(* row counts its measurements.  The context carries no tags of its own.  *)
RecordAPICallDuration(operation, status) ==
    {Measurement("APICallDuration", [operation |-> operation, status |-> status], 0)}

(* One measurement per supported error class, 0 for a class with no      *)
(* error: errorCountByClass is status.CountErrorByClass(errs), a map     *)
(* holding only the classes that occur.                                   *)
SupportedErrorClasses == {"1xxx", "2xxx", "9xxx"}

(* Mutant: only the classes that occur are recorded, as if the zero       *)
(* default of the loop were dropped.                                       *)
RecordReconcilerErrorsPresentOnly(component, errorCountByClass) ==
    {Measurement("ReconcilerErrors", [component |-> component, errorclass |-> k],
                 errorCountByClass[k]) : k \in DOMAIN errorCountByClass}

RecordReconcilerErrors(component, errorCountByClass) ==
    {Measurement("ReconcilerErrors", [component |-> component, errorclass |-> k],
                 IF k \in DOMAIN errorCountByClass THEN errorCountByClass[k] ELSE 0)
        : k \in SupportedErrorClasses}

RecordPipelineError(reconcilerType, component, errLen) ==
    {Measurement("PipelineError",
                 [name |-> ReconcilerName, reconciler |-> reconcilerType,
                  component |-> component],
                 IF errLen > 0 THEN 1 ELSE 0)}

RecordReconcileDuration(status) ==
    {Measurement("ReconcileDuration", [status |-> status], 0)}

RecordParserDuration(trigger, source, status) ==
    {Measurement("ParserDuration", [status |-> status, trigger |-> trigger, source |-> source], 0)}

(* Mutant: the status and commit arguments swapped in the tag upserts.     *)
RecordLastSyncSwapped(status, commit, timestamp) ==
    {Measurement("LastSync", [status |-> commit, commit |-> status], timestamp)}

RecordLastSync(status, commit, timestamp) ==
    {Measurement("LastSync", [status |-> status, commit |-> commit], timestamp)}

RecordDeclaredResources(commit, numResources) ==
    {Measurement("DeclaredResources", [commit |-> commit], numResources)}

RecordApplyOperation(controller, operation, status) ==
    {Measurement("ApplyOperations",
                 [operation |-> operation, controller |-> controller, status |-> status], 1)}

(* Mutant: only the duration is recorded, not the LastApply timestamp.     *)
RecordApplyDurationOnly(status, commit, now) ==
    {Measurement("ApplyDuration",
                 [status |-> status, commit |-> IF commit = EmptyTag THEN CommitNone ELSE commit],
                 0)}

(* Both measurements share the tags; an empty commit is tagged CommitNone. *)
RecordApplyDuration(status, commit, now) ==
    LET tags == [status |-> status,
                 commit |-> IF commit = EmptyTag THEN CommitNone ELSE commit]
    IN  {Measurement("ApplyDuration", tags, 0), Measurement("LastApply", tags, now)}

RecordResourceFight == {Measurement("ResourceFights", <<>>, 1)}

RecordRemediateDuration(status) ==
    {Measurement("RemediateDuration", [status |-> status], 0)}

RecordResourceConflict(commit) ==
    {Measurement("ResourceConflicts", [commit |-> commit], 1)}

RecordInternalError(source) ==
    {Measurement("InternalErrors", [internal_error_source |-> source], 1)}

(* The collector's aggregate_labels operation with aggregation_type max:  *)
(* the exported value of a series keeps the labels of labelSet and is the *)
(* largest value of the rows that agree on them.                          *)
AggregateLabelsMax(data, labelSet) ==
    LET Kept(r) == [k \in labelSet |-> r[k]]
        Series == {Kept(r) : r \in DOMAIN data}
        Vals(s) == {data[r] : r \in {q \in DOMAIN data : Kept(q) = s}}
    IN  [s \in Series |-> CHOOSE v \in Vals(s) : \A w \in Vals(s) : w <= v]

=============================================================================
