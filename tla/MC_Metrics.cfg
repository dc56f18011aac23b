\* The recorders of record.go over the views of views.go.  Behaviours end
\* after MaxTime calls, so the bounded instance stops by design.
CONSTANTS
    EmptyTag = EmptyTag
    CommitNone = CommitNone
    ReconcilerName = ReconcilerName
    TagDomain <- MCTagDomain
    MaxErrors = 1
    MaxTime = 3
INIT MetricsInit
NEXT MetricsNext
INVARIANTS
    MetricsTypeOK
    ReconcilerErrorsCurrent
    LastSyncExportedIsLatest
    ApplyViewsAgree
CHECK_DEADLOCK FALSE
