CONSTANTS
    ns = ns
    cm = cm
    role = role
    KNamespace = KNamespace
    KConfigMap = KConfigMap
    KRole = KRole
    c1 = c1
    c2 = c2
    c3 = c3
    IDs = {ns, cm, role}
    GVKs = {KNamespace, KConfigMap, KRole}
    NamespaceIDs = {ns}
    Commits = {c1, c2, c3}
    EmptyTag = EmptyTag
    CommitNone = CommitNone
    ReconcilerName = ReconcilerName
    NilObj = NilObj
    Absent = Absent
    Drifted = Drifted
    NoWork = NoWork
    PauseWaitsForWorker = TRUE
    Kind <- MCKind
    Source <- MCSource
SPECIFICATION Spec
INVARIANT DeclaredResourcesExported
