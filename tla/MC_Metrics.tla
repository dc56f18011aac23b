----------------------------- MODULE MC_Metrics -----------------------------
(***************************************************************************)
(* The metrics instance TLC checks: one value for each tag key, two for   *)
(* status and for commit (plus the empty commit), the three supported      *)
(* error classes with at most one error each, and three recorder calls: a *)
(* class that has errors and then none, and two syncs of one status at two *)
(* commits, fit in them.                                                   *)
(***************************************************************************)
EXTENDS MetricsRecorders, TLC

MCTagDomain ==
    [operation |-> {"update"}, status |-> {"success", "error"},
     component |-> {"parsing"}, errorclass |-> SupportedErrorClasses,
     name |-> {ReconcilerName}, reconciler |-> {"root"}, trigger |-> {"sync"},
     source |-> {"git"}, commit |-> {"c1", "c2"}, controller |-> {"applier"},
     internal_error_source |-> {"parser"}]

=============================================================================
