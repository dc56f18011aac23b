----------------------------- MODULE MC_Updater -----------------------------
(***************************************************************************)
(* A small instance of Updater: a namespace, a ConfigMap in it and a Role, *)
(* of three kinds, and three commits.  c1 declares the namespace and the  *)
(* ConfigMap; c2 adds the Role and carries a nil object, so c2 -> c1      *)
(* shrinks the snapshot and drops a kind; c3 declares only the ConfigMap, *)
(* so it deletes every namespace of c1 or c2 and is refused after them.   *)
(***************************************************************************)
EXTENDS Updater, TLC

CONSTANTS ns, cm, role, KNamespace, KConfigMap, KRole, c1, c2, c3

MCKind == (ns :> KNamespace) @@ (cm :> KConfigMap) @@ (role :> KRole)

MCSource == (c1 :> {ns, cm}) @@ (c2 :> {ns, cm, role, NilObj}) @@ (c3 :> {cm})

=============================================================================
