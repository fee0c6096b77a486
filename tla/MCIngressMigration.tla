-------------------------- MODULE MCIngressMigration --------------------------
(* Model checking of IngressMigration.  The settings of NGINX and the      *)
(* ingresses are different objects: where the watcher changes the former,  *)
(* the installer meets no webhook.  An NGINX of another namespace is of    *)
(* interest where the guard does not find one of its own at first.         *)
EXTENDS IngressMigration, TLC

Symmetry == Permutations(Ingresses)
MCInit ==
  /\ Init
  /\ pc["watcher"] = "settings" => webhook = "absent"
  /\ webhook = "absent" => ~service /\ ~elsewhere /\ compat.canDelete
  /\ elsewhere => ~service
MCSpec == MCInit /\ [][Next]_vars
==============================================================================
