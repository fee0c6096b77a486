--------------------------- MODULE MCIngressRoutes ---------------------------
(* Model checking of IngressRoutes: two ingresses that may share a host.   *)
EXTENDS IngressRoutes, TLC

CONSTANTS a, b, h1

MCSpecs == {[managed |-> m, hosts |-> {h}] : m \in BOOLEAN, h \in Hosts}
MCInitially == a :> [managed |-> TRUE, hosts |-> Hosts] @@ b :> Absent
=============================================================================
