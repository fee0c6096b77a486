--------------------------- MODULE MCGatewayTunnels ---------------------------
(* Model checking of GatewayTunnels: one gateway is there at first, and the *)
(* second, of another name or of the same one in another namespace, is not. *)
EXTENDS GatewayTunnels

CONSTANT First

MCInit ==
  /\ Init
  /\ name[First] = First
  /\ routed = Gateways /\ ~balancer
  /\ gw = [g \in Gateways |->
       IF g = First /\ ~label
         THEN [is |-> "gateway", listeners |-> Listeners, ip |-> TRUE, asks |-> "auto"]
         ELSE Absent]
MCSpec == MCInit /\ [][Next]_vars
MCFairSpec == MCSpec /\ Fairness
==============================================================================
