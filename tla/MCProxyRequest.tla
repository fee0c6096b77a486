--------------------------- MODULE MCProxyRequest ---------------------------
(* Model checking of ProxyRequest: one request of any shape and, next to   *)
(* it, a WebSocket upgrade for the K8s API with a streamed body, which     *)
(* nobody reads.                                                           *)
EXTENDS ProxyRequest

CONSTANTS r1, r2   \* request ids

MCShapes ==
  [r \in {r1, r2} |->
     IF r = r1 THEN Shape
     ELSE {[kind |-> "exec", streamed |-> FALSE, body |-> TRUE]}]

MCBody == [r \in {r1, r2} |-> IF r = r1 THEN 2 ELSE 1]
=============================================================================
