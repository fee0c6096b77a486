---------------------------- MODULE MCTCPTunnels ----------------------------
(* Model checking of TCPTunnels: a tunnel with traffic both ways and a     *)
(* silent one that competes with it for the only slot.                     *)
EXTENDS TCPTunnels

CONSTANTS a, b     \* request ids

CONSTANT Chunks    \* chunks the client of a sends

MCDataOf    == [i \in {a, b} |-> IF i = a THEN Chunks ELSE 0]
MCRepliesOf == [i \in {a, b} |-> IF i = a THEN 2 ELSE 0]
=============================================================================
