--------------------------- MODULE MCWSLifecycle ---------------------------
(* Model checking of WSLifecycle.                                          *)
EXTENDS WSLifecycle

CONSTANTS l1, l2   \* slots of the reconnect loop
=============================================================================
