---------------------------- MODULE MCK8sStreams ----------------------------
(* Model checking of K8sStreams.                                           *)
EXTENDS K8sStreams

CONSTANT a   \* a stream id
=============================================================================
