--------------------------- MODULE MCRegistration ---------------------------
(* Model checking of Registration.                                         *)
EXTENDS Registration
=============================================================================
