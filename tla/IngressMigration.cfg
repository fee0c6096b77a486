\* Two ingresses, two changes by users, one failing call.
CONSTANTS
  Ingresses = {i1, i2}
  MaxEdits = 2
  MaxFaults = 1
SYMMETRY Symmetry
SPECIFICATION MCSpec
INVARIANTS MissedAccounted
PROPERTIES EditsKept WebhookGuarded
CHECK_DEADLOCK FALSE
