\* Any two faults, with gateways and without.
CONSTANTS
  Faults = {"crash", "boot", "drop", "refuse", "dial", "forget", "lost", "read", "save", "rotate"}
  MaxFaults = 2
  GatewayAnswers = {TRUE, FALSE}
  Credentials = {TRUE, FALSE}
  MaxIds = 5
  MaxPending = 1
  MaxAttempts = 2
  Threshold = 1
SPECIFICATION FairSpec
PROPERTIES NoTwinClusters GatewayKept HealsOnController
CHECK_DEADLOCK FALSE
