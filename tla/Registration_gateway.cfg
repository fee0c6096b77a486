\* The control plane loses the cluster of an agent on a gateway.
CONSTANTS
  Faults = {"forget"}
  MaxFaults = 1
  GatewayAnswers = {TRUE}
  Credentials = {TRUE}
  MaxIds = 4
  MaxPending = 2
  MaxAttempts = 2
  Threshold = 2
SPECIFICATION FairSpec
PROPERTIES Heals
CHECK_DEADLOCK FALSE
