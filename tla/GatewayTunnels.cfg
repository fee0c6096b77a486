\* Two gateways and two upsets of whatever kind.
CONSTANTS
  Gateways = {g1, g2}
  First = g1
  Listeners = {l1}
  Asks = {"auto"}
  ForceTunnelMode = FALSE
  DualModeEnabled = TRUE
  MaxUpsets = 2
SPECIFICATION MCFairSpec
INVARIANTS StraysAccounted
PROPERTIES LiveTunnelKept TunnelsConverge
CHECK_DEADLOCK FALSE
