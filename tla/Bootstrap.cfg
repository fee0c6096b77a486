\* Two processes, two failed calls; no ingress controller before, or both old ones.
CONSTANTS
  Enabled = {"metrics-server", "vpa", "coredns", "ingress-controller", "cert-manager",
             "prometheus", "loki", "gateway"}
  Before = {{}, {"old-traefik", "nginx"}}
  Releases <- MCReleases
  Mismatched = {"traefik"}
  Clashing = {"loki"}
  MaxFaults = 2
  MaxRuns = 2
SPECIFICATION FairBootstrapSpec
INVARIANTS ReadyAccounted MiddlewareThere
PROPERTIES HealthyKept StuckCleared
CHECK_DEADLOCK FALSE
