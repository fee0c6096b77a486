\* Two ingresses that may share the host, two changes, two failed calls.
CONSTANTS
  h1 = h1
  a = a
  b = b
  IngressNames = {a, b}
  Hosts = {h1}
  Specs <- MCSpecs
  Absent = Absent
  Initially <- MCInitially
  NoRoute = NoRoute
  UUIDs = {1, 2}
  MaxRetries = 2
  MaxChanges = 2
  MaxFailures = 2
SPECIFICATION FairRoutesSpec
INVARIANTS StaleAccounted
PROPERTIES RoutesConverge
CHECK_DEADLOCK FALSE
