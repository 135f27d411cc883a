SPECIFICATION ResolverSpec
CONSTANTS
  q1 = q1
  q2 = q2
  Queries = {q1, q2}
  IpVersion <- MCIpVersion
  Target = "a"
  Port = 7
  Hosts = {"a", "b"}
  Zones <- MCZones
  MaxFailures = 1
INVARIANTS
  FindsWhatIsKnown
  QueriesRunOnce
PROPERTIES
  QueriesEnd
CHECK_DEADLOCK FALSE
