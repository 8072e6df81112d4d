SPECIFICATION FairSpec
CONSTANTS
  s1 = s1
  s2 = s2
  p1 = p1
  p2 = p2
  Streams = {s1, s2}
  Posts = {p1, p2}
  Upstreams <- MCUpstreams
  Hosts = {"a", "b"}
  Paths <- MCPaths
  Settings <- MCSettings
  Capacity = 1
  MaxEvents = 3
CHECK_DEADLOCK FALSE
INVARIANTS GatewayInv HintKeepsSession MatchesByPriority
PROPERTIES AllEnd
