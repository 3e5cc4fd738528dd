SPECIFICATION Spec
CONSTANTS
  c1 = c1
  c2 = c2
  k1 = k1
  k2 = k2
  s1 = s1
  s2 = s2
  v0 = v0
  good = good
  other = other
  bad = bad
  Nobody = Nobody
  Client = Client
  Initial = v0
  Calls <- MCCalls
  Connections <- MCConnections
  Systems = {s1, s2}
  Sources <- MCSources
  Unsound <- MCUnsound
  PrefixOf <- MCPrefixOf
  ConnOf <- OneEach
  SystemOf <- TwoHomes
  Requests <- TwoBindings
CHECK_DEADLOCK FALSE
INVARIANT WritesStayHome
