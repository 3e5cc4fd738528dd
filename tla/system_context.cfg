SPECIFICATION ServersSpec
CONSTANTS
  r1 = r1
  r2 = r2
  r3 = r3
  r4 = r4
  d1 = d1
  d2 = d2
  s1 = s1
  s2 = s2
  Headers = Headers
  None = None
  Unset = Unset
  Unknown = Unknown
  Requests = {r1, r2}
  Pings = {}
  Destinations = {d1, d2}
  Systems = {s1, s2}
  SystemOf <- MCSystemOf
  RoutesOf <- TwoDestinations
  Gets = {}
  Transports = {"http"}
INVARIANT OwnSystemContext
CHECK_DEADLOCK FALSE
