SPECIFICATION ServersSpec
CONSTANTS
  r1 = r1
  r2 = r2
  r3 = r3
  r4 = r4
  d1 = d1
  d2 = d2
  s1 = s1
  s2 = s2
  Headers = Headers
  None = None
  Unset = Unset
  Unknown = Unknown
  Requests = {r1, r2, r3, r4}
  Pings = {r4}
  Destinations = {d1, d2}
  Systems = {s1, s2}
  SystemOf <- MCSystemOf
  RoutesOf <- EveryRoute
  Gets = {r1, r4}
  Transports = {"http", "sse"}
INVARIANT TypeOK
INVARIANT NoStaleLock
INVARIANT SessionsAreLive
PROPERTY EveryRequestAnswered
CHECK_DEADLOCK FALSE
