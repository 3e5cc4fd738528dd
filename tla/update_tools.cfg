SPECIFICATION Spec
CONSTANTS
  c1 = c1
  c2 = c2
  k1 = k1
  k2 = k2
  s1 = s1
  s2 = s2
  v0 = v0
  good = good
  other = other
  bad = bad
  Nobody = Nobody
  Client = Client
  Initial = v0
  Calls <- MCCalls
  Connections <- MCConnections
  Systems = {s1}
  Sources <- MCSources
  Unsound <- MCUnsound
  PrefixOf <- MCPrefixOf
  ConnOf <- Shared
  SystemOf <- OneHome
  Requests <- EveryToolBeside
INVARIANT TypeOK
INVARIANT NoOrphanLock
INVARIANT CriticalSectionHolds
INVARIANT Truthful
INVARIANT RefusedSourceNotWritten
PROPERTY OnlyOwnerReleases
PROPERTY KeepsContract
PROPERTY EveryCallAnswers
CHECK_DEADLOCK FALSE
