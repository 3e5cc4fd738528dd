SPECIFICATION Spec
CONSTANTS
  c1 = c1
  c2 = c2
  k1 = k1
  Nobody = Nobody
  Calls <- MCCalls
  Connections <- MCConnections
  ConnOf <- OneConnection
  Requests <- AnyTool
INVARIANT TypeOK
INVARIANT NoOrphanLock
INVARIANT ReportsActivation
PROPERTY KeepsContract
PROPERTY EveryCallAnswers
CHECK_DEADLOCK FALSE
