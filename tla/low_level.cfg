SPECIFICATION Spec
CONSTANTS
  c1 = c1
  c2 = c2
  s0 = s0
  s1 = s1
  s2 = s2
  made = made
  NoOne = NoOne
  NoSession = NoSession
  Cloud = FALSE
  Callers <- MCCallers
  Session <- MCSession
  FirstId = s0
  FreshId = made
  SessionOf <- MCSessionOf
  Settings <- MCSettings
  Requests <- EveryToolBeside
INVARIANTS TypeOK HandlesMatchLocks LocksInOwnSession Releasable
PROPERTY EveryCallAnswers

