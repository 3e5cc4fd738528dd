SPECIFICATION Spec
CONSTANTS
  c1 = c1
  c2 = c2
  i1 = i1
  i2 = i2
  NoOne = NoOne
  NoInclude = NoInclude
  Callers <- MCCallers
  Includes <- MCIncludes
  MayOverlap = {TRUE, FALSE}
INVARIANT TypeOK
INVARIANT IncludeReleased
INVARIANT StopReleases
INVARIANT NotPinned
INVARIANT AttachedIsReached
PROPERTY EveryCallAnswers
