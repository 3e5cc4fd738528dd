SPECIFICATION Spec
CONSTANTS
  Units <- MCUnits
  Contents <- MCContents
  NamesOf <- MCNamesOf
  Searches <- MCSearches
INVARIANT TypeOK
INVARIANT EachOnce
INVARIANT Complete
INVARIANT FirstHits
INVARIANT FlagsExact
INVARIANT EitherList
PROPERTY SearchEnds
CHECK_DEADLOCK FALSE
