SPECIFICATION FairSpec
CONSTANTS
  NONE = NONE
  NumReaders = 2
  Supply <- TwoAndTwo
  Blocking = {}
  Raising <- SecondOfSecond
  MayRace = TRUE
  NumWriters = 2
  Filtered <- FirstOfSecond
  FailBound = 1
INVARIANTS
  ReadSafe
  WritersAgree
PROPERTIES
  NoneMeansEOF
  ReadReturns
  RunEnds
