SPECIFICATION Spec
CONSTANTS
  NONE = NONE
  NumReaders = 2
  Supply <- TwoAndOne
  Blocking = {}
  Raising = {}
  MayRace = FALSE
  NumWriters = 2
  Filtered = {}
  FailBound = 0
INVARIANTS
  EOFMeansAllRead
