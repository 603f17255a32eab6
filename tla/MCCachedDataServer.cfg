SPECIFICATION FairSpec
CONSTANTS
  depth = depth
  heading = heading
  NONE = NONE
  Field = {depth, heading}
  Subscriptions <- UsualSubscriptions
  InOrder = TRUE
  BackSeconds = 1
  MaxRecords = 0
  MinBack = 0
  RecordBound = 3
  TimeBound = 3
  LossBound = 1
  FlightBound = 3
INVARIANTS
  ServerSafe
  ExactlyAsked
PROPERTIES
  EventuallyRead
