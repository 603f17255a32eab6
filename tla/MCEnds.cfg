SPECIFICATION EndsSpec
CONSTANTS
  NONE = NONE
  MaxBackup = 2
  Unencodable = {}
  WriteBound = 5
  BreakBound = 2
  Timeout = 2
  Slow = 1
  RecordBound = 3
  near = near
  far = far
  Client = {near, far}
  MaxQueueSize = 1
INVARIANTS
  WriterSafe
  TimeoutsTold
  SocketSafe
PROPERTIES
  ChannelRefined
  EndsSettle
  ReadTellsTruth
  SilentReadReturns
