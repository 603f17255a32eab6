SPECIFICATION FairSpec
CONSTANTS
  udp = udp
  websocket = websocket
  depth = depth
  heading = heading
  Cleaner = cleaner
  Loader = loader
  NONE = NONE
  TORN = TORN
  Field = {depth, heading}
  Writer = {udp, websocket}
  Feeds <- DepthFromBoth
  MaxRecords = 3
  MinBack = 1
  BackSeconds = 1
  DiskCache = TRUE
  InitialDisk <- DepthFile
  RecordBound = 2
  TimeBound = 1
  CrashBound = 1
INVARIANTS
  CacheSafe
PROPERTIES
  YoungAreKept
  OnlyTornIsLost
  CacheShrinks
