SPECIFICATION FairSpec
CONSTANTS
  gyr = gyr
  knud = knud
  net = net
  file = file
  off = off
  NONE = NONE
  Logger = {gyr, knud}
  RunnableConfig = {net, file}
  IdleConfig = {off}
  MaxTries = 3
  MinUptime = 2
  MonitorRuns = TRUE
  InitialConfigs <- AllOnNet
  ForkMayFail = FALSE
  UpdatesCome = FALSE
  MaxUnkillable = 0
INVARIANTS
  TriesHonoured
PROPERTIES
  DeadLoggerHandled
