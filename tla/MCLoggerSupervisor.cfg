SPECIFICATION Spec
CONSTANTS
  gyr = gyr
  knud = knud
  net = net
  file = file
  off = off
  NONE = NONE
  Logger = {gyr, knud}
  RunnableConfig = {net}
  IdleConfig = {off}
  MaxTries = 2
  MinUptime = 1
  MonitorRuns = TRUE
  InitialConfigs <- BothStarts
  ForkMayFail = TRUE
  UpdatesCome = TRUE
  MaxUnkillable = 1
SYMMETRY LoggerSymmetry
INVARIANTS
  FleetSafe
  CrashLoopBounded
  UpdateInstallsTarget
  QuitIsFinal
PROPERTIES
  EndIsFinal
