SPECIFICATION ManagerFairSpec
CONSTANTS
  gyr = gyr
  knud = knud
  netA = netA
  netB = netB
  offA = offA
  bare = bare
  idle = idle
  underway = underway
  NONE = NONE
  Logger = {gyr, knud}
  RunnableConfig = {netA, netB}
  IdleConfig = {offA, bare}
  BareConfig = bare
  ConfigName = {"off", "net"}
  Cruise <- UnevenCruises
  MaxTries = 1
  MinUptime = 1
  MonitorRuns = FALSE
  UpdatesCome = TRUE
  InitialConfigs <- NoConfigs
  ForkMayFail = TRUE
  MaxUnkillable = 0
INVARIANTS
  ManagerSafe
PROPERTIES
  FleetFollowsAPI
  CommandsComplete
  DefinitionAnnounced
