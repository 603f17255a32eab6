SPECIFICATION StoresSpec
CONSTANTS
  NONE = NONE
  REFUSED = REFUSED
  lmcmd = lmcmd
  web = web
  manager = manager
  gyr = gyr
  met = met
  Setter <- Setters
  Reader <- Readers
  Logger <- Loggers
  ConfigName <- Names
  LoggerOf <- LoggerOfName
  ModeConfigs <- ModesOfLoggers
  DefaultMode = "on"
  OffMode = "off"
  Request <- Requests
  CallBound = 2
  FailBound = 1
  Definition = {"old", "new"}
  Plan <- Plans
  Default <- Defaults
  Command <- Commands
  CommandBound = 2
INVARIANTS
  DjangoSafe
  OneCurrentConfig
  SQLiteSafe
PROPERTIES
  ChangesOneLogger
  StoresCatchUp
CHECK_DEADLOCK FALSE
