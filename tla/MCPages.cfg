SPECIFICATION PagesSpec
CONSTANTS
  NONE = NONE
  gyr = gyr
  knud = knud
  lat = lat
  lon = lon
  depth = depth
  Logger = {gyr, knud}
  Field <- ConsoleField
  Definitions <- OneOrTwo
  Statuses <- StatusOfBoth
  Modes = {"off", "on"}
  PageField = {lat, lon, depth}
  ClockBound = 3
  PageClockBound = 4
  LossBound = 1
  Pages <- ThreePages
  Together <- PositionAndDepth
  MaxPoints = 2
INVARIANTS
  PagesSafe
  WidgetsExact
PROPERTIES
  PagesCatchUp
  LinesShown
  SilenceIsFlagged
