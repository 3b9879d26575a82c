SPECIFICATION PlaybackSpec
CONSTANTS
  MaxItems = 1
  Priorities <- OnePriority
  RecentLimit = 1
  Clients = {c1}
  Instructions = {n1}
  Shapes <- AllOutputs
  StopsMayFail = TRUE
  Operations = {}
PROPERTIES ExpiryAsksOutputs
CHECK_DEADLOCK FALSE
