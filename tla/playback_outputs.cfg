SPECIFICATION FairPlaybackSpec
CONSTANTS
  MaxItems = 2
  Priorities <- OnePriority
  RecentLimit = 2
  Clients = {c1}
  Instructions = {n1}
  Shapes <- AllOutputs
  StopsMayFail = TRUE
  Operations = {"close"}
INVARIANTS PlaybackTypeOK OnlyCurrentPlays SkippedStaysSkipped AdvancesWhenDone
PROPERTIES EveryOccurrenceEnds
CHECK_DEADLOCK FALSE
