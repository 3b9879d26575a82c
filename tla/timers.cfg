SPECIFICATION TimerSpec
CONSTANTS
  Timers = {t1}
  Duration = 1
  Longest = 2
  Hold = 1
  MaxRuns = 2
  MaxFailures = 1
  MaxCrashes = 1
INVARIANTS TimerTypeOK StoppedIsSilent EachCueOnce NothingLeaks PublishedFollows EverythingIsDriven
CHECK_DEADLOCK FALSE
