SPECIFICATION PlaybackSpec
CONSTANTS
  MaxItems = 3
  Priorities <- TwoPriorities
  RecentLimit = 1
  Clients = {c1, c2}
  Instructions = {n1}
  Shapes <- BrowserOnly
  StopsMayFail = FALSE
  Operations = {"remove", "clear", "module", "safety", "pause", "disturb", "close"}
INVARIANTS NeverIdle ReleasedOnce AwaitsOnlyConnected
PROPERTIES StartsFirst SilentAfterClose
