SPECIFICATION FairMirrorSpec
CONSTANTS
  MaxRequests = 2
  Capacity = 2
  Lengths = {"unknown", "long"}
  Reviews = {FALSE, TRUE}
  MaxSeeks = 1
  MaxRestarts = 1
  MaxMessages = 2
  MaxFaults = 1
  MaxMirrored = 1
INVARIANTS OneActiveRow RunIsWaiting QueuedIsPlayable SentIsCurrent PlayerObeys
PROPERTIES RunKeepsGoing LoadingEnds RequestsKept
CHECK_DEADLOCK FALSE
