SPECIFICATION FairEffectSpec
CONSTANTS
  Clients = {c1}
  Shapes <- SomeShapes
  MaxPending = 2
  StopsMayFail = TRUE
  Operations = {"remove", "clear", "pause", "safety", "skip", "close"}
  MaxItems = 2
  MaxCalls = 1
  MaxDisruptions = 1
INVARIANTS EffectsDoNotOverlap PendingIsDriven DisabledPlaysNothing
PROPERTIES EffectEndsOrIsHeld
CHECK_DEADLOCK FALSE
