SPECIFICATION Spec
CONSTANTS
  a = a
  b = b
  Consumers <- OnlyA
  Registrations <- TwoBuilds
  MaxAttempts <- Attempts
  Expires <- OnlyA
  Checkpointing <- OnlyA
  Prompt = {}
  BatchSize = 2
  KeepNewest = 1
  MaxSeq = 2
  Crashes = TRUE
  Restores = TRUE
  JournalThrows = TRUE
  MaxDisturbances = 2
INVARIANTS TypeOK DeliveredInOrder PublishWaits AdmittedIsHonest
PROPERTIES CursorMonotone DeliverySpec
