SPECIFICATION Spec
CONSTANTS
  a = a
  b = b
  Consumers <- Both
  Registrations <- TwoBuilds
  MaxAttempts <- Attempts
  Expires <- OnlyA
  Checkpointing <- OnlyA
  Prompt = {}
  BatchSize = 2
  KeepNewest = 1
  MaxSeq = 2
  Crashes = TRUE
  Restores = FALSE
  JournalThrows = FALSE
  MaxDisturbances = 1
INVARIANT AdmittedWasHandled
