SPECIFICATION Spec
CONSTANTS
  a = a
  b = b
  Consumers <- OnlyA
  Registrations <- OneBuild
  MaxAttempts <- Attempts
  Expires <- OnlyA
  Checkpointing <- OnlyA
  Prompt = {}
  BatchSize = 2
  KeepNewest = 1
  MaxSeq = 2
  Crashes = FALSE
  Restores = FALSE
  JournalThrows = TRUE
  MaxDisturbances = 1
INVARIANT CheckpointOnce
