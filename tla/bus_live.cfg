SPECIFICATION FairSpec
CONSTANTS
  a = a
  b = b
  Consumers <- Both
  Registrations <- TwoBuilds
  MaxAttempts <- Attempts
  Expires <- Both
  Checkpointing <- OnlyA
  Prompt <- OnlyA
  BatchSize = 1
  KeepNewest = 0
  MaxSeq = 1
  Crashes = TRUE
  Restores = FALSE
  JournalThrows = FALSE
  MaxDisturbances = 1
INVARIANTS CheckpointOnce
PROPERTIES PromptProgress PublishReturns
