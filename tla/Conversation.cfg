SPECIFICATION FairSpec
CONSTANTS
  Limit = 12
  KeepResults = 1
  KeepEvents = 3
  MaxRounds = 2
  MaxTools = 1
  KeepRounds = 1
  MaxMessages = 2
  MaxAstray = 1
  MaxLate = 2
  Polite = TRUE
CHECK_DEADLOCK FALSE
INVARIANTS TypeOK WellPaired LogTellsTurns
PROPERTIES NothingForgotten TurnsEnd
