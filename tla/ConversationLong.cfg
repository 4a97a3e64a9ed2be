SPECIFICATION Spec
CONSTANTS
  Limit = 20
  KeepResults = 1
  KeepEvents = 3
  MaxRounds = 2
  MaxTools = 1
  KeepRounds = 1
  MaxMessages = 3
  MaxAstray = 0
  MaxLate = 0
  Polite = TRUE
CHECK_DEADLOCK FALSE
PROPERTIES AllEventsFetched
