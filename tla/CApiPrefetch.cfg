SPECIFICATION ApiFairSpec
CONSTANTS
  NPages = 2
  MaxRetries = 0
  Budget = 0
  Costs <- MCNoCost
  Windows <- MCWindow
  InitWindow = 1
  Grow <- MCStill
  Shrink <- MCStill
  NextWindow <- MCStill
  PrefetchEnabled = TRUE
  MaxCalls = 4
  Records <- MCRecords
  JsonSize <- MCJsonSize
  BufLens <- MCBufLens
  MaxOps = 2
INVARIANT NoBatchDropped
INVARIANT RecordsOnce
PROPERTY ApiFlows
PROPERTY ApiCallsReturn
