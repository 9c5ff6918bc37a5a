SPECIFICATION RecordFairSpec
CONSTANTS
  NPages = 2
  MaxRetries = 0
  Budget = 0
  Costs <- MCNoCost
  Records <- MCRecords
  Windows <- MCWindow
  InitWindow = 1
  Grow <- MCStill
  Shrink <- MCStill
  NextWindow <- MCStill
  PrefetchEnabled = TRUE
  MaxCalls = 4
  MaxStreams = 2
INVARIANT EveryRecordOnce
PROPERTY StreamFlows
PROPERTY CallsReturn
PROPERTY EndIsFinal
