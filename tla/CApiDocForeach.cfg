SPECIFICATION ApiSpec
CONSTANTS
  NPages = 2
  MaxRetries = 0
  Budget = 0
  Costs <- MCNoCost
  Windows <- MCWindow
  InitWindow = 1
  Grow <- MCStill
  Shrink <- MCStill
  NextWindow <- MCStill
  PrefetchEnabled = TRUE
  MaxCalls = 6
  Records <- MCRecords
  JsonSize <- MCJsonSize
  BufLens <- MCBufLens
  MaxOps = 3
INVARIANT ForeachOkIsExhausted
