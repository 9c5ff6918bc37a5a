SPECIFICATION MCSpec
CONSTANTS
  NPages = 3
  MaxRetries = 1
  Budget = 2
  Costs <- MCCosts
  Windows <- MCWindows
  InitWindow = 3
  Grow <- MCGrow
  Shrink <- MCShrink
  NextWindow <- MCSame
  PrefetchEnabled = TRUE
  MaxCalls = 4
INVARIANT InOrder
INVARIANT NothingLost
INVARIANT SingleFetcher
INVARIANT CancelIsPrompt
INVARIANT CancelSettles
INVARIANT EndIsHonest
INVARIANT BudgetRespected
INVARIANT RequestsBounded
INVARIANT RequestsAccountedFor
INVARIANT WindowMovesOncePerCycle
PROPERTY StreamPromise
