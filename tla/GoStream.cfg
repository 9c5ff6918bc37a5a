SPECIFICATION FairSpec
CONSTANTS
  Goroutines = {g1, g2, g3}
  MaxCalls = 4
INVARIANT NothingUsedAfterDestroy
INVARIANT NothingLeaks
PROPERTY GoCallsReturn
