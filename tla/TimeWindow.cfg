SPECIFICATION Spec
CONSTANTS
  GrowNum = 7
  GrowDen = 6
  ShrinkNum = 1
  ShrinkDen = 2
  MinWindow = 2
  MaxWindow = 8
  NPages = 3
  MaxRetries = 1
  WindowMs = 6
  MS_PER_SECOND = 4
  MaxCalls = 4
INVARIANT TakesWhatItAsked
INVARIANT NoGapUnlessLimited
INVARIANT GrowthDoesNotCompound
INVARIANT WindowNeverStarves
