SPECIFICATION Spec
CONSTANTS
  Prompts = 3
  Usages = {0, 2}
  MaxRetries = 1
  Budget = 3
  MaxCalls = 4
INVARIANT CursorAgrees
INVARIANT PromptsInOrder
INVARIANT CostIsReported
