\* The search returns, and nothing follows.
CHECK_DEADLOCK FALSE
SPECIFICATION Spec
CONSTANTS
  N = 2
  MaxAddr = 2
INVARIANT FoundContainsAddr
