\* The call returns, and nothing follows.
CHECK_DEADLOCK FALSE
SPECIFICATION PrintSpec
CONSTANTS
  W = 4
  Directives <- MCDirectives
  WildFormats = {}
  Strings <- MCStrings
  BufSizes = {}
  NULL = NULL
INVARIANT PadsOnTheRight
