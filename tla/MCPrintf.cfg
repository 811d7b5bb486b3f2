\* The call returns, and nothing follows.
CHECK_DEADLOCK FALSE
SPECIFICATION FairPrintSpec
CONSTANTS
  W = 4
  Directives <- MCDirectives
  WildFormats <- MCWildFormats
  Strings <- MCStrings
  BufSizes = {0, 1, 3}
  NULL = NULL
INVARIANTS BufferHoldsPrefix DirectivePrintsMeaning UnknownPrintsItself
PROPERTY Terminates
