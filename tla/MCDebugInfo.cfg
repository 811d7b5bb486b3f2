\* debuginfo_eip returns, and nothing follows.
CHECK_DEADLOCK FALSE
SPECIFICATION FairInfoSpec
CONSTANTS
  N = 6
  MaxAddr = 4
  ULIM = 1
  StrSizes = {0, 3, 6}
  Tables <- MCTables
INVARIANTS TypeOK FoundIsBracketed NoMatchIsEmpty InfoIsRight
PROPERTY Returns
