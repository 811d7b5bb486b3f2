SPECIFICATION Spec
CHECK_DEADLOCK FALSE
CONSTANTS
  Size = 9
  WORD = 2
  W = 6
  FreeCells = 4
  Inputs <- MCInputs
  NULL = NULL
INVARIANTS MovesAreCopies StringsAreRight NumberIsRight
