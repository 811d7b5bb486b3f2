SPECIFICATION FairSpec
CONSTANTS
  CONSBUFSIZE = 3
  DevCap = 2
  MaxSent = 3
  NoChar = NoChar
INVARIANTS TypeOK LossIsWholeLaps ReadableAreChars InOrder
PROPERTIES ImplementsFifo ReadersCatchUp
