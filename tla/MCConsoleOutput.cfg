\* The kernel may have printed all it had to.
CHECK_DEADLOCK FALSE
SPECIFICATION FairSpec
CONSTANTS
  Timeout = 2
  MaxOut = 5
INVARIANTS ArrivesInOrder NothingLostUnlessForced
PROPERTY PutcReturns
