CHECK_DEADLOCK FALSE
SPECIFICATION FairSpec
CONSTANTS
  Keys = {30}
  FifoCap = 2
  MaxMouse = 1
PROPERTY MouseDataIgnored
