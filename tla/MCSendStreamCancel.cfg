SPECIFICATION FairSpec
CONSTANTS
  Writers = {w1}
  MaxData = 1
  MaxSets = 0
CHECK_DEADLOCK FALSE
PROPERTIES
  CancelUnblocksWrite
