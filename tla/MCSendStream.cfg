SPECIFICATION FairSpec
CONSTANTS
  Writers = {w1}
  MaxData = 1
  MaxSets = 1
CHECK_DEADLOCK FALSE
INVARIANTS
  HeaderFirst
  HeaderDelivered
PROPERTIES
  WriteReleased
  StreamRemoved
