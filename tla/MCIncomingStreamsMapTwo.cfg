SPECIFICATION Spec
CONSTANTS
  Accepters = {a1, a2}
  MaxOpenStreams = 2
  StreamsLimit = 4
  Overrun = 0
  MaxOpened = 2
SYMMETRY AcceptersSymmetry
CHECK_DEADLOCK FALSE
INVARIANT NotificationPreserved
