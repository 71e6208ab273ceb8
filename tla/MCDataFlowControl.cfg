SPECIFICATION FairSpec
CONSTANTS
  Writers = {w1, w2}
  Window = 8
  Total = 6
CHECK_DEADLOCK FALSE
INVARIANTS
  NoFlowControlError
  WindowKept
  NoLostUpdate
  BlockedOncePerLimit
PROPERTIES
  CreditImplemented
  WritesFinish
