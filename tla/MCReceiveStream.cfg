SPECIFICATION FairSpec
CONSTANTS
  MaxCode = 61
  FirstErrorCode = 34
  WTSessionGoneErrorCode = 1
  Readers = {r1}
  Codes = {30}
  MaxBytes = 2
  NewDeadlines = {"soon"}
  MaxSets = 1
CHECK_DEADLOCK FALSE
INVARIANTS
  CreditedOnce
  CodeReported
  RemovedWhenBothClosed
PROPERTIES
  ReadReleased
