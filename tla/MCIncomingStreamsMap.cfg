SPECIFICATION FairSpec
CONSTANTS
  Accepters = {a1}
  MaxOpenStreams = 2
  StreamsLimit = 4
  Overrun = 1
  MaxOpened = 5
CHECK_DEADLOCK FALSE
INVARIANTS
  CreditExact
  CreditAdvertised
  StreamsClosedWithSession
PROPERTIES
  CreditImplemented
  RefusedOnlyOverLimit
  AcceptServed
