SPECIFICATION FairSpec
CONSTANTS
  Queuers = {q1}
  Closers = {a1}
  Openers = {o1}
  MaxQueued = 2
  MaxCapsules = 4
  Messages <- MCMessages
  Received <- MCReceived
  MaxCloseMsgLen = 3
  MaxStreamsLimit = 4
  FlowControlEnabled = TRUE
CHECK_DEADLOCK FALSE
INVARIANTS
  CapsulesInOrder
  CloseIsLast
  WriterNotified
  PeerGetsMessage
PROPERTIES
  CloseReturns
  ConnectStreamReleased
