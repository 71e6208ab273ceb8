SPECIFICATION Spec
CONSTANTS
  Queuers = {q1}
  Closers = {a1}
  Openers = {o1}
  MaxQueued = 1
  MaxCapsules = 2
  Messages <- MCMessages
  Received <- MCReceived
  MaxCloseMsgLen = 3
  MaxStreamsLimit = 4
  FlowControlEnabled = TRUE
CHECK_DEADLOCK FALSE
INVARIANT NoSelfDeadlock
