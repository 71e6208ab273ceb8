SPECIFICATION Spec
CONSTANTS
  Sessions = {n1}
  Streams = {s1, s2}
  Timeout = 2
  MaxRecent = 1
  Prompt = TRUE
  MaxTime = 4
CHECK_DEADLOCK FALSE
PROPERTY ResetAfterTimeout
