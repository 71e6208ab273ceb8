SPECIFICATION FairSpec
CONSTANTS
  Sessions = {n1, n2}
  Streams = {s1, s2}
  Timeout = 1
  MaxRecent = 1
  Prompt = FALSE
  MaxTime = 3
CHECK_DEADLOCK FALSE
INVARIANTS
  StreamFate
PROPERTIES
  BufferedResolved
