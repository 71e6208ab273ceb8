CONSTANTS
  Callers = {c1, c2, c3}
  InitialMaxStreams = 1
  Limits = {2}
SPECIFICATION FairSpec
CHECK_DEADLOCK FALSE
INVARIANTS
  SlotsExact
  QueueHoldsWaiters
  NoLostWakeup
  PeerToldOnce
  StreamsClosedWithSession
PROPERTIES
  CallsReleased
  FirstWaiterServed
