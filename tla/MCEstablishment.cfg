SPECIFICATION FairSpec
CONSTANTS
  Conns = {"c1"}
  Requests = {"r1", "r2"}
  Layouts <- MCLayouts
  Configs <- MCConfigs
  Offers <- MCOffers
  Values <- MCValues
  MaxStreamsLimit = 1
  MaxVarint = 4
  ServerProtocols = {"a", "s"}
  ClientProtocols = {"x", "a"}
CHECK_DEADLOCK FALSE
INVARIANTS
  SessionsAgree
  OneSessionWithoutFlowControl
  ServerClosed
  DialCleansUp
PROPERTIES
  ConnectionsReleased
