CONSTANTS
  Conns = {c1, c2}
  AppThreads = {t1}
  NoConn = NoConn
  MaxData = 1
  MaxCalls = 3
SPECIFICATION Spec
INVARIANTS
  SessionsAreLive
  OneDestroyPerClose
  NetworkSendsNeverDangle
PROPERTIES
  LateSendsPassTheFlagBy
  PeerCloseIsCleanedUp
  ImplementsLifecycle
CHECK_DEADLOCK FALSE
