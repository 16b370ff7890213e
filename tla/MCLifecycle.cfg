\* Two requests share one connection, and signals arrive at any moment.
CONSTANTS
  Requests = {r1, r2}
  PoolSize = 1
  Nobody = Nobody
SPECIFICATION FairSpec
INVARIANTS
  WaitersHoldNothing
  
PROPERTIES
  ShutdownEnds
CHECK_DEADLOCK FALSE
