CONSTANTS
  Requests = {r1, r2}
  PoolSize = 1
  Nobody = Nobody
SPECIFICATION Spec
SYMMETRY Symmetric
INVARIANTS PoolClosedBeforeExit
CHECK_DEADLOCK FALSE
