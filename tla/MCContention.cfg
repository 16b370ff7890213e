\* Three operations of any kind on one file and one upload share two connections.
CONSTANTS
  Workers = {w1, w2, w3}
  PoolSize = 2
  o1 = o1
  Owners = {o1}
  Files = {f1}
  UploadIds = {u1}
  OwnerOf <- OneAccount
  Keys = {k1}
  None = None
SPECIFICATION FairSpec
INVARIANTS
  NoDeadlock
PROPERTIES
  EveryOperationEnds
