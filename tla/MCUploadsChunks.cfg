\* Two requests append to, finalize and read one upload.
CONSTANTS
  o1 = o1
  o2 = o2
  k1 = k1
  k2 = k2
  k3 = k3
  a = a
  b = b
  Workers = {w1, w2}
  Owners = {o1}
  Keys = {k1, k2, k3}
  UploadIds = {u1}
  Bytes = {a, b}
  Intents <- ChunkIntents
  Drifting <- Fragile
  Nobody = Nobody
  None = None
SPECIFICATION Spec
SYMMETRY Requests
INVARIANTS
  TypeOK
  ChunksTile
  SealedAsDeclared
  ToldIsDurable
  ReadsStayTrue
PROPERTIES
  CommittedChunkAcknowledged
  UploadsOnlyGrow
  ImplementsByteLog
