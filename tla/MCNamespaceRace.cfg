\* Two requests of one account race through every statement.
CONSTANTS
  o1 = o1
  o2 = o2
  k1 = k1
  k2 = k2
  k3 = k3
  Workers = {w1, w2}
  Owners = {o1}
  Keys = {k1, k2, k3}
  Names <- MCNames
  Folded <- MCFolded
  FileIds = {f1}
  VersionIds = {v1, v2}
  UploadIds = {u1, u2}
  Digests = {d1}
  Drifting = {}
  Intents <- RaceIntents
  Nobody = Nobody
  None = None
SPECIFICATION Spec
SYMMETRY Ids
INVARIANTS
  TypeOK
  CommittedPrefix
  MutationJoin
  NoSilentOverwrite
  ReadsStayTrue
  NoWaitCycle
PROPERTIES
  HistoryIsFinal
