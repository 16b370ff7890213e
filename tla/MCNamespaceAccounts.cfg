\* Two accounts, and an object that is lost between upload and use: every
\* request ends, whatever the other one does.
CONSTANTS
  o1 = o1
  o2 = o2
  k1 = k1
  k2 = k2
  k3 = k3
  Workers = {w1, w2}
  Owners = {o1, o2}
  Keys = {k1, k2}
  Names <- MCNames
  Folded <- MCFolded
  FileIds = {f1}
  VersionIds = {v1, v2}
  UploadIds = {u1}
  Digests = {d1}
  Drifting = {d1}
  Intents <- AccountIntents
  Nobody = Nobody
  None = None
SPECIFICATION FairSpec
INVARIANTS
  MutationJoin
  NamespaceIsTheLog
PROPERTY
  EveryRequestEnds
