\* Two requests race to open an upload and to fill and finalize it, another
\* account names it too: every operation ends, whatever the other one does.
CONSTANTS
  o1 = o1
  o2 = o2
  k1 = k1
  k2 = k2
  k3 = k3
  a = a
  b = b
  Workers = {w1, w2}
  Owners = {o1, o2}
  Keys = {k1, k2, k3}
  UploadIds = {u1, u2}
  Bytes = {a, b}
  Intents <- OpenIntents
  Drifting = {}
  Nobody = Nobody
  None = None
SPECIFICATION FairSpec
INVARIANTS
  OneUploadPerKey
  AnswersFit
PROPERTY
  EveryRequestEnds
