\* A read of the account or of the other one, with any Range header, while the
\* file is created, updated and deleted and an object is lost.
CONSTANTS
  a = a
  b = b
  x = x
  Workers = {w1}
  Owners = {o1, o2}
  FileIds = {f1}
  VersionIds = {v1, v2, v3}
  Contents = {a, b, x}
  Size <- Sizes
  Drifting = {x}
  Headers <- AllHeaders
  MaxSafe = 4
  None = None
SPECIFICATION Spec
SYMMETRY Versions
INVARIANTS
  ReadIsCurrent
  FailsOnlyOnDrift
  SliceIsExact
