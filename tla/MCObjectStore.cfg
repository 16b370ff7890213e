\* Three puts and reads of an object that stays and of one that drifts.
CONSTANTS
  Workers = {w1, w2, w3}
  Contents = {a, x}
  Drifting = {x}
  None = None
SPECIFICATION Spec
SYMMETRY Puts
INVARIANTS
  NeverTorn
  AnswersTrue
PROPERTIES
  ImplementsBlobSet
