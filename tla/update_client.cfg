CONSTANTS
  Releases = {a, b}
  NoRelease = NoRelease
  Modulus = 16
  Threads = {t1, t2, t3}
  MaxCalls = 7
SPECIFICATION Spec
SYMMETRY Symmetry
INVARIANTS
  TypeOK
  StagedFromCurrentCheck
  HandoffIsWhatWasValidated
  SingleHandoff
CHECK_DEADLOCK FALSE
