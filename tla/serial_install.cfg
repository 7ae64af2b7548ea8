CONSTANTS
  Releases = {a, b}
  NoRelease = NoRelease
  Modulus = 16
  Threads = {t1, t2, t3}
  MaxCalls = 8
SPECIFICATION SerialSpec
SYMMETRY Symmetry
INVARIANTS
  ReservationTracked
  RemovedStageNeverOffered
CHECK_DEADLOCK FALSE
