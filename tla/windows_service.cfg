CONSTANTS
  Resolvers = {r1}
  MaxDeaths = 1
SPECIFICATION Spec
INVARIANTS
  RecordTellsTarget
  LaunchedAtMostOnce
  PendingStaysArmed
  RecordIsReachable
PROPERTIES
  CommittedSwapEnds
CHECK_DEADLOCK FALSE
