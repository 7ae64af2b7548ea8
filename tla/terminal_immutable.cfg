CONSTANTS
  Resolvers = {r1}
  MaxDeaths = 1
SPECIFICATION Spec
PROPERTIES
  TerminalIsImmutable
CHECK_DEADLOCK FALSE
