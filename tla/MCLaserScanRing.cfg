SPECIFICATION ScanSpec
CONSTANTS
  Circle = 5
  Many = 3
  Turns <- MCTurns
  Settings <- MCSettings
INVARIANTS
  ManyPointsKept
CHECK_DEADLOCK FALSE
