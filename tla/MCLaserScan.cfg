SPECIFICATION ScanSpec
CONSTANTS
  Circle = 5
  Many = 3
  Turns <- MCTurns
  Settings <- MCSettings
INVARIANTS
  ScanTypeOK
  FilteredByCluster
  ScanShowsCloud
  SectorsHold
CHECK_DEADLOCK FALSE
