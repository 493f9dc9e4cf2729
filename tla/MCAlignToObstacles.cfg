SPECIFICATION Spec
CONSTANTS
  Sources = {"auto", "ros", "serial"}
  DataTimeout = 1
  Timeout = 2
  ControlPeriod = 1
  None = None
INVARIANTS
  TypeOK
  FreshDistances
  StopsAtExit
PROPERTIES
  AlignedAtRest
  EndsByTimeout
\* The process ends.
CHECK_DEADLOCK FALSE
