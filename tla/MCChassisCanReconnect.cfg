SPECIFICATION Spec
CONSTANTS
  Command = {Stop, Drive}
  Stop = Stop
  WheelCount = 2
  CommandTimeout = 1
  SendPeriod = 1
INVARIANTS
  ReconnectThreadAlive
\* The process ends after destroy_node.
CHECK_DEADLOCK FALSE
