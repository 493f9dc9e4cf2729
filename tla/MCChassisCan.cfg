SPECIFICATION Spec
CONSTANTS
  Command = {Stop, Drive, Turn}
  Stop = Stop
  WheelCount = 2
  CommandTimeout = 1
  SendPeriod = 1
INVARIANTS
  TypeOK
  TimeoutStops
  ShutdownStops
PROPERTIES
  FramesObeyLatestCommand
  StopsOnceLinkRecovers
\* The process ends after destroy_node.
CHECK_DEADLOCK FALSE
