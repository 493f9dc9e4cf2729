SPECIFICATION Spec
CONSTANTS
  MaxMotorSpeedCmd = 100
  CmdVel <- MCCmdVel
  None <- MCNone
  CommandTimeout = 2
  SendPeriod = 1
  YawTimeout = 1
  YawSteps = 6
  Kp = 2
  MaxWz = 3
  MinLinearSpeed = 2
  WzDeadband = 1
INVARIANTS
  TypeOK
  NoLockAcrossTurn
  NoStaleInput
  WheelsFollowTwist
