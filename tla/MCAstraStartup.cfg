SPECIFICATION Spec
CONSTANTS
  Proc = {a, b}
  MaxFaults = 1
INVARIANTS
  TypeOK
  StartsAlone
  UnitPerFault
PROPERTIES
  AllConnect
CHECK_DEADLOCK FALSE
