SPECIFICATION Spec
CONSTANTS
  DataLen = 47
  HealthLen = 4
  ManufLen = 23
INVARIANTS
  TypeOK
  Resynchronises
  IntactIsReported
