SPECIFICATION Spec
CONSTANTS
  Hold = 4
  Grace = 2
  PostDelay = 2
  None = None
INVARIANTS
  TypeOK
  DropoutEndsHold
PROPERTIES
  ArmsAfterHold
  GateAnswers
\* The script ends.
CHECK_DEADLOCK FALSE
