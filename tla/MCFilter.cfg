SPECIFICATION Spec
CONSTANTS
  WindowLength = 5
  MaxSample = 2
  MaxGap = 6
  MaxRound = 10
INVARIANTS
  TypeOK
  Ordered
  Dominates
  Fresh
CHECK_DEADLOCK FALSE
