SPECIFICATION Spec
CONSTANTS
  MaxBits = 3
  MaxWide = 3
INVARIANT EqDecides
CHECK_DEADLOCK FALSE
