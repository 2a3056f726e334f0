SPECIFICATION Spec
CONSTANTS
  Worlds <- Refusing
  Blocks = 1
  MaxOps = 2
INVARIANT HonestResult
CHECK_DEADLOCK FALSE
