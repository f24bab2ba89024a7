SPECIFICATION Spec
CONSTANTS
  MaxAttempts = 2
  MaxPolls = 2
  MaxMisses = 2
INVARIANTS
  DeadIsOwn
CHECK_DEADLOCK FALSE
