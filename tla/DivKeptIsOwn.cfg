SPECIFICATION Spec
CONSTANTS
  r1 = r1
  r2 = r2
  Releases <- TwoReleases
  First = r1
  MaxPlays = 2
  MaxRetries = 1
  Last = 1
  MaxEvents = 1
INVARIANT KeptIsOwn
CHECK_DEADLOCK FALSE
