SPECIFICATION FairSpec
CONSTANTS
  r1 = r1
  r2 = r2
  Releases <- OneRelease
  First = r1
  MaxPlays = 1
  MaxRetries = 1
  Last = 1
  MaxEvents = 1
PROPERTY StopIsFinal
CHECK_DEADLOCK FALSE
