SPECIFICATION Spec
CONSTANTS
  h1 = h1
  h2 = h2
  Handlers <- TwoHandlers
  Last = 2
  Forward = 1
  MaxSpawns = 3
  MaxAsked = 3
  MaxDeaths = 1
INVARIANT
  NoStaleSegment
CHECK_DEADLOCK FALSE
