SPECIFICATION Spec
CONSTANTS
  h1 = h1
  h2 = h2
  Handlers <- TwoHandlers
  Last = 2
  Forward = 1
  MaxSpawns = 4
  MaxAsked = 2
  MaxDeaths = 0
INVARIANT
  OneStartPerRequest
CHECK_DEADLOCK FALSE
