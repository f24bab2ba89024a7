SPECIFICATION FairSpec
CONSTANTS
  h1 = h1
  h2 = h2
  Handlers <- TwoHandlers
  Last = 2
  Forward = 1
  MaxSpawns = 3
  MaxAsked = 2
  MaxDeaths = 1
INVARIANTS
  ServedWhole
PROPERTIES
  InitIsWhole
  ImplementsLife
  LoneWaiterServed
CHECK_DEADLOCK FALSE
