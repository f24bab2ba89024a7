SPECIFICATION Spec
CONSTANTS
  p1 = p1
  p2 = p2
  g1 = g1
  g2 = g2
  NONE = NONE
  Player = Player
  Service = Service
  Plays <- TwoPlays
  Handlers <- TwoHandlers
  Kinds <- AllKinds
  MaxSessions = 1
  MaxStops = 1
  MaxRestarts = 1
  MaxMistaken = 1
CHECK_DEADLOCK FALSE
SYMMETRY Interchangeable
INVARIANTS
  CleanedOnce
  NotCleanedInUse
  OneFfmpeg
PROPERTY
  ClosedStaysClosed
