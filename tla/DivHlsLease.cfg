SPECIFICATION FairSpec
CONSTANTS
  p1 = p1
  p2 = p2
  g1 = g1
  g2 = g2
  NONE = NONE
  Player = Player
  Service = Service
  Plays <- TwoPlays
  Handlers <- OneHandler
  Kinds <- AllRemux
  MaxSessions = 1
  MaxStops = 0
  MaxRestarts = 0
  MaxMistaken = 1
CHECK_DEADLOCK FALSE
PROPERTY
  ReleasedInTheEnd
