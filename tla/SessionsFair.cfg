SPECIFICATION FairSpec
CONSTANTS
  p1 = p1
  p2 = p2
  g1 = g1
  g2 = g2
  NONE = NONE
  Player = Player
  Service = Service
  Plays <- TwoPlays
  Handlers <- TwoHandlers
  Kinds <- HlsAndRemux
  MaxSessions = 1
  MaxStops = 0
  MaxRestarts = 1
  MaxMistaken = 1
CHECK_DEADLOCK FALSE
PROPERTY
  TakenIsReleased
