SPECIFICATION FairWindow
CONSTANTS
  h1 = h1
  h2 = h2
  Readers <- TwoReaders
  N = 3
  Cap = 2
  Chunk = 2
INVARIANTS
  HitIsExact
PROPERTIES
  LeadSurvives
  StoppedEnds
  FillsWhilePaused
CHECK_DEADLOCK FALSE
