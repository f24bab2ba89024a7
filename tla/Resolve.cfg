SPECIFICATION FairSpec
CONSTANTS
  MaxAttempts = 2
  MaxPolls = 2
  MaxMisses = 2
INVARIANTS
  RejectedNotPlayed
  NothingRunsOn
PROPERTIES
  ImplementsRequest
  PlayEnds
CHECK_DEADLOCK FALSE
