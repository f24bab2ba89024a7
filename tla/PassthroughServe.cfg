SPECIFICATION FairSpec
CONSTANTS
  Handlers = {h1}
  Sources = {"p", "b", "d"}
  Primary = "p"
  Same = {"p", "b"}
  WrongLength = {}
  Standby = {"b", "d"}
  Doomed = {"d"}
  InitialPool <- PoolD
  LateSources = {"b"}
  N = 2
  PrefixMax = 1
  LadderLength = 2
  FallthroughMax = 2
  AwaitMax = 2
  MissMax = 0
  StallBudget = 2
  MaxZeroFill = 1
  SkipSizes = {1}
INVARIANTS
  Contiguous
  CompleteMeansDelivered
PROPERTY
  RequestEnds
