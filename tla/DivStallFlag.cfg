SPECIFICATION Spec
CONSTANTS
  Handlers = {h1, h2}
  Sources = {"p"}
  Primary = "p"
  Same = {"p"}
  WrongLength = {}
  Standby = {}
  Doomed = {}
  InitialPool <- PoolNone
  LateSources = {}
  N = 2
  PrefixMax = 0
  LadderLength = 0
  FallthroughMax = 1
  AwaitMax = 1
  MissMax = 0
  StallBudget = 0
  MaxZeroFill = 1
  SkipSizes = {1}
INVARIANT
  StallReasonIsOwn
