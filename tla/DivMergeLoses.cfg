SPECIFICATION Spec
CONSTANTS
  Handlers = {h1}
  Sources = {"p", "a", "b"}
  Primary = "p"
  Same = {"p", "a", "b"}
  WrongLength = {}
  Standby = {}
  Doomed = {}
  InitialPool <- PoolA
  LateSources = {"b"}
  N = 1
  PrefixMax = 0
  LadderLength = 0
  FallthroughMax = 3
  AwaitMax = 3
  MissMax = 4
  StallBudget = 0
  MaxZeroFill = 1
  SkipSizes = {1}
PROPERTY
  PoolOnlyGrows
