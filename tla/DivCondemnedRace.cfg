SPECIFICATION Spec
CONSTANTS
  Handlers = {h1, h2}
  Sources = {"p", "a"}
  Primary = "p"
  Same = {"p", "a"}
  WrongLength = {}
  Standby = {}
  Doomed = {}
  InitialPool <- PoolA
  LateSources = {}
  N = 1
  PrefixMax = 1
  LadderLength = 0
  FallthroughMax = 1
  AwaitMax = 1
  MissMax = 0
  StallBudget = 0
  MaxZeroFill = 1
  SkipSizes = {1}
PROPERTY
  NeverToCondemned
