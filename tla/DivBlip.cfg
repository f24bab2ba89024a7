SPECIFICATION Spec
CONSTANTS
  Handlers = {h1}
  Sources = {"p", "b"}
  Primary = "p"
  Same = {"p", "b"}
  WrongLength = {}
  Standby = {"b"}
  Doomed = {}
  InitialPool <- PoolB
  LateSources = {}
  N = 1
  PrefixMax = 0
  LadderLength = 0
  FallthroughMax = 3
  AwaitMax = 3
  MissMax = 4
  StallBudget = 0
  MaxZeroFill = 1
  SkipSizes = {1}
INVARIANT
  BlipNeverCondemns
