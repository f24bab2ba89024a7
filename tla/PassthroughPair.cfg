SPECIFICATION Spec
CONSTANTS
  Handlers = {h1, h2}
  Sources = {"p", "a", "x"}
  Primary = "p"
  Same = {"p", "a"}
  WrongLength = {}
  Standby = {"a"}
  Doomed = {}
  InitialPool <- PoolAX
  LateSources = {}
  N = 1
  PrefixMax = 1
  LadderLength = 0
  FallthroughMax = 1
  AwaitMax = 1
  MissMax = 0
  StallBudget = 1
  MaxZeroFill = 1
  SkipSizes = {1}
SYMMETRY HandlerSymmetry
INVARIANTS
  NoForeignBytes
  ToastsTrue
PROPERTY
  CondemnedForGood
