INIT Init
NEXT Next
CONSTANTS
  Folders = {"job", "a", "b", "c"}
  Root = "job"
  Kids <- MCKids
  Listings <- MCListings
  Floors = {0, 2}
  Workers = 2
  HintMax = 1
  Selectable <- MCSelectable
  Pools <- MCPools
  Caps = {1, 2}
  StopTokens = {"web"}
  SequelTokens = {"ii"}
  SyntheticMin = 50
  SamePostWindow = 5
  SplitMinFiles = 2
  Files <- MCFiles
  Gaps <- MCGaps
  Requests = {1, 2}
  Starts = {0, 12}
  Chunk = 8
  MaxSpan = 12
  MaxPlans = 2
  Clips <- MCClips
  HeadProbe = 6
  TailProbes <- MCTailProbes
  MoovMax = 3
  StcoMax = 13
  TempMax = 12
  Thresholds = {0, 5}
  Providers <- MCProviders
  Replies <- MCReplies
  Histories <- MCHistories
  Calls <- MCCalls
  Extras <- MCExtras
  Tolerance = 15
  PostedWithin = 5
  MaxShown = 2
  MaxBackups = 1
INVARIANTS
  FindsEpisode
  PeersDiffer
  NonePassedOver
  Readable
  ReachesChunks
  AnswersHandle
  TellsTheTruth
  RecoversOne
PROPERTIES
  SameRepair
