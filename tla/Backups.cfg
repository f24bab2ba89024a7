INIT Init
NEXT Next
CONSTANTS
  c1 = c1
  c2 = c2
  c3 = c3
  Candidates <- ThreeCandidates
  Offers <- ListsOfThree
  Primary = c3
  MaxTicks = 2
  MaxJobs = 5
  Backups = 1
  Extras = 2
  MaxLive = 2
INVARIANTS
  NzbdavNoOrphans
  NzbdavSessionHasBackups
  NzbdavDelayHeedsPlayback
  NzbgetNoOrphans
  NzbgetFailedIsExhausted
  NzbgetOthersLeftAlone
CHECK_DEADLOCK FALSE
