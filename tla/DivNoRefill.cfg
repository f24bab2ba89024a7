SPECIFICATION FairWindow
CONSTANTS
  h1 = h1
  h2 = h2
  Readers <- OneReader
  N = 3
  Cap = 2
  Chunk = 2
PROPERTIES
  SeekIsRefilled
CHECK_DEADLOCK FALSE
