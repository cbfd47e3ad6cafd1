SPECIFICATION FairSpec
CONSTANTS
  Settings <- MCSettings
  Procs = 2
  ChunkSize = 2
  Interval = 2
  Capacity = 2
  Ranks = 2
  Prefetch = 1
INVARIANTS TypeOK Conserved Reproducible TailOnly
PROPERTIES AllEnd
CHECK_DEADLOCK FALSE
