SPECIFICATION FairSpec
CONSTANTS
  Configs <- MCConfigs
  Buckets = 2
  MaxResample = 1
  MayFail = TRUE
INVARIANTS TypeOK ClientExclusive WholeRollout OneBehind
PROPERTIES Finishes
CHECK_DEADLOCK FALSE
