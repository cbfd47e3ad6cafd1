SPECIFICATION FairSpec
CONSTANTS
  Configs <- EvalOnStartConfigs
  Buckets = 1
  MaxResample = 0
  MayFail = FALSE
PROPERTIES Finishes
CHECK_DEADLOCK FALSE
