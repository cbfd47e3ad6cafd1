SPECIFICATION Spec
CONSTANTS
  Configs <- SequenceParallelConfigs
  Buckets = 1
  MaxResample = 0
  MayFail = FALSE
INVARIANTS SequenceParallelKept
CHECK_DEADLOCK FALSE
