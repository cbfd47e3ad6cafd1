SPECIFICATION FairSpec
CONSTANTS
  Settings <- MCSettings
INVARIANTS Aligned OwnOutput
PROPERTIES AllLeave
CHECK_DEADLOCK FALSE
