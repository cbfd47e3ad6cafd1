SPECIFICATION FairSpec
CONSTANTS
  Requests = {r1, r2}
  Settings <- StreamSettings
  Rows = 2
  MayRaise = FALSE
INVARIANTS WholeStream
CHECK_DEADLOCK FALSE
