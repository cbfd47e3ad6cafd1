SPECIFICATION FairSpec
CONSTANTS
  Requests = {r1, r2, r3}
  Settings <- MCSettings
  Rows = 1
  MayRaise = TRUE
INVARIANTS TypeOK NoneLost OneConfig
PROPERTIES ImplementsAnswers Answered Busy
CHECK_DEADLOCK FALSE
