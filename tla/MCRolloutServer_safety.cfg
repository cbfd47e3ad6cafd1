SPECIFICATION Spec
CONSTANTS
  DP = 2
  MaxCalls = 6
  MaxPrompts = 3
  MaxClients = 2
  Faults <- AllFaults
INVARIANTS TypeOK ReplyMatch FreshWeights NoStalePrefix InOrder HeaderMatch GroupAgreement
CHECK_DEADLOCK FALSE
