SPECIFICATION FairSpec
CONSTANTS
  DP = 2
  MaxCalls = 6
  MaxPrompts = 2
  MaxClients = 2
  Faults <- WorkerFaults
PROPERTIES Responsive Progress ImplementsService
CHECK_DEADLOCK FALSE
