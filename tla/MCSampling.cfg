SPECIFICATION FairSpec
CONSTANTS
  Settings <- MCSettings
  MaxCrashes = 2
  MaxRuns = 1
INVARIANTS Complete OwnChoices
PROPERTIES Finishes
CHECK_DEADLOCK FALSE
