SPECIFICATION Spec
CONSTANTS
  LayerCounts <- MCLayerCounts
  MaxTensors = 2
  Steps = 2
INVARIANTS NoRace TwoGroups Balanced
CHECK_DEADLOCK FALSE
