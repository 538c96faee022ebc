SPECIFICATION Spec
CONSTANTS
  FALLBACK_RETRIES = 1
  FALLBACK_MODELS <- TwoModels
  Calls <- TwoCalls
  MaxDeltas = 3
  MaxTurns = 3
INVARIANTS
  RecoveryInOrder
  StreamFaithful
  ToolResultsAdjacent
CHECK_DEADLOCK FALSE
