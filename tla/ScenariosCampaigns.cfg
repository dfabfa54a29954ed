SPECIFICATION Spec
CONSTANTS
  SymmetricKeySizes = {16, 32}
  AttributeCounts = {1, 2}
  MessageCount = 2
  MaxCampaigns = 2
INVARIANTS
  ConsumedBelongsToTheScenario
  SessionsDeliver
CHECK_DEADLOCK FALSE
