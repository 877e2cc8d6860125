SPECIFICATION Spec
CONSTANTS
  Runs <- TwoRuns
  Shards <- ThreeShards
  RunOf <- ThreeShardOf
  Rank <- ThreeRank
  Providers <- OneProvider
  ProviderOf <- ThreeProviderOf
  Scopes <- TwoScopes
  ScopeOf <- ThreeScopeOf
  Responses <- OneAnswer
  NoResponse = NoResponse
  CallLimit = 1
  MaxAttempts = 1
  PageLimit = 1
  ResultLimit = 2
  Throttled = FALSE
  MaxFence = 1
  MaxKernelEpoch = 1
  MaxRunEpoch = 2
PROPERTIES
  RunEndsAccepted
CHECK_DEADLOCK FALSE
