SPECIFICATION Spec
CONSTANTS
  Runs <- OneRun
  Shards <- OneShard
  RunOf <- OneShardOf
  Rank <- OneShardRank
  Providers <- OneProvider
  ProviderOf <- OneShardProvider
  Scopes <- OneScope
  ScopeOf <- OneShardScope
  Responses <- Answers
  NoResponse = NoResponse
  CallLimit = 2
  MaxAttempts = 2
  PageLimit = 2
  ResultLimit = 2
  Throttled = FALSE
  MaxFence = 5
  MaxKernelEpoch = 2
  MaxRunEpoch = 2
PROPERTIES
  CheckpointsAdvance
CHECK_DEADLOCK FALSE
