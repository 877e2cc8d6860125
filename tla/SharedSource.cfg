SPECIFICATION Spec
CONSTANTS
  Runs <- TwoRuns
  Shards <- TwoShards
  RunOf <- TwoRunOf
  Rank <- TwoRank
  Providers <- OneProvider
  ProviderOf <- OneProviderOf
  Scopes <- OneScope
  ScopeOf <- SameScopeOf
  Responses <- FewAnswers
  NoResponse = NoResponse
  CallLimit = 2
  MaxAttempts = 2
  PageLimit = 2
  ResultLimit = 2
  Throttled = TRUE
  MaxFence = 3
  MaxKernelEpoch = 1
  MaxRunEpoch = 1
INVARIANTS
  WaitingCanWork
  AggregatesValid
PROPERTIES
  ExhaustedIsFinal
CHECK_DEADLOCK FALSE
