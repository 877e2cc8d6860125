SPECIFICATION WorkerSpec
CONSTANTS
  Runs <- OneRun
  Shards <- TwoShards
  RunOf <- OneRunOf
  Rank <- TwoRank
  Providers <- OneProvider
  ProviderOf <- OneProviderOf
  Scopes <- TwoScopes
  ScopeOf <- TwoScopeOf
  Responses <- WorkerAnswers
  NoResponse = NoResponse
  CallLimit = 2
  MaxAttempts = 2
  PageLimit = 1
  ResultLimit = 2
  Throttled = FALSE
  MaxFence = 4
  MaxKernelEpoch = 3
  MaxRunEpoch = 1
  MaxFaults = 2
INVARIANTS
  WorkerTypeOK
  RunFollowsShards
  LoopGoesOn
  StoreStaysValid
PROPERTIES
  EveryRunEnds
  AnswersAreSettled
