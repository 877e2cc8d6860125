SPECIFICATION Spec
CONSTANTS
  Runs <- OneRun
  Shards <- TwoShards
  RunOf <- OneRunOf
  Rank <- TwoRank
  Providers <- OneProvider
  ProviderOf <- OneProviderOf
  Scopes <- TwoScopes
  ScopeOf <- TwoScopeOf
  Responses <- Answers
  NoResponse = NoResponse
  CallLimit = 2
  MaxAttempts = 2
  PageLimit = 2
  ResultLimit = 2
  Throttled = FALSE
  MaxFence = 2
  MaxKernelEpoch = 2
  MaxRunEpoch = 2
INVARIANTS
  TypeOK
  LeaseExclusive
  NoOrphan
  WaitingCanWork
  RunFollowsShards
  CancelHasCause
  LedgerFollowsLease
  LeasesValid
  WithinLimits
  AggregatesValid
PROPERTIES
  KeepsTheLedger
  PagesOfThisEpoch
  PauseComesToRest
  RowsAccepted
CHECK_DEADLOCK FALSE
