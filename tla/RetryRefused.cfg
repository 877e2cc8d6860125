SPECIFICATION MarketSpec
CONSTANTS
  Askers = {alice}
  Queries = {q1}
  Public = {q1}
  Keys = {k1}
  MaxJobs = 1
  MaxAttempts = 2
  MaxTime = 0
  MaxEvents = 1
PROPERTIES
  RetriesRun
CHECK_DEADLOCK FALSE
