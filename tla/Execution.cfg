SPECIFICATION Spec
CONSTANTS
  None = None
  Dispatches = {1, 2}
  MaxSteps = 2
  RunIds <- MCRunIds
  Jobs = {"j1", "j2"}
  BatchSize = 2
  HotRetention = 1
  MaxClock = 4
  Durations = {TRUE}
  Classifications = {"plugin_memory_exceeded", "plugin_result_invalid"}
  Scenarios <- MCScenarios
  AllowedOrigins = {"erp"}
  Mappings <- MCMappings
  DailyBudget = 1
  MaxOperations = 1
INVARIANTS TypeOK WorkerIsTheRequests ForwardedIsTransformed BudgetIsKept NoExecutionIsLost
PROPERTIES RunEndsHonestly
CHECK_DEADLOCK FALSE
