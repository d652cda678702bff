SPECIFICATION Spec
CONSTANTS
  StepCount = 3
  Parallelism = 2
  MaxAttempts = 2
  MaxSteps = 2
  MaxToolCalls = 2
  MaxUsage = 2
INVARIANTS
  ToolBudgetHolds
  AuditIsComplete
PROPERTIES
  CancelledRunStartsNothing
  RefusedUsageIsFinal
