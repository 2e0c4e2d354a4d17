SPECIFICATION Spec
CONSTANTS
  Sessions <- ManySessions
  Outcomes = {"valid", "invalid", "missed"}
  QueueLength = 1
INVARIANTS
  TypeOK
  StateHasCause
  StartsNeedEnable
PROPERTIES
  ResultsKept
CHECK_DEADLOCK FALSE
