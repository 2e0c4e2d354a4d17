SPECIFICATION Spec
CONSTANTS
  Duration <- Short
  MinValid = 1
  MaxValid = 4
  Wrap = 64
  Boots = {5}
  Horizon = 34
  Watches <- TwoRuns
INVARIANTS
  CaptureIsOfThisRun
CHECK_DEADLOCK FALSE
