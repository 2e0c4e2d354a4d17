SPECIFICATION Spec
CONSTANTS
  Duration <- Short
  MinValid = 1
  MaxValid = 4
  Wrap = 64
  Boots = {59}
  Horizon = 39
  Watches <- RunsToWatch
INVARIANTS
  TypeOK
  PowerFollowsTests
  RunKeepsDuration
  CaptureSettled
  StopIsOfThisRun
  CaptureInv
PROPERTIES
  SuccessIsTimeBetween
CHECK_DEADLOCK FALSE
