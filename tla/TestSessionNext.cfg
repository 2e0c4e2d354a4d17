SPECIFICATION FairSpec
CONSTANTS
  Sessions <- AutoStart
  Outcomes = {"valid"}
  QueueLength = 1
PROPERTIES
  PendingTestStarts
CHECK_DEADLOCK FALSE
