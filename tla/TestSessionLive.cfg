SPECIFICATION FairSpec
CONSTANTS
  Sessions <- TwoCommands
  Outcomes = {"valid"}
  QueueLength = 1
PROPERTIES
  CommandsAreServed
  RunningTestIsSaved
CHECK_DEADLOCK FALSE
