SPECIFICATION FairSpec
CONSTANTS
  Scripts <- SomeCalls
  MaxRetries = 1
  QueueLimit = 2
  WatchdogQueueSize = 1
INVARIANTS
  TypeOK
  AskedIsSet
  ReadsPerTrigger
PROPERTIES
  MetersArePolled
  TasksReturn
