SPECIFICATION Spec
CONSTANTS
  Scripts <- SomeCalls
  MaxRetries = 1
  QueueLimit = 2
  WatchdogQueueSize = 1
PROPERTIES
  AnswersReachTheirTarget
