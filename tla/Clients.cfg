SPECIFICATION FairSpec
CONSTANTS
  MaxClients = 3
  Messages <- TwoMessages
  QueueLength = 1
INVARIANTS
  TypeOK
  ListInStep
  PingedClientExists
PROPERTIES
  MessagesAreHandled
  OpenClientsGetReadings
CHECK_DEADLOCK FALSE
