SPECIFICATION WebSpec
CONSTANTS
  Forms <- SomeForms
  Modulus <- Values30
  OutOfRange <- SomeOutOfRange
  MaxForms = 2
  Loads = {"LOAD_75P", "LOAD_100P"}
  MaxTests = 2
  QueueLength = 1
  BufferLimit = 4
  ClearLimit = 3
  MaxLogged = 3
INVARIANTS
  TypeOK
  ObserversInStep
  LoadFits
  LogIsRecent
