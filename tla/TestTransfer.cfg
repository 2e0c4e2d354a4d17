SPECIFICATION FairSpec
CONSTANTS
  MaxTest = 10
  TestTypes <- OneType
  LoadLevels <- Levels
INVARIANTS
  TypeOK
  TransferIsPrefix
  FillFits
  TransferComplete
PROPERTIES
  HandoverKept
  WaitingTestsArrive
CHECK_DEADLOCK FALSE
