SPECIFICATION Spec
CONSTANTS
  Callers <- AllCallers
  Crews <- SomeCrews
  Table <- TransitionTable
  EventsOf <- SessionEvents
  ModesOf <- CoreModes
INVARIANTS
  TypeOK
  IdleInSync
  SoloCallSynchronises
PROPERTIES
  PromiseKept
  SoloCallIsAtomic
