SPECIFICATION Spec
CONSTANTS
  Callers <- AllCallers
  Crews <- TwoCores
  Table <- TransitionTable
  EventsOf <- CoreEvents
  ModesOf <- CoreModes
PROPERTIES
  MovesAlongTable
