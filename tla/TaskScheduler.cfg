CONSTANTS
  Sockets = {0, 1, 2}
  NumTriggers = 3
SPECIFICATION Spec
INVARIANTS
  SelectCovers
PROPERTIES
  FairToSockets
  FairToEvents
