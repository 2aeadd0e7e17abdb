CONSTANTS
  Size = 8
  Requests = 3
  Exchanges <- MCExchanges
SPECIFICATION ResponseFairSpec
INVARIANTS OwnAnswer InStep
PROPERTY AllAnswered
CHECK_DEADLOCK FALSE
