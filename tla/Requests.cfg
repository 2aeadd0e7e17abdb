CONSTANT Worlds <- MCWorlds
SPECIFICATION FairSpec
INVARIANTS
  QueuesSound
  NothingLost
PROPERTIES
  EveryRequestAnswered
  ImplementsService
\* A client whose callers have no more requests rests.
CHECK_DEADLOCK FALSE
