SPECIFICATION FairSpec
CONSTANTS
  Subsessions <- TwoSubsessions
  Radix = 2
  MaxRtcp = 2
  MaxCalls = 3
  Worlds <- MCWorlds
INVARIANTS Framed Attended
PROPERTY ReadToTheEnd
CHECK_DEADLOCK FALSE
