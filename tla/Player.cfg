CONSTANTS
  MaxUrls = 3
  MaxFrames = 4
SPECIFICATION Spec
INVARIANT
  ThreadsSafe
\* The process ends for good.
CHECK_DEADLOCK FALSE
