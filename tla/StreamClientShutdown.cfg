\* One time unit stands for a second; an unsigned holds eight of them.
CONSTANTS
  Subs = 2
  Durations = {0, 2, 9}
  DelaySlop = 1
  UnsignedLimit = 8
  MaxTime = 4
SPECIFICATION Spec
PROPERTY ShutdownWhenAllClosed
\* The client stops for good once it has exited.
CHECK_DEADLOCK FALSE
