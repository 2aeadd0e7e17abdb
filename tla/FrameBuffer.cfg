CONSTANTS
  Pushers = {p1, p2}
  Poppers = {d1, d2}
  Nobody = nobody
  Frames = {f1, f2}
  MaxPushes = 4
SPECIFICATION FairBufferSpec
INVARIANT
  MutexSound
PROPERTIES
  DrainsWhenQuiet
  ImplementsQueue
