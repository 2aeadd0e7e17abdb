SPECIFICATION FairSpec
CONSTANTS
  Sources <- AnySource
  SeqNos = 8
  Bases = {0, 5}
INVARIANTS
  BufferSound
  FrameIntact
  NoLostWakeup
PROPERTIES
  DeliveredInOrder
  Drains
