\* Four slots, so that the pause threshold (2) and the wrap of the ring are
\* reached, and one packet more than that; two-byte slots, so that a packet
\* can be cut by an early TC.
SPECIFICATION Spec
CONSTANTS
  NumMax = 4
  PackSize = 2
  Lens = {0, 2}
  MaxPkts = 5
INVARIANTS
  RingHoldsBacklog
  NeverOverwrites
  DmaFetchesNextByte
PROPERTIES
  IsSerialPipe
  PacketsSentWhole
  BacklogDrains
  PauseEnds
CHECK_DEADLOCK FALSE
