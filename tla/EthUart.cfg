\* Three buffers as in the code, four packets of one or two bytes, so that the
\* ring wraps and fills; a buffer of three bytes that four bytes wrap and lap.
SPECIFICATION Spec
CONSTANTS
  Num = 3
  MaxLen = 2
  Size = 3
  MaxPackets = 4
  MaxBytes = 4
INVARIANTS
  DmaSendsNextByte
  SocketGetsNextBytes
PROPERTIES
  IsPipe
  BacklogDrains
  BytesReachSocket
CHECK_DEADLOCK FALSE
