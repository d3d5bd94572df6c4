\* Rings of two bytes, which either side refills while they are full or at their
\* edge; packets of one and two bytes against notifications of one, so that a
\* rest is sent in parts, and of two, whose length a byte of two values cuts to 0;
\* one lost handshake, reset or cleared endpoint.
SPECIFICATION Spec
CONSTANTS
  Size = 2
  OutMax = 2
  InMax = 2
  Load = 1
  MinMtu = 1
  MaxMtu = 2
  ByteRange = 2
  MaxOut = 3
  MaxIn = 2
  MaxFaults = 1
INVARIANTS
  RingsHoldBacklog
  DealtWithOnce
  HostGetsNextBytes
PROPERTIES
  PeerGetsNextBytes
  InterruptsComeBack
CHECK_DEADLOCK FALSE
