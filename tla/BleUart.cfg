\* Two cells and packets of two bytes, so that a full, a short and no packet can
\* wait; nine bytes, so that the counters wrap at eight and races pile up.
SPECIFICATION Spec
CONSTANTS
  Size = 2
  W16 = 8
  Payload = 2
  Patience = 1
  MaxBytes = 9
INVARIANTS
  FifoHoldsBacklog
PROPERTIES
  NotifiesNextBytes
  BytesLeave
  RaceHeals
CHECK_DEADLOCK FALSE
