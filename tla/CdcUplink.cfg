\* Three cells and two-byte packets, so that uploads are full, short and
\* clipped; four bytes, so that the DMA starts a second lap and can overrun.
SPECIFICATION Spec
CONSTANTS
  BufLen = 3
  PackSize = 2
  W16 = 8
  RxWrap = 2
  RxMax = 1
  UpWrap = 3
  ZlpTime = 1
  UpTime = 2
  MaxBytes = 4
INVARIANTS
  RingFollowsDma
  NoSilentLoss
PROPERTIES
  TailIsUploaded
  TransferIsClosed
CHECK_DEADLOCK FALSE
