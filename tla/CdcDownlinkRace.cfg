\* The smallest ring: one packet and one re-initialisation are enough.
SPECIFICATION Spec
CONSTANTS
  NumMax = 4
  PackSize = 1
  Lens = {1}
  MaxPkts = 1
INVARIANT
  RemainNumCountsSlots
CHECK_DEADLOCK FALSE
