\* A host that may write packets of no bytes.
SPECIFICATION Spec
CONSTANTS
  NumMax = 4
  PackSize = 1
  Lens = {0, 1}
  MaxPkts = 2
PROPERTY
  BacklogAlwaysDrains
CHECK_DEADLOCK FALSE
