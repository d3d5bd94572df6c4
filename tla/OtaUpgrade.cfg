\* Two blocks of two pages, so that the copy is cut between blocks and between
\* pages; frames that straddle pages, and an image that ends inside the third.
SPECIFICATION Spec
CONSTANTS
  Versions = {v1, v2}
  NBlocks = 2
  BlockPages = 2
  PageUnits = 3
  FrameUnits = 2
  ImgUnits = 7
INVARIANTS
  JumpsToCommitted
  VerifiedIsStored
PROPERTIES
  UpgradeIsAtomic
  UpgradeIsInstalled
CHECK_DEADLOCK FALSE
