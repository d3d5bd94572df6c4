\* Two images of more than a page, one of them not a whole number of pages;
\* two blocks of two pages, the flag in the last page; a receive ring that is
\* longer than a page, and shorter than a file.
SPECIFICATION Spec
CONSTANTS
  Images = {3, 4}
  PageUnits = 2
  BlockPages = 2
  NBlocks = 2
  RingLen = 3
INVARIANTS
  StreamIsSaved
  StartsWholeImage
PROPERTY
  FileIsAccepted
CHECK_DEADLOCK FALSE
