\* Two files of more than a page, and not a whole number of pages; commands
\* that cross a page; two sessions and two losses of a message or of power.
SPECIFICATION Spec
CONSTANTS
  Files = {4, 6}
  PageUnits = 3
  NPages = 4
  MaxChunk = 2
  MaxSessions = 2
  MaxLost = 2
INVARIANTS
  VerifiedIsInstalled
  CleanSessionSucceeds
  StartsWholeImage
CHECK_DEADLOCK FALSE
