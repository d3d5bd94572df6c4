\* Two sectors of two packs: a transfer over a sector's end, and a whole
\* sector before an abort.
SPECIFICATION DiskSpec
CONSTANTS
  Sectors = 2
  Packs = 2
  Versions = {1}
  MaxFaults = 2
INVARIANTS
  DiskTypeOK
  OffersWhatIsDue
  AcknowledgedIsStored
PROPERTIES
  ProgramsWhatIsWritten
  CommandEnds
CHECK_DEADLOCK FALSE
