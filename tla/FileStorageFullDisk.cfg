\* The disk of FileStorage.cfg, which the collecting thread fills to its last
\* block before the cleaner comes.
SPECIFICATION Spec
CONSTANTS
  DaysPerMonth = 2
  Capacity = 3
  FreeSpace = 2
  OnSdCard = TRUE
  MaxDay = 2
  MaxRecords = 3
  MaxFiles = 2
  MaxKills = 1
INVARIANTS
  LowSpaceIsRolled
