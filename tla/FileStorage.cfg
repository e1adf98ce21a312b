\* Three days in two months, three samples in two data files, a disk of three
\* blocks and one restart.  The bounds end the clock, the samples and the
\* restarts, but never the cleaner, which goes round for ever.
SPECIFICATION Spec
CONSTANTS
  DaysPerMonth = 2
  Capacity = 3
  FreeSpace = 2
  OnSdCard = TRUE
  MaxDay = 2
  MaxRecords = 3
  MaxFiles = 2
  MaxKills = 1
INVARIANTS
  RecordsAreKept
  MidnightCostsOneRecord
PROPERTIES
  RollingTakesOldest
  CleanerReturns
