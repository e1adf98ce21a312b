\* Three starts, two versions of a package of two buffers.
\* The program may stay off: no deadlock check.
SPECIFICATION Spec
CONSTANTS
  Chunks = 2
  Versions = {1, 2}
  ConfigFiles <- MCConfigFiles
  MaxStarts = 3
INVARIANTS
  MarkerNamesWholePackage
  StagedIsReported
  RunsAsConfigured
CHECK_DEADLOCK FALSE
