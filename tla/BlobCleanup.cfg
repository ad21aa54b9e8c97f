SPECIFICATION CleanupSpec
CONSTANTS
  Containers = {"offerings", "fields"}
  Pages = {"w1", "w2"}
  MaxFiles = 2
  MaxDay = 4
  MaxFaults = 2
INVARIANTS CleanupTypeOK OpenFilesAreKept
PROPERTIES OldFilesGo
CHECK_DEADLOCK FALSE
