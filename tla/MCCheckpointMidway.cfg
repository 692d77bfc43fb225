SPECIFICATION Spec
CHECK_DEADLOCK FALSE
CONSTANTS
  MaxColumns = 2
  MaxRows = 2
  MaxCells = 3
  MaxRecord = 21
  Sizes <- McSizes
  InitialSize <- McInitial
  Reads <- McReads
  ByteInterval = 6
  Interval = 2
  MaxEvents = 4
INVARIANTS
  EveryCheckpointRestores
