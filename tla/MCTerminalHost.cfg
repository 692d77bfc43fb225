SPECIFICATION FairSpec
CONSTANTS
  QueueLen = 1
  MaxUnacked = 1
  Interval = 1
  Checkpointable = TRUE
  Input <- InputRecords
  MaxInputWriters = 2
  MaxChunks = 2
  MaxHeartbeats = 1
INVARIANTS NothingLost TruncationHonest Lifecycle ResizeBoundary CheckpointInReach InputOnce
PROPERTIES PauseEnds ExitPublished
