SPECIFICATION Spec
CONSTANTS
  Transports = {"sse"}
  Starts <- StartSet
  Counts <- CountSet
  Untils <- UntilSet
  Attempts = 3
  MaxTime = 2
  MaxBatch = 2
  MaxRecords = 3
INVARIANTS SseEndsHonestly
