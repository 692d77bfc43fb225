SPECIFICATION Spec
CONSTANTS
  Transports = {"websocket", "sse"}
  Starts <- StartSet
  Counts <- CountSet
  Untils <- UntilSet
  Attempts = 3
  MaxTime = 2
  MaxBatch = 2
  MaxRecords = 3
INVARIANTS TypeOK Contiguous WithinStops ConformingAccepted WebSocketEndsHonestly
PROPERTIES SseRetriesEnd
