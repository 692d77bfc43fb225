SPECIFICATION FairSpec
CONSTANTS
  Producers = {p1}
  Submissions = {s1, s2}
  BatchLens = {1, 2}
  PayloadOffset <- OffsetTable
  MaxInFlightRecords = 2
  MaxInFlightBytes = 2
  MaxFrameRecords = 2
  MaxFrameBytes = 2
  MaxRecordBytes = 2
  MaxWriterSeq = 3
  BackoffCap = 1
  MaxConnections = 2
  MaxForeign = 0
PROPERTIES TicketsSettle CloseReturns ImplementsReliableAppend
