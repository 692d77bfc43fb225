SPECIFICATION FaultySpec
CONSTANTS
  Producers = {p1, p2}
  Submissions = {s1, s2}
  BatchLens = {1, 2}
  PayloadOffset <- OffsetTable
  MaxInFlightRecords = 2
  MaxInFlightBytes = 3
  MaxFrameRecords = 2
  MaxFrameBytes = 2
  MaxRecordBytes = 2
  MaxWriterSeq = 3
  BackoffCap = 1
  MaxConnections = 2
  MaxForeign = 1
SYMMETRY Symmetric
INVARIANTS TypeOK WindowExact NoStall NoGap ReceiptsMatchBatch ReceiptsDurable CloseDurable
PROPERTIES ResendsOnlyUnacked
