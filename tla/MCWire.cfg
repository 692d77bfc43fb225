SPECIFICATION Spec
CHECK_DEADLOCK FALSE
CONSTANTS
  U64Max = 9
  SafeMax = 2
  FinalBit = 2
  MaxRecord = 2
  MaxPayload = 3
  AppendRecords = 2
  ReadRecords = 2
  Secrets = {5}
  Transports = {"read socket", "write session", "event stream"}
  Selected = 0
  Batches <- McBatches
  Answers <- McAnswers
  Submissions <- McSubmissions
  Openings <- McOpenings
  Closes <- McCloses
  Alphabet = {10, 13, 58, 100}
  MaxEvent = 5
  MaxTail = 5
  CompactAt = 3
  MaxChunk = 3
  MaxBody = 7
INVARIANTS
  FramesExact
  EventsExact
