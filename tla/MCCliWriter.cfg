SPECIFICATION Spec
CONSTANTS
  Inputs <- InputSet
  MaxPayload = 2
  WindowRecords = 2
  WindowBytes = 3
  ChannelCap = 1
  MaxChunk = 3
  MaxInterrupts = 2
INVARIANTS InputPreserved ReportIsTrue WindowKept
PROPERTIES InterruptEnds
