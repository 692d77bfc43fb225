SPECIFICATION StartSpec
CONSTANTS
  Attempts = 2
  Programs <- ProgramSet
  Batches <- BatchSet
  Expectations <- ExpectationSet
  LinkIds = {"guest"}
  PageLimit = 2
  BatchLimit = 2
  SeqEnd = 10
  SafeMax = 10
  Statuses = {503}
  RetryAfters <- AfterSet
  FaultyPages <- PageSet
  MaxForeign = 1
INVARIANTS TypeOK OnceOnly ResultsTrue StartupLeavesNothing
PROPERTIES CallsEnd
CHECK_DEADLOCK FALSE
