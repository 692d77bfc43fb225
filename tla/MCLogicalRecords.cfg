SPECIFICATION Spec
CONSTANTS
  Writers = {"w1", "w2"}
  Parts <- WriterParts
  RawRecords <- Raw
  MaxBytes = 5
  MaxParts = 3
  MaxWriters = 2
  MaxReads = 10
INVARIANTS TotalsExact WholeRecords ExactlyOnce
