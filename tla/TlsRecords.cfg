\* Handshakes and records, with reads that end inside a record.
SPECIFICATION Spec
CONSTANTS
  MaxConns = 2
  MaxSeals = 2
  MaxWire = 2
  MaxRecords = 3
  MaxBytes = 3
  Asks <- MCAsks
INVARIANTS NonceInv FinishedInv NextRecordOpens
PROPERTIES ReadsAreTheStream
CHECK_DEADLOCK FALSE
