SPECIFICATION FairSpec
CONSTANTS
  Width = 2
  maxRecordSize = 5
  MinRead = 2
  HeaderSize = 4
  Lengths = {0, 3, 4, 5, 6}
  MaxRecords = 2
INVARIANTS TypeOK RecordsIntact WithinAccepted
PROPERTIES RecordArrives
CHECK_DEADLOCK FALSE
