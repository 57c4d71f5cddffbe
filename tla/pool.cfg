SPECIFICATION FairSpec
CONSTANTS
  p1 = p1
  p2 = p2
  Producers = {p1, p2}
  Owner = owner
  Consumer = consumer
  NoOne = none
  NoData = null
  RecordSize = 2
  BufferSize = 5
  DataSizes = {3, 4}
  MaxRecords = 4
INVARIANTS
  TypeOK
  StoresApart
  EveryRecordArrives
PROPERTIES
  FlushWaits
  ImplementsQueue
  CallsReturn
