\* An incremental map that emits a key the existing file has a value for.
SPECIFICATION FairSpec
CONSTANTS
  Workers = {w1, w2}
  NoThread = none
  NoRecord = norecord
  NoPattern = nopattern
  NoFile = nofile
  Records <- MCRecords
  Files <- OneFile
  RecordKey <- MCRecordKey
  KeyPattern = "x"
  Calls <- SharedCalls
  Refused = {}
  Capacity = 1
  Environments <- IncrementalMap
  Existing <- OldOutput
  Faults = {}
  CountMod = 8
PROPERTIES
  EmittedValuesStay
