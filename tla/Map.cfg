\* Two workers, three selected records of two files around one that does not
\* open, a record SpiderMonkey refuses, one that -k drops, room for one record in
\* the queue, every combination of -o and --incremental-map; any call may fail.
SPECIFICATION FairSpec
CONSTANTS
  Workers = {w1, w2}
  NoThread = none
  NoRecord = norecord
  NoPattern = nopattern
  NoFile = nofile
  Records <- MCRecords
  Files <- ThreeFiles
  RecordKey <- MCRecordKey
  KeyPattern = "x"
  Calls <- SharedCalls
  Refused = {"bad"}
  Capacity = 1
  Environments <- AllOptions
  Existing <- OtherOutput
  Faults = {"create", "handle", "open", "put"}
  CountMod = 8
INVARIANTS
  PhaseInv
  EveryNumberHasItsEmit
PROPERTIES
  Implements
  CompletesOrStops
