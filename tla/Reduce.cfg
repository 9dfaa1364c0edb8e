\* Three keys with three, one and two values, room for one of them in the queue,
\* with and without -c 1 and --incremental-reduce; anything may fail.
SPECIFICATION FairSpec
CONSTANTS
  Workers = {w1, w2}
  NoPair = nopair
  NoFile = nofile
  Roots <- MCRoots
  MapOut <- MCMapOut
  Environments <- AllOptions
  SavesOf <- MCSavesOf
  Capacity = 1
  Existing <- OldOutput
  Faults = {"create", "handle", "mapopen", "outopen", "string", "save", "close"}
  CountMod = 8
INVARIANTS
  ReduceInv
  OutputAtExit
PROPERTIES
  ReduceCompletes
