SPECIFICATION MCSpec
CONSTANTS
  Projects <- MCProjects
  Config <- MCConfig
  Suffixed <- MCSuffixed
  Methods <- MCMethods
  Tables <- MCTables
  Machines <- MCMachines
  Scripts <- MCScripts
  Disks <- MCDisks
  Lookups <- MCLookups
  Patterns <- MCPatterns
  MaxCalls = 3
CHECK_DEADLOCK FALSE
INVARIANTS
  LinkLine
  CompiledOnce
  GeneratorsOrdered
  CompilerSound
  ResultsTrue
  TreeFaithful
  SortedInOrder
PROPERTIES
  PostedOnce
  FailedTestLeavesNoTrace
