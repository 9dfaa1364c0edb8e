SPECIFICATION FairSpec
CONSTANTS
  MAXJOBS = 99
  Tasks <- MCTasks
  Consumers = {c1, c2}
  GAP = 0
  Projects <- MCProjects
  NoTask = notask
INVARIANTS
  SchedulerInv
  PredecessorsFirst
  CountIsInFlight
  FailureStops
  CompleteWhenBuilt
  NothingLeftBehind
PROPERTIES
  Termination
