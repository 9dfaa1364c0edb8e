SPECIFICATION FairSpec
CONSTANTS
  MAXJOBS = 99
  Tasks <- MCTasks
  Consumers = {c1, c2}
  GAP = 0
  Projects <- MissingProjects
  NoTask = notask
PROPERTY
  KeepGoesOn
