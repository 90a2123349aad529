SPECIFICATION FairSpec
CONSTANTS
  NumTasks = 4
  NumDirs = 3
  NumTables = 7
  NumFrames = 7
  AppSizes = {1, 7}
  StackPages = 1
  LastId = 6
  Preemptible = FALSE
  WorkersSpawn = TRUE
PROPERTIES ImplementsTree ExecReturns
CHECK_DEADLOCK FALSE
