SPECIFICATION Spec
CONSTANTS
  NumTasks = 5
  NumDirs = 4
  NumTables = 9
  NumFrames = 9
  AppSizes = {1, 9}
  StackPages = 1
  LastId = 8
  Preemptible = TRUE
  WorkersSpawn = FALSE
INVARIANTS FramesApart NothingFreedInUse  Reclaimed ChildrenKnown
PROPERTIES ImplementsTree
CHECK_DEADLOCK FALSE
