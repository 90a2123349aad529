SPECIFICATION Spec
CONSTANTS
    NumInodes = 4
    NumBlocks = 4
    SectorSize = 2
    NumFds = 1
    Paths <- Tree
    Lengths = {1, 3}
    MaxWrites = 3
    Faults = 1
    FaultOn = {"data", "crash"}
    DeleteOpen = FALSE
INVARIANTS BlocksApart BlocksMarked NoLeak NoOrphan NamesUnique
PROPERTIES  ImplementsStore
CHECK_DEADLOCK FALSE
