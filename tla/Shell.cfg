SPECIFICATION FairSpec
CONSTANTS
    Lines <- MCLines
    EnvMaxVars = 5
    MaxSegments = 3
    MaxArgs = 3
    PipeBufSize = 3
    ArgvArea = 1
    LoopGuard = 2
    IntMax = 5
    Dirs <- MCDirs
    NameOf <- MCNameOf
    PathOf <- MCPathOf
    PathList <- MCPathList
    Programs <- MCPrograms
    Explicit <- MCExplicit
    AppWords <- MCAppWords
    Truncated <- MCTruncated
   
PROPERTIES PromptReturns
CHECK_DEADLOCK FALSE
