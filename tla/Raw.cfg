SPECIFICATION FairSpec
CONSTANTS
    RawSize = 3
    CmdBufSize = 2
    HistorySize = 1
    Keys <- RawKeys
    KeysAt <- AtPrompt
    EnterAt <- AtPrompt
    Programs <- AllPrograms
    StrayF12 = FALSE
    MaxAccepted = 4
INVARIANTS KeysInOrder 
PROPERTIES StopHonoured
CHECK_DEADLOCK FALSE
