SPECIFICATION FairSpec
CONSTANTS
    MaxConns = 2
    RxBufSize = 1
    MaxSegment = 1
    MaxRetransmits = 1
    SeqSpace = 16
    Bytes <- OneAndOne
    Connects = 1
    Losses = 1
    Dups = 0
    SendTimeouts = FALSE
    EarlyTimers = 0
    Polite = TRUE
PROPERTY SlotsFreed
CHECK_DEADLOCK FALSE
