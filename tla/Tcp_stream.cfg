SPECIFICATION Spec
CONSTANTS
    MaxConns = 2
    RxBufSize = 2
    MaxSegment = 2
    MaxRetransmits = 1
    SeqSpace = 16
    Bytes <- ThreeAndNone
    Connects = 1
    Losses = 1
    Dups = 1
    SendTimeouts = FALSE
    EarlyTimers = 1
    Polite = FALSE
INVARIANTS  StreamPrefix SentMeansBuffered
CHECK_DEADLOCK FALSE
