SPECIFICATION Spec
CONSTANTS
    RingSize = 8
    Headroom = 2
    Sizes = {2, 3}
    MaxFrames = 6
INVARIANTS FramesInOrder
CHECK_DEADLOCK FALSE
