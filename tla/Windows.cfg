SPECIFICATION WinSpec
CONSTANTS
    BspMaxNodes = 6
    MaxWindows = 4
    Width = 5
    Height = 4
    GlyphW = 1
    GlyphH = 2
    Deltas <- MCDeltas
INVARIANTS TreeMatchesTable Tiled 
CHECK_DEADLOCK FALSE
