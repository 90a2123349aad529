--------------------------- MODULE MCLineEditor --------------------------
EXTENDS LineEditor

ArrowKeys == {"ext", "left", "right", "up", "down", "home", "end", "del"}
MCKeys == {"letter", "digit", "enter", "backspace"} \cup ArrowKeys
RawKeys == {"letter", "digit", "shift", "shift_release", "caps", "f12", "enter"}

\* Keys come at any point of the main loop but two: between Enter and dispatch,
\* and between the two stores that empty the line.
Outside == {"prompt", "command", "len0", "print", "clear", "unraw_tail", "unraw_head", "stop_ack"}
AtPrompt == {"prompt"}
AllPrograms == {"app", "wm"}
===========================================================================
