SPECIFICATION Spec
CONSTANTS
  Frames = {f0, f1, f2, f3, f4}
  f0 = f0
  f1 = f1
  f2 = f2
  f3 = f3
  f4 = f4
  BootFrame = f0
  LastId = 4
SYMMETRY FrameSymmetry
INVARIANTS TypeOK Isolation ImageHeld NoOrphan
CHECK_DEADLOCK FALSE
