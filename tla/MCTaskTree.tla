----------------------------- MODULE MCTaskTree -----------------------------
(***************************************************************************)
(* TaskTree with four interchangeable pool frames besides the boot frame.  *)
(***************************************************************************)
EXTENDS TaskTree, TLC

FrameSymmetry == Permutations(Frames \ {BootFrame})

=============================================================================
