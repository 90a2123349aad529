------------------------------ MODULE MCKernel ------------------------------
(***************************************************************************)
(* Kernel with the small pools the configurations give it.                 *)
(***************************************************************************)
EXTENDS Kernel

=============================================================================
