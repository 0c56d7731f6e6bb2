--------------------------- MODULE MCEventRuntime ---------------------------
(* Model values for checking EventRuntime with TLC. *)
EXTENDS EventRuntime, TLC

Symmetry == Permutations(Events)
=============================================================================
