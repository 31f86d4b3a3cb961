--------------------------- MODULE MCManagedBuffer ---------------------------
(* ManagedBuffer for TLC.  Callers are interchangeable.                    *)
EXTENDS ManagedBuffer, TLC

HandleSymmetry == Permutations(Handle)
=============================================================================
