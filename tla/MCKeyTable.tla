----------------------------- MODULE MCKeyTable -----------------------------
(* KeyTable for TLC: processes, names and values are interchangeable. *)
EXTENDS KeyTable, TLC

Symmetry == Permutations(Proc) \cup Permutations(Name) \cup Permutations(Value)
=============================================================================
