----------------------------- MODULE MCLruCache -----------------------------
(* LruCache for TLC: the nodes are interchangeable, and so are the values. *)
EXTENDS LruCache, TLC

Symmetry == Permutations(Node) \cup Permutations(Val)
=============================================================================
