---------------------------- MODULE MCPurgeStore ----------------------------
(* Model-checking instance of PurgeStore. *)
EXTENDS PurgeStore, TLC

Symmetry == Permutations(Object)
=============================================================================
