------------------------- MODULE MCSharedWorkspace -------------------------
(* Instances of SharedWorkspace for TLC. *)
EXTENDS SharedWorkspace, TLC

Symmetry == Permutations(Runs) \union Permutations(Names)
=============================================================================
