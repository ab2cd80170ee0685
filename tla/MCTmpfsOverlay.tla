----------------------------- MODULE MCTmpfsOverlay -----------------------------
(* TmpfsOverlay on small instances. *)
EXTENDS TmpfsOverlay, TLC

Symmetry == Permutations(Group) \cup Permutations(Hash)
================================================================================
