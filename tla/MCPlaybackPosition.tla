--------------------------- MODULE MCPlaybackPosition ---------------------------
(* PlaybackPosition on small instances. *)
EXTENDS PlaybackPosition, TLC

Symmetry == Permutations(Cmd)
================================================================================
