------------------------------- MODULE MCJukebox -------------------------------
(* Jukebox on small instances: a few commands and FFmpeg processes. *)
EXTENDS Jukebox

Symmetry == Permutations(Cmd) \cup Permutations(Proc)
================================================================================
