---------------------------- MODULE MCQueueManager ----------------------------
(* QueueManager on a small instance: a few tracks and clients.             *)
EXTENDS QueueManager

Symmetry == Permutations(Track) \cup Permutations(Client)
===============================================================================
