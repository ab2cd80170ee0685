---------------------------- MODULE MCDownloadWorker ----------------------------
(* DownloadWorker on small instances: a small file and one that fills the cache. *)
EXTENDS DownloadWorker

CONSTANTS a, b

MCHash == {a, b}
MCSize == [h \in MCHash |-> IF h = a THEN 1 ELSE 2]
Symmetry == Permutations(Task)
================================================================================
