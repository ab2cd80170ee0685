----------------------------- MODULE MCSemaphorePool -----------------------------
(* SemaphorePool with more groups than permits, twice as many as the       *)
(* permits: two starts wait and two hold.  No symmetry, since the run      *)
(* checks a liveness property.                                             *)
EXTENDS SemaphorePool
==================================================================================
