---------------------------- MODULE MCObjectTracker ----------------------------
(* Bounds for ObjectTracker.  Objects has one element more than the ids, so  *)
(* that the process can run out of ids.                                      *)
EXTENDS ObjectTracker, TLC

Interchangeable == Permutations(Threads) \cup Permutations(Objects)
================================================================================
