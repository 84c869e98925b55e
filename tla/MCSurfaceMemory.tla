---------------------------- MODULE MCSurfaceMemory ----------------------------
(* Bounds for SurfaceMemory: what may be permuted.                           *)
EXTENDS SurfaceMemory

Interchangeable ==
  Permutations(Threads) \cup Permutations(Mappings) \cup Permutations(BOs)
================================================================================
