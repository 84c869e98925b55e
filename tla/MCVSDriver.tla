------------------------------ MODULE MCVSDriver ------------------------------
(* Bounds for VSDriver: what may be permuted.                                *)
EXTENDS VSDriver, TLC

Interchangeable ==
  Permutations(Threads) \cup Permutations(Configs) \cup Permutations(Contexts)
    \cup Permutations(Mapped) \cup Permutations(Surfaces \ Mapped)
    \cup Permutations(Params) \cup Permutations(Slices)
    \cup Permutations(Images) \cup Permutations(Backings)
================================================================================
