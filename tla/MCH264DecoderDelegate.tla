------------------------ MODULE MCH264DecoderDelegate ------------------------
(* Bounds for H264DecoderDelegate.  Surfaces are interchangeable, and so are   *)
(* the buffers of a type, among the slice parameters those of a slice type,    *)
(* and among the picture parameters those of an order count type.              *)
EXTENDS H264DecoderDelegate, TLC

Interchangeable ==
  Permutations(Surfaces) \cup Permutations(OrderType1) \cup Permutations(PicParams \ OrderType1)
    \cup Permutations(Matrices) \cup Permutations(SliceData)
    \cup Permutations(Intra) \cup Permutations(SliceParams \ Intra)
================================================================================
