-------------------------------- MODULE FakeGbm --------------------------------
(***************************************************************************)
(* The buffer objects of fake_gbm.cc: the layout of their planes in the    *)
(* file that backs them, and the part of the file a plane is mapped from.  *)
(* A buffer object is its `meta' (gbm_import_fd_modifier_data), with the   *)
(* planes numbered from 1.  Sizes are computed in uint32_t.                *)
(***************************************************************************)
EXTENDS Integers, Sequences, SequencesExt

CONSTANTS
  Wrap,      \* the values of uint32_t: 2^32
  PageSize   \* PAGE_SIZE: 4096

ASSUME WrapAssumption == Wrap \in Nat /\ PageSize \in Nat \ {0} /\ Wrap % (2 * PageSize) = 0

GbmFormats == {"NV12", "P010", "YUV420"}

U32(n)      == n % Wrap
ALIGN(x, y) == U32((U32(x + y - 1) \div y) * y)

\* One descriptor in fds for each plane or each object; the modifier is left out.
gbm_import_fd_modifier_data(width, height, format, fds, strides, offsets) ==
  [width |-> width, height |-> height, format |-> format,
   fds |-> fds, strides |-> strides, offsets |-> offsets]

gbm_bo_get_plane_count(meta) == IF meta.format = "YUV420" THEN 3 ELSE 2
gbm_bo_get_bpp(meta)         == IF meta.format = "P010" THEN 2 ELSE 1

Planes(meta) == 1..gbm_bo_get_plane_count(meta)

get_y_subsample(plane)       == IF plane = 1 THEN 1 ELSE 2
get_x_subsample(meta, plane) == IF plane # 1 /\ meta.format = "YUV420" THEN 2 ELSE 1

get_plane_min_size(meta, plane) ==
  LET ys == get_y_subsample(plane)
  IN U32(meta.strides[plane] * ALIGN(meta.height, ys)) \div ys

\* Mutant: planes follow each other without a gap.
Unpadded(meta, plane) == get_plane_min_size(meta, plane)

\* What a plane takes of the file, and of the address space.
PaddedSize(meta, plane) == ALIGN(get_plane_min_size(meta, plane), PageSize)

Stride(meta, plane) ==
  LET xs == get_x_subsample(meta, plane)
  IN U32((ALIGN(meta.width, xs) \div xs) * gbm_bo_get_bpp(meta))

\* The room in the file before a plane: the size when the loop comes to it.
RoomBefore(meta, plane) ==
  LET size[p \in 0..(plane - 1)] ==
        IF p = 0 THEN 0 ELSE U32(size[p - 1] + PaddedSize(meta, p))
  IN size[plane - 1]

\* The buffer object, and the size its file is given with ftruncate.
gbm_bo_create(width, height, format, file) ==
  LET Meta(strides, offsets) ==
        gbm_import_fd_modifier_data(width, height, format, <<file>>, strides, offsets)
      bare    == Meta(<<>>, <<>>)
      strided == Meta([p \in Planes(bare) |-> Stride(bare, p)], <<>>)
  IN [meta |-> Meta(strided.strides, [p \in Planes(bare) |-> RoomBefore(strided, p)]),
      size |-> RoomBefore(strided, Len(strided.strides) + 1)]

\* The part of the first file that gbm_bo_map2 maps for a plane.
Area(meta, plane) ==
  [from |-> meta.offsets[plane], size |-> PaddedSize(meta, plane)]

\* mmap fails for a piece of no length, one that does not begin on a page, and
\* one whose offset is negative as an int.
MapFails(meta, plane) ==
  LET area == Area(meta, plane)
  IN area.size = 0 \/ area.from % PageSize # 0 \/ area.from >= Wrap \div 2
================================================================================
