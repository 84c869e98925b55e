----------------------------- MODULE SurfaceMemory -----------------------------
(***************************************************************************)
(* The memory of surfaces and images: an application allocates a buffer    *)
(* with GBM and exports it, VSSurface::Create (surface.cc) checks the      *)
(* attributes and the descriptor and imports it through the factory of     *)
(* ScopedBOMapping, VSImage::Create (image.cc) lays out an image in a      *)
(* buffer, and vsGetImage (drv_video.cc) checks one against the other.     *)
(*                                                                         *)
(* A surface is the mapping it holds; its size and format are those of the *)
(* descriptor.                                                             *)
(***************************************************************************)
EXTENDS ScopedBOMapping

CONSTANTS
  Dims,     \* widths and heights of surfaces, images and copies
  MaxDim    \* VASurfaceAttribMaxWidth and MaxHeight: 4096

ASSUME DimsAssumption == Dims \subseteq Nat

\* A buffer of the greatest size is far from the end of what an int can count.
ASSUME MaxDimAssumption ==
  MaxDim \in Nat /\ 8 * (MaxDim + 1) * (MaxDim + 1) + 4 * PageSize <= Wrap

VARIABLES
  buffer,   \* the application's buffer object and the size of its file
  desc,     \* its VADRMPRIMESurfaceDescriptor
  image,    \* the VSImage, or NoImage
  copy      \* the vsGetImage each thread is in

surfaceVars == <<buffer, desc, image, copy>>
allVars     == <<vars, surfaceVars>>

Small(w, h) == w <= MaxDim /\ h <= MaxDim

NoImage == [buffer |-> Nil]
NoCopy  == [place |-> Nil]

--------------------------------------------------------------------------------
(* The application's side.                                                   *)

\* The descriptor of a buffer, made with the gbm_bo_get_ functions.
Exported(meta_) ==
  [fourcc |-> meta_.format, width |-> meta_.width, height |-> meta_.height,
   objects |-> [i \in DOMAIN meta_.fds |-> [fd |-> meta_.fds[i], modifier |-> 0]],
   layers |-> 1, drm_format |-> meta_.format,
   object_index |-> [p \in Planes(meta_) |-> 1],
   pitch |-> meta_.strides, offset |-> meta_.offsets]

\* Descriptors an application might make by hand.
Variants(d) ==
  LET other == [fd |-> 2, modifier |-> 0]
  IN {[d EXCEPT !.objects = Append(@, other), !.object_index[2] = 2, !.offset[2] = 0],
      [d EXCEPT !.objects = Append(@, [other EXCEPT !.modifier = 1])],
      [d EXCEPT !.objects = <<>>],
      [d EXCEPT !.object_index[2] = 2],
      [d EXCEPT !.layers = 2],
      [d EXCEPT !.drm_format = "P010"],
      [d EXCEPT !.offset[2] = @ + 1],
      [d EXCEPT !.width = 0]}

SurfaceInit ==
  /\ Init
  /\ \E w, h \in Dims, f \in GbmFormats : buffer = gbm_bo_create(w, h, f, 1)
  /\ desc \in {Exported(buffer.meta)}
       \cup IF Small(buffer.meta.width, buffer.meta.height) THEN Variants(Exported(buffer.meta)) ELSE {}
  /\ image = NoImage
  /\ copy = [t \in Threads |-> NoCopy]

MemoryType(value) == [type |-> "MemoryType", value |-> value]
Descriptor        == [type |-> "ExternalBufferDescriptor", value |-> "pointer"]
PixelFormat       == [type |-> "PixelFormat", value |-> "NV12"]

\* The lists of attributes an application gives.
AttribLists ==
  {<<>>, <<MemoryType("DRM_PRIME_2"), Descriptor>>,
   <<PixelFormat, Descriptor, MemoryType("DRM_PRIME_2")>>,
   <<PixelFormat, MemoryType("VA")>>, <<MemoryType("VA"), MemoryType("DRM_PRIME_2")>>,
   <<MemoryType("DRM_PRIME_2"), MemoryType("VA")>>, <<MemoryType("KERNEL_DRM"), Descriptor>>,
   <<Descriptor>>, <<PixelFormat>>}

\* A call with the descriptor's format and size, or with others.
Call(attrib_list, format, width) ==
  [attrib_list |-> attrib_list, format |-> format, width |-> width, height |-> buffer.meta.height]

RtFormat(fourcc) == IF fourcc = "NV12" THEN "YUV420" ELSE "YUV420_10"

Calls ==
  {Call(list, RtFormat(desc.fourcc), buffer.meta.width) : list \in AttribLists}
    \cup {Call(<<Descriptor, MemoryType("DRM_PRIME_2")>>, format, width) :
            format \in {"YUV420", "YUV420_10"}, width \in {0, 1, buffer.meta.width}}

--------------------------------------------------------------------------------
(* VSSurface::Create.                                                        *)

\* The loop over the attributes stops at attribute i with a CHECK, ...
AttribFails(attrib_list, i) ==
  \/ \E j \in 1..(i - 1) : attrib_list[j].type = attrib_list[i].type
  \/ attrib_list[i].type = "MemoryType" /\ attrib_list[i].value \notin {"VA", "DRM_PRIME_2"}

\* ... or with a surface that has no mapping.
Unmapped(attrib_list) ==
  \/ attrib_list = <<>>
  \/ \E i \in DOMAIN attrib_list :
       /\ attrib_list[i] = MemoryType("VA")
       /\ \A j \in 1..i : ~AttribFails(attrib_list, j)

AttribsAccepted(attrib_list) ==
  /\ \A i \in DOMAIN attrib_list : ~AttribFails(attrib_list, i)
  /\ {"MemoryType", "ExternalBufferDescriptor"} \subseteq {attrib_list[i].type : i \in DOMAIN attrib_list}

ArgumentsAccepted(call) ==
  /\ call.width > 0 /\ call.height > 0
  /\ desc.width = call.width /\ desc.height = call.height
  /\ call.format = RtFormat(desc.fourcc)

DescriptorAccepted ==
  /\ desc.fourcc \in {"NV12", "P010"}
  /\ Len(desc.objects) > 0
  /\ \A i \in DOMAIN desc.objects : desc.objects[i].modifier = desc.objects[1].modifier
  /\ desc.layers = 1
  /\ desc.drm_format = desc.fourcc
  /\ Len(desc.pitch) = 2
  /\ \A p \in DOMAIN desc.object_index : desc.object_index[p] <= Len(desc.objects)

\* fd_data: each plane with the descriptor of its object.
ImportData ==
  gbm_import_fd_modifier_data(desc.width, desc.height, desc.fourcc,
    [p \in DOMAIN desc.object_index |-> desc.objects[desc.object_index[p]].fd],
    desc.pitch, desc.offset)

Ready(t) == Idle(t) /\ copy[t] = NoCopy

Die(why) ==
  /\ died' = why
  /\ UNCHANGED <<lock_, mapping, resourceVars, pc, work, access>>

CreateSurface(t, m, call) ==
  /\ Ready(t)
  /\ ~mapping[m].made /\ Free(m)
  /\ IF Unmapped(call.attrib_list) THEN DefaultConstruct(m)
     ELSE \/ ~AttribsAccepted(call.attrib_list) /\ Die("attributes")
          \/ ~ArgumentsAccepted(call) /\ Die("arguments")
          \/ ~DescriptorAccepted /\ Die("descriptor")
          \/ /\ AttribsAccepted(call.attrib_list) /\ ArgumentsAccepted(call)
             /\ DescriptorAccepted
             /\ Create(t, m, ImportData)
  /\ UNCHANGED surfaceVars

\* ~VSSurface, for a surface with a mapping.
DestroySurface(t, m) == Ready(t) /\ Destroy(t, m) /\ UNCHANGED surfaceVars

--------------------------------------------------------------------------------
(* VSImage::Create, with the VSBuffer it makes, and ~VSImage.                *)

\* In size_t, which does not wrap.
CalculateDataSize(size_per_element, num_elements) == size_per_element * num_elements

VSBuffer(size_per_element, num_elements) ==
  [data_size |-> CalculateDataSize(size_per_element, num_elements)]

\* Mutant: an odd width is rounded down.
HalfOf(n) == n \div 2

RoundedHalf(n) == U32(n + 1) \div 2

ImageLayout(w, h) ==
  LET uv_stride == U32(RoundedHalf(w) * 2)
      uv_offset == U32(w * h)
      uv_size   == U32(RoundedHalf(h) * uv_stride)
  IN [width |-> w, height |-> h, stride |-> <<w, uv_stride>>, offset |-> <<0, uv_offset>>,
      buffer |-> VSBuffer(1, U32(uv_offset + uv_size))]

\* GetFormat, GetWidth and GetHeight.
Image == [fourcc |-> "NV12", width |-> image.width, height |-> image.height]

\* GetPlaneStride and GetPlaneOffset.
ImagePlane(p) == [stride |-> image.stride[p], offset |-> image.offset[p]]

CreateImage(t, fourcc, w, h) ==
  /\ Ready(t) /\ image = NoImage
  /\ IF fourcc = "NV12"
     THEN image' = ImageLayout(w, h) /\ UNCHANGED vars
     ELSE Die("image") /\ UNCHANGED image
  /\ UNCHANGED <<buffer, desc, copy>>

DestroyImage(t) ==
  /\ Ready(t) /\ image # NoImage
  /\ \A u \in Threads : copy[u] = NoCopy
  /\ image' = NoImage
  /\ UNCHANGED <<vars, buffer, desc, copy>>

--------------------------------------------------------------------------------
(* vsGetImage on a surface with a mapping: the checks of the surface, the    *)
(* access, the checks of the image, and the end of the access.               *)

\* GetWidth, GetHeight and GetVAFourCC.
Surface == [width |-> desc.width, height |-> desc.height, va_fourcc |-> desc.fourcc]

SurfaceHolds(w, h) == w <= Surface.width /\ h <= Surface.height /\ Surface.va_fourcc = "NV12"

ImageHolds(w, h) == Image.fourcc = "NV12" /\ Image.width >= w /\ Image.height >= h

GetImage(t, m, x, w, h) ==
  /\ Ready(t) /\ Valid(m) /\ Free(m) /\ image # NoImage
  /\ IF x = 0 /\ SurfaceHolds(w, h)
     THEN /\ BeginAccess(m)
          /\ copy' = [copy EXCEPT ![t] = [place |-> m, w |-> w, h |-> h, checked |-> FALSE]]
     ELSE Die("copy") /\ UNCHANGED copy
  /\ UNCHANGED <<buffer, desc, image>>

CheckImage(t) ==
  /\ copy[t] # NoCopy /\ ~copy[t].checked
  /\ IF ImageHolds(copy[t].w, copy[t].h)
     THEN copy' = [copy EXCEPT ![t].checked = TRUE] /\ UNCHANGED vars
     ELSE Die("copy") /\ UNCHANGED copy
  /\ UNCHANGED <<buffer, desc, image>>

GetImageReturns(t) ==
  /\ copy[t] # NoCopy /\ copy[t].checked
  /\ EndAccess(copy[t].place)
  /\ copy' = [copy EXCEPT ![t] = NoCopy]
  /\ UNCHANGED <<buffer, desc, image>>

--------------------------------------------------------------------------------

Next ==
  /\ died = "no"
  /\ \/ \E t \in Threads :
          \/ \E m \in Mappings, call \in Calls : CreateSurface(t, m, call)
          \/ \E m \in Mappings : DestroySurface(t, m)
          \/ \E fourcc \in {"NV12", "YV12"}, w, h \in Dims : CreateImage(t, fourcc, w, h)
          \/ DestroyImage(t)
          \/ \E m \in Mappings, x \in {0, 1}, w, h \in Dims : GetImage(t, m, x, w, h)
          \/ CheckImage(t) \/ GetImageReturns(t)
     \/ MappingStep /\ UNCHANGED surfaceVars

Spec == SurfaceInit /\ [][Next]_allVars

--------------------------------------------------------------------------------

\* The pieces of a file that begin at from and are size long have nothing in
\* common.
Apart(a, b) == a.from + a.size <= b.from \/ b.from + b.size <= a.from

\* A buffer that GBM laid out, of a size and format the driver takes, is
\* imported as it was exported: no CHECK of VSSurface::Create on the descriptor
\* and none of gbm_bo_map2 fails, the planes are mapped from different parts of
\* the file, all inside it, and the rows of a plane, GetStride apart, end where its
\* region does or before, so access never faults and no plane shows through
\* another.  It is GBM that aligns each plane to a page, computed in 32 bits, and
\* the import that takes over offsets as int.
GbmBuffersAreMapped ==
  /\ desc = Exported(buffer.meta)
  /\ desc.fourcc \in {"NV12", "P010"} /\ Small(desc.width, desc.height)
  => /\ died \notin {"descriptor", "map"}
     /\ \A m \in Mappings : Valid(m) =>
          LET rows == <<desc.height, (desc.height + 1) \div 2>>
          IN \A p \in DOMAIN mapping[m].planes :
               rows[p] * GetStride(m, p) <= Area(meta[mapping[m].bo], p).size
     /\ \A b \in bos : \A p \in Planes(meta[b]) :
          /\ Area(meta[b], p).from + Area(meta[b], p).size <= buffer.size
          /\ \A q \in Planes(meta[b]) \ {p} : Apart(Area(meta[b], p), Area(meta[b], q))

\* The bytes of the rectangle that vsGetImage is to fill in each plane of the
\* image.
Filled(w, h) ==
  LET Rows(p, rows, row_size) ==
        [from |-> ImagePlane(p).offset, size |-> (rows - 1) * ImagePlane(p).stride + row_size]
  IN <<Rows(1, h, w), Rows(2, (h + 1) \div 2, 2 * ((w + 1) \div 2))>>

\* When the checks of vsGetImage have passed, the rectangle of the surface fits
\* the image's buffer, and its two planes do not overlap, for images within the
\* reported maximum: widths and heights may be odd, and the layout is computed
\* in VSImage::Create long before with arithmetic that wraps.
ImageHoldsTheSurface ==
  \A t \in Threads : copy[t] # NoCopy /\ copy[t].checked /\ Small(image.width, image.height) =>
    LET filled == Filled(copy[t].w, copy[t].h)
    IN /\ Apart(filled[1], filled[2])
       /\ \A p \in 1..2 : filled[p].from + filled[p].size <= image.buffer.data_size
================================================================================
