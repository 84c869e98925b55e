---------------------------- MODULE ScopedBOMapping ----------------------------
(***************************************************************************)
(* The CPU mappings of the buffer objects behind surfaces                  *)
(* (scoped_bo_mapping_factory.cc), over the GBM of fake_gbm.cc and with    *)
(* the file descriptors of base/scoped_fd.cc.  The factory calls GBM under *)
(* lock_; a ScopedBOMapping is moved, used and destroyed by one thread at  *)
(* a time.  A CHECK that fails ends the process.                           *)
(*                                                                         *)
(* The resources of plane p of a buffer object b, an mmap'ed region and a  *)
(* dup'ed descriptor, go by the name <<b, p>>.                             *)
(***************************************************************************)
EXTENDS FakeGbm

CONSTANTS
  Careful,     \* TRUE if nothing is assigned to a valid mapping
  Threads,
  Mappings,    \* places for a ScopedBOMapping
  BOs,         \* allocations of gbm_bo
  Nil

ASSUME NilAssumption == Nil \notin Threads \cup Mappings \cup BOs

VARIABLES
  lock_,    \* the thread that owns the factory's mutex
  mapping,  \* the ScopedBOMapping in each place, Absent where there is none
  bos,      \* live gbm_bo
  meta,     \* what each of them was imported with
  regions,  \* mmap'ed regions
  fds,      \* open descriptors of ScopedFDs
  pc, work, \* where each thread is in Create or UnmapAndDestroyBufferObject, on what
  access,   \* the mappings with a ScopedAccess: between DMA_BUF_SYNC_START and _END
  died      \* the CHECK that ended the process, or "no"

resourceVars == <<bos, meta, regions, fds>>
vars         == <<lock_, mapping, resourceVars, pc, work, access, died>>

MaxPlanes == 3   \* of any format
Plane     == BOs \X (1..MaxPlanes)
Absent  == [made |-> FALSE, factory |-> FALSE, planes |-> <<>>, bo |-> Nil]
Invalid == [Absent EXCEPT !.made = TRUE]
NoWork  == [place |-> Nil, bo |-> Nil, planes |-> <<>>]

Valid(m) == mapping[m].factory

TypeOK ==
  /\ lock_ \in Threads \cup {Nil}
  /\ \A m \in Mappings :
       /\ mapping[m].made \in BOOLEAN /\ mapping[m].factory \in BOOLEAN
       /\ mapping[m].planes \in Seq(Plane) /\ mapping[m].bo \in BOs \cup {Nil}
       /\ Valid(m) => /\ mapping[m].made /\ mapping[m].bo \in bos
                      /\ Len(mapping[m].planes) = gbm_bo_get_plane_count(meta[mapping[m].bo])
  /\ bos \subseteq BOs
  /\ DOMAIN meta = bos
  /\ regions \cup fds \subseteq Plane
  /\ pc \in [Threads -> {"idle", "map", "unmap", "close"}]
  /\ access \subseteq Mappings

\* A factory with its own GBM device.
FactoryInit ==
  /\ lock_ = Nil
  /\ bos = {} /\ meta = <<>> /\ regions = {} /\ fds = {}

Init ==
  /\ FactoryInit
  /\ mapping = [m \in Mappings |-> Absent]
  /\ pc = [t \in Threads |-> "idle"]
  /\ work = [t \in Threads |-> NoWork]
  /\ access = {}
  /\ died = "no"

Idle(t) == pc[t] = "idle"

\* No thread uses the mapping in place m: access to it is synchronized.
Free(m) == m \notin access /\ \A t \in Threads : work[t].place # m

\* A resource that is not named by anything: what new or mmap or dup can return.
Fresh(b) == b \notin bos /\ \A p \in Plane : p[1] = b => p \notin regions \cup fds

--------------------------------------------------------------------------------
(* What GBM does with the resources.                                         *)

\* The data is copied.
gbm_bo_import(b, import_data) ==
  /\ Fresh(b)
  /\ bos' = bos \cup {b}
  /\ meta' = [c \in bos \cup {b} |-> IF c = b THEN import_data ELSE meta[c]]

gbm_bo_map2(plane) ==
  /\ ~MapFails(meta[plane[1]], plane[2])
  /\ regions' = regions \cup {plane}

\* A dup of the first descriptor, whatever the plane.
gbm_bo_get_fd_for_plane(plane) == fds \cup {plane}

gbm_bo_unmap(plane) == regions' = regions \ {plane}

gbm_bo_destroy(b) ==
  /\ bos' = bos \ {b}
  /\ meta' = [c \in bos \ {b} |-> meta[c]]

--------------------------------------------------------------------------------
(* Create.                                                                   *)

\* Mutant: the descriptor stays in the ScopedFD it is moved from, which is
\* then destroyed.
StaysInSource(fd) == [to |-> fd, from |-> {fd}]

\* The move constructor of ScopedFD: what the two hold afterwards.
MoveFD(fd) == [to |-> fd, from |-> {}]

\* Plane(Plane &&): the pointers into the region move with the descriptor.
MovePlane(plane) == [to |-> MoveFD(plane).to, closed |-> MoveFD(plane).from]

\* Mutant: no lock_guard.
NotGuarded(t) == lock_' = lock_

Lock(t)   == lock_ = Nil /\ lock_' = t
Unlock(t) == lock_ \in {t, Nil} /\ lock_' = Nil

Create(t, m, import_data) ==
  /\ Idle(t)
  /\ ~mapping[m].made /\ Free(m)
  /\ Lock(t)
  /\ pc' = [pc EXCEPT ![t] = "map"]
  /\ \E b \in BOs :
       /\ gbm_bo_import(b, import_data)
       /\ work' = [work EXCEPT ![t] = [place |-> m, bo |-> b, planes |-> <<>>]]
  /\ UNCHANGED <<mapping, regions, fds, access, died>>

\* The plane that is mapped next.
NextPlane(t) == Len(work[t].planes) + 1

\* CHECK(addr != MAP_FAILED) in gbm_bo_map2.
MapDies(t) ==
  /\ pc[t] = "map"
  /\ NextPlane(t) \in Planes(meta[work[t].bo])
  /\ MapFails(meta[work[t].bo], NextPlane(t))
  /\ died' = "map"
  /\ UNCHANGED <<lock_, mapping, resourceVars, pc, work, access>>

\* The plane is mapped and gets a descriptor; emplace_back grows the vector, and
\* the planes in it move.
MapPlane(t) ==
  LET plane == <<work[t].bo, NextPlane(t)>>
      moved == [i \in DOMAIN work[t].planes |-> MovePlane(work[t].planes[i])]
  IN /\ pc[t] = "map"
     /\ NextPlane(t) \in Planes(meta[work[t].bo])
     /\ gbm_bo_map2(plane)
     /\ fds' = gbm_bo_get_fd_for_plane(plane) \ UNION {moved[i].closed : i \in DOMAIN moved}
     /\ work' = [work EXCEPT ![t].planes = Append([i \in DOMAIN moved |-> moved[i].to], plane)]
     /\ UNCHANGED <<lock_, mapping, bos, meta, pc, access, died>>

CreateReturns(t) ==
  /\ pc[t] = "map"
  /\ NextPlane(t) \notin Planes(meta[work[t].bo])
  /\ Unlock(t)
  /\ mapping' = [mapping EXCEPT ![work[t].place] =
                   [made |-> TRUE, factory |-> TRUE, planes |-> work[t].planes, bo |-> work[t].bo]]
  /\ pc' = [pc EXCEPT ![t] = "idle"]
  /\ work' = [work EXCEPT ![t] = NoWork]
  /\ UNCHANGED <<resourceVars, access, died>>

--------------------------------------------------------------------------------
(* Constructors and assignment.                                              *)

DefaultConstruct(m) ==
  /\ ~mapping[m].made /\ Free(m)
  /\ mapping' = [mapping EXCEPT ![m] = Invalid]
  /\ UNCHANGED <<lock_, resourceVars, pc, work, access, died>>

\* Mutant: only the vector is moved, the pointers are copied.
KeepsPointers(m) == [mapping[m] EXCEPT !.planes = <<>>]

\* What a mapping is after it was moved from.
MovedFrom(m) == Invalid

MoveConstruct(m, n) ==
  /\ mapping[m].made /\ Free(m)
  /\ ~mapping[n].made /\ Free(n)
  /\ mapping' = [mapping EXCEPT ![n] = mapping[m], ![m] = MovedFrom(m)]
  /\ UNCHANGED <<lock_, resourceVars, pc, work, access, died>>

\* The planes n had are destroyed with their descriptors, and nothing else.
MoveAssign(m, n) ==
  /\ m # n
  /\ mapping[m].made /\ Free(m)
  /\ mapping[n].made /\ Free(n)
  /\ Careful => ~Valid(n)
  /\ mapping' = [mapping EXCEPT ![n] = mapping[m], ![m] = MovedFrom(m)]
  /\ fds' = fds \ ToSet(mapping[n].planes)
  /\ UNCHANGED <<lock_, bos, meta, regions, pc, work, access, died>>

--------------------------------------------------------------------------------
(* ~ScopedBOMapping and UnmapAndDestroyBufferObject.                         *)

DestroyInvalid(m) ==
  /\ mapping[m].made /\ ~Valid(m) /\ Free(m)
  /\ mapping' = [mapping EXCEPT ![m] = Absent]
  /\ UNCHANGED <<lock_, resourceVars, pc, work, access, died>>

Destroy(t, m) ==
  /\ Idle(t)
  /\ Valid(m) /\ Free(m)
  /\ Lock(t)
  /\ pc' = [pc EXCEPT ![t] = "unmap"]
  /\ work' = [work EXCEPT ![t] = [place |-> m, bo |-> mapping[m].bo, planes |-> mapping[m].planes]]
  /\ mapping' = [mapping EXCEPT ![m].planes = <<>>, ![m].factory = FALSE]
  /\ UNCHANGED <<resourceVars, access, died>>

\* The first plane that is still mapped.
UnmapPlane(t) ==
  LET mapped == ToSet(work[t].planes) \cap regions
  IN /\ pc[t] = "unmap"
     /\ \E p \in mapped :
          /\ \A q \in mapped : p[2] <= q[2]
          /\ gbm_bo_unmap(p)
     /\ UNCHANGED <<lock_, mapping, bos, meta, fds, pc, work, access, died>>

\* The lock_guard goes before the parameter planes.
DestroyBO(t) ==
  /\ pc[t] = "unmap"
  /\ ToSet(work[t].planes) \cap regions = {}
  /\ Unlock(t)
  /\ gbm_bo_destroy(work[t].bo)
  /\ pc' = [pc EXCEPT ![t] = "close"]
  /\ UNCHANGED <<mapping, regions, fds, work, access, died>>

CloseFDs(t) ==
  /\ pc[t] = "close"
  /\ fds' = fds \ ToSet(work[t].planes)
  /\ mapping' = [mapping EXCEPT ![work[t].place] = Absent]
  /\ pc' = [pc EXCEPT ![t] = "idle"]
  /\ work' = [work EXCEPT ![t] = NoWork]
  /\ UNCHANGED <<lock_, bos, meta, regions, access, died>>

--------------------------------------------------------------------------------
(* ScopedAccess.  A mapping outlives it and is not moved meanwhile.          *)

\* The constructor, DMA_BUF_SYNC_START on each descriptor.
ScopedAccess(m) == access' = access \cup {m}

BeginAccess(m) ==
  /\ Valid(m) /\ Free(m)
  /\ ScopedAccess(m)
  /\ UNCHANGED <<lock_, mapping, resourceVars, pc, work, died>>

\* What an access gives of a plane of the mapping: its region and its stride.
GetData(m, plane)   == mapping[m].planes[plane]
GetStride(m, plane) == meta[GetData(m, plane)[1]].strides[plane]

EndAccess(m) ==
  /\ m \in access
  /\ access' = access \ {m}
  /\ UNCHANGED <<lock_, mapping, resourceVars, pc, work, died>>

\* What goes on without a call from outside: the rest of a Create or of a
\* destructor, and the moves that carry a mapping to its surface.
MappingStep ==
  \/ \E t \in Threads :
       \/ MapDies(t) \/ MapPlane(t) \/ CreateReturns(t)
       \/ UnmapPlane(t) \/ DestroyBO(t) \/ CloseFDs(t)
  \/ \E m \in Mappings : DestroyInvalid(m)
  \/ \E m, n \in Mappings : MoveConstruct(m, n) \/ MoveAssign(m, n)

--------------------------------------------------------------------------------

Owned == UNION {ToSet(mapping[m].planes) : m \in Mappings}

\* When no thread is inside the factory, each live buffer object, region and
\* descriptor belongs to a valid mapping, which will release it: "Upon
\* destruction, it unmaps and destroys the Buffer Object"
\* (scoped_bo_mapping_factory.h:31).
NothingLeaks ==
  (\A t \in Threads : Idle(t)) =>
    /\ bos = {mapping[m].bo : m \in {n \in Mappings : Valid(n)}}
    /\ regions = Owned
    /\ fds = Owned

\* A valid mapping can be used, whatever was moved and destroyed before: its
\* buffer object, regions and descriptors are live, and no other mapping nor a
\* destructor at work will release them, so nothing is released twice.  What is
\* accessed is a valid mapping until the access ends.
MappingsOwnTheirPlanes ==
  /\ \A m \in access : Valid(m)
  /\ \A m \in Mappings : Valid(m) =>
       /\ mapping[m].bo \in bos
       /\ ToSet(mapping[m].planes) \subseteq fds
       /\ \A p \in DOMAIN mapping[m].planes : GetData(m, p) \in regions
       /\ \A n \in Mappings : n # m /\ Valid(n) => mapping[n].bo # mapping[m].bo
       /\ \A t \in Threads : work[t].bo # mapping[m].bo

\* At most one thread is in GBM, whose device is not thread-safe
\* (scoped_bo_mapping_factory.h:36-38).
GbmIsSerialised ==
  \A t, u \in Threads : t # u => ~({pc[t], pc[u]} \subseteq {"map", "unmap"})
================================================================================
