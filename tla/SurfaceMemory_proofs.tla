-------------------------- MODULE SurfaceMemory_proofs --------------------------
(***************************************************************************)
(* Proofs about SurfaceMemory.  Of the mappings, for every set of threads,  *)
(* mappings and buffer objects and whatever is asked of the factory: GBM is *)
(* serialised, each resource belongs to one mapping, or to one thread that  *)
(* makes or destroys one, and a mapping has the planes of its format.  Of   *)
(* the layouts, for every size up to the greatest the driver reports: an    *)
(* image holds what vsGetImage puts in it, and a buffer that GBM laid out   *)
(* is imported as it was made.                                              *)
(***************************************************************************)
EXTENDS SurfaceMemory, TLAPS

\* Who is in GBM owns the mutex.
LockInv ==
  /\ pc \in [Threads -> {"idle", "map", "unmap", "close"}]
  /\ \A t \in Threads : pc[t] \in {"map", "unmap"} => lock_ = t

--------------------------------------------------------------------------------

LEMMA LockInit == SurfaceInit => LockInv
  BY DEF SurfaceInit, Init, FactoryInit, LockInv

\* The steps that neither lock nor leave GBM.
LEMMA LockKept == LockInv /\ UNCHANGED <<lock_, pc>> => LockInv'
  BY DEF LockInv

\* The calls into the factory take the mutex.
LEMMA LockTaken ==
  ASSUME NEW t \in Threads, LockInv, Idle(t), Lock(t),
         NEW where \in {"map", "unmap"}, pc' = [pc EXCEPT ![t] = where]
  PROVE  LockInv'
  <1>1. lock_ = Nil /\ lock_' = t
        BY DEF Lock
  <1>2. \A u \in Threads : u # Nil
        BY NilAssumption
  <1>3. \A u \in Threads : pc[u] \notin {"map", "unmap"}
        BY <1>1, <1>2 DEF LockInv
  <1>4. QED
        BY <1>1, <1>3 DEF LockInv

\* What returns the mutex had it, so no other thread is in GBM.
LEMMA LockReturned ==
  ASSUME NEW t \in Threads, LockInv, pc[t] \in {"map", "unmap"}, Unlock(t),
         NEW where \in {"idle", "close"}, pc' = [pc EXCEPT ![t] = where]
  PROVE  LockInv'
  <1>1. \A u \in Threads \ {t} : pc[u] \notin {"map", "unmap"}
        BY DEF LockInv
  <1>2. QED
        BY <1>1 DEF LockInv

\* A call of VSSurface::Create or of ~VSSurface.
LEMMA SurfaceStep ==
  ASSUME NEW t \in Threads, NEW m \in Mappings, LockInv,
         (\E call \in Calls : CreateSurface(t, m, call)) \/ DestroySurface(t, m)
  PROVE  LockInv'
  <1>1. CASE DestroySurface(t, m)
        BY <1>1, LockTaken DEF DestroySurface, Destroy
  <1>2. ASSUME NEW call \in Calls, CreateSurface(t, m, call) PROVE LockInv'
    <2>1. CASE Create(t, m, ImportData)
          BY <2>1, LockTaken DEF Create
    <2>2. CASE DefaultConstruct(m)
          BY <2>2, LockKept DEF DefaultConstruct
    <2>3. ASSUME NEW why, Die(why) PROVE LockInv'
          BY <2>3, LockKept DEF Die
    <2>4. QED
          BY <1>2, <2>1, <2>2, <2>3 DEF CreateSurface
  <1>3. QED
        BY <1>1, <1>2

\* What the factory and the mappings do by themselves.
LEMMA FactoryStep == LockInv /\ MappingStep => LockInv'
  <1> SUFFICES ASSUME LockInv, MappingStep PROVE LockInv'
      OBVIOUS
  <1>1. ASSUME NEW t \in Threads, MapDies(t) \/ MapPlane(t) \/ UnmapPlane(t) PROVE LockInv'
        BY <1>1, LockKept DEF MapDies, MapPlane, UnmapPlane
  <1>2. ASSUME NEW t \in Threads, CreateReturns(t) PROVE LockInv'
        BY <1>2, LockReturned DEF CreateReturns
  <1>3. ASSUME NEW t \in Threads, DestroyBO(t) PROVE LockInv'
        BY <1>3, LockReturned DEF DestroyBO
  <1>4. ASSUME NEW t \in Threads, CloseFDs(t) PROVE LockInv'
        BY <1>4 DEF CloseFDs, LockInv
  <1>5. ASSUME NEW m \in Mappings, NEW n \in Mappings,
               DestroyInvalid(m) \/ MoveConstruct(m, n) \/ MoveAssign(m, n)
        PROVE  LockInv'
        BY <1>5, LockKept DEF DestroyInvalid, MoveConstruct, MoveAssign
  <1>6. QED
        BY <1>1, <1>2, <1>3, <1>4, <1>5 DEF MappingStep

LEMMA LockStep == LockInv /\ [Next]_allVars => LockInv'
  <1> SUFFICES ASSUME LockInv, [Next]_allVars PROVE LockInv'
      OBVIOUS
  <1>1. ASSUME NEW t \in Threads, NEW m \in Mappings,
               (\E call \in Calls : CreateSurface(t, m, call)) \/ DestroySurface(t, m)
        PROVE  LockInv'
        BY <1>1, SurfaceStep
  <1>2. ASSUME NEW t \in Threads, NEW fourcc, NEW w, NEW h, CreateImage(t, fourcc, w, h)
        PROVE  LockInv'
        BY <1>2, LockKept DEF CreateImage, Die, vars
  <1>3. ASSUME NEW t \in Threads, DestroyImage(t) PROVE LockInv'
        BY <1>3, LockKept DEF DestroyImage, vars
  <1>4. ASSUME NEW t \in Threads, NEW m \in Mappings, NEW x, NEW w, NEW h, GetImage(t, m, x, w, h)
        PROVE  LockInv'
        BY <1>4, LockKept DEF GetImage, BeginAccess, Die
  <1>5. ASSUME NEW t \in Threads, CheckImage(t) \/ GetImageReturns(t) PROVE LockInv'
        BY <1>5, LockKept DEF CheckImage, GetImageReturns, EndAccess, Die, vars
  <1>6. CASE MappingStep
        BY <1>6, FactoryStep
  <1>7. CASE UNCHANGED allVars
        BY <1>7, LockKept DEF allVars, vars
  <1>8. QED
        BY <1>1, <1>2, <1>3, <1>4, <1>5, <1>6, <1>7 DEF Next

\* GbmIsSerialised for every number of threads: Create and
\* UnmapAndDestroyBufferObject hold lock_ from their first call of GBM to the last.
THEOREM GbmIsSerialisedTheorem == Spec => []GbmIsSerialised
  <1>1. LockInv => GbmIsSerialised
        BY DEF LockInv, GbmIsSerialised
  <1>2. QED
        BY LockInit, LockStep, <1>1, PTL DEF Spec
--------------------------------------------------------------------------------
(* Who owns a buffer object, its regions and its descriptors: a valid mapping, *)
(* or a thread at work in the factory.                                        *)

MappingType ==
  [made : BOOLEAN, factory : BOOLEAN, planes : Seq(Plane), bo : BOs \cup {Nil}]
WorkType ==
  [place : Mappings \cup {Nil}, bo : BOs \cup {Nil}, planes : Seq(Plane)]

OwnTypes ==
  /\ pc \in [Threads -> {"idle", "map", "unmap", "close"}]
  /\ mapping \in [Mappings -> MappingType]
  /\ work \in [Threads -> WorkType]
  /\ bos \subseteq BOs
  /\ access \subseteq Mappings

\* Planes of buffer object b.
PlanesOf(planes, b) == \A i \in DOMAIN planes : planes[i][1] = b

\* A valid mapping has what it refers to, and at least one plane, whose
\* descriptor keeps the name of the buffer object from being used again.
MappingInv ==
  \A m \in Mappings :
    /\ ~Valid(m) => mapping[m].planes = <<>>
    /\ Valid(m) => /\ mapping[m].made /\ mapping[m].bo \in bos
                   /\ PlanesOf(mapping[m].planes, mapping[m].bo)
                   /\ mapping[m].planes # <<>>
                   /\ \A i \in DOMAIN mapping[m].planes : mapping[m].planes[i] \in regions \cap fds

\* So has a thread at work, until it releases it; the place it works for is not
\* valid meanwhile.
WorkInv ==
  \A t \in Threads :
    /\ pc[t] = "idle" => work[t] = NoWork
    /\ pc[t] # "idle" => /\ work[t].place \in Mappings /\ ~Valid(work[t].place)
                         /\ work[t].bo \in BOs
                         /\ PlanesOf(work[t].planes, work[t].bo)
                         /\ \A i \in DOMAIN work[t].planes : work[t].planes[i] \in fds
    /\ pc[t] \in {"map", "unmap"} => work[t].bo \in bos
    /\ pc[t] \in {"unmap", "close"} => work[t].planes # <<>>
    /\ pc[t] = "map" => \A i \in DOMAIN work[t].planes : work[t].planes[i] \in regions

\* No two of them have the same buffer object, or the same place.
DistinctInv ==
  /\ \A m, n \in Mappings : m # n /\ Valid(m) /\ Valid(n) => mapping[m].bo # mapping[n].bo
  /\ \A m \in Mappings, t \in Threads : Valid(m) /\ pc[t] # "idle" => mapping[m].bo # work[t].bo
  /\ \A t, u \in Threads : t # u /\ pc[t] # "idle" /\ pc[u] # "idle" =>
       work[t].bo # work[u].bo /\ work[t].place # work[u].place

AccessInv == \A m \in access : Valid(m)

OwnInv == OwnTypes /\ MappingInv /\ WorkInv /\ DistinctInv /\ AccessInv

USE DEF MappingType, WorkType

\* What a mapping without a buffer object is, alive or not.
LEMMA EmptyMappings ==
  \A e \in {Invalid, Absent} : e \in MappingType /\ e.factory = FALSE /\ e.planes = <<>>
  <1>1. Absent \in MappingType /\ Absent.factory = FALSE /\ Absent.planes = <<>>
        BY DEF Absent
  <1>2. Invalid \in MappingType /\ Invalid.factory = FALSE /\ Invalid.planes = <<>>
        BY <1>1 DEF Invalid
  <1>3. QED
        BY <1>1, <1>2

\* What the move of its planes leaves of a mapping.
LEMMA Emptied ==
  \A e \in MappingType, planes \in Seq(Plane) :
    LET r == [e EXCEPT !.planes = planes]
    IN r \in MappingType /\ r.planes = planes
  OBVIOUS

LEMMA OwnInit == SurfaceInit => OwnInv
  BY DEF SurfaceInit, Init, FactoryInit, Absent, NoWork, Valid, OwnInv, OwnTypes, MappingInv,
         WorkInv, DistinctInv, AccessInv

\* What one step of another part leaves alone.
LEMMA OwnKept ==
  OwnInv /\ UNCHANGED <<mapping, bos, regions, fds, pc, work, access>> => OwnInv'
  BY DEF OwnInv, OwnTypes, MappingInv, WorkInv, DistinctInv, AccessInv, Valid, PlanesOf

\* gbm_bo_import gives a buffer object nobody has: if it has descriptors left, its
\* name is still taken.
LEMMA CreateOwns ==
  ASSUME NEW t \in Threads, NEW m \in Mappings, NEW import_data, OwnInv, Create(t, m, import_data)
  PROVE  OwnInv'
  <1> USE DEF OwnInv
  <1>1. PICK b \in BOs :
          /\ gbm_bo_import(b, import_data)
          /\ work' = [work EXCEPT ![t] = [place |-> m, bo |-> b, planes |-> <<>>]]
        BY DEF Create
  <1>2. /\ b \notin bos /\ bos' = bos \cup {b}
        /\ \A p \in Plane : p[1] = b => p \notin fds
        BY <1>1 DEF gbm_bo_import, Fresh
  <1>3. \A n \in Mappings : Valid(n) => mapping[n].bo # b
        BY <1>2 DEF MappingInv
  <1>4. \A u \in Threads : pc[u] # "idle" => work[u].bo # b
    <2> SUFFICES ASSUME NEW u \in Threads, pc[u] # "idle", work[u].bo = b PROVE FALSE
        OBVIOUS
    <2>1. pc[u] = "close"
          BY <1>2 DEF WorkInv, OwnTypes
    <2>2. work[u].planes \in Seq(Plane) /\ work[u].planes # <<>>
          BY <2>1 DEF WorkInv, OwnTypes
    <2>3. 1 \in DOMAIN work[u].planes /\ work[u].planes[1] \in Plane
          BY <2>2
    <2>4. work[u].planes[1][1] = b /\ work[u].planes[1] \in fds
          BY <2>3 DEF WorkInv, PlanesOf
    <2>5. QED
          BY <1>2, <2>3, <2>4
  <1>5. /\ ~mapping[m].made /\ pc[t] = "idle" /\ pc' = [pc EXCEPT ![t] = "map"]
        /\ \A u \in Threads : work[u].place # m
        /\ UNCHANGED <<mapping, regions, fds, access>>
        BY DEF Create, Free, Idle
  <1>6. OwnTypes'
        BY <1>1, <1>2, <1>5 DEF OwnTypes
  <1>7. MappingInv' /\ AccessInv'
        BY <1>2, <1>5 DEF MappingInv, AccessInv, Valid
  <1>8. WorkInv'
        BY <1>1, <1>2, <1>5 DEF WorkInv, MappingInv, OwnTypes, Valid, PlanesOf, NoWork
  <1>9. DistinctInv'
        BY <1>1, <1>2, <1>3, <1>4, <1>5 DEF DistinctInv, OwnTypes, Valid
  <1>10. QED
        BY <1>6, <1>7, <1>8, <1>9

\* MovePlane moves the planes as they are, so growing the vector closes nothing.
LEMMA MapPlaneKeeps ==
  ASSUME NEW t \in Threads, OwnInv, MapPlane(t)
  PROVE  LET plane == <<work[t].bo, NextPlane(t)>>
         IN /\ plane \in Plane
            /\ fds' = fds \cup {plane}
            /\ work' = [work EXCEPT ![t].planes = Append(work[t].planes, plane)]
  <1> USE DEF OwnInv
  <1> DEFINE planes == work[t].planes
             plane  == <<work[t].bo, NextPlane(t)>>
  <1>1. planes \in Seq(Plane) /\ work[t].bo \in BOs
        BY DEF MapPlane, OwnTypes, WorkInv
  <1>2. \A i \in DOMAIN planes : MovePlane(planes[i]) = [to |-> planes[i], closed |-> {}]
        BY DEF MovePlane, MoveFD
  <1> DEFINE moved == [i \in DOMAIN planes |-> MovePlane(planes[i])]
  <1>3. /\ fds' = (fds \cup {plane}) \ UNION {moved[i].closed : i \in DOMAIN moved}
        /\ work' = [work EXCEPT ![t].planes = Append([i \in DOMAIN moved |-> moved[i].to], plane)]
        BY DEF MapPlane, gbm_bo_get_fd_for_plane
  <1>4. DOMAIN moved = DOMAIN planes
        OBVIOUS
  <1>5. \A i \in DOMAIN planes : moved[i].to = planes[i] /\ moved[i].closed = {}
    <2>1. \A i \in DOMAIN planes : moved[i] = MovePlane(planes[i])
          OBVIOUS
    <2> HIDE DEF moved, planes
    <2>2. QED
          BY <1>2, <2>1
  <1>6. planes = [i \in DOMAIN planes |-> planes[i]]
        BY <1>1
  <1>7. plane \in Plane
    <2>1. NextPlane(t) \in 1..gbm_bo_get_plane_count(meta[work[t].bo])
          BY DEF MapPlane, Planes
    <2>2. gbm_bo_get_plane_count(meta[work[t].bo]) \in {2, 3}
          BY DEF gbm_bo_get_plane_count
    <2>3. QED
          BY <1>1, <2>1, <2>2 DEF Plane, MaxPlanes
  <1>8. UNION {moved[i].closed : i \in DOMAIN moved} = {} /\ [i \in DOMAIN moved |-> moved[i].to] = planes
    <2> HIDE DEF moved, planes
    <2>1. QED
          BY <1>4, <1>5, <1>6
  <1> HIDE DEF moved
  <1>9. QED
        BY <1>3, <1>7, <1>8

LEMMA MapPlaneOwns ==
  ASSUME NEW t \in Threads, OwnInv, MapPlane(t)
  PROVE  OwnInv'
  <1> USE DEF OwnInv
  <1> DEFINE planes == work[t].planes
             plane  == <<work[t].bo, NextPlane(t)>>
  <1>1. planes \in Seq(Plane) /\ plane \in Plane /\ pc[t] = "map"
        BY MapPlaneKeeps DEF MapPlane, OwnTypes
  <1>2. /\ fds' = fds \cup {plane}
        /\ work' = [work EXCEPT ![t].planes = Append(planes, plane)]
        BY MapPlaneKeeps
  <1>3. /\ regions' = regions \cup {plane}
        /\ UNCHANGED <<mapping, bos, pc, access>>
        BY DEF MapPlane, gbm_bo_map2
  <1> DEFINE grown == Append(planes, plane)
  <1>4. /\ grown \in Seq(Plane) /\ grown # <<>>
        /\ \A i \in DOMAIN grown : grown[i] = plane \/ \E j \in DOMAIN planes : grown[i] = planes[j]
        BY <1>1
  <1>5. plane[1] = work[t].bo
        OBVIOUS
  <1> HIDE DEF planes, plane, grown
  <1>6. work' = [work EXCEPT ![t].planes = grown]
        BY <1>2 DEF grown
  <1>7. OwnTypes'
        BY <1>3, <1>4, <1>6 DEF OwnTypes
  <1>8. MappingInv' /\ AccessInv'
        BY <1>2, <1>3 DEF MappingInv, AccessInv, Valid, PlanesOf
  <1>9. WorkInv'
        BY <1>1, <1>2, <1>3, <1>4, <1>5, <1>6 DEF WorkInv, OwnTypes, Valid, PlanesOf, planes
  <1>10. DistinctInv'
        BY <1>3, <1>6 DEF DistinctInv, OwnTypes, Valid
  <1>11. QED
        BY <1>7, <1>8, <1>9, <1>10

LEMMA CreateReturnsOwns ==
  ASSUME NEW t \in Threads, OwnInv, CreateReturns(t)
  PROVE  OwnInv'
  <1> USE DEF OwnInv
  <1> DEFINE made == [made |-> TRUE, factory |-> TRUE, planes |-> work[t].planes, bo |-> work[t].bo]
  <1>1. /\ pc[t] = "map" /\ pc' = [pc EXCEPT ![t] = "idle"]
        /\ mapping' = [mapping EXCEPT ![work[t].place] = made]
        /\ work' = [work EXCEPT ![t] = NoWork]
        /\ UNCHANGED <<bos, regions, fds, access>>
        BY DEF CreateReturns, resourceVars
  <1>2. work[t].planes \in Seq(Plane) /\ work[t].place \in Mappings /\ work[t].bo \in bos
        BY <1>1 DEF OwnTypes, WorkInv
  <1>3. work[t].planes # <<>>
        BY <1>2 DEF CreateReturns, NextPlane, Planes, gbm_bo_get_plane_count
  <1>4. /\ made.factory = TRUE /\ made.made = TRUE /\ made.planes = work[t].planes
        /\ made.bo = work[t].bo
        /\ made \in MappingType
        BY <1>2 DEF OwnTypes
  <1> HIDE DEF made
  <1>5. OwnTypes'
    <2>1. NoWork \in WorkType
          BY DEF NoWork
    <2>2. QED
          BY <1>1, <1>2, <1>4, <2>1 DEF OwnTypes
  <1>6. MappingInv'
        BY <1>1, <1>2, <1>3, <1>4 DEF MappingInv, WorkInv, OwnTypes, Valid, PlanesOf
  <1>7. WorkInv'
        BY <1>1, <1>2, <1>4 DEF WorkInv, DistinctInv, OwnTypes, Valid, PlanesOf
  <1>8. DistinctInv'
        BY <1>1, <1>2, <1>4 DEF DistinctInv, OwnTypes, Valid
  <1>9. AccessInv'
        BY <1>1, <1>2, <1>4 DEF AccessInv, OwnTypes, Valid
  <1>10. QED
        BY <1>5, <1>6, <1>7, <1>8, <1>9

\* The constructor of a mapping without a buffer object, and its destructor.
LEMMA InvalidOwns ==
  ASSUME NEW m \in Mappings, OwnInv, DefaultConstruct(m) \/ DestroyInvalid(m)
  PROVE  OwnInv'
  <1> USE DEF OwnInv
  <1>1. PICK e \in {Invalid, Absent} : mapping' = [mapping EXCEPT ![m] = e]
        BY DEF DefaultConstruct, DestroyInvalid
  <1>2. e \in MappingType /\ e.factory = FALSE /\ e.planes = <<>>
        BY EmptyMappings
  <1>3. ~Valid(m) /\ UNCHANGED <<bos, regions, fds, pc, work, access>>
        BY DEF DefaultConstruct, DestroyInvalid, MappingInv, Valid, resourceVars
  <1>4. mapping'[m] = e /\ \A n \in Mappings \ {m} : mapping'[n] = mapping[n]
        BY <1>1 DEF OwnTypes
  <1>5. OwnTypes'
        BY <1>1, <1>2, <1>3 DEF OwnTypes
  <1>6. MappingInv'
        BY <1>2, <1>3, <1>4 DEF MappingInv, Valid, PlanesOf
  <1>9. AccessInv'
        BY <1>3, <1>4 DEF AccessInv, Valid, OwnTypes
  <1>7. WorkInv' /\ DistinctInv'
        BY <1>2, <1>3, <1>4 DEF WorkInv, DistinctInv, Valid, PlanesOf
  <1>8. QED
        BY <1>5, <1>6, <1>7, <1>9

\* The moves: the source is as if it had never had a buffer object.  What the target
\* of an assignment had keeps its names, so no other mapping loses anything.
LEMMA MoveOwns ==
  ASSUME NEW m \in Mappings, NEW n \in Mappings, OwnInv, MoveConstruct(m, n) \/ MoveAssign(m, n)
  PROVE  OwnInv'
  <1> USE DEF OwnInv
  <1>1. m # n /\ Free(m) /\ Free(n) /\ UNCHANGED <<bos, regions, pc, work, access>>
        BY DEF MoveConstruct, MoveAssign, resourceVars
  <1>2. mapping' = [mapping EXCEPT ![n] = mapping[m], ![m] = Invalid]
        BY DEF MoveConstruct, MoveAssign, MovedFrom
  <1>3. Invalid \in MappingType /\ Invalid.factory = FALSE /\ Invalid.planes = <<>>
        BY EmptyMappings
  <1>4. /\ mapping'[m] = Invalid /\ mapping'[n] = mapping[m]
        /\ \A k \in Mappings \ {m, n} : mapping'[k] = mapping[k]
        BY <1>1, <1>2 DEF OwnTypes
  <1>5. \A p \in fds \ fds' : Valid(n) /\ p[1] = mapping[n].bo
    <2>1. CASE UNCHANGED fds
          BY <2>1
    <2>2. CASE fds' = fds \ ToSet(mapping[n].planes)
      <3>1. \A p \in fds \ fds' : \E i \in DOMAIN mapping[n].planes : p = mapping[n].planes[i]
            BY <2>2 DEF ToSet
      <3>2. Valid(n) \/ DOMAIN mapping[n].planes = {}
            BY DEF MappingInv
      <3>3. QED
            BY <3>1, <3>2 DEF MappingInv, PlanesOf
    <2>3. QED
          BY <2>1, <2>2 DEF MoveConstruct, MoveAssign, resourceVars
  <1>6. OwnTypes'
        BY <1>1, <1>2, <1>3 DEF OwnTypes
  <1>7. \A k \in access : k # m /\ k # n
        BY <1>1 DEF Free
  <1>8. \A t \in Threads : work[t].place # m /\ work[t].place # n
        BY <1>1 DEF Free
  <1>9. AccessInv'
        BY <1>1, <1>4, <1>7 DEF AccessInv, Valid, OwnTypes
  <1>10. \A k \in Mappings \ {n} : Valid(k) =>
           \A i \in DOMAIN mapping[k].planes : mapping[k].planes[i] \in fds'
        BY <1>5 DEF MappingInv, PlanesOf, DistinctInv
  <1>11. MappingInv'
        BY <1>1, <1>3, <1>4, <1>10 DEF MappingInv, Valid, PlanesOf
  <1>12. \A t \in Threads : pc[t] # "idle" =>
           \A i \in DOMAIN work[t].planes : work[t].planes[i] \in fds'
        BY <1>5 DEF WorkInv, PlanesOf, DistinctInv
  <1>13. WorkInv'
        BY <1>1, <1>4, <1>8, <1>12 DEF WorkInv, Valid, PlanesOf
  <1>14. DistinctInv'
        BY <1>1, <1>3, <1>4 DEF DistinctInv, Valid
  <1>15. QED
        BY <1>6, <1>9, <1>11, <1>13, <1>14

\* The destructor hands what the mapping has to the thread.
LEMMA DestroyOwns ==
  ASSUME NEW t \in Threads, NEW m \in Mappings, OwnInv, Destroy(t, m)
  PROVE  OwnInv'
  <1> USE DEF OwnInv
  <1>1. /\ pc[t] = "idle" /\ pc' = [pc EXCEPT ![t] = "unmap"]
        /\ Valid(m) /\ Free(m)
        /\ UNCHANGED <<bos, regions, fds, access>>
        BY DEF Destroy, Idle, resourceVars
  <1>2. \E w : /\ w = [place |-> m, bo |-> mapping[m].bo, planes |-> mapping[m].planes]
               /\ work' = [work EXCEPT ![t] = w]
        BY DEF Destroy
  <1>3. PICK w : /\ w.place = m /\ w.bo = mapping[m].bo /\ w.planes = mapping[m].planes
                 /\ w \in WorkType
                 /\ work' = [work EXCEPT ![t] = w]
        BY <1>2 DEF OwnTypes
  <1>4. /\ mapping' \in [Mappings -> MappingType]
        /\ mapping'[m].factory = FALSE /\ mapping'[m].planes = <<>>
        /\ \A n \in Mappings \ {m} : mapping'[n] = mapping[n]
    <2>1. PICK r : r = [mapping[m] EXCEPT !.planes = <<>>]
          OBVIOUS
    <2>2. PICK e : e = [mapping EXCEPT ![m] = r]
          OBVIOUS
    <2>3. r \in MappingType /\ r.planes = <<>>
      <3>1. mapping[m] \in MappingType
            BY DEF OwnTypes
      <3>2. <<>> \in Seq(Plane)
            OBVIOUS
      <3>3. QED
            BY <2>1, <3>1, <3>2, Emptied
    <2>4. /\ e \in [Mappings -> MappingType] /\ e[m] = r
          /\ \A n \in Mappings \ {m} : e[n] = mapping[n]
          BY <2>2, <2>3 DEF OwnTypes
    <2>5. PICK q : q = [r EXCEPT !.factory = FALSE]
          OBVIOUS
    <2>6. q \in MappingType /\ q.factory = FALSE /\ q.planes = <<>>
          BY <2>3, <2>5
    <2>7. mapping' = [e EXCEPT ![m] = q]
          BY <2>1, <2>2, <2>4, <2>5 DEF Destroy
    <2>8. QED
          BY <2>4, <2>6, <2>7
  <1>5. OwnTypes'
        BY <1>1, <1>3, <1>4 DEF OwnTypes
  <1>6. /\ m \notin access /\ \A u \in Threads : work[u].place # m
        /\ \A n \in Mappings : Valid(n)' <=> n # m /\ Valid(n)
        BY <1>1, <1>4 DEF Free, Valid
  <1>7. /\ pc'[t] = "unmap" /\ work'[t] = w
        /\ \A u \in Threads \ {t} : pc'[u] = pc[u] /\ work'[u] = work[u]
        BY <1>1, <1>3 DEF OwnTypes
  <1>8. MappingInv'
        BY <1>1, <1>4, <1>6 DEF MappingInv, PlanesOf
  <1>9. AccessInv'
        BY <1>1, <1>6 DEF AccessInv, OwnTypes
  <1>10. WorkInv'
        BY <1>1, <1>3, <1>6, <1>7 DEF WorkInv, MappingInv, PlanesOf, OwnTypes
  <1>11. DistinctInv'
    <2> USE DEF DistinctInv
    <2>1. ASSUME NEW k \in Mappings, NEW n \in Mappings, k # n, Valid(k)', Valid(n)'
          PROVE  mapping'[k].bo # mapping'[n].bo
          BY <1>4, <1>6, <2>1
    <2>2. ASSUME NEW n \in Mappings, NEW u \in Threads, Valid(n)', pc'[u] # "idle"
          PROVE  mapping'[n].bo # work'[u].bo
          BY <1>1, <1>3, <1>4, <1>6, <1>7, <2>2
    <2>3. ASSUME NEW u \in Threads \ {t}, pc'[u] # "idle"
          PROVE  work'[t].bo # work'[u].bo /\ work'[t].place # work'[u].place
          BY <1>1, <1>3, <1>6, <1>7, <2>3
    <2>4. QED
          BY <1>7, <2>1, <2>2, <2>3
  <1>12. QED
        BY <1>5, <1>8, <1>9, <1>10, <1>11

\* A region that is unmapped is one of the buffer object the thread works on.
LEMMA UnmapPlaneOwns ==
  ASSUME NEW t \in Threads, OwnInv, UnmapPlane(t)
  PROVE  OwnInv'
  <1> USE DEF OwnInv
  <1>1. /\ pc[t] = "unmap"
        /\ UNCHANGED <<mapping, bos, fds, pc, work, access>>
        BY DEF UnmapPlane
  <1>2. PICK p \in ToSet(work[t].planes) : regions' = regions \ {p}
        BY DEF UnmapPlane, gbm_bo_unmap
  <1>3. p[1] = work[t].bo
        BY <1>1, <1>2 DEF ToSet, WorkInv, PlanesOf
  <1>4. OwnTypes' /\ DistinctInv' /\ AccessInv'
        BY <1>1 DEF OwnTypes, DistinctInv, AccessInv, Valid
  <1>5. MappingInv'
        BY <1>1, <1>2, <1>3 DEF MappingInv, DistinctInv, Valid, PlanesOf
  <1>6. WorkInv'
        BY <1>1, <1>2, <1>3 DEF WorkInv, DistinctInv, Valid, PlanesOf
  <1>7. QED
        BY <1>4, <1>5, <1>6

LEMMA DestroyBOOwns ==
  ASSUME NEW t \in Threads, OwnInv, DestroyBO(t)
  PROVE  OwnInv'
  <1> USE DEF OwnInv
  <1>1. /\ pc[t] = "unmap" /\ pc' = [pc EXCEPT ![t] = "close"]
        /\ bos' = bos \ {work[t].bo}
        /\ UNCHANGED <<mapping, regions, fds, work, access>>
        BY DEF DestroyBO, gbm_bo_destroy
  <1>2. OwnTypes' /\ AccessInv'
        BY <1>1 DEF OwnTypes, AccessInv, Valid
  <1>3. MappingInv'
        BY <1>1 DEF MappingInv, DistinctInv, Valid, PlanesOf
  <1>4. WorkInv' /\ DistinctInv'
        BY <1>1 DEF WorkInv, DistinctInv, OwnTypes, Valid, PlanesOf
  <1>5. QED
        BY <1>2, <1>3, <1>4

LEMMA CloseFDsOwns ==
  ASSUME NEW t \in Threads, OwnInv, CloseFDs(t)
  PROVE  OwnInv'
  <1> USE DEF OwnInv
  <1>1. /\ pc[t] = "close" /\ pc' = [pc EXCEPT ![t] = "idle"]
        /\ fds' = fds \ ToSet(work[t].planes)
        /\ mapping' = [mapping EXCEPT ![work[t].place] = Absent]
        /\ work' = [work EXCEPT ![t] = NoWork]
        /\ UNCHANGED <<bos, regions, access>>
        BY DEF CloseFDs
  <1>2. /\ NoWork \in WorkType
        /\ Absent \in MappingType /\ Absent.factory = FALSE /\ Absent.planes = <<>>
        BY EmptyMappings DEF NoWork
  <1>3. work[t].place \in Mappings /\ ~Valid(work[t].place)
        BY <1>1 DEF WorkInv
  <1>4. \A p \in fds \ fds' : p[1] = work[t].bo
        BY <1>1 DEF ToSet, WorkInv, PlanesOf
  <1>5. OwnTypes'
        BY <1>1, <1>2 DEF OwnTypes
  <1>6. MappingInv' /\ AccessInv'
        BY <1>1, <1>2, <1>3, <1>4 DEF MappingInv, AccessInv, DistinctInv, OwnTypes, Valid, PlanesOf
  <1>7. WorkInv'
        BY <1>1, <1>2, <1>3, <1>4 DEF WorkInv, DistinctInv, OwnTypes, Valid, PlanesOf
  <1>8. DistinctInv'
        BY <1>1, <1>2, <1>3 DEF DistinctInv, OwnTypes, Valid
  <1>9. QED
        BY <1>5, <1>6, <1>7, <1>8

LEMMA AccessOwns ==
  ASSUME NEW m \in Mappings, OwnInv, BeginAccess(m) \/ EndAccess(m)
  PROVE  OwnInv'
  <1>1. /\ \A k \in access' : k \in access \/ (k = m /\ Valid(m))
        /\ UNCHANGED <<mapping, bos, regions, fds, pc, work>>
        BY DEF BeginAccess, EndAccess, ScopedAccess, resourceVars
  <1>2. QED
        BY <1>1 DEF OwnInv, OwnTypes, MappingInv, WorkInv, DistinctInv, AccessInv, Valid, PlanesOf

LEMMA OwnStep == OwnInv /\ [Next]_allVars => OwnInv'
  <1> SUFFICES ASSUME OwnInv, [Next]_allVars PROVE OwnInv'
      OBVIOUS
  <1>1. ASSUME NEW why, Die(why) PROVE OwnInv'
        BY <1>1, OwnKept DEF Die, resourceVars
  <1>2. ASSUME NEW t \in Threads, NEW m \in Mappings, NEW call \in Calls, CreateSurface(t, m, call)
        PROVE  OwnInv'
    <2>1. CASE Create(t, m, ImportData)
          BY <2>1, CreateOwns
    <2>2. CASE DefaultConstruct(m)
          BY <2>2, InvalidOwns
    <2>3. QED
          BY <1>1, <1>2, <2>1, <2>2 DEF CreateSurface
  <1>3. ASSUME NEW t \in Threads, NEW m \in Mappings, DestroySurface(t, m) PROVE OwnInv'
        BY <1>3, DestroyOwns DEF DestroySurface
  <1>4. ASSUME NEW t \in Threads, NEW fourcc, NEW w, NEW h, CreateImage(t, fourcc, w, h)
        PROVE  OwnInv'
        BY <1>1, <1>4, OwnKept DEF CreateImage, vars, resourceVars
  <1>5. ASSUME NEW t \in Threads, DestroyImage(t) PROVE OwnInv'
        BY <1>5, OwnKept DEF DestroyImage, vars, resourceVars
  <1>6. ASSUME NEW t \in Threads, NEW m \in Mappings, NEW x, NEW w, NEW h, GetImage(t, m, x, w, h)
        PROVE  OwnInv'
        BY <1>1, <1>6, AccessOwns DEF GetImage
  <1>7. ASSUME NEW t \in Threads, CheckImage(t) PROVE OwnInv'
        BY <1>1, <1>7, OwnKept DEF CheckImage, vars, resourceVars
  <1>8. ASSUME NEW t \in Threads, GetImageReturns(t) PROVE OwnInv'
    <2>1. copy[t].place \in access /\ EndAccess(copy[t].place)
          BY <1>8 DEF GetImageReturns, EndAccess
    <2>2. copy[t].place \in Mappings
          BY <2>1 DEF OwnInv, OwnTypes
    <2>3. QED
          BY <2>1, <2>2, AccessOwns
  <1>9. ASSUME NEW t \in Threads, MapDies(t) PROVE OwnInv'
        BY <1>9, OwnKept DEF MapDies, resourceVars
  <1>10. ASSUME NEW m \in Mappings, NEW n \in Mappings,
                DestroyInvalid(m) \/ MoveConstruct(m, n) \/ MoveAssign(m, n)
         PROVE  OwnInv'
         BY <1>10, InvalidOwns, MoveOwns
  <1>11. CASE MappingStep
         BY <1>9, <1>10, <1>11, MapPlaneOwns, CreateReturnsOwns, UnmapPlaneOwns, DestroyBOOwns,
            CloseFDsOwns
         DEF MappingStep
  <1>12. CASE UNCHANGED allVars
         BY <1>12, OwnKept DEF allVars, vars, resourceVars
  <1>13. QED
         BY <1>2, <1>3, <1>4, <1>5, <1>6, <1>7, <1>8, <1>11, <1>12 DEF Next

\* MappingsOwnTheirPlanes for every number of threads, mappings and buffers, and
\* however mappings are moved: nothing is released twice, and what a surface refers
\* to is there until it releases it.
THEOREM MappingsOwnTheirPlanesTheorem == Spec => []MappingsOwnTheirPlanes
  <1>1. OwnInv => MappingsOwnTheirPlanes
    <2> SUFFICES ASSUME OwnInv PROVE MappingsOwnTheirPlanes
        OBVIOUS
    <2> USE DEF OwnInv
    <2>1. ASSUME NEW m \in Mappings, Valid(m), NEW t \in Threads
          PROVE  work[t].bo # mapping[m].bo
      <3>1. CASE pc[t] = "idle"
            BY <2>1, <3>1, NilAssumption DEF WorkInv, MappingInv, OwnTypes, NoWork
      <3>2. CASE pc[t] # "idle"
            BY <2>1, <3>2 DEF DistinctInv
      <3>3. QED
            BY <3>1, <3>2
    <2>2. ASSUME NEW m \in Mappings, Valid(m)
          PROVE  /\ mapping[m].bo \in bos
                 /\ ToSet(mapping[m].planes) \subseteq fds
                 /\ \A p \in DOMAIN mapping[m].planes : GetData(m, p) \in regions
          BY <2>2 DEF MappingInv, ToSet, GetData
    <2>3. QED
          BY <2>1, <2>2 DEF MappingsOwnTheirPlanes, AccessInv, DistinctInv
  <1>2. QED
        BY OwnInit, OwnStep, <1>1, PTL DEF Spec

--------------------------------------------------------------------------------
(* Nothing is without an owner, if nothing is assigned to a valid mapping.    *)

In(planes, p) == \E i \in DOMAIN planes : planes[i] = p

LeakInv ==
  /\ \A b \in bos : \/ \E m \in Mappings : Valid(m) /\ mapping[m].bo = b
                    \/ \E t \in Threads : pc[t] \in {"map", "unmap"} /\ work[t].bo = b
  /\ \A p \in regions : \/ \E m \in Mappings : In(mapping[m].planes, p)
                        \/ \E t \in Threads : pc[t] \in {"map", "unmap"} /\ In(work[t].planes, p)
  /\ \A p \in fds : \/ \E m \in Mappings : In(mapping[m].planes, p)
                    \/ \E t \in Threads : pc[t] # "idle" /\ In(work[t].planes, p)

LEMMA LeakInit == SurfaceInit => LeakInv
  BY DEF SurfaceInit, Init, FactoryInit, LeakInv

LEMMA LeakKept ==
  LeakInv /\ UNCHANGED <<mapping, bos, regions, fds, pc, work>> => LeakInv'
  BY DEF LeakInv, Valid

LEMMA CreateLeaks ==
  ASSUME NEW t \in Threads, NEW m \in Mappings, NEW import_data, OwnInv, LeakInv,
         Create(t, m, import_data)
  PROVE  LeakInv'
  <1>1. PICK b \in BOs :
          /\ bos' = bos \cup {b}
          /\ work' = [work EXCEPT ![t] = [place |-> m, bo |-> b, planes |-> <<>>]]
        BY DEF Create, gbm_bo_import
  <1>2. /\ pc[t] = "idle" /\ pc' = [pc EXCEPT ![t] = "map"]
        /\ UNCHANGED <<mapping, regions, fds>>
        BY DEF Create, Idle
  <1>3. /\ pc'[t] = "map" /\ work'[t].bo = b
        /\ \A u \in Threads \ {t} : pc'[u] = pc[u] /\ work'[u] = work[u]
        BY <1>1, <1>2 DEF OwnInv, OwnTypes
  <1>4. QED
        BY <1>1, <1>2, <1>3 DEF LeakInv, Valid

LEMMA MapPlaneLeaks ==
  ASSUME NEW t \in Threads, OwnInv, LeakInv, MapPlane(t)
  PROVE  LeakInv'
  <1> DEFINE plane == <<work[t].bo, NextPlane(t)>>
  <1>1. /\ fds' = fds \cup {plane} /\ regions' = regions \cup {plane}
        /\ work' = [work EXCEPT ![t].planes = Append(work[t].planes, plane)]
        /\ pc[t] = "map" /\ UNCHANGED <<mapping, bos, pc>>
        BY MapPlaneKeeps DEF MapPlane, gbm_bo_map2
  <1>2. plane \in Plane /\ work[t].planes \in Seq(Plane)
        BY MapPlaneKeeps DEF OwnInv, OwnTypes
  <1> HIDE DEF plane
  <1>3. PICK grown : grown = Append(work[t].planes, plane)
        OBVIOUS
  <1>4. In(grown, plane) /\ \A p : In(work[t].planes, p) => In(grown, p)
        BY <1>2, <1>3 DEF In
  <1>5. /\ work'[t].planes = grown /\ work'[t].bo = work[t].bo
        /\ \A u \in Threads \ {t} : work'[u] = work[u]
        BY <1>1, <1>3 DEF OwnInv, OwnTypes
  <1>6. \A u \in Threads : \A p : In(work[u].planes, p) => In(work'[u].planes, p)
        BY <1>4, <1>5
  <1>7. \A u \in Threads : work'[u].bo = work[u].bo
        BY <1>5
  <1>8. In(work'[t].planes, plane)
        BY <1>4, <1>5
  <1>9. \A b \in bos' :
          \/ \E m \in Mappings : Valid(m)' /\ mapping'[m].bo = b
          \/ \E u \in Threads : pc'[u] \in {"map", "unmap"} /\ work'[u].bo = b
        BY <1>1, <1>7 DEF LeakInv, Valid
  <1>10. \A p \in regions' :
           \/ \E m \in Mappings : In(mapping'[m].planes, p)
           \/ \E u \in Threads : pc'[u] \in {"map", "unmap"} /\ In(work'[u].planes, p)
         BY <1>1, <1>6, <1>8 DEF LeakInv
  <1>11. \A p \in fds' :
           \/ \E m \in Mappings : In(mapping'[m].planes, p)
           \/ \E u \in Threads : pc'[u] # "idle" /\ In(work'[u].planes, p)
         BY <1>1, <1>6, <1>8 DEF LeakInv
  <1>12. QED
         BY <1>9, <1>10, <1>11 DEF LeakInv

LEMMA CreateReturnsLeaks ==
  ASSUME NEW t \in Threads, OwnInv, LeakInv, CreateReturns(t)
  PROVE  LeakInv'
  <1> DEFINE m == work[t].place
             made == [made |-> TRUE, factory |-> TRUE, planes |-> work[t].planes, bo |-> work[t].bo]
  <1>1. /\ pc[t] = "map" /\ pc' = [pc EXCEPT ![t] = "idle"]
        /\ mapping' = [mapping EXCEPT ![m] = made]
        /\ work' = [work EXCEPT ![t] = NoWork]
        /\ UNCHANGED <<bos, regions, fds>>
        BY DEF CreateReturns, resourceVars
  <1>2. m \in Mappings /\ mapping[m].planes = <<>> /\ ~Valid(m)
        BY <1>1 DEF OwnInv, WorkInv, MappingInv
  <1>3. made.factory = TRUE /\ made.planes = work[t].planes /\ made.bo = work[t].bo
        OBVIOUS
  <1> HIDE DEF made, m
  <1>4. /\ mapping'[m] = made
        /\ \A n \in Mappings \ {m} : mapping'[n] = mapping[n]
        /\ \A u \in Threads \ {t} : pc'[u] = pc[u] /\ work'[u] = work[u]
        BY <1>1, <1>2 DEF OwnInv, OwnTypes
  <1>5. \A p : ~In(mapping[m].planes, p)
        BY <1>2 DEF In
  <1>6. QED
        BY <1>1, <1>2, <1>3, <1>4, <1>5 DEF LeakInv, Valid

LEMMA InvalidLeaks ==
  ASSUME NEW m \in Mappings, OwnInv, LeakInv, DefaultConstruct(m) \/ DestroyInvalid(m)
  PROVE  LeakInv'
  <1>1. \E e \in {Invalid, Absent} : mapping' = [mapping EXCEPT ![m] = e]
        BY DEF DefaultConstruct, DestroyInvalid
  <1>2. ~Valid(m) /\ UNCHANGED <<bos, regions, fds, pc, work>>
        BY DEF DefaultConstruct, DestroyInvalid, OwnInv, MappingInv, Valid, resourceVars
  <1>3. \A p : ~In(mapping[m].planes, p)
        BY <1>2 DEF OwnInv, MappingInv, In
  <1>4. \A n \in Mappings \ {m} : mapping'[n] = mapping[n]
        BY <1>1 DEF OwnInv, OwnTypes
  <1>5. QED
        BY <1>2, <1>3, <1>4 DEF LeakInv, Valid

\* What n had would be lost: this is where Careful is needed.
LEMMA MoveLeaks ==
  ASSUME Careful, NEW m \in Mappings, NEW n \in Mappings, OwnInv, LeakInv,
         MoveConstruct(m, n) \/ MoveAssign(m, n)
  PROVE  LeakInv'
  <1>1. m # n /\ ~Valid(n) /\ UNCHANGED <<bos, regions, pc, work>> /\ fds' \subseteq fds
        BY DEF MoveConstruct, MoveAssign, OwnInv, MappingInv, resourceVars
  <1>2. mapping' = [mapping EXCEPT ![n] = mapping[m], ![m] = Invalid]
        BY DEF MoveConstruct, MoveAssign, MovedFrom
  <1>3. mapping'[n] = mapping[m] /\ \A k \in Mappings \ {m, n} : mapping'[k] = mapping[k]
        BY <1>1, <1>2 DEF OwnInv, OwnTypes
  <1>4. \A p : ~In(mapping[n].planes, p)
        BY <1>1 DEF OwnInv, MappingInv, In
  <1>5. QED
        BY <1>1, <1>3, <1>4 DEF LeakInv, Valid

LEMMA DestroyLeaks ==
  ASSUME NEW t \in Threads, NEW m \in Mappings, OwnInv, LeakInv, Destroy(t, m)
  PROVE  LeakInv'
  <1>1. /\ pc[t] = "idle" /\ pc' = [pc EXCEPT ![t] = "unmap"]
        /\ UNCHANGED <<bos, regions, fds>>
        BY DEF Destroy, Idle, resourceVars
  <1>2. work'[t].bo = mapping[m].bo /\ work'[t].planes = mapping[m].planes
        BY DEF Destroy, OwnInv, OwnTypes
  <1>3. \A u \in Threads \ {t} : pc'[u] = pc[u] /\ work'[u] = work[u]
        BY DEF Destroy, OwnInv, OwnTypes
  <1>4. \A n \in Mappings \ {m} : mapping'[n] = mapping[n]
        BY DEF Destroy, OwnInv, OwnTypes
  <1>5. pc'[t] = "unmap"
        BY <1>1 DEF OwnInv, OwnTypes
  <1>6. QED
        BY <1>1, <1>2, <1>3, <1>4, <1>5 DEF LeakInv, Valid

\* A region or a buffer object goes only from the thread that has it, and the
\* buffer object after its last region.
LEMMA ReleaseLeaks ==
  ASSUME NEW t \in Threads, OwnInv, LeakInv, UnmapPlane(t) \/ DestroyBO(t) \/ CloseFDs(t)
  PROVE  LeakInv'
  <1>1. CASE UnmapPlane(t)
    <2>1. regions' \subseteq regions /\ UNCHANGED <<mapping, bos, fds, pc, work>>
          BY <1>1 DEF UnmapPlane, gbm_bo_unmap
    <2>2. QED
          BY <2>1 DEF LeakInv, Valid
  <1>2. CASE DestroyBO(t)
    <2>1. /\ pc[t] = "unmap" /\ pc' = [pc EXCEPT ![t] = "close"]
          /\ bos' = bos \ {work[t].bo}
          /\ \A p \in regions : ~In(work[t].planes, p)
          /\ UNCHANGED <<mapping, regions, fds, work>>
          BY <1>2 DEF DestroyBO, gbm_bo_destroy, ToSet, In
    <2>2. pc'[t] = "close" /\ \A u \in Threads \ {t} : pc'[u] = pc[u]
          BY <2>1 DEF OwnInv, OwnTypes
    <2>3. QED
          BY <2>1, <2>2 DEF LeakInv, Valid
  <1>3. CASE CloseFDs(t)
    <2>1. /\ pc[t] = "close" /\ fds' = fds \ ToSet(work[t].planes)
          /\ mapping' = [mapping EXCEPT ![work[t].place] = Absent]
          /\ pc' = [pc EXCEPT ![t] = "idle"] /\ work' = [work EXCEPT ![t] = NoWork]
          /\ UNCHANGED <<bos, regions>>
          BY <1>3 DEF CloseFDs
    <2>2. /\ \A u \in Threads \ {t} : pc'[u] = pc[u] /\ work'[u] = work[u]
          /\ \A n \in Mappings \ {work[t].place} : mapping'[n] = mapping[n]
          BY <2>1 DEF OwnInv, OwnTypes
    <2>3. ~Valid(work[t].place) /\ \A p : ~In(mapping[work[t].place].planes, p)
          BY <2>1 DEF OwnInv, WorkInv, MappingInv, In
    <2>4. \A p \in fds' : p \in fds /\ ~In(work[t].planes, p)
          BY <2>1 DEF In, ToSet
    <2>5. QED
          BY <2>1, <2>2, <2>3, <2>4 DEF LeakInv, Valid
  <1>4. QED
        BY <1>1, <1>2, <1>3

LEMMA LeakStep == ASSUME Careful PROVE OwnInv /\ LeakInv /\ [Next]_allVars => LeakInv'
  <1> SUFFICES ASSUME OwnInv, LeakInv, [Next]_allVars PROVE LeakInv'
      OBVIOUS
  <1>1. ASSUME NEW why, Die(why) PROVE LeakInv'
        BY <1>1, LeakKept DEF Die, resourceVars
  <1>2. ASSUME NEW t \in Threads, NEW m \in Mappings, NEW call \in Calls, CreateSurface(t, m, call)
        PROVE  LeakInv'
    <2>1. CASE Create(t, m, ImportData)
          BY <2>1, CreateLeaks
    <2>2. CASE DefaultConstruct(m)
          BY <2>2, InvalidLeaks
    <2>3. QED
          BY <1>1, <1>2, <2>1, <2>2 DEF CreateSurface
  <1>3. ASSUME NEW t \in Threads, NEW m \in Mappings, DestroySurface(t, m) PROVE LeakInv'
        BY <1>3, DestroyLeaks DEF DestroySurface
  <1>4. ASSUME NEW t \in Threads, NEW fourcc, NEW w, NEW h, CreateImage(t, fourcc, w, h)
        PROVE  LeakInv'
        BY <1>1, <1>4, LeakKept DEF CreateImage, vars, resourceVars
  <1>5. ASSUME NEW t \in Threads, DestroyImage(t) PROVE LeakInv'
        BY <1>5, LeakKept DEF DestroyImage, vars, resourceVars
  <1>6. ASSUME NEW t \in Threads, NEW m \in Mappings, NEW x, NEW w, NEW h, GetImage(t, m, x, w, h)
        PROVE  LeakInv'
        BY <1>1, <1>6, LeakKept DEF GetImage, BeginAccess, resourceVars
  <1>7. ASSUME NEW t \in Threads, CheckImage(t) \/ GetImageReturns(t) PROVE LeakInv'
        BY <1>1, <1>7, LeakKept DEF CheckImage, GetImageReturns, EndAccess, vars, resourceVars
  <1>8. ASSUME NEW t \in Threads, MapDies(t) PROVE LeakInv'
        BY <1>8, LeakKept DEF MapDies, resourceVars
  <1>9. ASSUME NEW m \in Mappings, NEW n \in Mappings,
               DestroyInvalid(m) \/ MoveConstruct(m, n) \/ MoveAssign(m, n)
        PROVE  LeakInv'
        BY <1>9, InvalidLeaks, MoveLeaks
  <1>10. CASE MappingStep
         BY <1>8, <1>9, <1>10, MapPlaneLeaks, CreateReturnsLeaks, ReleaseLeaks DEF MappingStep
  <1>11. CASE UNCHANGED allVars
         BY <1>11, LeakKept DEF allVars, vars, resourceVars
  <1>12. QED
         BY <1>2, <1>3, <1>4, <1>5, <1>6, <1>7, <1>10, <1>11 DEF Next

\* NothingLeaks for every number of threads, mappings and buffers, if nothing is
\* assigned to a valid mapping: when nobody is in the factory, each resource belongs
\* to a mapping that will release it.
THEOREM NothingLeaksTheorem == ASSUME Careful PROVE Spec => []NothingLeaks
  <1>1. OwnInv /\ LeakInv => NothingLeaks
    <2> SUFFICES ASSUME OwnInv, LeakInv, \A t \in Threads : Idle(t)
                 PROVE  /\ bos = {mapping[m].bo : m \in {n \in Mappings : Valid(n)}}
                        /\ regions = Owned
                        /\ fds = Owned
        BY DEF NothingLeaks
    <2>1. \A t \in Threads : pc[t] = "idle"
          BY DEF Idle
    <2>2. \A p : p \in Owned <=> \E m \in Mappings : In(mapping[m].planes, p)
          BY DEF Owned, In, ToSet
    <2>3. \A m \in Mappings : \A p : In(mapping[m].planes, p) => p \in regions \cap fds
          BY DEF OwnInv, MappingInv, In
    <2>4. bos = {mapping[m].bo : m \in {n \in Mappings : Valid(n)}}
          BY <2>1 DEF LeakInv, OwnInv, MappingInv
    <2>5. regions = Owned /\ fds = Owned
          BY <2>1, <2>2, <2>3 DEF LeakInv
    <2>6. QED
          BY <2>4, <2>5
  <1>2. QED
        BY OwnInit, OwnStep, LeakInit, LeakStep, <1>1, PTL DEF Spec

--------------------------------------------------------------------------------
(* The types of the rest, and the planes of a mapping: as many as its format *)
(* has, from the time Create returns.                                        *)

Count(b) == gbm_bo_get_plane_count(meta[b])

CountInv ==
  /\ lock_ \in Threads \cup {Nil}
  /\ DOMAIN meta = bos
  /\ regions \subseteq Plane /\ fds \subseteq Plane
  /\ \A m \in Mappings : Valid(m) => Len(mapping[m].planes) = Count(mapping[m].bo)
  /\ \A t \in Threads : pc[t] = "map" => Len(work[t].planes) <= Count(work[t].bo)

LEMMA CountRange == \A b : Count(b) \in {2, 3}
  BY DEF Count, gbm_bo_get_plane_count

LEMMA CountInit == SurfaceInit => CountInv
  BY DEF SurfaceInit, Init, FactoryInit, Absent, Valid, CountInv

LEMMA CountKept ==
  /\ CountInv /\ lock_' \in Threads \cup {Nil} /\ regions' \subseteq Plane /\ fds' \subseteq Plane
  /\ UNCHANGED <<bos, meta, mapping, pc, work>>
  => CountInv'
  BY DEF CountInv, Valid, Count

\* The meta of the buffer objects that are live before is what it was.
LEMMA CreateCounts ==
  ASSUME NEW t \in Threads, NEW m \in Mappings, NEW import_data, OwnInv, CountInv,
         Create(t, m, import_data)
  PROVE  CountInv'
  <1>1. PICK b \in BOs :
          /\ gbm_bo_import(b, import_data)
          /\ work' = [work EXCEPT ![t] = [place |-> m, bo |-> b, planes |-> <<>>]]
        BY DEF Create
  <1>2. /\ b \notin bos /\ bos' = bos \cup {b} /\ DOMAIN meta' = bos'
        /\ \A c \in bos : meta'[c] = meta[c]
        BY <1>1 DEF gbm_bo_import, Fresh, CountInv
  <1>3. /\ lock_' = t /\ pc' = [pc EXCEPT ![t] = "map"]
        /\ UNCHANGED <<mapping, regions, fds>>
        BY DEF Create, Lock
  <1>4. work'[t].planes = <<>> /\ \A u \in Threads \ {t} : work'[u] = work[u] /\ pc'[u] = pc[u]
        BY <1>1, <1>3 DEF OwnInv, OwnTypes
  <1>5. ASSUME NEW n \in Mappings, Valid(n)' PROVE Len(mapping'[n].planes) = Count(mapping[n].bo)'
        BY <1>2, <1>3, <1>5 DEF OwnInv, MappingInv, CountInv, Count, Valid
  <1>6. ASSUME NEW u \in Threads, pc'[u] = "map" PROVE Len(work'[u].planes) <= Count(work[u].bo)'
    <2>1. CASE u = t
          BY <1>4, <2>1 DEF Count, gbm_bo_get_plane_count
    <2>2. CASE u # t
      <3>1. pc[u] = "map" /\ work[u].bo \in bos /\ work'[u] = work[u]
            BY <1>4, <1>6, <2>2 DEF OwnInv, WorkInv
      <3>2. QED
            BY <1>2, <3>1 DEF CountInv, Count
    <2>3. QED
          BY <2>1, <2>2
  <1>7. QED
        BY <1>2, <1>3, <1>5, <1>6 DEF CountInv

LEMMA MapPlaneCounts ==
  ASSUME NEW t \in Threads, OwnInv, CountInv, MapPlane(t)
  PROVE  CountInv'
  <1> DEFINE plane == <<work[t].bo, NextPlane(t)>>
  <1>1. /\ fds' = fds \cup {plane} /\ plane \in Plane
        /\ work' = [work EXCEPT ![t].planes = Append(work[t].planes, plane)]
        BY MapPlaneKeeps
  <1>2. /\ regions' = regions \cup {plane}
        /\ UNCHANGED <<lock_, mapping, bos, meta, pc>>
        BY DEF MapPlane, gbm_bo_map2
  <1> HIDE DEF plane
  <1>3. work[t].planes \in Seq(Plane) /\ NextPlane(t) \in 1..Count(work[t].bo)
        BY DEF OwnInv, OwnTypes, WorkType, MapPlane, Planes, Count
  <1>4. Len(Append(work[t].planes, plane)) <= Count(work[t].bo)
        BY <1>3, CountRange DEF NextPlane
  <1>5. /\ work'[t].bo = work[t].bo /\ work'[t].planes = Append(work[t].planes, plane)
        /\ \A u \in Threads \ {t} : work'[u] = work[u]
        BY <1>1 DEF OwnInv, OwnTypes
  <1>6. QED
        BY <1>1, <1>2, <1>4, <1>5 DEF CountInv, Valid, Count

\* Create returns when there is no plane left to map.
LEMMA CreateReturnsCounts ==
  ASSUME NEW t \in Threads, OwnInv, CountInv, CreateReturns(t)
  PROVE  CountInv'
  <1> DEFINE m == work[t].place
             made == [made |-> TRUE, factory |-> TRUE, planes |-> work[t].planes, bo |-> work[t].bo]
  <1>1. /\ pc[t] = "map" /\ pc' = [pc EXCEPT ![t] = "idle"]
        /\ mapping' = [mapping EXCEPT ![m] = made]
        /\ work' = [work EXCEPT ![t] = NoWork]
        /\ lock_' = Nil
        /\ UNCHANGED <<bos, meta, regions, fds>>
        BY DEF CreateReturns, Unlock, resourceVars
  <1>2. work[t].planes \in Seq(Plane) /\ NextPlane(t) \notin 1..Count(work[t].bo)
        BY DEF CreateReturns, Planes, Count, OwnInv, OwnTypes, WorkType
  <1>3. Len(work[t].planes) = Count(work[t].bo)
        BY <1>1, <1>2, CountRange DEF CountInv, NextPlane
  <1>4. made.planes = work[t].planes /\ made.bo = work[t].bo
        OBVIOUS
  <1> HIDE DEF made, m
  <1>5. /\ \A n \in Mappings : mapping'[n] = IF n = m THEN made ELSE mapping[n]
        /\ \A u \in Threads \ {t} : pc'[u] = pc[u] /\ work'[u] = work[u]
        /\ pc'[t] = "idle"
        BY <1>1 DEF OwnInv, OwnTypes
  <1>6. QED
        BY <1>1, <1>3, <1>4, <1>5 DEF CountInv, Valid, Count

LEMMA MoveCounts ==
  ASSUME NEW m \in Mappings, NEW n \in Mappings, OwnInv, CountInv,
         DestroyInvalid(m) \/ DefaultConstruct(m) \/ MoveConstruct(m, n) \/ MoveAssign(m, n)
  PROVE  CountInv'
  <1>1. /\ UNCHANGED <<lock_, bos, meta, regions, pc, work>> /\ fds' \subseteq fds
        BY DEF DestroyInvalid, DefaultConstruct, MoveConstruct, MoveAssign, resourceVars
  <1>2. \A k \in Mappings : Valid(k)' => \E l \in Mappings : Valid(l) /\ mapping'[k] = mapping[l]
    <2>1. Invalid.factory = FALSE /\ Absent.factory = FALSE
          BY EmptyMappings
    <2>2. QED
          BY <2>1 DEF DestroyInvalid, DefaultConstruct, MoveConstruct, MoveAssign, MovedFrom,
             OwnInv, OwnTypes, Valid
  <1>3. QED
        BY <1>1, <1>2 DEF CountInv, Valid, Count

LEMMA ReleaseCounts ==
  ASSUME NEW t \in Threads, OwnInv, CountInv,
         (\E m \in Mappings : Destroy(t, m)) \/ UnmapPlane(t) \/ DestroyBO(t) \/ CloseFDs(t)
  PROVE  CountInv'
  <1>1. ASSUME NEW m \in Mappings, Destroy(t, m) PROVE CountInv'
    <2>1. /\ lock_' = t /\ pc' = [pc EXCEPT ![t] = "unmap"]
          /\ UNCHANGED <<bos, meta, regions, fds>>
          /\ \A u \in Threads \ {t} : work'[u] = work[u]
          BY <1>1 DEF Destroy, Lock, resourceVars, OwnInv, OwnTypes
    <2>2. \A n \in Mappings : Valid(n)' => n # m /\ mapping'[n] = mapping[n]
          BY <1>1 DEF Destroy, OwnInv, OwnTypes, Valid
    <2>3. QED
          BY <2>1, <2>2 DEF CountInv, OwnInv, OwnTypes, Valid, Count
  <1>2. CASE UnmapPlane(t)
        BY <1>2, CountKept DEF UnmapPlane, gbm_bo_unmap, CountInv
  <1>3. CASE DestroyBO(t)
    <2>1. /\ lock_' = Nil /\ pc[t] = "unmap" /\ pc' = [pc EXCEPT ![t] = "close"]
          /\ bos' = bos \ {work[t].bo} /\ meta' = [c \in bos \ {work[t].bo} |-> meta[c]]
          /\ UNCHANGED <<mapping, regions, fds, work>>
          BY <1>3 DEF DestroyBO, Unlock, gbm_bo_destroy
    <2>2. ASSUME NEW n \in Mappings, Valid(n)' PROVE Len(mapping'[n].planes) = Count(mapping[n].bo)'
      <3>1. Valid(n) /\ mapping[n].bo \in bos \ {work[t].bo}
            BY <2>1, <2>2 DEF OwnInv, MappingInv, DistinctInv, Valid
      <3>2. QED
            BY <2>1, <3>1 DEF CountInv, Count
    <2>3. ASSUME NEW u \in Threads, pc'[u] = "map" PROVE Len(work'[u].planes) <= Count(work[u].bo)'
      <3>1. u # t /\ pc[u] = "map"
            BY <2>1, <2>3 DEF OwnInv, OwnTypes
      <3>2. work[u].bo \in bos \ {work[t].bo}
            BY <2>1, <3>1 DEF OwnInv, WorkInv, DistinctInv
      <3>3. QED
            BY <2>1, <3>1, <3>2 DEF CountInv, Count
    <2>4. QED
          BY <2>1, <2>2, <2>3 DEF CountInv
  <1>4. CASE CloseFDs(t)
    <2>1. /\ pc' = [pc EXCEPT ![t] = "idle"] /\ fds' \subseteq fds
          /\ mapping' = [mapping EXCEPT ![work[t].place] = Absent]
          /\ UNCHANGED <<lock_, bos, meta, regions>>
          /\ \A u \in Threads \ {t} : work'[u] = work[u]
          BY <1>4 DEF CloseFDs, OwnInv, OwnTypes
    <2>2. \A n \in Mappings : Valid(n)' => mapping'[n] = mapping[n] /\ Valid(n)
          BY <2>1, EmptyMappings DEF OwnInv, OwnTypes, Valid
    <2>3. QED
          BY <2>1, <2>2 DEF CountInv, OwnInv, OwnTypes, Valid, Count
  <1>5. QED
        BY <1>1, <1>2, <1>3, <1>4

LEMMA CountStep == OwnInv /\ CountInv /\ [Next]_allVars => CountInv'
  <1> SUFFICES ASSUME OwnInv, CountInv, [Next]_allVars PROVE CountInv'
      OBVIOUS
  <1> DEFINE Same == UNCHANGED <<lock_, bos, meta, regions, fds, mapping, pc, work>>
  <1>1. CASE Same
        BY <1>1, CountKept DEF CountInv
  <1>2. ASSUME NEW why, Die(why) PROVE Same
        BY <1>2 DEF Die, resourceVars
  <1>3. ASSUME NEW t \in Threads, NEW m \in Mappings, NEW call \in Calls, CreateSurface(t, m, call)
        PROVE  CountInv'
    <2>1. CASE Create(t, m, ImportData)
          BY <2>1, CreateCounts
    <2>2. CASE DefaultConstruct(m)
          BY <2>2, MoveCounts
    <2>3. QED
          BY <1>1, <1>2, <1>3, <2>1, <2>2 DEF CreateSurface
  <1>4. ASSUME NEW t \in Threads, NEW m \in Mappings, DestroySurface(t, m) PROVE CountInv'
        BY <1>4, ReleaseCounts DEF DestroySurface
  <1>5. ASSUME NEW t \in Threads, NEW fourcc, NEW w, NEW h, CreateImage(t, fourcc, w, h)
        PROVE  Same
        BY <1>2, <1>5 DEF CreateImage, vars, resourceVars
  <1>6. ASSUME NEW t \in Threads, DestroyImage(t) PROVE Same
        BY <1>6 DEF DestroyImage, vars, resourceVars
  <1>7. ASSUME NEW t \in Threads, NEW m \in Mappings, NEW x, NEW w, NEW h, GetImage(t, m, x, w, h)
        PROVE  Same
        BY <1>2, <1>7 DEF GetImage, BeginAccess, resourceVars
  <1>8. ASSUME NEW t \in Threads, CheckImage(t) \/ GetImageReturns(t) PROVE Same
        BY <1>2, <1>8 DEF CheckImage, GetImageReturns, EndAccess, vars, resourceVars
  <1>9. ASSUME NEW t \in Threads, MapDies(t) PROVE Same
        BY <1>9 DEF MapDies, resourceVars
  <1>10. CASE MappingStep
         BY <1>1, <1>9, <1>10, MapPlaneCounts, CreateReturnsCounts, ReleaseCounts, MoveCounts
         DEF MappingStep
  <1>11. CASE UNCHANGED allVars
         BY <1>1, <1>11 DEF allVars, vars, resourceVars
  <1>12. QED
         BY <1>1, <1>3, <1>4, <1>5, <1>6, <1>7, <1>8, <1>10, <1>11 DEF Next

\* TypeOK for every number of threads, mappings and buffers.  A valid mapping has
\* exactly the planes of its format, although Create adds them one by one and the
\* vector is moved about: GetStride and ScopedAccess index by plane.
THEOREM TypeOKTheorem == Spec => []TypeOK
  <1>1. OwnInv /\ CountInv => TypeOK
    <2> SUFFICES ASSUME OwnInv, CountInv PROVE TypeOK
        OBVIOUS
    <2>1. /\ lock_ \in Threads \cup {Nil} /\ DOMAIN meta = bos /\ regions \cup fds \subseteq Plane
          BY DEF CountInv
    <2>2. /\ pc \in [Threads -> {"idle", "map", "unmap", "close"}]
          /\ bos \subseteq BOs /\ access \subseteq Mappings
          BY DEF OwnInv, OwnTypes
    <2>3. ASSUME NEW m \in Mappings
          PROVE  /\ mapping[m].made \in BOOLEAN /\ mapping[m].factory \in BOOLEAN
                 /\ mapping[m].planes \in Seq(Plane) /\ mapping[m].bo \in BOs \cup {Nil}
                 /\ Valid(m) => /\ mapping[m].made /\ mapping[m].bo \in bos
                                /\ Len(mapping[m].planes)
                                     = gbm_bo_get_plane_count(meta[mapping[m].bo])
      <3>1. mapping[m] \in MappingType
            BY DEF OwnInv, OwnTypes
      <3>2. Valid(m) => /\ mapping[m].made /\ mapping[m].bo \in bos
                        /\ Len(mapping[m].planes) = gbm_bo_get_plane_count(meta[mapping[m].bo])
            BY DEF OwnInv, MappingInv, CountInv, Count
      <3>3. QED
            BY <3>1, <3>2 DEF MappingType
    <2>4. QED
          BY <2>1, <2>2, <2>3, Zenon DEF TypeOK
  <1>2. QED
        BY OwnInit, OwnStep, CountInit, CountStep, <1>1, PTL DEF Spec

--------------------------------------------------------------------------------
(* Arithmetic of the layouts: nothing wraps within the reported maximum.     *)

LEMMA Times ==
  ASSUME NEW a \in Int, NEW b \in Int, NEW c \in Nat, a <= b
  PROVE  a * c <= b * c
  <1>1. ASSUME NEW d \in Nat PROVE d * c \in Nat
        OBVIOUS
  <1>2. (b - a) * c \in Nat
        BY <1>1
  <1>3. (b - a) * c = b * c - a * c
        OBVIOUS
  <1>4. a * c \in Int /\ b * c \in Int
        OBVIOUS
  <1> DEFINE p == a * c
             q == b * c
  <1>5. p \in Int /\ q \in Int /\ q - p \in Nat
        BY <1>2, <1>3, <1>4
  <1> HIDE DEF p, q
  <1>6. p <= q
        BY <1>5
  <1>7. QED
        BY <1>6 DEF p, q

\* What is below 2^32 is computed exactly.
LEMMA Exact == ASSUME NEW n \in Nat, n < Wrap PROVE U32(n) = n
  BY WrapAssumption DEF U32

\* The products of two dimensions are far below 2^32, and so is 2 * (MaxDim + 1).
LEMMA Products ==
  ASSUME NEW a \in 0..(MaxDim + 1), NEW b \in 0..(MaxDim + 1)
  PROVE  a * b \in Nat /\ 8 * (a * b) + 4 * PageSize <= Wrap
  <1> DEFINE top == MaxDim + 1
  <1>1. top \in Nat /\ a \in Nat /\ b \in Nat /\ a <= top /\ b <= top
        BY MaxDimAssumption
  <1>2. 8 * top * top + 4 * PageSize <= Wrap
        BY MaxDimAssumption
  <1> HIDE DEF top
  <1>3. a * b <= top * b /\ b * top <= top * top
        BY <1>1, Times
  <1>4. a * b \in Nat /\ top * b = b * top /\ top * top \in Nat /\ 8 * top * top = 8 * (top * top)
        BY <1>1
  <1>5. top * b \in Nat
        BY <1>1
  <1> DEFINE ab == a * b
             bt == top * b
             tt == top * top
  <1>6. ab \in Nat /\ bt \in Nat /\ tt \in Nat /\ ab <= bt /\ bt <= tt /\ 8 * tt + 4 * PageSize <= Wrap
        BY <1>2, <1>3, <1>4, <1>5
  <1> HIDE DEF ab, bt, tt
  <1>7. ab \in Nat /\ 8 * ab + 4 * PageSize <= Wrap
        BY <1>6, WrapAssumption
  <1>8. QED
        BY <1>7 DEF ab

\* A product of dimensions is exact, and so are a few of them together.
LEMMA Room ==
  /\ Wrap \in Nat /\ PageSize \in Nat \ {0} /\ MaxDim \in Nat
  /\ 8 * (MaxDim + 1) + 4 * PageSize <= Wrap
  <1>1. MaxDim \in Nat /\ MaxDim + 1 \in 0..(MaxDim + 1) /\ 1 \in 0..(MaxDim + 1)
        BY MaxDimAssumption
  <1>2. (MaxDim + 1) * 1 = MaxDim + 1
        BY <1>1
  <1>3. QED
        BY <1>1, <1>2, Products, WrapAssumption

\* VSImage::Create, without what does not happen.
Half(n) == (n + 1) \div 2

LEMMA HalfIs ==
  ASSUME NEW n \in Nat
  PROVE  Half(n) \in Nat /\ n <= 2 * Half(n) /\ 2 * Half(n) <= n + 1 /\ (n > 0 => Half(n) > 0)
  BY DEF Half

LEMMA HalfGrows == ASSUME NEW n \in Nat, NEW m \in Nat, n <= m PROVE Half(n) <= Half(m)
  BY DEF Half

LEMMA ImageSize ==
  ASSUME NEW w \in Nat, NEW h \in Nat, Small(w, h)
  PROVE  LET l == ImageLayout(w, h)
             uv == 2 * Half(w)
         IN /\ l.width = w /\ l.height = h
            /\ l.stride[1] = w /\ l.stride[2] = uv
            /\ l.offset[1] = 0 /\ l.offset[2] = w * h
            /\ l.buffer.data_size = w * h + Half(h) * uv
  <1>0. w <= MaxDim /\ h <= MaxDim /\ MaxDim \in Nat
        BY Room DEF Small
  <1>1. RoundedHalf(w) = Half(w) /\ RoundedHalf(h) = Half(h)
    <2>1. w + 1 < Wrap /\ h + 1 < Wrap
          BY <1>0, Room
    <2>2. U32(w + 1) = w + 1 /\ U32(h + 1) = h + 1
          BY <2>1, Exact
    <2>3. QED
          BY <2>2 DEF RoundedHalf, Half
  <1> DEFINE uv == 2 * Half(w)
             y  == w * h
             c  == Half(h) * uv
  <1>2. Half(w) \in Nat /\ Half(h) \in Nat /\ uv \in Nat /\ uv <= w + 1 /\ Half(h) <= h + 1
    <2>1. Half(w) \in Nat /\ 2 * Half(w) <= w + 1
          BY HalfIs
    <2>2. Half(h) \in Nat /\ 2 * Half(h) <= h + 1
          BY HalfIs
    <2>3. QED
          BY <2>1, <2>2
  <1>3. U32(RoundedHalf(w) * 2) = uv
    <2>1. uv < Wrap /\ RoundedHalf(w) * 2 = uv
          BY <1>0, <1>1, <1>2, Room
    <2>2. QED
          BY <1>2, <2>1, Exact
  <1>4. y \in Nat /\ 8 * y + 4 * PageSize <= Wrap
    <2>1. w \in 0..(MaxDim + 1) /\ h \in 0..(MaxDim + 1)
          BY <1>0
    <2>2. QED
          BY <2>1, Products
  <1>5. c \in Nat /\ 8 * c + 4 * PageSize <= Wrap
    <2>1. uv \in 0..(MaxDim + 1) /\ Half(h) \in 0..(MaxDim + 1)
          BY <1>0, <1>2
    <2> HIDE DEF uv
    <2>2. QED
          BY <2>1, Products
  <1> HIDE DEF uv, y, c
  <1>6. U32(y) = y /\ U32(c) = c /\ U32(y + c) = y + c
    <2>1. y < Wrap /\ c < Wrap /\ y + c < Wrap /\ y + c \in Nat
          BY <1>4, <1>5, Room
    <2>2. QED
          BY <1>4, <1>5, <2>1, Exact
  <1>7. U32(w * h) = y /\ U32(RoundedHalf(h) * uv) = c
        BY <1>1, <1>6 DEF y, c
  <1>8. /\ ImageLayout(w, h).width = w /\ ImageLayout(w, h).height = h
        /\ ImageLayout(w, h).stride = <<w, U32(RoundedHalf(w) * 2)>>
        /\ ImageLayout(w, h).offset = <<0, U32(w * h)>>
        /\ ImageLayout(w, h).buffer =
             VSBuffer(1, U32(U32(w * h) + U32(RoundedHalf(h) * U32(RoundedHalf(w) * 2))))
        BY DEF ImageLayout
  <1>9. VSBuffer(1, y + c).data_size = y + c
    <2>1. y + c \in Nat
          BY <1>4, <1>5
    <2>2. CalculateDataSize(1, y + c) = y + c
          BY <2>1 DEF CalculateDataSize
    <2>3. QED
          BY <2>2 DEF VSBuffer
  <1>10. /\ ImageLayout(w, h).stride = <<w, uv>>
         /\ ImageLayout(w, h).offset = <<0, y>>
         /\ ImageLayout(w, h).buffer = VSBuffer(1, y + c)
         BY <1>3, <1>6, <1>7, <1>8
  <1>11. QED
         BY <1>8, <1>9, <1>10 DEF uv, y, c

\* The rows of a plane, the last of them not to its end, in as many as there are.
LEMMA RowsFit ==
  ASSUME NEW rows \in Nat, NEW all \in Nat, NEW size \in Nat, NEW stride \in Nat,
         rows <= all, size <= stride
  PROVE  (rows - 1) * stride + size <= all * stride
  <1>1. rows - 1 \in Int /\ all - 1 \in Int /\ rows - 1 <= all - 1
        OBVIOUS
  <1>2. (rows - 1) * stride <= (all - 1) * stride
        BY <1>1, Times
  <1>3. (all - 1) * stride = all * stride - stride /\ (rows - 1) * stride \in Int /\ all * stride \in Int
        OBVIOUS
  <1> DEFINE a == (rows - 1) * stride
             b == (all - 1) * stride
             c == all * stride
  <1>4. a \in Int /\ c \in Int /\ b = c - stride /\ a <= b
        BY <1>2, <1>3
  <1> HIDE DEF a, b, c
  <1>5. a + size <= c
        BY <1>4
  <1>6. QED
        BY <1>5 DEF a, c

LEMMA RectangleFits ==
  ASSUME NEW w \in Nat, NEW h \in Nat, NEW width \in Nat, NEW height \in Nat,
         w <= width, h <= height, Small(width, height), image = ImageLayout(width, height)
  PROVE  LET filled == Filled(w, h)
         IN /\ Apart(filled[1], filled[2])
            /\ \A p \in 1..2 : filled[p].from + filled[p].size <= image.buffer.data_size
  <1> DEFINE uv == 2 * Half(width)
             y  == width * height
             c  == Half(height) * uv
             filled == Filled(w, h)
  <1>1. /\ image.stride[1] = width /\ image.stride[2] = uv
        /\ image.offset[1] = 0 /\ image.offset[2] = y
        /\ image.buffer.data_size = y + c
        BY ImageSize
  <1>2. /\ Half(width) \in Nat /\ Half(height) \in Nat /\ Half(w) \in Nat /\ Half(h) \in Nat
        /\ Half(w) <= Half(width) /\ Half(h) <= Half(height)
        BY HalfIs, HalfGrows
  <1>3. uv \in Nat /\ 2 * Half(w) \in Nat /\ 2 * Half(w) <= uv
        BY <1>2
  <1> HIDE DEF uv
  <1>4. (h - 1) * width + w <= height * width
        BY RowsFit
  <1>5. (Half(h) - 1) * uv + 2 * Half(w) <= Half(height) * uv
        BY <1>2, <1>3, RowsFit
  <1>6. y \in Nat /\ c \in Nat /\ height * width = y
        BY <1>2, <1>3
  <1> DEFINE first  == (h - 1) * width + w
             second == (Half(h) - 1) * uv + 2 * Half(w)
  <1>7. first \in Int /\ second \in Int /\ first <= y /\ second <= c
    <2>1. (h - 1) * width \in Int /\ (Half(h) - 1) * uv \in Int
          BY <1>2, <1>3
    <2>2. QED
          BY <1>2, <1>4, <1>5, <1>6, <2>1
  <1>8. filled = <<[from |-> 0, size |-> first], [from |-> y, size |-> second]>>
    <2>1. (h + 1) \div 2 = Half(h) /\ 2 * ((w + 1) \div 2) = 2 * Half(w)
          BY DEF Half
    <2>2. /\ ImagePlane(1) = [stride |-> width, offset |-> 0]
          /\ ImagePlane(2) = [stride |-> uv, offset |-> y]
          BY <1>1 DEF ImagePlane
    <2>3. filled =
            <<[from |-> ImagePlane(1).offset, size |-> (h - 1) * ImagePlane(1).stride + w],
              [from |-> ImagePlane(2).offset,
               size |-> (((h + 1) \div 2) - 1) * ImagePlane(2).stride + 2 * ((w + 1) \div 2)]>>
          BY DEF Filled
    <2>4. QED
          BY <2>1, <2>2, <2>3
  <1> HIDE DEF y, c, first, second, filled
  <1>9. /\ filled[1].from = 0 /\ filled[1].size = first
        /\ filled[2].from = y /\ filled[2].size = second
        BY <1>8
  <1>10. Apart(filled[1], filled[2])
         BY <1>6, <1>7, <1>9 DEF Apart
  <1>11. ASSUME NEW p \in 1..2 PROVE filled[p].from + filled[p].size <= image.buffer.data_size
    <2>1. p = 1 \/ p = 2
          OBVIOUS
    <2>2. 0 + first <= y + c /\ y + second <= y + c
          BY <1>6, <1>7
    <2>3. QED
          BY <1>1, <1>9, <2>1, <2>2
  <1>12. QED
         BY <1>10, <1>11 DEF filled

--------------------------------------------------------------------------------
(* The copies of vsGetImage: each within its image, once that was checked, and *)
(* no image goes while there is one.                                          *)

LaidOut(i) == \E w, h \in Nat : i = ImageLayout(w, h)

CopyType == [place : Mappings, w : Nat, h : Nat, checked : BOOLEAN]

CopyInv ==
  /\ image # NoImage => LaidOut(image)
  /\ DOMAIN copy = Threads
  /\ \A t \in Threads : copy[t] # NoCopy =>
       /\ copy[t] \in CopyType
       /\ image # NoImage
       /\ copy[t].checked => copy[t].w <= image.width /\ copy[t].h <= image.height

LEMMA CopyInit == SurfaceInit => CopyInv
  BY DEF SurfaceInit, CopyInv

LEMMA CopyKept == CopyInv /\ UNCHANGED <<image, copy>> => CopyInv'
  BY DEF CopyInv, LaidOut

LEMMA GetImageCopies ==
  ASSUME NEW t \in Threads, NEW m \in Mappings, NEW x, NEW w \in Dims, NEW h \in Dims,
         CopyInv, GetImage(t, m, x, w, h)
  PROVE  CopyInv'
  <1>1. CASE UNCHANGED copy
        BY <1>1, CopyKept DEF GetImage
  <1> DEFINE new == [place |-> m, w |-> w, h |-> h, checked |-> FALSE]
  <1>2. CASE copy' = [copy EXCEPT ![t] = new]
    <2>1. new.checked = FALSE /\ new \in CopyType
      <3>1. w \in Nat /\ h \in Nat
            BY DimsAssumption
      <3>2. QED
            BY <3>1 DEF CopyType
    <2>2. image # NoImage /\ UNCHANGED image
          BY DEF GetImage
    <2> HIDE DEF new
    <2>3. QED
          BY <1>2, <2>1, <2>2 DEF CopyInv, LaidOut
  <1>3. QED
        BY <1>1, <1>2 DEF GetImage

\* The check is made on the image there is, and on the rectangle of the copy.
LEMMA CheckImageCopies ==
  ASSUME NEW t \in Threads, CopyInv, CheckImage(t)
  PROVE  CopyInv'
  <1>1. CASE UNCHANGED copy
        BY <1>1, CopyKept DEF CheckImage
  <1>2. CASE ImageHolds(copy[t].w, copy[t].h) /\ copy' = [copy EXCEPT ![t].checked = TRUE]
    <2>1. copy[t] \in CopyType
          BY DEF CheckImage, CopyInv
    <2>2. image # NoImage /\ UNCHANGED image /\ LaidOut(image)
          BY DEF CheckImage, CopyInv
    <2>3. PICK width \in Nat, height \in Nat : image = ImageLayout(width, height)
          BY <2>2 DEF LaidOut
    <2>4. image.width = width /\ image.height = height
          BY <2>3 DEF ImageLayout
    <2>5. copy[t].w <= image.width /\ copy[t].h <= image.height
          BY <1>2, <2>1, <2>4 DEF ImageHolds, Image, CopyType
    <2>6. PICK new : new = [copy[t] EXCEPT !.checked = TRUE]
          OBVIOUS
    <2>7. new \in CopyType /\ new.w = copy[t].w /\ new.h = copy[t].h
          BY <2>1, <2>6 DEF CopyType
    <2>8. copy'[t] = new /\ \A u \in Threads \ {t} : copy'[u] = copy[u]
          BY <1>2, <2>6 DEF CopyInv
    <2>9. DOMAIN copy' = Threads
          BY <1>2 DEF CopyInv
    <2>10. QED
          BY <2>2, <2>5, <2>7, <2>8, <2>9 DEF CopyInv, LaidOut
  <1>3. QED
        BY <1>1, <1>2 DEF CheckImage

LEMMA CopyStep == CopyInv /\ [Next]_allVars => CopyInv'
  <1> SUFFICES ASSUME CopyInv, [Next]_allVars PROVE CopyInv'
      OBVIOUS
  <1>1. ASSUME NEW t \in Threads, NEW m \in Mappings, NEW call,
               CreateSurface(t, m, call) \/ DestroySurface(t, m)
        PROVE  CopyInv'
        BY <1>1, CopyKept DEF CreateSurface, DestroySurface, surfaceVars
  <1>2. ASSUME NEW t \in Threads, NEW fourcc, NEW w \in Dims, NEW h \in Dims,
               CreateImage(t, fourcc, w, h)
        PROVE  CopyInv'
    <2>1. CASE UNCHANGED image
          BY <1>2, <2>1, CopyKept DEF CreateImage
    <2>2. CASE image' = ImageLayout(w, h)
      <3>1. LaidOut(image')
            BY <2>2, DimsAssumption DEF LaidOut
      <3>2. \A u \in Threads : copy[u] = NoCopy
            BY <1>2 DEF CreateImage, CopyInv
      <3>3. UNCHANGED copy
            BY <1>2 DEF CreateImage
      <3>4. QED
            BY <3>1, <3>2, <3>3 DEF CopyInv, LaidOut
    <2>3. QED
          BY <1>2, <2>1, <2>2 DEF CreateImage
  <1>3. ASSUME NEW t \in Threads, DestroyImage(t) PROVE CopyInv'
        BY <1>3 DEF DestroyImage, CopyInv
  <1>4. ASSUME NEW t \in Threads, NEW m \in Mappings, NEW x, NEW w \in Dims, NEW h \in Dims,
               GetImage(t, m, x, w, h)
        PROVE  CopyInv'
        BY <1>4, GetImageCopies
  <1>5. ASSUME NEW t \in Threads, GetImageReturns(t) PROVE CopyInv'
    <2>1. copy' = [copy EXCEPT ![t] = NoCopy] /\ UNCHANGED image
          BY <1>5 DEF GetImageReturns
    <2>2. DOMAIN copy' = Threads /\ \A u \in Threads : copy'[u] \in {copy[u], NoCopy}
          BY <2>1 DEF CopyInv
    <2>3. ASSUME NEW u \in Threads, copy'[u] # NoCopy PROVE copy'[u] = copy[u]
          BY <2>2, <2>3
    <2>4. QED
          BY <2>1, <2>2, <2>3 DEF CopyInv, LaidOut
  <1>6. CASE MappingStep /\ UNCHANGED surfaceVars
        BY <1>6, CopyKept DEF surfaceVars
  <1>7. CASE UNCHANGED allVars
        BY <1>7, CopyKept DEF allVars, surfaceVars
  <1>8. QED
        BY <1>1, <1>2, <1>3, <1>4, <1>5, <1>6, <1>7, CheckImageCopies DEF Next

\* ImageHoldsTheSurface for every size of images, surfaces and rectangles, as long as
\* 2^32 is far above the products of the reported maximum: the layout of
\* VSImage::Create does not wrap, an odd width or height is rounded up, and the
\* image that was checked is there until the copy ends.
THEOREM ImageHoldsTheSurfaceTheorem == Spec => []ImageHoldsTheSurface
  <1>1. CopyInv => ImageHoldsTheSurface
    <2> SUFFICES ASSUME CopyInv, NEW t \in Threads, copy[t] # NoCopy, copy[t].checked,
                        Small(image.width, image.height)
                 PROVE  LET filled == Filled(copy[t].w, copy[t].h)
                        IN /\ Apart(filled[1], filled[2])
                           /\ \A p \in 1..2 :
                                filled[p].from + filled[p].size <= image.buffer.data_size
        BY DEF ImageHoldsTheSurface
    <2>1. PICK width \in Nat, height \in Nat : image = ImageLayout(width, height)
          BY DEF CopyInv, LaidOut
    <2>2. image.width = width /\ image.height = height
          BY <2>1 DEF ImageLayout
    <2>3. copy[t].w \in Nat /\ copy[t].h \in Nat
          BY DEF CopyInv, CopyType
    <2>4. copy[t].w <= width /\ copy[t].h <= height
          BY <2>2 DEF CopyInv
    <2>5. QED
          BY <2>1, <2>2, <2>3, <2>4, RectangleFits
  <1>2. QED
        BY CopyInit, CopyStep, <1>1, PTL DEF Spec

--------------------------------------------------------------------------------
(* The layout gbm_bo_create gives a buffer: two planes, one after the other, *)
(* each in whole pages.                                                      *)

\* The room before the planes of a buffer with two, and after them.
LEMMA RoomIs ==
  ASSUME NEW meta_
  PROVE  /\ RoomBefore(meta_, 1) = 0
         /\ RoomBefore(meta_, 2) = U32(0 + PaddedSize(meta_, 1))
         /\ RoomBefore(meta_, 3) = U32(RoomBefore(meta_, 2) + PaddedSize(meta_, 2))
  <1> DEFINE Sizes(f, n) ==
        f = [p \in 0..(n - 1) |-> IF p = 0 THEN 0 ELSE U32(f[p - 1] + PaddedSize(meta_, p))]
      a == U32(0 + PaddedSize(meta_, 1))
      b == U32(a + PaddedSize(meta_, 2))
      g == [p \in 0..2 |-> IF p = 0 THEN 0 ELSE IF p = 1 THEN a ELSE b]
  <1>1. ASSUME NEW n \in 1..3 PROVE RoomBefore(meta_, n) = (CHOOSE f : Sizes(f, n))[n - 1]
        BY DEF RoomBefore
  <1>2. ASSUME NEW n \in 1..3 PROVE \E f : Sizes(f, n)
    <2> DEFINE h == [p \in 0..(n - 1) |-> g[p]]
    <2>1. h[0] = 0 /\ (n > 1 => h[1] = a) /\ (n > 2 => h[2] = b)
          OBVIOUS
    <2>2. ASSUME NEW p \in 0..(n - 1)
          PROVE  h[p] = IF p = 0 THEN 0 ELSE U32(h[p - 1] + PaddedSize(meta_, p))
      <3> HIDE DEF h
      <3>1. CASE p = 0
            BY <2>1, <3>1
      <3>2. CASE p = 1
        <4>1. h[p - 1] = 0 /\ h[p] = a
              BY <2>1, <3>2
        <4>2. QED
              BY <3>2, <4>1
      <3>3. CASE p = 2
        <4>1. h[p - 1] = a /\ h[p] = b
              BY <2>1, <3>3
        <4>2. QED
              BY <3>3, <4>1
      <3>4. QED
            BY <3>1, <3>2, <3>3
    <2>3. h = [p \in 0..(n - 1) |-> h[p]]
          OBVIOUS
    <2> HIDE DEF h
    <2>4. Sizes(h, n)
          BY <2>2, <2>3
    <2>5. QED
          BY <2>4
  <1>3. ASSUME NEW n \in 1..3 PROVE \E f : Sizes(f, n) /\ RoomBefore(meta_, n) = f[n - 1]
    <2>1. PICK f : f = CHOOSE e : Sizes(e, n)
          OBVIOUS
    <2> HIDE DEF Sizes
    <2>2. Sizes(f, n)
          BY <1>2, <2>1
    <2>3. RoomBefore(meta_, n) = f[n - 1]
          BY <1>1, <2>1
    <2>4. QED
          BY <2>2, <2>3
  <1>4. RoomBefore(meta_, 1) = 0
    <2>1. PICK f : Sizes(f, 1) /\ RoomBefore(meta_, 1) = f[1 - 1]
          BY <1>3
    <2>2. f[0] = 0
          BY <2>1
    <2>3. QED
          BY <2>1, <2>2
  <1>5. RoomBefore(meta_, 2) = a
    <2>1. PICK f : Sizes(f, 2) /\ RoomBefore(meta_, 2) = f[2 - 1]
          BY <1>3
    <2>2. f[0] = 0 /\ f[1] = U32(f[0] + PaddedSize(meta_, 1))
          BY <2>1
    <2>3. QED
          BY <2>1, <2>2
  <1>6. RoomBefore(meta_, 3) = b
    <2>1. PICK f : Sizes(f, 3) /\ RoomBefore(meta_, 3) = f[3 - 1]
          BY <1>3
    <2>2. f[0] = 0 /\ f[1] = U32(f[0] + PaddedSize(meta_, 1)) /\ f[2] = U32(f[1] + PaddedSize(meta_, 2))
          BY <2>1
    <2>3. QED
          BY <2>1, <2>2
  <1>7. QED
        BY <1>4, <1>5, <1>6

LEMMA Quotient ==
  ASSUME NEW a \in Nat, NEW n \in Nat \ {0}
  PROVE  /\ a \div n \in Nat /\ (a \div n) * n \in Nat /\ (a \div n) * n <= a
         /\ a < (a \div n) * n + n
  <1>1. a % n \in 0..(n - 1) /\ a \div n \in Int /\ a = n * (a \div n) + (a % n)
        OBVIOUS
  <1>2. n * (a \div n) = (a \div n) * n /\ (a \div n) * n \in Int
        BY <1>1
  <1>3. a \div n >= 0
        OBVIOUS
  <1>4. a \div n \in Nat
        BY <1>1, <1>3
  <1>5. (a \div n) * n \in Nat
        BY <1>4
  <1> DEFINE q == (a \div n) * n
  <1>6. q \in Nat /\ a = q + (a % n)
        BY <1>1, <1>2, <1>5
  <1> HIDE DEF q
  <1>7. q <= a /\ a < q + n
        BY <1>1, <1>6
  <1>8. QED
        BY <1>4, <1>5, <1>7 DEF q

\* A multiple of n.
LEMMA NoRest == ASSUME NEW k \in Nat, NEW n \in Nat \ {0} PROVE (k * n) % n = 0
  <1>1. (k * n) % n \in 0..(n - 1) /\ k * n = n * ((k * n) \div n) + ((k * n) % n)
        OBVIOUS
  <1> QED
      BY <1>1

LEMMA AlignIs ==
  ASSUME NEW x \in Nat, NEW y \in Nat \ {0}, x + y < Wrap
  PROVE  /\ ALIGN(x, y) \in Nat /\ x <= ALIGN(x, y) /\ ALIGN(x, y) < x + y
         /\ ALIGN(x, y) % y = 0
         /\ ALIGN(x, y) = ((x + y - 1) \div y) * y
  <1> DEFINE k == (x + y - 1) \div y
             a == k * y
  <1>1. x + y - 1 \in Nat /\ U32(x + y - 1) = x + y - 1
    <2>1. x + y - 1 \in Nat /\ x + y - 1 < Wrap
          BY Room
    <2>2. QED
          BY <2>1, Exact
  <1>2. k \in Nat /\ a \in Nat /\ a <= x + y - 1 /\ x + y - 1 < a + y
        BY <1>1, Quotient
  <1>3. a % y = 0
        BY <1>2, NoRest
  <1>4. U32(k * y) = a
    <2> HIDE DEF a
    <2>1. a < Wrap
          BY <1>2, Room
    <2>2. U32(a) = a
          BY <1>2, <2>1, Exact
    <2>3. QED
          BY <2>2 DEF a
  <1>5. ALIGN(x, y) = a
        BY <1>1, <1>4 DEF ALIGN
  <1> HIDE DEF a
  <1>6. x <= a /\ a < x + y
        BY <1>2
  <1>7. QED
        BY <1>2, <1>3, <1>5, <1>6 DEF a

\* A plane has h rows of s bytes, or half as many, and the padding.
Padded(size, bytes) ==
  /\ size \in Nat /\ bytes <= size /\ size < bytes + PageSize
  /\ size % PageSize = 0
  /\ 4 * size < Wrap

LEMMA PaddingIs ==
  ASSUME NEW w \in Nat, NEW h \in Nat, Small(w, h), NEW bpp \in {1, 2}, NEW meta_,
         meta_.height = h, meta_.strides[1] = w * bpp, meta_.strides[2] = w * bpp
  PROVE  /\ Padded(PaddedSize(meta_, 1), h * (w * bpp))
         /\ Padded(PaddedSize(meta_, 2), Half(h) * (w * bpp))
  <1>1. w \in 0..(MaxDim + 1) /\ h \in 0..(MaxDim + 1) /\ h <= MaxDim /\ MaxDim \in Nat
        BY Room DEF Small
  <1>2. Half(h) \in 0..(MaxDim + 1) /\ 2 * Half(h) \in 0..(MaxDim + 1)
    <2>1. Half(h) \in Nat /\ 2 * Half(h) <= h + 1
          BY HalfIs
    <2>2. QED
          BY <1>1, <2>1
  <1> DEFINE full == h * w
             half == (2 * Half(h)) * w
             s    == w * bpp
  <1>3. full \in Nat /\ 8 * full + 4 * PageSize <= Wrap
        BY <1>1, Products
  <1>4. half \in Nat /\ 8 * half + 4 * PageSize <= Wrap
        BY <1>1, <1>2, Products
  <1>5. ALIGN(h, 1) = h /\ ALIGN(h, 2) = 2 * Half(h)
    <2>1. h + 1 < Wrap /\ h + 2 < Wrap
          BY <1>1, Room
    <2>2. ALIGN(h, 1) = ((h + 1 - 1) \div 1) * 1 /\ ALIGN(h, 2) = ((h + 2 - 1) \div 2) * 2
          BY <2>1, AlignIs
    <2>3. QED
          BY <2>2 DEF Half
  <1>6. /\ s * h = bpp * full /\ s * (2 * Half(h)) = bpp * half /\ h * s = bpp * full
        /\ 2 * (Half(h) * s) = bpp * half /\ Half(h) * s \in Nat
    <2>1. bpp = 1 \/ bpp = 2
          OBVIOUS
    <2>2. w \in Nat /\ h \in Nat /\ Half(h) \in Nat
          BY <1>2
    <2>3. QED
          BY <2>1, <2>2
  <1> DEFINE bytes == Half(h) * s
  <1> HIDE DEF full, half, bytes, s
  <1>7. /\ bpp * full \in Nat /\ 4 * (bpp * full) + 4 * PageSize <= Wrap
        /\ bpp * half \in Nat /\ 4 * (bpp * half) + 4 * PageSize <= Wrap
        BY <1>3, <1>4, Room
  <1>8. get_plane_min_size(meta_, 1) = bpp * full
    <2>1. get_plane_min_size(meta_, 1) = U32(s * ALIGN(h, 1)) \div 1
          BY DEF get_plane_min_size, get_y_subsample, s
    <2>2. U32(bpp * full) = bpp * full
          BY <1>7, Exact, Room
    <2>3. QED
          BY <1>5, <1>6, <1>7, <2>1, <2>2
  <1>9. get_plane_min_size(meta_, 2) = bytes
    <2>1. get_plane_min_size(meta_, 2) = U32(s * ALIGN(h, 2)) \div 2
          BY DEF get_plane_min_size, get_y_subsample, s
    <2>2. U32(bpp * half) = bpp * half
          BY <1>7, Exact, Room
    <2>3. bytes \in Nat /\ 2 * bytes = bpp * half
          BY <1>6 DEF bytes
    <2>4. s * ALIGN(h, 2) = 2 * bytes
          BY <1>5, <1>6, <2>3
    <2>5. U32(2 * bytes) = 2 * bytes
          BY <2>2, <2>3
    <2>6. QED
          BY <2>1, <2>3, <2>4, <2>5
  <1>10. ASSUME NEW b \in Nat, 4 * b + 4 * PageSize <= Wrap PROVE Padded(ALIGN(b, PageSize), b)
    <2>1. b + PageSize < Wrap
          BY <1>10, Room
    <2>2. /\ ALIGN(b, PageSize) \in Nat /\ b <= ALIGN(b, PageSize)
          /\ ALIGN(b, PageSize) < b + PageSize /\ ALIGN(b, PageSize) % PageSize = 0
          BY <2>1, AlignIs, Room
    <2>3. QED
          BY <1>10, <2>2, Room DEF Padded
  <1>11. bytes \in Nat /\ 4 * bytes + 4 * PageSize <= Wrap
    <2>1. bytes \in Nat /\ 2 * bytes = bpp * half
          BY <1>6 DEF bytes
    <2>2. QED
          BY <1>7, <2>1, Room
  <1>12. Padded(PaddedSize(meta_, 1), bpp * full) /\ Padded(PaddedSize(meta_, 2), bytes)
         BY <1>7, <1>8, <1>9, <1>10, <1>11 DEF PaddedSize
  <1>13. QED
         BY <1>6, <1>12 DEF bytes, s

\* The buffer of gbm_bo_create: what its planes are, wherever they are imported.
Laid(meta_, w, h, bpp) ==
  /\ meta_.width = w /\ meta_.height = h
  /\ Len(meta_.strides) = 2
  /\ meta_.strides[1] = w * bpp /\ meta_.strides[2] = w * bpp
  /\ meta_.offsets[1] = 0 /\ meta_.offsets[2] = PaddedSize(meta_, 1)

LEMMA StrideIs ==
  ASSUME NEW w \in Nat, w <= MaxDim, NEW meta_, meta_.width = w, meta_.format # "YUV420",
         NEW p \in 1..2
  PROVE  Stride(meta_, p) = w * gbm_bo_get_bpp(meta_)
  <1>1. ALIGN(w, 1) = w
    <2>1. w + 1 < Wrap
          BY Room
    <2>2. ALIGN(w, 1) = ((w + 1 - 1) \div 1) * 1
          BY <2>1, AlignIs
    <2>3. QED
          BY <2>2
  <1>2. get_x_subsample(meta_, p) = 1
        BY DEF get_x_subsample
  <1>3. gbm_bo_get_bpp(meta_) \in {1, 2}
        BY DEF gbm_bo_get_bpp
  <1>4. U32(w * gbm_bo_get_bpp(meta_)) = w * gbm_bo_get_bpp(meta_)
    <2>1. w * gbm_bo_get_bpp(meta_) \in Nat /\ w * gbm_bo_get_bpp(meta_) < Wrap
          BY <1>3, Room
    <2>2. QED
          BY <2>1, Exact
  <1>5. Stride(meta_, p) = U32((w \div 1) * gbm_bo_get_bpp(meta_))
        BY <1>1, <1>2 DEF Stride
  <1>6. QED
        BY <1>4, <1>5

\* PaddedSize looks at no more than the height and the strides.
LEMMA SamePadding ==
  ASSUME NEW a, NEW b, a.height = b.height, a.strides = b.strides, NEW p
  PROVE  PaddedSize(a, p) = PaddedSize(b, p)
  BY DEF PaddedSize, get_plane_min_size

LEMMA BufferIs ==
  ASSUME NEW w \in Nat, NEW h \in Nat, Small(w, h), NEW format \in {"NV12", "P010"}, NEW file
  PROVE  LET b   == gbm_bo_create(w, h, format, file)
             bpp == IF format = "P010" THEN 2 ELSE 1
         IN /\ Laid(b.meta, w, h, bpp)
            /\ b.meta.format = format /\ b.meta.fds = <<file>>
            /\ b.size = PaddedSize(b.meta, 1) + PaddedSize(b.meta, 2)
  <1> DEFINE Meta(strides, offsets) ==
               gbm_import_fd_modifier_data(w, h, format, <<file>>, strides, offsets)
             bare    == Meta(<<>>, <<>>)
             strides == [p \in Planes(bare) |-> Stride(bare, p)]
             strided == Meta(strides, <<>>)
             offsets == [p \in Planes(bare) |-> RoomBefore(strided, p)]
             b       == gbm_bo_create(w, h, format, file)
             bpp     == IF format = "P010" THEN 2 ELSE 1
  <1>1. b = [meta |-> Meta(strided.strides, offsets),
             size |-> RoomBefore(strided, Len(strided.strides) + 1)]
        BY DEF gbm_bo_create
  <1>2. ASSUME NEW s, NEW o
        PROVE  /\ Meta(s, o).width = w /\ Meta(s, o).height = h /\ Meta(s, o).format = format
               /\ Meta(s, o).fds = <<file>> /\ Meta(s, o).strides = s /\ Meta(s, o).offsets = o
        BY DEF gbm_import_fd_modifier_data
  <1> HIDE DEF Meta
  <1>3. Planes(bare) = 1..2 /\ gbm_bo_get_bpp(bare) = bpp /\ bare.width = w /\ bare.format # "YUV420"
        BY <1>2 DEF Planes, gbm_bo_get_plane_count, gbm_bo_get_bpp
  <1> HIDE DEF bare, bpp
  <1>4. w <= MaxDim
        BY DEF Small
  <1>5. \A p \in 1..2 : Stride(bare, p) = w * bpp
        BY <1>3, <1>4, StrideIs
  <1>6. DOMAIN strides = 1..2 /\ strides[1] = w * bpp /\ strides[2] = w * bpp /\ Len(strides) = 2
        BY <1>3, <1>5
  <1> HIDE DEF strides
  <1>7. strided.strides = strides /\ strided.height = h
        BY <1>2
  <1>8. bpp \in {1, 2}
        BY DEF bpp
  <1> HIDE DEF strided
  <1>9. /\ PaddedSize(strided, 1) \in Nat /\ PaddedSize(strided, 2) \in Nat
        /\ 4 * PaddedSize(strided, 1) < Wrap /\ 4 * PaddedSize(strided, 2) < Wrap
    <2>1. /\ Padded(PaddedSize(strided, 1), h * (w * bpp))
          /\ Padded(PaddedSize(strided, 2), Half(h) * (w * bpp))
          BY <1>6, <1>7, <1>8, PaddingIs
    <2>2. QED
          BY <2>1 DEF Padded
  <1> DEFINE one == PaddedSize(strided, 1)
             two == PaddedSize(strided, 2)
  <1>10. /\ RoomBefore(strided, 1) = 0
         /\ RoomBefore(strided, 2) = U32(0 + one)
         /\ RoomBefore(strided, 3) = U32(RoomBefore(strided, 2) + two)
         BY RoomIs
  <1> HIDE DEF one, two
  <1>11. one \in Nat /\ two \in Nat /\ one < Wrap /\ one + two < Wrap
         BY <1>9, Room DEF one, two
  <1>12. U32(one) = one /\ U32(one + two) = one + two
    <2>1. one + two \in Nat
          BY <1>11
    <2>2. QED
          BY <1>11, <2>1, Exact
  <1>13. RoomBefore(strided, 2) = one /\ RoomBefore(strided, 3) = one + two
    <2>1. 0 + one = one
          BY <1>11
    <2>2. QED
          BY <1>10, <1>12, <2>1
  <1>14. offsets[1] = 0 /\ offsets[2] = one
         BY <1>3, <1>10, <1>13
  <1> HIDE DEF offsets
  <1>15. b.meta = Meta(strides, offsets) /\ b.size = one + two
    <2>1. Len(strided.strides) + 1 = 3
      <3>1. Len(strided.strides) = 2
            BY <1>6, <1>7, Zenon
      <3>2. QED
            BY <3>1
    <2> HIDE DEF b
    <2>2. QED
          BY <1>1, <1>7, <1>13, <2>1
  <1> HIDE DEF b
  <1>16. /\ b.meta.width = w /\ b.meta.height = h /\ b.meta.format = format
         /\ b.meta.fds = <<file>> /\ b.meta.strides = strides /\ b.meta.offsets = offsets
         BY <1>2, <1>15
  <1>17. PaddedSize(b.meta, 1) = one /\ PaddedSize(b.meta, 2) = two
         BY <1>7, <1>16, SamePadding DEF one, two
  <1>18. Laid(b.meta, w, h, bpp)
         BY <1>6, <1>14, <1>16, <1>17 DEF Laid
  <1>19. QED
         BY <1>15, <1>16, <1>17, <1>18 DEF b, bpp

--------------------------------------------------------------------------------
(* A buffer of GBM, exported as it is and imported again.                     *)

OneOfGbm ==
  /\ desc = Exported(buffer.meta)
  /\ desc.fourcc \in {"NV12", "P010"} /\ Small(desc.width, desc.height)

BufferInv == \E w, h \in Nat, format \in GbmFormats : buffer = gbm_bo_create(w, h, format, 1)

\* Once a buffer object was imported, the arguments were accepted.
ImportInv ==
  OneOfGbm =>
    /\ died \notin {"descriptor", "map"}
    /\ \A b \in bos : desc.width > 0 /\ desc.height > 0 /\ meta[b] = ImportData

LEMMA ExportIs ==
  ASSUME BufferInv, OneOfGbm
  PROVE  \E w, h \in Nat, bpp \in {1, 2} :
           /\ Small(w, h) /\ desc.width = w /\ desc.height = h
           /\ Laid(buffer.meta, w, h, bpp)
           /\ buffer.meta.format = desc.fourcc /\ buffer.meta.fds = <<1>>
           /\ buffer.size = PaddedSize(buffer.meta, 1) + PaddedSize(buffer.meta, 2)
  <1>1. PICK w \in Nat, h \in Nat, format \in GbmFormats : buffer = gbm_bo_create(w, h, format, 1)
        BY DEF BufferInv
  <1>2. buffer.meta.width = w /\ buffer.meta.height = h /\ buffer.meta.format = format
        BY <1>1 DEF gbm_bo_create, gbm_import_fd_modifier_data
  <1>3. desc.width = w /\ desc.height = h /\ desc.fourcc = format
        BY <1>2 DEF OneOfGbm, Exported
  <1>4. Small(w, h) /\ format \in {"NV12", "P010"}
        BY <1>3 DEF OneOfGbm
  <1> DEFINE bpp == IF format = "P010" THEN 2 ELSE 1
  <1>5. /\ Laid(buffer.meta, w, h, bpp)
        /\ buffer.meta.format = format /\ buffer.meta.fds = <<1>>
        /\ buffer.size = PaddedSize(buffer.meta, 1) + PaddedSize(buffer.meta, 2)
        BY <1>1, <1>4, BufferIs
  <1>6. bpp \in {1, 2}
        OBVIOUS
  <1> HIDE DEF bpp
  <1>7. QED
        BY <1>3, <1>4, <1>5, <1>6

\* The descriptor of such a buffer gives the import what the buffer was made with.
LEMMA ImportIs ==
  ASSUME BufferInv, OneOfGbm
  PROVE  /\ ImportData.width = buffer.meta.width /\ ImportData.height = buffer.meta.height
         /\ ImportData.format = buffer.meta.format
         /\ ImportData.strides = buffer.meta.strides /\ ImportData.offsets = buffer.meta.offsets
         /\ Planes(ImportData) = 1..2
  <1>1. /\ desc.width = buffer.meta.width /\ desc.height = buffer.meta.height
        /\ desc.fourcc = buffer.meta.format
        /\ desc.pitch = buffer.meta.strides /\ desc.offset = buffer.meta.offsets
        BY DEF OneOfGbm, Exported
  <1>2. /\ ImportData.width = desc.width /\ ImportData.height = desc.height
        /\ ImportData.format = desc.fourcc
        /\ ImportData.strides = desc.pitch /\ ImportData.offsets = desc.offset
        BY DEF ImportData, gbm_import_fd_modifier_data
  <1>3. desc.fourcc # "YUV420"
        BY DEF OneOfGbm
  <1>4. Planes(ImportData) = 1..2
        BY <1>2, <1>3 DEF Planes, gbm_bo_get_plane_count
  <1>5. QED
        BY <1>1, <1>2, <1>4

LEMMA ImportAreas ==
  ASSUME BufferInv, OneOfGbm
  PROVE  \E w, h \in Nat, bpp \in {1, 2} :
           /\ desc.width = w /\ desc.height = h
           /\ ImportData.strides[1] = w * bpp /\ ImportData.strides[2] = w * bpp
           /\ Padded(PaddedSize(ImportData, 1), h * (w * bpp))
           /\ Padded(PaddedSize(ImportData, 2), Half(h) * (w * bpp))
           /\ Area(ImportData, 1) = [from |-> 0, size |-> PaddedSize(ImportData, 1)]
           /\ Area(ImportData, 2) = [from |-> PaddedSize(ImportData, 1),
                                     size |-> PaddedSize(ImportData, 2)]
           /\ buffer.size = PaddedSize(ImportData, 1) + PaddedSize(ImportData, 2)
  <1>1. PICK w \in Nat, h \in Nat, bpp \in {1, 2} :
           /\ Small(w, h) /\ desc.width = w /\ desc.height = h
           /\ Laid(buffer.meta, w, h, bpp)
           /\ buffer.meta.format = desc.fourcc /\ buffer.meta.fds = <<1>>
           /\ buffer.size = PaddedSize(buffer.meta, 1) + PaddedSize(buffer.meta, 2)
        BY ExportIs
  <1>2. PICK d : d = ImportData
        OBVIOUS
  <1>3. /\ d.height = buffer.meta.height /\ d.strides = buffer.meta.strides
        /\ d.offsets = buffer.meta.offsets
        BY <1>2, ImportIs
  <1>4. \A p : PaddedSize(d, p) = PaddedSize(buffer.meta, p)
        BY <1>3, SamePadding
  <1>5. d.height = h /\ d.strides[1] = w * bpp /\ d.strides[2] = w * bpp
        BY <1>1, <1>3 DEF Laid
  <1>6. /\ Padded(PaddedSize(d, 1), h * (w * bpp))
        /\ Padded(PaddedSize(d, 2), Half(h) * (w * bpp))
        BY <1>1, <1>5, PaddingIs
  <1>7. d.offsets[1] = 0 /\ d.offsets[2] = PaddedSize(d, 1)
        BY <1>1, <1>3, <1>4 DEF Laid
  <1>8. /\ Area(d, 1) = [from |-> 0, size |-> PaddedSize(d, 1)]
        /\ Area(d, 2) = [from |-> PaddedSize(d, 1), size |-> PaddedSize(d, 2)]
        BY <1>7 DEF Area
  <1>9. buffer.size = PaddedSize(d, 1) + PaddedSize(d, 2)
        BY <1>1, <1>4
  <1>10. desc.width = w /\ desc.height = h
         BY <1>1
  <1>11. QED
         BY <1>2, <1>5, <1>6, <1>8, <1>9, <1>10

\* No plane of it makes gbm_bo_map2 fail.
LEMMA ImportMaps ==
  ASSUME BufferInv, OneOfGbm, desc.width > 0, desc.height > 0, NEW p \in Planes(ImportData)
  PROVE  ~MapFails(ImportData, p)
  <1>1. PICK w \in Nat, h \in Nat, bpp \in {1, 2} :
           /\ desc.width = w /\ desc.height = h
           /\ ImportData.strides[1] = w * bpp /\ ImportData.strides[2] = w * bpp
           /\ Padded(PaddedSize(ImportData, 1), h * (w * bpp))
           /\ Padded(PaddedSize(ImportData, 2), Half(h) * (w * bpp))
           /\ Area(ImportData, 1) = [from |-> 0, size |-> PaddedSize(ImportData, 1)]
           /\ Area(ImportData, 2) = [from |-> PaddedSize(ImportData, 1),
                                     size |-> PaddedSize(ImportData, 2)]
           /\ buffer.size = PaddedSize(ImportData, 1) + PaddedSize(ImportData, 2)
        BY ImportAreas
  <1> DEFINE one == PaddedSize(ImportData, 1)
             two == PaddedSize(ImportData, 2)
  <1>2. w > 0 /\ h > 0 /\ Half(h) > 0 /\ Half(h) \in Nat
        BY <1>1, HalfIs
  <1>3. h * (w * bpp) > 0 /\ Half(h) * (w * bpp) > 0
    <2>1. ASSUME NEW a \in Nat, NEW b \in Nat, a > 0, b > 0 PROVE a * b > 0 /\ a * b \in Nat
          BY <2>1
    <2>2. w * bpp > 0 /\ w * bpp \in Nat
          BY <1>2, <2>1
    <2>3. QED
          BY <1>2, <2>1, <2>2
  <1>4. /\ one \in Nat /\ one > 0 /\ one % PageSize = 0 /\ 4 * one < Wrap
        /\ two \in Nat /\ two > 0
    <2>1. h * (w * bpp) \in Nat /\ Half(h) * (w * bpp) \in Nat
          BY <1>2
    <2>2. QED
          BY <1>1, <1>3, <2>1 DEF Padded
  <1>5. p = 1 \/ p = 2
        BY ImportIs
  <1> HIDE DEF one, two
  <1>6. 0 % PageSize = 0 /\ ~(0 >= Wrap \div 2) /\ ~(one >= Wrap \div 2)
        BY <1>4, Room
  <1>7. /\ Area(ImportData, 1) = [from |-> 0, size |-> one]
        /\ Area(ImportData, 2) = [from |-> one, size |-> two]
        BY <1>1 DEF one, two
  <1>8. CASE p = 1
        BY <1>4, <1>6, <1>7, <1>8 DEF MapFails
  <1>9. CASE p = 2
        BY <1>4, <1>6, <1>7, <1>9 DEF MapFails
  <1>10. QED
         BY <1>5, <1>8, <1>9

\* And VSSurface::Create has nothing against it.
LEMMA ExportAccepted ==
  ASSUME BufferInv, OneOfGbm
  PROVE  DescriptorAccepted
  <1>1. PICK w \in Nat, h \in Nat, bpp \in {1, 2} :
           /\ Laid(buffer.meta, w, h, bpp)
           /\ buffer.meta.format = desc.fourcc /\ buffer.meta.fds = <<1>>
        BY ExportIs
  <1>2. desc = Exported(buffer.meta) /\ desc.fourcc \in {"NV12", "P010"}
        BY DEF OneOfGbm
  <1> DEFINE objects == [i \in DOMAIN buffer.meta.fds |-> [fd |-> buffer.meta.fds[i], modifier |-> 0]]
  <1>3. /\ desc.objects = objects
        /\ desc.layers = 1 /\ desc.drm_format = desc.fourcc
        /\ desc.object_index = [p \in Planes(buffer.meta) |-> 1]
        /\ desc.pitch = buffer.meta.strides
        BY <1>2 DEF Exported
  <1>4. Len(objects) = 1 /\ \A i \in DOMAIN objects : objects[i].modifier = 0 /\ 1 \in DOMAIN objects
    <2>1. DOMAIN objects = 1..1
          BY <1>1
    <2>2. QED
          BY <2>1
  <1> HIDE DEF objects
  <1>5. Len(desc.objects) = 1 /\ \A i \in DOMAIN desc.objects :
          desc.objects[i].modifier = desc.objects[1].modifier
        BY <1>3, <1>4
  <1>6. Len(desc.pitch) = 2
        BY <1>1, <1>3 DEF Laid
  <1>7. \A p \in DOMAIN desc.object_index : desc.object_index[p] = 1
        BY <1>3
  <1>8. QED
        BY <1>2, <1>3, <1>5, <1>6, <1>7 DEF DescriptorAccepted

LEMMA ImportInit == SurfaceInit => BufferInv /\ ImportInv
  <1> SUFFICES ASSUME SurfaceInit PROVE BufferInv /\ ImportInv
      OBVIOUS
  <1>1. BufferInv
        BY DimsAssumption DEF SurfaceInit, BufferInv
  <1>2. died = "no" /\ bos = {}
        BY DEF SurfaceInit, Init, FactoryInit
  <1>3. QED
        BY <1>1, <1>2 DEF ImportInv

LEMMA BufferStep == BufferInv /\ [Next]_allVars => BufferInv' /\ UNCHANGED <<buffer, desc>>
  <1> SUFFICES ASSUME BufferInv, [Next]_allVars PROVE BufferInv' /\ UNCHANGED <<buffer, desc>>
      OBVIOUS
  <1>1. UNCHANGED <<buffer, desc>>
        BY DEF Next, CreateSurface, DestroySurface, CreateImage, DestroyImage, GetImage, CheckImage,
           GetImageReturns, surfaceVars, allVars
  <1>2. QED
        BY <1>1 DEF BufferInv

\* The descriptor does not change, so what was imported is what would be now.
LEMMA ImportKept ==
  ImportInv /\ UNCHANGED <<buffer, desc, died, bos, meta>> => ImportInv'
  BY DEF ImportInv, OneOfGbm, ImportData

LEMMA DieImports ==
  ASSUME NEW why, why \notin {"descriptor", "map"}, Die(why), ImportInv, UNCHANGED <<buffer, desc>>
  PROVE  ImportInv'
  BY DEF Die, resourceVars, ImportInv, OneOfGbm, ImportData

LEMMA CreateSurfaceImports ==
  ASSUME NEW t \in Threads, NEW m \in Mappings, NEW call \in Calls, CreateSurface(t, m, call),
         BufferInv, ImportInv
  PROVE  ImportInv'
  <1>1. UNCHANGED <<buffer, desc>>
        BY DEF CreateSurface, surfaceVars
  <1>2. CASE DefaultConstruct(m)
        BY <1>1, <1>2, ImportKept DEF DefaultConstruct, resourceVars
  <1>3. CASE Die("attributes") \/ Die("arguments")
        BY <1>1, <1>3, DieImports
  <1>4. CASE ~DescriptorAccepted
        BY <1>1, <1>4, ExportAccepted DEF ImportInv, OneOfGbm
  <1>5. CASE ArgumentsAccepted(call) /\ Create(t, m, ImportData)
    <2>1. PICK b \in BOs : gbm_bo_import(b, ImportData)
          BY <1>5 DEF Create
    <2>2. /\ bos' = bos \cup {b} /\ UNCHANGED died
          /\ \A c \in bos' : meta'[c] = IF c = b THEN ImportData ELSE meta[c]
          BY <1>5, <2>1 DEF Create, gbm_bo_import
    <2>3. call.width > 0 /\ call.height > 0 /\ desc.width = call.width /\ desc.height = call.height
          BY <1>5 DEF ArgumentsAccepted
    <2>4. desc.width > 0 /\ desc.height > 0
          BY <2>3, Zenon
    <2>5. OneOfGbm' <=> OneOfGbm
          BY <1>1 DEF OneOfGbm
    <2>6. ImportData' = ImportData
          BY <1>1 DEF ImportData
    <2>7. QED
          BY <1>1, <2>2, <2>4, <2>5, <2>6 DEF ImportInv
  <1>6. QED
        BY <1>2, <1>3, <1>4, <1>5 DEF CreateSurface

LEMMA MapDiesImports ==
  ASSUME NEW t \in Threads, MapDies(t), OwnInv, BufferInv, ImportInv, UNCHANGED <<buffer, desc>>
  PROVE  ImportInv'
  <1>1. CASE OneOfGbm
    <2>1. work[t].bo \in bos
          BY DEF MapDies, OwnInv, WorkInv
    <2>2. desc.width > 0 /\ desc.height > 0 /\ meta[work[t].bo] = ImportData
          BY <1>1, <2>1 DEF ImportInv
    <2>3. NextPlane(t) \in Planes(ImportData) /\ MapFails(ImportData, NextPlane(t))
          BY <2>2 DEF MapDies
    <2>4. QED
          BY <1>1, <2>2, <2>3, ImportMaps
  <1>2. CASE ~OneOfGbm
        BY <1>2 DEF ImportInv, OneOfGbm
  <1>3. QED
        BY <1>1, <1>2

LEMMA ImportStep == OwnInv /\ BufferInv /\ ImportInv /\ [Next]_allVars => ImportInv'
  <1> SUFFICES ASSUME OwnInv, BufferInv, ImportInv, [Next]_allVars PROVE ImportInv'
      OBVIOUS
  <1> DEFINE Same == UNCHANGED <<died, bos, meta>>
  <1>1. UNCHANGED <<buffer, desc>>
        BY BufferStep
  <1>2. CASE Same
        BY <1>1, <1>2, ImportKept
  <1>3. CASE Die("image") \/ Die("copy")
        BY <1>1, <1>3, DieImports
  <1>4. ASSUME NEW t \in Threads, NEW m \in Mappings, DestroySurface(t, m) PROVE Same
        BY <1>4 DEF DestroySurface, Destroy, resourceVars
  <1>5. ASSUME NEW t \in Threads, NEW fourcc, NEW w, NEW h, CreateImage(t, fourcc, w, h)
        PROVE  Same \/ Die("image")
        BY <1>5 DEF CreateImage, vars, resourceVars
  <1>6. ASSUME NEW t \in Threads, DestroyImage(t) PROVE Same
        BY <1>6 DEF DestroyImage, vars, resourceVars
  <1>7. ASSUME NEW t \in Threads, NEW m \in Mappings, NEW x, NEW w, NEW h, GetImage(t, m, x, w, h)
        PROVE  Same \/ Die("copy")
        BY <1>7 DEF GetImage, BeginAccess, resourceVars
  <1>8. ASSUME NEW t \in Threads, CheckImage(t) \/ GetImageReturns(t) PROVE Same \/ Die("copy")
        BY <1>8 DEF CheckImage, GetImageReturns, EndAccess, vars, resourceVars
  <1>9. ASSUME NEW t \in Threads,
               MapPlane(t) \/ CreateReturns(t) \/ UnmapPlane(t) \/ CloseFDs(t)
        PROVE  Same
        BY <1>9 DEF MapPlane, CreateReturns, UnmapPlane, CloseFDs, resourceVars
  <1>10. ASSUME NEW t \in Threads, DestroyBO(t) PROVE ImportInv'
    <2>1. bos' \subseteq bos /\ (\A b \in bos' : meta'[b] = meta[b]) /\ UNCHANGED died
          BY <1>10 DEF DestroyBO, gbm_bo_destroy
    <2>2. QED
          BY <1>1, <2>1 DEF ImportInv, OneOfGbm, ImportData
  <1>11. ASSUME NEW m \in Mappings, NEW n \in Mappings,
                DestroyInvalid(m) \/ MoveConstruct(m, n) \/ MoveAssign(m, n)
         PROVE  Same
         BY <1>11 DEF DestroyInvalid, MoveConstruct, MoveAssign, resourceVars
  <1>12. CASE MappingStep
         BY <1>1, <1>2, <1>9, <1>10, <1>11, <1>12, MapDiesImports DEF MappingStep
  <1>13. CASE UNCHANGED allVars
         BY <1>2, <1>13 DEF allVars, vars, resourceVars
  <1>14. QED
         BY <1>2, <1>3, <1>4, <1>5, <1>6, <1>7, <1>8, <1>12, <1>13, CreateSurfaceImports DEF Next

\* GbmBuffersAreMapped for every size of buffers up to the reported maximum, every
\* page size and number of threads: the arithmetic of fake_gbm.cc in 32 bits gives
\* each plane its own pages of the file, and none of the CHECKs on the way fails.
THEOREM GbmBuffersAreMappedTheorem == Spec => []GbmBuffersAreMapped
  <1>1. OwnInv /\ CountInv /\ BufferInv /\ ImportInv => GbmBuffersAreMapped
    <2> SUFFICES ASSUME OwnInv, CountInv, BufferInv, ImportInv, OneOfGbm
                 PROVE  GbmBuffersAreMapped
        BY DEF GbmBuffersAreMapped, OneOfGbm
    <2> DEFINE d   == ImportData
               one == PaddedSize(d, 1)
               two == PaddedSize(d, 2)
    <2>1. PICK w \in Nat, h \in Nat, bpp \in {1, 2} :
             /\ desc.width = w /\ desc.height = h
             /\ d.strides[1] = w * bpp /\ d.strides[2] = w * bpp
             /\ Padded(one, h * (w * bpp))
             /\ Padded(two, Half(h) * (w * bpp))
             /\ Area(d, 1) = [from |-> 0, size |-> one]
             /\ Area(d, 2) = [from |-> one, size |-> two]
             /\ buffer.size = one + two
          BY ImportAreas
    <2>2. one \in Nat /\ two \in Nat /\ h * (w * bpp) <= one /\ Half(h) * (w * bpp) <= two
          BY <2>1 DEF Padded
    <2>3. died \notin {"descriptor", "map"} /\ \A b \in bos : meta[b] = d
          BY DEF ImportInv
    <2>4. Planes(d) = 1..2
          BY ImportIs
    <2> HIDE DEF d, one, two
    <2>5. ASSUME NEW m \in Mappings, Valid(m), NEW p \in DOMAIN mapping[m].planes
          PROVE  <<desc.height, (desc.height + 1) \div 2>>[p] * GetStride(m, p)
                   <= Area(meta[mapping[m].bo], p).size
      <3>1. mapping[m].bo \in bos /\ mapping[m].planes[p][1] = mapping[m].bo
            BY <2>5 DEF OwnInv, MappingInv, PlanesOf
      <3>2. meta[mapping[m].bo] = d
            BY <2>3, <3>1
      <3>3. GetStride(m, p) = d.strides[p]
            BY <3>1, <3>2 DEF GetStride, GetData
      <3>4. p \in 1..2
        <4>1. mapping[m].planes \in Seq(Plane)
              BY DEF OwnInv, OwnTypes, MappingType
        <4>2. Len(mapping[m].planes) = 2
          <5>1. gbm_bo_get_plane_count(d) = 2
                BY <2>4 DEF Planes, gbm_bo_get_plane_count
          <5>2. QED
                BY <2>5, <3>2, <5>1 DEF CountInv, Count
        <4>3. QED
              BY <2>5, <4>1, <4>2
      <3>5. CASE p = 1
        <4>1. <<desc.height, (desc.height + 1) \div 2>>[p] = h
              BY <2>1, <3>5
        <4>2. GetStride(m, p) = w * bpp /\ Area(meta[mapping[m].bo], p).size = one
              BY <2>1, <3>2, <3>3, <3>5
        <4>3. QED
              BY <2>2, <4>1, <4>2
      <3>6. CASE p = 2
        <4>1. <<desc.height, (desc.height + 1) \div 2>>[p] = Half(h)
              BY <2>1, <3>6 DEF Half
        <4>2. GetStride(m, p) = w * bpp /\ Area(meta[mapping[m].bo], p).size = two
              BY <2>1, <3>2, <3>3, <3>6
        <4>3. QED
              BY <2>2, <4>1, <4>2
      <3>7. QED
            BY <3>4, <3>5, <3>6
    <2>6. ASSUME NEW b \in bos, NEW p \in Planes(meta[b])
          PROVE  /\ Area(meta[b], p).from + Area(meta[b], p).size <= buffer.size
                 /\ \A q \in Planes(meta[b]) \ {p} : Apart(Area(meta[b], p), Area(meta[b], q))
      <3>1. meta[b] = d
            BY <2>3
      <3>2. p \in 1..2
            BY <2>4, <3>1
      <3>3. /\ Area(d, 1).from = 0 /\ Area(d, 1).size = one
            /\ Area(d, 2).from = one /\ Area(d, 2).size = two
            BY <2>1
      <3>4. Area(d, p).from + Area(d, p).size <= buffer.size
            BY <2>1, <2>2, <3>2, <3>3
      <3>5. ASSUME NEW q \in 1..2, q # p PROVE Apart(Area(d, p), Area(d, q))
            BY <2>2, <3>2, <3>3, <3>5 DEF Apart
      <3>6. QED
            BY <2>4, <3>1, <3>4, <3>5
    <2>7. QED
          BY <2>3, <2>5, <2>6 DEF GbmBuffersAreMapped
  <1>2. QED
        BY OwnInit, OwnStep, CountInit, CountStep, ImportInit, BufferStep, ImportStep, <1>1, PTL
        DEF Spec
================================================================================
