-------------------------- MODULE ObjectTracker_proofs --------------------------
(***************************************************************************)
(* Proofs about ObjectTracker for every set of threads and objects and     *)
(* every size of the id type.                                              *)
(***************************************************************************)
EXTENDS ObjectTracker, TLAPS

USE MaxIdAssumption, NullAssumption DEF Ids, NoId

--------------------------------------------------------------------------------

LEMMA TrackerInit == Init => TrackerInv
  BY DEF Init, TrackerInv, TypeOK, MutexInv, UniqueIds, CursorInv, CreatedInv,
         ArgInv, DeathInv, InvalidIdNeverReturned, Live, InVector, Pcs

\* Every step keeps the variables in their types.
LEMMA TypeStep == TypeOK /\ CursorInv /\ [Next]_vars => TypeOK'
  <1> SUFFICES ASSUME TypeOK, CursorInv, [Next]_vars PROVE TypeOK'
      OBVIOUS
  <1> USE DEF TypeOK, Pcs, InVector, Goto
  <1>1. ASSUME NEW t \in Threads, CreateObject(t) PROVE TypeOK'
        BY <1>1 DEF CreateObject, Lock
  <1>2. ASSUME NEW t \in Threads, NEW o \in Objects, ConstructObject(t, o) PROVE TypeOK'
        BY <1>2 DEF ConstructObject
  <1>3. ASSUME NEW t \in Threads, NextId(t) PROVE TypeOK'
        BY <1>3 DEF NextId, IdsLeft, Advanced
  <1>4. ASSUME NEW t \in Threads, Exhausted(t) PROVE TypeOK'
        BY <1>4 DEF Exhausted
  <1>5. ASSUME NEW t \in Threads, CreateReturn(t) PROVE TypeOK'
    <2>1. handle' \in [Objects -> Ids \cup {NoId}]
          BY <1>5 DEF CreateReturn
    <2>2. QED
          BY <1>5, <2>1 DEF CreateReturn, Unlock
  <1>6. ASSUME NEW t \in Threads, NEW o \in Objects, CallGetObject(t, o) PROVE TypeOK'
        BY <1>6 DEF CallGetObject
  <1>7. ASSUME NEW t \in Threads, GetObject(t) PROVE TypeOK'
        BY <1>7 DEF GetObject, Find
  <1>8. ASSUME NEW t \in Threads, DropReference(t) PROVE TypeOK'
        BY <1>8 DEF DropReference
  <1>9. ASSUME NEW t \in Threads, NEW o \in Objects, CallDestroyObject(t, o) PROVE TypeOK'
        BY <1>9 DEF CallDestroyObject
  <1>10. ASSUME NEW t \in Threads, DestroyObject(t) PROVE TypeOK'
        BY <1>10 DEF DestroyObject, Lock, Find
  <1>11. ASSUME NEW t \in Threads, LowerNextId(t) PROVE TypeOK'
        BY <1>11 DEF LowerNextId, Unlock, Lowered, CursorInv
  <1>12. ASSUME NEW t \in Threads, NotFound(t) PROVE TypeOK'
        BY <1>12 DEF NotFound
  <1>13. CASE UNCHANGED vars
        BY <1>13 DEF vars
  <1>14. QED
        BY <1>1, <1>2, <1>3, <1>4, <1>5, <1>6, <1>7, <1>8, <1>9, <1>10, <1>11, <1>12, <1>13
        DEF Next, Step, Critical

\* The mutex is owned by the one thread whose pc is inside a method.
LEMMA MutexStep == TypeOK /\ MutexInv /\ [Next]_vars => MutexInv'
  <1> SUFFICES ASSUME TypeOK, MutexInv, [Next]_vars PROVE MutexInv'
      OBVIOUS
  <1> USE DEF TypeOK, MutexInv, InVector, Goto
  <1>1. ASSUME NEW t \in Threads, CreateObject(t) PROVE MutexInv'
        BY <1>1 DEF CreateObject, Lock
  <1>2. ASSUME NEW t \in Threads, NEW o \in Objects, ConstructObject(t, o) PROVE MutexInv'
        BY <1>2 DEF ConstructObject
  <1>3. ASSUME NEW t \in Threads, NextId(t) PROVE MutexInv'
        BY <1>3 DEF NextId
  <1>4. ASSUME NEW t \in Threads, Exhausted(t) PROVE MutexInv'
        BY <1>4 DEF Exhausted
  <1>5. ASSUME NEW t \in Threads, CreateReturn(t) PROVE MutexInv'
        BY <1>5 DEF CreateReturn, Unlock
  <1>6. ASSUME NEW t \in Threads, NEW o \in Objects, CallGetObject(t, o) PROVE MutexInv'
        BY <1>6 DEF CallGetObject
  <1>7. ASSUME NEW t \in Threads, GetObject(t) PROVE MutexInv'
        BY <1>7 DEF GetObject
  <1>8. ASSUME NEW t \in Threads, DropReference(t) PROVE MutexInv'
        BY <1>8 DEF DropReference
  <1>9. ASSUME NEW t \in Threads, NEW o \in Objects, CallDestroyObject(t, o) PROVE MutexInv'
        BY <1>9 DEF CallDestroyObject
  <1>10. ASSUME NEW t \in Threads, DestroyObject(t) PROVE MutexInv'
        BY <1>10 DEF DestroyObject, Lock
  <1>11. ASSUME NEW t \in Threads, LowerNextId(t) PROVE MutexInv'
        BY <1>11 DEF LowerNextId, Unlock
  <1>12. ASSUME NEW t \in Threads, NotFound(t) PROVE MutexInv'
        BY <1>12 DEF NotFound
  <1>13. CASE UNCHANGED vars
        BY <1>13 DEF vars
  <1>14. QED
        BY <1>1, <1>2, <1>3, <1>4, <1>5, <1>6, <1>7, <1>8, <1>9, <1>10, <1>11, <1>12, <1>13
        DEF Next, Step, Critical

\* The parts of the invariant that relate the vector and next_id_.
VectorInv == UniqueIds /\ CursorInv /\ CreatedInv /\ ArgInv /\ DeathInv /\ InvalidIdNeverReturned

LEMMA VectorStep == TrackerInv /\ [Next]_vars => VectorInv'
  <1> SUFFICES ASSUME TrackerInv, [Next]_vars PROVE VectorInv'
      OBVIOUS
  <1>0. TypeOK /\ MutexInv /\ VectorInv
        BY DEF TrackerInv, VectorInv
  <1> USE DEF TypeOK, MutexInv, VectorInv, InVector, Goto
  <1>1. ASSUME NEW t \in Threads, CreateObject(t) PROVE VectorInv'
        BY <1>0, <1>1 DEF CreateObject, Lock, UniqueIds, CursorInv, CreatedInv,
           ArgInv, DeathInv, InvalidIdNeverReturned, Live
  <1>2. ASSUME NEW t \in Threads, NEW o \in Objects, ConstructObject(t, o) PROVE VectorInv'
    <2>1. ~Live(next_id_) /\ \A u \in Threads : u # t => pc[u] \notin InVector
          BY <1>0, <1>2 DEF ConstructObject, CursorInv
    <2>2. objects_[o] = NoId /\ objects_' = [objects_ EXCEPT ![o] = next_id_]
          BY <1>2 DEF ConstructObject, Unused
    <2>3. UniqueIds'
          BY <1>0, <2>1, <2>2 DEF UniqueIds, Live
    <2>4. Live(next_id_)' /\ \A i \in Ids : Live(i) => Live(i)'
          BY <1>0, <1>2, <2>2 DEF ConstructObject, Live
    <2>5. CursorInv'
          BY <1>0, <1>2, <2>1, <2>4 DEF ConstructObject, CursorInv
    <2>6. CreatedInv'
          BY <1>0, <1>2, <2>1, <2>2 DEF ConstructObject, CreatedInv
    <2>7. QED
          BY <1>0, <1>2, <2>3, <2>5, <2>6 DEF ConstructObject, ArgInv, DeathInv, InvalidIdNeverReturned
  <1>3. ASSUME NEW t \in Threads, NextId(t) PROVE VectorInv'
    <2>1. /\ \A u \in Threads : u # t => pc[u] \notin InVector
          /\ next_id_' = next_id_ + 1 /\ next_id_ < MaxId
          /\ Live(next_id_)
          BY <1>0, <1>3 DEF NextId, IdsLeft, Advanced, CursorInv
    <2>2. \A i : Live(i)' <=> Live(i)
          BY <1>3 DEF NextId, Live
    <2>3. CursorInv'
      <3>1. \A i \in 0..(next_id_' - 1) : Live(i)
            BY <1>0, <1>3, <2>1 DEF NextId, CursorInv
      <3>2. pc'[t] = "bump" <=> Live(next_id_')
            BY <1>0, <1>3, <2>1 DEF NextId, Taken, Advanced
      <3>3. \A u \in Threads : u # t => pc'[u] \notin InVector
            BY <1>0, <1>3, <2>1 DEF NextId
      <3>4. pc'[t] # "lower"
            BY <1>0, <1>3 DEF NextId
      <3>5. QED
            BY <2>2, <3>1, <3>2, <3>3, <3>4 DEF CursorInv
    <2>4. CreatedInv'
          BY <1>0, <1>3, <2>1 DEF NextId, CreatedInv
    <2>5. QED
          BY <1>0, <1>3, <2>2, <2>3, <2>4 DEF NextId, UniqueIds, ArgInv, DeathInv, InvalidIdNeverReturned
  <1>4. ASSUME NEW t \in Threads, Exhausted(t) PROVE VectorInv'
    <2>1. next_id_ = MaxId /\ \A u \in Threads : u # t => pc[u] \notin InVector
          BY <1>0, <1>4 DEF Exhausted, IdsLeft
    <2>2. \A i \in Ids : Live(i)
          BY <1>0, <1>4, <2>1 DEF Exhausted, CursorInv
    <2>3. QED
          BY <1>0, <1>4, <2>2 DEF Exhausted, UniqueIds, CursorInv, CreatedInv, ArgInv, DeathInv,
             InvalidIdNeverReturned, Live
  <1>5. ASSUME NEW t \in Threads, CreateReturn(t) PROVE VectorInv'
    <2>1. \A u \in Threads : u # t => pc[u] \notin InVector
          BY <1>0, <1>5 DEF CreateReturn, Unlock
    <2>2. objects_[target[t]] \in 0..(MaxId - 1)
          BY <1>0, <1>5 DEF CreateReturn, CreatedInv
    <2>3. InvalidIdNeverReturned'
          BY <1>0, <1>5, <2>2 DEF CreateReturn, InvalidIdNeverReturned
    <2>4. QED
          BY <1>0, <1>5, <2>1, <2>3 DEF CreateReturn, UniqueIds, CursorInv, CreatedInv, ArgInv, DeathInv, Live
  <1>6. ASSUME NEW t \in Threads, NEW o \in Objects, CallGetObject(t, o) PROVE VectorInv'
        BY <1>0, <1>6 DEF CallGetObject, UniqueIds, CursorInv, CreatedInv,
           ArgInv, DeathInv, InvalidIdNeverReturned, Live
  <1>7. ASSUME NEW t \in Threads, GetObject(t) PROVE VectorInv'
        BY <1>0, <1>7 DEF GetObject, UniqueIds, CursorInv, CreatedInv,
           ArgInv, DeathInv, InvalidIdNeverReturned, Live
  <1>8. ASSUME NEW t \in Threads, DropReference(t) PROVE VectorInv'
        BY <1>0, <1>8 DEF DropReference, UniqueIds, CursorInv, CreatedInv,
           ArgInv, DeathInv, InvalidIdNeverReturned, Live
  <1>9. ASSUME NEW t \in Threads, NEW o \in Objects, CallDestroyObject(t, o) PROVE VectorInv'
        BY <1>0, <1>9 DEF CallDestroyObject, UniqueIds, CursorInv, CreatedInv,
           ArgInv, DeathInv, InvalidIdNeverReturned, Live
  <1>10. ASSUME NEW t \in Threads, DestroyObject(t) PROVE VectorInv'
    <2>1. PICK o \in Objects : objects_[o] = arg[t] /\ objects_' = [objects_ EXCEPT ![o] = NoId]
          BY <1>10 DEF DestroyObject, Find
    <2>2. \A u \in Threads : pc[u] \notin InVector
          BY <1>0, <1>10 DEF DestroyObject, Lock
    <2>3. arg[t] \in Ids /\ ~Live(next_id_)
          BY <1>0, <1>10, <2>1, <2>2 DEF DestroyObject, CursorInv, ArgInv
    <2>4. ~Live(arg[t])' /\ ~Live(next_id_)'
          BY <1>0, <1>10, <2>1, <2>3 DEF DestroyObject, UniqueIds, Live
    <2>5. \A i \in Ids : i # arg[t] /\ Live(i) => Live(i)'
          BY <1>0, <2>1 DEF Live
    <2>6. \A i \in 0..(next_id_ - 1) : Live(i)
          BY <1>0, <2>2 DEF CursorInv
    <2>7. pc'[t] = "lower" /\ \A u \in Threads : u # t => pc'[u] \notin InVector
          BY <1>0, <1>10, <2>2 DEF DestroyObject
    <2>8. CursorInv'
          BY <1>0, <1>10, <2>3, <2>4, <2>5, <2>6, <2>7 DEF DestroyObject, CursorInv
    <2>9. UniqueIds'
          BY <1>0, <2>1 DEF UniqueIds
    <2>10. CreatedInv'
          BY <2>7 DEF CreatedInv
    <2>11. InvalidIdNeverReturned'
          BY <1>0, <1>10 DEF DestroyObject, InvalidIdNeverReturned
    <2>12. QED
          BY <1>0, <1>10, <2>8, <2>9, <2>10, <2>11 DEF DestroyObject, ArgInv, DeathInv
  <1>11. ASSUME NEW t \in Threads, LowerNextId(t) PROVE VectorInv'
    <2>1. \A u \in Threads : u # t => pc[u] \notin InVector
          BY <1>0, <1>11 DEF LowerNextId, Unlock
    <2>2. arg[t] \in Ids /\ ~Live(arg[t]) /\ ~Live(next_id_)
          BY <1>0, <1>11, <2>1 DEF LowerNextId, CursorInv
    <2>3. next_id_' \in {arg[t], next_id_} /\ next_id_' <= arg[t] /\ next_id_' <= next_id_
          BY <1>0, <1>11, <2>2 DEF LowerNextId, Lowered
    <2>4. \A i \in 0..(next_id_' - 1) : Live(i)
          BY <1>0, <1>11, <2>1, <2>2, <2>3 DEF LowerNextId, CursorInv
    <2>5. \A u \in Threads : pc'[u] \notin InVector
          BY <1>0, <1>11, <2>1 DEF LowerNextId
    <2>6. \A i : Live(i)' <=> Live(i)
          BY <1>11 DEF LowerNextId, Live
    <2>7. QED
          BY <1>0, <1>11, <2>2, <2>3, <2>4, <2>5, <2>6 DEF LowerNextId, UniqueIds, CursorInv,
             CreatedInv, ArgInv, DeathInv, InvalidIdNeverReturned
  <1>12. ASSUME NEW t \in Threads, NotFound(t) PROVE VectorInv'
        BY <1>0, <1>12 DEF NotFound, UniqueIds, CursorInv, CreatedInv,
           ArgInv, DeathInv, InvalidIdNeverReturned, Live
  <1>13. CASE UNCHANGED vars
        BY <1>0, <1>13 DEF vars, UniqueIds, CursorInv, CreatedInv, ArgInv, DeathInv,
           InvalidIdNeverReturned, Live
  <1>14. QED
        BY <1>1, <1>2, <1>3, <1>4, <1>5, <1>6, <1>7, <1>8, <1>9, <1>10, <1>11, <1>12, <1>13
        DEF Next, Step, Critical

LEMMA TrackerInvariant == Spec => []TrackerInv
  <1>1. Init => TrackerInv
        BY TrackerInit
  <1>2. TrackerInv /\ [Next]_vars => TrackerInv'
        BY TypeStep, MutexStep, VectorStep DEF TrackerInv, VectorInv
  <1>3. QED
        BY <1>1, <1>2, PTL DEF Spec

\* Whatever the callers do, the variables keep their types.
THEOREM TypeCorrect == Spec => []TypeOK
  BY TrackerInvariant, PTL DEF TrackerInv

\* Whatever the callers do, in whatever order threads create and destroy, no
\* two live objects share an id.
THEOREM IdsAreUnique == Spec => []UniqueIds
  BY TrackerInvariant, PTL DEF TrackerInv

\* Whatever the callers do, next_id_ is the smallest free id whenever the mutex
\* is free: CreateObject and DestroyObject together lose no id.
THEOREM NoIdIsLost == Spec => []NextIdIsLeastFree
  <1>1. TrackerInv => NextIdIsLeastFree
    <2> SUFFICES ASSUME TrackerInv, lock_ = NoThread
                 PROVE  ~Live(next_id_) /\ \A i \in 0..(next_id_ - 1) : Live(i)
        BY DEF NextIdIsLeastFree
    <2>1. \A t \in Threads : pc[t] \notin {"bump", "lower"}
          BY DEF TrackerInv, MutexInv, InVector
    <2>2. QED
          BY <2>1 DEF TrackerInv, CursorInv
  <1>2. QED
        BY <1>1, TrackerInvariant, PTL

\* Whatever the callers do, VA_INVALID_ID is never the id of an object.
THEOREM InvalidIdIsNotUsed == Spec => []InvalidIdNeverReturned
  BY TrackerInvariant, PTL DEF TrackerInv

--------------------------------------------------------------------------------
(* For careful callers.                                                     *)

LEMMA CarefulInit == Init => CarefulInv
  BY DEF Init, CarefulInv, TargetInv, KnownInv, HandlesNameTheirObject

LEMMA CarefulStep ==
  ASSUME Careful, TrackerInv, CarefulInv, [Next]_vars
  PROVE  CarefulInv'
  <1>0. TypeOK /\ MutexInv /\ UniqueIds /\ TargetInv /\ KnownInv /\ HandlesNameTheirObject /\ died # "not found"
        BY DEF TrackerInv, CarefulInv
  <1>a. \A t \in Threads : pc[t] \notin {"idle", "construct"} => target[t] \in Objects
        BY <1>0 DEF TypeOK, TargetInv
  <1> USE <1>0, <1>a DEF TypeOK, Pcs, CarefulInv, Goto
  <1>1. ASSUME NEW t \in Threads, CreateObject(t) PROVE CarefulInv'
        BY <1>1 DEF CreateObject, TargetInv, KnownInv, HandlesNameTheirObject
  <1>2. ASSUME NEW t \in Threads, NEW o \in Objects, ConstructObject(t, o) PROVE CarefulInv'
    <2>1. TargetInv'
          BY <1>2 DEF ConstructObject, Unused, TargetInv
    <2>2. KnownInv'
          BY <1>2 DEF ConstructObject, TargetInv, KnownInv
    <2>3. QED
          BY <1>2, <2>1, <2>2 DEF ConstructObject, Unused, HandlesNameTheirObject
  <1>3. ASSUME NEW t \in Threads, NextId(t) PROVE CarefulInv'
        BY <1>3 DEF NextId, TargetInv, KnownInv, HandlesNameTheirObject
  <1>4. ASSUME NEW t \in Threads, Exhausted(t) PROVE CarefulInv'
        BY <1>4 DEF Exhausted, TargetInv, KnownInv, HandlesNameTheirObject
  <1>5. ASSUME NEW t \in Threads, CreateReturn(t) PROVE CarefulInv'
    <2>1. TargetInv'
          BY <1>5 DEF CreateReturn, TargetInv
    <2>2. KnownInv'
          BY <1>5 DEF CreateReturn, KnownInv
    <2>3. QED
          BY <1>5, <2>1, <2>2 DEF CreateReturn, HandlesNameTheirObject
  <1>6. ASSUME NEW t \in Threads, NEW o \in Objects, CallGetObject(t, o) PROVE CarefulInv'
    <2>1. \A u \in Threads : pc[u] \in {"bump", "return", "destroy", "lower"} => target[u] # o
          BY <1>6 DEF CallGetObject, TargetInv
    <2>2. TargetInv'
          BY <1>6, <2>1 DEF CallGetObject, TargetInv
    <2>3. QED
          BY <1>6, <2>2 DEF CallGetObject, KnownInv, HandlesNameTheirObject
  <1>7. ASSUME NEW t \in Threads, GetObject(t) PROVE CarefulInv'
    <2>1. target' = target
          BY <1>7 DEF GetObject, Find, TargetInv, HandlesNameTheirObject, UniqueIds
    <2>2. QED
          BY <1>7, <2>1 DEF GetObject, TargetInv, KnownInv, HandlesNameTheirObject
  <1>8. ASSUME NEW t \in Threads, DropReference(t) PROVE CarefulInv'
        BY <1>8 DEF DropReference, TargetInv, KnownInv, HandlesNameTheirObject
  <1>9. ASSUME NEW t \in Threads, NEW o \in Objects, CallDestroyObject(t, o) PROVE CarefulInv'
    <2>1. TargetInv'
          BY <1>9 DEF CallDestroyObject, TargetInv
    <2>2. QED
          BY <1>9, <2>1 DEF CallDestroyObject, KnownInv, HandlesNameTheirObject
  <1>10. ASSUME NEW t \in Threads, DestroyObject(t) PROVE CarefulInv'
    <2>1. objects_' = [objects_ EXCEPT ![target[t]] = NoId]
      <3>1. PICK o \in Objects : objects_[o] = arg[t] /\ objects_' = [objects_ EXCEPT ![o] = NoId]
            BY <1>10 DEF DestroyObject, Find
      <3>2. target[t] \in Objects /\ objects_[target[t]] = arg[t] /\ arg[t] # NoId
            BY <1>10 DEF DestroyObject, TargetInv, HandlesNameTheirObject
      <3>3. o = target[t]
            BY <3>1, <3>2 DEF UniqueIds
      <3>4. QED
            BY <3>1, <3>3
    <2>2. TargetInv'
          BY <1>10, <2>1 DEF DestroyObject, TargetInv
    <2>3. KnownInv'
          BY <1>10, <2>1 DEF DestroyObject, KnownInv
    <2>4. QED
          BY <1>10, <2>1, <2>2, <2>3 DEF DestroyObject, HandlesNameTheirObject
  <1>11. ASSUME NEW t \in Threads, LowerNextId(t) PROVE CarefulInv'
        BY <1>11 DEF LowerNextId, TargetInv, KnownInv, HandlesNameTheirObject
  <1>12. ASSUME NEW t \in Threads, NotFound(t) PROVE CarefulInv'
        BY <1>12 DEF NotFound, Find, TargetInv, HandlesNameTheirObject
  <1>13. CASE UNCHANGED vars
        BY <1>13 DEF vars, TargetInv, KnownInv, HandlesNameTheirObject
  <1>14. QED
        BY <1>1, <1>2, <1>3, <1>4, <1>5, <1>6, <1>7, <1>8, <1>9, <1>10, <1>11, <1>12, <1>13
        DEF Next, Step, Critical

LEMMA CarefulInvariant == ASSUME Careful PROVE Spec => [](TrackerInv /\ CarefulInv)
  <1>1. Init => CarefulInv
        BY CarefulInit
  <1>2. TrackerInv /\ CarefulInv /\ [Next]_vars => CarefulInv'
        BY CarefulStep
  <1>3. QED
        BY <1>1, <1>2, TrackerInvariant, PTL DEF Spec

\* For careful callers, an id keeps naming the object it was returned for.
THEOREM HandlesAreStable == ASSUME Careful PROVE Spec => []HandlesNameTheirObject
  BY CarefulInvariant, PTL DEF CarefulInv

\* For careful callers, a reference GetObject returned stays valid while used.
THEOREM NoDanglingReference == ASSUME Careful PROVE Spec => []ReferencesAreLive
  <1>1. TrackerInv /\ CarefulInv => ReferencesAreLive
        BY DEF TrackerInv, TypeOK, CarefulInv, TargetInv, HandlesNameTheirObject, ReferencesAreLive
  <1>2. QED
        BY <1>1, CarefulInvariant, PTL

\* For careful callers, no CHECK fails unless the ids are used up.
THEOREM OnlyExhaustionKills == ASSUME Careful PROVE Spec => []DiesOnlyWhenFull
  <1>1. TrackerInv /\ CarefulInv => DiesOnlyWhenFull
        BY DEF TrackerInv, TypeOK, DeathInv, CarefulInv, DiesOnlyWhenFull
  <1>2. QED
        BY <1>1, CarefulInvariant, PTL

\* A step that ends a lookup is GetObject's, and std::find_if can stop at one object
\* only: the one the id was handed out for.
LEMMA LookupStep ==
  ASSUME TrackerInv, CarefulInv, [Next]_vars,
         NEW t \in Threads, pc[t] = "get", pc'[t] = "using"
  PROVE  target'[t] = target[t]
  <1> USE DEF TrackerInv, TypeOK
  <1>1. GetObject(t)
    <2> USE DEF Goto, Pcs
    <2>1. \A u \in Threads :
            /\ ~CreateObject(u) /\ ~NextId(u) /\ ~CreateReturn(u) /\ ~DropReference(u)
            /\ ~DestroyObject(u) /\ ~LowerNextId(u)
          BY DEF CreateObject, NextId, CreateReturn, DropReference, DestroyObject, LowerNextId
    <2>2. \A u \in Threads : \A o \in Objects :
            ~ConstructObject(u, o) /\ ~CallGetObject(u, o) /\ ~CallDestroyObject(u, o)
          BY DEF ConstructObject, CallGetObject, CallDestroyObject
    <2>3. \A u \in Threads : ~Exhausted(u) /\ ~NotFound(u) /\ (GetObject(u) => u = t)
          BY DEF Exhausted, NotFound, GetObject
    <2>4. ~UNCHANGED vars
          BY DEF vars
    <2>5. QED
          BY <2>1, <2>2, <2>3, <2>4 DEF Next, Step, Critical
  <1>2. PICK o \in Find(arg[t]) : target' = [target EXCEPT ![t] = o]
        BY <1>1 DEF GetObject
  <1>3. target[t] \in Objects /\ handle[target[t]] = arg[t] /\ arg[t] # NoId
        BY DEF CarefulInv, TargetInv, ArgInv, HandlesNameTheirObject
  <1>4. objects_[target[t]] = arg[t]
        BY <1>1, <1>3 DEF CarefulInv, HandlesNameTheirObject, GetObject, MutexInv
  <1>5. o = target[t]
        BY <1>2, <1>3, <1>4 DEF Find, UniqueIds
  <1>6. QED
        BY <1>2, <1>5

\* For careful callers, GetObject returns the object its id was handed out for, in
\* whatever order other threads create and destroy objects meanwhile.
THEOREM LookupsAreRight == ASSUME Careful PROVE Spec => LookupReturnsItsObject
  <1>1. TrackerInv /\ CarefulInv /\ [Next]_vars =>
          [\A t \in Threads : pc[t] = "get" /\ pc'[t] = "using" => target'[t] = target[t]]_vars
        BY LookupStep
  <1>2. QED
        BY <1>1, CarefulInvariant, PTL DEF Spec, LookupReturnsItsObject

--------------------------------------------------------------------------------
(* The tracker implements the id allocator.                                 *)

LEMMA AbstractStep ==
  ASSUME Careful, TrackerInv, CarefulInv, [Next]_vars
  PROVE  [Abstract!Next]_handle
  <1>0. TypeOK /\ MutexInv /\ UniqueIds /\ TargetInv /\ KnownInv /\ HandlesNameTheirObject
        BY DEF TrackerInv, CarefulInv
  <1>a. next_id_ \in Int /\ \A p \in Objects : handle[p] # NoId => handle[p] = objects_[p]
    <2>1. next_id_ \in Ids
          BY <1>0 DEF TypeOK
    <2>2. QED
          BY <1>0, <2>1 DEF HandlesNameTheirObject
  <1> USE DEF TypeOK, Goto
  <1>1. ASSUME NEW t \in Threads, CreateReturn(t) PROVE Abstract!Allocate(target[t])
    <2>1. PICK created \in Objects, given \in 0..(MaxId - 1) :
            /\ created = target[t] /\ given = objects_[created]
            /\ handle[created] = NoId /\ given < next_id_
          BY <1>0, <1>1 DEF CreateReturn, TargetInv, TrackerInv, CreatedInv
    <2>a. handle' = [handle EXCEPT ![created] = given]
          BY <1>1, <2>1 DEF CreateReturn
    <2>2. \A u \in Threads : u # t => pc[u] \notin InVector
          BY <1>0, <1>1 DEF CreateReturn, Unlock, MutexInv, InVector
    <2>3. \A j \in 0..(next_id_ - 1) : Live(j)
          BY <1>1, <2>2 DEF CreateReturn, TrackerInv, CursorInv, InVector
    <2>4. \A p \in Objects : p # created /\ objects_[p] # NoId => handle[p] = objects_[p]
          BY <1>0, <2>1, <2>2 DEF KnownInv, InVector
    <2>5. \A j \in 0..(given - 1) : Abstract!Taken(j)
      <3> SUFFICES ASSUME NEW j \in 0..(given - 1) PROVE Abstract!Taken(j)
          OBVIOUS
      <3>1. PICK p \in Objects : objects_[p] = j
        <4>1. j \in 0..(next_id_ - 1)
              BY <1>a, <2>1
        <4>2. QED
              BY <2>3, <4>1 DEF Live
      <3>2. p # created /\ objects_[p] # NoId
            BY <2>1, <3>1
      <3>3. QED
            BY <2>4, <3>1, <3>2 DEF Abstract!Taken
    <2>6. ~Abstract!Taken(given)
      <3> SUFFICES ASSUME NEW p \in Objects, handle[p] = given PROVE FALSE
          BY DEF Abstract!Taken
      <3>1. objects_[p] = given /\ given # NoId
            BY <1>a, <2>1
      <3>2. p = created
            BY <1>0, <2>1, <3>1 DEF UniqueIds
      <3>3. QED
            BY <2>1, <3>1, <3>2
    <2>7. QED
          BY <2>1, <2>a, <2>5, <2>6 DEF Abstract!Allocate, Abstract!LeastFree, Abstract!NoId
  <1>2. ASSUME NEW t \in Threads, DestroyObject(t) PROVE Abstract!Release(target[t])
        BY <1>0, <1>2 DEF DestroyObject, TargetInv, Abstract!Release, Abstract!NoId
  <1>3. \A t \in Threads : CreateReturn(t) \/ DestroyObject(t) => target[t] \in Objects
        BY <1>0 DEF CreateReturn, DestroyObject, TargetInv
  <1>4. ASSUME NEW t \in Threads, Step(t), ~CreateReturn(t), ~DestroyObject(t)
        PROVE  UNCHANGED handle
        BY <1>4 DEF Step, Critical, CreateObject, ConstructObject, NextId, Exhausted,
           CallGetObject, GetObject, DropReference, CallDestroyObject, LowerNextId, NotFound
  <1>5. QED
        BY <1>1, <1>2, <1>3, <1>4 DEF Next, vars, Abstract!Next

\* For careful callers, every creation and every destruction happens at one
\* instant as far as the ids tell, and gives the smallest free id.
THEOREM TrackerImplementsIdAllocator == ASSUME Careful PROVE Spec => ImplementsIdAllocator
  <1>1. Init => Abstract!Init
        BY DEF Init, Abstract!Init, Abstract!NoId
  <1>2. TrackerInv /\ CarefulInv /\ [Next]_vars => [Abstract!Next]_handle
        BY AbstractStep
  <1>3. QED
        BY <1>1, <1>2, CarefulInvariant, PTL DEF Spec, ImplementsIdAllocator, Abstract!Spec
================================================================================
