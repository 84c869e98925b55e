----------------------------- MODULE ObjectTracker -----------------------------
(***************************************************************************)
(* ObjectTracker<T> (object_tracker.h): the registry in which the driver   *)
(* keeps the objects of one kind.  Several threads call it; every public   *)
(* method runs under lock_.  CreateObject keeps the lock over the          *)
(* construction of T and the search for the next id, DestroyObject over    *)
(* the destructor of T, so both are several steps here.                    *)
(*                                                                         *)
(* An element of Objects stands for one allocation of a T.  An allocation  *)
(* can be used again once no live object and no caller refers to it.       *)
(***************************************************************************)
EXTENDS Integers

CONSTANTS
  Careful,   \* TRUE if callers never destroy an object another call is using
  Threads,   \* the threads that call the tracker
  Objects,   \* allocations of T
  MaxId,     \* std::numeric_limits<T::IdType>::max(), i.e. VA_INVALID_ID
  NoThread,  \* nobody owns lock_
  NoObject   \* a null pointer to T

ASSUME MaxIdAssumption == MaxId \in Nat
ASSUME CarefulAssumption == Careful \in BOOLEAN
ASSUME NullAssumption  == NoThread \notin Threads /\ NoObject \notin Objects

VARIABLES
  lock_,     \* the thread that owns the mutex
  objects_,  \* id of each object in the vector, NoId for one that is not in it
  next_id_,  \* the id the next object will get
  handle,    \* the id the callers know an object by
  pc,        \* where each thread is
  arg,       \* the id each thread passed to its call
  target,    \* the object each thread creates, looks up, uses or destroys
  died       \* why a CHECK ended the process, "no" while it runs

vars == <<lock_, objects_, next_id_, handle, pc, arg, target, died>>

Ids  == 0..MaxId
NoId == -1

InVector == {"construct", "bump", "return", "lower"}  \* pcs that own lock_
Pcs      == InVector \cup {"idle", "get", "using", "destroy"}

TypeOK ==
  /\ lock_ \in Threads \cup {NoThread}
  /\ objects_ \in [Objects -> Ids \cup {NoId}]
  /\ next_id_ \in Ids
  /\ handle \in [Objects -> Ids \cup {NoId}]
  /\ pc \in [Threads -> Pcs]
  /\ arg \in [Threads -> Ids \cup {NoId}]
  /\ target \in [Threads -> Objects \cup {NoObject}]
  /\ died \in {"no", "exhausted", "not found"}

Init ==
  /\ lock_ = NoThread
  /\ objects_ = [o \in Objects |-> NoId]
  /\ next_id_ = 0
  /\ handle = [o \in Objects |-> NoId]
  /\ pc = [t \in Threads |-> "idle"]
  /\ arg = [t \in Threads |-> NoId]
  /\ target = [t \in Threads |-> NoObject]
  /\ died = "no"

--------------------------------------------------------------------------------

Find(i)   == {o \in Objects : objects_[o] = i}  \* where std::find_if can stop
Live(i)   == \E o \in Objects : objects_[o] = i
Unused(o) == objects_[o] = NoId /\ handle[o] = NoId /\ \A t \in Threads : target[t] # o

Goto(t, from, to) ==
  /\ died = "no"
  /\ pc[t] = from
  /\ pc' = [pc EXCEPT ![t] = to]

Lock(t)   == lock_ = NoThread /\ lock_' = t
Unlock(t) == lock_ = t /\ lock_' = NoThread

(***************************************************************************)
(* CreateObject: construct with next_id_ and push_back; then step next_id_  *)
(* until no object has it.  The id of the last object is what the caller   *)
(* gets; the lock is released with it.  Bound: there is an allocation left *)
(* for the new object.                                                     *)
(***************************************************************************)
CreateObject(t) ==
  /\ Goto(t, "idle", "construct")
  /\ \E o \in Objects : Unused(o)
  /\ Lock(t)
  /\ UNCHANGED <<objects_, next_id_, handle, arg, target, died>>

ConstructObject(t, o) ==
  /\ Goto(t, "construct", "bump")
  /\ Unused(o)
  /\ objects_' = [objects_ EXCEPT ![o] = next_id_]
  /\ target' = [target EXCEPT ![t] = o]
  /\ UNCHANGED <<lock_, next_id_, handle, arg, died>>

\* Mutants: the search stops at the first candidate; the CHECK allows the
\* largest id; the candidate is not advanced.
NeverTaken(i) == FALSE
AlwaysIdsLeft == TRUE
SameId        == next_id_

Taken(i) == Live(i)           \* the loop goes on while an object has the id
IdsLeft  == next_id_ < MaxId  \* CHECK_LT
Advanced == next_id_ + 1

NextId(t) ==
  /\ died = "no"
  /\ pc[t] = "bump"
  /\ IdsLeft
  /\ next_id_' = Advanced
  /\ pc' = [pc EXCEPT ![t] = IF Taken(Advanced) THEN "bump" ELSE "return"]
  /\ UNCHANGED <<lock_, objects_, handle, arg, target, died>>

Exhausted(t) ==
  /\ died = "no"
  /\ pc[t] = "bump"
  /\ ~IdsLeft
  /\ died' = "exhausted"
  /\ UNCHANGED <<lock_, objects_, next_id_, handle, pc, arg, target>>

CreateReturn(t) ==
  /\ Goto(t, "return", "idle")
  /\ Unlock(t)
  /\ handle' = [handle EXCEPT ![target[t]] = objects_[target[t]]]
  /\ target' = [target EXCEPT ![t] = NoObject]
  /\ UNCHANGED <<objects_, next_id_, arg, died>>

(***************************************************************************)
(* GetObject: the lock is held for the search only; the caller goes on     *)
(* with the reference after it is released.  The caller passes an id it    *)
(* was given; a careful one, for an object that no call is destroying.     *)
(***************************************************************************)
CallGetObject(t, o) ==
  /\ Goto(t, "idle", "get")
  /\ handle[o] # NoId
  /\ Careful => \A u \in Threads : pc[u] = "destroy" => target[u] # o
  /\ arg' = [arg EXCEPT ![t] = handle[o]]
  /\ target' = [target EXCEPT ![t] = o]
  /\ UNCHANGED <<lock_, objects_, next_id_, handle, died>>

GetObject(t) ==
  /\ Goto(t, "get", "using")
  /\ lock_ = NoThread
  /\ \E o \in Find(arg[t]) : target' = [target EXCEPT ![t] = o]
  /\ UNCHANGED <<lock_, objects_, next_id_, handle, arg, died>>

DropReference(t) ==
  /\ Goto(t, "using", "idle")
  /\ target' = [target EXCEPT ![t] = NoObject]
  /\ UNCHANGED <<lock_, objects_, next_id_, handle, arg, died>>

(***************************************************************************)
(* DestroyObject: erase runs the destructor of T; then next_id_ is lowered *)
(* to the id that became free.  A careful caller destroys an object no     *)
(* other call is using.                                                    *)
(***************************************************************************)
CallDestroyObject(t, o) ==
  /\ Goto(t, "idle", "destroy")
  /\ handle[o] # NoId
  /\ Careful => \A u \in Threads : target[u] # o
  /\ arg' = [arg EXCEPT ![t] = handle[o]]
  /\ target' = [target EXCEPT ![t] = o]
  /\ UNCHANGED <<lock_, objects_, next_id_, handle, died>>

DestroyObject(t) ==
  /\ Goto(t, "destroy", "lower")
  /\ Lock(t)
  /\ \E o \in Find(arg[t]) : objects_' = [objects_ EXCEPT ![o] = NoId]
  /\ handle' = [handle EXCEPT ![target[t]] = NoId]
  /\ UNCHANGED <<next_id_, arg, target, died>>

\* Mutants: next_id_ is not lowered; it is lowered past the freed id.
NotLowered(i)    == next_id_
AlwaysLowered(i) == i

Lowered(i) == IF i < next_id_ THEN i ELSE next_id_

LowerNextId(t) ==
  /\ Goto(t, "lower", "idle")
  /\ Unlock(t)
  /\ next_id_' = Lowered(arg[t])
  /\ target' = [target EXCEPT ![t] = NoObject]
  /\ UNCHANGED <<objects_, handle, arg, died>>

\* CHECK(object != objects_.end()) in GetObject and DestroyObject.
NotFound(t) ==
  /\ died = "no"
  /\ pc[t] \in {"get", "destroy"}
  /\ lock_ = NoThread
  /\ Find(arg[t]) = {}
  /\ died' = "not found"
  /\ UNCHANGED <<lock_, objects_, next_id_, handle, pc, arg, target>>

--------------------------------------------------------------------------------

\* The steps of the methods that run with lock_ held.
Critical(t) ==
  \/ \E o \in Objects : ConstructObject(t, o)
  \/ NextId(t)
  \/ Exhausted(t)
  \/ CreateReturn(t)
  \/ LowerNextId(t)

Step(t) ==
  \/ CreateObject(t)
  \/ Critical(t)
  \/ \E o \in Objects : CallGetObject(t, o)
  \/ GetObject(t)
  \/ DropReference(t)
  \/ \E o \in Objects : CallDestroyObject(t, o)
  \/ DestroyObject(t)
  \/ NotFound(t)

Next == \E t \in Threads : Step(t)

Spec == Init /\ [][Next]_vars

\* A thread that owns the mutex does not block inside a method: it goes on.
Fairness == \A t \in Threads : WF_vars(Critical(t))

FairSpec == Spec /\ Fairness

--------------------------------------------------------------------------------

\* No two live objects have the same id, at any step of a creation: lookups
\* by id (std::find_if, object_tracker.h:65) are unambiguous.
UniqueIds ==
  \A o, p \in Objects : objects_[o] = objects_[p] /\ objects_[o] # NoId => o = p

\* While nobody is inside a method, next_id_ is the smallest id no live object
\* has: destroying and creating in any order neither leaks an id nor reuses a
\* live one (object_tracker.h:43-47 and :83 keep it together).
NextIdIsLeastFree ==
  lock_ = NoThread => ~Live(next_id_) /\ \A i \in 0..(next_id_ - 1) : Live(i)

\* An id a caller holds names the object it was returned for, until the caller
\* destroys it, whatever other threads create and destroy meanwhile.
HandlesNameTheirObject ==
  \A o \in Objects : handle[o] # NoId => handle[o] = objects_[o]

\* VA_INVALID_ID is never returned: the process ends first
\* (CHECK_LT, object_tracker.h:44).
InvalidIdNeverReturned == \A o \in Objects : handle[o] # MaxId

\* For callers that pass ids they hold, the only CHECK that can fail is the one
\* for exhaustion, and only when every id below VA_INVALID_ID is in use.
DiesOnlyWhenFull ==
  died # "no" => died = "exhausted" /\ \A i \in Ids : Live(i)

\* GetObject returns the object its id was handed out for.
LookupReturnsItsObject ==
  [][\A t \in Threads : pc[t] = "get" /\ pc'[t] = "using" => target'[t] = target[t]]_vars

\* A reference a caller uses outside the lock stays valid while it uses it.
ReferencesAreLive ==
  \A t \in Threads : pc[t] = "using" => objects_[target[t]] # NoId

\* The mutex is given back: the search for the next id ends.
LockIsReleased ==
  \A t \in Threads : lock_ = t ~> (lock_ # t \/ died # "no")

--------------------------------------------------------------------------------
(* The inductive invariant behind the properties.  The first part holds for *)
(* all callers, the second one for careful ones.                            *)

MutexInv == \A t \in Threads : pc[t] \in InVector <=> lock_ = t

\* Where next_id_ stands while it is not the smallest free id: on the id just
\* taken or on one found taken; above an id just freed.
CursorInv ==
  /\ \A i \in 0..(next_id_ - 1) :
        Live(i) \/ \E t \in Threads : pc[t] = "lower" /\ arg[t] = i
  /\ Live(next_id_) => \E t \in Threads : pc[t] = "bump"
  /\ \A t \in Threads :
        /\ pc[t] = "bump" => Live(next_id_)
        /\ pc[t] = "lower" => arg[t] \in Ids /\ ~Live(arg[t])

CreatedInv ==
  \A t \in Threads :
    /\ pc[t] \in {"bump", "return"} => target[t] \in Objects /\ objects_[target[t]] \in 0..next_id_
    /\ pc[t] = "return" => objects_[target[t]] < next_id_

ArgInv == \A t \in Threads : pc[t] \in {"get", "destroy", "lower"} => arg[t] \in Ids

DeathInv == died = "exhausted" => \A i \in Ids : Live(i)

TrackerInv ==
  /\ TypeOK
  /\ MutexInv
  /\ UniqueIds
  /\ CursorInv
  /\ CreatedInv
  /\ ArgInv
  /\ DeathInv
  /\ InvalidIdNeverReturned

\* Each thread refers to an object in the way its pc says, and no two threads
\* refer to one object that either of them creates or destroys.
TargetInv ==
  \A t \in Threads :
    /\ pc[t] \in {"idle", "construct"} <=> target[t] = NoObject
    /\ pc[t] \in {"get", "using", "destroy"} => handle[target[t]] # NoId
    /\ pc[t] \in {"get", "destroy"} => arg[t] = handle[target[t]]
    /\ pc[t] \in {"bump", "return", "lower"} => handle[target[t]] = NoId
    /\ pc[t] = "lower" => objects_[target[t]] = NoId
    /\ pc[t] \in {"bump", "return", "destroy", "lower"} =>
         \A u \in Threads : u # t => target[u] # target[t]

\* An object is in the vector under the id its callers know, unless its
\* creation has not returned yet.
KnownInv ==
  \A o \in Objects :
    objects_[o] # NoId =>
      \/ handle[o] = objects_[o]
      \/ \E t \in Threads : pc[t] \in {"bump", "return"} /\ target[t] = o

CarefulInv ==
  /\ TargetInv
  /\ KnownInv
  /\ HandlesNameTheirObject
  /\ died # "not found"

--------------------------------------------------------------------------------

Abstract == INSTANCE IdAllocator

\* The tracker implements the id allocator: callers see each creation and each
\* destruction as one step, although CreateObject and DestroyObject take several.
ImplementsIdAllocator == Abstract!Spec
================================================================================
