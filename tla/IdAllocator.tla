------------------------------ MODULE IdAllocator ------------------------------
(***************************************************************************)
(* What an ObjectTracker promises to the callers of the driver: it names   *)
(* live objects.  A new object gets the smallest id no live object has, an  *)
(* id names the same object until that object is destroyed, and the        *)
(* largest value of the id type (VA_INVALID_ID) is never handed out.       *)
(***************************************************************************)
EXTENDS Integers

CONSTANTS
  Objects,  \* the objects that can be allocated
  MaxId     \* std::numeric_limits<IdType>::max()

VARIABLE handle  \* the id the callers know an object by, NoId if they know none

Ids  == 0..MaxId
NoId == -1

TypeOK == handle \in [Objects -> Ids \cup {NoId}]

Init == handle = [o \in Objects |-> NoId]

Taken(i) == \E o \in Objects : handle[o] = i

LeastFree(i) == ~Taken(i) /\ \A j \in 0..(i - 1) : Taken(j)

Allocate(o) ==
  /\ handle[o] = NoId
  /\ \E i \in 0..(MaxId - 1) :
        /\ LeastFree(i)
        /\ handle' = [handle EXCEPT ![o] = i]

Release(o) ==
  /\ handle[o] # NoId
  /\ handle' = [handle EXCEPT ![o] = NoId]

Next == \E o \in Objects : Allocate(o) \/ Release(o)

Spec == Init /\ [][Next]_handle
================================================================================
