------------------------------- MODULE LRUCache -------------------------------
(***************************************************************************)
(* base::LRUCache (base/lru_cache.h): a list of key-value pairs, the most  *)
(* recently used one first, and an index from keys to nodes of that list.  *)
(* A cache is a record: ordering is the list; index maps each key to the   *)
(* node its iterator points to.  Nodes are compared by what they hold.     *)
(***************************************************************************)
EXTENDS Integers, Sequences, FiniteSets, SequencesExt

CONSTANT MaxSize  \* max_size_

NO_AUTO_EVICT == 0

Node(k, v)  == [key |-> k, value |-> v]
KeyOf(node) == node.key

Empty == [ordering |-> <<>>, index |-> <<>>]

\* A std::map: a function on the keys it has.
KeysOf(f) == DOMAIN f

\* The index without key k: index_.erase(k).
Unindex(f, k) == [j \in KeysOf(f) \ {k} |-> f[j]]

\* The index with key k: index_.emplace(k, node), which leaves a key it has alone.
Emplace(f, k, node) ==
  [j \in KeysOf(f) \cup {k} |-> IF j \in KeysOf(f) THEN f[j] ELSE node]

\* Erase(iterator): the key is taken from the node, which alone leaves the list.
EraseNode(c, node) ==
  [ordering |-> RemoveAt(c.ordering, CHOOSE i \in DOMAIN c.ordering : c.ordering[i] = node),
   index    |-> Unindex(c.index, KeyOf(node))]

\* size(), which ShrinkToSize calls, dies: CHECK(index_.size() == ordering_.size()).
SizeFails(c) == Cardinality(KeysOf(c.index)) # Len(c.ordering)

\* The iterators are the nodes: the newest first, from the back the oldest.
rbegin(c) == Last(c.ordering)

\* ShrinkToSize: erases from the back of the list, until i has come down to n.
ShrinkToSize(c, n) ==
  LET size == Len(c.ordering)
      shrunk[i \in n..size] ==
        IF i = size THEN c ELSE EraseNode(shrunk[i + 1], rbegin(shrunk[i + 1]))
  IN IF size > n THEN shrunk[n] ELSE c

\* Mutant: an existing entry of the key stays in the list.
PutWithoutErase(c, k, v) ==
  LET made == IF k \notin KeysOf(c.index) /\ MaxSize # NO_AUTO_EVICT THEN ShrinkToSize(c, MaxSize - 1) ELSE c
  IN [ordering |-> <<Node(k, v)>> \o made.ordering, index |-> Emplace(made.index, k, Node(k, v))]

Put(c, k, v) ==
  LET room == IF k \in KeysOf(c.index) THEN EraseNode(c, c.index[k])
              ELSE IF MaxSize # NO_AUTO_EVICT THEN ShrinkToSize(c, MaxSize - 1)
              ELSE c
  IN [ordering |-> <<Node(k, v)>> \o room.ordering,
      index    |-> Emplace(room.index, k, Node(k, v))]

Has(c, k)  == k \in KeysOf(c.index)
Peek(c, k) == c.index[k].value
================================================================================
