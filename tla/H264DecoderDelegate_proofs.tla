----------------------- MODULE H264DecoderDelegate_proofs -----------------------
(***************************************************************************)
(* What holds of H264DecoderDelegate for every finite set of buffers, every *)
(* set of surfaces and every size of the cache and of the timestamps.       *)
(*                                                                          *)
(* For callers of both kinds: the pictures of the library go back, Run      *)
(* leaves no slices, and the types.  For a VA-API user: UserInv, which says *)
(* that the buffers of a begun picture are complete and alive, that the     *)
(* cache lists the latest pictures in order, and that the pictures the      *)
(* library still holds are too recent to have left the cache.               *)
(*                                                                          *)
(* From UserInv, and from where each picture is in the library, it follows  *)
(* that the delegate implements ContextDelegate.                            *)
(***************************************************************************)
EXTENDS H264DecoderDelegate, ProofLemmas

--------------------------------------------------------------------------------
(* The operators: what OfType keeps of a list of buffers, and what Put does  *)
(* to a timestamp cache whose list and index agree.                          *)

IsFilter(kept, list, type) ==
  kept = [n \in 0..Len(list) |->
            IF n = 0 THEN <<>>
            ELSE IF list[n] \in type THEN Append(kept[n - 1], list[n]) ELSE kept[n - 1]]

\* What the recursive function in OfType is: one exists, and any filters the list.
LEMMA FilterExists ==
  ASSUME NEW S, NEW list \in Seq(S), NEW type
  PROVE  \E f : IsFilter(f, list, type)
  <1>1. PICK T : T = Seq(S)
        OBVIOUS
  <1>2. PICK N \in Nat : N = Len(list)
        OBVIOUS
  <1> DEFINE step == [p \in T \X (1..N) |->
                        IF list[p[2]] \in type THEN Append(p[1], list[p[2]]) ELSE p[1]]
  <1>3. step \in Steps(T, N)
        BY <1>1, <1>2 DEF Steps
  <1>4. <<>> \in T
        BY <1>1
  <1>5. \E f : Recursion(f, T, <<>>, N, step)
    <2> HIDE DEF step
    <2> QED BY <1>3, <1>4, RecursionOnInterval
  <1>6. PICK f : Recursion(f, T, <<>>, N, step)
        BY <1>5, Zenon
  <1>7. f \in [0..N -> T] /\ f[0] = <<>>
        BY <1>6, Zenon DEF Recursion
  <1>8. ASSUME NEW n \in 1..N
        PROVE  f[n] = IF list[n] \in type THEN Append(f[n - 1], list[n]) ELSE f[n - 1]
    <2>1. f[n] = step[<<f[n - 1], n>>]
          BY <1>6, Zenon DEF Recursion
    <2>2. <<f[n - 1], n>> \in T \X (1..N)
          BY <1>7
    <2>3. QED
          BY <2>1, <2>2
  <1> HIDE DEF step
  <1>9. ASSUME NEW n \in 0..N
        PROVE  f[n] = IF n = 0 THEN <<>>
                      ELSE IF list[n] \in type THEN Append(f[n - 1], list[n]) ELSE f[n - 1]
    <2>1. CASE n = 0
          BY <1>7, <2>1
    <2>2. CASE n \in 1..N
          BY <1>8, <2>2
    <2>3. QED
          BY <2>1, <2>2
  <1>10. f = [n \in 0..N |-> f[n]]
         BY <1>7
  <1>11. QED
         BY <1>2, <1>9, <1>10, Zenon DEF IsFilter

\* What is kept of a list over S: the members of the type.
Filters(s, S, list, type) == s \in Seq(S \cap type) /\ ToSet(s) = ToSet(list) \cap type

\* By induction on the length of what has been filtered.
LEMMA FilterFacts ==
  ASSUME NEW S, NEW list \in Seq(S), NEW type, NEW kept, IsFilter(kept, list, type)
  PROVE  Filters(kept[Len(list)], S, list, type)
  <1> DEFINE Filtered(n) ==
               /\ kept[n] \in Seq(S \cap type)
               /\ ToSet(kept[n]) = {list[i] : i \in 1..n} \cap type
             Good == {n \in Nat : n <= Len(list) => Filtered(n)}
  <1>0. Len(list) \in Nat
        OBVIOUS
  <1>a. kept[0] = <<>>
        BY <1>0 DEF IsFilter
  <1>b. ASSUME NEW n \in 1..Len(list)
        PROVE  kept[n] = IF list[n] \in type THEN Append(kept[n - 1], list[n]) ELSE kept[n - 1]
    <2>1. n \in 0..Len(list) /\ n # 0
          OBVIOUS
    <2>2. QED
          BY <2>1, Zenon DEF IsFilter
  <1>1. 0 \in Good
    <2>1. kept[0] \in Seq(S \cap type) /\ ToSet(kept[0]) = {}
          BY <1>a, SetOfEmpty
    <2>a. {list[i] : i \in 1..0} = {}
          OBVIOUS
    <2>2. QED
          BY <2>1, <2>a
  <1>2. ASSUME NEW n \in Good PROVE n + 1 \in Good
    <2> SUFFICES ASSUME n + 1 <= Len(list) PROVE Filtered(n + 1)
        OBVIOUS
    <2>1. Filtered(n)
          OBVIOUS
    <2>2. kept[n + 1] = IF list[n + 1] \in type THEN Append(kept[n], list[n + 1]) ELSE kept[n]
          BY <1>b
    <2>3. list[n + 1] \in S
          OBVIOUS
    <2>4. {list[i] : i \in 1..(n + 1)} = {list[i] : i \in 1..n} \cup {list[n + 1]}
          OBVIOUS
    <2>5. CASE list[n + 1] \in type
      <3>1. kept[n + 1] = Append(kept[n], list[n + 1])
            BY <2>2, <2>5
      <3>2. kept[n + 1] \in Seq(S \cap type)
            BY <2>1, <2>3, <2>5, <3>1
      <3>3. ToSet(kept[n + 1]) = ToSet(kept[n]) \cup {list[n + 1]}
            BY <2>1, <3>1, SetOfAppend, Zenon
      <3>4. QED
            BY <2>1, <2>4, <2>5, <3>2, <3>3
    <2>6. CASE list[n + 1] \notin type
          BY <2>1, <2>2, <2>4, <2>6
    <2>7. QED
          BY <2>5, <2>6
  <1>3. Good = Nat
    <2>1. Good \in SUBSET Nat
          OBVIOUS
    <2> HIDE DEF Good
    <2> QED BY <1>1, <1>2, <2>1, Induction
  <1>4. Filtered(Len(list))
    <2>1. Len(list) \in Good
      <3> HIDE DEF Good
      <3> QED BY <1>0, <1>3, Zenon
    <2>2. QED
          BY <1>0, <2>1
  <1>5. {list[i] : i \in 1..Len(list)} = ToSet(list)
        BY DEF ToSet
  <1>6. QED
        BY <1>4, <1>5 DEF Filters

\* OfType keeps the members of the list that are of the type.
LEMMA OfTypeFilters ==
  ASSUME NEW S, NEW list \in Seq(S), NEW type
  PROVE  /\ OfType(list, type) \in Seq(S \cap type)
         /\ ToSet(OfType(list, type)) = ToSet(list) \cap type
  <1>1. \E f : IsFilter(f, list, type)
        BY FilterExists
  <1>2. PICK kept : IsFilter(kept, list, type) /\ OfType(list, type) = kept[Len(list)]
    <2>1. PICK kept : kept = CHOOSE f : IsFilter(f, list, type)
          OBVIOUS
    <2>2. IsFilter(kept, list, type)
          BY <1>1, <2>1
    <2>3. OfType(list, type) = kept[Len(list)]
          BY <2>1, Zenon DEF OfType, IsFilter
    <2>4. QED
          BY <2>2, <2>3
  <1>3. Filters(kept[Len(list)], S, list, type)
        BY <1>2, FilterFacts
  <1>4. QED
        BY <1>2, <1>3, Zenon DEF Filters

--------------------------------------------------------------------------------
(* The timestamp cache: LRUCache with keys in Ts and values in Surfaces.      *)

Nodes == [key : Ts, value : Surfaces]

\* The list and the index of a cache agree.
CacheOK(c) ==
  /\ c.ordering \in Seq(Nodes)
  /\ Len(c.ordering) <= CacheSize
  /\ \A i, j \in 1..Len(c.ordering) : c.ordering[i].key = c.ordering[j].key => i = j
  /\ DOMAIN c.index = {c.ordering[i].key : i \in 1..Len(c.ordering)}
  /\ \A i \in 1..Len(c.ordering) : c.index[c.ordering[i].key] = c.ordering[i]

\* The cache of a new delegate agrees.
LEMMA EmptyOK == CacheOK(Cache!Empty)
  <1>1. Cache!Empty.ordering = <<>> /\ Cache!Empty.index = <<>>
        BY DEF Cache!Empty
  <1>2. DOMAIN <<>> = {} /\ 1..0 = {}
        OBVIOUS
  <1>3. QED
        BY <1>1, <1>2, CacheAssumption DEF CacheOK

\* size() finds as many keys as nodes: its CHECK never fails.
LEMMA SizeAgrees ==
  ASSUME NEW c, CacheOK(c)
  PROVE  ~Cache!SizeFails(c)
  <1>1. PICK n \in Nat : n = Len(c.ordering)
        BY DEF CacheOK
  <1>2. PICK S : S = DOMAIN c.index
        OBVIOUS
  <1> DEFINE f == [i \in 1..n |-> c.ordering[i].key]
  <1>3. f \in Bijection(1..n, S)
        BY <1>1, <1>2 DEF CacheOK, Bijection, Injection, Surjection, IsInjective
  <1>4. IsFiniteSet(1..n) /\ Cardinality(1..n) = n
        BY FS_Interval
  <1>5. Cardinality(S) = n
    <2> HIDE DEF f
    <2>1. ExistsBijection(1..n, S)
          BY <1>3 DEF ExistsBijection
    <2>2. QED
          BY <1>4, <2>1, FS_Bijection
  <1>6. QED
    <2>1. Cache!Cardinality(S) = Cardinality(S)
          BY DEF Cache!Cardinality, Cardinality
    <2>2. QED
        BY <1>1, <1>2, <1>5, <2>1, Zenon DEF Cache!SizeFails, Cache!KeysOf

\* Erasing the i-th node takes its key from the index as well.
LEMMA EraseNodeOK ==
  ASSUME NEW c, CacheOK(c), NEW i \in 1..Len(c.ordering)
  PROVE  /\ CacheOK(Cache!EraseNode(c, c.ordering[i]))
         /\ Cache!EraseNode(c, c.ordering[i]).ordering = RemoveAt(c.ordering, i)
         /\ c.ordering[i].key \notin DOMAIN Cache!EraseNode(c, c.ordering[i]).index
  <1>1. PICK list : list = c.ordering
        OBVIOUS
  <1>2. PICK index : index = c.index
        OBVIOUS
  <1>3. /\ list \in Seq(Nodes)
        /\ Len(list) \in Nat /\ Len(list) <= CacheSize
        /\ DOMAIN list = 1..Len(list)
        /\ \A a, b \in 1..Len(list) : list[a].key = list[b].key => a = b
        /\ DOMAIN index = {list[a].key : a \in 1..Len(list)}
        /\ \A a \in 1..Len(list) : index[list[a].key] = list[a]
        /\ i \in 1..Len(list)
        BY <1>1, <1>2 DEF CacheOK
  <1>4. (CHOOSE a \in DOMAIN list : list[a] = list[i]) = i
        BY <1>3
  <1>5. PICK rest : rest = RemoveAt(list, i)
        OBVIOUS
  <1>6. /\ rest \in Seq(Nodes)
        /\ Len(rest) = Len(list) - 1
        /\ \A j \in 1..(Len(list) - 1) : rest[j] = IF j < i THEN list[j] ELSE list[j + 1]
    <2>1. list \in Seq(Nodes) /\ i \in 1..Len(list)
          BY <1>3
    <2>2. /\ RemoveAt(list, i) \in Seq(Nodes)
          /\ Len(RemoveAt(list, i)) = Len(list) - 1
          /\ \A j \in 1..(Len(list) - 1) :
               RemoveAt(list, i)[j] = IF j < i THEN list[j] ELSE list[j + 1]
          BY <2>1, RemoveAtFacts
    <2>3. QED
          BY <1>5, <2>2, Zenon
  <1> DEFINE left == [k \in DOMAIN index \ {list[i].key} |-> index[k]]
  <1>7. Cache!EraseNode(c, c.ordering[i]) = [ordering |-> rest, index |-> left]
        BY <1>1, <1>2, <1>4, <1>5, Zenon
        DEF Cache!EraseNode, Cache!Unindex, Cache!KeyOf, Cache!KeysOf, Cache!RemoveAt, RemoveAt
  <1>8. \A j \in 1..Len(rest) : \E a \in 1..Len(list) : a # i /\ rest[j] = list[a]
        BY <1>3, <1>6
  <1>9. \A a \in 1..Len(list) : a # i => \E j \in 1..Len(rest) : rest[j] = list[a]
    <2> SUFFICES ASSUME NEW a \in 1..Len(list), a # i
                 PROVE  \E j \in 1..Len(rest) : rest[j] = list[a]
        OBVIOUS
    <2>1. CASE a < i
          BY <1>3, <1>6, <2>1
    <2>2. CASE a > i
      <3>1. a - 1 \in 1..Len(rest) /\ rest[a - 1] = list[a]
            BY <1>3, <1>6, <2>2
      <3>2. QED
            BY <3>1
    <2>3. QED
          BY <1>3, <2>1, <2>2
  <1>10. \A a, b \in 1..Len(rest) : rest[a].key = rest[b].key => a = b
    <2> DEFINE at(j) == IF j < i THEN j ELSE j + 1
    <2>1. \A j \in 1..Len(rest) : at(j) \in 1..Len(list) /\ rest[j] = list[at(j)]
          BY <1>3, <1>6
    <2>2. \A a, b \in 1..Len(rest) : at(a) = at(b) => a = b
          BY <1>3, <1>6
    <2> HIDE DEF at
    <2>3. QED
          BY <1>3, <2>1, <2>2
  <1>11. DOMAIN left = {rest[j].key : j \in 1..Len(rest)}
    <2>1. ASSUME NEW k \in DOMAIN left PROVE \E j \in 1..Len(rest) : k = rest[j].key
      <3>1. PICK a \in 1..Len(list) : k = list[a].key
            BY <1>3
      <3>2. a # i
            BY <3>1
      <3>3. QED
            BY <1>9, <3>1, <3>2
    <2>2. ASSUME NEW j \in 1..Len(rest) PROVE rest[j].key \in DOMAIN left
          BY <1>3, <1>8
    <2>3. QED
          BY <2>1, <2>2
  <1>12. \A j \in 1..Len(rest) : left[rest[j].key] = rest[j]
         BY <1>3, <1>8
  <1>13. list[i].key \notin DOMAIN left
         OBVIOUS
  <1>14. Len(rest) <= CacheSize
         BY <1>3, <1>6, CacheAssumption
  <1> HIDE DEF left
  <1>15. CacheOK([ordering |-> rest, index |-> left])
    <2>1. PICK d : d = [ordering |-> rest, index |-> left]
          OBVIOUS
    <2>2. d.ordering = rest /\ d.index = left
          BY <2>1
    <2>3. CacheOK(d)
      <3>1. d.ordering \in Seq(Nodes) /\ Len(d.ordering) <= CacheSize
            BY <1>6, <1>14, <2>2
      <3>2. \A a, b \in 1..Len(d.ordering) : d.ordering[a].key = d.ordering[b].key => a = b
            BY <1>10, <2>2, Zenon
      <3>3. DOMAIN d.index = {d.ordering[a].key : a \in 1..Len(d.ordering)}
            BY <1>11, <2>2, Zenon
      <3>4. \A a \in 1..Len(d.ordering) : d.index[d.ordering[a].key] = d.ordering[a]
            BY <1>12, <2>2, Zenon
      <3>5. QED
            BY <3>1, <3>2, <3>3, <3>4, Zenon DEF CacheOK
    <2>4. QED
          BY <2>1, <2>3
  <1>16. QED
         BY <1>1, <1>5, <1>7, <1>13, <1>15

\* A new first node.
LEMMA PushOK ==
  ASSUME NEW c, CacheOK(c), NEW k \in Ts, k \notin DOMAIN c.index, NEW v \in Surfaces,
         Len(c.ordering) < CacheSize
  PROVE  CacheOK([ordering |-> <<Cache!Node(k, v)>> \o c.ordering,
                  index    |-> Cache!Emplace(c.index, k, Cache!Node(k, v))])
  <1>1. PICK list : list = c.ordering
        OBVIOUS
  <1>2. PICK index : index = c.index
        OBVIOUS
  <1>3. /\ list \in Seq(Nodes)
        /\ Len(list) \in Nat /\ Len(list) < CacheSize
        /\ \A a, b \in 1..Len(list) : list[a].key = list[b].key => a = b
        /\ DOMAIN index = {list[a].key : a \in 1..Len(list)}
        /\ \A a \in 1..Len(list) : index[list[a].key] = list[a]
        /\ k \notin DOMAIN index
        BY <1>1, <1>2 DEF CacheOK
  <1>a. Cache!Node(k, v) \in Nodes /\ Cache!Node(k, v).key = k
        BY DEF Nodes, Cache!Node
  <1>4. PICK node \in Nodes : node = Cache!Node(k, v) /\ node.key = k
        BY <1>a, Zenon
  <1>5. PICK l2 : l2 = <<node>> \o list
        OBVIOUS
  <1>6. /\ l2 \in Seq(Nodes)
        /\ Len(l2) = Len(list) + 1
        /\ l2[1] = node
        /\ \A j \in 2..Len(l2) : l2[j] = list[j - 1]
        BY <1>3, <1>5
  <1> DEFINE i2 == [j \in DOMAIN index \cup {k} |-> IF j \in DOMAIN index THEN index[j] ELSE node]
  <1>7. Cache!Emplace(c.index, k, Cache!Node(k, v)) = i2
        BY <1>2, <1>4, Zenon DEF Cache!Emplace, Cache!KeysOf
  <1>8. \A a, b \in 1..Len(l2) : l2[a].key = l2[b].key => a = b
    <2>1. \A a \in 2..Len(l2) : a - 1 \in 1..Len(list) /\ l2[a].key = list[a - 1].key /\ l2[a].key \in DOMAIN index
          BY <1>3, <1>6
    <2>2. ASSUME NEW a \in 2..Len(l2), NEW b \in 2..Len(l2), l2[a].key = l2[b].key PROVE a = b
      <3>1. a - 1 \in 1..Len(list) /\ b - 1 \in 1..Len(list) /\ list[a - 1].key = list[b - 1].key
            BY <2>1, <2>2
      <3>2. a - 1 = b - 1
            BY <1>3, <3>1
      <3>3. QED
            BY <3>2
    <2>3. \A a \in 2..Len(l2) : l2[a].key # l2[1].key
          BY <1>3, <1>4, <1>6, <2>1
    <2>4. QED
          BY <1>3, <1>6, <2>2, <2>3
  <1>9. DOMAIN i2 = {l2[a].key : a \in 1..Len(l2)}
    <2>1. ASSUME NEW j \in DOMAIN index PROVE \E a \in 1..Len(l2) : j = l2[a].key
      <3>1. PICK a \in 1..Len(list) : j = list[a].key
            BY <1>3
      <3>2. a + 1 \in 2..Len(l2) /\ (a + 1) - 1 = a
            BY <1>3, <1>6
      <3>3. l2[a + 1].key = j
            BY <1>6, <3>1, <3>2
      <3>4. QED
            BY <3>2, <3>3
    <2>2. 1 \in 1..Len(l2) /\ l2[1].key = k
          BY <1>3, <1>4, <1>6
    <2>3. ASSUME NEW a \in 2..Len(l2) PROVE l2[a].key \in DOMAIN index
          BY <1>3, <1>6
    <2>4. {l2[a].key : a \in 1..Len(l2)} = DOMAIN index \cup {k}
      <3>1. \A a \in 1..Len(l2) : a = 1 \/ a \in 2..Len(l2)
            BY <1>3, <1>6
      <3>2. QED
            BY <2>1, <2>2, <2>3, <3>1
    <2>5. QED
          BY <2>4
  <1>10. \A a \in 1..Len(l2) : i2[l2[a].key] = l2[a]
    <2>1. i2[l2[1].key] = l2[1]
          BY <1>3, <1>4, <1>6
    <2>2. ASSUME NEW a \in 2..Len(l2) PROVE i2[l2[a].key] = l2[a]
      <3>1. a - 1 \in 1..Len(list) /\ l2[a] = list[a - 1]
            BY <1>3, <1>6
      <3>2. list[a - 1].key \in DOMAIN index /\ index[list[a - 1].key] = list[a - 1]
            BY <1>3, <3>1
      <3>3. i2[list[a - 1].key] = index[list[a - 1].key]
            BY <3>2
      <3>4. QED
            BY <3>1, <3>2, <3>3
    <2>3. \A a \in 1..Len(l2) : a = 1 \/ a \in 2..Len(l2)
          BY <1>3, <1>6
    <2> HIDE DEF i2
    <2>4. QED
          BY <2>1, <2>2, <2>3
  <1>11. Len(l2) <= CacheSize
         BY <1>3, <1>6, CacheAssumption
  <1> HIDE DEF i2
  <1>12. CacheOK([ordering |-> l2, index |-> i2])
         BY <1>6, <1>8, <1>9, <1>10, <1>11 DEF CacheOK
  <1>13. QED
         BY <1>1, <1>4, <1>5, <1>7, <1>12

\* Of a full cache the last entry goes.
LEMMA ShrinkToSizeErasesLast ==
  ASSUME NEW c, NEW n \in Nat, Len(c.ordering) = n + 1
  PROVE  Cache!ShrinkToSize(c, n) = Cache!EraseNode(c, c.ordering[n + 1])
  <1> DEFINE IsShrunk(f) ==
               f = [i \in n..Len(c.ordering) |->
                      IF i = Len(c.ordering) THEN c
                      ELSE Cache!EraseNode(f[i + 1], Cache!rbegin(f[i + 1]))]
  <1>1. \E f : IsShrunk(f)
    <2> DEFINE g == [i \in n..(n + 1) |->
                       IF i = n + 1 THEN c ELSE Cache!EraseNode(c, Cache!rbegin(c))]
    <2>1. g[n + 1] = c
          OBVIOUS
    <2>2. ASSUME NEW i \in n..(n + 1)
          PROVE  g[i] = IF i = n + 1 THEN c
                        ELSE Cache!EraseNode(g[i + 1], Cache!rbegin(g[i + 1]))
      <3>1. CASE i = n + 1
            BY <2>1, <3>1
      <3>2. CASE i = n
        <4>1. i + 1 = n + 1 /\ i # n + 1
              BY <3>2
        <4>2. g[i] = Cache!EraseNode(c, Cache!rbegin(c))
              BY <3>2
        <4>3. g[i + 1] = c
              BY <2>1, <4>1
        <4> HIDE DEF g
        <4>4. QED
              BY <4>1, <4>2, <4>3
      <3>3. QED
            BY <3>1, <3>2
    <2>3. g = [i \in n..(n + 1) |-> g[i]]
          OBVIOUS
    <2> HIDE DEF g
    <2>4. IsShrunk(g)
          BY <2>2, <2>3
    <2>5. QED
          BY <2>4
  <1> HIDE DEF IsShrunk
  <1>2. PICK f : f = CHOOSE h : IsShrunk(h)
        OBVIOUS
  <1>3. IsShrunk(f)
        BY <1>1, <1>2
  <1>4. f[n + 1] = c
        BY <1>3 DEF IsShrunk
  <1>5. f[n] = Cache!EraseNode(c, Cache!rbegin(c))
    <2>1. n \in n..(n + 1) /\ n # n + 1
          OBVIOUS
    <2>2. f[n] = Cache!EraseNode(f[n + 1], Cache!rbegin(f[n + 1]))
          BY <1>3, <2>1, Zenon DEF IsShrunk
    <2>3. QED
          BY <1>4, <2>2, Zenon
  <1>6. Cache!rbegin(c) = c.ordering[n + 1]
        BY DEF Cache!rbegin, Cache!Last
  <1>7. Cache!ShrinkToSize(c, n) = f[n]
    <2>1. n + 1 > n
          OBVIOUS
    <2>2. Cache!ShrinkToSize(c, n) =
            IF Len(c.ordering) > n THEN (CHOOSE h : IsShrunk(h))[n] ELSE c
          BY Zenon DEF Cache!ShrinkToSize, IsShrunk
    <2>3. QED
          BY <1>2, <2>1, <2>2, Zenon
  <1>8. QED
        BY <1>5, <1>6, <1>7

\* The entries after the first stay where they are, or move up one.
KeepPlaces(before, after) ==
  /\ Len(after) = Len(before)
  /\ \A i \in 2..Len(after) : after[i] = before[i]

MoveUp(before, after) ==
  /\ Len(after) = IF Len(before) < CacheSize THEN Len(before) + 1 ELSE CacheSize
  /\ \A i \in 2..Len(after) : i - 1 \in 1..Len(before) /\ after[i] = before[i - 1]

\* What Put does to the list: a key that is first in it keeps its place, and a new
\* one takes the place of the oldest when the cache is full.
LEMMA PutFacts ==
  ASSUME NEW c, CacheOK(c), NEW k \in Ts, NEW v \in Surfaces
  PROVE  /\ CacheOK(Cache!Put(c, k, v))
         /\ Len(Cache!Put(c, k, v).ordering) >= 1
         /\ Cache!Put(c, k, v).ordering[1] = [key |-> k, value |-> v]
         /\ c.ordering # <<>> /\ k = c.ordering[1].key =>
              KeepPlaces(c.ordering, Cache!Put(c, k, v).ordering)
         /\ k \notin DOMAIN c.index => MoveUp(c.ordering, Cache!Put(c, k, v).ordering)
  <1>0. /\ c.ordering \in Seq(Nodes) /\ Len(c.ordering) \in Nat /\ Len(c.ordering) <= CacheSize
        /\ CacheSize \in Nat \ {0}
        BY CacheAssumption DEF CacheOK
  <1> DEFINE Pushed(room) == [ordering |-> <<Cache!Node(k, v)>> \o room.ordering,
                              index    |-> Cache!Emplace(room.index, k, Cache!Node(k, v))]
  <1>a. ASSUME NEW room, room.ordering \in Seq(Nodes)
        PROVE  /\ Len(Pushed(room).ordering) = Len(room.ordering) + 1
               /\ Pushed(room).ordering[1] = [key |-> k, value |-> v]
               /\ \A j \in 2..(Len(room.ordering) + 1) :
                    Pushed(room).ordering[j] = room.ordering[j - 1]
    <2>1. PICK list : list = room.ordering
          OBVIOUS
    <2>2. PICK node \in Nodes : node = Cache!Node(k, v) /\ node = [key |-> k, value |-> v]
          BY DEF Cache!Node, Nodes
    <2>3. PICK l2 : l2 = <<node>> \o list
          OBVIOUS
    <2>4. Pushed(room).ordering = l2
          BY <2>1, <2>2, <2>3
    <2>5. Len(l2) = Len(list) + 1 /\ l2[1] = node /\ \A j \in 2..(Len(list) + 1) : l2[j] = list[j - 1]
          BY <1>a, <2>1, <2>3
    <2> HIDE DEF Pushed
    <2>6. QED
          BY <2>1, <2>2, <2>4, <2>5
  <1>1. CASE k \in DOMAIN c.index
    <2>1. PICK i \in 1..Len(c.ordering) : c.ordering[i].key = k /\ c.index[k] = c.ordering[i]
          BY <1>1 DEF CacheOK
    <2>2. PICK room : room = Cache!EraseNode(c, c.ordering[i])
          OBVIOUS
    <2>3. Cache!Put(c, k, v) = Pushed(room)
          BY <1>1, <2>1, <2>2, Zenon DEF Cache!Put, Cache!KeysOf
    <2>4. CacheOK(room) /\ room.ordering = RemoveAt(c.ordering, i) /\ k \notin DOMAIN room.index
          BY <2>1, <2>2, EraseNodeOK
    <2>5. /\ room.ordering \in Seq(Nodes)
          /\ Len(room.ordering) = Len(c.ordering) - 1
          /\ \A j \in 1..(Len(c.ordering) - 1) :
               room.ordering[j] = IF j < i THEN c.ordering[j] ELSE c.ordering[j + 1]
      <3>1. /\ RemoveAt(c.ordering, i) \in Seq(Nodes)
            /\ Len(RemoveAt(c.ordering, i)) = Len(c.ordering) - 1
            /\ \A j \in 1..(Len(c.ordering) - 1) :
                 RemoveAt(c.ordering, i)[j] = IF j < i THEN c.ordering[j] ELSE c.ordering[j + 1]
            BY <1>0, RemoveAtFacts
      <3>2. QED
            BY <2>4, <3>1, Zenon
    <2>6. CacheOK(Pushed(room))
      <3>1. Len(room.ordering) < CacheSize
            BY <1>0, <2>5
      <3>2. QED
            BY <2>4, <3>1, PushOK
    <2>7. c.ordering # <<>> /\ k = c.ordering[1].key => i = 1
          BY <1>0, <2>1 DEF CacheOK
    <2>8. PICK p : p = Pushed(room)
          OBVIOUS
    <2>9. /\ Len(p.ordering) = Len(c.ordering)
          /\ p.ordering[1] = [key |-> k, value |-> v]
          /\ \A j \in 2..Len(c.ordering) : p.ordering[j] = room.ordering[j - 1]
          BY <1>a, <1>0, <2>5, <2>8
    <2>10. i = 1 => \A j \in 2..Len(c.ordering) : p.ordering[j] = c.ordering[j]
           BY <1>0, <2>5, <2>9
    <2> HIDE DEF Pushed
    <2>11. QED
           BY <1>0, <1>1, <2>1, <2>3, <2>6, <2>7, <2>8, <2>9, <2>10 DEF KeepPlaces
  <1>2. CASE k \notin DOMAIN c.index
    <2> DEFINE room == Cache!ShrinkToSize(c, CacheSize - 1)
    <2>1. Cache!Put(c, k, v) = Pushed(room)
      <3>1. CacheSize # 0
            BY <1>0
      <3>2. QED
            BY <1>2, <3>1, Zenon DEF Cache!Put, Cache!KeysOf, Cache!NO_AUTO_EVICT
    <2>2. /\ CacheOK(room) /\ k \notin DOMAIN room.index
          /\ Len(room.ordering) =
               IF Len(c.ordering) < CacheSize THEN Len(c.ordering) ELSE CacheSize - 1
          /\ \A j \in 1..Len(room.ordering) : room.ordering[j] = c.ordering[j]
      <3>1. CASE Len(c.ordering) < CacheSize
        <4>1. ~(Len(c.ordering) > CacheSize - 1)
              BY <1>0, <3>1
        <4>2. room = c
              BY <4>1, Zenon DEF Cache!ShrinkToSize
        <4>3. QED
              BY <1>2, <3>1, <4>2
      <3>2. CASE Len(c.ordering) = CacheSize
        <4>1. CacheSize - 1 \in Nat /\ (CacheSize - 1) + 1 = CacheSize
              BY <1>0
        <4>2. room = Cache!EraseNode(c, c.ordering[CacheSize])
              BY <3>2, <4>1, ShrinkToSizeErasesLast
        <4>3. CacheSize \in 1..Len(c.ordering)
              BY <1>0, <3>2
        <4>4. CacheOK(room) /\ room.ordering = RemoveAt(c.ordering, CacheSize)
              BY <4>2, <4>3, EraseNodeOK
        <4>5. /\ RemoveAt(c.ordering, CacheSize) \in Seq(Nodes)
              /\ Len(RemoveAt(c.ordering, CacheSize)) = Len(c.ordering) - 1
              /\ \A j \in 1..(Len(c.ordering) - 1) :
                   RemoveAt(c.ordering, CacheSize)[j] =
                     IF j < CacheSize THEN c.ordering[j] ELSE c.ordering[j + 1]
              BY <1>0, <4>3, RemoveAtFacts
        <4>6. /\ Len(room.ordering) = CacheSize - 1
              /\ \A j \in 1..(CacheSize - 1) : room.ordering[j] = c.ordering[j]
          <5> HIDE DEF room
          <5> QED BY <1>0, <3>2, <4>4, <4>5
        <4>7. k \notin DOMAIN room.index
          <5> HIDE DEF room
          <5> QED BY <1>0, <1>2, <3>2, <4>4, <4>6 DEF CacheOK
        <4>8. QED
              BY <3>2, <4>4, <4>6, <4>7
      <3>3. QED
            BY <1>0, <3>1, <3>2
    <2> HIDE DEF room
    <2>3. room.ordering \in Seq(Nodes) /\ Len(room.ordering) \in Nat
          BY <2>2 DEF CacheOK
    <2>4. CacheOK(Pushed(room))
      <3>1. Len(room.ordering) < CacheSize
            BY <1>0, <2>2
      <3>2. QED
            BY <2>2, <3>1, PushOK
    <2>5. PICK p : p = Pushed(room)
          OBVIOUS
    <2>6. /\ Len(p.ordering) = Len(room.ordering) + 1
          /\ p.ordering[1] = [key |-> k, value |-> v]
          /\ \A j \in 2..(Len(room.ordering) + 1) : p.ordering[j] = room.ordering[j - 1]
          BY <1>a, <2>3, <2>5
    <2>7. \A j \in 2..Len(p.ordering) :
            j - 1 \in 1..Len(c.ordering) /\ p.ordering[j] = c.ordering[j - 1]
      <3>1. ASSUME NEW j \in 2..Len(p.ordering)
            PROVE  j - 1 \in 1..Len(c.ordering) /\ p.ordering[j] = c.ordering[j - 1]
        <4>1. j \in 2..(Len(room.ordering) + 1) /\ j - 1 \in 1..Len(room.ordering)
              BY <2>3, <2>6
        <4>2. p.ordering[j] = room.ordering[j - 1]
              BY <2>6, <4>1
        <4>3. room.ordering[j - 1] = c.ordering[j - 1] /\ j - 1 \in 1..Len(c.ordering)
              BY <1>0, <2>2, <4>1
        <4>4. QED
              BY <4>2, <4>3
      <3>2. QED
            BY <3>1
    <2>8. Len(p.ordering) = IF Len(c.ordering) < CacheSize THEN Len(c.ordering) + 1 ELSE CacheSize
          BY <1>0, <2>2, <2>6
    <2>9. c.ordering # <<>> => k # c.ordering[1].key
          BY <1>0, <1>2 DEF CacheOK
    <2> HIDE DEF Pushed
    <2>10. QED
           BY <1>0, <1>2, <2>1, <2>3, <2>4, <2>5, <2>6, <2>7, <2>8, <2>9 DEF MoveUp
  <1>3. QED
        BY <1>1, <1>2

--------------------------------------------------------------------------------
(* The state.                                                                *)


HwFields == {"headers", "dpb", "held", "ready", "out", "flushed", "repeats"}

\* At most the picture of the loop is out, and only while the loop uses it.  The
\* invariant says it for every pc, where PicturesAreGivenBack leaves out "next".
PicturesInv ==
  /\ hw = [f \in HwFields |-> hw[f]]
  /\ pc # "frame" => hw.out = {}
  /\ pc = "frame" => hw.out \subseteq {picture}

\* If the library never answers DEC_FLUSHED, the picture of the loop is out.
FetchedInv ==
  /\ ~hw.flushed
  /\ pc = "frame" => picture \in hw.out

--------------------------------------------------------------------------------

\* No picture is out, and nothing is flushed, before the first Run.
LEMMA PicturesInit == Init => PicturesInv /\ FetchedInv
  BY DEF Init, HwInit, HwFields, PicturesInv, FetchedInv

\* Every step keeps it: a picture is out between PicRdy and PictureConsumed.
LEMMA PicturesStep == PicturesInv /\ [Next]_vars => PicturesInv'
  <1> SUFFICES ASSUME PicturesInv, [Next]_vars PROVE PicturesInv'
      OBVIOUS
  <1> USE DEF PicturesInv, HwFields
  <1>1. ASSUME NEW surface \in Surfaces, SetRenderTarget(surface) PROVE PicturesInv'
        BY <1>1 DEF SetRenderTarget, runVars
  <1>2. ASSUME NEW list, EnqueueWork(list) PROVE PicturesInv'
        BY <1>2 DEF EnqueueWork, runVars
  <1>3. ASSUME NEW b \in Buffers, DestroyBuffer(b) \/ CreateBuffer(b) PROVE PicturesInv'
        BY <1>3 DEF DestroyBuffer, CreateBuffer, runVars
  <1>4. CASE RunDies
        BY <1>4 DEF RunDies, runVars
  <1>5. CASE Run
        BY <1>5 DEF Run, CallRun, Idle
  <1>6. CASE Recreate
        BY <1>6 DEF Recreate, Idle, HwInit, runVars
  <1>7. CASE HdrsRdy
        BY <1>7 DEF HdrsRdy, Answer
  <1>8. CASE WaitingForBuffer
        BY <1>8 DEF WaitingForBuffer, Answer
  <1>9. CASE DecOk
        BY <1>9 DEF DecOk, Answer
  <1>10. CASE PicDecoded
        BY <1>10 DEF PicDecoded, Answer, MakeReady
  <1>11. CASE PendingFlush
        BY <1>11 DEF PendingFlush, Answer, MakeReady
  <1>12. CASE StrmProcessed \/ NoParameterSets \/ Error \/ StreamNotSupported
        BY <1>12 DEF StrmProcessed, NoParameterSets, Error, StreamNotSupported, OtherStatus, Answer
  <1>13. CASE PicRdy
        BY <1>13 DEF PicRdy, Draining
  <1>14. CASE Flushed
        BY <1>14 DEF Flushed, Draining
  <1>15. CASE NoMorePictures
        BY <1>15 DEF NoMorePictures, Draining
  <1>16. CASE PictureConsumed
        BY <1>16 DEF PictureConsumed, Draining, GivenBack
  <1>17. CASE RunReturns
        BY <1>17 DEF RunReturns, Aborted
  <1>18. CASE UNCHANGED vars
        BY <1>18 DEF vars, runVars
  <1>19. QED
        BY <1>1, <1>2, <1>3, <1>4, <1>5, <1>6, <1>7, <1>8, <1>9, <1>10, <1>11, <1>12, <1>13,
           <1>14, <1>15, <1>16, <1>17, <1>18
        DEF Next, Inside

\* PicturesAreGivenBack for every library, cache and caller: whenever the decoder
\* is called or Run returns, each picture that the loop over H264DecNextPicture
\* fetched has gone back with H264DecPictureConsumed.
THEOREM PicturesAreGivenBackTheorem == Spec => []PicturesAreGivenBack
  <1>1. Init => PicturesInv
        BY PicturesInit
  <1>2. PicturesInv /\ [Next]_vars => PicturesInv'
        BY PicturesStep
  <1>3. PicturesInv => PicturesAreGivenBack
        BY DEF PicturesInv, PicturesAreGivenBack
  <1>4. QED
        BY <1>1, <1>2, <1>3, PTL DEF Spec

\* Without "flushed" in Oddities no answer sets hw.flushed, so the loop goes on only
\* with a picture it was given.
LEMMA FetchedStep ==
  ASSUME "flushed" \notin Oddities
  PROVE  PicturesInv /\ FetchedInv /\ [Next]_vars => FetchedInv'
  <1> SUFFICES ASSUME PicturesInv, FetchedInv, [Next]_vars PROVE FetchedInv'
      OBVIOUS
  <1> USE DEF PicturesInv, FetchedInv, HwFields
  <1>1. ASSUME NEW surface \in Surfaces, SetRenderTarget(surface) PROVE FetchedInv'
        BY <1>1 DEF SetRenderTarget, runVars
  <1>2. ASSUME NEW list, EnqueueWork(list) PROVE FetchedInv'
        BY <1>2 DEF EnqueueWork, runVars
  <1>3. ASSUME NEW b \in Buffers, DestroyBuffer(b) \/ CreateBuffer(b) PROVE FetchedInv'
        BY <1>3 DEF DestroyBuffer, CreateBuffer, runVars
  <1>4. CASE RunDies
        BY <1>4 DEF RunDies, runVars
  <1>5. CASE Run
        BY <1>5 DEF Run
  <1>6. CASE Recreate
        BY <1>6 DEF Recreate, Idle, HwInit, runVars
  <1>7. CASE HdrsRdy \/ WaitingForBuffer \/ DecOk
        BY <1>7 DEF HdrsRdy, WaitingForBuffer, DecOk, Answer
  <1>8. CASE PicDecoded \/ PendingFlush
    <2>1. /\ pc' = "next"
          /\ \E pictures, R : MakeReady(pictures, R)
          BY <1>8 DEF PicDecoded, PendingFlush, Answer
    <2>2. hw'.flushed = ("flushed" \in Oddities)
          BY <2>1 DEF MakeReady
    <2>3. QED
          BY <2>1, <2>2
  <1>9. CASE StrmProcessed \/ NoParameterSets \/ Error \/ StreamNotSupported
        BY <1>9 DEF StrmProcessed, NoParameterSets, Error, StreamNotSupported, OtherStatus, Answer
  <1>10. CASE PicRdy
        BY <1>10 DEF PicRdy, Draining
  <1>11. CASE Flushed
        BY <1>11 DEF Flushed
  <1>12. CASE NoMorePictures
        BY <1>12 DEF NoMorePictures, Draining
  <1>13. CASE PictureConsumed
        BY <1>13 DEF PictureConsumed, Draining
  <1>14. CASE RunReturns
        BY <1>14 DEF RunReturns, Aborted
  <1>15. CASE UNCHANGED vars
        BY <1>15 DEF vars, runVars
  <1>16. QED
        BY <1>1, <1>2, <1>3, <1>4, <1>5, <1>6, <1>7, <1>8, <1>9, <1>10, <1>11, <1>12, <1>13,
           <1>14, <1>15
        DEF Next, Inside

\* OnlyFetchedPictures holds with a library that never answers DEC_FLUSHED: that
\* answer alone makes the loop use a picture it does not have.
THEOREM OnlyFetchedPicturesTheorem ==
  ASSUME "flushed" \notin Oddities
  PROVE  Spec => []OnlyFetchedPictures
  <1>1. Init => PicturesInv /\ FetchedInv
        BY PicturesInit
  <1>2. PicturesInv /\ FetchedInv /\ [Next]_vars => (PicturesInv /\ FetchedInv)'
        BY PicturesStep, FetchedStep
  <1>3. FetchedInv => OnlyFetchedPictures
        BY DEF FetchedInv, OnlyFetchedPictures
  <1>4. QED
        BY <1>1, <1>2, <1>3, PTL DEF Spec
--------------------------------------------------------------------------------

\* RunLeavesNoSlices, whether or not the process is dying.
SlicesInv ==
  pc = "idle" /\ work = {} => slice_data_buffers_ = <<>> /\ slice_param_buffers_ = <<>>

\* A list of work is not empty, so it is in work from EnqueueWork to the end of Run.
LEMMA ListsAreNotEmpty ==
  \A buffers \in (SUBSET Buffers) \ {{}} : \A list \in SetToSeqs(buffers) : ToSet(list) # {}
  <1> TAKE buffers \in (SUBSET Buffers) \ {{}}
  <1> TAKE list \in SetToSeqs(buffers)
  <1>1. IsFiniteSet(buffers)
        BY FS_Subset, BuffersAssumption
  <1>2. Cardinality(buffers) \in Nat /\ Cardinality(buffers) # 0
        BY <1>1, FS_CardinalityType, FS_EmptySet
  <1>3. list \in [1..Cardinality(buffers) -> buffers]
        BY DEF SetToSeqs
  <1>4. 1 \in DOMAIN list
        BY <1>2, <1>3
  <1>5. QED
        BY <1>4 DEF ToSet

\* Only EnqueueWork and RunReturns touch the lists: the one makes work not empty, the
\* other empties the lists whatever the result.
LEMMA SlicesStep == SlicesInv /\ [Next]_vars => SlicesInv'
  <1> SUFFICES ASSUME SlicesInv, [Next]_vars PROVE SlicesInv'
      OBVIOUS
  <1> USE DEF SlicesInv
  <1>1. ASSUME NEW surface \in Surfaces, SetRenderTarget(surface) PROVE SlicesInv'
        BY <1>1 DEF SetRenderTarget, runVars
  <1>2. ASSUME NEW buffers \in (SUBSET Buffers) \ {{}}, NEW list \in SetToSeqs(buffers),
               EnqueueWork(list)
        PROVE  SlicesInv'
    <2>1. ToSet(list) # {}
          BY ListsAreNotEmpty
    <2>2. QED
          BY <1>2, <2>1 DEF EnqueueWork, delegateVars, runVars
  <1>3. ASSUME NEW b \in Buffers, DestroyBuffer(b) \/ CreateBuffer(b) PROVE SlicesInv'
        BY <1>3 DEF DestroyBuffer, CreateBuffer, delegateVars, runVars
  <1>4. CASE RunDies
        BY <1>4 DEF RunDies, delegateVars, runVars, callerVars
  <1>5. CASE Run
        BY <1>5 DEF Run
  <1>6. CASE Recreate
        BY <1>6 DEF Recreate, Constructed
  <1>7. CASE HdrsRdy \/ WaitingForBuffer \/ DecOk \/ PicDecoded \/ PendingFlush
        BY <1>7 DEF HdrsRdy, WaitingForBuffer, DecOk, PicDecoded, PendingFlush, Answer
  <1>8. CASE StrmProcessed \/ NoParameterSets \/ Error \/ StreamNotSupported
        BY <1>8 DEF StrmProcessed, NoParameterSets, Error, StreamNotSupported, OtherStatus, Answer
  <1>9. CASE PicRdy \/ Flushed \/ NoMorePictures \/ PictureConsumed
        BY <1>9 DEF PicRdy, Flushed, NoMorePictures, PictureConsumed, Draining
  <1>10. CASE RunReturns
        BY <1>10 DEF RunReturns, Cleared
  <1>11. CASE UNCHANGED vars
        BY <1>11 DEF vars, delegateVars, runVars, callerVars
  <1>12. QED
        BY <1>1, <1>2, <1>3, <1>4, <1>5, <1>6, <1>7, <1>8, <1>9, <1>10, <1>11 DEF Next, Inside

\* RunLeavesNoSlices for every caller and every sequence of answers, errors included:
\* the CHECK of EnqueueWork that slice_data_buffers_ is empty cannot fail because an
\* earlier Run stopped half way.
THEOREM RunLeavesNoSlicesTheorem == Spec => []RunLeavesNoSlices
  <1>1. Init => SlicesInv
        BY DEF Init, Constructed, SlicesInv
  <1>2. SlicesInv /\ [Next]_vars => SlicesInv'
        BY SlicesStep
  <1>3. SlicesInv => RunLeavesNoSlices
        BY DEF SlicesInv, RunLeavesNoSlices, Idle
  <1>4. QED
        BY <1>1, <1>2, <1>3, PTL DEF Spec

--------------------------------------------------------------------------------
(* Types, for callers of both kinds.                                         *)

HwOK ==
  /\ hw = [f \in HwFields |-> hw[f]]
  /\ hw.held \subseteq Ts /\ hw.out \subseteq Ts
  /\ hw.ready \in Seq(Ts)

\* The stream is allocated while Run is running.
TypeInv ==
  /\ TypeOK
  /\ CacheOK(ts_to_render_target_)
  /\ HwOK
  /\ stream = IF pc = "idle" THEN 0 ELSE 1

\* Timestamps.  The one before the current one is that of the picture in work.
LEMMA TsFacts ==
  /\ TsMod \in Nat /\ TsMod > 1 /\ 0 \in Ts
  /\ IsFiniteSet(Ts)
  /\ \A ts \in Ts : NextTs(ts) \in Ts
  /\ \A c \in Ts : \E ts \in Ts : NextTs(ts) = c
  <1>1. TsMod \in Nat /\ TsMod > 1 /\ 0 \in Ts
        BY CacheAssumption DEF Ts
  <1>2. IsFiniteSet(Ts)
        BY <1>1, FS_Interval DEF Ts
  <1>3. \A ts \in Ts : NextTs(ts) \in Ts
        BY <1>1 DEF Ts, NextTs
  <1>4. ASSUME NEW c \in Ts PROVE \E ts \in Ts : NextTs(ts) = c
    <2>1. CASE c = 0
      <3>1. TsMod - 1 \in Ts /\ NextTs(TsMod - 1) = 0
            BY <1>1 DEF Ts, NextTs
      <3>2. QED
            BY <2>1, <3>1
    <2>2. CASE c # 0
      <3>1. c - 1 \in Ts /\ NextTs(c - 1) = c
            BY <1>1, <2>2 DEF Ts, NextTs
      <3>2. QED
            BY <3>1
    <2>3. QED
          BY <2>1, <2>2
  <1>5. QED
        BY <1>1, <1>2, <1>3, <1>4

\* PicId is that of the picture in work once Run has taken the next timestamp.
LEMMA PicIdType ==
  /\ current_ts_ \in Ts => PicId \in Ts /\ NextTs(PicId) = current_ts_
  /\ current_ts_' \in Ts => PicId' \in Ts /\ NextTs(PicId') = current_ts_'
  <1>1. current_ts_ \in Ts => \E ts \in Ts : NextTs(ts) = current_ts_
        BY TsFacts
  <1>2. current_ts_' \in Ts => \E ts \in Ts : NextTs(ts) = current_ts_'
        BY TsFacts
  <1>3. QED
        BY <1>1, <1>2 DEF PicId

\* What EnqueueWork is given.
LEMMA ListsOfBuffers ==
  ASSUME NEW buffers \in SUBSET Buffers, NEW list \in SetToSeqs(buffers)
  PROVE  list \in Seq(Buffers) /\ ToSet(list) \subseteq buffers
  <1>1. IsFiniteSet(buffers)
        BY BuffersAssumption, FS_Subset
  <1>2. PICK n \in Nat : n = Cardinality(buffers)
        BY <1>1, FS_CardinalityType
  <1>3. list \in [1..n -> buffers]
        BY <1>2, Zenon DEF SetToSeqs
  <1>4. QED
        BY <1>3 DEF ToSet

\* Steps that do not call the library keep its state well formed.
LEMMA HwSame == HwOK /\ UNCHANGED hw => HwOK'
  BY DEF HwOK

\* LastOr is the last of the list, if there is one.
LEMMA LastOrFacts ==
  ASSUME NEW S, NEW list \in Seq(S), NEW old
  PROVE  /\ list = <<>> => LastOr(list, old) = old
         /\ list # <<>> => LastOr(list, old) \in ToSet(list) /\ LastOr(list, old) \in S
  <1>1. CASE list = <<>>
        BY <1>1 DEF LastOr
  <1>2. CASE list # <<>>
    <2>1. Len(list) \in 1..Len(list)
          BY <1>2
    <2>2. LastOr(list, old) = list[Len(list)]
          BY <1>2, Zenon DEF LastOr, Last
    <2>3. QED
          BY <2>1, <2>2 DEF ToSet
  <1>3. QED
        BY <1>1, <1>2

\* What is made ready are timestamps.
LEMMA MakeReadyType ==
  ASSUME TypeInv, NEW pictures \in SUBSET Ts, NEW R \in SUBSET pictures, MakeReady(pictures, R)
  PROVE  HwOK'
  <1>1. R \in SUBSET Ts /\ IsFiniteSet(R)
        BY TsFacts, FS_Subset
  <1>2. SetToSeq(R) \in Seq(Ts)
        BY <1>1, SetToSeqIsOnto
  <1>3. hw.ready \in Seq(Ts)
        BY DEF TypeInv, HwOK, HwFields
  <1>a. PICK made \in Seq(Ts) : made = SetToSeq(R)
        BY <1>2
  <1>b. hw.ready \o made \in Seq(Ts)
        BY <1>3
  <1>4. PICK ready \in Seq(Ts) : ready = hw.ready \o SetToSeq(R)
        BY <1>a, <1>b, Zenon
  <1>5. hw' = [hw EXCEPT !.held = pictures \ R, !.ready = ready, !.repeats = 0,
                        !.flushed = "flushed" \in Oddities]
        BY <1>4, Zenon DEF MakeReady
  <1>6. ("flushed" \in Oddities) \in BOOLEAN
        OBVIOUS
  <1>7. QED
        BY <1>1, <1>4, <1>5, <1>6 DEF TypeInv, HwOK, HwFields

\* Run allocates the stream buffer and does not call the library yet.
LEMMA RunAllocates ==
  ASSUME stream = 0, Run
  PROVE  stream' \in 0..1 /\ stream' = 1 /\ pc' = "decode" /\ UNCHANGED hw
  BY DEF Run

\* A new delegate, its cache and a new library are well formed.
LEMMA TypeInit == Init => TypeInv
  <1> SUFFICES ASSUME Init PROVE TypeInv
      OBVIOUS
  <1>1. HwOK
        BY DEF Init, HwInit, HwOK, HwFields
  <1>2. CacheOK(ts_to_render_target_)
        BY EmptyOK DEF Init, Constructed
  <1>3. TypeOK
        BY <1>1, <1>2, TsFacts DEF Init, Constructed, HwOK, HwFields, CacheOK, TypeOK
  <1>4. QED
        BY <1>1, <1>2, <1>3 DEF TypeInv, Init

\* Every step of the delegate, the library and the caller keeps the types.
LEMMA TypeStep == TypeInv /\ [Next]_vars => TypeInv'
  <1> SUFFICES ASSUME TypeInv, [Next]_vars PROVE TypeInv'
      OBVIOUS
  <1> USE DEF TypeInv, TypeOK
  <1>a. UNCHANGED hw => HwOK' /\ hw'.held \cup hw'.out \subseteq Ts
        BY HwSame DEF HwOK
  <1>1. ASSUME NEW surface \in Surfaces, SetRenderTarget(surface) PROVE TypeInv'
    <2>1. CASE PutFails(current_ts_)
          BY <1>1, <1>a, <2>1 DEF SetRenderTarget, runVars
    <2>2. CASE ~PutFails(current_ts_)
      <3>1. ts_to_render_target_' = Cache!Put(ts_to_render_target_, current_ts_, surface)
            BY <1>1, <2>2 DEF SetRenderTarget
      <3>2. CacheOK(ts_to_render_target_')
            BY <1>1, <3>1, PutFacts
      <3>3. Len(ts_to_render_target_'.ordering) <= CacheSize
            BY <3>2 DEF CacheOK
      <3>4. QED
            BY <1>1, <1>a, <2>2, <3>2, <3>3 DEF SetRenderTarget, runVars
    <2>3. QED
          BY <2>1, <2>2
  <1>2. ASSUME NEW buffers \in SUBSET Buffers, NEW list \in SetToSeqs(buffers), EnqueueWork(list)
        PROVE  TypeInv'
    <2>1. list \in Seq(Buffers) /\ ToSet(list) \subseteq Buffers
          BY ListsOfBuffers
    <2>2. CASE EnqueueFails
          BY <1>2, <1>a, <2>2 DEF EnqueueWork, delegateVars, runVars
    <2>3. CASE ~EnqueueFails
      <3>1. /\ OfType(list, SliceData) \in Seq(SliceData)
            /\ OfType(list, SliceParams) \in Seq(SliceParams)
            /\ OfType(list, PicParams) \in Seq(PicParams)
            /\ OfType(list, Matrices) \in Seq(Matrices)
        <4>1. \A type : OfType(list, type) \in Seq(Buffers \cap type)
              BY <2>1, OfTypeFilters
        <4>2. /\ Buffers \cap SliceData = SliceData /\ Buffers \cap SliceParams = SliceParams
              /\ Buffers \cap PicParams = PicParams /\ Buffers \cap Matrices = Matrices
              BY DEF Buffers
        <4>3. QED
              BY <4>1, <4>2
      <3>2. pic_param_buffer_' \in PicParams \cup {Nil}
        <4>1. LastOr(OfType(list, PicParams), pic_param_buffer_) \in PicParams \cup {Nil}
              BY <3>1, LastOrFacts
        <4>2. pic_param_buffer_' = LastOr(OfType(list, PicParams), pic_param_buffer_)
              BY <1>2, <2>3, Zenon DEF EnqueueWork
        <4>3. QED
              BY <4>1, <4>2, Zenon
      <3>3. matrix_buffer_' \in Matrices \cup {Nil}
        <4>1. LastOr(OfType(list, Matrices), matrix_buffer_) \in Matrices \cup {Nil}
              BY <3>1, LastOrFacts
        <4>2. matrix_buffer_' = LastOr(OfType(list, Matrices), matrix_buffer_)
              BY <1>2, <2>3, Zenon DEF EnqueueWork
        <4>3. QED
              BY <4>1, <4>2, Zenon
      <3>4. slice_data_buffers_' \in Seq(SliceData) /\ slice_param_buffers_' \in Seq(SliceParams)
        <4>1. PICK data \in Seq(SliceData) : data = OfType(list, SliceData)
              BY <3>1
        <4>2. PICK params \in Seq(SliceParams) : params = OfType(list, SliceParams)
              BY <3>1
        <4>3. /\ slice_data_buffers_' = slice_data_buffers_ \o data
              /\ slice_param_buffers_' = slice_param_buffers_ \o params
              BY <1>2, <2>3, <4>1, <4>2, Zenon DEF EnqueueWork
        <4>4. QED
              BY <4>1, <4>2, <4>3, SeqFacts
      <3>5. work' \subseteq Buffers
            BY <1>2, <2>1, <2>3 DEF EnqueueWork
      <3>6. QED
            BY <1>2, <1>a, <2>3, <3>2, <3>3, <3>4, <3>5 DEF EnqueueWork, runVars
    <2>4. QED
          BY <2>2, <2>3
  <1>3. ASSUME NEW b \in Buffers, DestroyBuffer(b) \/ CreateBuffer(b) PROVE TypeInv'
        BY <1>3, <1>a DEF DestroyBuffer, CreateBuffer, delegateVars, runVars
  <1>4. CASE RunDies
    <2>1. RunFailure \in {"no", "check", "dead buffer", "no slice", "order type"}
          BY DEF RunFailure
    <2>2. QED
          BY <1>4, <1>a, <2>1 DEF RunDies, delegateVars, runVars, callerVars
  <1>5. CASE Run
    <2>1. Bitstream \in Seq({"headers", "slices"})
      <3>1. \A s, t \in Seq({"headers", "slices"}) : s \o t \in Seq({"headers", "slices"})
            BY SeqFacts
      <3>2. /\ <<>> \in Seq({"headers", "slices"})
            /\ <<"headers">> \in Seq({"headers", "slices"})
            /\ <<"slices">> \in Seq({"headers", "slices"})
            BY SeqFacts
      <3>3. QED
            BY <3>1, <3>2 DEF Bitstream
    <2>2. NextTs(current_ts_) \in Ts
          BY TsFacts
    <2>3. drawn' \in [Ts -> Surfaces \cup {Nil}]
          BY <1>5 DEF Run
    <2>4. pc = "idle"
          BY <1>5 DEF Run, CallRun, Idle
    <2>5. stream' \in 0..1 /\ stream' = 1 /\ pc' = "decode" /\ UNCHANGED hw
      <3>1. stream = 0
            BY <2>4
      <3>2. QED
            BY <1>5, <3>1, RunAllocates
    <2>6. input' \in Seq({"headers", "slices"}) /\ current_ts_' \in Ts
          BY <1>5, <2>1, <2>2 DEF Run
    <2>7. /\ UNCHANGED <<slice_data_buffers_, slice_param_buffers_, pic_param_buffer_,
                         matrix_buffer_, render_target_, ts_to_render_target_, result, picture,
                         alive, work, died>>
          BY <1>5, Zenon DEF Run
    <2>8. TypeOK'
      <3>1. QED
            BY <1>a, <2>3, <2>5, <2>6, <2>7, Zenon
    <2>9. QED
          BY <1>a, <2>5, <2>7, <2>8
  <1>e. <<>> \in Seq(Ts)
        BY SeqFacts
  <1>6. CASE Recreate
    <2>1. HwOK'
          BY <1>6, <1>e DEF Recreate, HwInit, HwOK, HwFields
    <2>2. CacheOK(ts_to_render_target_')
          BY <1>6, EmptyOK DEF Recreate, Constructed
    <2>3. hw'.held \cup hw'.out \subseteq Ts /\ Len(ts_to_render_target_'.ordering) <= CacheSize
          BY <2>1, <2>2 DEF HwOK, HwFields, CacheOK
    <2>4. QED
          BY <1>6, <2>1, <2>2, <2>3, TsFacts, SeqFacts DEF Recreate, Constructed, runVars
  <1>7. CASE HdrsRdy \/ WaitingForBuffer \/ DecOk
    <2>1. HwOK'
          BY <1>7, <1>e DEF HdrsRdy, WaitingForBuffer, DecOk, HwOK, HwFields
    <2>2. hw'.held \cup hw'.out \subseteq Ts
          BY <2>1 DEF HwOK, HwFields
    <2>i. input # <<>> => Tail(input) \in Seq({"headers", "slices"})
          BY SeqFacts
    <2>3. input' \in Seq({"headers", "slices"})
          BY <1>7, <2>i DEF HdrsRdy, WaitingForBuffer, DecOk
    <2>4. QED
          BY <1>7, <2>1, <2>2, <2>3
          DEF HdrsRdy, WaitingForBuffer, DecOk, Answer, delegateVars, callerVars
  <1>8. CASE PicDecoded \/ PendingFlush
    <2>1. PICK pictures \in SUBSET Ts : \E R \in SUBSET pictures : MakeReady(pictures, R)
          BY <1>8, PicIdType DEF PicDecoded, PendingFlush
    <2>2. HwOK'
          BY <2>1, MakeReadyType
    <2>3. hw'.held \cup hw'.out \subseteq Ts
          BY <2>2 DEF HwOK, HwFields
    <2>i. input # <<>> => Tail(input) \in Seq({"headers", "slices"})
          BY SeqFacts
    <2>4. input' \in Seq({"headers", "slices"})
          BY <1>8, <2>i DEF PicDecoded, PendingFlush, CanDecode
    <2>5. QED
          BY <1>8, <2>2, <2>3, <2>4 DEF PicDecoded, PendingFlush, Answer, delegateVars, callerVars
  <1>9. CASE StrmProcessed \/ NoParameterSets \/ Error \/ StreamNotSupported
        BY <1>9, <1>a
        DEF StrmProcessed, NoParameterSets, Error, StreamNotSupported, OtherStatus, Answer,
            delegateVars, callerVars
  <1>r. hw.ready # <<>> => Head(hw.ready) \in Ts /\ Tail(hw.ready) \in Seq(Ts)
        BY SeqFacts DEF HwOK
  <1>10. CASE PicRdy \/ Flushed \/ NoMorePictures \/ PictureConsumed
    <2>1. HwOK'
      <3>1. PicRdy => HwOK'
        <4>1. ASSUME PicRdy PROVE HwOK'
          <5>1. hw.ready # <<>> /\ hw' = [hw EXCEPT !.ready = Tail(@), !.out = @ \cup {Head(hw.ready)}]
                BY <4>1 DEF PicRdy
          <5>2. Head(hw.ready) \in Ts /\ Tail(hw.ready) \in Seq(Ts)
                BY <1>r, <5>1
          <5>3. QED
                BY <5>1, <5>2 DEF HwOK, HwFields
        <4>2. QED
              BY <4>1
      <3>2. Flushed \/ PictureConsumed => HwOK'
            BY DEF Flushed, PictureConsumed, GivenBack, HwOK, HwFields
      <3>3. NoMorePictures => HwOK'
            BY <1>a DEF NoMorePictures
      <3>4. QED
            BY <1>10, <3>1, <3>2, <3>3
    <2>2. hw'.held \cup hw'.out \subseteq Ts
          BY <2>1 DEF HwOK, HwFields
    <2>3. picture' \in Ts \cup {Nil}
          BY <1>10, <1>r DEF PicRdy, Flushed, NoMorePictures, PictureConsumed, HwOK, HwFields
    <2>4. QED
          BY <1>10, <2>1, <2>2, <2>3
          DEF PicRdy, Flushed, NoMorePictures, PictureConsumed, Draining, delegateVars, callerVars
  <1>11. CASE RunReturns
    <2>1. HwOK'
          BY <1>11, <1>e DEF RunReturns, Aborted, HwOK, HwFields
    <2>2. hw'.held \cup hw'.out \subseteq Ts
          BY <2>1 DEF HwOK, HwFields
    <2>3. QED
          BY <1>11, <2>1, <2>2 DEF RunReturns, Freed, Cleared
  <1>12. CASE UNCHANGED vars
    <2>1. /\ UNCHANGED <<delegateVars, callerVars>> /\ UNCHANGED <<runVars, hw, died>>
          BY <1>12 DEF vars
    <2>2. HwOK'
          BY <1>a, <2>1
    <2>3. CacheOK(ts_to_render_target_)'
          BY <2>1 DEF delegateVars
    <2>4. TypeOK' /\ (stream = IF pc = "idle" THEN 0 ELSE 1)'
          BY <2>1 DEF delegateVars, runVars, callerVars
    <2>5. QED
          BY <2>2, <2>3, <2>4
  <1>13. QED
         BY <1>1, <1>2, <1>3, <1>4, <1>5, <1>6, <1>7, <1>8, <1>9, <1>10, <1>11, <1>12
         DEF Next, Inside

\* The delegate keeps its types whoever calls it and whatever the library answers: its
\* lists hold buffers of their own kind only, the cache no more entries than it has
\* room for, and every picture the library hands out has a timestamp that was given to it.
THEOREM TypeOKTheorem == Spec => []TypeOK
  <1>1. TypeInv => TypeOK
        BY DEF TypeInv
  <1>2. QED
        BY <1>1, TypeInit, TypeStep, PTL DEF Spec

--------------------------------------------------------------------------------
(* The buffers of the picture in work, and the calls of a VA-API user.        *)

\* The buffers of the picture in work.
BuffersInv ==
  /\ work \subseteq alive
  /\ work # {} => begun
  /\ begun => render_target_ \in Surfaces
  /\ ToSet(slice_data_buffers_) \subseteq work
  /\ ToSet(slice_param_buffers_) \subseteq work
  /\ work \cap SliceData # {} => slice_data_buffers_ # <<>>
  /\ work \cap SliceParams # {} => slice_param_buffers_ # <<>>
  /\ work \cap PicParams # {} => pic_param_buffer_ \in work

InLoop ==
  \/ HdrsRdy \/ WaitingForBuffer \/ DecOk \/ PicDecoded \/ PendingFlush
  \/ StrmProcessed \/ NoParameterSets \/ Error \/ StreamNotSupported
  \/ PicRdy \/ Flushed \/ NoMorePictures \/ PictureConsumed

\* The loop of Run changes nothing of the delegate or of the caller.
LEMMA LoopFrame ==
  ASSUME InLoop
  PROVE  /\ UNCHANGED <<delegateVars, callerVars, died, stream>>
         /\ pc # "idle" /\ pc' # "idle"
  BY DEF InLoop, HdrsRdy, WaitingForBuffer, DecOk, PicDecoded, PendingFlush, StrmProcessed,
         NoParameterSets, Error, StreamNotSupported, OtherStatus, Answer,
         PicRdy, Flushed, NoMorePictures, PictureConsumed, Draining

\* A list is empty when nothing is in it.
LEMMA NotEmpty ==
  ASSUME NEW S, NEW s \in Seq(S)
  PROVE  s = <<>> <=> ToSet(s) = {}
  <1>1. s = <<>> => ToSet(s) = {}
        BY SetOfEmpty
  <1>2. s # <<>> => ToSet(s) # {}
    <2>1. s # <<>> => 1 \in DOMAIN s
          OBVIOUS
    <2>2. QED
          BY <2>1 DEF ToSet
  <1>3. QED
        BY <1>1, <1>2

\* What EnqueueWork leaves in the delegate.
LEMMA EnqueueFacts ==
  ASSUME TypeInv, NEW buffers \in SUBSET Buffers, NEW list \in SetToSeqs(buffers),
         EnqueueWork(list), ~EnqueueFails
  PROVE  /\ ToSet(slice_data_buffers_') = ToSet(slice_data_buffers_) \cup (ToSet(list) \cap SliceData)
         /\ ToSet(slice_param_buffers_') =
              ToSet(slice_param_buffers_) \cup (ToSet(list) \cap SliceParams)
         /\ IF ToSet(list) \cap PicParams = {}
            THEN pic_param_buffer_' = pic_param_buffer_
            ELSE pic_param_buffer_' \in ToSet(list)
         /\ slice_data_buffers_' \in Seq(SliceData)
         /\ slice_param_buffers_' \in Seq(SliceParams)
  <1>1. list \in Seq(Buffers)
        BY ListsOfBuffers
  <1>2. \A type : /\ OfType(list, type) \in Seq(Buffers \cap type)
                  /\ ToSet(OfType(list, type)) = ToSet(list) \cap type
        BY <1>1, OfTypeFilters
  <1>3. /\ Buffers \cap SliceData = SliceData /\ Buffers \cap SliceParams = SliceParams
        /\ Buffers \cap PicParams = PicParams
        BY DEF Buffers
  <1>4. /\ slice_data_buffers_ \in Seq(SliceData) /\ slice_param_buffers_ \in Seq(SliceParams)
        BY DEF TypeInv, TypeOK
  <1>5. PICK data \in Seq(SliceData) : data = OfType(list, SliceData)
        BY <1>2, <1>3
  <1>6. PICK params \in Seq(SliceParams) : params = OfType(list, SliceParams)
        BY <1>2, <1>3
  <1>7. PICK pics \in Seq(PicParams) : pics = OfType(list, PicParams)
        BY <1>2, <1>3
  <1>8. /\ slice_data_buffers_' = slice_data_buffers_ \o data
        /\ slice_param_buffers_' = slice_param_buffers_ \o params
        /\ pic_param_buffer_' = LastOr(pics, pic_param_buffer_)
        BY <1>5, <1>6, <1>7, Zenon DEF EnqueueWork
  <1>9. /\ ToSet(slice_data_buffers_ \o data) = ToSet(slice_data_buffers_) \cup ToSet(data)
        /\ ToSet(slice_param_buffers_ \o params) = ToSet(slice_param_buffers_) \cup ToSet(params)
        BY <1>4, SetOfConcat
  <1>10. /\ ToSet(data) = ToSet(list) \cap SliceData
         /\ ToSet(params) = ToSet(list) \cap SliceParams
         /\ ToSet(pics) = ToSet(list) \cap PicParams
         BY <1>2, <1>5, <1>6, <1>7
  <1>11. pics = <<>> <=> ToSet(pics) = {}
         BY NotEmpty
  <1>12. /\ pics = <<>> => LastOr(pics, pic_param_buffer_) = pic_param_buffer_
         /\ pics # <<>> => LastOr(pics, pic_param_buffer_) \in ToSet(pics)
         BY LastOrFacts
  <1>13. slice_data_buffers_ \o data \in Seq(SliceData) /\ slice_param_buffers_ \o params \in Seq(SliceParams)
         BY <1>4, SeqFacts
  <1>14. ToSet(slice_data_buffers_') = ToSet(slice_data_buffers_) \cup (ToSet(list) \cap SliceData)
         BY <1>8, <1>9, <1>10, Zenon
  <1>15. ToSet(slice_param_buffers_') =
           ToSet(slice_param_buffers_) \cup (ToSet(list) \cap SliceParams)
         BY <1>8, <1>9, <1>10, Zenon
  <1>16. IF ToSet(list) \cap PicParams = {}
         THEN pic_param_buffer_' = pic_param_buffer_
         ELSE pic_param_buffer_' \in ToSet(list)
         BY <1>8, <1>10, <1>11, <1>12
  <1>17. QED
         BY <1>8, <1>13, <1>14, <1>15, <1>16

\* No picture is begun, and no buffer is in work.
LEMMA BuffersInit == Init => BuffersInv
  BY SetOfEmpty DEF Init, Constructed, BuffersInv

\* The buffers in work stay complete and alive until Run returns.
LEMMA BuffersStep ==
  ASSUME ByVaApi, TypeInv, BuffersInv, [Next]_vars
  PROVE  BuffersInv'
  <1>1. ASSUME NEW surface \in Surfaces, SetRenderTarget(surface) PROVE BuffersInv'
        BY <1>1 DEF SetRenderTarget, BuffersInv
  <1>2. ASSUME NEW buffers \in SUBSET Buffers, NEW list \in SetToSeqs(buffers), EnqueueWork(list)
        PROVE  BuffersInv'
    <2>1. CASE EnqueueFails
          BY <1>2, <2>1 DEF EnqueueWork, BuffersInv, delegateVars
    <2>2. CASE ~EnqueueFails
      <3>1. /\ ToSet(slice_data_buffers_') = ToSet(slice_data_buffers_) \cup (ToSet(list) \cap SliceData)
            /\ ToSet(slice_param_buffers_') =
                 ToSet(slice_param_buffers_) \cup (ToSet(list) \cap SliceParams)
            /\ IF ToSet(list) \cap PicParams = {}
               THEN pic_param_buffer_' = pic_param_buffer_
               ELSE pic_param_buffer_' \in ToSet(list)
            /\ slice_data_buffers_' \in Seq(SliceData)
            /\ slice_param_buffers_' \in Seq(SliceParams)
            BY <1>2, <2>2, EnqueueFacts
      <3>2. /\ slice_data_buffers_' = <<>> <=> ToSet(slice_data_buffers_') = {}
            /\ slice_param_buffers_' = <<>> <=> ToSet(slice_param_buffers_') = {}
            BY <3>1, NotEmpty
      <3>3. /\ slice_data_buffers_ = <<>> <=> ToSet(slice_data_buffers_) = {}
            /\ slice_param_buffers_ = <<>> <=> ToSet(slice_param_buffers_) = {}
            BY NotEmpty DEF TypeInv, TypeOK
      <3>4. /\ work' = work \cup ToSet(list)
            /\ ToSet(list) \subseteq alive \ work
            /\ begun
            /\ UNCHANGED <<alive, begun, render_target_>>
            BY <1>2, <2>2 DEF EnqueueWork, CallEnqueueWork
      <3>5. QED
            BY <3>1, <3>2, <3>3, <3>4 DEF BuffersInv
    <2>3. QED
          BY <2>1, <2>2
  <1>3. ASSUME NEW b \in Buffers, DestroyBuffer(b) \/ CreateBuffer(b) PROVE BuffersInv'
        BY <1>3 DEF DestroyBuffer, CreateBuffer, delegateVars, BuffersInv
  <1>4. CASE RunDies
        BY <1>4 DEF RunDies, delegateVars, callerVars, BuffersInv
  <1>5. CASE Run
        BY <1>5 DEF Run, BuffersInv
  <1>6. CASE Recreate
        BY <1>6, SetOfEmpty DEF Recreate, Constructed, BuffersInv
  <1>7. CASE InLoop
        BY <1>7, LoopFrame DEF delegateVars, callerVars, BuffersInv
  <1>8. CASE RunReturns
        BY <1>8, SetOfEmpty DEF RunReturns, Cleared, BuffersInv
  <1>9. CASE UNCHANGED vars
        BY <1>9 DEF vars, delegateVars, callerVars, BuffersInv
  <1>10. QED
         BY <1>1, <1>2, <1>3, <1>4, <1>5, <1>6, <1>7, <1>8, <1>9 DEF Next, Inside, InLoop

\* A VA-API user's calls do not fail, but for the picture parameters that Run refuses.
LEMMA CallsSucceed ==
  ASSUME ByVaApi, TypeInv, BuffersInv
  PROVE  /\ ~PutFails(current_ts_)
         /\ \A list : CallEnqueueWork(list) => ~EnqueueFails
         /\ CallRun => RunFailure \in {"no", "order type"}
         /\ CallRun /\ RunFailure = "order type" => pic_param_buffer_ \in work \cap OrderType1
  <1>1. ~PutFails(current_ts_)
        BY SizeAgrees DEF PutFails, TypeInv
  <1>2. ASSUME NEW list, CallEnqueueWork(list) PROVE ~EnqueueFails
    <2>1. begun /\ work \cap SliceData = {}
          BY <1>2 DEF CallEnqueueWork
    <2>2. render_target_ # Nil
          BY <2>1, NilAssumption DEF BuffersInv
    <2>3. slice_data_buffers_ \in Seq(SliceData) /\ ToSet(slice_data_buffers_) \subseteq work
          BY DEF TypeInv, TypeOK, BuffersInv
    <2>4. ToSet(slice_data_buffers_) \subseteq SliceData
          BY <2>3 DEF ToSet
    <2>5. slice_data_buffers_ = <<>>
          BY <2>1, <2>3, <2>4, NotEmpty
    <2>6. QED
          BY <2>2, <2>5 DEF EnqueueFails
  <1>3. ASSUME CallRun
        PROVE  /\ RunFailure \in {"no", "order type"}
               /\ RunFailure = "order type" => pic_param_buffer_ \in work \cap OrderType1
    <2>1. /\ work \cap PicParams # {} /\ work \cap SliceParams # {}
          BY <1>3 DEF CallRun, Complete
    <2>2. /\ pic_param_buffer_ \in work /\ slice_param_buffers_ # <<>>
          /\ work \subseteq Buffers /\ work \subseteq alive
          BY <2>1 DEF BuffersInv, TypeInv, TypeOK
    <2>3. pic_param_buffer_ # Nil
          BY <2>2, NilAssumption
    <2>4. ({pic_param_buffer_} \cup ToSet(slice_param_buffers_) \cup ToSet(slice_data_buffers_))
            \ alive = {}
          BY <2>2 DEF BuffersInv
    <2>5. QED
          BY <2>2, <2>3, <2>4 DEF RunFailure
  <1>4. QED
        BY <1>1, <1>2, <1>3

Lives == died = "no"

\* The process lives before and after a step of a VA-API user, unless Run refuses the
\* picture parameters it was given.
LEMMA RefusedOrLives ==
  ASSUME ByVaApi, TypeInv, BuffersInv, [Next]_vars
  PROVE  \/ Lives /\ Lives'
         \/ RunDies /\ died' = "order type" /\ pic_param_buffer_ \in work \cap OrderType1
         \/ UNCHANGED vars
  <1> USE DEF Lives
  <1>1. ASSUME NEW surface \in Surfaces, SetRenderTarget(surface) PROVE Lives /\ Lives'
        BY <1>1, CallsSucceed DEF SetRenderTarget, Idle
  <1>2. ASSUME NEW list, EnqueueWork(list) PROVE Lives /\ Lives'
        BY <1>2, CallsSucceed DEF EnqueueWork, CallEnqueueWork, Idle
  <1>3. ASSUME NEW b \in Buffers, DestroyBuffer(b) \/ CreateBuffer(b) PROVE Lives /\ Lives'
        BY <1>3 DEF DestroyBuffer, CreateBuffer, Idle
  <1>4. ASSUME RunDies
        PROVE  died' = "order type" /\ pic_param_buffer_ \in work \cap OrderType1
        BY <1>4, CallsSucceed DEF RunDies
  <1>5. ASSUME Run PROVE Lives /\ Lives'
        BY <1>5 DEF Run, CallRun, Idle
  <1>6. ASSUME Recreate PROVE Lives /\ Lives'
        BY <1>6 DEF Recreate, Idle
  <1>7. ASSUME InLoop PROVE Lives /\ Lives'
    <2>1. Lives
          BY <1>7 DEF InLoop, HdrsRdy, WaitingForBuffer, DecOk, PicDecoded, PendingFlush,
             StrmProcessed, NoParameterSets, Error, StreamNotSupported, OtherStatus, Answer,
             PicRdy, Flushed, NoMorePictures, PictureConsumed, Draining
    <2>2. QED
          BY <1>7, <2>1, LoopFrame
  <1>8. ASSUME RunReturns PROVE Lives /\ Lives'
        BY <1>8 DEF RunReturns
  <1>9. QED
        BY <1>1, <1>2, <1>3, <1>4, <1>5, <1>6, <1>7, <1>8 DEF Next, Inside, InLoop

--------------------------------------------------------------------------------
(* The timestamps in the cache.                                              *)

Entries == ts_to_render_target_.ordering

\* The timestamps in the cache are consecutive and end at that of the picture in work
\* or, before it has a target, the one before.
TimestampsInv ==
  /\ \A i \in 1..Len(Entries) : Entries[i].key = (Entries[1].key - (i - 1)) % TsMod
  /\ pc = "idle" /\ begun =>
       Entries # <<>> /\ Entries[1] = [key |-> current_ts_, value |-> render_target_]
  /\ pc = "idle" /\ ~begun /\ Entries # <<>> => NextTs(Entries[1].key) = current_ts_
  /\ pc # "idle" =>
       /\ Entries # <<>>
       /\ NextTs(Entries[1].key) = current_ts_
       /\ drawn[Entries[1].key] = Entries[1].value

\* The list of the cache.
LEMMA ListType ==
  ASSUME TypeInv
  PROVE  /\ CacheOK(ts_to_render_target_)
         /\ Entries \in Seq(Nodes) /\ Len(Entries) \in Nat /\ Len(Entries) <= CacheSize
         /\ Entries # <<>> => Entries[1] \in Nodes /\ Entries[1].key \in Ts
         /\ current_ts_ \in Ts
  <1>1. CacheOK(ts_to_render_target_) /\ current_ts_ \in Ts
        BY DEF TypeInv, TypeOK
  <1>2. Entries \in Seq(Nodes) /\ Len(Entries) <= CacheSize
        BY <1>1 DEF CacheOK, Entries
  <1>3. Len(Entries) \in Nat
        BY <1>2
  <1>4. Entries # <<>> => Entries[1] \in Nodes
        BY <1>2
  <1>5. Entries # <<>> => Entries[1].key \in Ts
        BY <1>4 DEF Nodes
  <1>6. QED
        BY <1>1, <1>2, <1>3, <1>4, <1>5

\* Timestamps wrap around: the next one, the distance of two, and a step back.
LEMMA TsArithmetic ==
  ASSUME NEW a \in Ts, NEW b \in Ts
  PROVE  /\ NextTs(a) = IF a = TsMod - 1 THEN 0 ELSE a + 1
         /\ (a - b) % TsMod = IF b <= a THEN a - b ELSE (a - b) + TsMod
         /\ \A j \in 0..(TsMod - 1) : (a - j) % TsMod = IF j <= a THEN a - j ELSE (a - j) + TsMod
  <1>1. TsMod \in Nat /\ TsMod > 1
        BY TsFacts
  <1>2. \A j \in 0..(TsMod - 1) : (a - j) % TsMod = IF j <= a THEN a - j ELSE (a - j) + TsMod
        BY <1>1 DEF Ts
  <1>3. NextTs(a) = IF a = TsMod - 1 THEN 0 ELSE a + 1
        BY <1>1 DEF Ts, NextTs
  <1>4. b \in 0..(TsMod - 1)
        BY DEF Ts
  <1>5. QED
        BY <1>2, <1>3, <1>4

\* The next timestamp is one further from all the others.
LEMMA NextTsFacts ==
  ASSUME NEW a \in Ts
  PROVE  /\ \A b \in Ts : NextTs(a) = NextTs(b) => a = b
         /\ \A j \in 1..(TsMod - 1) : (NextTs(a) - j) % TsMod = (a - (j - 1)) % TsMod
         /\ \A j \in 0..(TsMod - 2) : (a - j) % TsMod # NextTs(a)
         /\ \A b \in Ts : (a - b) % TsMod < TsMod - 1 =>
                            (NextTs(a) - b) % TsMod = ((a - b) % TsMod) + 1
         /\ (a - a) % TsMod = 0
  <1>1. TsMod \in Nat /\ TsMod > 1 /\ NextTs(a) \in Ts
        BY TsFacts
  <1>2. a \in 0..(TsMod - 1)
        BY DEF Ts
  <1>3. ASSUME NEW b \in Ts, NextTs(a) = NextTs(b) PROVE a = b
    <2>1. NextTs(a) = IF a = TsMod - 1 THEN 0 ELSE a + 1
          BY TsArithmetic
    <2>2. NextTs(b) = IF b = TsMod - 1 THEN 0 ELSE b + 1
          BY TsArithmetic
    <2>3. b \in 0..(TsMod - 1)
          BY DEF Ts
    <2>4. (IF a = TsMod - 1 THEN 0 ELSE a + 1) = (IF b = TsMod - 1 THEN 0 ELSE b + 1)
          BY <1>3, <2>1, <2>2, Zenon
    <2>5. QED
          BY <1>1, <1>2, <2>3, <2>4
  <1>4. ASSUME NEW j \in 1..(TsMod - 1)
        PROVE  (NextTs(a) - j) % TsMod = (a - (j - 1)) % TsMod
    <2>1. (NextTs(a) - j) % TsMod = IF j <= NextTs(a) THEN NextTs(a) - j ELSE (NextTs(a) - j) + TsMod
          BY <1>1, TsArithmetic
    <2>2. j - 1 \in 0..(TsMod - 1)
          BY <1>1
    <2>3. (a - (j - 1)) % TsMod = IF j - 1 <= a THEN a - (j - 1) ELSE (a - (j - 1)) + TsMod
          BY <2>2, TsArithmetic
    <2>4. NextTs(a) = IF a = TsMod - 1 THEN 0 ELSE a + 1
          BY TsArithmetic
    <2>5. QED
          BY <1>1, <1>2, <2>1, <2>3, <2>4
  <1>5. ASSUME NEW j \in 0..(TsMod - 2) PROVE (a - j) % TsMod # NextTs(a)
    <2>1. j \in 0..(TsMod - 1)
          BY <1>1
    <2>2. (a - j) % TsMod = IF j <= a THEN a - j ELSE (a - j) + TsMod
          BY <2>1, TsArithmetic
    <2>3. NextTs(a) = IF a = TsMod - 1 THEN 0 ELSE a + 1
          BY TsArithmetic
    <2>4. QED
          BY <1>1, <1>2, <2>2, <2>3
  <1>6. ASSUME NEW b \in Ts, (a - b) % TsMod < TsMod - 1
        PROVE  (NextTs(a) - b) % TsMod = ((a - b) % TsMod) + 1
    <2>1. /\ (a - b) % TsMod = IF b <= a THEN a - b ELSE (a - b) + TsMod
          /\ (NextTs(a) - b) % TsMod = IF b <= NextTs(a) THEN NextTs(a) - b ELSE (NextTs(a) - b) + TsMod
          /\ NextTs(a) = IF a = TsMod - 1 THEN 0 ELSE a + 1
          BY <1>1, TsArithmetic
    <2>2. b \in 0..(TsMod - 1)
          BY DEF Ts
    <2>3. QED
          BY <1>1, <1>2, <1>6, <2>1, <2>2
  <1>7. (a - a) % TsMod = 0
        BY <1>1, <1>2, TsArithmetic
  <1>8. QED
        BY <1>3, <1>4, <1>5, <1>6, <1>7

\* A timestamp is as far from another one as the way back to it.
LEMMA TsDistance ==
  ASSUME NEW a \in Ts, NEW b \in Ts
  PROVE  /\ (a - b) % TsMod \in 0..(TsMod - 1)
         /\ \A j \in 0..(TsMod - 1) : b = (a - j) % TsMod => (a - b) % TsMod = j
  <1>1. TsMod \in Nat /\ TsMod > 1 /\ a \in 0..(TsMod - 1) /\ b \in 0..(TsMod - 1)
        BY TsFacts DEF Ts
  <1>2. (a - b) % TsMod = IF b <= a THEN a - b ELSE (a - b) + TsMod
        BY TsArithmetic
  <1>3. ASSUME NEW j \in 0..(TsMod - 1), b = (a - j) % TsMod PROVE (a - b) % TsMod = j
    <2>1. (a - j) % TsMod = IF j <= a THEN a - j ELSE (a - j) + TsMod
          BY TsArithmetic
    <2>2. QED
          BY <1>1, <1>2, <1>3, <2>1
  <1>4. QED
        BY <1>1, <1>2, <1>3

\* What a target does to the cache: it is first, and the entries keep their places if
\* the picture has a target already, and move up one if it gets its first one.
LEMMA PutTarget ==
  ASSUME TypeInv, NEW surface \in Surfaces,
         NEW updated, updated = Cache!Put(ts_to_render_target_, current_ts_, surface).ordering
  PROVE  /\ updated \in Seq(Nodes) /\ Len(updated) >= 1 /\ Len(updated) <= CacheSize
         /\ updated[1] = [key |-> current_ts_, value |-> surface]
  <1>1. CacheOK(ts_to_render_target_) /\ current_ts_ \in Ts
        BY ListType
  <1>2. PICK c : c = Cache!Put(ts_to_render_target_, current_ts_, surface)
        OBVIOUS
  <1>3. /\ CacheOK(c)
        /\ Len(c.ordering) >= 1
        /\ c.ordering[1] = [key |-> current_ts_, value |-> surface]
        BY <1>1, <1>2, PutFacts
  <1>4. QED
        BY <1>2, <1>3 DEF CacheOK

\* A second target of one picture moves no entry.
LEMMA PutAgain ==
  ASSUME TypeInv, TimestampsInv, pc = "idle", NEW surface \in Surfaces,
         NEW updated, updated = Cache!Put(ts_to_render_target_, current_ts_, surface).ordering, begun
  PROVE  KeepPlaces(Entries, updated)
  <1>1. CacheOK(ts_to_render_target_) /\ current_ts_ \in Ts
        BY ListType
  <1>2. Entries # <<>> /\ current_ts_ = Entries[1].key
        BY DEF TimestampsInv
  <1>3. QED
        BY <1>1, <1>2, PutFacts DEF Entries

\* The first target of a picture moves the entries up one.
LEMMA PutFirst ==
  ASSUME TypeInv, TimestampsInv, pc = "idle", NEW surface \in Surfaces,
         NEW updated, updated = Cache!Put(ts_to_render_target_, current_ts_, surface).ordering, ~begun
  PROVE  MoveUp(Entries, updated)
  <1>1. /\ CacheOK(ts_to_render_target_) /\ current_ts_ \in Ts
        /\ Entries \in Seq(Nodes) /\ Len(Entries) \in Nat /\ Len(Entries) <= CacheSize
        BY ListType
  <1>2. current_ts_ \notin DOMAIN ts_to_render_target_.index
    <2> SUFFICES ASSUME NEW i \in 1..Len(Entries), Entries[i].key = current_ts_ PROVE FALSE
        BY <1>1 DEF CacheOK, Entries
    <2>1. Entries # <<>>
          BY <1>1
    <2>2. Entries[1].key \in Ts /\ NextTs(Entries[1].key) = current_ts_
          BY <2>1, ListType DEF TimestampsInv
    <2>3. Entries[i].key = (Entries[1].key - (i - 1)) % TsMod
          BY DEF TimestampsInv
    <2>4. i - 1 \in 0..(TsMod - 2)
          BY <1>1, CacheAssumption
    <2>5. QED
          BY <2>2, <2>3, <2>4, NextTsFacts
  <1>3. QED
        BY <1>1, <1>2, PutFacts DEF Entries

\* The cache is empty.
LEMMA TimestampsInit == Init => TimestampsInv
  BY DEF Init, Constructed, Cache!Empty, TimestampsInv, Entries

\* The entries of the cache stay those of the latest pictures.
LEMMA TimestampsStep ==
  ASSUME ByVaApi, TypeInv, BuffersInv, TimestampsInv, [Next]_vars
  PROVE  TimestampsInv'
  <1>0. /\ Entries \in Seq(Nodes) /\ Len(Entries) \in Nat /\ Len(Entries) <= CacheSize
        /\ current_ts_ \in Ts
        BY ListType
  <1>1. ASSUME NEW surface \in Surfaces, SetRenderTarget(surface) PROVE TimestampsInv'
    <2>1. /\ pc = "idle" /\ pc' = "idle" /\ begun' /\ render_target_' = surface
          /\ current_ts_' = current_ts_
          /\ ts_to_render_target_' = Cache!Put(ts_to_render_target_, current_ts_, surface)
          BY <1>1, CallsSucceed DEF SetRenderTarget, Idle, runVars
    <2>2. Entries' = Cache!Put(ts_to_render_target_, current_ts_, surface).ordering
          BY <2>1 DEF Entries
    <2>3. /\ Entries' \in Seq(Nodes) /\ Len(Entries') >= 1 /\ Len(Entries') <= CacheSize
          /\ Entries'[1] = [key |-> current_ts_, value |-> surface]
          /\ begun => Len(Entries') = Len(Entries) /\ \A i \in 2..Len(Entries') : Entries'[i] = Entries[i]
          /\ ~begun => \A i \in 2..Len(Entries') : i - 1 \in 1..Len(Entries) /\ Entries'[i] = Entries[i - 1]
          BY <2>1, <2>2, PutTarget, PutAgain, PutFirst DEF KeepPlaces, MoveUp
    <2>4. Entries'[1].key = current_ts_ /\ Entries' # <<>>
          BY <2>3
    <2>5. ASSUME NEW i \in 1..Len(Entries') PROVE Entries'[i].key = (Entries'[1].key - (i - 1)) % TsMod
      <3>1. CASE i = 1
        <4>1. (current_ts_ - 0) % TsMod = current_ts_
          <5>1. current_ts_ \in 0..(TsMod - 1) /\ 0 \in 0..(TsMod - 1)
                BY <1>0, TsFacts DEF Ts
          <5>2. (current_ts_ - 0) % TsMod =
                  IF 0 <= current_ts_ THEN current_ts_ - 0 ELSE (current_ts_ - 0) + TsMod
                BY <1>0, <5>1, TsArithmetic
          <5>3. QED
                BY <5>1, <5>2, TsFacts
        <4>2. QED
              BY <2>4, <3>1, <4>1
      <3>2. CASE i # 1 /\ begun
        <4>1. Entries'[i] = Entries[i] /\ i \in 1..Len(Entries)
              BY <1>0, <2>3, <3>2
        <4>2. Entries[1].key = current_ts_
              BY <2>1, <3>2 DEF TimestampsInv
        <4>3. QED
              BY <2>4, <4>1, <4>2 DEF TimestampsInv
      <3>3. CASE i # 1 /\ ~begun
        <4>0. i \in 2..Len(Entries') /\ i - 1 \in 1..(TsMod - 1)
              BY <1>0, <2>3, <3>3, CacheAssumption
        <4>1. Entries'[i] = Entries[i - 1] /\ i - 1 \in 1..Len(Entries)
              BY <2>3, <3>3, <4>0
        <4>2. NextTs(Entries[1].key) = current_ts_ /\ Entries[1].key \in Ts
          <5>1. Entries # <<>>
                BY <1>0, <4>1
          <5>2. QED
                BY <2>1, <3>3, <5>1, ListType DEF TimestampsInv
        <4>3. Entries[i - 1].key = (Entries[1].key - ((i - 1) - 1)) % TsMod
              BY <4>1 DEF TimestampsInv
        <4>4. (current_ts_ - (i - 1)) % TsMod = (Entries[1].key - ((i - 1) - 1)) % TsMod
              BY <4>0, <4>2, NextTsFacts
        <4>5. QED
              BY <2>4, <4>1, <4>3, <4>4
      <3>4. QED
            BY <3>1, <3>2, <3>3
    <2>6. QED
          BY <2>1, <2>3, <2>4, <2>5 DEF TimestampsInv
  <1>2. ASSUME NEW l, EnqueueWork(l) PROVE TimestampsInv'
        BY <1>2 DEF EnqueueWork, delegateVars, runVars, TimestampsInv, Entries
  <1>3. ASSUME NEW b \in Buffers, DestroyBuffer(b) \/ CreateBuffer(b) PROVE TimestampsInv'
        BY <1>3 DEF DestroyBuffer, CreateBuffer, delegateVars, runVars, TimestampsInv, Entries
  <1>4. CASE RunDies
        BY <1>4 DEF RunDies, delegateVars, runVars, callerVars, TimestampsInv, Entries
  <1>5. CASE Run
    <2>1. pc = "idle" /\ begun /\ pc' = "decode"
          BY <1>5 DEF Run, CallRun, Idle, BuffersInv
    <2>2. Entries # <<>> /\ Entries[1].key = current_ts_ /\ Entries[1].value = render_target_
          BY <2>1 DEF TimestampsInv
    <2>3. drawn \in [Ts -> Surfaces \cup {Nil}]
          BY DEF TypeInv, TypeOK
    <2>4. drawn'[current_ts_] = render_target_ /\ current_ts_' = NextTs(current_ts_) /\ Entries' = Entries
          BY <1>0, <1>5, <2>3 DEF Run, Entries
    <2>5. QED
          BY <2>1, <2>2, <2>4 DEF TimestampsInv
  <1>6. CASE Recreate
        BY <1>6 DEF Recreate, Constructed, Cache!Empty, TimestampsInv, Entries, Idle, runVars
  <1>7. CASE InLoop
        BY <1>7, LoopFrame DEF delegateVars, callerVars, TimestampsInv, Entries
  <1>8. CASE RunReturns
        BY <1>8 DEF RunReturns, TimestampsInv, Entries
  <1>9. CASE UNCHANGED vars
        BY <1>9 DEF vars, delegateVars, runVars, callerVars, TimestampsInv, Entries
  <1>10. QED
         BY <1>1, <1>2, <1>3, <1>4, <1>5, <1>6, <1>7, <1>8, <1>9 DEF Next, Inside, InLoop

--------------------------------------------------------------------------------
(* The pictures that are pending.                                            *)

Pending == hw.held \cup ToSet(hw.ready) \cup hw.out

\* The slices of a picture are in the stream until the picture is decoded.
InputInv ==
  /\ \A i \in 1..Len(input) : input[i] = "slices" <=> i = Len(input)
  /\ pc = "idle" => input = <<>>
  /\ pc # "end" => result = "none"
  /\ pc = "end" => result \in {"ok", "error"}
  /\ result = "ok" => input = <<>>

\* How far a pending picture is behind the one in work.
WindowInv ==
  /\ pc \notin {"next", "frame"} => hw.ready = <<>>
  /\ pc = "idle" => \A ts \in Pending : (current_ts_ - ts) % TsMod \in 1..Reorder
  /\ pc # "idle" => \A ts \in Pending : (PicId - ts) % TsMod \in 0..Reorder
  /\ pc # "idle" /\ input = <<>> => \A ts \in hw.held : (PicId - ts) % TsMod # Reorder

\* The picture in work is the only one whose next timestamp is the current one.
LEMMA PicIdFacts ==
  ASSUME TypeInv
  PROVE  /\ PicId \in Ts /\ NextTs(PicId) = current_ts_
         /\ \A ts \in Ts : NextTs(ts) = current_ts_ => ts = PicId
  <1>1. PicId \in Ts /\ NextTs(PicId) = current_ts_
        BY PicIdType DEF TypeInv, TypeOK
  <1>2. QED
        BY <1>1, NextTsFacts

\* Pending pictures have timestamps.
LEMMA PendingType ==
  ASSUME TypeInv
  PROVE  Pending \subseteq Ts
  BY DEF TypeInv, HwOK, Pending, ToSet

\* A VA-API user's picture has slices, and they are last in the stream.
LEMMA BitstreamHasSlices ==
  ASSUME ByVaApi, BuffersInv, Run
  PROVE  /\ input' # <<>>
         /\ \A i \in 1..Len(input') : input'[i] = "slices" <=> i = Len(input')
  <1>1. slice_data_buffers_ # <<>>
        BY DEF Run, CallRun, BuffersInv, Complete
  <1> DEFINE headers == IF slice_param_buffers_[1] \in Intra THEN <<"headers">> ELSE <<>>
  <1>2. input' = headers \o <<"slices">>
        BY <1>1, Zenon DEF Run, Bitstream
  <1>3. /\ headers \in Seq({"headers"}) /\ Len(headers) \in 0..1
    <2>1. /\ <<"headers">> \in Seq({"headers"}) /\ Len(<<"headers">>) = 1
          /\ <<>> \in Seq({"headers"}) /\ Len(<<>>) = 0
          BY SeqFacts
    <2>2. headers = <<"headers">> \/ headers = <<>>
          BY Zenon
    <2> HIDE DEF headers
    <2>3. CASE headers = <<"headers">>
          BY <2>1, <2>3
    <2>4. CASE headers = <<>>
          BY <2>1, <2>4
    <2>5. QED
          BY <2>2, <2>3, <2>4
  <1> HIDE DEF headers
  <1>4. PICK s : s = headers \o <<"slices">>
        OBVIOUS
  <1>5. /\ Len(s) = Len(headers) + 1
        /\ s[Len(headers) + 1] = "slices"
        /\ \A i \in 1..Len(headers) : s[i] = "headers"
        BY <1>3, <1>4
  <1>6. s # <<>> /\ \A i \in 1..Len(s) : s[i] = "slices" <=> i = Len(s)
        BY <1>3, <1>4, <1>5
  <1>7. QED
        BY <1>2, <1>4, <1>6, Zenon

\* What is left after the first of it.
LEMMA InputTail ==
  ASSUME TypeInv, InputInv, input # <<>>
  PROVE  /\ \A i \in 1..Len(Tail(input)) : Tail(input)[i] = "slices" <=> i = Len(Tail(input))
         /\ Head(input) = "slices" <=> Tail(input) = <<>>
  <1>1. PICK s \in Seq({"headers", "slices"}) : s = input
        BY DEF TypeInv, TypeOK
  <1>2. /\ \A i \in 1..Len(s) : s[i] = "slices" <=> i = Len(s)
        /\ s # <<>>
        BY <1>1 DEF InputInv
  <1>3. Len(s) \in Nat \ {0} /\ Head(s) = s[1]
        BY <1>2
  <1>t. Tail(s) \in Seq({"headers", "slices"})
        BY <1>2, SeqFacts
  <1>4. PICK t \in Seq({"headers", "slices"}) : t = Tail(s)
        BY <1>t
  <1>5. Len(t) = Len(s) - 1 /\ \A i \in 1..(Len(s) - 1) : t[i] = s[i + 1]
        BY <1>2, <1>4
  <1>6. \A i \in 1..Len(t) : t[i] = "slices" <=> i = Len(t)
        BY <1>2, <1>3, <1>5
  <1>7. Head(s) = "slices" <=> Len(s) = 1
    <2>1. 1 \in 1..Len(s)
          BY <1>3
    <2>2. s[1] = "slices" <=> 1 = Len(s)
          BY <1>2, <2>1
    <2>3. QED
          BY <1>3, <2>2
  <1>8. t = <<>> <=> Len(s) = 1
        BY <1>3, <1>5
  <1>9. QED
        BY <1>1, <1>4, <1>6, <1>7, <1>8

\* Nothing is decoded.
LEMMA InputInit == Init => InputInv
  BY DEF Init, InputInv

\* The slices stay last in the stream, and the library gets them once.
LEMMA InputStep ==
  ASSUME ByVaApi, TypeInv, BuffersInv, InputInv, [Next]_vars
  PROVE  InputInv'
  <1> USE DEF InputInv
  <1>1. ASSUME NEW surface \in Surfaces, SetRenderTarget(surface) PROVE InputInv'
        BY <1>1 DEF SetRenderTarget, runVars, Idle
  <1>2. ASSUME NEW l, EnqueueWork(l) PROVE InputInv'
        BY <1>2 DEF EnqueueWork, CallEnqueueWork, runVars, Idle
  <1>3. ASSUME NEW b \in Buffers, DestroyBuffer(b) \/ CreateBuffer(b) PROVE InputInv'
        BY <1>3 DEF DestroyBuffer, CreateBuffer, runVars, Idle
  <1>4. CASE RunDies
        BY <1>4 DEF RunDies, CallRun, runVars, Idle
  <1>5. CASE Run
    <2>1. pc = "idle" /\ pc' = "decode" /\ input' = Bitstream /\ result' = result /\ Complete(work)
          BY <1>5 DEF Run, CallRun, Idle
    <2>2. QED
          BY <1>5, <2>1, BitstreamHasSlices
  <1>6. CASE Recreate
        BY <1>6 DEF Recreate, runVars, Idle
  <1>7. CASE HdrsRdy \/ WaitingForBuffer \/ DecOk
        BY <1>7, InputTail DEF HdrsRdy, WaitingForBuffer, DecOk, Answer
  <1>8. CASE PicDecoded \/ PendingFlush
        BY <1>8, InputTail DEF PicDecoded, PendingFlush, CanDecode, Answer
  <1>9. CASE StrmProcessed \/ NoParameterSets \/ Error \/ StreamNotSupported
        BY <1>9
        DEF StrmProcessed, NoParameterSets, Error, StreamNotSupported, OtherStatus, Answer
  <1>10. CASE PicRdy \/ Flushed \/ NoMorePictures \/ PictureConsumed
        BY <1>10 DEF PicRdy, Flushed, NoMorePictures, PictureConsumed, Draining
  <1>11. CASE RunReturns
        BY <1>11 DEF RunReturns
  <1>12. CASE UNCHANGED vars
        BY <1>12 DEF vars, runVars
  <1>13. QED
         BY <1>1, <1>2, <1>3, <1>4, <1>5, <1>6, <1>7, <1>8, <1>9, <1>10, <1>11, <1>12
         DEF Next, Inside, InLoop

\* Making pictures ready neither loses nor adds one.
LEMMA ReadyIsOnto ==
  ASSUME TypeInv, NEW pictures \in SUBSET Ts, NEW R \in SUBSET pictures, MakeReady(pictures, R),
         hw.ready = <<>>
  PROVE  /\ hw'.held = pictures \ R
         /\ ToSet(hw'.ready) = R /\ IsInjective(hw'.ready)
         /\ hw'.out = hw.out
  <1>1. R \in SUBSET Ts /\ IsFiniteSet(R)
        BY TsFacts, FS_Subset
  <1>2. PICK made \in Seq(R) : made = SetToSeq(R) /\ ToSet(made) = R /\ IsInjective(made)
        BY <1>1, SetToSeqIsOnto
  <1>3. PICK ready : ready = <<>> \o made
        OBVIOUS
  <1>4. ready = made
        BY <1>3
  <1>5. hw' = [hw EXCEPT !.held = pictures \ R, !.ready = ready, !.repeats = 0,
                        !.flushed = "flushed" \in Oddities]
        BY <1>2, <1>3, Zenon DEF MakeReady
  <1>6. hw = [f \in HwFields |-> hw[f]]
        BY DEF TypeInv, HwOK
  <1>7. hw'.held = pictures \ R /\ hw'.ready = ready /\ hw'.out = hw.out
        BY <1>5, <1>6 DEF HwFields
  <1>8. QED
        BY <1>2, <1>4, <1>7

\* The other steps of the loop make no picture pending.
LEMMA PendingShrinks ==
  ASSUME TypeInv, InLoop, ~PicDecoded, ~PendingFlush
  PROVE  /\ Pending' \subseteq Pending
         /\ hw'.held = hw.held
         /\ hw.ready = <<>> => hw'.ready = <<>>
  <1>1. hw = [f \in HwFields |-> hw[f]] /\ hw.ready \in Seq(Ts)
        BY DEF TypeInv, HwOK
  <1>2. CASE HdrsRdy \/ WaitingForBuffer \/ DecOk
    <2>1. hw'.held = hw.held /\ hw'.ready = hw.ready /\ hw'.out = hw.out
          BY <1>1, <1>2 DEF HdrsRdy, WaitingForBuffer, DecOk, HwFields
    <2>2. QED
          BY <2>1 DEF Pending
  <1>3. CASE StrmProcessed \/ NoParameterSets \/ Error \/ StreamNotSupported \/ NoMorePictures
    <2>1. hw' = hw
          BY <1>3 DEF StrmProcessed, NoParameterSets, Error, StreamNotSupported, OtherStatus,
                      NoMorePictures
    <2>2. QED
          BY <2>1 DEF Pending
  <1>4. CASE PicRdy
    <2>1. /\ hw'.held = hw.held /\ hw.ready # <<>>
          /\ hw'.ready = Tail(hw.ready) /\ hw'.out = hw.out \cup {Head(hw.ready)}
          BY <1>1, <1>4 DEF PicRdy, HwFields
    <2>2. ToSet(Tail(hw.ready)) \cup {Head(hw.ready)} \subseteq ToSet(hw.ready)
      <3>1. PICK s \in Seq(Ts) : s = hw.ready /\ s # <<>>
            BY <1>1, <2>1
      <3>2. PICK t \in Seq(Ts) : t = Tail(s)
            BY <3>1, SeqFacts
      <3>3. /\ Len(s) \in Nat \ {0} /\ Head(s) = s[1] /\ Len(t) = Len(s) - 1
            /\ \A i \in 1..Len(t) : t[i] = s[i + 1]
            BY <3>1, <3>2
      <3>4. ToSet(t) \subseteq ToSet(s)
            BY <3>3 DEF ToSet
      <3>5. Head(s) \in ToSet(s)
            BY <3>3 DEF ToSet
      <3>6. QED
            BY <3>1, <3>2, <3>4, <3>5
    <2>3. QED
          BY <2>1, <2>2 DEF Pending
  <1>5. CASE Flushed \/ PictureConsumed
    <2>1. hw'.held = hw.held /\ hw'.ready = hw.ready /\ hw'.out \subseteq hw.out
          BY <1>1, <1>5 DEF Flushed, PictureConsumed, GivenBack, HwFields
    <2>2. QED
          BY <2>1 DEF Pending
  <1>6. QED
        BY <1>2, <1>3, <1>4, <1>5 DEF InLoop

\* No picture is pending.
LEMMA WindowInit == Init => WindowInv
  BY SetOfEmpty DEF Init, HwInit, WindowInv, Pending

\* Run begins the picture of the current timestamp.
LEMMA RunBegins ==
  ASSUME TypeInv, TypeInv', Run
  PROVE  PicId' = current_ts_
  <1>1. current_ts_' = NextTs(current_ts_) /\ current_ts_ \in Ts
        BY ListType DEF Run
  <1>2. PicId' \in Ts /\ NextTs(PicId') = current_ts_'
        BY PicIdType DEF TypeInv, TypeOK
  <1>3. QED
        BY <1>1, <1>2, NextTsFacts

\* Pending pictures stay within the reordering of the picture in work.
LEMMA WindowStep ==
  ASSUME ByVaApi, TypeInv, TypeInv', PicturesInv, BuffersInv, InputInv, TimestampsInv, WindowInv,
         [Next]_vars
  PROVE  WindowInv'
  <1>0. /\ PicId \in Ts /\ NextTs(PicId) = current_ts_ /\ current_ts_ \in Ts
        /\ Pending \subseteq Ts /\ hw.held \subseteq Pending
        /\ Reorder \in Nat /\ Reorder < TsMod - 1 /\ TsMod \in Nat
    <2>1. PicId \in Ts /\ NextTs(PicId) = current_ts_ /\ current_ts_ \in Ts
          BY PicIdFacts, ListType
    <2>2. Reorder \in Nat /\ Reorder < TsMod - 1 /\ TsMod \in Nat
          BY CacheAssumption, ReorderAssumption
    <2>3. Pending \subseteq Ts /\ hw.held \subseteq Pending
          BY PendingType DEF Pending
    <2>4. QED
          BY <2>1, <2>2, <2>3
  <1>s. UNCHANGED <<pc, input, hw, current_ts_>> => WindowInv'
        BY DEF WindowInv, Pending, PicId
  <1>1. ASSUME NEW surface \in Surfaces, SetRenderTarget(surface) PROVE WindowInv'
        BY <1>1, <1>s DEF SetRenderTarget, runVars
  <1>2. ASSUME NEW l, EnqueueWork(l) PROVE WindowInv'
        BY <1>2, <1>s DEF EnqueueWork, delegateVars, runVars
  <1>3. ASSUME NEW b \in Buffers, DestroyBuffer(b) \/ CreateBuffer(b) PROVE WindowInv'
        BY <1>3, <1>s DEF DestroyBuffer, CreateBuffer, delegateVars, runVars
  <1>4. CASE RunDies
        BY <1>4, <1>s DEF RunDies, delegateVars, runVars
  <1>5. CASE Run
    <2>1. pc = "idle" /\ pc' = "decode" /\ hw' = hw /\ current_ts_' = NextTs(current_ts_)
          BY <1>5 DEF Run, CallRun, Idle
    <2>2. PicId' = current_ts_
          BY <1>5, RunBegins
    <2>3. Pending' = Pending /\ input' # <<>> /\ hw.ready = <<>>
          BY <1>5, <2>1, BitstreamHasSlices DEF Pending, WindowInv
    <2>4. \A ts \in Pending : (current_ts_ - ts) % TsMod \in 1..Reorder
          BY <2>1 DEF WindowInv
    <2>5. \A ts \in Pending' : (PicId' - ts) % TsMod \in 0..Reorder
          BY <1>0, <2>2, <2>3, <2>4
    <2>6. QED
          BY <2>1, <2>3, <2>5 DEF WindowInv
  <1>6. CASE Recreate
    <2>1. hw' = HwInit /\ pc' = "idle"
          BY <1>6 DEF Recreate, Idle, runVars
    <2>2. hw'.ready = <<>> /\ Pending' = {}
          BY <2>1, SetOfEmpty DEF HwInit, Pending
    <2>3. QED
          BY <2>1, <2>2 DEF WindowInv
  <1>7. CASE InLoop
    <2>1. /\ PicId' = PicId /\ pc # "idle" /\ pc' # "idle"
          BY <1>7, LoopFrame DEF PicId, delegateVars
    <2>w. \A ts \in Pending : (PicId - ts) % TsMod \in 0..Reorder
          BY <2>1 DEF WindowInv
    <2>2. CASE PicDecoded
      <3>1. /\ pc = "decode" /\ pc' = "next" /\ input # <<>>
            BY <2>2 DEF PicDecoded, Answer, CanDecode
      <3>2. PICK R \in SUBSET (hw.held \cup {PicId}) :
                   /\ \A ts \in (hw.held \cup {PicId}) \ R : (PicId - ts) % TsMod < Reorder
                   /\ MakeReady(hw.held \cup {PicId}, R)
            BY <2>2 DEF PicDecoded
      <3>3. hw.held \cup {PicId} \in SUBSET Ts /\ hw.ready = <<>>
            BY <1>0, <3>1 DEF WindowInv
      <3>4. /\ hw'.held = (hw.held \cup {PicId}) \ R
            /\ ToSet(hw'.ready) \subseteq R
            /\ hw'.out = hw.out
            BY <3>2, <3>3, ReadyIsOnto
      <3>5. Pending' \subseteq Pending \cup {PicId}
            BY <3>2, <3>4 DEF Pending
      <3>6. (PicId - PicId) % TsMod = 0
            BY <1>0, NextTsFacts
      <3>7. \A ts \in Pending' : (PicId - ts) % TsMod \in 0..Reorder
            BY <1>0, <2>w, <3>5, <3>6
      <3>8. \A ts \in hw'.held : (PicId - ts) % TsMod # Reorder
            BY <1>0, <2>w, <3>2, <3>4, <3>6
      <3>9. QED
            BY <2>1, <3>1, <3>7, <3>8 DEF WindowInv
    <2>3. CASE PendingFlush
      <3>1. /\ pc = "decode" /\ pc' = "next" /\ input # <<>> /\ input' = input
            BY <2>3 DEF PendingFlush, Answer, CanDecode
      <3>2. PICK R \in SUBSET hw.held : MakeReady(hw.held, R)
            BY <2>3 DEF PendingFlush
      <3>3. hw.held \in SUBSET Ts /\ hw.ready = <<>>
            BY <1>0, <3>1 DEF WindowInv
      <3>4. /\ hw'.held = hw.held \ R
            /\ ToSet(hw'.ready) \subseteq R
            /\ hw'.out = hw.out
            BY <3>2, <3>3, ReadyIsOnto
      <3>5. Pending' \subseteq Pending
            BY <3>2, <3>4 DEF Pending
      <3>6. QED
            BY <2>1, <2>w, <3>1, <3>5 DEF WindowInv
    <2>4. CASE ~PicDecoded /\ ~PendingFlush
      <3>1. /\ Pending' \subseteq Pending
            /\ hw'.held = hw.held
            /\ hw.ready = <<>> => hw'.ready = <<>>
            BY <1>7, <2>4, PendingShrinks
      <3>2. pc' \notin {"next", "frame"} => hw.ready = <<>>
            BY <1>7, <2>4 DEF InLoop, HdrsRdy, WaitingForBuffer, DecOk, StrmProcessed,
                  NoParameterSets, Error, StreamNotSupported, OtherStatus, Answer,
                  PicRdy, Flushed, NoMorePictures, PictureConsumed, Draining, WindowInv
      <3>3. input' = <<>> => input = <<>> \/ HdrsRdy
            BY <1>7, <2>4 DEF InLoop, HdrsRdy, WaitingForBuffer, DecOk, StrmProcessed,
                  NoParameterSets, Error, StreamNotSupported, OtherStatus, Answer,
                  PicRdy, Flushed, NoMorePictures, PictureConsumed, Draining
      <3>4. HdrsRdy => input' # <<>>
            BY InputTail DEF HdrsRdy
      <3>5. QED
            BY <2>1, <2>w, <3>1, <3>2, <3>3, <3>4 DEF WindowInv
    <2>5. QED
          BY <2>2, <2>3, <2>4
  <1>8. CASE RunReturns
    <2>1. /\ pc = "end" /\ pc' = "idle" /\ current_ts_' = current_ts_
          /\ hw' = IF result = "ok" THEN hw ELSE Aborted
          BY <1>8 DEF RunReturns
    <2>2. hw.ready = <<>> /\ hw.out = {}
          BY <2>1 DEF WindowInv, PicturesInv
    <2>3. hw'.ready = <<>> /\ hw'.out = {} /\ hw'.held = IF result = "ok" THEN hw.held ELSE {}
          BY <2>1, <2>2 DEF Aborted, TypeInv, HwOK, HwFields
    <2>4. Pending' = IF result = "ok" THEN hw.held ELSE {}
          BY <2>3, SetOfEmpty DEF Pending
    <2>5. ASSUME NEW ts \in hw.held, result = "ok" PROVE (current_ts_ - ts) % TsMod \in 1..Reorder
      <3>1. input = <<>>
            BY <2>5 DEF InputInv
      <3>2. (PicId - ts) % TsMod \in 0..Reorder /\ (PicId - ts) % TsMod # Reorder
            BY <1>0, <2>1, <3>1 DEF WindowInv
      <3>3. (PicId - ts) % TsMod < TsMod - 1 /\ ts \in Ts
            BY <1>0, <3>2
      <3>4. (current_ts_ - ts) % TsMod = ((PicId - ts) % TsMod) + 1
            BY <1>0, <3>3, NextTsFacts
      <3>5. QED
            BY <1>0, <3>2, <3>4
    <2>6. \A ts \in Pending' : (current_ts_' - ts) % TsMod \in 1..Reorder
          BY <2>1, <2>4, <2>5
    <2>7. QED
          BY <2>1, <2>3, <2>6 DEF WindowInv
  <1>9. CASE UNCHANGED vars
        BY <1>9, <1>s DEF vars, delegateVars, runVars
  <1>10. QED
         BY <1>1, <1>2, <1>3, <1>4, <1>5, <1>6, <1>7, <1>8, <1>9 DEF Next, Inside, InLoop

Finds(ts) ==
  /\ Cache!Has(ts_to_render_target_, ts)
  /\ Cache!Peek(ts_to_render_target_, ts) = drawn[ts]

FramesInv == \A ts \in Pending : Finds(ts)

\* No picture is pending.
LEMMA FramesInit == Init => FramesInv
  BY SetOfEmpty DEF Init, HwInit, FramesInv, Pending

\* An entry in the list is what the index has under its key.
LEMMA HasEntry ==
  ASSUME NEW c, CacheOK(c), NEW i \in 1..Len(c.ordering)
  PROVE  Cache!Has(c, c.ordering[i].key) /\ Cache!Peek(c, c.ordering[i].key) = c.ordering[i].value
  BY DEF CacheOK, Cache!Has, Cache!Peek, Cache!KeysOf

\* The picture in work finds the target it was drawn for.
LEMMA PictureFinds ==
  ASSUME TypeInv, TimestampsInv, pc # "idle"
  PROVE  Finds(PicId)
  <1>1. Entries # <<>> /\ NextTs(Entries[1].key) = current_ts_ /\ drawn[Entries[1].key] = Entries[1].value
        BY DEF TimestampsInv
  <1>2. Entries[1].key = PicId /\ 1 \in 1..Len(Entries)
        BY <1>1, PicIdFacts, ListType
  <1>3. /\ Cache!Has(ts_to_render_target_, Entries[1].key)
        /\ Cache!Peek(ts_to_render_target_, Entries[1].key) = Entries[1].value
        BY <1>2, ListType, HasEntry DEF Entries
  <1>4. QED
        BY <1>1, <1>2, <1>3 DEF Finds

\* A target for the picture in work takes none from the pictures in the window.
LEMMA TargetKept ==
  ASSUME TypeInv, TimestampsInv, pc = "idle", NEW surface \in Surfaces, NEW c,
         c = Cache!Put(ts_to_render_target_, current_ts_, surface), CacheOK(c),
         NEW ts \in Ts, (current_ts_ - ts) % TsMod \in 1..Reorder,
         Cache!Has(ts_to_render_target_, ts)
  PROVE  Cache!Has(c, ts) /\ Cache!Peek(c, ts) = Cache!Peek(ts_to_render_target_, ts)
  <1>0. /\ CacheOK(ts_to_render_target_)
        /\ Entries \in Seq(Nodes) /\ Len(Entries) \in Nat /\ Len(Entries) <= CacheSize
        /\ current_ts_ \in Ts
        BY ListType
  <1>1. PICK i \in 1..Len(Entries) : Entries[i].key = ts
        BY <1>0 DEF Cache!Has, Cache!KeysOf, CacheOK, Entries
  <1>2. Cache!Peek(ts_to_render_target_, ts) = Entries[i].value
        BY <1>0, <1>1, HasEntry DEF Entries
  <1>3. /\ Entries # <<>> /\ Entries[1].key \in Ts
        /\ ts = (Entries[1].key - (i - 1)) % TsMod
        /\ i - 1 \in 0..(TsMod - 1)
    <2>1. Entries # <<>>
          BY <1>0, <1>1
    <2>2. Entries[1].key \in Ts
          BY <2>1, ListType
    <2>3. i - 1 \in 0..(TsMod - 1)
          BY <1>0, CacheAssumption
    <2>4. QED
          BY <1>1, <2>1, <2>2, <2>3 DEF TimestampsInv
  <1>4. (Entries[1].key - ts) % TsMod = i - 1
        BY <1>3, TsDistance
  <1>5. PICK updated : updated = c.ordering
        OBVIOUS
  <1>6. /\ updated \in Seq(Nodes) /\ Len(updated) >= 1 /\ Len(updated) <= CacheSize
        /\ begun => Len(updated) = Len(Entries) /\ \A j \in 2..Len(updated) : updated[j] = Entries[j]
        /\ ~begun => /\ \A j \in 2..Len(updated) : j - 1 \in 1..Len(Entries) /\ updated[j] = Entries[j - 1]
                     /\ Len(updated) = IF Len(Entries) < CacheSize THEN Len(Entries) + 1 ELSE CacheSize
    <2>1. updated = Cache!Put(ts_to_render_target_, current_ts_, surface).ordering
          BY <1>5
    <2>2. updated \in Seq(Nodes) /\ Len(updated) >= 1 /\ Len(updated) <= CacheSize
          BY <2>1, PutTarget
    <2>3. begun => Len(updated) = Len(Entries) /\ \A j \in 2..Len(updated) : updated[j] = Entries[j]
          BY <2>1, PutAgain DEF KeepPlaces
    <2>a. ~begun => /\ \A j \in 2..Len(updated) : j - 1 \in 1..Len(Entries) /\ updated[j] = Entries[j - 1]
                    /\ Len(updated) = IF Len(Entries) < CacheSize THEN Len(Entries) + 1 ELSE CacheSize
          BY <2>1, PutFirst DEF MoveUp
    <2>4. QED
          BY <2>2, <2>3, <2>a, Zenon
  <1>7. \E j \in 1..Len(updated) : updated[j] = Entries[i]
    <2>1. CASE begun
      <3>1. Entries[1].key = current_ts_
            BY <2>1 DEF TimestampsInv
      <3>2. i # 1
            BY <1>4, <3>1
      <3>3. i \in 2..Len(updated)
            BY <1>0, <1>6, <2>1, <3>2
      <3>4. updated[i] = Entries[i]
            BY <1>6, <2>1, <3>3
      <3>5. QED
            BY <1>0, <1>6, <3>3, <3>4
    <2>2. CASE ~begun
      <3>1. NextTs(Entries[1].key) = current_ts_
            BY <1>3, <2>2 DEF TimestampsInv
      <3>2. i <= Reorder
        <4>1. CASE i - 1 < TsMod - 1
          <5>1. (Entries[1].key - ts) % TsMod < TsMod - 1
                BY <1>4, <4>1
          <5>2. (NextTs(Entries[1].key) - ts) % TsMod = ((Entries[1].key - ts) % TsMod) + 1
                BY <1>3, <5>1, NextTsFacts
          <5>3. (current_ts_ - ts) % TsMod = (i - 1) + 1
                BY <1>4, <3>1, <5>2, Zenon
          <5>4. QED
                BY <5>3
        <4>2. CASE i - 1 = TsMod - 1
              BY <1>0, <4>2, CacheAssumption
        <4>3. QED
              BY <1>3, <4>1, <4>2, TsFacts
      <3>3. i + 1 \in 2..Len(updated)
            BY <1>0, <1>6, <2>2, <3>2, ReorderAssumption, CacheAssumption
      <3>4. updated[i + 1] = Entries[(i + 1) - 1]
            BY <1>6, <2>2, <3>3
      <3>5. QED
            BY <1>0, <1>6, <3>3, <3>4
    <2>3. QED
          BY <2>1, <2>2
  <1>8. PICK j \in 1..Len(updated) : updated[j] = Entries[i]
        BY <1>7
  <1>9. Cache!Has(c, updated[j].key) /\ Cache!Peek(c, updated[j].key) = updated[j].value
        BY <1>5, HasEntry
  <1>10. QED
         BY <1>1, <1>2, <1>8, <1>9

\* Pending pictures keep finding their target in the cache.
LEMMA FramesStep ==
  ASSUME ByVaApi, TypeInv, TypeInv', BuffersInv, TimestampsInv, WindowInv, FramesInv, [Next]_vars
  PROVE  FramesInv'
  <1>0. /\ current_ts_ \in Ts /\ Pending \subseteq Ts
        BY ListType, PendingType
  <1>a. UNCHANGED <<hw, ts_to_render_target_, drawn>> => FramesInv'
        BY DEF FramesInv, Pending, Finds
  <1>b. UNCHANGED <<ts_to_render_target_, drawn>> => \A ts : Finds(ts)' = Finds(ts)
        BY DEF Finds
  <1>1. ASSUME NEW surface \in Surfaces, SetRenderTarget(surface) PROVE FramesInv'
    <2>1. /\ pc = "idle" /\ hw' = hw /\ drawn' = drawn
          /\ ts_to_render_target_' = Cache!Put(ts_to_render_target_, current_ts_, surface)
          BY <1>1, CallsSucceed DEF SetRenderTarget, Idle
    <2>2. CacheOK(ts_to_render_target_')
          BY DEF TypeInv
    <2>3. ASSUME NEW ts \in Pending PROVE Finds(ts)'
      <3>1. ts \in Ts /\ (current_ts_ - ts) % TsMod \in 1..Reorder
            BY <1>0, <2>1 DEF WindowInv
      <3>2. Finds(ts)
            BY DEF FramesInv
      <3>3. /\ Cache!Has(ts_to_render_target_', ts)
            /\ Cache!Peek(ts_to_render_target_', ts) = Cache!Peek(ts_to_render_target_, ts)
            BY <2>1, <2>2, <3>1, <3>2, TargetKept DEF Finds
      <3>4. QED
            BY <2>1, <3>2, <3>3 DEF Finds
    <2>4. Pending' = Pending
          BY <2>1 DEF Pending
    <2>5. QED
          BY <2>3, <2>4 DEF FramesInv
  <1>2. ASSUME NEW l, EnqueueWork(l) PROVE FramesInv'
        BY <1>2, <1>a DEF EnqueueWork, delegateVars
  <1>3. ASSUME NEW b \in Buffers, DestroyBuffer(b) \/ CreateBuffer(b) PROVE FramesInv'
        BY <1>3, <1>a DEF DestroyBuffer, CreateBuffer, delegateVars
  <1>4. CASE RunDies
        BY <1>4, <1>a DEF RunDies, delegateVars, callerVars
  <1>5. CASE Run
    <2>1. /\ pc = "idle" /\ UNCHANGED <<hw, ts_to_render_target_>>
          /\ drawn' = [drawn EXCEPT ![current_ts_] = render_target_]
          BY <1>5 DEF Run, CallRun, Idle
    <2>2. \A ts \in Pending : ts # current_ts_
      <3>1. (current_ts_ - current_ts_) % TsMod = 0
            BY <1>0, NextTsFacts
      <3>2. QED
            BY <2>1, <3>1 DEF WindowInv
    <2>3. drawn \in [Ts -> Surfaces \cup {Nil}]
          BY DEF TypeInv, TypeOK
    <2>4. \A ts \in Pending : drawn'[ts] = drawn[ts]
          BY <1>0, <2>1, <2>2, <2>3
    <2>5. Pending' = Pending
          BY <2>1 DEF Pending
    <2>6. QED
          BY <2>1, <2>4, <2>5 DEF FramesInv, Finds
  <1>6. CASE Recreate
    <2>1. Pending' = {}
          BY <1>6, SetOfEmpty DEF Recreate, HwInit, Pending
    <2>2. QED
          BY <2>1 DEF FramesInv
  <1>7. CASE InLoop
    <2>1. /\ UNCHANGED <<ts_to_render_target_, drawn>> /\ pc # "idle"
          BY <1>7, LoopFrame DEF delegateVars, callerVars
    <2>2. CASE PicDecoded
      <3>1. pc = "decode"
            BY <2>2 DEF PicDecoded, Answer
      <3>2. PICK R \in SUBSET (hw.held \cup {PicId}) : MakeReady(hw.held \cup {PicId}, R)
            BY <2>2 DEF PicDecoded
      <3>3. PicId \in Ts /\ hw.held \cup {PicId} \in SUBSET Ts /\ hw.ready = <<>>
            BY <1>0, <3>1, PicIdFacts DEF WindowInv, Pending
      <3>4. /\ hw'.held = (hw.held \cup {PicId}) \ R
            /\ ToSet(hw'.ready) \subseteq R
            /\ hw'.out = hw.out
            BY <3>2, <3>3, ReadyIsOnto
      <3>5. Pending' \subseteq Pending \cup {PicId}
            BY <3>2, <3>4 DEF Pending
      <3>6. Finds(PicId)
            BY <2>1, PictureFinds
      <3>7. QED
            BY <1>b, <2>1, <3>5, <3>6 DEF FramesInv
    <2>3. CASE PendingFlush
      <3>1. pc = "decode"
            BY <2>3 DEF PendingFlush, Answer
      <3>2. PICK R \in SUBSET hw.held : MakeReady(hw.held, R)
            BY <2>3 DEF PendingFlush
      <3>3. hw.held \in SUBSET Ts /\ hw.ready = <<>>
            BY <1>0, <3>1 DEF WindowInv, Pending
      <3>4. /\ hw'.held = hw.held \ R
            /\ ToSet(hw'.ready) \subseteq R
            /\ hw'.out = hw.out
            BY <3>2, <3>3, ReadyIsOnto
      <3>5. Pending' \subseteq Pending
            BY <3>2, <3>4 DEF Pending
      <3>6. QED
            BY <1>b, <2>1, <3>5 DEF FramesInv
    <2>4. CASE ~PicDecoded /\ ~PendingFlush
          BY <1>7, <1>b, <2>1, <2>4, PendingShrinks DEF FramesInv
    <2>5. QED
          BY <2>2, <2>3, <2>4
  <1>8. CASE RunReturns
    <2>1. /\ UNCHANGED <<ts_to_render_target_, drawn>>
          /\ hw' = IF result = "ok" THEN hw ELSE Aborted
          BY <1>8 DEF RunReturns
    <2>2. Pending' \subseteq Pending
      <3>1. CASE result = "ok"
            BY <2>1, <3>1 DEF Pending
      <3>2. CASE result # "ok"
        <4>1. hw'.held = {} /\ hw'.ready = <<>> /\ hw'.out = hw.out
              BY <2>1, <3>2 DEF Aborted, TypeInv, HwOK, HwFields
        <4>2. QED
              BY <4>1, SetOfEmpty DEF Pending
      <3>3. QED
            BY <3>1, <3>2
    <2>3. QED
          BY <1>b, <2>1, <2>2 DEF FramesInv
  <1>9. CASE UNCHANGED vars
        BY <1>9, <1>a DEF vars, delegateVars, callerVars
  <1>10. QED
         BY <1>1, <1>2, <1>3, <1>4, <1>5, <1>6, <1>7, <1>8, <1>9 DEF Next, Inside, InLoop

--------------------------------------------------------------------------------
(* The theorems about a VA-API user.                                          *)

UserInv ==
  TypeInv /\ PicturesInv /\ BuffersInv /\ InputInv /\ TimestampsInv /\ WindowInv /\ FramesInv

\* All of it holds of a new delegate.
LEMMA UserInit == Init => UserInv
  BY PicturesInit, TypeInit, BuffersInit, InputInit, TimestampsInit, WindowInit, FramesInit
  DEF UserInv

\* Every step of a VA-API user and of the library keeps all of it.
LEMMA UserStep ==
  ASSUME ByVaApi
  PROVE  UserInv /\ [Next]_vars => UserInv'
  <1> SUFFICES ASSUME UserInv, [Next]_vars PROVE UserInv'
      OBVIOUS
  <1>1. TypeInv' /\ PicturesInv' /\ BuffersInv'
        BY TypeStep, PicturesStep, BuffersStep DEF UserInv
  <1>2. InputInv' /\ TimestampsInv'
        BY InputStep, TimestampsStep DEF UserInv
  <1>3. WindowInv' /\ FramesInv'
        BY <1>1, WindowStep, FramesStep DEF UserInv
  <1>4. QED
        BY <1>1, <1>2, <1>3 DEF UserInv

\* CacheHoldsLatestTargets for a VA-API user: the list and the index of the cache agree,
\* and it holds consecutive timestamps, the latest first, also after they have wrapped.
THEOREM CacheHoldsLatestTargetsTheorem ==
  ASSUME ByVaApi
  PROVE  Spec => []CacheHoldsLatestTargets
  <1>1. UserInv => CacheHoldsLatestTargets
    <2>1. ASSUME UserInv PROVE CacheHoldsLatestTargets
      <3>1. CacheOK(ts_to_render_target_) /\ DOMAIN Entries = 1..Len(Entries)
            BY <2>1, ListType DEF UserInv
      <3>2. \A i \in 1..Len(Entries) : Entries[i].key = (Entries[1].key - (i - 1)) % TsMod
            BY <2>1 DEF UserInv, TimestampsInv
      <3>3. QED
            BY <3>1, <3>2 DEF CacheOK, CacheHoldsLatestTargets, Entries
    <2>2. QED
          BY <2>1
  <1>2. QED
        BY <1>1, UserInit, UserStep, PTL DEF Spec

\* FramesFindTheirTarget for a VA-API user and every cache larger than the reorder depth
\* of the stream: when OnFrameReady looks up the timestamp of a picture, it finds the
\* surface the picture was decoded for.
THEOREM FramesFindTheirTargetTheorem ==
  ASSUME ByVaApi
  PROVE  Spec => []FramesFindTheirTarget
  <1>1. UserInv => FramesFindTheirTarget
        BY DEF UserInv, FramesInv, Finds, Pending, FramesFindTheirTarget
  <1>2. QED
        BY <1>1, UserInit, UserStep, PTL DEF Spec

\* DiesOnlyOfOrderType for a VA-API user: no CHECK of the delegate or of its cache
\* fails and Run reads no buffer that is gone, whatever the library answers, except that
\* Run ends the process over picture parameters with pic_order_cnt_type 1 that were
\* enqueued for it.
THEOREM DiesOnlyOfOrderTypeTheorem ==
  ASSUME ByVaApi
  PROVE  Spec => []DiesOnlyOfOrderType
  <1>1. Init => DiesOnlyOfOrderType
        BY DEF Init, DiesOnlyOfOrderType
  <1>2. UserInv /\ DiesOnlyOfOrderType /\ [Next]_vars => DiesOnlyOfOrderType'
    <2>1. ASSUME UserInv, DiesOnlyOfOrderType, [Next]_vars PROVE DiesOnlyOfOrderType'
      <3>1. CASE Lives'
            BY <3>1 DEF Lives, DiesOnlyOfOrderType
      <3>2. CASE RunDies /\ died' = "order type" /\ pic_param_buffer_ \in work \cap OrderType1
            BY <3>2 DEF RunDies, delegateVars, callerVars, DiesOnlyOfOrderType
      <3>3. CASE UNCHANGED vars
            BY <2>1, <3>3 DEF vars, delegateVars, callerVars, DiesOnlyOfOrderType
      <3>4. QED
            BY <2>1, <3>1, <3>2, <3>3, RefusedOrLives DEF UserInv
    <2>2. QED
          BY <2>1
  <1>3. QED
        BY <1>1, <1>2, UserInit, UserStep, PTL DEF Spec

--------------------------------------------------------------------------------
(* The delegate implements ContextDelegate.                                  *)

\* Each picture is given to the library once, for the target of its own Run, and is at
\* one place in it.
DeliveryInv ==
  /\ pc # "idle" => render_target_ \in Surfaces /\ drawn[PicId] = render_target_
  /\ pc # "idle" /\ input # <<>> => PicId \notin Pending
  /\ IsInjective(hw.ready)
  /\ ToSet(hw.ready) \cap hw.held = {}

\* A new delegate and its library have no picture.
LEMMA DeliveryInit == Init => DeliveryInv
  BY SetOfEmpty, EmptyIsInjective DEF Init, HwInit, DeliveryInv

\* What the steps of the loop that decode nothing do to the library's pictures.
LEMMA LoopFetches ==
  ASSUME TypeInv, InLoop, ~PicDecoded, ~PendingFlush
  PROVE  /\ hw'.held = hw.held
         /\ \/ ~PicRdy /\ hw'.ready = hw.ready
            \/ PicRdy /\ hw.ready # <<>> /\ hw'.ready = Tail(hw.ready) /\ picture' = Head(hw.ready)
         /\ input' = input \/ (input # <<>> /\ Head(input) = "headers" /\ input' = Tail(input))
  <1>1. hw = [f \in HwFields |-> hw[f]]
        BY DEF TypeInv, HwOK
  <1>2. CASE HdrsRdy
        BY <1>1, <1>2 DEF HdrsRdy, HwFields, Answer, PicRdy, Draining
  <1>3. CASE WaitingForBuffer \/ DecOk
        BY <1>1, <1>3 DEF WaitingForBuffer, DecOk, HwFields, Answer, PicRdy, Draining
  <1>4. CASE StrmProcessed \/ NoParameterSets \/ Error \/ StreamNotSupported
        BY <1>4 DEF StrmProcessed, NoParameterSets, Error, StreamNotSupported, OtherStatus, Answer,
                    PicRdy, Draining
  <1>5. CASE PicRdy
        BY <1>1, <1>5 DEF PicRdy, HwFields, Draining
  <1>6. CASE Flushed \/ NoMorePictures
        BY <1>1, <1>6 DEF Flushed, NoMorePictures, HwFields, Draining, PicRdy
  <1>7. CASE PictureConsumed
        BY <1>1, <1>7 DEF PictureConsumed, HwFields, Draining, PicRdy
  <1>8. QED
        BY <1>2, <1>3, <1>4, <1>5, <1>6, <1>7 DEF InLoop

\* A picture enters the library once, in the Run that drew it, and leaves it at its turn.
LEMMA DeliveryStep ==
  ASSUME ByVaApi, TypeInv, TypeInv', BuffersInv, InputInv, WindowInv, DeliveryInv, [Next]_vars
  PROVE  DeliveryInv'
  <1>0. /\ current_ts_ \in Ts /\ Pending \subseteq Ts
        /\ hw.ready \in Seq(Ts) /\ hw.held \subseteq Ts
        BY ListType, PendingType DEF TypeInv, HwOK
  <1>a. pc' = "idle" /\ hw' = hw => DeliveryInv'
        BY DEF DeliveryInv
  <1>1. ASSUME NEW surface \in Surfaces, SetRenderTarget(surface) PROVE DeliveryInv'
        BY <1>1, <1>a DEF SetRenderTarget, Idle, runVars
  <1>2. ASSUME NEW l, EnqueueWork(l) PROVE DeliveryInv'
        BY <1>2, <1>a DEF EnqueueWork, CallEnqueueWork, Idle, runVars
  <1>3. ASSUME NEW b \in Buffers, DestroyBuffer(b) \/ CreateBuffer(b) PROVE DeliveryInv'
        BY <1>3, <1>a DEF DestroyBuffer, CreateBuffer, Idle, runVars
  <1>4. CASE RunDies
        BY <1>4, <1>a DEF RunDies, CallRun, Idle, runVars
  <1>5. CASE Run
    <2>1. /\ pc = "idle" /\ hw' = hw /\ render_target_' = render_target_ /\ work # {}
          /\ drawn' = [drawn EXCEPT ![current_ts_] = render_target_]
          BY <1>5 DEF Run, CallRun, Idle
    <2>2. PicId' = current_ts_
          BY <1>5, RunBegins
    <2>3. drawn'[current_ts_] = render_target_ /\ render_target_ \in Surfaces
          BY <1>0, <2>1 DEF TypeInv, TypeOK, BuffersInv
    <2>4. current_ts_ \notin Pending
      <3>1. (current_ts_ - current_ts_) % TsMod = 0
            BY <1>0, NextTsFacts
      <3>2. QED
            BY <2>1, <3>1 DEF WindowInv
    <2>5. Pending' = Pending
          BY <2>1 DEF Pending
    <2>6. QED
          BY <2>1, <2>2, <2>3, <2>4, <2>5 DEF DeliveryInv
  <1>6. CASE Recreate
    <2>1. pc' = "idle" /\ hw'.ready = <<>> /\ hw'.held = {}
          BY <1>6 DEF Recreate, Idle, runVars, HwInit
    <2>2. QED
          BY <2>1, EmptyIsInjective DEF DeliveryInv
  <1>7. CASE InLoop
    <2>1. /\ PicId' = PicId /\ UNCHANGED <<render_target_, drawn>> /\ pc # "idle"
          BY <1>7, LoopFrame DEF PicId, delegateVars, callerVars
    <2>2. CASE PicDecoded
      <3>1. pc = "decode" /\ CanDecode /\ input' = Tail(input)
            BY <2>2 DEF PicDecoded, Answer
      <3>2. PICK R \in SUBSET (hw.held \cup {PicId}) : MakeReady(hw.held \cup {PicId}, R)
            BY <2>2 DEF PicDecoded
      <3>3. PicId \in Ts /\ hw.held \cup {PicId} \in SUBSET Ts /\ hw.ready = <<>>
            BY <1>0, <3>1, PicIdFacts DEF WindowInv, Pending
      <3>4. /\ hw'.held = (hw.held \cup {PicId}) \ R
            /\ ToSet(hw'.ready) = R /\ IsInjective(hw'.ready)
            BY <3>2, <3>3, ReadyIsOnto
      <3>5. input' = <<>>
            BY <3>1, InputTail DEF CanDecode
      <3>6. QED
            BY <2>1, <3>4, <3>5 DEF DeliveryInv
    <2>3. CASE PendingFlush
      <3>1. pc = "decode" /\ input' = input
            BY <2>3 DEF PendingFlush, Answer
      <3>2. PICK R \in SUBSET hw.held : MakeReady(hw.held, R)
            BY <2>3 DEF PendingFlush
      <3>3. hw.held \in SUBSET Ts /\ hw.ready = <<>>
            BY <1>0, <3>1 DEF WindowInv
      <3>4. /\ hw'.held = hw.held \ R
            /\ ToSet(hw'.ready) = R /\ IsInjective(hw'.ready)
            /\ hw'.out = hw.out
            BY <3>2, <3>3, ReadyIsOnto
      <3>5. Pending' \subseteq Pending
            BY <3>2, <3>4 DEF Pending
      <3>6. QED
            BY <2>1, <3>1, <3>4, <3>5 DEF DeliveryInv
    <2>4. CASE ~PicDecoded /\ ~PendingFlush
      <3>1. /\ Pending' \subseteq Pending /\ hw'.held = hw.held
            /\ input' # <<>> => input # <<>>
            BY <1>7, <2>4, PendingShrinks, LoopFetches
      <3>2. IsInjective(hw'.ready) /\ ToSet(hw'.ready) \subseteq ToSet(hw.ready)
        <4>1. CASE hw'.ready = hw.ready
              BY <4>1 DEF DeliveryInv
        <4>2. CASE hw.ready # <<>> /\ hw'.ready = Tail(hw.ready)
              BY <1>0, <4>2, TailOfInjective DEF DeliveryInv
        <4>3. QED
              BY <1>7, <2>4, <4>1, <4>2, LoopFetches
      <3>3. QED
            BY <2>1, <3>1, <3>2 DEF DeliveryInv
    <2>5. QED
          BY <2>2, <2>3, <2>4
  <1>8. CASE RunReturns
    <2>1. pc' = "idle" /\ hw' = IF result = "ok" THEN hw ELSE Aborted
          BY <1>8 DEF RunReturns
    <2>2. Aborted.ready = <<>> /\ Aborted.held = {}
          BY DEF Aborted, TypeInv, HwOK, HwFields
    <2>3. QED
          BY <2>1, <2>2, EmptyIsInjective DEF DeliveryInv
  <1>9. CASE UNCHANGED vars
    <2>1. UNCHANGED <<pc, hw, input, render_target_, drawn, current_ts_>>
          BY <1>9 DEF vars, delegateVars, runVars, callerVars
    <2>2. PicId' = PicId /\ Pending' = Pending
          BY <2>1 DEF PicId, Pending
    <2>3. QED
          BY <2>1, <2>2 DEF DeliveryInv
  <1>10. QED
         BY <1>1, <1>2, <1>3, <1>4, <1>5, <1>6, <1>7, <1>8, <1>9 DEF Next, Inside, InLoop

\* A step that ContextDelegate does not see.
Unseen ==
  UNCHANGED <<Phase, render_target_, work, InStream, ToBeOutput, BeingOutput>>

\* Slices are in the stream until they have been taken from it.
LEMMA SlicesAreLast ==
  ASSUME NEW s \in Seq({"headers", "slices"}),
         \A i \in 1..Len(s) : s[i] = "slices" <=> i = Len(s)
  PROVE  "slices" \in ToSet(s) <=> s # <<>>
  BY DEF ToSet

\* The pictures that have not been output.
Unfetched == hw.held \cup ToSet(hw.ready)

\* Nothing is in the stream, and nothing is output, between two Runs.
LEMMA IdleFacts ==
  /\ Lives /\ pc = "idle" => Phase = "idle" /\ BeingOutput = Nil
  /\ Lives /\ pc # "idle" => Phase = "running"
  /\ input = <<>> => InStream = {}
  BY SetOfEmpty DEF Lives, Phase, BeingOutput, InStream

\* The calls other than Run.
LEMMA AbstractCalls ==
  ASSUME ByVaApi, UserInv, UserInv', Lives, Lives'
  PROVE  /\ \A surface \in Surfaces : SetRenderTarget(surface) => Abstract!SetRenderTarget(surface)
         /\ \A buffers \in SUBSET Buffers : \A list \in SetToSeqs(buffers) :
              EnqueueWork(list) => Unseen \/ \E b \in (SUBSET Buffers) \ {{}} : Abstract!EnqueueWork(b)
         /\ \A b \in Buffers : DestroyBuffer(b) \/ CreateBuffer(b) => Unseen
         /\ Recreate => Abstract!Replaced
  <1>0. TypeInv /\ BuffersInv /\ InputInv /\ InputInv' /\ WindowInv /\ TimestampsInv /\ FramesInv
        BY DEF UserInv
  <1>a. ASSUME pc = "idle", UNCHANGED <<pc, input>>
        PROVE  /\ Phase = "idle" /\ Phase' = "idle" /\ BeingOutput = Nil /\ BeingOutput' = Nil
               /\ InStream = {} /\ InStream' = {}
        BY <1>0, <1>a, IdleFacts, SetOfEmpty
        DEF InputInv, Lives, Phase, BeingOutput, InStream
  <1>b. UNCHANGED <<hw, ts_to_render_target_>> => ToBeOutput' = ToBeOutput
        BY DEF ToBeOutput, TargetOf
  <1>1. ASSUME NEW surface \in Surfaces, SetRenderTarget(surface)
        PROVE  Abstract!SetRenderTarget(surface)
    <2>1. /\ pc = "idle" /\ UNCHANGED <<pc, input, hw, work, drawn>>
          /\ work = {} /\ render_target_' = surface
          /\ ts_to_render_target_' = Cache!Put(ts_to_render_target_, current_ts_, surface)
          BY <1>0, <1>1, CallsSucceed DEF SetRenderTarget, Idle, runVars
    <2>2. CacheOK(ts_to_render_target_')
          BY DEF UserInv, TypeInv
    <2>3. ASSUME NEW ts \in Unfetched PROVE TargetOf(ts)' = TargetOf(ts)
      <3>1. ts \in Pending /\ ts \in Ts /\ (current_ts_ - ts) % TsMod \in 1..Reorder
            BY <1>0, <2>1, PendingType DEF WindowInv, Pending, Unfetched
      <3>2. Finds(ts)
            BY <1>0, <3>1 DEF FramesInv
      <3>3. /\ Cache!Has(ts_to_render_target_', ts)
            /\ Cache!Peek(ts_to_render_target_', ts) = Cache!Peek(ts_to_render_target_, ts)
            BY <1>0, <2>1, <2>2, <3>1, <3>2, TargetKept DEF Finds
      <3>4. QED
            BY <3>2, <3>3 DEF TargetOf, Finds
    <2>4. Unfetched' = Unfetched
          BY <2>1 DEF Unfetched
    <2>5. ToBeOutput' = ToBeOutput
          BY <2>3, <2>4 DEF ToBeOutput, Unfetched
    <2>6. QED
          BY <1>a, <2>1, <2>5 DEF Abstract!SetRenderTarget
  <1>2. ASSUME NEW buffers \in SUBSET Buffers, NEW list \in SetToSeqs(buffers), EnqueueWork(list)
        PROVE  Unseen \/ \E b \in (SUBSET Buffers) \ {{}} : Abstract!EnqueueWork(b)
    <2>1. /\ pc = "idle" /\ UNCHANGED <<pc, input, hw, render_target_, ts_to_render_target_>>
          /\ work' = work \cup ToSet(list) /\ ToSet(list) \cap work = {}
          /\ render_target_ # Nil
          BY <1>0, <1>2, CallsSucceed
          DEF EnqueueWork, CallEnqueueWork, Idle, runVars, EnqueueFails
    <2>2. ToSet(list) \in SUBSET Buffers
          BY ListsOfBuffers DEF ToSet
    <2>3. CASE ToSet(list) = {}
          BY <1>a, <1>b, <2>1, <2>3 DEF Unseen
    <2>4. CASE ToSet(list) # {}
          BY <1>a, <1>b, <2>1, <2>2, <2>4 DEF Abstract!EnqueueWork
    <2>5. QED
          BY <2>3, <2>4
  <1>3. ASSUME NEW b \in Buffers, DestroyBuffer(b) \/ CreateBuffer(b) PROVE Unseen
        BY <1>a, <1>b, <1>3 DEF DestroyBuffer, CreateBuffer, delegateVars, runVars, Idle, Unseen
  <1>4. ASSUME Recreate PROVE Abstract!Replaced
    <2>1. /\ pc = "idle" /\ UNCHANGED <<pc, input>>
          /\ render_target_' = Nil /\ work' = {} /\ Unfetched' = {}
          BY <1>4, SetOfEmpty DEF Recreate, Idle, runVars, Constructed, HwInit, Unfetched
    <2>2. ToBeOutput' = Abstract!NoFrames
          BY <2>1 DEF ToBeOutput, Unfetched, Abstract!NoFrames
    <2>3. QED
          BY <1>a, <2>1, <2>2 DEF Abstract!Replaced
  <1>5. QED
        BY <1>1, <1>2, <1>3, <1>4

\* Run ends the process.
LEMMA AbstractRefusal ==
  ASSUME UserInv, RunDies, died' = "order type", pic_param_buffer_ \in work \cap OrderType1
  PROVE  Abstract!Refuse
  <1>1. /\ died = "no" /\ pc = "idle" /\ pc' = "idle"
        /\ UNCHANGED <<delegateVars, runVars, hw, callerVars>>
        BY DEF RunDies, CallRun, Idle, runVars
  <1>2. UNCHANGED <<render_target_, work, InStream, ToBeOutput>>
        BY <1>1 DEF delegateVars, runVars, callerVars, InStream, ToBeOutput, TargetOf
  <1>3. /\ Phase = "idle" /\ Phase' = "refused"
        /\ BeingOutput' = BeingOutput
        BY <1>1 DEF Phase, BeingOutput
  <1>4. QED
        BY <1>2, <1>3 DEF Abstract!Refuse

\* Run and its return.
LEMMA AbstractRun ==
  ASSUME ByVaApi, UserInv, UserInv', Lives, Lives'
  PROVE  (Run => Abstract!Run) /\ (RunReturns => Abstract!RunReturns)
  <1>0. TypeInv /\ BuffersInv /\ InputInv
        BY DEF UserInv
  <1>b. UNCHANGED <<hw, ts_to_render_target_>> => ToBeOutput' = ToBeOutput
        BY DEF ToBeOutput, TargetOf
  <1>1. ASSUME Run PROVE Abstract!Run
    <2>1. /\ pc = "idle" /\ pc' = "decode" /\ Complete(work)
          /\ UNCHANGED <<hw, ts_to_render_target_, render_target_, work, pic_param_buffer_,
                         slice_param_buffers_, slice_data_buffers_>>
          BY <1>1 DEF Run, CallRun, Idle
    <2>2. Phase = "idle" /\ Phase' = "running" /\ BeingOutput = Nil /\ BeingOutput' = Nil
          BY <2>1 DEF Lives, Phase, BeingOutput
    <2>3. "slices" \in ToSet(input')
      <3>1. /\ input' \in Seq({"headers", "slices"}) /\ input' # <<>>
            /\ \A i \in 1..Len(input') : input'[i] = "slices" <=> i = Len(input')
            BY <1>0, <1>1, BitstreamHasSlices DEF UserInv, TypeInv, TypeOK
      <3>2. QED
            BY <3>1, SlicesAreLast
    <2>4. InStream' = {pic_param_buffer_} \cup ToSet(slice_param_buffers_) \cup ToSet(slice_data_buffers_)
          BY <2>1, <2>3 DEF InStream
    <2>5. InStream' \in (SUBSET work) \ {{}}
          BY <1>0, <2>1, <2>4 DEF BuffersInv, Complete
    <2>6. QED
          BY <1>b, <2>1, <2>2, <2>5 DEF Abstract!Run
  <1>2. ASSUME RunReturns PROVE Abstract!RunReturns
    <2>1. /\ pc = "end" /\ pc' = "idle" /\ input' = <<>> /\ work' = {}
          /\ hw' = IF result = "ok" THEN hw ELSE Aborted
          /\ UNCHANGED <<render_target_, ts_to_render_target_>>
          BY <1>2 DEF RunReturns
    <2>2. /\ Phase = "running" /\ Phase' = "idle" /\ BeingOutput = Nil /\ BeingOutput' = Nil
          /\ InStream' = {}
          BY <2>1, SetOfEmpty DEF Lives, Phase, BeingOutput, InStream
    <2>3. ToBeOutput' \in {ToBeOutput, Abstract!NoFrames}
      <3>1. CASE result = "ok"
            BY <1>b, <2>1, <3>1
      <3>2. CASE result # "ok"
        <4>1. hw'.held = {} /\ hw'.ready = <<>>
              BY <1>0, <2>1, <3>2 DEF Aborted, TypeInv, HwOK, HwFields
        <4>2. hw'.held \cup ToSet(hw'.ready) = {}
              BY <4>1, SetOfEmpty
        <4>3. QED
              BY <4>2 DEF ToBeOutput, Abstract!NoFrames
      <3>3. QED
            BY <3>1, <3>2
    <2>4. QED
          BY <2>1, <2>2, <2>3 DEF Abstract!RunReturns
  <1>3. QED
        BY <1>1, <1>2

\* The answers of the library: one makes a frame, one starts to output one.
LEMMA AbstractLoop ==
  ASSUME ByVaApi, UserInv, UserInv', DeliveryInv, FetchedInv, Lives, Lives', InLoop
  PROVE  Unseen \/ Abstract!EndOutput
           \/ \E ts \in Ts : Abstract!MakeFrame(ts) \/ Abstract!StartOutput(ts)
  <1>0. /\ TypeInv /\ InputInv /\ InputInv' /\ WindowInv /\ FramesInv /\ TimestampsInv
        /\ input \in Seq({"headers", "slices"}) /\ input' \in Seq({"headers", "slices"})
        /\ Pending \subseteq Ts /\ hw.ready \in Seq(Ts) /\ hw.held \subseteq Ts
        BY PendingType DEF UserInv, TypeInv, TypeOK, HwOK
  <1>1. /\ UNCHANGED <<render_target_, work, ts_to_render_target_, pic_param_buffer_,
                       slice_param_buffers_, slice_data_buffers_>>
        /\ pc # "idle" /\ pc' # "idle"
        BY LoopFrame DEF delegateVars, callerVars
  <1>2. Phase = "running" /\ Phase' = "running"
        BY <1>1 DEF Lives, Phase
  <1>3. /\ "slices" \in ToSet(input) <=> input # <<>>
        /\ "slices" \in ToSet(input') <=> input' # <<>>
        BY <1>0, SlicesAreLast DEF InputInv
  <1>4. /\ (input # <<>> <=> input' # <<>>) => InStream' = InStream
        /\ input' = <<>> => InStream' = {}
        /\ input # <<>> => InStream # {}
        BY <1>1, <1>3 DEF InStream
  <1>5. \A ts : TargetOf(ts)' = TargetOf(ts)
        BY <1>1 DEF TargetOf
  <1>6. Unfetched' = Unfetched => ToBeOutput' = ToBeOutput
        BY <1>5 DEF ToBeOutput, Unfetched
  <1>7. DOMAIN ToBeOutput = Unfetched /\ \A ts \in Unfetched : ToBeOutput[ts] = TargetOf(ts)
        BY DEF ToBeOutput, Unfetched
  <1>8. CASE PicDecoded
    <2>1. pc = "decode" /\ pc' = "next" /\ CanDecode /\ input' = Tail(input)
          BY <1>8 DEF PicDecoded, Answer
    <2>2. PICK R \in SUBSET (hw.held \cup {PicId}) : MakeReady(hw.held \cup {PicId}, R)
          BY <1>8 DEF PicDecoded
    <2>3. PicId \in Ts /\ hw.held \cup {PicId} \in SUBSET Ts /\ hw.ready = <<>>
          BY <1>0, <2>1, PicIdFacts DEF WindowInv
    <2>4. hw'.held = (hw.held \cup {PicId}) \ R /\ ToSet(hw'.ready) = R
          BY <1>0, <2>2, <2>3, ReadyIsOnto
    <2>5. Unfetched' = Unfetched \cup {PicId}
          BY <2>2, <2>3, <2>4, SetOfEmpty DEF Unfetched
    <2>6. input' = <<>> /\ input # <<>>
          BY <1>0, <2>1, InputTail DEF CanDecode
    <2>7. PicId \notin Unfetched /\ TargetOf(PicId) = render_target_
      <3>1. PicId \notin Pending /\ drawn[PicId] = render_target_
            BY <1>1, <2>6 DEF DeliveryInv
      <3>2. Finds(PicId)
            BY <1>0, <1>1, PictureFinds
      <3>3. QED
            BY <3>1, <3>2 DEF Pending, Unfetched, Finds, TargetOf
    <2>8. ToBeOutput' = [ts \in DOMAIN ToBeOutput \cup {PicId} |->
                           IF ts = PicId THEN render_target_ ELSE ToBeOutput[ts]]
      <3>1. ToBeOutput' = [ts \in Unfetched \cup {PicId} |-> TargetOf(ts)]
            BY <1>5, <2>5 DEF ToBeOutput, Unfetched
      <3>2. QED
            BY <1>7, <2>7, <3>1
    <2>9. BeingOutput = Nil /\ BeingOutput' = Nil
          BY <2>1 DEF BeingOutput
    <2>10. Abstract!MakeFrame(PicId)
           BY <1>1, <1>2, <1>4, <1>7, <2>6, <2>7, <2>8, <2>9 DEF Abstract!MakeFrame
    <2>11. QED
           BY <2>3, <2>10
  <1>9. CASE PendingFlush
    <2>1. pc = "decode" /\ pc' = "next" /\ input' = input
          BY <1>9 DEF PendingFlush, Answer
    <2>2. PICK R \in SUBSET hw.held : MakeReady(hw.held, R)
          BY <1>9 DEF PendingFlush
    <2>3. hw.held \in SUBSET Ts /\ hw.ready = <<>>
          BY <1>0, <2>1 DEF WindowInv
    <2>4. hw'.held = hw.held \ R /\ ToSet(hw'.ready) = R
          BY <1>0, <2>2, <2>3, ReadyIsOnto
    <2>5. Unfetched' = Unfetched
          BY <2>2, <2>3, <2>4, SetOfEmpty DEF Unfetched
    <2>6. BeingOutput = Nil /\ BeingOutput' = Nil
          BY <2>1 DEF BeingOutput
    <2>7. QED
          BY <1>1, <1>2, <1>4, <1>6, <2>1, <2>5, <2>6 DEF Unseen
  <1>10. CASE PicRdy
    <2>1. /\ pc = "next" /\ pc' = "frame" /\ input' = input
          /\ hw.ready # <<>> /\ hw'.ready = Tail(hw.ready) /\ hw'.held = hw.held
          /\ picture' = Head(hw.ready)
          BY <1>0, <1>10, LoopFetches DEF PicRdy, Draining, PicDecoded, PendingFlush, Answer
    <2>2. /\ Head(hw.ready) \in ToSet(hw.ready)
          /\ ToSet(hw'.ready) = ToSet(hw.ready) \ {Head(hw.ready)}
          BY <1>0, <2>1, TailOfInjective DEF DeliveryInv
    <2>3. PICK ts \in Ts : ts = Head(hw.ready)
          BY <1>0, <2>1, SeqFacts
    <2>4. Unfetched' = Unfetched \ {ts} /\ ts \in Unfetched
          BY <2>1, <2>2, <2>3 DEF Unfetched, DeliveryInv
    <2>5. ToBeOutput' = [g \in DOMAIN ToBeOutput \ {ts} |-> ToBeOutput[g]]
      <3>1. ToBeOutput' = [g \in Unfetched \ {ts} |-> TargetOf(g)]
            BY <1>5, <2>4 DEF ToBeOutput, Unfetched
      <3>2. QED
            BY <1>7, <3>1
    <2>6. BeingOutput = Nil /\ BeingOutput' = TargetOf(picture)'
          BY <2>1 DEF BeingOutput
    <2>7. BeingOutput' = ToBeOutput[ts]
          BY <1>1, <1>7, <2>1, <2>3, <2>4, <2>6 DEF TargetOf
    <2>8. Abstract!StartOutput(ts)
          BY <1>1, <1>2, <1>4, <1>7, <2>1, <2>4, <2>5, <2>6, <2>7 DEF Abstract!StartOutput
    <2>9. QED
          BY <2>8
  <1>11. CASE ~PicDecoded /\ ~PendingFlush /\ ~PicRdy
    <2>1. /\ hw'.held = hw.held /\ hw'.ready = hw.ready
          /\ input' = input \/ (input # <<>> /\ Head(input) = "headers" /\ input' = Tail(input))
          BY <1>0, <1>11, LoopFetches
    <2>2. input # <<>> <=> input' # <<>>
          BY <1>0, <2>1, InputTail
    <2>3. Unfetched' = Unfetched
          BY <2>1 DEF Unfetched
    <2>4. BeingOutput' = BeingOutput \/ (BeingOutput # Nil /\ BeingOutput' = Nil)
      <3>1. pc' # "frame"
        <4>1. ~Flushed
              BY DEF Flushed, FetchedInv
        <4>2. QED
              BY <1>11, <4>1 DEF InLoop, HdrsRdy, WaitingForBuffer, DecOk, StrmProcessed,
                 NoParameterSets, Error, StreamNotSupported, OtherStatus, Answer,
                 NoMorePictures, PictureConsumed, Draining
      <3>2. QED
            BY <3>1 DEF BeingOutput
    <2>5. QED
          BY <1>1, <1>2, <1>4, <1>6, <2>2, <2>3, <2>4 DEF Unseen, Abstract!EndOutput
  <1>12. QED
         BY <1>8, <1>9, <1>10, <1>11

\* Every step of the delegate, its caller and the library is one of ContextDelegate, or
\* unseen.
LEMMA AbstractStep ==
  ASSUME ByVaApi, UserInv, UserInv', DeliveryInv, FetchedInv, [Next]_vars
  PROVE  [Abstract!Next]_(Abstract!vars)
  <1>1. Unseen => UNCHANGED Abstract!vars
        BY DEF Unseen, Abstract!vars
  <1>2. CASE UNCHANGED vars
    <2>1. Unseen
          BY <1>2 DEF vars, delegateVars, runVars, callerVars, Unseen, Phase, InStream,
             ToBeOutput, BeingOutput, TargetOf
    <2>2. QED
          BY <1>1, <2>1
  <1>3. CASE RunDies /\ died' = "order type" /\ pic_param_buffer_ \in work \cap OrderType1
        BY <1>3, AbstractRefusal DEF Abstract!Next
  <1>4. CASE Lives /\ Lives'
    <2>1. ASSUME InLoop PROVE [Abstract!Next]_(Abstract!vars)
          BY <1>1, <1>4, <2>1, AbstractLoop DEF Abstract!Next
    <2>2. ASSUME Run \/ RunReturns PROVE [Abstract!Next]_(Abstract!vars)
          BY <1>4, <2>2, AbstractRun DEF Abstract!Next
    <2>3. ~RunDies
          BY <1>4 DEF RunDies, Lives
    <2>4. QED
          BY <1>1, <1>2, <1>4, <2>1, <2>2, <2>3, AbstractCalls
          DEF Abstract!Next, Next, Inside, InLoop
  <1>5. QED
        BY <1>2, <1>3, <1>4, RefusedOrLives DEF UserInv

\* ImplementsContextDelegate for a VA-API user and a library that never answers DEC_FLUSHED:
\* whatever else the library answers, and however pictures are reordered, a Run executes
\* what was enqueued for it only, every picture is output at most once, to the target
\* that was set for it, and no call ends the process but a Run that refuses picture
\* parameters with pic_order_cnt_type 1.
THEOREM DelegateImplementsContextDelegate ==
  ASSUME ByVaApi, "flushed" \notin Oddities
  PROVE  Spec => ImplementsContextDelegate
  <1>1. Init => UserInv /\ DeliveryInv /\ PicturesInv /\ FetchedInv
        BY UserInit, DeliveryInit, PicturesInit DEF Init
  <1>2. Init => Abstract!Init
    <2>1. ASSUME Init PROVE Abstract!Init
      <3>1. /\ died = "no" /\ pc = "idle" /\ input = <<>> /\ work = {} /\ render_target_ = Nil
            /\ hw.held \cup ToSet(hw.ready) = {}
            BY <2>1, SetOfEmpty DEF Init, Constructed, HwInit
      <3>2. ToBeOutput = Abstract!NoFrames
            BY <3>1 DEF ToBeOutput, Abstract!NoFrames
      <3>3. QED
            BY <3>1, <3>2, IdleFacts DEF Abstract!Init, Lives
    <2>2. QED
          BY <2>1
  <1>3. UserInv /\ DeliveryInv /\ PicturesInv /\ FetchedInv /\ [Next]_vars =>
          (UserInv /\ DeliveryInv /\ PicturesInv /\ FetchedInv)'
    <2>1. ASSUME UserInv, DeliveryInv, PicturesInv, FetchedInv, [Next]_vars
          PROVE  (UserInv /\ DeliveryInv /\ PicturesInv /\ FetchedInv)'
      <3>1. UserInv' /\ PicturesInv' /\ FetchedInv'
            BY <2>1, UserStep, PicturesStep, FetchedStep
      <3>2. DeliveryInv'
            BY <2>1, <3>1, DeliveryStep DEF UserInv
      <3>3. QED
            BY <3>1, <3>2
    <2>2. QED
          BY <2>1
  <1>4. UserInv /\ DeliveryInv /\ FetchedInv /\ UserInv'
          /\ [Next]_vars => [Abstract!Next]_(Abstract!vars)
        BY AbstractStep
  <1>5. QED
        BY <1>1, <1>2, <1>3, <1>4, PTL DEF Spec, ImplementsContextDelegate, Abstract!Spec
================================================================================
