--------------------------- MODULE VSDriver_lemmas ---------------------------
(***************************************************************************)
(* Lemmas for the proofs about VSDriver: the entry points as lists of      *)
(* calls.                                                                  *)
(*                                                                         *)
(* Every entry point has a Shape: what a call needs from those before it,  *)
(* the config of a context or the buffer of an image, they have got.  Every *)
(* entry point called by a careful application is Honest as well: the ids  *)
(* it passes name live objects, and it owns what it destroys.  Shape and   *)
(* Keeps hold for what is left of an entry point after each of its calls.  *)
(***************************************************************************)
EXTENDS VSDriver, ProofLemmas

Kinds == {"config", "surface", "context", "buffer", "image", "param", "slice", "backing"}

\* The kinds of object, by their names.
LEMMA KindsFacts ==
  /\ DOMAIN Kind = Kinds
  /\ \A k \in Kinds : Kind[k] \subseteq Objects
  /\ Kind["config"] = Configs /\ Kind["surface"] = Surfaces /\ Kind["context"] = Contexts
  /\ Kind["buffer"] = Buffers /\ Kind["image"] = Images
  /\ Kind["param"] = Params /\ Kind["slice"] = Slices /\ Kind["backing"] = Backings
BY DEF Kind, Kinds, Objects, Buffers

\* No two kinds of object share an allocation.
LEMMA KindsApart ==
  /\ Configs \cap Surfaces = {} /\ Configs \cap Contexts = {} /\ Configs \cap Images = {}
  /\ Surfaces \cap Contexts = {} /\ Surfaces \cap Images = {} /\ Contexts \cap Images = {}
  /\ Buffers \cap (Configs \cup Surfaces \cup Contexts \cup Images) = {}
  /\ Params \cap Slices = {} /\ Params \cap Backings = {} /\ Slices \cap Backings = {}
  /\ Nil \notin Objects
<1> DEFINE kinds == <<Configs, Surfaces, Contexts, Images, Params, Slices, Backings>>
<1>1. \A i, j \in 1..7 : i # j => kinds[i] \cap kinds[j] = {}
      BY KindsAssumption
<1>2. /\ kinds[1] = Configs /\ kinds[2] = Surfaces /\ kinds[3] = Contexts /\ kinds[4] = Images
      /\ kinds[5] = Params /\ kinds[6] = Slices /\ kinds[7] = Backings
      OBVIOUS
<1> HIDE DEF kinds
<1>3. \A i \in 1..7 : \A j \in (i + 1)..7 : kinds[i] \cap kinds[j] = {}
      BY <1>1
<1>4. QED
      BY <1>2, <1>3, NilAssumption DEF Buffers, Objects

\* There is one id more than there are objects.
LEMMA MaxObjectsType == MaxObjects \in Nat /\ Cardinality(Ids) = MaxObjects + 1 /\ IsFiniteSet(Ids)
<1>1. MaxObjects \in Nat
      BY ObjectsAssumption, FS_CardinalityType DEF MaxObjects
<1>2. QED
      BY <1>1, FS_Interval DEF Ids

\* There is an id that no live object of the kind has: there are more ids than objects.
LEMMA FreeIdFacts ==
  ASSUME NEW k \in Kinds
  PROVE  FreeId(k) \in Ids /\ Find(k, FreeId(k)) = {}
<1> DEFINE free == {i \in Ids : Find(k, i) = {}}
<1>1. free # {}
  <2>1. SUFFICES ASSUME \A i \in Ids : Find(k, i) # {} PROVE FALSE
        OBVIOUS
  <2> DEFINE f == [i \in Ids |-> CHOOSE o \in Find(k, i) : TRUE]
  <2>2. \A i \in Ids : f[i] \in Objects /\ id[f[i]] = i
        BY <2>1, KindsFacts DEF Find
  <2>3. f \in [Ids -> Objects]
        BY <2>2
  <2> HIDE DEF f
  <2>4. Cardinality(Ids) > Cardinality(Objects)
        BY MaxObjectsType DEF MaxObjects
  <2>5. \E x, y \in Ids : x # y /\ f[x] = f[y]
        BY <2>3, <2>4, MaxObjectsType, ObjectsAssumption, FS_PigeonHole
  <2>6. QED
        BY <2>2, <2>5
<1>2. free \in SUBSET Nat
      BY MaxObjectsType DEF Ids
<1> HIDE DEF free
<1>3. PICK i \in free : \A j \in free : i <= j
      BY <1>1, <1>2, LeastMember
<1>4. i \in Ids /\ Find(k, i) = {} /\ \A j \in 0..(i - 1) : Find(k, j) # {}
      BY <1>2, <1>3, MaxObjectsType DEF free, Ids
<1>5. QED
      BY <1>4, Zenon DEF FreeId

--------------------------------------------------------------------------------
(* The calls of the entry points, and their shape.                           *)

Ops         == Methods \cup ContextMethods \cup OtherMethods
Name        == [id : Int, obj : Objects \cup {Nil}]
DriverCalls == [op : Ops, kind : Kinds, id : Int, obj : Objects \cup {Nil}]

\* The last reference got before the i-th of the calls s, when the references r
\* have been got, is to an object of S.
LastIs(s, r, i, S) ==
  IF i = 1 THEN r # <<>> /\ Last(r) \in S
  ELSE s[i - 1].op = "get" /\ Kind[s[i - 1].kind] \subseteq S

HasContext(s, r, i) ==
  \/ \E n \in 1..Len(r) : r[n] \in Contexts
  \/ \E j \in 1..(i - 1) : s[j].op = "get" /\ s[j].kind = "context"

\* What is left of an entry point.
Shape(s, r) ==
  /\ s \in Seq(DriverCalls)
  /\ r \in Seq(Objects)
  /\ \A i \in 1..Len(s) :
       /\ s[i].op = "create" /\ s[i].kind = "context" => LastIs(s, r, i, Configs)
       /\ s[i].op = "create" /\ s[i].kind = "image" =>
            IF i = 1 THEN r # <<>> /\ Last(r) \in Backings ELSE s[i - 1].op = "CreateBacking"
       /\ s[i].op = "BeginPicture" => LastIs(s, r, i, Surfaces)
       /\ s[i].op \in ContextMethods => HasContext(s, r, i)
       /\ s[i].op = "CreateBacking" => i = 1 /\ r = <<>>

\* Tuples are sequences.
LEMMA TupleSeq ==
  ASSUME NEW S
  PROVE  /\ <<>> \in Seq(S)
         /\ \A a \in S : <<a>> \in Seq(S)
         /\ \A a, b \in S : <<a, b>> \in Seq(S)
         /\ \A a, b, c, d \in S : <<a, b, c, d>> \in Seq(S)
         /\ \A a, b, c, d, e \in S : <<a, b, c, d, e>> \in Seq(S)
         /\ \A a, b, c, d, e, f \in S : <<a, b, c, d, e, f>> \in Seq(S)
OBVIOUS

\* A call has the fields it is made of.
LEMMA OpType ==
  ASSUME NEW op \in Ops, NEW k \in Kinds, NEW name \in Name
  PROVE  /\ Op(op, k, name) \in DriverCalls
         /\ Op(op, k, name).op = op /\ Op(op, k, name).kind = k
         /\ Op(op, k, name).id = name.id /\ Op(op, k, name).obj = name.obj
BY DEF Op, Name, DriverCalls

\* The operations and kinds that occur.
LEMMA OpsFacts ==
  /\ Anonymous \in Name
  /\ \A op \in {"create", "exists", "get", "destroy", "BeginPicture", "RenderPicture", "Run",
                 "RunReturns", "GetData", "GetBuffer", "GetMappedBO", "CreateBacking",
                 "DestroyBacking", "Trap"} : op \in Ops
  /\ \A k \in {"config", "surface", "context", "buffer", "image", "param", "slice", "backing"} :
       k \in Kinds
BY DEF Anonymous, Name, NoId, Ops, Methods, ContextMethods, OtherMethods, Kinds

\* The fields of the calls, and what type they have.
LEMMA CallFacts ==
  /\ \A k \in Kinds, name \in Name :
       /\ Exists(k, name) \in DriverCalls /\ Exists(k, name).op = "exists" /\ Exists(k, name).kind = k
       /\ Exists(k, name).id = name.id /\ Exists(k, name).obj = name.obj
       /\ Get(k, name) \in DriverCalls /\ Get(k, name).op = "get" /\ Get(k, name).kind = k
       /\ Get(k, name).id = name.id /\ Get(k, name).obj = name.obj
       /\ Destroy(k, name) \in DriverCalls /\ Destroy(k, name).op = "destroy"
            /\ Destroy(k, name).kind = k
       /\ Destroy(k, name).id = name.id /\ Destroy(k, name).obj = name.obj
       /\ Op("DestroyBacking", k, name) \in DriverCalls
            /\ Op("DestroyBacking", k, name).op = "DestroyBacking"
       /\ Op("DestroyBacking", k, name).kind = k
       /\ Op("DestroyBacking", k, name).id = name.id /\ Op("DestroyBacking", k, name).obj = name.obj
  /\ \A k \in Kinds :
       /\ Create(k) \in DriverCalls /\ Create(k).op = "create" /\ Create(k).kind = k
       /\ Op("CreateBacking", k, Anonymous) \in DriverCalls
            /\ Op("CreateBacking", k, Anonymous).op = "CreateBacking"
  /\ \A op \in Ops : Do(op) \in DriverCalls /\ Do(op).op = op /\ Do(op).kind = "context"
BY OpType, OpsFacts DEF Exists, Get, Destroy, Create, Do

\* The elements of a concatenation.
LEMMA ConcatFacts ==
  ASSUME NEW S, NEW s \in Seq(S), NEW t \in Seq(S)
  PROVE  /\ s \o t \in Seq(S) /\ Len(s \o t) = Len(s) + Len(t)
         /\ \A i \in 1..(Len(s) + Len(t)) :
              (s \o t)[i] = IF i <= Len(s) THEN s[i] ELSE t[i - Len(s)]
OBVIOUS

\* The elements of a sequence with one element put in front.
LEMMA ConsFacts ==
  ASSUME NEW S, NEW x \in S, NEW t \in Seq(S)
  PROVE  /\ <<x>> \o t \in Seq(S) /\ Len(<<x>> \o t) = Len(t) + 1
         /\ (<<x>> \o t)[1] = x
         /\ \A i \in 1..Len(t) : (<<x>> \o t)[i + 1] = t[i]
<1> DEFINE a == <<x>>
<1>1. a \in Seq(S) /\ Len(a) = 1 /\ a[1] = x /\ Len(t) \in Nat
      OBVIOUS
<1> HIDE DEF a
<1>2. /\ a \o t \in Seq(S) /\ Len(a \o t) = Len(a) + Len(t)
      /\ \A i \in 1..(Len(a) + Len(t)) : (a \o t)[i] = IF i <= Len(a) THEN a[i] ELSE t[i - Len(a)]
      BY <1>1, ConcatFacts
<1>3. \A i \in 1..Len(t) : i + 1 \in 1..(1 + Len(t)) /\ ~(i + 1 <= 1) /\ (i + 1) - 1 = i
      BY <1>1
<1>4. QED
      BY <1>1, <1>2, <1>3 DEF a

\* One call, then those of b, then two.
LEMMA FramedFacts ==
  ASSUME NEW S, NEW x \in S, NEW b \in Seq(S), NEW y \in S, NEW z \in S
  PROVE  LET s == <<x>> \o b \o <<y, z>>
             n == Len(b)
         IN /\ s \in Seq(S) /\ Len(s) = n + 3
            /\ s[1] = x /\ \A i \in 2..(n + 1) : s[i] = b[i - 1]
            /\ s[n + 2] = y /\ s[n + 3] = z
<1> DEFINE n == Len(b)
           ab == <<x>> \o b
           c == <<y, z>>
<1>1. n \in Nat /\ <<x>> \in Seq(S) /\ Len(<<x>>) = 1 /\ <<x>>[1] = x
      OBVIOUS
<1>2. c \in Seq(S) /\ Len(c) = 2 /\ c[1] = y /\ c[2] = z
      OBVIOUS
<1>3. ab \in Seq(S) /\ Len(ab) = 1 + n
      /\ \A i \in 1..(1 + n) : ab[i] = IF i <= 1 THEN <<x>>[i] ELSE b[i - 1]
      BY <1>1, ConcatFacts
<1> HIDE DEF ab, c, n
<1>a. ab \o c \in Seq(S) /\ Len(ab \o c) = Len(ab) + Len(c)
      /\ \A i \in 1..(Len(ab) + Len(c)) :
           (ab \o c)[i] = IF i <= Len(ab) THEN ab[i] ELSE c[i - Len(ab)]
      BY <1>2, <1>3, ConcatFacts
<1>4. ab \o c \in Seq(S) /\ Len(ab \o c) = (1 + n) + 2
      /\ \A i \in 1..((1 + n) + 2) : (ab \o c)[i] = IF i <= 1 + n THEN ab[i] ELSE c[i - (1 + n)]
      BY <1>a, <1>2, <1>3
<1>5. (ab \o c)[1] = x /\ \A i \in 2..(n + 1) : (ab \o c)[i] = b[i - 1]
      BY <1>1, <1>3, <1>4
<1>6. (ab \o c)[n + 2] = y /\ (ab \o c)[n + 3] = z
  <2>1. /\ n + 2 \in 1..((1 + n) + 2) /\ ~(n + 2 <= 1 + n) /\ (n + 2) - (1 + n) = 1
        /\ n + 3 \in 1..((1 + n) + 2) /\ ~(n + 3 <= 1 + n) /\ (n + 3) - (1 + n) = 2
        BY <1>1
  <2>2. (ab \o c)[n + 2] = c[(n + 2) - (1 + n)] /\ (ab \o c)[n + 3] = c[(n + 3) - (1 + n)]
        BY <1>4, <2>1
  <2>3. QED
        BY <1>2, <2>1, <2>2
<1>7. QED
      BY <1>1, <1>4, <1>5, <1>6 DEF ab, c, n

\* vsCreateContext, call by call.
LEMMA vsCreateContextFacts ==
  ASSUME NEW config \in Name, NEW targets \in Seq(Name)
  PROVE  LET s == vsCreateContext(config, targets)
             n == Len(targets)
         IN /\ s \in Seq(DriverCalls) /\ Len(s) = n + 3
            /\ s[1] = Exists("config", config)
            /\ \A i \in 2..(n + 1) : s[i] = Exists("surface", targets[i - 1])
            /\ s[n + 2] = Get("config", config) /\ s[n + 3] = Create("context")
<1> DEFINE n == Len(targets)
           b == [i \in 1..n |-> Exists("surface", targets[i])]
<1>1. n \in Nat /\ \A i \in 1..n : targets[i] \in Name
      OBVIOUS
<1>2. b \in Seq(DriverCalls) /\ Len(b) = n /\ \A i \in 1..n : b[i] = Exists("surface", targets[i])
      BY <1>1, CallFacts, OpsFacts
<1>3. /\ Exists("config", config) \in DriverCalls /\ Get("config", config) \in DriverCalls
      /\ Create("context") \in DriverCalls
      BY CallFacts, OpsFacts
<1>4. vsCreateContext(config, targets) =
        <<Exists("config", config)>> \o b \o <<Get("config", config), Create("context")>>
      BY DEF vsCreateContext
<1> HIDE DEF b, n
<1>5. \A i \in 2..(n + 1) : i - 1 \in 1..n
      BY <1>1
<1> DEFINE s == vsCreateContext(config, targets)
<1> HIDE DEF s
<1>6. /\ s \in Seq(DriverCalls) /\ Len(s) = n + 3 /\ s[1] = Exists("config", config)
      /\ \A i \in 2..(n + 1) : s[i] = b[i - 1]
      /\ s[n + 2] = Get("config", config) /\ s[n + 3] = Create("context")
      BY <1>2, <1>3, <1>4, FramedFacts DEF s
<1>7. QED
      BY <1>2, <1>5, <1>6 DEF n, s

\* vsRenderPicture, call by call.
LEMMA vsRenderPictureFacts ==
  ASSUME NEW context \in Name, NEW list \in Seq(Name)
  PROVE  LET s == vsRenderPicture(context, list)
             n == Len(list)
         IN /\ s \in Seq(DriverCalls) /\ Len(s) = 2 * n + 3
            /\ s[1] = Exists("context", context)
            /\ \A j \in 2..(2 * n + 1) :
                 \E i \in 1..n : s[j] = Exists("buffer", list[i]) \/ s[j] = Get("buffer", list[i])
            /\ \A i \in 1..n : \E j \in 2..(2 * n + 1) : s[j] = Get("buffer", list[i])
            /\ s[2 * n + 2] = Get("context", context) /\ s[2 * n + 3] = Do("RenderPicture")
<1> DEFINE n == Len(list)
           b == [i \in 1..(2 * n) |-> IF i % 2 = 1 THEN Exists("buffer", list[(i + 1) \div 2])
                                                 ELSE Get("buffer", list[i \div 2])]
           s == vsRenderPicture(context, list)
<1>1. n \in Nat /\ \A i \in 1..n : list[i] \in Name
      OBVIOUS
<1>2. \A i \in 1..(2 * n) : (i % 2 = 1 => (i + 1) \div 2 \in 1..n) /\ (i % 2 # 1 => i \div 2 \in 1..n)
      BY <1>1
<1>3. \A i \in 1..n : (2 * i) \in 1..(2 * n) /\ (2 * i) % 2 # 1 /\ (2 * i) \div 2 = i
      BY <1>1
<1>4. b \in Seq(DriverCalls) /\ Len(b) = 2 * n
  <2>1. \A i \in 1..(2 * n) : b[i] \in DriverCalls
        BY <1>1, <1>2, CallFacts, OpsFacts
  <2>2. QED
        BY <1>1, <2>1
<1>5. /\ \A i \in 1..n : b[2 * i] = Get("buffer", list[i])
      /\ \A j \in 1..(2 * n) : \E i \in 1..n : b[j] = Exists("buffer", list[i])
           \/ b[j] = Get("buffer", list[i])
      BY <1>2, <1>3
<1>6. /\ Exists("context", context) \in DriverCalls /\ Get("context", context) \in DriverCalls
      /\ Do("RenderPicture") \in DriverCalls
      BY CallFacts, OpsFacts
<1>7. s = <<Exists("context", context)>> \o b \o <<Get("context", context), Do("RenderPicture")>>
      BY DEF vsRenderPicture
<1> HIDE DEF b, n, s
<1>8. /\ s \in Seq(DriverCalls) /\ Len(s) = 2 * n + 3 /\ s[1] = Exists("context", context)
      /\ \A i \in 2..(2 * n + 1) : s[i] = b[i - 1]
      /\ s[2 * n + 2] = Get("context", context) /\ s[2 * n + 3] = Do("RenderPicture")
      BY <1>4, <1>6, <1>7, FramedFacts
<1>9. \A i \in 2..(2 * n + 1) : i - 1 \in 1..(2 * n)
      BY <1>1
<1>10. \A i \in 1..n : 2 * i + 1 \in 2..(2 * n + 1) /\ (2 * i + 1) - 1 = 2 * i
      BY <1>1
<1>11. \A i \in 1..n : s[2 * i + 1] = Get("buffer", list[i])
      BY <1>5, <1>8, <1>10
<1>12. \A j \in 2..(2 * n + 1) :
         \E i \in 1..n : s[j] = Exists("buffer", list[i]) \/ s[j] = Get("buffer", list[i])
  <2>1. ASSUME NEW j \in 2..(2 * n + 1)
        PROVE  \E i \in 1..n : s[j] = Exists("buffer", list[i]) \/ s[j] = Get("buffer", list[i])
        BY <1>5, <1>8, <1>9
  <2>2. QED
        BY <2>1
<1>13. \A i \in 1..n : \E j \in 2..(2 * n + 1) : s[j] = Get("buffer", list[i])
       BY <1>10, <1>11
<1>14. QED
       BY <1>8, <1>12, <1>13 DEF n, s

\* A call that needs nothing got before.
Plain(a) == /\ a \in DriverCalls
            /\ a.op \notin ContextMethods /\ a.op # "CreateBacking"
            /\ a.op = "create" => a.kind \notin {"context", "image"}

\* An entry point of which no thread has done anything yet.
LEMMA ShapeIntro ==
  ASSUME NEW s \in Seq(DriverCalls),
         \A i \in 1..Len(s) : s[i].op = "create" /\ s[i].kind = "context" =>
           i > 1 /\ s[i - 1].op = "get" /\ s[i - 1].kind = "config",
         \A i \in 1..Len(s) : s[i].op = "create" /\ s[i].kind = "image" =>
           i > 1 /\ s[i - 1].op = "CreateBacking",
         \A i \in 1..Len(s) : s[i].op = "BeginPicture" =>
           i > 1 /\ s[i - 1].op = "get" /\ s[i - 1].kind = "surface",
         \A i \in 1..Len(s) : s[i].op \in ContextMethods =>
           \E j \in 1..(i - 1) : s[j].op = "get" /\ s[j].kind = "context",
         \A i \in 1..Len(s) : s[i].op = "CreateBacking" => i = 1
  PROVE  Shape(s, <<>>)
<1>1. ASSUME NEW i \in 1..Len(s), i > 1, s[i - 1].op = "get", s[i - 1].kind = "config"
      PROVE  LastIs(s, <<>>, i, Configs)
      BY <1>1, KindsFacts DEF LastIs
<1>2. ASSUME NEW i \in 1..Len(s), i > 1, s[i - 1].op = "get", s[i - 1].kind = "surface"
      PROVE  LastIs(s, <<>>, i, Surfaces)
      BY <1>2, KindsFacts DEF LastIs
<1>3. \A i \in 1..Len(s) : s[i].op \in ContextMethods => HasContext(s, <<>>, i)
      BY DEF HasContext
<1>4. <<>> \in Seq(Objects)
      BY TupleSeq
<1>5. QED
      BY <1>1, <1>2, <1>3, <1>4 DEF Shape

\* Plain calls have a shape in any order.
LEMMA PlainShape ==
  ASSUME NEW s \in Seq(DriverCalls), \A i \in 1..Len(s) : Plain(s[i])
  PROVE  Shape(s, <<>>)
<1>1. \A i \in 1..Len(s) : s[i].op # "BeginPicture" /\ s[i].op \notin ContextMethods
      BY DEF Plain, ContextMethods
<1>2. QED
      BY <1>1, ShapeIntro DEF Plain

\* One or two plain calls.
LEMMA PlainTuples ==
  /\ \A a \in DriverCalls : Plain(a) => Shape(<<a>>, <<>>)
  /\ \A a, b \in DriverCalls : Plain(a) /\ Plain(b) => Shape(<<a, b>>, <<>>)
  /\ \A a, b, c, d, e, f \in DriverCalls :
       Plain(a) /\ Plain(b) /\ Plain(c) /\ Plain(d) /\ Plain(e) /\ Plain(f) =>
         Shape(<<a, b, c, d, e, f>>, <<>>)
<1>1. ASSUME NEW a \in DriverCalls, Plain(a) PROVE Shape(<<a>>, <<>>)
  <2>1. <<a>> \in Seq(DriverCalls) /\ \A i \in 1..Len(<<a>>) : <<a>>[i] = a
        OBVIOUS
  <2>2. QED
        BY <1>1, <2>1, PlainShape
<1>2. ASSUME NEW a \in DriverCalls, NEW b \in DriverCalls, Plain(a), Plain(b) PROVE Shape(<<a, b>>, <<>>)
  <2>1. <<a, b>> \in Seq(DriverCalls) /\ \A i \in 1..Len(<<a, b>>) : <<a, b>>[i] \in {a, b}
        OBVIOUS
  <2>2. QED
        BY <1>2, <2>1, PlainShape
<1>3. ASSUME NEW a \in DriverCalls, NEW b \in DriverCalls, NEW c \in DriverCalls,
             NEW d \in DriverCalls, NEW e \in DriverCalls, NEW f \in DriverCalls,
             Plain(a), Plain(b), Plain(c), Plain(d), Plain(e), Plain(f)
      PROVE  Shape(<<a, b, c, d, e, f>>, <<>>)
  <2> DEFINE s == <<a, b, c, d, e, f>>
  <2>1. s \in Seq(DriverCalls) /\ \A i \in 1..Len(s) : s[i] \in {a, b, c, d, e, f}
        OBVIOUS
  <2>2. QED
        BY <1>3, <2>1, PlainShape
<1>4. QED
      BY <1>1, <1>2, <1>3

\* The calls that are plain.
LEMMA PlainCalls ==
  /\ \A k \in Kinds, x \in Name : /\ Plain(Exists(k, x)) /\ Plain(Get(k, x)) /\ Plain(Destroy(k, x))
                                  /\ Plain(Op("DestroyBacking", k, x))
  /\ \A k \in Kinds \ {"context", "image"} : Plain(Create(k))
  /\ \A op \in Ops \ ContextMethods : op \notin {"create", "CreateBacking"} => Plain(Do(op))
BY CallFacts, OpsFacts DEF Plain, ContextMethods

\* The entry points that consist of plain calls.
LEMMA PlainEntries ==
  /\ Shape(vsCreateConfig, <<>>)
  /\ Shape(vsQuerySurfaceStatus, <<>>) /\ Shape(vsAssociateSubpicture, <<>>)
  /\ Shape(vsDeassociateSubpicture, <<>>)
  /\ \A x \in Name :
       /\ Shape(vsDestroyConfig(x), <<>>) /\ Shape(vsQueryConfigAttributes(x), <<>>)
       /\ Shape(vsQuerySurfaceAttributes(x), <<>>)
       /\ Shape(vsSyncSurface(x), <<>>) /\ Shape(vsDeriveImage(x), <<>>)
       /\ Shape(vsPutSurface(x), <<>>)
       /\ Shape(vsDestroyContext(x), <<>>) /\ Shape(vsMapBuffer(x), <<>>)
       /\ Shape(vsDestroyBuffer(x), <<>>) /\ Shape(vsDestroyImage(x), <<>>)
       /\ Shape(vsCreateBuffer(x, "param"), <<>>) /\ Shape(vsCreateBuffer(x, "slice"), <<>>)
       /\ \A y \in Name : Shape(vsPutImage(x, y), <<>>) /\ Shape(vsGetImage(x, y), <<>>)
<1>1. \A k \in Kinds, x \in Name : /\ Exists(k, x) \in DriverCalls /\ Get(k, x) \in DriverCalls
                                   /\ Destroy(k, x) \in DriverCalls
                                   /\ Op("DestroyBacking", k, x) \in DriverCalls
      BY CallFacts
<1>2. /\ \A k \in Kinds : Create(k) \in DriverCalls
      /\ \A op \in Ops : Do(op) \in DriverCalls
      BY CallFacts
<1>3. /\ Plain(Create("config")) /\ Plain(Create("param")) /\ Plain(Create("slice"))
      /\ \A op \in {"Trap", "GetData", "GetBuffer", "GetMappedBO"} : Plain(Do(op))
      BY PlainCalls, OpsFacts DEF ContextMethods
<1>4. Shape(vsCreateConfig, <<>>)
      BY <1>2, <1>3, OpsFacts, PlainTuples DEF vsCreateConfig
<1>5. /\ Shape(vsQuerySurfaceStatus, <<>>) /\ Shape(vsAssociateSubpicture, <<>>)
      /\ Shape(vsDeassociateSubpicture, <<>>)
      BY <1>2, <1>3, OpsFacts, PlainTuples DEF vsQuerySurfaceStatus, vsAssociateSubpicture,
         vsDeassociateSubpicture
<1>6. ASSUME NEW x \in Name
      PROVE /\ Shape(vsDestroyConfig(x), <<>>) /\ Shape(vsQueryConfigAttributes(x), <<>>)
            /\ Shape(vsQuerySurfaceAttributes(x), <<>>)
            /\ Shape(vsSyncSurface(x), <<>>) /\ Shape(vsDeriveImage(x), <<>>)
            /\ Shape(vsPutSurface(x), <<>>)
      BY <1>1, <1>2, <1>3, OpsFacts, PlainTuples, PlainCalls
         DEF vsDestroyConfig, vsQueryConfigAttributes, vsQuerySurfaceAttributes, vsSyncSurface,
             vsDeriveImage, vsPutSurface
<1>7. ASSUME NEW x \in Name
      PROVE  /\ Shape(vsDestroyContext(x), <<>>) /\ Shape(vsMapBuffer(x), <<>>)
             /\ Shape(vsDestroyBuffer(x), <<>>) /\ Shape(vsDestroyImage(x), <<>>)
             /\ Shape(vsCreateBuffer(x, "param"), <<>>) /\ Shape(vsCreateBuffer(x, "slice"), <<>>)
      BY <1>1, <1>2, <1>3, OpsFacts, PlainTuples, PlainCalls
         DEF vsDestroyContext, vsMapBuffer, vsDestroyBuffer, vsDestroyImage, vsCreateBuffer
<1>8. ASSUME NEW x \in Name, NEW y \in Name
      PROVE  Shape(vsPutImage(x, y), <<>>) /\ Shape(vsGetImage(x, y), <<>>)
      BY <1>1, <1>2, <1>3, OpsFacts, PlainTuples, PlainCalls DEF vsPutImage, vsGetImage
<1>9. QED
      BY <1>4, <1>5, <1>6, <1>7, <1>8

\* vsBeginPicture gets the context and then the surface it begins the picture with.
LEMMA vsBeginPictureShape ==
  ASSUME NEW x \in Name, NEW y \in Name
  PROVE  Shape(vsBeginPicture(x, y), <<>>)
<1> DEFINE s == vsBeginPicture(x, y)
<1>1. s = <<Exists("surface", y), Exists("context", x), Get("context", x), Get("surface", y),
            Do("BeginPicture")>>
      BY DEF vsBeginPicture
<1>a. /\ Exists("surface", y) \in DriverCalls /\ Exists("context", x) \in DriverCalls
      /\ Get("context", x) \in DriverCalls /\ Get("surface", y) \in DriverCalls
      /\ Do("BeginPicture") \in DriverCalls
      BY CallFacts, OpsFacts
<1>2. s \in Seq(DriverCalls)
      BY <1>1, <1>a, TupleSeq
<1> HIDE DEF s
<1>3. /\ Len(s) = 5 /\ s[1].op = "exists" /\ s[2].op = "exists"
      /\ s[3].op = "get" /\ s[3].kind = "context" /\ s[4].op = "get" /\ s[4].kind = "surface"
      /\ s[5].op = "BeginPicture"
      BY <1>1, CallFacts, OpsFacts
<1>4. \A i \in 1..Len(s) : i = 1 \/ i = 2 \/ i = 3 \/ i = 4 \/ i = 5
      BY <1>3
<1>b. \A i \in 1..Len(s) : s[i].op \in ContextMethods \cup {"create", "CreateBacking"} => i = 5
      BY <1>3, <1>4 DEF ContextMethods
<1>c. \A i \in 1..Len(s) : s[i].op = "BeginPicture"
        => i > 1 /\ s[i - 1].op = "get" /\ s[i - 1].kind = "surface"
      BY <1>3, <1>b DEF ContextMethods
<1>d. \A i \in 1..Len(s) : s[i].op \in ContextMethods =>
        \E j \in 1..(i - 1) : s[j].op = "get" /\ s[j].kind = "context"
      BY <1>3, <1>b
<1>e. \A i \in 1..Len(s) : s[i].op \notin {"create", "CreateBacking"}
      BY <1>3, <1>b
<1>5. Shape(s, <<>>)
      BY <1>2, <1>c, <1>d, <1>e, ShapeIntro
<1>6. QED
      BY <1>5 DEF s

\* vsEndPicture gets the context it runs.
LEMMA vsEndPictureShape ==
  ASSUME NEW x \in Name
  PROVE  Shape(vsEndPicture(x), <<>>)
<1> DEFINE s == vsEndPicture(x)
<1>1. s = <<Exists("context", x), Get("context", x), Do("Run"), Do("RunReturns")>>
      BY DEF vsEndPicture
<1>a. /\ Exists("context", x) \in DriverCalls /\ Get("context", x) \in DriverCalls
      /\ Do("Run") \in DriverCalls /\ Do("RunReturns") \in DriverCalls
      BY CallFacts, OpsFacts
<1>2. s \in Seq(DriverCalls)
      BY <1>1, <1>a, TupleSeq
<1> HIDE DEF s
<1>3. /\ Len(s) = 4 /\ s[1].op = "exists" /\ s[2].op = "get" /\ s[2].kind = "context"
      /\ s[3].op = "Run" /\ s[4].op = "RunReturns"
      BY <1>1, CallFacts, OpsFacts
<1>4. \A i \in 1..Len(s) : i = 1 \/ i = 2 \/ i = 3 \/ i = 4
      BY <1>3
<1>b. \A i \in 1..Len(s) : s[i].op \notin {"create", "CreateBacking", "BeginPicture"}
      BY <1>3, <1>4
<1>c. \A i \in 1..Len(s) : s[i].op \in ContextMethods =>
        \E j \in 1..(i - 1) : s[j].op = "get" /\ s[j].kind = "context"
      BY <1>3, <1>4 DEF ContextMethods
<1>5. Shape(s, <<>>)
      BY <1>2, <1>b, <1>c, ShapeIntro
<1>6. QED
      BY <1>5 DEF s

\* vsCreateImage makes the image's buffer first.
LEMMA vsCreateImageShape == Shape(vsCreateImage, <<>>)
<1> DEFINE s == vsCreateImage
<1>1. s = <<Op("CreateBacking", "backing", Anonymous), Create("image")>>
      BY DEF vsCreateImage
<1>2. s \in Seq(DriverCalls)
      BY <1>1, CallFacts, OpsFacts, TupleSeq
<1> HIDE DEF s
<1>3. Len(s) = 2 /\ s[1].op = "CreateBacking" /\ s[2].op = "create" /\ s[2].kind = "image"
      BY <1>1, CallFacts, OpsFacts
<1>4. \A i \in 1..Len(s) : i = 1 \/ i = 2
      BY <1>3
<1>5. \A i \in 1..Len(s) : /\ s[i].op \notin ContextMethods \cup {"BeginPicture"}
                           /\ s[i].op = "CreateBacking" => i = 1
                           /\ s[i].op = "create" => i = 2 /\ s[i].kind = "image"
      BY <1>3, <1>4 DEF ContextMethods
<1>6. \A i \in 1..Len(s) : i = 2 => i > 1 /\ i - 1 = 1
      OBVIOUS
<1>7. Shape(s, <<>>)
      BY <1>2, <1>3, <1>5, <1>6, ShapeIntro
<1>8. QED
      BY <1>7 DEF s

\* vsCreateContext gets the config it creates the context with.
LEMMA vsCreateContextShape ==
  ASSUME NEW config \in Name, NEW targets \in Seq(Name)
  PROVE  Shape(vsCreateContext(config, targets), <<>>)
<1> DEFINE s == vsCreateContext(config, targets)
           n == Len(targets)
<1> HIDE DEF s, n
<1>1. /\ s \in Seq(DriverCalls) /\ Len(s) = n + 3
      /\ s[1].op = "exists"
      /\ \A i \in 2..(n + 1) : s[i] = Exists("surface", targets[i - 1])
      /\ s[n + 2].op = "get" /\ s[n + 2].kind = "config" /\ s[n + 3].op = "create"
           /\ s[n + 3].kind = "context"
      BY vsCreateContextFacts, CallFacts, OpsFacts DEF s, n
<1>2. n \in Nat /\ \A i \in 2..(n + 1) : targets[i - 1] \in Name
      BY DEF n
<1>3. \A i \in 2..(n + 1) : s[i].op = "exists"
  <2>1. \A x \in Name : Exists("surface", x).op = "exists"
        BY CallFacts, OpsFacts
  <2>2. QED
        BY <1>1, <1>2, <2>1
<1>4. \A i \in 1..Len(s) : s[i].op \in {"exists", "get", "create"} /\ (s[i].op = "create" => i = n + 3)
      BY <1>1, <1>2, <1>3
<1>5. n + 3 > 1 /\ (n + 3) - 1 = n + 2
      BY <1>2
<1>6. Shape(s, <<>>)
  <2>1. \A i \in 1..Len(s) : s[i].op \notin ContextMethods \cup {"BeginPicture", "CreateBacking"}
        BY <1>4 DEF ContextMethods
  <2>2. \A i \in 1..Len(s) : s[i].op = "create" => i > 1 /\ i - 1 = n + 2 /\ i = n + 3
        BY <1>4, <1>5
  <2>3. QED
        BY <1>1, <2>1, <2>2, ShapeIntro
<1>7. QED
      BY <1>6 DEF s

\* vsRenderPicture gets the buffers and then the context it hands them to.
LEMMA vsRenderPictureShape ==
  ASSUME NEW context \in Name, NEW list \in Seq(Name)
  PROVE  Shape(vsRenderPicture(context, list), <<>>)
<1> DEFINE s == vsRenderPicture(context, list)
           n == Len(list)
<1> HIDE DEF s, n
<1>a. /\ s \in Seq(DriverCalls) /\ Len(s) = 2 * n + 3
      /\ s[1] = Exists("context", context)
      /\ \A j \in 2..(2 * n + 1) :
           \E i \in 1..n : s[j] = Exists("buffer", list[i]) \/ s[j] = Get("buffer", list[i])
      /\ s[2 * n + 2] = Get("context", context) /\ s[2 * n + 3] = Do("RenderPicture")
      BY vsRenderPictureFacts DEF s, n
<1>1. /\ s[1].op = "exists"
      /\ s[2 * n + 2].op = "get" /\ s[2 * n + 2].kind = "context" /\ s[2 * n + 3].op = "RenderPicture"
      BY <1>a, CallFacts, OpsFacts
<1>2. n \in Nat /\ \A i \in 1..n : list[i] \in Name
      BY DEF n
<1>3. \A i \in 2..(2 * n + 1) : s[i].op \in {"exists", "get"}
  <2>1. \A x \in Name : Exists("buffer", x).op = "exists" /\ Get("buffer", x).op = "get"
        BY CallFacts, OpsFacts
  <2>2. ASSUME NEW j \in 2..(2 * n + 1) PROVE s[j].op \in {"exists", "get"}
    <3>1. PICK i \in 1..n : s[j] = Exists("buffer", list[i]) \/ s[j] = Get("buffer", list[i])
          BY <1>a
    <3>2. QED
          BY <1>2, <2>1, <3>1
  <2>3. QED
        BY <2>2
<1>4. \A i \in 1..Len(s) : /\ s[i].op \in {"exists", "get", "RenderPicture"}
                           /\ s[i].op = "RenderPicture" => i = 2 * n + 3
  <2>1. \A i \in 1..(2 * n + 3) : i = 1 \/ i \in 2..(2 * n + 1) \/ i = 2 * n + 2 \/ i = 2 * n + 3
        BY <1>2
  <2>2. \A i \in 1..(2 * n + 3) : s[i].op \in {"exists", "get"} \/ i = 2 * n + 3
        BY <1>1, <1>3, <2>1
  <2>3. \A i \in 1..(2 * n + 3) : s[i].op \in {"exists", "get"} \/ (i = 2 * n + 3
          /\ s[i].op = "RenderPicture")
        BY <1>1, <2>2
  <2>4. QED
        BY <1>a, <2>3
<1>5. 2 * n + 2 \in 1..((2 * n + 3) - 1)
      BY <1>2
<1>6. Shape(s, <<>>)
  <2>1. ASSUME NEW i \in 1..Len(s) PROVE s[i].op \notin {"create", "BeginPicture", "CreateBacking"}
    <3>1. s[i].op = "exists" \/ s[i].op = "get" \/ s[i].op = "RenderPicture"
          BY <1>4
    <3>2. QED
          BY <3>1
  <2>2. ASSUME NEW i \in 1..Len(s), s[i].op \in ContextMethods PROVE i = 2 * n + 3
    <3>1. s[i].op # "exists" /\ s[i].op # "get"
          BY <2>2 DEF ContextMethods
    <3>2. QED
          BY <1>4, <3>1
  <2>3. \A i \in 1..Len(s) : s[i].op \in ContextMethods =>
          \E j \in 1..(i - 1) : s[j].op = "get" /\ s[j].kind = "context"
        BY <1>1, <1>5, <2>2
  <2>4. QED
        BY <1>a, <2>1, <2>3, ShapeIntro
<1>7. QED
      BY <1>6 DEF s

\* vsCreateSurfaces and vsDestroySurfaces are plain, whatever their number.
LEMMA SurfacesShape ==
  /\ \A n \in Nat : Shape(vsCreateSurfaces2(n), <<>>) /\ Shape(vsCreateSurfaces(n), <<>>)
  /\ \A list \in Seq(Name) : Shape(vsDestroySurfaces(list), <<>>)
<1>1. ASSUME NEW n \in Nat PROVE Shape(vsCreateSurfaces2(n), <<>>)
  <2>1. Create("surface") \in DriverCalls /\ Plain(Create("surface"))
        BY CallFacts, PlainCalls, OpsFacts
  <2>2. vsCreateSurfaces2(n) \in Seq(DriverCalls) /\ \A i \in 1..Len(vsCreateSurfaces2(n)) :
          Plain(vsCreateSurfaces2(n)[i])
        BY <2>1 DEF vsCreateSurfaces2
  <2>3. QED
        BY <2>2, PlainShape
<1>2. ASSUME NEW list \in Seq(Name) PROVE Shape(vsDestroySurfaces(list), <<>>)
  <2>1. \A i \in 1..Len(list) : Destroy("surface", list[i]) \in DriverCalls
          /\ Plain(Destroy("surface", list[i]))
        BY CallFacts, PlainCalls, OpsFacts
  <2>2. /\ vsDestroySurfaces(list) \in Seq(DriverCalls)
        /\ \A i \in 1..Len(vsDestroySurfaces(list)) : Plain(vsDestroySurfaces(list)[i])
        BY <2>1 DEF vsDestroySurfaces
  <2>3. QED
        BY <2>2, PlainShape
<1>3. QED
      BY <1>1, <1>2 DEF vsCreateSurfaces

--------------------------------------------------------------------------------
(* A step leaves the shape.                                                  *)

MayGet(s, r, r2) ==
  \/ s[1].op \notin {"get", "CreateBacking"} /\ r2 = r
  \/ s[1].op = "get" /\ \E o \in Kind[s[1].kind] : r2 = Append(r, o)
  \/ s[1].op = "CreateBacking" /\ \E b \in Backings : r2 = <<b>>

\* The empty sequence.
LEMMA EmptyFacts ==
  ASSUME NEW S, NEW s \in Seq(S)
  PROVE  Len(s) = 0 <=> s = <<>>
OBVIOUS

\* The head and the tail of a sequence.
LEMMA TailFacts ==
  ASSUME NEW S, NEW s \in Seq(S), s # <<>>
  PROVE  /\ Head(s) = s[1] /\ Len(s) \in Nat /\ Len(s) >= 1 /\ s[1] \in S
         /\ Tail(s) \in Seq(S) /\ Len(Tail(s)) = Len(s) - 1
         /\ \A i \in 1..Len(Tail(s)) : Tail(s)[i] = s[i + 1] /\ i + 1 \in 1..Len(s)
         /\ Len(s) = 1 => Tail(s) = <<>>
         /\ Tail(s) = <<>> => Len(s) = 1
<1>1. Len(s) \in Nat /\ Len(s) >= 1 /\ Head(s) = s[1]
      OBVIOUS
<1>2. s[1] \in S
      BY <1>1
<1>3. Tail(s) \in Seq(S) /\ Len(Tail(s)) = Len(s) - 1
      BY <1>1
<1>4. \A i \in 1..(Len(s) - 1) : Tail(s)[i] = s[i + 1] /\ i + 1 \in 1..Len(s)
      BY <1>1
<1>5. Len(Tail(s)) = 0 <=> Tail(s) = <<>>
      BY <1>3, EmptyFacts
<1>6. QED
      BY <1>1, <1>2, <1>3, <1>4, <1>5

\* The elements of a sequence with one more.
LEMMA AppendFacts ==
  ASSUME NEW S, NEW r \in Seq(S), NEW o \in S
  PROVE  /\ Append(r, o) \in Seq(S) /\ Len(Append(r, o)) = Len(r) + 1 /\ Len(r) \in Nat
         /\ \A n \in 1..Len(r) : Append(r, o)[n] = r[n]
         /\ Append(r, o)[Len(r) + 1] = o
         /\ Append(r, o) # <<>> /\ Last(Append(r, o)) = o
BY DEF Last

\* Nothing is left.
LEMMA EmptyShape == Shape(<<>>, <<>>)
BY TupleSeq DEF Shape

\* What is left of an entry point after a step has the shape too.
LEMMA ShapeStep ==
  ASSUME NEW s, NEW r, NEW r2, Shape(s, r), s # <<>>, MayGet(s, r, r2)
  PROVE  Shape(Tail(s), r2)
<1> DEFINE u == Tail(s)
<1>1. s \in Seq(DriverCalls) /\ r \in Seq(Objects) /\ s[1].kind \in Kinds
  <2>1. s \in Seq(DriverCalls) /\ r \in Seq(Objects)
        BY DEF Shape
  <2>2. s[1] \in DriverCalls
        BY <2>1, TailFacts
  <2>3. QED
        BY <2>1, <2>2 DEF DriverCalls
<1>2. /\ u \in Seq(DriverCalls) /\ Len(u) = Len(s) - 1 /\ Len(s) \in Nat
      /\ \A i \in 1..Len(u) : u[i] = s[i + 1] /\ i + 1 \in 1..Len(s)
      /\ 1 \in 1..Len(s)
      BY <1>1, TailFacts
<1>3. r2 \in Seq(Objects)
  <2>1. Backings \subseteq Objects /\ Kind[s[1].kind] \subseteq Objects
        BY <1>1, KindsFacts DEF Objects, Buffers
  <2>2. QED
    <3>1. \A o \in Objects : Append(r, o) \in Seq(Objects) /\ <<o>> \in Seq(Objects)
          BY <1>1
    <3>2. QED
          BY <1>1, <2>1, <3>1, Zenon DEF MayGet
<1> HIDE DEF u
<1>4. ASSUME NEW i \in 1..Len(u), NEW S, LastIs(s, r, i + 1, S) PROVE LastIs(u, r2, i, S)
  <2>1. s[i].op = "get" /\ Kind[s[i].kind] \subseteq S
        BY <1>4 DEF LastIs
  <2>2. CASE i = 1
    <3>1. PICK o \in Kind[s[1].kind] : r2 = Append(r, o)
          BY <2>1, <2>2 DEF MayGet
    <3>2. o \in Objects
          BY <1>1, KindsFacts
    <3>3. QED
          BY <1>1, <2>1, <2>2, <3>1, <3>2, AppendFacts DEF LastIs
  <2>3. CASE i # 1
    <3>1. i - 1 \in 1..Len(u) /\ u[i - 1] = s[(i - 1) + 1]
          BY <1>2, <2>3
    <3>2. QED
          BY <2>1, <2>3, <3>1 DEF LastIs
  <2>4. QED
        BY <2>2, <2>3
<1>5. ASSUME NEW i \in 1..Len(u), u[i].op \in ContextMethods PROVE HasContext(u, r2, i)
  <2>1. HasContext(s, r, i + 1)
        BY <1>2, <1>5 DEF Shape
  <2>2. CASE \E n \in 1..Len(r) : r[n] \in Contexts
    <3>1. PICK n \in 1..Len(r) : r[n] \in Contexts
          BY <2>2
    <3>2. CASE r2 = r
          BY <3>1, <3>2 DEF HasContext
    <3>3. CASE \E o \in Kind[s[1].kind] : r2 = Append(r, o)
      <4>1. PICK o \in Objects : r2 = Append(r, o)
            BY <1>1, <3>3, KindsFacts
      <4>2. n \in 1..Len(r2) /\ r2[n] = r[n]
            BY <1>1, <4>1, AppendFacts
      <4>3. QED
            BY <3>1, <4>2 DEF HasContext
    <3>4. CASE s[1].op = "CreateBacking"
          BY <1>2, <3>1, <3>4 DEF Shape
    <3>5. QED
          BY <3>2, <3>3, <3>4 DEF MayGet
  <2>3. CASE \E j \in 1..((i + 1) - 1) : s[j].op = "get" /\ s[j].kind = "context"
    <3>1. PICK j \in 1..i : s[j].op = "get" /\ s[j].kind = "context"
          BY <2>3
    <3>2. CASE j = 1
      <4>1. PICK o \in Contexts : r2 = Append(r, o)
            BY <3>1, <3>2, KindsFacts DEF MayGet
      <4>2. o \in Objects
            BY DEF Objects
      <4>3. Len(r) + 1 \in 1..Len(r2) /\ r2[Len(r) + 1] = o
            BY <1>1, <4>1, <4>2, AppendFacts
      <4>4. QED
            BY <4>3 DEF HasContext
    <3>3. CASE j # 1
      <4>1. j - 1 \in 1..(i - 1) /\ j - 1 \in 1..Len(u) /\ u[j - 1] = s[(j - 1) + 1]
            BY <1>2, <3>3
      <4>2. QED
            BY <3>1, <4>1 DEF HasContext
    <3>4. QED
          BY <3>2, <3>3
  <2>4. QED
        BY <2>1, <2>2, <2>3 DEF HasContext
<1>6. \A i \in 1..Len(u) : u[i].op # "CreateBacking"
      BY <1>2 DEF Shape
<1>7. ASSUME NEW i \in 1..Len(u), u[i].op = "create", u[i].kind = "image"
      PROVE  IF i = 1 THEN r2 # <<>> /\ Last(r2) \in Backings ELSE u[i - 1].op = "CreateBacking"
  <2>1. s[i].op = "CreateBacking" /\ i \in 1..Len(s)
        BY <1>2, <1>7 DEF Shape
  <2>2. i = 1
        BY <2>1 DEF Shape
  <2>3. PICK b \in Backings : r2 = <<b>>
        BY <2>1, <2>2 DEF MayGet
  <2>4. <<b>> # <<>> /\ Last(<<b>>) = b
        BY DEF Last
  <2>5. QED
        BY <2>2, <2>3, <2>4
<1>8. \A i \in 1..Len(u) : /\ u[i].op = "create" /\ u[i].kind = "context" => LastIs(u, r2, i, Configs)
                           /\ u[i].op = "BeginPicture" => LastIs(u, r2, i, Surfaces)
      BY <1>2, <1>4 DEF Shape
<1>9. Shape(u, r2)
      BY <1>2, <1>3, <1>5, <1>6, <1>7, <1>8 DEF Shape
<1>10. QED
      BY <1>9 DEF u

--------------------------------------------------------------------------------
(* The state is well formed, and so is what an entry point begins with.      *)

Delegates == {<<c>> : c \in Contexts}

ObjectsInv ==
  /\ id \in [Objects -> Ids \cup {NoId}]
  /\ config_ \in [Contexts -> Configs \cup {Nil}]
  /\ render_target_ \in [Contexts -> Surfaces \cup {Nil}]
  /\ pic_param_ \in [Contexts -> Params \cup {Nil}]
  /\ slices_ \in [Contexts -> SUBSET Slices]
  /\ buffer_ \in [Images -> Backings \cup {Nil}]
  /\ \A m \in Images : Live(m) => buffer_[m] \in Backings

CallsInv ==
  /\ todo \in [Threads -> Seq(DriverCalls)]
  /\ refs \in [Threads -> Seq(Objects)]
  /\ uses \in [Threads -> SUBSET Objects]
  /\ owns \in [Threads -> SUBSET (Objects \cup Delegates)]
  /\ \A t \in Threads : /\ Shape(todo[t], refs[t])
                        /\ todo[t] = <<>> => refs[t] = <<>> /\ uses[t] = {} /\ owns[t] = {}

DriverInv ==
  /\ no_op \in NoOps
  /\ factory \in BOOLEAN /\ (state = "running" => factory)
  /\ images_lock \in Threads \cup {Nil}
  /\ state \in {"running", "closing"} \cup Died

TypeInv == ObjectsInv /\ CallsInv /\ DriverInv

\* NoId is no id.
LEMMA IdsFacts == Ids \cup {NoId} \subseteq Int /\ NoId \notin Ids
BY MaxObjectsType DEF Ids, NoId

\* The names an application passes.
LEMMA NamesFacts ==
  ASSUME ObjectsInv, NEW k \in Kinds
  PROVE  /\ Names(k) \subseteq Name
         /\ Careful => \A x \in Names(k) : x.obj \in Kind[k] /\ Live(x.obj) /\ x.id = id[x.obj]
<1>1. Kind[k] \subseteq Objects
      BY KindsFacts
<1>2. \A o \in Objects : id[o] \in Int
      BY IdsFacts DEF ObjectsInv
<1>3. CASE Careful
      BY <1>1, <1>2, <1>3 DEF Names, Name
<1>4. CASE ~Careful
      BY <1>4 DEF Names, Name
<1>5. QED
      BY <1>3, <1>4

\* The lists of names it passes.
LEMMA ListsFacts ==
  ASSUME NEW S, NEW n \in Nat, NEW list \in Lists(S, n)
  PROVE  /\ list \in Seq(S) /\ Len(list) \in 1..n /\ IsInjective(list)
         /\ \A i \in 1..Len(list) : list[i] \in S
<1>1. PICK m \in 1..n : list \in [1..m -> S]
      BY DEF Lists
<1>2. list \in Seq(S) /\ Len(list) = m
      BY <1>1
<1>3. QED
      BY <1>1, <1>2 DEF Lists

\* What it means by them.
LEMMA MeantFacts ==
  ASSUME NEW list \in Seq(Name)
  PROVE  Meant(list) \subseteq Objects
<1>1. \A i \in 1..Len(list) : list[i].obj \in Objects \cup {Nil}
  <2>1. \A i \in 1..Len(list) : list[i] \in Name
        OBVIOUS
  <2>2. QED
        BY <2>1 DEF Name
<1>2. QED
      BY <1>1 DEF Meant

\* What an entry point is called with.
Entry(calls, S, X) ==
  /\ Shape(calls, <<>>) /\ calls # <<>>
  /\ S \in SUBSET Objects /\ X \in SUBSET (Objects \cup Delegates)

Enters(t) == \E calls, S, X : Call(t, calls, S, X) /\ Entry(calls, S, X)

\* Every entry point makes a call.
LEMMA NonEmpty ==
  /\ vsCreateConfig # <<>> /\ vsCreateImage # <<>>
  /\ vsQuerySurfaceStatus # <<>> /\ vsAssociateSubpicture # <<>> /\ vsDeassociateSubpicture # <<>>
  /\ \A x : /\ vsDestroyConfig(x) # <<>> /\ vsQueryConfigAttributes(x) # <<>>
            /\ vsQuerySurfaceAttributes(x) # <<>> /\ vsSyncSurface(x) # <<>>
            /\ vsDeriveImage(x) # <<>> /\ vsPutSurface(x) # <<>> /\ vsDestroyContext(x) # <<>>
            /\ vsMapBuffer(x) # <<>> /\ vsDestroyBuffer(x) # <<>> /\ vsDestroyImage(x) # <<>>
            /\ vsEndPicture(x) # <<>>
  /\ \A x, y : /\ vsBeginPicture(x, y) # <<>> /\ vsPutImage(x, y) # <<>> /\ vsGetImage(x, y) # <<>>
               /\ vsCreateBuffer(x, y) # <<>>
BY DEF vsCreateConfig, vsCreateImage, vsQuerySurfaceStatus, vsAssociateSubpicture,
   vsDeassociateSubpicture,
  vsDestroyConfig, vsQueryConfigAttributes, vsQuerySurfaceAttributes, vsSyncSurface, vsDeriveImage,
  vsPutSurface, vsDestroyContext, vsMapBuffer, vsDestroyBuffer, vsDestroyImage, vsEndPicture, vsBeginPicture,
  vsPutImage, vsGetImage, vsCreateBuffer

\* Every entry point begins with a list of calls of the right shape.
LEMMA EntriesEnter ==
  ASSUME ObjectsInv, NEW t \in Threads, EntryPoint(t)
  PROVE  Enters(t)
<1>0. /\ \A k \in {"config", "surface", "context", "buffer", "image"} : k \in Kinds
           /\ Names(k) \subseteq Name
      BY NamesFacts, OpsFacts
<1>a. \A x \in Name : <<x>> \in Seq(Name) /\ Meant(<<x>>) \subseteq Objects
      BY TupleSeq, MeantFacts
<1>b. \A x, y \in Name : <<x, y>> \in Seq(Name) /\ Meant(<<x, y>>) \subseteq Objects
      BY TupleSeq, MeantFacts
<1>c. \A x \in Names("image") : Backing(x) \subseteq Objects
  <2>1. Careful => \A x \in Names("image") : buffer_[x.obj] \in Backings
        BY NamesFacts, OpsFacts, KindsFacts DEF ObjectsInv
  <2>2. QED
        BY <2>1 DEF Backing, Objects, Buffers
<1>d. \A x \in Names("context") : Delegate(x) \subseteq Delegates
  <2>1. Careful => \A x \in Names("context") : x.obj \in Contexts
        BY NamesFacts, OpsFacts, KindsFacts
  <2>2. QED
        BY <2>1 DEF Delegate, Delegates
<1>e. {} \in SUBSET Objects
      OBVIOUS
<1>1. CASE CallConfig(t)
  <2>1. Entry(vsCreateConfig, {}, {})
        BY PlainEntries, NonEmpty DEF Entry
  <2>2. ASSUME NEW x \in Names("config")
        PROVE  /\ Entry(vsDestroyConfig(x), {}, Meant(<<x>>))
               /\ Entry(vsQueryConfigAttributes(x), Meant(<<x>>), {})
               /\ Entry(vsQuerySurfaceAttributes(x), Meant(<<x>>), {})
        BY <1>0, <1>a, <2>2, PlainEntries, NonEmpty DEF Entry
  <2>3. QED
        BY <1>1, <2>1, <2>2 DEF CallConfig, Enters
<1>2. CASE CallSurface(t)
  <2>1. ASSUME NEW n \in 1..2 PROVE Entry(vsCreateSurfaces2(n), {}, {})
               /\ Entry(vsCreateSurfaces(n), {}, {})
    <3>1. vsCreateSurfaces2(n) # <<>>
          BY DEF vsCreateSurfaces2
    <3>2. QED
          BY <3>1, SurfacesShape DEF Entry, vsCreateSurfaces
  <2>2. ASSUME NEW list \in Lists(Names("surface"), 2) PROVE Entry(vsDestroySurfaces(list), {}, Meant(list))
    <3>1. list \in Seq(Name) /\ Len(list) >= 1
          BY <1>0, ListsFacts
    <3>2. vsDestroySurfaces(list) # <<>>
          BY <3>1 DEF vsDestroySurfaces
    <3>3. QED
          BY <3>1, <3>2, SurfacesShape, MeantFacts DEF Entry
  <2>3. ASSUME NEW x \in Names("surface")
        PROVE  /\ Entry(vsSyncSurface(x), Meant(<<x>>), {}) /\ Entry(vsPutSurface(x), Meant(<<x>>), {})
               /\ Entry(vsDeriveImage(x), Meant(<<x>>), {})
               /\ Entry(vsQuerySurfaceStatus, Meant(<<x>>), {})
               /\ Entry(vsAssociateSubpicture, Meant(<<x>>), {})
               /\ Entry(vsDeassociateSubpicture, Meant(<<x>>), {})
        BY <1>0, <1>a, <2>3, PlainEntries, NonEmpty DEF Entry
  <2>4. QED
        BY <1>2, <2>1, <2>2, <2>3 DEF CallSurface, Enters
<1>3. CASE CallContext(t)
  <2>1. ASSUME NEW config \in Names("config"), NEW targets \in {<<>>} \cup Lists(Names("surface"), 1)
        PROVE  Entry(vsCreateContext(config, targets), Meant(<<config>> \o targets), {})
    <3>1. config \in Name /\ targets \in Seq(Name)
      <4>1. CASE targets = <<>>
            BY <1>0, <4>1
      <4>2. CASE targets \in Lists(Names("surface"), 1)
            BY <1>0, <4>2, ListsFacts
      <4>3. QED
            BY <4>1, <4>2
    <3>2. <<config>> \o targets \in Seq(Name)
          BY <3>1, ConcatFacts, TupleSeq
    <3>3. vsCreateContext(config, targets) # <<>>
          BY <3>1, vsCreateContextFacts
    <3>4. QED
          BY <3>1, <3>2, <3>3, vsCreateContextShape, MeantFacts DEF Entry
  <2>2. ASSUME NEW x \in Names("context") PROVE Entry(vsDestroyContext(x), {}, Meant(<<x>>))
        BY <1>0, <1>a, <2>2, PlainEntries, NonEmpty DEF Entry
  <2>3. QED
        BY <1>3, <2>1, <2>2 DEF CallContext, Enters
<1>4. CASE CallBuffer(t)
  <2>1. ASSUME NEW x \in Names("context"), NEW k \in {"param", "slice"}
        PROVE  Entry(vsCreateBuffer(x, k), Meant(<<x>>), {})
        BY <1>0, <1>a, <2>1, PlainEntries, NonEmpty DEF Entry
  <2>2. ASSUME NEW x \in Names("buffer")
        PROVE  Entry(vsMapBuffer(x), Meant(<<x>>), {}) /\ Entry(vsDestroyBuffer(x), {}, Meant(<<x>>))
        BY <1>0, <1>a, <2>2, PlainEntries, NonEmpty DEF Entry
  <2>3. QED
        BY <1>4, <2>1, <2>2 DEF CallBuffer, Enters
<1>5. CASE CallPicture(t)
  <2>1. ASSUME NEW x \in Names("context"), NEW y \in Names("surface")
        PROVE  Entry(vsBeginPicture(x, y), Meant(<<x, y>>), Delegate(x))
        BY <1>0, <1>b, <1>d, <2>1, vsBeginPictureShape, NonEmpty DEF Entry
  <2>2. ASSUME NEW x \in Names("context"), NEW list \in Lists(Names("buffer"), 2)
        PROVE  Entry(vsRenderPicture(x, list), Meant(<<x>> \o list), Delegate(x))
    <3>1. x \in Name /\ list \in Seq(Name)
          BY <1>0, ListsFacts
    <3>2. <<x>> \o list \in Seq(Name)
          BY <3>1, ConcatFacts, TupleSeq
    <3>3. vsRenderPicture(x, list) # <<>>
          BY <3>1, vsRenderPictureFacts
    <3>4. QED
          BY <1>d, <3>1, <3>2, <3>3, vsRenderPictureShape, MeantFacts DEF Entry
  <2>3. ASSUME NEW x \in Names("context") PROVE Entry(vsEndPicture(x), Meant(<<x>>), Delegate(x))
        BY <1>0, <1>a, <1>d, <2>3, vsEndPictureShape, NonEmpty DEF Entry
  <2>4. QED
        BY <1>5, <2>1, <2>2, <2>3 DEF CallPicture, Enters
<1>6. CASE CallImage(t)
  <2>1. Entry(vsCreateImage, {}, {})
        BY vsCreateImageShape, NonEmpty DEF Entry
  <2>2. ASSUME NEW x \in Names("image") PROVE Entry(vsDestroyImage(x), {}, Meant(<<x>>) \cup Backing(x))
        BY <1>0, <1>a, <1>c, <2>2, PlainEntries, NonEmpty DEF Entry
  <2>3. ASSUME NEW x \in Names("surface"), NEW y \in Names("image")
        PROVE  /\ Entry(vsGetImage(x, y), Meant(<<x, y>>) \cup Backing(y), {})
               /\ Entry(vsPutImage(x, y), Meant(<<x, y>>) \cup Backing(y), {})
        BY <1>0, <1>b, <1>c, <2>3, PlainEntries, NonEmpty DEF Entry
  <2>4. QED
        BY <1>6, <2>1, <2>2, <2>3 DEF CallImage, Enters
<1>7. QED
      BY <1>1, <1>2, <1>3, <1>4, <1>5, <1>6 DEF EntryPoint

--------------------------------------------------------------------------------
(* What an application that keeps to the rules has called.                   *)

Trackers == {"config", "surface", "context", "buffer", "image"}
Releases == {"destroy", "DestroyBacking"}

\* The objects an entry point has got references to, or will get.
Expected(s, r) ==
  {r[n] : n \in 1..Len(r)} \cup {s[i].obj : i \in {j \in 1..Len(s) : s[j].op = "get"}}

\* What is left of an entry point called by a careful application: its calls s,
\* the references r it has got, the objects U it uses and those W it owns.
Keeps(s, r, U, W) ==
  /\ \A n \in 1..Len(r) : r[n] \in U \cup W
  /\ \A i \in 1..Len(s) :
       /\ s[i].op = "Trap" => Traps
       /\ s[i].op \in Lookups => s[i].kind \in Trackers /\ s[i].obj \in Kind[s[i].kind]
       /\ s[i].op \in {"exists", "get"} => s[i].obj \in U
       /\ s[i].op \in Releases => s[i].obj \in W /\ r = <<>> /\ U = {}
       /\ s[i].op = "DestroyBacking" =>
            /\ i = 1 /\ s[i].kind = "image" /\ Len(s) = 2
            /\ s[2].op = "destroy" /\ s[2].kind = "image" /\ s[2].obj = s[i].obj
       /\ s[i].op = "destroy" => s[i].obj \notin Backings
       /\ s[i].op = "destroy" /\ s[i].kind = "image" /\ i > 1 =>
            s[i - 1].op = "DestroyBacking" /\ s[i - 1].obj = s[i].obj
       /\ s[i].op = "CreateBacking" => Len(s) = 2 /\ s[2].op = "create" /\ s[2].kind = "image"
       /\ s[i].op = "create" /\ s[i].kind = "image" /\ i = 1 => Len(r) = 1 /\ r[1] \in W
       /\ s[i].op = "GetBuffer" => LastIs(s, r, i, Images)
       /\ s[i].op \in ContextMethods
            => \E c \in Contexts : Expected(s, r) \cap Contexts = {c} /\ <<c>> \in W
       /\ s[i].op = "RenderPicture"
            => Expected(s, r) \cap Params # {} /\ Expected(s, r) \cap Slices # {}
  /\ \A i, j \in 1..Len(s) :
       /\ s[i].op = "destroy" /\ s[j].op = "destroy" /\ i # j => s[i].obj # s[j].obj
       /\ i < j /\ s[i].op \in ContextMethods => s[i].op = "Run" /\ s[j].op = "RunReturns"

\* A thread without a call keeps to the rules.
LEMMA EmptyKeeps == Keeps(<<>>, <<>>, {}, {})
BY DEF Keeps

\* An expected object has been got or is yet to be got.
LEMMA ExpectedMember ==
  ASSUME NEW s, NEW r, NEW o
  PROVE  o \in Expected(s, r) <=> \/ \E n \in 1..Len(r) : r[n] = o
                                  \/ \E i \in 1..Len(s) : s[i].op = "get" /\ s[i].obj = o
BY DEF Expected

\* The next call gets what its name says, and owns what it creates.
Gets(s, r, r2, W2) ==
  \/ s[1].op \notin {"get", "CreateBacking"} /\ r2 = r
  \/ s[1].op = "get" /\ r2 = Append(r, s[1].obj)
  \/ s[1].op = "CreateBacking" /\ \E b \in Backings : r2 = <<b>> /\ b \in W2

\* What is expected stays the same when a reference has been got.
LEMMA ExpectedStep ==
  ASSUME NEW s \in Seq(DriverCalls), NEW r \in Seq(Objects), NEW r2, NEW W2, s # <<>>,
         Gets(s, r, r2, W2), s[1].op # "CreateBacking", s[1].op = "get" => s[1].obj \in Objects
  PROVE  Expected(Tail(s), r2) = Expected(s, r)
<1> DEFINE u == Tail(s)
<1>1. /\ Len(u) = Len(s) - 1 /\ Len(s) \in Nat /\ 1 \in 1..Len(s)
      /\ \A i \in 1..Len(u) : u[i] = s[i + 1] /\ i + 1 \in 1..Len(s)
      BY TailFacts
<1> HIDE DEF u
<1>2. \A i \in 1..Len(s) : i # 1 => i - 1 \in 1..Len(u) /\ u[i - 1] = s[i]
      BY <1>1
<1>3. CASE s[1].op # "get"
  <2>1. r2 = r
        BY <1>3 DEF Gets
  <2>2. ASSUME NEW o PROVE o \in Expected(u, r2) <=> o \in Expected(s, r)
    <3>1. (\E i \in 1..Len(u) : u[i].op = "get" /\ u[i].obj = o)
            => \E i \in 1..Len(s) : s[i].op = "get" /\ s[i].obj = o
          BY <1>1
    <3>2. (\E i \in 1..Len(s) : s[i].op = "get" /\ s[i].obj = o)
            => \E i \in 1..Len(u) : u[i].op = "get" /\ u[i].obj = o
          BY <1>2, <1>3
    <3>3. QED
          BY <2>1, <3>1, <3>2, ExpectedMember
  <2>3. QED
        BY <2>2 DEF u
<1>4. CASE s[1].op = "get"
  <2>1. r2 = Append(r, s[1].obj)
        BY <1>4 DEF Gets
  <2>2. /\ Len(r2) = Len(r) + 1 /\ Len(r) \in Nat
        /\ \A n \in 1..Len(r) : r2[n] = r[n]
        /\ r2[Len(r) + 1] = s[1].obj
        BY <1>4, <2>1, AppendFacts
  <2>3. ASSUME NEW o PROVE o \in Expected(u, r2) <=> o \in Expected(s, r)
    <3>1. (\E n \in 1..Len(r2) : r2[n] = o) <=> (\E n \in 1..Len(r) : r[n] = o) \/ o = s[1].obj
      <4>1. (\E n \in 1..Len(r2) : r2[n] = o) => (\E n \in 1..Len(r) : r[n] = o) \/ o = s[1].obj
            BY <2>2
      <4>2. (\E n \in 1..Len(r) : r[n] = o) => (\E n \in 1..Len(r2) : r2[n] = o)
            BY <2>2
      <4>3. Len(r) + 1 \in 1..Len(r2)
            BY <2>2
      <4>4. QED
            BY <2>2, <4>1, <4>2, <4>3
    <3>2. (\E i \in 1..Len(s) : s[i].op = "get" /\ s[i].obj = o) <=>
            (\E i \in 1..Len(u) : u[i].op = "get" /\ u[i].obj = o) \/ o = s[1].obj
      <4>1. (\E i \in 1..Len(s) : s[i].op = "get" /\ s[i].obj = o) =>
              (\E i \in 1..Len(u) : u[i].op = "get" /\ u[i].obj = o) \/ o = s[1].obj
            BY <1>2
      <4>2. (\E i \in 1..Len(u) : u[i].op = "get" /\ u[i].obj = o)
              => \E i \in 1..Len(s) : s[i].op = "get" /\ s[i].obj = o
            BY <1>1
      <4>3. QED
            BY <1>1, <1>4, <4>1, <4>2
    <3>3. QED
          BY <3>1, <3>2, ExpectedMember
  <2>4. QED
        BY <2>3 DEF u
<1>5. QED
      BY <1>3, <1>4

\* A thread that keeps to the rules keeps to them after its next call.
LEMMA KeepsStep ==
  ASSUME NEW s, NEW r, NEW r2, NEW U, NEW W, NEW W2, Shape(s, r), Keeps(s, r, U, W), s # <<>>,
         Gets(s, r, r2, W2), W \subseteq W2
  PROVE  Keeps(Tail(s), r2, U, W2)
<1> DEFINE u == Tail(s)
<1>0. s \in Seq(DriverCalls) /\ r \in Seq(Objects)
      BY DEF Shape
<1>1. /\ Len(u) = Len(s) - 1 /\ Len(s) \in Nat /\ 1 \in 1..Len(s)
      /\ \A i \in 1..Len(u) : u[i] = s[i + 1] /\ i + 1 \in 1..Len(s)
      BY <1>0, TailFacts
<1>a. s[1].op \in Lookups => s[1].obj \in Objects
      BY <1>1, KindsFacts, OpsFacts DEF Keeps, Trackers
<1>b. s[1].op # "CreateBacking" => Expected(u, r2) = Expected(s, r)
      BY <1>0, <1>a, ExpectedStep DEF Lookups
<1> HIDE DEF u
<1>2. ASSUME NEW n \in 1..Len(r2) PROVE r2[n] \in U \cup W2
  <2>1. CASE r2 = r
        BY <2>1 DEF Keeps
  <2>2. CASE s[1].op = "get"
    <3>1. /\ Len(r2) = Len(r) + 1 /\ Len(r) \in Nat
          /\ \A k \in 1..Len(r) : r2[k] = r[k]
          /\ r2[Len(r) + 1] = s[1].obj
          BY <1>0, <1>a, <2>2, AppendFacts DEF Gets, Lookups
    <3>2. s[1].obj \in U
          BY <1>1, <2>2 DEF Keeps
    <3>3. QED
          BY <3>1, <3>2 DEF Keeps
  <2>3. CASE s[1].op = "CreateBacking"
    <3>1. PICK b \in Backings : r2 = <<b>> /\ b \in W2
          BY <2>3 DEF Gets
    <3>2. QED
          BY <3>1
  <2>4. QED
        BY <2>1, <2>2, <2>3 DEF Gets
<1>3. ASSUME NEW i \in 1..Len(u), u[i].op \in Releases PROVE u[i].obj \in W2 /\ r2 = <<>> /\ U = {}
  <2>1. s[i + 1].op \in Releases
        BY <1>1, <1>3
  <2>2. s[i + 1].obj \in W /\ r = <<>> /\ U = {}
        BY <1>1, <2>1 DEF Keeps
  <2>3. s[1].op # "get"
        BY <1>1, <2>2 DEF Keeps
  <2>4. s[1].op # "CreateBacking"
    <3>1. SUFFICES ASSUME s[1].op = "CreateBacking" PROVE FALSE
          OBVIOUS
    <3>2. i + 1 = 2 /\ s[2].op = "create"
          BY <1>1, <3>1 DEF Keeps
    <3>3. s[2].op \in Releases
          BY <2>1, <3>2
    <3>4. QED
          BY <3>2, <3>3 DEF Releases
  <2>5. QED
        BY <1>1, <2>2, <2>3, <2>4 DEF Gets
<1>4. ASSUME NEW i \in 1..Len(u)
      PROVE  /\ u[i].op = "Trap" => Traps
             /\ u[i].op \in Lookups => u[i].kind \in Trackers /\ u[i].obj \in Kind[u[i].kind]
             /\ u[i].op \in {"exists", "get"} => u[i].obj \in U
             /\ u[i].op # "DestroyBacking"
             /\ u[i].op = "destroy" => u[i].obj \notin Backings
  <2>1. u[i] = s[i + 1] /\ i + 1 \in 1..Len(s) /\ i + 1 # 1
        BY <1>1
  <2>2. /\ s[i + 1].op = "Trap" => Traps
        /\ s[i + 1].op \in Lookups =>
             s[i + 1].kind \in Trackers /\ s[i + 1].obj \in Kind[s[i + 1].kind]
        /\ s[i + 1].op \in {"exists", "get"} => s[i + 1].obj \in U
        BY <2>1 DEF Keeps
  <2>3. s[i + 1].op # "DestroyBacking" /\ (s[i + 1].op = "destroy" => s[i + 1].obj \notin Backings)
        BY <2>1 DEF Keeps
  <2>4. QED
        BY <2>1, <2>2, <2>3
<1>5. ASSUME NEW i \in 1..Len(u), u[i].op = "destroy", u[i].kind = "image", i > 1
      PROVE  u[i - 1].op = "DestroyBacking" /\ u[i - 1].obj = u[i].obj
  <2>1. i - 1 \in 1..Len(u) /\ u[i - 1] = s[(i - 1) + 1]
        BY <1>1, <1>5
  <2>2. i + 1 > 1 /\ (i + 1) - 1 = (i - 1) + 1 /\ u[i] = s[i + 1] /\ i + 1 \in 1..Len(s)
        BY <1>1, <1>5
  <2>3. s[(i + 1) - 1].op = "DestroyBacking" /\ s[(i + 1) - 1].obj = s[i + 1].obj
        BY <1>5, <2>2 DEF Keeps
  <2>4. QED
        BY <2>1, <2>2, <2>3
<1>6. ASSUME NEW i \in 1..Len(u), u[i].op = "CreateBacking" PROVE FALSE
  <2>1. i + 1 \in 1..Len(s) /\ s[i + 1].op = "CreateBacking" /\ i + 1 # 1
        BY <1>1, <1>6
  <2>2. QED
        BY <2>1 DEF Shape
<1>7. ASSUME NEW i \in 1..Len(u), u[i].op = "create", u[i].kind = "image", i = 1
      PROVE  Len(r2) = 1 /\ r2[1] \in W2
  <2>1. u[i] = s[2] /\ 2 \in 1..Len(s)
        BY <1>1, <1>7
  <2>2. s[2 - 1].op = "CreateBacking"
        BY <1>7, <2>1 DEF Shape
  <2>3. PICK b \in Backings : r2 = <<b>> /\ b \in W2
        BY <2>2 DEF Gets
  <2>4. QED
        BY <2>3
<1>8. ASSUME NEW i \in 1..Len(u), u[i].op = "GetBuffer" PROVE LastIs(u, r2, i, Images)
  <2>1. u[i] = s[i + 1] /\ i + 1 \in 1..Len(s) /\ i + 1 # 1 /\ (i + 1) - 1 = i
        BY <1>1
  <2>2. s[i].op = "get" /\ Kind[s[i].kind] \subseteq Images
        BY <1>8, <2>1 DEF Keeps, LastIs
  <2>3. CASE i = 1
    <3>1. r2 = Append(r, s[1].obj) /\ s[1].obj \in Objects
          BY <1>a, <2>2, <2>3 DEF Gets, Lookups
    <3>2. s[1].obj \in Images
          BY <1>1, <2>2, <2>3 DEF Keeps, Lookups
    <3>3. QED
          BY <1>0, <2>3, <3>1, <3>2, AppendFacts DEF LastIs
  <2>4. CASE i # 1
    <3>1. i - 1 \in 1..Len(u) /\ u[i - 1] = s[(i - 1) + 1] /\ (i - 1) + 1 = i
          BY <1>1, <2>4
    <3>2. QED
          BY <2>2, <2>4, <3>1 DEF LastIs
  <2>5. QED
        BY <2>3, <2>4
<1>9. ASSUME NEW i \in 1..Len(u), u[i].op \in ContextMethods
      PROVE  /\ \E c \in Contexts : Expected(u, r2) \cap Contexts = {c} /\ <<c>> \in W2
             /\ u[i].op = "RenderPicture"
                  => Expected(u, r2) \cap Params # {} /\ Expected(u, r2) \cap Slices # {}
  <2>1. s[i + 1].op \in ContextMethods /\ i + 1 \in 1..Len(s) /\ u[i] = s[i + 1]
        BY <1>1, <1>9
  <2>2. s[1].op # "CreateBacking"
    <3>1. SUFFICES ASSUME s[1].op = "CreateBacking" PROVE FALSE
          OBVIOUS
    <3>2. i + 1 = 2 /\ s[2].op = "create"
          BY <1>1, <3>1 DEF Keeps
    <3>3. QED
          BY <2>1, <3>2 DEF ContextMethods
  <2>3. Expected(u, r2) = Expected(s, r)
        BY <1>b, <2>2
  <2>4. PICK c \in Contexts : Expected(s, r) \cap Contexts = {c} /\ <<c>> \in W
        BY <2>1 DEF Keeps
  <2>5. u[i].op = "RenderPicture" => Expected(s, r) \cap Params # {} /\ Expected(s, r) \cap Slices # {}
        BY <2>1 DEF Keeps
  <2>6. QED
        BY <2>3, <2>4, <2>5
<1>10. ASSUME NEW i \in 1..Len(u), NEW j \in 1..Len(u)
       PROVE  /\ u[i].op = "destroy" /\ u[j].op = "destroy" /\ i # j => u[i].obj # u[j].obj
              /\ i < j /\ u[i].op \in ContextMethods => u[i].op = "Run" /\ u[j].op = "RunReturns"
  <2>1. /\ i + 1 \in 1..Len(s) /\ j + 1 \in 1..Len(s) /\ u[i] = s[i + 1] /\ u[j] = s[j + 1]
        /\ i # j => i + 1 # j + 1
        /\ i < j => i + 1 < j + 1
        BY <1>1
  <2>2. QED
        BY <2>1 DEF Keeps
<1>11. ASSUME NEW i \in 1..Len(u)
       PROVE  /\ u[i].op = "Trap" => Traps
              /\ u[i].op \in Lookups => u[i].kind \in Trackers /\ u[i].obj \in Kind[u[i].kind]
              /\ u[i].op \in {"exists", "get"} => u[i].obj \in U
              /\ u[i].op \in Releases => u[i].obj \in W2 /\ r2 = <<>> /\ U = {}
              /\ u[i].op = "DestroyBacking" =>
                   /\ i = 1 /\ u[i].kind = "image" /\ Len(u) = 2
                   /\ u[2].op = "destroy" /\ u[2].kind = "image" /\ u[2].obj = u[i].obj
              /\ u[i].op = "destroy" => u[i].obj \notin Backings
              /\ u[i].op = "destroy" /\ u[i].kind = "image" /\ i > 1 =>
                   u[i - 1].op = "DestroyBacking" /\ u[i - 1].obj = u[i].obj
              /\ u[i].op = "CreateBacking" => Len(u) = 2 /\ u[2].op = "create" /\ u[2].kind = "image"
              /\ u[i].op = "create" /\ u[i].kind = "image" /\ i = 1 => Len(r2) = 1 /\ r2[1] \in W2
              /\ u[i].op = "GetBuffer" => LastIs(u, r2, i, Images)
              /\ u[i].op \in ContextMethods =>
                   \E c \in Contexts : Expected(u, r2) \cap Contexts = {c} /\ <<c>> \in W2
              /\ u[i].op = "RenderPicture"
                   => Expected(u, r2) \cap Params # {} /\ Expected(u, r2) \cap Slices # {}
  <2>1. u[i].op = "RenderPicture" => u[i].op \in ContextMethods
        BY DEF ContextMethods
  <2>2. QED
        BY <1>3, <1>4, <1>5, <1>6, <1>7, <1>8, <1>9, <2>1, Zenon
<1>12. Keeps(u, r2, U, W2)
       BY <1>2, <1>10, <1>11, Zenon DEF Keeps
<1>13. QED
       BY <1>12 DEF u

--------------------------------------------------------------------------------
(* The entry points of a careful application keep to the rules.              *)

\* The objects of a tracker have different ids.
UniqueIds == \A k \in Trackers : \A o, p \in Kind[k] : Live(o) /\ id[o] = id[p] => o = p

\* What a thread still looks up is there.
Named(s) ==
  \A i \in 1..Len(s) : s[i].op \in Lookups => Live(s[i].obj) /\ id[s[i].obj] = s[i].id

\* What it uses, and what it has got, is there.
Alive(r, U) == (\A o \in U : Live(o)) /\ \A n \in 1..Len(r) : Live(r[n])

\* A picture is begun when nothing is enqueued, rendered when it has been begun, run when it
\* has been rendered.
Drawing(s, r) ==
  \A i \in 1..Len(s) : \A c \in Expected(s, r) \cap Contexts :
    /\ s[i].op \in {"BeginPicture", "RenderPicture"} => slices_[c] = {}
    /\ s[i].op = "RenderPicture" => render_target_[c] # Nil
    /\ s[i].op \in {"Run", "RunReturns"} => slices_[c] # {}

\* Whoever destroys an image owns its buffer, and whoever reads it uses the buffer.
Imaging(s, r, U, W) ==
  /\ \A i \in 1..Len(s) : s[i].op = "DestroyBacking" => buffer_[s[i].obj] \in W
  /\ \A m \in Expected(s, r) \cap Images : buffer_[m] \in U

\* Enqueued buffers are not destroyed.
Spares(s) ==
  \A i \in 1..Len(s) : s[i].op = "destroy" =>
    \A c \in Contexts : Live(c) /\ slices_[c] # {} => s[i].obj \notin slices_[c] \cup {pic_param_[c]}

\* A call does not begin in the middle of the creation or destruction of an image.
Unlocked(s) == s[1].kind = "image" => s[1].op \notin {"create", "destroy"}

Honest(s, U, W) ==
  /\ Keeps(s, <<>>, U, W) /\ Named(s) /\ Alive(<<>>, U) /\ Drawing(s, <<>>)
  /\ Imaging(s, <<>>, U, W) /\ Spares(s) /\ Unlocked(s)

Known(a) == a.kind \in Trackers /\ a.obj \in Kind[a.kind] /\ Live(a.obj) /\ id[a.obj] = a.id

\* A call that creates something that is no image, or uses something other than
\* the members of an image or of a context.
UsesOnly(a, U) ==
  /\ a.op \in {"exists", "get", "create", "GetData", "GetMappedBO", "Trap"}
  /\ a.op = "Trap" => Traps
  /\ a.op \in {"exists", "get"} => Known(a) /\ a.obj \in U
  /\ a.op \in {"get", "create"} => a.kind # "image"

\* The entry points that only use the objects they are given.
LEMMA UsersAreHonest ==
  ASSUME NEW s \in Seq(DriverCalls), s # <<>>, NEW U, \A o \in U : Live(o), NEW W,
         \A i \in 1..Len(s) : UsesOnly(s[i], U)
  PROVE  Honest(s, U, W)
<1>0. 1 \in 1..Len(s)
      BY TailFacts
<1>1. \A i \in 1..Len(s) : s[i].op \notin Releases \cup ContextMethods
                              \cup {"CreateBacking", "GetBuffer", "RenderPicture", "Run"}
      BY DEF UsesOnly, Releases, ContextMethods
<1>2. \A i \in 1..Len(s) : s[i].op \in Lookups => s[i].op \in {"exists", "get"}
      BY <1>1 DEF Lookups, Releases
<1>3. \A n \in 1..Len(<<>>) : FALSE
      OBVIOUS
<1>4. Keeps(s, <<>>, U, W)
  <2>1. \A i \in 1..Len(s) : s[i].op \notin {"destroy", "DestroyBacking"}
        BY <1>1 DEF Releases
  <2>2. \A i \in 1..Len(s) :
       /\ s[i].op = "Trap" => Traps
       /\ s[i].op \in Lookups => s[i].kind \in Trackers /\ s[i].obj \in Kind[s[i].kind]
       /\ s[i].op \in {"exists", "get"} => s[i].obj \in U
       /\ s[i].op = "create" => s[i].kind # "image"
        BY <1>2 DEF UsesOnly, Known
  <2>3. QED
        BY <1>1, <1>3, <2>1, <2>2 DEF Keeps
<1>5. Named(s)
      BY <1>2 DEF Named, UsesOnly, Known
<1>6. Alive(<<>>, U) /\ Drawing(s, <<>>)
      BY <1>1, <1>3 DEF Alive, Drawing, ContextMethods
<1>7. Spares(s) /\ Unlocked(s)
      BY <1>0, <1>1 DEF Spares, Unlocked, Releases, UsesOnly
<1>8. \A m \in Expected(s, <<>>) : m \notin Images
  <2>1. ASSUME NEW m \in Expected(s, <<>>) PROVE m \notin Images
    <3>1. PICK i \in 1..Len(s) : s[i].op = "get" /\ s[i].obj = m
          BY <1>3, <2>1, ExpectedMember
    <3>2. s[i].kind \in Trackers \ {"image"} /\ m \in Kind[s[i].kind]
          BY <3>1 DEF UsesOnly, Known
    <3>3. QED
          BY <3>2, KindsFacts, KindsApart DEF Trackers
  <2>2. QED
        BY <2>1
<1>9. Imaging(s, <<>>, U, W)
      BY <1>1, <1>8 DEF Imaging, Releases
<1>10. QED
       BY <1>4, <1>5, <1>6, <1>7, <1>9 DEF Honest

DestroysOnly(a, W) ==
  /\ a.op = "destroy" /\ a.kind # "image" /\ Known(a) /\ a.obj \in W /\ a.obj \notin Backings
  /\ \A c \in Contexts : Live(c) /\ slices_[c] # {} => a.obj \notin slices_[c] \cup {pic_param_[c]}

\* The entry points that destroy objects other than images.
LEMMA DestroyersAreHonest ==
  ASSUME NEW s \in Seq(DriverCalls), s # <<>>, NEW W,
         \A i \in 1..Len(s) : DestroysOnly(s[i], W),
         \A i, j \in 1..Len(s) : i # j => s[i].obj # s[j].obj
  PROVE  Honest(s, {}, W)
<1>0. 1 \in 1..Len(s)
      BY TailFacts
<1>1. \A i \in 1..Len(s) : s[i].op = "destroy" /\ s[i].op \notin ContextMethods
      BY DEF DestroysOnly, ContextMethods
<1>3. \A n \in 1..Len(<<>>) : FALSE
      OBVIOUS
<1>4. Keeps(s, <<>>, {}, W)
  <2>1. \A i \in 1..Len(s) :
          /\ s[i].kind \in Trackers /\ s[i].obj \in Kind[s[i].kind]
          /\ s[i].obj \in W /\ s[i].obj \notin Backings /\ s[i].kind # "image"
        BY DEF DestroysOnly, Known
  <2>2. QED
        BY <1>1, <1>3, <2>1 DEF Keeps
<1>5. Named(s)
      BY <1>1 DEF Named, DestroysOnly, Known
<1>6. Alive(<<>>, {}) /\ Drawing(s, <<>>)
      BY <1>1, <1>3 DEF Alive, Drawing, ContextMethods
<1>7. Spares(s) /\ Unlocked(s)
      BY <1>0, <1>1 DEF Spares, Unlocked, DestroysOnly
<1>8. Expected(s, <<>>) = {}
      BY <1>1, <1>3 DEF Expected
<1>9. Imaging(s, <<>>, {}, W)
      BY <1>1, <1>8 DEF Imaging
<1>10. QED
       BY <1>4, <1>5, <1>6, <1>7, <1>9 DEF Honest

\* The entry points of a picture.
LEMMA PicturesAreHonest ==
  ASSUME NEW s \in Seq(DriverCalls), s # <<>>, NEW U, \A o \in U : Live(o), NEW W,
         NEW c \in Contexts, <<c>> \in W, Expected(s, <<>>) \cap Contexts = {c},
         \A i \in 1..Len(s) : s[i].op \in ContextMethods \/ UsesOnly(s[i], U),
         \A i, j \in 1..Len(s) : i < j /\ s[i].op \in ContextMethods
           => s[i].op = "Run" /\ s[j].op = "RunReturns",
         \A i \in 1..Len(s) : s[i].op = "RenderPicture" =>
           /\ Expected(s, <<>>) \cap Params # {} /\ Expected(s, <<>>) \cap Slices # {}
           /\ render_target_[c] # Nil,
         \A i \in 1..Len(s) : s[i].op \in {"BeginPicture", "RenderPicture"} => slices_[c] = {},
         \A i \in 1..Len(s) : s[i].op \in {"Run", "RunReturns"} => slices_[c] # {}
  PROVE  Honest(s, U, W)
<1>0. 1 \in 1..Len(s)
      BY TailFacts
<1>1. \A i \in 1..Len(s) : s[i].op \notin {"destroy", "DestroyBacking", "CreateBacking", "GetBuffer"}
      BY DEF UsesOnly, ContextMethods
<1>2. \A i \in 1..Len(s) : s[i].op \in Lookups \cup {"exists", "get"} =>
        s[i].op \in {"exists", "get"} /\ Known(s[i]) /\ s[i].obj \in U
      BY <1>1 DEF Lookups, UsesOnly, ContextMethods
<1>3. \A n \in 1..Len(<<>>) : FALSE
      OBVIOUS
<1>4. Keeps(s, <<>>, U, W)
  <2>1. \A i \in 1..Len(s) : s[i].op \notin Releases
        BY <1>1 DEF Releases
  <2>2. \A i \in 1..Len(s) :
       /\ s[i].op = "Trap" => Traps
       /\ s[i].op = "create" => s[i].kind # "image"
        BY DEF UsesOnly, ContextMethods
  <2>3. \A i \in 1..Len(s) :
       /\ s[i].op \in Lookups => s[i].kind \in Trackers /\ s[i].obj \in Kind[s[i].kind]
       /\ s[i].op \in {"exists", "get"} => s[i].obj \in U
        BY <1>2 DEF Known
  <2>4. \E d \in Contexts : Expected(s, <<>>) \cap Contexts = {d} /\ <<d>> \in W
        OBVIOUS
  <2>5. \A i \in 1..Len(s) : s[i].op = "RenderPicture" =>
          Expected(s, <<>>) \cap Params # {} /\ Expected(s, <<>>) \cap Slices # {}
        OBVIOUS
  <2>6. QED
        BY <1>1, <1>3, <2>1, <2>2, <2>3, <2>4, <2>5 DEF Keeps
<1>5. Named(s)
      BY <1>2 DEF Named, Known
<1>6. Alive(<<>>, U) /\ Drawing(s, <<>>)
      BY <1>1, <1>3 DEF Alive, Drawing, ContextMethods
<1>7. Spares(s) /\ Unlocked(s)
  <2>1. s[1].op = "create" => s[1].kind # "image"
        BY <1>0 DEF UsesOnly, ContextMethods
  <2>2. QED
        BY <1>0, <1>1, <2>1 DEF Spares, Unlocked
<1>8. \A m \in Expected(s, <<>>) : m \notin Images
  <2>1. ASSUME NEW m \in Expected(s, <<>>) PROVE m \notin Images
    <3>1. PICK i \in 1..Len(s) : s[i].op = "get" /\ s[i].obj = m
          BY <1>3, <2>1, ExpectedMember
    <3>2. s[i].kind \in Trackers \ {"image"} /\ m \in Kind[s[i].kind]
          BY <3>1 DEF UsesOnly, Known, ContextMethods
    <3>3. QED
          BY <3>2, KindsFacts, KindsApart DEF Trackers
  <2>2. QED
        BY <2>1
<1>9. Imaging(s, <<>>, U, W)
      BY <1>1, <1>8 DEF Imaging
<1>10. QED
       BY <1>4, <1>5, <1>6, <1>7, <1>9 DEF Honest

\* A careful application passes the ids of live objects.
LEMMA CarefulNames ==
  ASSUME ObjectsInv, Careful, NEW k \in Trackers, NEW x \in Names(k)
  PROVE  /\ x \in Name /\ x.obj \in Kind[k] /\ x.obj \in Objects /\ Live(x.obj) /\ x.id = id[x.obj]
         /\ x.obj # Nil /\ k \in Kinds
<1>1. k \in Kinds
      BY OpsFacts DEF Trackers
<1>2. QED
      BY <1>1, NamesFacts, KindsFacts, KindsApart

\* Calls with such names are to known objects.
LEMMA CarefulCalls ==
  ASSUME ObjectsInv, Careful, NEW k \in Trackers, NEW x \in Names(k), NEW U, x.obj \in U
  PROVE  /\ Known(Exists(k, x)) /\ Known(Get(k, x)) /\ Known(Destroy(k, x))
         /\ Known(Op("DestroyBacking", k, x))
         /\ UsesOnly(Exists(k, x), U)
         /\ k # "image" => UsesOnly(Get(k, x), U)
<1>1. /\ x \in Name /\ x.obj \in Kind[k] /\ Live(x.obj) /\ x.id = id[x.obj] /\ k \in Kinds
      BY CarefulNames
<1>2. Known(Exists(k, x)) /\ Known(Get(k, x)) /\ Known(Destroy(k, x))
        /\ Known(Op("DestroyBacking", k, x))
      BY <1>1, CallFacts DEF Known
<1>3. QED
      BY <1>1, <1>2, CallFacts DEF UsesOnly

\* Calls without a name.
LEMMA OtherCalls ==
  ASSUME NEW U
  PROVE  /\ \A k \in Kinds \ {"image"} : UsesOnly(Create(k), U)
         /\ \A op \in {"GetData", "GetMappedBO"} : UsesOnly(Do(op), U)
         /\ Traps => UsesOnly(Do("Trap"), U)
BY CallFacts, OpsFacts DEF UsesOnly

\* What a list of such names means.
LEMMA MeantNames ==
  ASSUME ObjectsInv, Careful, NEW list \in Seq(Name),
         \A i \in 1..Len(list) : \E k \in Trackers : list[i] \in Names(k)
  PROVE  /\ \A i \in 1..Len(list) : list[i].obj \in Meant(list)
         /\ \A o \in Meant(list) : Live(o) /\ \E i \in 1..Len(list) : o = list[i].obj
<1>1. \A i \in 1..Len(list) : Live(list[i].obj) /\ list[i].obj # Nil
      BY CarefulNames
<1>2. QED
      BY <1>1 DEF Meant

\* What one name means.
LEMMA MeantOne ==
  ASSUME ObjectsInv, Careful, NEW k \in Trackers, NEW x \in Names(k)
  PROVE  Meant(<<x>>) = {x.obj}
<1>1. x.obj # Nil
      BY CarefulNames
<1>2. QED
      BY <1>1 DEF Meant

\* What two names mean.
LEMMA MeantTwo ==
  ASSUME ObjectsInv, Careful, NEW k \in Trackers, NEW x \in Names(k), NEW l \in Trackers,
         NEW y \in Names(l)
  PROVE  Meant(<<x, y>>) = {x.obj, y.obj}
<1>1. x.obj # Nil /\ y.obj # Nil
      BY CarefulNames
<1> DEFINE list == <<x, y>>
<1>2. Len(list) = 2 /\ list[1] = x /\ list[2] = y
      OBVIOUS
<1> HIDE DEF list
<1>3. Meant(list) = {x.obj, y.obj}
      BY <1>1, <1>2 DEF Meant
<1>4. QED
      BY <1>3 DEF list

\* What a new call expects is what it will get.
LEMMA ExpectedTail ==
  ASSUME NEW s, NEW c, NEW i \in 1..Len(s), s[i].op = "get", s[i].obj = c, c \in Contexts,
         \A j \in 1..Len(s) : s[j].op = "get" /\ s[j].obj \in Contexts => s[j].obj = c
  PROVE  Expected(s, <<>>) \cap Contexts = {c}
<1>1. \A n \in 1..Len(<<>>) : FALSE
      OBVIOUS
<1>2. \A o : o \in Expected(s, <<>>) <=> \E j \in 1..Len(s) : s[j].op = "get" /\ s[j].obj = o
      BY <1>1, ExpectedMember
<1>3. QED
      BY <1>2

\* vsBeginPicture, called between two pictures.
LEMMA vsBeginPictureHonest ==
  ASSUME ObjectsInv, Careful, NEW x \in Names("context"), NEW y \in Names("surface"),
         slices_[x.obj] = {}
  PROVE  Honest(vsBeginPicture(x, y), Meant(<<x, y>>), Delegate(x))
<1> DEFINE s == vsBeginPicture(x, y)
           U == Meant(<<x, y>>)
           W == Delegate(x)
<1>0. "context" \in Trackers /\ "surface" \in Trackers
      BY DEF Trackers
<1>1. U = {x.obj, y.obj} /\ W = {<<x.obj>>}
      BY <1>0, MeantTwo DEF Delegate
<1>2. /\ x \in Name /\ y \in Name /\ Live(x.obj) /\ Live(y.obj)
      /\ x.obj \in Contexts /\ y.obj \in Surfaces
      BY <1>0, CarefulNames, KindsFacts
<1>3. s = <<Exists("surface", y), Exists("context", x), Get("context", x), Get("surface", y),
            Do("BeginPicture")>>
      BY DEF vsBeginPicture
<1>4. /\ UsesOnly(Exists("surface", y), U) /\ UsesOnly(Exists("context", x), U)
      /\ UsesOnly(Get("context", x), U) /\ UsesOnly(Get("surface", y), U)
      BY <1>0, <1>1, CarefulCalls
<1>5. s \in Seq(DriverCalls)
      BY <1>2, vsBeginPictureShape DEF Shape
<1>6. /\ Len(s) = 5 /\ UsesOnly(s[1], U) /\ UsesOnly(s[2], U) /\ UsesOnly(s[3], U) /\ UsesOnly(s[4], U)
      /\ s[5] = Do("BeginPicture") /\ s[3] = Get("context", x) /\ s[4] = Get("surface", y)
      /\ s[1] = Exists("surface", y) /\ s[2] = Exists("context", x)
      BY <1>3, <1>4
<1>7. s # <<>>
      BY <1>3
<1> HIDE DEF s, U, W
<1>8. /\ s[1].op = "exists" /\ s[2].op = "exists" /\ s[3].op = "get" /\ s[3].obj = x.obj
      /\ s[4].op = "get" /\ s[4].obj = y.obj /\ s[5].op = "BeginPicture"
      BY <1>2, <1>6, CallFacts, OpsFacts
<1>9. \A i \in 1..Len(s) : i = 1 \/ i = 2 \/ i = 3 \/ i = 4 \/ i = 5
      BY <1>6
<1>10. \A i \in 1..Len(s) : /\ s[i].op \in ContextMethods => i = 5
                            /\ s[i].op \notin {"RenderPicture", "Run", "RunReturns"}
                            /\ s[i].op \in ContextMethods \/ UsesOnly(s[i], U)
       BY <1>6, <1>8, <1>9 DEF ContextMethods
<1>11. y.obj \notin Contexts
       BY <1>2, KindsApart
<1>12. 3 \in 1..Len(s) /\ \A i \in 1..Len(s) : s[i].op = "get" /\ s[i].obj \in Contexts
         => s[i].obj = x.obj
       BY <1>6, <1>8, <1>9, <1>11
<1>13. Expected(s, <<>>) \cap Contexts = {x.obj}
       BY <1>2, <1>8, <1>12, ExpectedTail
<1>14. \A i, j \in 1..Len(s) : i < j /\ s[i].op \in ContextMethods => FALSE
       BY <1>6, <1>10
<1>15. (\A o \in U : Live(o)) /\ <<x.obj>> \in W
       BY <1>1, <1>2
<1>16. Honest(s, U, W)
       BY <1>2, <1>5, <1>7, <1>10, <1>13, <1>14, <1>15, PicturesAreHonest
<1>17. QED
       BY <1>16 DEF s, U, W

\* vsEndPicture, called when slices are enqueued.
LEMMA vsEndPictureHonest ==
  ASSUME ObjectsInv, Careful, NEW x \in Names("context"), slices_[x.obj] # {}
  PROVE  Honest(vsEndPicture(x), Meant(<<x>>), Delegate(x))
<1> DEFINE s == vsEndPicture(x)
           U == Meant(<<x>>)
           W == Delegate(x)
<1>0. "context" \in Trackers
      BY DEF Trackers
<1>1. U = {x.obj} /\ W = {<<x.obj>>}
      BY <1>0, MeantOne DEF Delegate
<1>2. x \in Name /\ Live(x.obj) /\ x.obj \in Contexts
      BY <1>0, CarefulNames, KindsFacts
<1>3. s = <<Exists("context", x), Get("context", x), Do("Run"), Do("RunReturns")>>
      BY DEF vsEndPicture
<1>4. UsesOnly(Exists("context", x), U) /\ UsesOnly(Get("context", x), U)
      BY <1>0, <1>1, CarefulCalls
<1>5. s \in Seq(DriverCalls)
      BY <1>2, vsEndPictureShape DEF Shape
<1>6. /\ Len(s) = 4 /\ UsesOnly(s[1], U) /\ UsesOnly(s[2], U)
      /\ s[1] = Exists("context", x) /\ s[2] = Get("context", x) /\ s[3] = Do("Run")
           /\ s[4] = Do("RunReturns")
      BY <1>3, <1>4
<1>7. s # <<>>
      BY <1>3
<1> HIDE DEF s, U, W
<1>8. /\ s[1].op = "exists" /\ s[2].op = "get" /\ s[2].obj = x.obj
      /\ s[3].op = "Run" /\ s[4].op = "RunReturns"
      BY <1>2, <1>6, CallFacts, OpsFacts
<1>9. \A i \in 1..Len(s) : i = 1 \/ i = 2 \/ i = 3 \/ i = 4
      BY <1>6
<1>10. \A i \in 1..Len(s) : /\ s[i].op \in ContextMethods => i = 3 \/ i = 4
                            /\ s[i].op \notin {"BeginPicture", "RenderPicture"}
                            /\ s[i].op \in ContextMethods \/ UsesOnly(s[i], U)
       BY <1>6, <1>8, <1>9 DEF ContextMethods
<1>12. 2 \in 1..Len(s) /\ \A i \in 1..Len(s) : s[i].op = "get" /\ s[i].obj \in Contexts
         => s[i].obj = x.obj
       BY <1>6, <1>8, <1>9
<1>13. Expected(s, <<>>) \cap Contexts = {x.obj}
       BY <1>2, <1>8, <1>12, ExpectedTail
<1>14. \A i, j \in 1..Len(s) : i < j /\ s[i].op \in ContextMethods
         => s[i].op = "Run" /\ s[j].op = "RunReturns"
       BY <1>6, <1>8, <1>9, <1>10
<1>15. (\A o \in U : Live(o)) /\ <<x.obj>> \in W
       BY <1>1, <1>2
<1>16. Honest(s, U, W)
       BY <1>2, <1>5, <1>7, <1>10, <1>13, <1>14, <1>15, PicturesAreHonest
<1>17. QED
       BY <1>16 DEF s, U, W

\* vsRenderPicture, called when the picture is begun and nothing enqueued.
LEMMA vsRenderPictureHonest ==
  ASSUME ObjectsInv, Careful, NEW x \in Names("context"), NEW list \in Lists(Names("buffer"), 2),
         render_target_[x.obj] # Nil, slices_[x.obj] = {},
         Meant(list) \cap Params # {}, Meant(list) \cap Slices # {}
  PROVE  Honest(vsRenderPicture(x, list), Meant(<<x>> \o list), Delegate(x))
<1> DEFINE s == vsRenderPicture(x, list)
           U == Meant(<<x>> \o list)
           W == Delegate(x)
           n == Len(list)
<1>0. "context" \in Trackers /\ "buffer" \in Trackers
      BY DEF Trackers
<1>1. /\ list \in Seq(Names("buffer")) /\ n \in Nat /\ \A i \in 1..n : list[i] \in Names("buffer")
      BY ListsFacts
<1>2. x \in Name /\ Live(x.obj) /\ x.obj \in Contexts
      BY <1>0, CarefulNames, KindsFacts
<1>3. \A i \in 1..n : list[i] \in Name /\ Live(list[i].obj) /\ list[i].obj \in Buffers
      BY <1>0, <1>1, CarefulNames, KindsFacts
<1>4. list \in Seq(Name)
      BY <1>1, <1>3
<1>5. /\ <<x>> \o list \in Seq(Name) /\ Len(<<x>> \o list) = n + 1
      /\ (<<x>> \o list)[1] = x /\ \A i \in 1..n : (<<x>> \o list)[i + 1] = list[i]
      BY <1>1, <1>2, <1>4, ConsFacts
<1>6. /\ x.obj \in U /\ \A i \in 1..n : list[i].obj \in U
      /\ \A o \in U : Live(o)
  <2>1. \A i \in 1..(n + 1) : \E k \in Trackers : (<<x>> \o list)[i] \in Names(k)
    <3>1. \A i \in 1..(n + 1) : i = 1 \/ (i - 1 \in 1..n /\ (i - 1) + 1 = i)
          BY <1>1
    <3>2. QED
          BY <1>0, <1>1, <1>5, <3>1
  <2> DEFINE b == <<x>> \o list
  <2> HIDE DEF b
  <2>2. /\ \A i \in 1..Len(b) : b[i].obj \in Meant(b)
        /\ \A o \in Meant(b) : Live(o)
        BY <1>5, <2>1, MeantNames DEF b
  <2>3. 1 \in 1..Len(b) /\ \A i \in 1..n : i + 1 \in 1..Len(b)
        BY <1>1, <1>5 DEF b
  <2>4. QED
        BY <1>5, <2>2, <2>3 DEF b
<1>7. W = {<<x.obj>>}
      BY DEF Delegate
<1> HIDE DEF s, U, W, n
<1>8. /\ s \in Seq(DriverCalls) /\ Len(s) = 2 * n + 3
      /\ s[1] = Exists("context", x)
      /\ \A j \in 2..(2 * n + 1) :
           \E i \in 1..n : s[j] = Exists("buffer", list[i]) \/ s[j] = Get("buffer", list[i])
      /\ \A i \in 1..n : \E j \in 2..(2 * n + 1) : s[j] = Get("buffer", list[i])
      /\ s[2 * n + 2] = Get("context", x) /\ s[2 * n + 3] = Do("RenderPicture")
      BY <1>2, <1>4, vsRenderPictureFacts DEF s, n
<1>9. /\ \A i \in 1..n : /\ UsesOnly(Exists("buffer", list[i]), U) /\ UsesOnly(Get("buffer", list[i]), U)
                         /\ Get("buffer", list[i]).op = "get"
                              /\ Get("buffer", list[i]).obj = list[i].obj
                         /\ Exists("buffer", list[i]).op = "exists"
      /\ UsesOnly(Exists("context", x), U) /\ UsesOnly(Get("context", x), U)
      /\ Exists("context", x).op = "exists" /\ Get("context", x).op = "get"
           /\ Get("context", x).obj = x.obj
      /\ Do("RenderPicture").op = "RenderPicture"
  <2>1. \A i \in 1..n : UsesOnly(Exists("buffer", list[i]), U) /\ UsesOnly(Get("buffer", list[i]), U)
        BY <1>0, <1>1, <1>6, CarefulCalls DEF n
  <2>2. UsesOnly(Exists("context", x), U) /\ UsesOnly(Get("context", x), U)
        BY <1>0, <1>6, CarefulCalls
  <2>3. \A y \in Name : /\ Get("buffer", y).op = "get" /\ Get("buffer", y).obj = y.obj
                        /\ Exists("buffer", y).op = "exists"
        BY CallFacts, OpsFacts
  <2>4. /\ Exists("context", x).op = "exists" /\ Get("context", x).op = "get"
             /\ Get("context", x).obj = x.obj
        /\ Do("RenderPicture").op = "RenderPicture"
        BY <1>2, CallFacts, OpsFacts
  <2>5. QED
        BY <1>3, <2>1, <2>2, <2>3, <2>4 DEF n
<1>n. n \in Nat
      BY <1>1 DEF n
<1>10. \A j \in 1..Len(s) : j = 1 \/ j \in 2..(2 * n + 1) \/ j = 2 * n + 2 \/ j = 2 * n + 3
       BY <1>8, <1>n
<1>11. ASSUME NEW j \in 2..(2 * n + 1)
       PROVE  UsesOnly(s[j], U) /\ s[j].op \in {"exists", "get"}
              /\ (s[j].op = "get" => \E i \in 1..n : s[j].obj = list[i].obj)
  <2>1. PICK i \in 1..n : s[j] = Exists("buffer", list[i]) \/ s[j] = Get("buffer", list[i])
        BY <1>8
  <2>2. QED
        BY <1>9, <2>1
<1>12. \A j \in 1..Len(s) : /\ s[j].op \in ContextMethods => j = 2 * n + 3 /\ s[j].op = "RenderPicture"
                            /\ s[j].op \in ContextMethods \/ UsesOnly(s[j], U)
       BY <1>8, <1>9, <1>10, <1>11 DEF ContextMethods
<1>13. \A j \in 1..Len(s) : s[j].op = "get" /\ s[j].obj \in Contexts => s[j].obj = x.obj
  <2>1. \A i \in 1..n : list[i].obj \notin Contexts
        BY <1>3, KindsApart DEF n
  <2>2. QED
        BY <1>8, <1>9, <1>10, <1>11, <2>1
<1>14. Expected(s, <<>>) \cap Contexts = {x.obj}
  <2>1. 2 * n + 2 \in 1..Len(s) /\ s[2 * n + 2].op = "get" /\ s[2 * n + 2].obj = x.obj
        BY <1>8, <1>9, <1>n
  <2>2. QED
        BY <1>2, <1>13, <2>1, ExpectedTail
<1>15. Meant(list) \subseteq Expected(s, <<>>)
  <2>1. ASSUME NEW o \in Meant(list) PROVE o \in Expected(s, <<>>)
    <3>1. PICK i \in 1..n : list[i].obj = o
          BY <2>1 DEF Meant, n
    <3>2. PICK j \in 2..(2 * n + 1) : s[j] = Get("buffer", list[i])
          BY <1>8
    <3>3. j \in 1..Len(s) /\ s[j].op = "get" /\ s[j].obj = o
          BY <1>8, <1>9, <1>n, <3>1, <3>2
    <3>4. QED
          BY <3>3, ExpectedMember
  <2>2. QED
        BY <2>1
<1>16. Expected(s, <<>>) \cap Params # {} /\ Expected(s, <<>>) \cap Slices # {}
       BY <1>15
<1>17. \A i, j \in 1..Len(s) : i < j /\ s[i].op \in ContextMethods => FALSE
       BY <1>8, <1>12, <1>n
<1>18. s # <<>> /\ \A i \in 1..Len(s) : s[i].op \notin {"Run", "RunReturns"}
       BY <1>8, <1>12, <1>n DEF ContextMethods
<1>19. Honest(s, U, W)
       BY <1>2, <1>6, <1>7, <1>8, <1>12, <1>14, <1>16, <1>17, <1>18, PicturesAreHonest
<1>20. QED
       BY <1>19 DEF s, U, W

\* The kinds that have a tracker of their own.
LEMMA TrackersFacts ==
  /\ \A k \in {"config", "surface", "context", "buffer", "image"} : k \in Trackers /\ k \in Kinds
  /\ \A op \in {"create", "exists", "get", "destroy", "BeginPicture", "RenderPicture", "Run",
                 "RunReturns", "GetData", "GetBuffer", "GetMappedBO", "CreateBacking",
                 "DestroyBacking", "Trap"} : op \in Ops
BY OpsFacts DEF Trackers

\* The entry points of one or two calls that use the objects they are given.
LEMMA UsersOfOne ==
  ASSUME NEW a \in DriverCalls, NEW U, UsesOnly(a, U), \A o \in U : Live(o), NEW W
  PROVE  Honest(<<a>>, U, W)
<1>1. <<a>> \in Seq(DriverCalls) /\ <<a>> # <<>> /\ \A i \in 1..Len(<<a>>) : <<a>>[i] = a
      OBVIOUS
<1>2. QED
      BY <1>1, UsersAreHonest

\* Two calls.
LEMMA UsersOfTwo ==
  ASSUME NEW a \in DriverCalls, NEW b \in DriverCalls, NEW U, UsesOnly(a, U), UsesOnly(b, U),
         \A o \in U : Live(o), NEW W
  PROVE  Honest(<<a, b>>, U, W)
<1>1. <<a, b>> \in Seq(DriverCalls) /\ <<a, b>> # <<>> /\ \A i \in 1..Len(<<a, b>>) :
        <<a, b>>[i] \in {a, b}
      OBVIOUS
<1>2. QED
      BY <1>1, UsersAreHonest

\* All the entry points that only use the objects they are given.
LEMMA UsersEntries ==
  ASSUME ObjectsInv, Careful
  PROVE  /\ Honest(vsCreateConfig, {}, {})
         /\ \A x \in Names("config") :
              /\ Honest(vsQueryConfigAttributes(x), Meant(<<x>>), {})
              /\ Honest(vsQuerySurfaceAttributes(x), Meant(<<x>>), {})
         /\ \A x \in Names("surface") :
              /\ Honest(vsSyncSurface(x), Meant(<<x>>), {})
              /\ Honest(vsPutSurface(x), Meant(<<x>>), {})
              /\ Honest(vsDeriveImage(x), Meant(<<x>>), {})
              /\ Traps => /\ Honest(vsQuerySurfaceStatus, Meant(<<x>>), {})
                          /\ Honest(vsAssociateSubpicture, Meant(<<x>>), {})
                          /\ Honest(vsDeassociateSubpicture, Meant(<<x>>), {})
         /\ \A x \in Names("context") : \A k \in {"param", "slice"} :
              Honest(vsCreateBuffer(x, k), Meant(<<x>>), {})
         /\ \A x \in Names("buffer") : Honest(vsMapBuffer(x), Meant(<<x>>), {})
<1>0. \A k \in Trackers : \A x \in Names(k) : /\ x \in Name /\ Meant(<<x>>) = {x.obj} /\ x.obj \in {x.obj}
                                          /\ \A o \in {x.obj} : Live(o)
      BY CarefulNames, MeantOne
<1>1. \A k \in Trackers : \A x \in Names(k) : /\ UsesOnly(Exists(k, x), {x.obj})
                                          /\ k # "image" => UsesOnly(Get(k, x), {x.obj})
      BY <1>0, CarefulCalls
<1>2. \A k \in Kinds, x \in Name : Exists(k, x) \in DriverCalls /\ Get(k, x) \in DriverCalls
      BY CallFacts
<1>3. /\ \A k \in Kinds : Create(k) \in DriverCalls
      /\ Do("GetData") \in DriverCalls /\ Do("Trap") \in DriverCalls
      BY CallFacts, TrackersFacts
<1>4. \A U : /\ \A k \in {"config", "param", "slice"} : UsesOnly(Create(k), U)
             /\ UsesOnly(Do("GetData"), U) /\ (Traps => UsesOnly(Do("Trap"), U))
      BY OtherCalls, OpsFacts
<1>5. Honest(vsCreateConfig, {}, {})
      BY <1>3, <1>4, OpsFacts, UsersOfOne DEF vsCreateConfig
<1>6. ASSUME NEW x \in Names("config")
      PROVE  /\ Honest(vsQueryConfigAttributes(x), Meant(<<x>>), {})
             /\ Honest(vsQuerySurfaceAttributes(x), Meant(<<x>>), {})
  <2>0. "config" \in Trackers /\ "config" \in Kinds /\ "config" # "image"
        BY TrackersFacts
  <2>a. x \in Name /\ Meant(<<x>>) = {x.obj} /\ \A o \in {x.obj} : Live(o)
        BY <1>0, <2>0
  <2>b. UsesOnly(Exists("config", x), {x.obj}) /\ UsesOnly(Get("config", x), {x.obj})
        BY <2>0, <2>a, CarefulCalls
  <2>1. /\ Meant(<<x>>) = {x.obj} /\ \A o \in {x.obj} : Live(o)
        /\ UsesOnly(Exists("config", x), {x.obj}) /\ UsesOnly(Get("config", x), {x.obj})
        /\ Exists("config", x) \in DriverCalls /\ Get("config", x) \in DriverCalls
        BY <1>2, <2>0, <2>a, <2>b
  <2>2. Honest(<<Exists("config", x)>>, {x.obj}, {})
        BY <2>1, UsersOfOne
  <2>3. Honest(<<Get("config", x), Do("GetData")>>, {x.obj}, {})
        BY <1>3, <1>4, <2>1, UsersOfTwo
  <2>4. QED
        BY <2>1, <2>2, <2>3 DEF vsQueryConfigAttributes, vsQuerySurfaceAttributes
<1>7. ASSUME NEW x \in Names("surface")
      PROVE  /\ Honest(vsSyncSurface(x), Meant(<<x>>), {})
             /\ Honest(vsPutSurface(x), Meant(<<x>>), {})
             /\ Honest(vsDeriveImage(x), Meant(<<x>>), {})
             /\ Traps => /\ Honest(vsQuerySurfaceStatus, Meant(<<x>>), {})
                         /\ Honest(vsAssociateSubpicture, Meant(<<x>>), {})
                         /\ Honest(vsDeassociateSubpicture, Meant(<<x>>), {})
  <2>0. "surface" \in Trackers /\ "surface" \in Kinds /\ "surface" # "image"
        BY TrackersFacts
  <2>a. x \in Name /\ Meant(<<x>>) = {x.obj} /\ \A o \in {x.obj} : Live(o)
        BY <1>0, <2>0
  <2>b. UsesOnly(Exists("surface", x), {x.obj}) /\ UsesOnly(Get("surface", x), {x.obj})
        BY <2>0, <2>a, CarefulCalls
  <2>1. /\ Meant(<<x>>) = {x.obj} /\ \A o \in {x.obj} : Live(o)
        /\ UsesOnly(Exists("surface", x), {x.obj})
        /\ Exists("surface", x) \in DriverCalls
        BY <1>2, <2>0, <2>a, <2>b
  <2>2. Honest(<<Exists("surface", x)>>, {x.obj}, {})
        BY <2>1, UsersOfOne
  <2>3. Traps => Honest(<<Do("Trap")>>, {x.obj}, {})
        BY <1>3, <1>4, <2>1, UsersOfOne
  <2>4. QED
        BY <2>1, <2>2, <2>3 DEF vsSyncSurface, vsPutSurface, vsDeriveImage, vsQuerySurfaceStatus,
          vsAssociateSubpicture, vsDeassociateSubpicture
<1>8. ASSUME NEW x \in Names("context"), NEW k \in {"param", "slice"}
      PROVE  Honest(vsCreateBuffer(x, k), Meant(<<x>>), {})
  <2>0. "context" \in Trackers /\ "context" \in Kinds /\ "context" # "image"
        BY TrackersFacts
  <2>a. x \in Name /\ Meant(<<x>>) = {x.obj} /\ \A o \in {x.obj} : Live(o)
        BY <1>0, <2>0
  <2>b. UsesOnly(Exists("context", x), {x.obj}) /\ UsesOnly(Get("context", x), {x.obj})
        BY <2>0, <2>a, CarefulCalls
  <2>1. /\ Meant(<<x>>) = {x.obj} /\ \A o \in {x.obj} : Live(o)
        /\ UsesOnly(Exists("context", x), {x.obj})
        /\ Exists("context", x) \in DriverCalls
        BY <1>2, <2>0, <2>a, <2>b
  <2>2. UsesOnly(Create(k), {x.obj}) /\ Create(k) \in DriverCalls
        BY <1>3, <1>4, OpsFacts
  <2>3. Honest(<<Exists("context", x), Create(k)>>, {x.obj}, {})
        BY <2>1, <2>2, UsersOfTwo
  <2>4. QED
        BY <2>1, <2>3 DEF vsCreateBuffer
<1>9. ASSUME NEW x \in Names("buffer") PROVE Honest(vsMapBuffer(x), Meant(<<x>>), {})
  <2>0. "buffer" \in Trackers /\ "buffer" \in Kinds /\ "buffer" # "image"
        BY TrackersFacts
  <2>a. x \in Name /\ Meant(<<x>>) = {x.obj} /\ \A o \in {x.obj} : Live(o)
        BY <1>0, <2>0
  <2>b. UsesOnly(Exists("buffer", x), {x.obj}) /\ UsesOnly(Get("buffer", x), {x.obj})
        BY <2>0, <2>a, CarefulCalls
  <2>1. /\ Meant(<<x>>) = {x.obj} /\ \A o \in {x.obj} : Live(o)
        /\ UsesOnly(Get("buffer", x), {x.obj})
        /\ Get("buffer", x) \in DriverCalls
        BY <1>2, <2>0, <2>a, <2>b
  <2>2. Honest(<<Get("buffer", x), Do("GetData")>>, {x.obj}, {})
        BY <1>3, <1>4, <2>1, UsersOfTwo
  <2>3. QED
        BY <2>1, <2>2 DEF vsMapBuffer
<1>10. QED
      BY <1>5, <1>6, <1>7, <1>8, <1>9

\* vsCreateSurfaces.
LEMMA vsCreateSurfacesHonest ==
  ASSUME NEW n \in 1..2
  PROVE  Honest(vsCreateSurfaces2(n), {}, {}) /\ Honest(vsCreateSurfaces(n), {}, {})
<1>1. UsesOnly(Create("surface"), {}) /\ Create("surface") \in DriverCalls
      BY OtherCalls, OpsFacts, CallFacts
<1> DEFINE s == vsCreateSurfaces2(n)
<1>2. s \in Seq(DriverCalls) /\ s # <<>> /\ \A i \in 1..Len(s) : s[i] = Create("surface")
      BY <1>1 DEF vsCreateSurfaces2
<1> HIDE DEF s
<1>3. Honest(s, {}, {})
      BY <1>1, <1>2, UsersAreHonest
<1>4. QED
      BY <1>3 DEF s, vsCreateSurfaces

\* Where the careful application destroys something.
Unused(o) == \A c \in Contexts : Live(c) /\ slices_[c] # {} => o \notin slices_[c] \cup {pic_param_[c]}

\* Only buffers are in use by a context in this sense.
LEMMA UnusedFacts ==
  ASSUME ObjectsInv, NEW o \in Objects, o \notin Params, o \notin Slices
  PROVE  Unused(o)
<1>1. \A c \in Contexts : slices_[c] \subseteq Slices /\ pic_param_[c] \in Params \cup {Nil}
      BY DEF ObjectsInv
<1>2. QED
      BY <1>1, KindsApart DEF Unused

\* All the entry points that destroy one object.
LEMMA DestroyersEntries ==
  ASSUME ObjectsInv, Careful
  PROVE  /\ \A x \in Names("config") : Honest(vsDestroyConfig(x), {}, Meant(<<x>>))
         /\ \A x \in Names("context") : Honest(vsDestroyContext(x), {}, Meant(<<x>>))
         /\ \A x \in Names("buffer") :
              x.obj \notin Backings /\ Unused(x.obj) => Honest(vsDestroyBuffer(x), {}, Meant(<<x>>))
<1>1. ASSUME NEW k \in Trackers, k # "image", NEW x \in Names(k), x.obj \notin Backings, Unused(x.obj)
      PROVE  Honest(<<Destroy(k, x)>>, {}, Meant(<<x>>))
  <2>1. Meant(<<x>>) = {x.obj} /\ x \in Name /\ k \in Kinds
        BY MeantOne, CarefulNames
  <2>2. Known(Destroy(k, x))
        BY CarefulCalls
  <2>3. DestroysOnly(Destroy(k, x), Meant(<<x>>)) /\ Destroy(k, x) \in DriverCalls
        BY <1>1, <2>1, <2>2, CallFacts DEF DestroysOnly, Unused
  <2> DEFINE s == <<Destroy(k, x)>>
  <2>4. s \in Seq(DriverCalls) /\ s # <<>> /\ Len(s) = 1 /\ \A i \in 1..Len(s) : s[i] = Destroy(k, x)
        BY <2>3
  <2> HIDE DEF s
  <2>5. Honest(s, {}, Meant(<<x>>))
        BY <2>3, <2>4, DestroyersAreHonest
  <2>6. QED
        BY <2>5 DEF s
<1>2. ASSUME NEW x \in Names("config") PROVE x.obj \notin Backings /\ Unused(x.obj)
  <2>1. x.obj \in Configs /\ x.obj \in Objects
        BY CarefulNames, KindsFacts, TrackersFacts
  <2>2. QED
        BY <2>1, UnusedFacts, KindsApart DEF Buffers
<1>3. ASSUME NEW x \in Names("context") PROVE x.obj \notin Backings /\ Unused(x.obj)
  <2>1. x.obj \in Contexts /\ x.obj \in Objects
        BY CarefulNames, KindsFacts, TrackersFacts
  <2>2. QED
        BY <2>1, UnusedFacts, KindsApart DEF Buffers
<1>4. QED
      BY <1>1, <1>2, <1>3, TrackersFacts DEF vsDestroyConfig, vsDestroyContext, vsDestroyBuffer

\* vsDestroySurfaces.
LEMMA vsDestroySurfacesHonest ==
  ASSUME ObjectsInv, Careful, NEW list \in Lists(Names("surface"), 2)
  PROVE  Honest(vsDestroySurfaces(list), {}, Meant(list))
<1> DEFINE n == Len(list)
           s == vsDestroySurfaces(list)
<1>1. /\ list \in Seq(Names("surface")) /\ n \in 1..2 /\ \A i \in 1..n : list[i] \in Names("surface")
      /\ \A i, j \in 1..n : i # j => list[i] # list[j]
  <2>1. /\ list \in Seq(Names("surface")) /\ n \in 1..2 /\ \A i \in 1..n : list[i] \in Names("surface")
        /\ IsInjective(list)
        BY ListsFacts
  <2>2. DOMAIN list = 1..n
        BY <2>1
  <2>3. QED
        BY <2>1, <2>2 DEF IsInjective
<1>2. \A i \in 1..n : /\ list[i] \in Name /\ list[i].obj \in Surfaces /\ list[i].obj \in Objects
                      /\ Known(Destroy("surface", list[i]))
                      /\ \E k \in Trackers : list[i] \in Names(k)
      BY <1>1, CarefulNames, CarefulCalls, KindsFacts, TrackersFacts
<1>3. list \in Seq(Name)
      BY <1>1, <1>2
<1>4. \A i \in 1..n : list[i].obj \in Meant(list)
      BY <1>2, <1>3, MeantNames
<1>5. \A i, j \in 1..n : i # j => list[i].obj # list[j].obj
  <2>1. \A x \in Names("surface") : x = [id |-> id[x.obj], obj |-> x.obj]
        BY DEF Names
  <2>2. QED
        BY <1>1, <2>1
<1>6. \A i \in 1..n : list[i].obj \notin Backings /\ Unused(list[i].obj)
      BY <1>2, UnusedFacts, KindsApart DEF Buffers
<1>7. \A i \in 1..n : Destroy("surface", list[i]) \in DriverCalls
      BY <1>2, CallFacts, TrackersFacts
<1>8. s \in Seq(DriverCalls) /\ Len(s) = n /\ s # <<>> /\ \A i \in 1..n :
        s[i] = Destroy("surface", list[i])
  <2>1. n \in Nat /\ n >= 1
    <3>1. \A k \in 1..2 : k \in Nat /\ k >= 1
          OBVIOUS
    <3>2. QED
          BY <1>1, <3>1
  <2>2. QED
        BY <1>7, <2>1 DEF vsDestroySurfaces
<1> HIDE DEF s, n
<1>9. \A i \in 1..n : /\ s[i].obj = list[i].obj
                      /\ s[i].op = "destroy" /\ s[i].kind = "surface"
      BY <1>2, <1>8, CallFacts, TrackersFacts
<1>10. \A i \in 1..Len(s) : DestroysOnly(s[i], Meant(list))
       BY <1>2, <1>4, <1>6, <1>8, <1>9 DEF DestroysOnly, Unused
<1>11. \A i, j \in 1..Len(s) : i # j => s[i].obj # s[j].obj
       BY <1>5, <1>8, <1>9
<1>12. Honest(s, {}, Meant(list))
       BY <1>8, <1>10, <1>11, DestroyersAreHonest
<1>13. QED
       BY <1>12 DEF s

\* vsCreateContext.
LEMMA vsCreateContextHonest ==
  ASSUME ObjectsInv, Careful, NEW config \in Names("config"),
         NEW targets \in Seq(Names("surface"))
  PROVE  Honest(vsCreateContext(config, targets), Meant(<<config>> \o targets), {})
<1> DEFINE n == Len(targets)
           list == <<config>> \o targets
           s == vsCreateContext(config, targets)
           U == Meant(list)
<1>0. "config" \in Trackers /\ "surface" \in Trackers /\ "context" \in Kinds
      BY TrackersFacts
<1>1. n \in Nat /\ \A i \in 1..n : targets[i] \in Names("surface")
      OBVIOUS
<1>2. config \in Name /\ \A i \in 1..n : targets[i] \in Name
      BY <1>0, <1>1, CarefulNames
<1>3. targets \in Seq(Name)
      BY <1>1, <1>2
<1>4. /\ list \in Seq(Name) /\ Len(list) = n + 1
      /\ list[1] = config /\ \A i \in 1..n : list[i + 1] = targets[i] /\ i + 1 \in 1..Len(list)
  <2> DEFINE a == <<config>>
  <2>1. a \in Seq(Name) /\ Len(a) = 1 /\ a[1] = config
        BY <1>2
  <2> HIDE DEF a
  <2>2. /\ a \o targets \in Seq(Name) /\ Len(a \o targets) = 1 + n
        /\ \A i \in 1..(1 + n) : (a \o targets)[i] = IF i <= 1 THEN a[i] ELSE targets[i - 1]
    <3>1. /\ a \o targets \in Seq(Name) /\ Len(a \o targets) = Len(a) + Len(targets)
          /\ \A i \in 1..(Len(a) + Len(targets)) :
               (a \o targets)[i] = IF i <= Len(a) THEN a[i] ELSE targets[i - Len(a)]
          BY <1>3, <2>1, ConcatFacts
    <3>2. QED
          BY <2>1, <3>1
  <2>3. \A i \in 1..n : i + 1 \in 1..(1 + n) /\ ~(i + 1 <= 1) /\ (i + 1) - 1 = i
        BY <1>1
  <2>4. QED
        BY <1>1, <2>1, <2>2, <2>3 DEF a
<1>5. \A i \in 1..Len(list) : \E k \in Trackers : list[i] \in Names(k)
  <2>1. \A i \in 1..Len(list) : i = 1 \/ (i - 1 \in 1..n /\ (i - 1) + 1 = i)
        BY <1>1, <1>4
  <2>2. QED
        BY <1>0, <1>1, <1>4, <2>1
<1> HIDE DEF list
<1>6. /\ \A i \in 1..Len(list) : list[i].obj \in U
      /\ \A o \in U : Live(o)
      BY <1>4, <1>5, MeantNames
<1>7. config.obj \in U /\ \A i \in 1..n : targets[i].obj \in U
      BY <1>1, <1>4, <1>6
<1> HIDE DEF U
<1>8. /\ UsesOnly(Exists("config", config), U) /\ UsesOnly(Get("config", config), U)
      /\ UsesOnly(Create("context"), U)
  <2>1. "config" # "image" /\ "context" \in Kinds \ {"image"}
        BY <1>0
  <2>2. QED
        BY <1>0, <1>7, <2>1, CarefulCalls, OtherCalls
<1>9. \A i \in 1..n : UsesOnly(Exists("surface", targets[i]), U)
      BY <1>0, <1>1, <1>7, CarefulCalls
<1> HIDE DEF n, s
<1>10. /\ s \in Seq(DriverCalls) /\ Len(s) = n + 3
       /\ s[1] = Exists("config", config)
       /\ \A i \in 2..(n + 1) : s[i] = Exists("surface", targets[i - 1])
       /\ s[n + 2] = Get("config", config) /\ s[n + 3] = Create("context")
       BY <1>2, <1>3, vsCreateContextFacts DEF s, n
<1>n. n \in Nat
      BY <1>1 DEF n
<1>11. \A i \in 1..Len(s) : i = 1 \/ (i \in 2..(n + 1) /\ i - 1 \in 1..n) \/ i = n + 2 \/ i = n + 3
       BY <1>n, <1>10
<1>12. \A i \in 1..Len(s) : UsesOnly(s[i], U)
       BY <1>8, <1>9, <1>10, <1>11
<1>13. s # <<>>
       BY <1>n, <1>10
<1>14. Honest(s, U, {})
       BY <1>6, <1>10, <1>12, <1>13, UsersAreHonest
<1>15. QED
       BY <1>14 DEF s, U, list

\* vsCreateImage.
LEMMA vsCreateImageHonest == Honest(vsCreateImage, {}, {})
<1> DEFINE s == vsCreateImage
<1>1. s = <<Op("CreateBacking", "backing", Anonymous), Create("image")>>
      BY DEF vsCreateImage
<1>2. /\ Len(s) = 2 /\ s[1] = Op("CreateBacking", "backing", Anonymous) /\ s[2] = Create("image")
      BY <1>1
<1> HIDE DEF s
<1>3. s[1].op = "CreateBacking" /\ s[2].op = "create" /\ s[2].kind = "image"
      BY <1>2, CallFacts, OpsFacts
<1>4. \A i \in 1..Len(s) : i = 1 \/ i = 2
      BY <1>2
<1>5. \A i \in 1..Len(s) : s[i].op \in {"CreateBacking", "create"} /\ (s[i].op = "create" => i = 2)
      BY <1>3, <1>4
<1>6. \A i \in 1..Len(s) : s[i].op \notin Lookups \cup Releases \cup ContextMethods
        \cup {"exists", "get", "destroy", "DestroyBacking", "GetBuffer", "Trap", "RenderPicture", "Run"}
      BY <1>5 DEF Lookups, Releases, ContextMethods
<1>7. \A n \in 1..Len(<<>>) : FALSE
      OBVIOUS
<1>8. Keeps(s, <<>>, {}, {})
      BY <1>2, <1>3, <1>5, <1>6, <1>7 DEF Keeps
<1>9. Expected(s, <<>>) = {}
      BY <1>6, <1>7 DEF Expected
<1>10. Named(s) /\ Alive(<<>>, {}) /\ Drawing(s, <<>>) /\ Imaging(s, <<>>, {}, {}) /\ Spares(s)
         /\ Unlocked(s)
       BY <1>3, <1>6, <1>7, <1>9 DEF Named, Alive, Drawing, Imaging, Spares, Unlocked
<1>11. QED
       BY <1>8, <1>10 DEF s, Honest

\* vsDestroyImage, called by the owner of the image and of its buffer.
LEMMA vsDestroyImageHonest ==
  ASSUME ObjectsInv, Careful, NEW x \in Names("image")
  PROVE  Honest(vsDestroyImage(x), {}, Meant(<<x>>) \cup Backing(x))
<1> DEFINE s == vsDestroyImage(x)
           W == Meant(<<x>>) \cup Backing(x)
<1>0. "image" \in Trackers /\ "image" \in Kinds
      BY TrackersFacts
<1>1. /\ W = {x.obj} \cup {buffer_[x.obj]}
      /\ x \in Name /\ x.obj \in Images /\ x.obj \in Objects
      BY <1>0, MeantOne, CarefulNames, KindsFacts DEF Backing
<1>2. Known(Destroy("image", x)) /\ Known(Op("DestroyBacking", "image", x))
      BY <1>0, <1>1, CarefulCalls
<1>3. s = <<Op("DestroyBacking", "image", x), Destroy("image", x)>>
      BY DEF vsDestroyImage
<1>4. Len(s) = 2 /\ s[1] = Op("DestroyBacking", "image", x) /\ s[2] = Destroy("image", x)
      BY <1>3
<1> HIDE DEF s, W
<1>5. /\ s[1].op = "DestroyBacking" /\ s[1].kind = "image" /\ s[1].obj = x.obj
      /\ s[2].op = "destroy" /\ s[2].kind = "image" /\ s[2].obj = x.obj
      /\ Known(s[1]) /\ Known(s[2])
      BY <1>0, <1>1, <1>2, <1>4, CallFacts
<1>6. \A i \in 1..Len(s) : i = 1 \/ i = 2
      BY <1>4
<1>7. \A i \in 1..Len(s) :
        /\ s[i].op \in {"DestroyBacking", "destroy"} /\ (s[i].op = "destroy" => i = 2)
        /\ s[i].kind = "image" /\ s[i].obj = x.obj /\ Known(s[i])
      BY <1>5, <1>6
<1>8. \A i \in 1..Len(s) : s[i].op \notin ContextMethods
        \cup {"exists", "get", "create", "CreateBacking", "GetBuffer", "Trap", "RenderPicture", "Run"}
      BY <1>7 DEF ContextMethods
<1>9. \A n \in 1..Len(<<>>) : FALSE
      OBVIOUS
<1>10. x.obj \notin Backings /\ x.obj \in W /\ buffer_[x.obj] \in W
       BY <1>1, KindsApart DEF Buffers, W
<1>11. Keeps(s, <<>>, {}, W)
  <2>1. \A i \in 1..Len(s) : s[i].kind \in Trackers /\ s[i].obj \in Kind[s[i].kind] /\ s[i].obj \in W
        BY <1>7, <1>10 DEF Known
  <2>2. \A i \in 1..Len(s) : s[i].op = "destroy" /\ i > 1
          => s[i - 1].op = "DestroyBacking" /\ s[i - 1].obj = s[i].obj
        BY <1>5, <1>6
  <2>3. \A i, j \in 1..Len(s) : s[i].op = "destroy" /\ s[j].op = "destroy" => i = j
        BY <1>7
  <2>4. \A i \in 1..Len(s) : s[2].op = "destroy" /\ s[2].kind = "image" /\ s[2].obj = s[i].obj
        BY <1>5, <1>7
  <2>5. \A i \in 1..Len(s) : s[i].op = "DestroyBacking" => i = 1
        BY <1>5, <1>6
  <2>6. QED
        BY <1>4, <1>7, <1>8, <1>9, <1>10, <2>1, <2>2, <2>3, <2>4, <2>5 DEF Keeps
<1>12. Expected(s, <<>>) = {}
       BY <1>8, <1>9 DEF Expected
<1>13. Named(s) /\ Alive(<<>>, {}) /\ Drawing(s, <<>>) /\ Imaging(s, <<>>, {}, W) /\ Unlocked(s)
  <2>1. Named(s)
        BY <1>7 DEF Named, Known
  <2>2. Imaging(s, <<>>, {}, W)
        BY <1>7, <1>10, <1>12 DEF Imaging
  <2>3. Unlocked(s)
        BY <1>5 DEF Unlocked
  <2>4. QED
        BY <1>8, <1>9, <2>1, <2>2, <2>3 DEF Alive, Drawing, ContextMethods
<1>14. Unused(x.obj)
  <2>1. x.obj \notin Params /\ x.obj \notin Slices
        BY <1>1, KindsApart DEF Buffers
  <2>2. QED
        BY <1>1, <2>1, UnusedFacts
<1>15. Spares(s)
       BY <1>7, <1>14 DEF Spares, Unused
<1>16. QED
       BY <1>11, <1>13, <1>15 DEF s, W, Honest

\* vsPutImage, called while the image has its buffer.
LEMMA vsPutImageHonest ==
  ASSUME ObjectsInv, Careful, NEW x \in Names("surface"), NEW y \in Names("image"), Live(buffer_[y.obj])
  PROVE  Honest(vsPutImage(x, y), Meant(<<x, y>>) \cup Backing(y), {})
<1> DEFINE U == Meant(<<x, y>>) \cup Backing(y)
<1>0. "image" \in Trackers /\ "surface" \in Trackers /\ "surface" \in Kinds
      BY TrackersFacts
<1>1. U = {x.obj, y.obj} \cup {buffer_[y.obj]}
      BY <1>0, MeantTwo DEF Backing
<1>2. x \in Name /\ Live(x.obj) /\ Live(y.obj)
      BY <1>0, CarefulNames
<1>3. (\A o \in U : Live(o)) /\ x.obj \in U
      BY <1>1, <1>2
<1> HIDE DEF U
<1>4. UsesOnly(Exists("surface", x), U) /\ Exists("surface", x) \in DriverCalls
      BY <1>0, <1>2, <1>3, CarefulCalls, CallFacts
<1>5. Honest(<<Exists("surface", x)>>, U, {})
      BY <1>3, <1>4, UsersOfOne
<1>6. QED
      BY <1>5 DEF vsPutImage, U

\* vsGetImage, called while the image has its buffer.
LEMMA vsGetImageHonest ==
  ASSUME ObjectsInv, Careful, NEW x \in Names("surface"), NEW y \in Names("image"), Live(buffer_[y.obj])
  PROVE  Honest(vsGetImage(x, y), Meant(<<x, y>>) \cup Backing(y), {})
<1> DEFINE s == vsGetImage(x, y)
           U == Meant(<<x, y>>) \cup Backing(y)
<1>0. "image" \in Trackers /\ "surface" \in Trackers /\ "surface" \in Kinds /\ "image" \in Kinds
      BY TrackersFacts
<1>1. U = {x.obj, y.obj} \cup {buffer_[y.obj]}
      BY <1>0, MeantTwo DEF Backing
<1>2. x \in Name /\ y \in Name /\ Live(x.obj) /\ Live(y.obj) /\ x.obj \in Surfaces /\ y.obj \in Images
      BY <1>0, CarefulNames, KindsFacts
<1>3. (\A o \in U : Live(o)) /\ x.obj \in U /\ y.obj \in U /\ buffer_[y.obj] \in U
      BY <1>1, <1>2
<1>4. s = <<Exists("surface", x), Get("surface", x), Exists("image", y),
            Do("GetMappedBO"), Get("image", y), Do("GetBuffer")>>
      BY DEF vsGetImage
<1> HIDE DEF U
<1>5. /\ Known(Exists("surface", x)) /\ Known(Get("surface", x)) /\ Known(Exists("image", y))
      /\ Known(Get("image", y))
      BY <1>0, <1>3, CarefulCalls
<1>6. /\ Len(s) = 6 /\ s[1] = Exists("surface", x) /\ s[2] = Get("surface", x)
           /\ s[3] = Exists("image", y)
      /\ s[4] = Do("GetMappedBO") /\ s[5] = Get("image", y) /\ s[6] = Do("GetBuffer")
      BY <1>4
<1> HIDE DEF s
<1>7. /\ s[1].op = "exists" /\ s[1].obj = x.obj /\ s[2].op = "get" /\ s[2].obj = x.obj
           /\ s[2].kind = "surface"
      /\ s[3].op = "exists" /\ s[3].obj = y.obj /\ s[4].op = "GetMappedBO"
      /\ s[5].op = "get" /\ s[5].obj = y.obj /\ s[5].kind = "image" /\ s[6].op = "GetBuffer"
      /\ s[1].kind = "surface"
      BY <1>0, <1>2, <1>6, CallFacts, TrackersFacts
<1>8. \A i \in 1..Len(s) : i = 1 \/ i = 2 \/ i = 3 \/ i = 4 \/ i = 5 \/ i = 6
      BY <1>6
<1>9. \A i \in 1..Len(s) :
        /\ s[i].op \in {"exists", "get", "GetMappedBO", "GetBuffer"}
        /\ s[i].op \in {"exists", "get"} => Known(s[i]) /\ s[i].obj \in U
        /\ s[i].op = "get" => s[i].obj = x.obj \/ s[i].obj = y.obj
        /\ s[i].op = "GetBuffer" => i = 6
      BY <1>3, <1>5, <1>6, <1>7, <1>8
<1>10. \A i \in 1..Len(s) : s[i].op \notin ContextMethods \cup Releases
        \cup {"destroy", "DestroyBacking", "create", "CreateBacking", "Trap", "RenderPicture", "Run"}
      BY <1>9 DEF ContextMethods, Releases
<1>11. \A n \in 1..Len(<<>>) : FALSE
      OBVIOUS
<1>12. \A i \in 1..Len(s) : s[i].op = "GetBuffer" => LastIs(s, <<>>, i, Images)
       BY <1>7, <1>9, KindsFacts DEF LastIs
<1>13. Keeps(s, <<>>, U, {})
  <2>1. \A i \in 1..Len(s) : s[i].op \in Lookups =>
          s[i].op \in {"exists", "get"} /\ s[i].kind \in Trackers /\ s[i].obj \in Kind[s[i].kind]
        BY <1>9 DEF Lookups, Known
  <2>2. \A i \in 1..Len(s) : s[i].op \in {"exists", "get"} => s[i].obj \in U
        BY <1>9
  <2>3. QED
        BY <1>10, <1>11, <1>12, <2>1, <2>2 DEF Keeps
<1>14. \A m \in Expected(s, <<>>) \cap Images : m = y.obj
  <2>1. x.obj \notin Images
        BY <1>2, KindsApart
  <2>2. ASSUME NEW m \in Expected(s, <<>>), m \in Images PROVE m = y.obj
    <3>1. PICK i \in 1..Len(s) : s[i].op = "get" /\ s[i].obj = m
          BY <1>11, <2>2, ExpectedMember
    <3>2. QED
          BY <1>9, <2>1, <2>2, <3>1
  <2>3. QED
        BY <2>2
<1>15. Named(s)
       BY <1>9 DEF Named, Known, Lookups
<1>16. Imaging(s, <<>>, U, {})
       BY <1>3, <1>10, <1>14 DEF Imaging
<1>17. Alive(<<>>, U) /\ Drawing(s, <<>>) /\ Spares(s) /\ Unlocked(s)
       BY <1>3, <1>7, <1>10, <1>11 DEF Alive, Drawing, Spares, Unlocked, ContextMethods
<1>18. QED
       BY <1>13, <1>15, <1>16, <1>17 DEF s, U, Honest
================================================================================
