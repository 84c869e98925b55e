--------------------------- MODULE VSDriver_proofs ---------------------------
(***************************************************************************)
(* What holds of VSDriver for any number of threads and objects.           *)
(*                                                                         *)
(* For any application, careful or not: TypeInv, from which TypeOK follows, *)
(* and WorkInv.  For a careful one: CarefulInv, which says of each thread  *)
(* what it has still to do and that it owns what it destroys, of enqueued  *)
(* buffers that they stay, of images that they have buffers of their own,  *)
(* and that whoever is between the two steps of creating or destroying an  *)
(* image holds the lock.  From it, RunsInv: the delegate that a thread     *)
(* runs is its own, alive and with work, which makes every step one that   *)
(* module ContextDelegate allows.                                          *)
(***************************************************************************)
EXTENDS VSDriver_lemmas

--------------------------------------------------------------------------------
(* The calls, the objects and the driver keep their types.                   *)

\* The calls are well formed after an entry point has begun, ...
LEMMA CallsAfterCall ==
  ASSUME CallsInv, NEW t \in Threads, todo[t] = <<>>, Enters(t)
  PROVE  CallsInv'
<1>1. PICK calls, S, X : Call(t, calls, S, X) /\ Entry(calls, S, X)
      BY DEF Enters
<1>2. calls \in Seq(DriverCalls)
      BY <1>1 DEF Entry, Shape
<1>3. /\ todo' = [todo EXCEPT ![t] = calls] /\ uses' = [uses EXCEPT ![t] = S]
      /\ owns' = [owns EXCEPT ![t] = X] /\ refs' = refs
      BY <1>1 DEF Call
<1>4. /\ todo' \in [Threads -> Seq(DriverCalls)] /\ refs' \in [Threads -> Seq(Objects)]
      /\ uses' \in [Threads -> SUBSET Objects] /\ owns' \in [Threads -> SUBSET (Objects \cup Delegates)]
      BY <1>1, <1>2, <1>3 DEF CallsInv, Entry
<1>5. ASSUME NEW u \in Threads
      PROVE  Shape(todo'[u], refs'[u]) /\ (todo'[u] = <<>>
               => refs'[u] = <<>> /\ uses'[u] = {} /\ owns'[u] = {})
  <2>1. CASE u = t
    <3>1. todo'[u] = calls /\ refs'[u] = <<>>
          BY <1>3, <2>1 DEF CallsInv
    <3>2. QED
          BY <1>1, <3>1 DEF Entry
  <2>2. CASE u # t
    <3>1. todo'[u] = todo[u] /\ refs'[u] = refs[u] /\ uses'[u] = uses[u] /\ owns'[u] = owns[u]
          BY <1>3, <2>2 DEF CallsInv
    <3>2. QED
          BY <3>1, Zenon DEF CallsInv
  <2>3. QED
        BY <2>1, <2>2
<1>6. QED
      BY <1>4, <1>5, Zenon DEF CallsInv

\* The thread does the next of its calls, which gets r and creates S, or gives up.
Proceeds(t) ==
  \E r, S : Proceed(t, r, S) /\ MayGet(todo[t], refs[t], r) /\ S \in SUBSET Objects
GivesUp(t) ==
  /\ todo' = [todo EXCEPT ![t] = <<>>] /\ refs' = [refs EXCEPT ![t] = <<>>]
  /\ uses' = [uses EXCEPT ![t] = {}] /\ owns' = [owns EXCEPT ![t] = {}]

\* ... after a step of it, ...
LEMMA CallsAfterStep ==
  ASSUME CallsInv, NEW t \in Threads, todo[t] # <<>>, Proceeds(t)
  PROVE  CallsInv'
<1>1. PICK r, S : Proceed(t, r, S) /\ MayGet(todo[t], refs[t], r) /\ S \in SUBSET Objects
      BY DEF Proceeds
<1> DEFINE last == Len(todo[t]) = 1
<1>2. todo[t] \in Seq(DriverCalls) /\ Shape(todo[t], refs[t])
      BY DEF CallsInv
<1>3. Tail(todo[t]) \in Seq(DriverCalls) /\ (last <=> Tail(todo[t]) = <<>>)
      BY <1>2, TailFacts
<1>4. Shape(Tail(todo[t]), r) /\ r \in Seq(Objects)
      BY <1>1, <1>2, ShapeStep DEF Shape
<1>5. /\ todo' = [todo EXCEPT ![t] = Tail(todo[t])]
      /\ refs' = [refs EXCEPT ![t] = IF last THEN <<>> ELSE r]
      /\ uses' = [uses EXCEPT ![t] = IF last THEN {} ELSE uses[t]]
      /\ owns' = [owns EXCEPT ![t] = IF last THEN {} ELSE owns[t] \cup S]
      BY <1>1 DEF Proceed
<1> HIDE DEF last
<1>6. /\ todo' \in [Threads -> Seq(DriverCalls)] /\ refs' \in [Threads -> Seq(Objects)]
      /\ uses' \in [Threads -> SUBSET Objects] /\ owns' \in [Threads -> SUBSET (Objects \cup Delegates)]
  <2>1. <<>> \in Seq(Objects)
        BY TupleSeq
  <2>2. QED
        BY <1>1, <1>3, <1>4, <1>5, <2>1 DEF CallsInv
<1>7. ASSUME NEW u \in Threads
      PROVE  Shape(todo'[u], refs'[u]) /\ (todo'[u] = <<>>
               => refs'[u] = <<>> /\ uses'[u] = {} /\ owns'[u] = {})
  <2>1. CASE u = t /\ last
    <3>1. todo'[u] = <<>> /\ refs'[u] = <<>> /\ uses'[u] = {} /\ owns'[u] = {}
          BY <1>3, <1>5, <2>1 DEF CallsInv
    <3>2. QED
          BY <3>1, EmptyShape
  <2>2. CASE u = t /\ ~last
    <3>1. todo'[u] = Tail(todo[t]) /\ refs'[u] = r
          BY <1>5, <2>2 DEF CallsInv
    <3>2. QED
          BY <1>3, <1>4, <2>2, <3>1
  <2>3. CASE u # t
    <3>1. todo'[u] = todo[u] /\ refs'[u] = refs[u] /\ uses'[u] = uses[u] /\ owns'[u] = owns[u]
          BY <1>5, <2>3 DEF CallsInv
    <3>2. QED
          BY <3>1, Zenon DEF CallsInv
  <2>4. QED
        BY <2>1, <2>2, <2>3
<1>8. QED
      BY <1>6, <1>7, Zenon DEF CallsInv

\* ... and when it returns early.
LEMMA CallsAfterGivingUp ==
  ASSUME CallsInv, NEW t \in Threads, GivesUp(t)
  PROVE  CallsInv'
<1>1. <<>> \in Seq(Objects) /\ <<>> \in Seq(DriverCalls)
      BY TupleSeq
<1>2. /\ todo' \in [Threads -> Seq(DriverCalls)] /\ refs' \in [Threads -> Seq(Objects)]
      /\ uses' \in [Threads -> SUBSET Objects] /\ owns' \in [Threads -> SUBSET (Objects \cup Delegates)]
      BY <1>1 DEF CallsInv, GivesUp
<1>3. ASSUME NEW u \in Threads
      PROVE  Shape(todo'[u], refs'[u]) /\ (todo'[u] = <<>>
               => refs'[u] = <<>> /\ uses'[u] = {} /\ owns'[u] = {})
  <2>1. CASE u = t
    <3>1. todo'[u] = <<>> /\ refs'[u] = <<>> /\ uses'[u] = {} /\ owns'[u] = {}
          BY <2>1 DEF CallsInv, GivesUp
    <3>2. QED
          BY <3>1, EmptyShape
  <2>2. CASE u # t
    <3>1. todo'[u] = todo[u] /\ refs'[u] = refs[u] /\ uses'[u] = uses[u] /\ owns'[u] = owns[u]
          BY <2>2 DEF CallsInv, GivesUp
    <3>2. QED
          BY <3>1, Zenon DEF CallsInv
  <2>3. QED
        BY <2>1, <2>2
<1>4. QED
      BY <1>2, <1>3, Zenon DEF CallsInv

\* Every step of the driver is one of these two.
LEMMA StepsProceed ==
  ASSUME CallsInv, NEW t \in Threads, DriverStep(t)
  PROVE  /\ state = "running" /\ todo[t] # <<>> /\ UNCHANGED state
         /\ Proceeds(t) \/ GivesUp(t)
<1>1. ASSUME todo[t] # <<>>
      PROVE  Head(todo[t]) = todo[t][1] /\ todo[t][1] \in DriverCalls
      BY <1>1, TailFacts DEF CallsInv
<1>2. ASSUME NEW op, op \notin {"get", "CreateBacking"}, Step(t, op), NEW S \in SUBSET Objects,
             Proceed(t, refs[t], S)
      PROVE  state = "running" /\ todo[t] # <<>> /\ UNCHANGED state /\ Proceeds(t)
      BY <1>1, <1>2 DEF Step, Proceeds, Proceed, MayGet
<1>e. {} \in SUBSET Objects
      OBVIOUS
<1>3. CASE ObjectExists(t)
      BY <1>2, <1>3, <1>e DEF ObjectExists
<1>4. CASE GetObject(t)
  <2>1. PICK o \in Find(Head(todo[t]).kind, Head(todo[t]).id) : Proceed(t, Append(refs[t], o), {})
        BY <1>4 DEF GetObject
  <2>2. o \in Kind[Head(todo[t]).kind] /\ todo[t] # <<>> /\ state = "running"
          /\ Head(todo[t]).op = "get"
        BY <1>4, <2>1 DEF GetObject, Find, Step
  <2>3. MayGet(todo[t], refs[t], Append(refs[t], o))
        BY <1>1, <2>2 DEF MayGet
  <2>4. QED
        BY <1>e, <2>1, <2>2, <2>3 DEF Proceeds, Proceed
<1>5. CASE CreateConfigOrSurface(t)
  <2>1. PICK k \in {"config", "surface"} : \E o \in Kind[k] : Proceed(t, refs[t], {o})
        BY <1>5 DEF CreateConfigOrSurface
  <2>2. PICK o \in Kind[k] : Proceed(t, refs[t], {o})
        BY <2>1
  <2>0. {o} \in SUBSET Objects
        BY KindsFacts, OpsFacts
  <2>3. QED
        BY <1>2, <1>5, <2>0, <2>2 DEF CreateConfigOrSurface
<1>6. CASE CreateContext(t)
      BY <1>2, <1>6 DEF CreateContext, Objects
<1>7. CASE CreateBuffer(t)
  <2>1. PICK k \in {"param", "slice"} : \E o \in Kind[k] : Proceed(t, refs[t], {o})
        BY <1>7 DEF CreateBuffer
  <2>2. PICK o \in Kind[k] : Proceed(t, refs[t], {o})
        BY <2>1
  <2>0. {o} \in SUBSET Objects
        BY KindsFacts, OpsFacts
  <2>3. QED
        BY <1>2, <1>7, <2>0, <2>2 DEF CreateBuffer
<1>8. CASE CreateBacking(t)
  <2>1. PICK b \in Backings : Proceed(t, <<b>>, {b})
        BY <1>8 DEF CreateBacking
  <2>2. todo[t] # <<>> /\ state = "running" /\ Head(todo[t]).op = "CreateBacking"
        BY <1>8 DEF CreateBacking, Step
  <2>3. MayGet(todo[t], refs[t], <<b>>) /\ {b} \in SUBSET Objects
        BY <1>1, <2>1, <2>2 DEF MayGet, Objects, Buffers
  <2>4. QED
        BY <2>1, <2>2, <2>3 DEF Proceeds, Proceed
<1>9. CASE CreateImage(t)
      BY <1>2, <1>9 DEF CreateImage, Objects
<1>10. CASE DestroyBacking(t) \/ DestroyImage(t) \/ DestroyObject(t)
      BY <1>2, <1>10, <1>e DEF DestroyBacking, DestroyImage, DestroyObject
<1>11. CASE GetMappedBO(t)
  <2>1. CASE Proceed(t, refs[t], {})
        BY <1>2, <1>11, <1>e, <2>1 DEF GetMappedBO
  <2>2. CASE ~Proceed(t, refs[t], {})
        BY <1>11, <2>2 DEF GetMappedBO, GivesUp, Step
  <2>3. QED
        BY <2>1, <2>2
<1>12. CASE GetData(t)
      BY <1>2, <1>12, <1>e DEF GetData
<1>13. CASE BeginPicture(t) \/ RenderPicture(t) \/ Run(t) \/ RunReturns(t)
      BY <1>2, <1>13, <1>e DEF BeginPicture, RenderPicture, Run, RunReturns
<1>14. CASE NoOp(t)
      BY <1>2, <1>14, <1>e DEF NoOp, ContextMethods
<1>15. QED
      BY <1>3, <1>4, <1>5, <1>6, <1>7, <1>8, <1>9, <1>10, <1>11, <1>12, <1>13, <1>14 DEF DriverStep

\* The calls stay well formed in every step of the system.
LEMMA CallsStep ==
  ASSUME ObjectsInv, CallsInv, [Next]_vars
  PROVE  CallsInv'
<1>1. ASSUME NEW t \in Threads, EntryPoint(t) PROVE CallsInv'
  <2>1. todo[t] = <<>>
        BY <1>1 DEF EntryPoint, CallConfig, CallSurface, CallContext, CallBuffer, CallPicture,
           CallImage, Ready
  <2>2. QED
        BY <1>1, <2>1, EntriesEnter, CallsAfterCall
<1>2. ASSUME NEW t \in Threads, DriverStep(t) PROVE CallsInv'
      BY <1>2, StepsProceed, CallsAfterStep, CallsAfterGivingUp
<1>3. ASSUME UNCHANGED callVars PROVE CallsInv'
      BY <1>3, Zenon DEF CallsInv, callVars
<1>4. ASSUME NEW t \in Threads, Die(t) PROVE CallsInv'
      BY <1>3, <1>4 DEF Die
<1>5. CASE vsTerminate \/ DestroyRemaining \/ DestroyFactory \/ vaDriverInit
      BY <1>3, <1>5 DEF vsTerminate, DestroyRemaining, DestroyFactory, vaDriverInit, callVars
<1>6. CASE UNCHANGED vars
      BY <1>3, <1>6 DEF vars
<1>7. QED
      BY <1>1, <1>2, <1>4, <1>5, <1>6 DEF Next

\* Where a context, and a surface or an image's buffer, was got last.
LEMMA LastFacts ==
  ASSUME CallsInv, NEW t \in Threads, todo[t] # <<>>
  PROVE  /\ Head(todo[t]).op = "create" /\ Head(todo[t]).kind = "context" => Last(refs[t]) \in Configs
         /\ Head(todo[t]).op = "create" /\ Head(todo[t]).kind = "image" => Last(refs[t]) \in Backings
         /\ Head(todo[t]).op = "BeginPicture" => Last(refs[t]) \in Surfaces
         /\ Head(todo[t]).kind \in Kinds
<1>1. Shape(todo[t], refs[t]) /\ todo[t] \in Seq(DriverCalls)
      BY DEF CallsInv
<1>2. Head(todo[t]) = todo[t][1] /\ 1 \in 1..Len(todo[t]) /\ todo[t][1] \in DriverCalls
      BY <1>1, TailFacts
<1>3. QED
      BY <1>1, <1>2 DEF Shape, LastIs, DriverCalls

\* Max is the maximum.
LEMMA MaxFacts ==
  ASSUME NEW S \in SUBSET Nat, S # {}, NEW n \in Nat, \A i \in S : i <= n
  PROVE  Max(S) \in S /\ \A i \in S : i <= Max(S)
<1>1. \E x \in S : \A y \in S : x >= y
  <2>1. PICK x \in S : \A y \in S : y <= x
        BY GreatestMember
  <2>2. \A y \in S : x >= y
        BY <2>1
  <2>3. QED
        BY <2>2
<1>2. QED
      BY <1>1, Zenon DEF Max

\* What the steps do to the objects, one kind of step after the other.
LEMMA AllocateObjects ==
  ASSUME ObjectsInv, NEW k \in Kinds, NEW o \in Objects, Allocate(k, o)
  PROVE  /\ id' \in [Objects -> Ids \cup {NoId}]
         /\ \A p \in Objects \ {o} : id'[p] = id[p]
         /\ id'[o] = FreeId(k)
BY FreeIdFacts DEF Allocate, ObjectsInv

\* What the destruction of an object does to the ids.
LEMMA ReleaseObjects ==
  ASSUME ObjectsInv, NEW o, id' = [id EXCEPT ![o] = NoId]
  PROVE  /\ id' \in [Objects -> Ids \cup {NoId}]
         /\ \A p \in Objects : id'[p] = IF p = o THEN NoId ELSE id[p]
BY DEF ObjectsInv

\* The objects stay well formed in every step of the system.
LEMMA ObjectsStep ==
  ASSUME ObjectsInv, CallsInv, [Next]_vars
  PROVE  ObjectsInv'
<1> DEFINE Images1 == \A m \in Images : id'[m] # NoId => id[m] # NoId
<1>a. \A m \in Images : id[m] # NoId => buffer_[m] \in Backings
      BY DEF ObjectsInv, Live
<1>1. ASSUME id' \in [Objects -> Ids \cup {NoId}], Images1, UNCHANGED objectVars PROVE ObjectsInv'
      BY <1>1 DEF ObjectsInv, objectVars, Live
<1>2. ASSUME UNCHANGED <<id, objectVars>> PROVE ObjectsInv'
  <2>1. id' \in [Objects -> Ids \cup {NoId}] /\ Images1 /\ UNCHANGED objectVars
        BY <1>2 DEF ObjectsInv
  <2>2. QED
        BY <1>1, <2>1
<1>3. ASSUME NEW k \in Kinds, NEW o \in Objects \ Images, Allocate(k, o), UNCHANGED objectVars
      PROVE  ObjectsInv'
  <2>1. Images \subseteq Objects
        BY DEF Objects
  <2>2. id' \in [Objects -> Ids \cup {NoId}] /\ Images1
        BY <1>3, <2>1, AllocateObjects
  <2>3. QED
        BY <1>1, <1>3, <2>2
<1>4. ASSUME NEW o, id' = [id EXCEPT ![o] = NoId], UNCHANGED objectVars PROVE ObjectsInv'
  <2>1. Images \subseteq Objects
        BY DEF Objects
  <2>2. id' \in [Objects -> Ids \cup {NoId}] /\ Images1
        BY <1>4, <2>1, ReleaseObjects
  <2>3. QED
        BY <1>1, <1>4, <2>2
<1>5. ASSUME UNCHANGED <<id, buffer_>>,
             config_' \in [Contexts -> Configs \cup {Nil}],
             render_target_' \in [Contexts -> Surfaces \cup {Nil}],
             pic_param_' \in [Contexts -> Params \cup {Nil}],
             slices_' \in [Contexts -> SUBSET Slices]
      PROVE  ObjectsInv'
      BY <1>5 DEF ObjectsInv, Live
<1>t. ASSUME NEW t \in Threads, DriverStep(t) PROVE todo[t] # <<>> /\ refs[t] \in Seq(Objects)
      BY <1>t, StepsProceed DEF CallsInv
<1>6. ASSUME NEW t \in Threads, EntryPoint(t) PROVE ObjectsInv'
  <2>1. UNCHANGED <<id, objectVars>>
        BY <1>6, EntriesEnter DEF Enters, Call
  <2>2. QED
        BY <1>2, <2>1
<1>7. ASSUME NEW t \in Threads, ObjectExists(t) \/ GetObject(t) \/ GetMappedBO(t) \/ GetData(t)
             \/ Run(t) \/ NoOp(t)
      PROVE  ObjectsInv'
      BY <1>2, <1>7 DEF ObjectExists, GetObject, GetMappedBO, GetData, Run, NoOp
<1>8. ASSUME NEW t \in Threads, DestroyObject(t) \/ DestroyBacking(t)
             \/ DestroyImage(t) PROVE ObjectsInv'
      BY <1>4, <1>8 DEF DestroyObject, DestroyBacking, DestroyImage, ReleaseBuffer
<1>9. ASSUME NEW t \in Threads, CreateConfigOrSurface(t) PROVE ObjectsInv'
  <2>1. PICK k \in {"config", "surface"} : \E o \in Kind[k] : Allocate(k, o)
        BY <1>9 DEF CreateConfigOrSurface
  <2>2. Kind[k] \subseteq Objects \ Images /\ k \in Kinds
        BY KindsFacts, KindsApart, OpsFacts DEF Objects
  <2>3. UNCHANGED objectVars
        BY <1>9 DEF CreateConfigOrSurface
  <2>4. QED
        BY <1>3, <2>1, <2>2, <2>3
<1>10. ASSUME NEW t \in Threads, CreateBuffer(t) \/ CreateBacking(t) PROVE ObjectsInv'
  <2>1. PICK b \in Buffers : Allocate("buffer", b)
        BY <1>10, KindsFacts DEF CreateBuffer, CreateBacking, Buffers
  <2>2. b \in Objects \ Images /\ "buffer" \in Kinds
        BY KindsApart, OpsFacts DEF Objects
  <2>3. UNCHANGED objectVars
        BY <1>10 DEF CreateBuffer, CreateBacking
  <2>4. QED
        BY <1>3, <2>1, <2>2, <2>3
<1>11. ASSUME NEW t \in Threads, CreateContext(t) PROVE ObjectsInv'
  <2>1. PICK c \in Contexts :
          /\ Allocate("context", c)
          /\ config_' = [config_ EXCEPT ![c] = Last(refs[t])]
          /\ render_target_' = [render_target_ EXCEPT ![c] = Nil]
          /\ pic_param_' = [pic_param_ EXCEPT ![c] = Nil]
          /\ slices_' = [slices_ EXCEPT ![c] = {}]
        BY <1>11 DEF CreateContext
  <2>2. Last(refs[t]) \in Configs
        BY <1>11, LastFacts DEF CreateContext, Step
  <2>3. c \in Objects /\ c \notin Images /\ Images \subseteq Objects /\ "context" \in Kinds
        BY KindsApart, OpsFacts DEF Objects
  <2>4. id' \in [Objects -> Ids \cup {NoId}] /\ Images1
        BY <2>1, <2>3, AllocateObjects
  <2>5. UNCHANGED buffer_
        BY <1>11 DEF CreateContext
  <2>6. /\ config_' \in [Contexts -> Configs \cup {Nil}]
        /\ render_target_' \in [Contexts -> Surfaces \cup {Nil}]
        /\ pic_param_' \in [Contexts -> Params \cup {Nil}]
        /\ slices_' \in [Contexts -> SUBSET Slices]
        BY <2>1, <2>2 DEF ObjectsInv
  <2>7. QED
        BY <2>4, <2>5, <2>6 DEF ObjectsInv, Live
<1>12. ASSUME NEW t \in Threads, CreateImage(t) PROVE ObjectsInv'
  <2>1. PICK m \in Images : Allocate("image", m) /\ buffer_' = [buffer_ EXCEPT ![m] = Last(refs[t])]
        BY <1>12 DEF CreateImage
  <2>2. Last(refs[t]) \in Backings
        BY <1>12, LastFacts DEF CreateImage, Step
  <2>3. m \in Objects /\ Images \subseteq Objects /\ "image" \in Kinds
        BY OpsFacts DEF Objects
  <2>4. id' \in [Objects -> Ids \cup {NoId}] /\ \A n \in Images \ {m} : id'[n] = id[n]
        BY <2>1, <2>3, AllocateObjects
  <2>5. UNCHANGED <<config_, render_target_, pic_param_, slices_>>
        BY <1>12 DEF CreateImage
  <2>6. QED
        BY <2>1, <2>2, <2>4, <2>5 DEF ObjectsInv, Live
<1>13. ASSUME NEW t \in Threads, BeginPicture(t) PROVE ObjectsInv'
  <2>1. Last(refs[t]) \in Surfaces
        BY <1>13, LastFacts DEF BeginPicture, Step
  <2>2. QED
        BY <1>5, <1>13, <2>1 DEF BeginPicture, ObjectsInv
<1>14. ASSUME NEW t \in Threads, RenderPicture(t) PROVE ObjectsInv'
  <2> DEFINE c == Context(t)
             params == {n \in 1..Len(refs[t]) : refs[t][n] \in Params}
  <2>1. /\ slices_' = [slices_ EXCEPT ![c] = Looked(t) \cap Slices]
        /\ pic_param_' = [pic_param_ EXCEPT ![c] = IF params = {} THEN pic_param_[c] ELSE refs[t][Max(params)]]
        /\ UNCHANGED <<id, config_, render_target_, buffer_>>
        BY <1>14 DEF RenderPicture, ObjectsInv
  <2>2. params # {} => refs[t][Max(params)] \in Params
    <3>1. Len(refs[t]) \in Nat
          BY DEF CallsInv
    <3>2. params \in SUBSET Nat /\ \A i \in params : i <= Len(refs[t])
          BY <3>1
    <3>3. params # {} => Max(params) \in params
          BY <3>1, <3>2, MaxFacts
    <3>4. QED
          BY <3>3
  <2> HIDE DEF params, c
  <2>3. slices_' \in [Contexts -> SUBSET Slices]
        BY <2>1 DEF ObjectsInv
  <2>4. pic_param_' \in [Contexts -> Params \cup {Nil}]
        BY <2>1, <2>2 DEF ObjectsInv
  <2>5. QED
        BY <1>5, <2>1, <2>3, <2>4 DEF ObjectsInv
<1>15. ASSUME NEW t \in Threads, RunReturns(t) PROVE ObjectsInv'
      BY <1>5, <1>15 DEF RunReturns, ObjectsInv
<1>16. ASSUME NEW t \in Threads, DriverStep(t) PROVE ObjectsInv'
      BY <1>16, <1>7, <1>8, <1>9, <1>10, <1>11, <1>12, <1>13, <1>14, <1>15 DEF DriverStep
<1>17. ASSUME NEW t \in Threads, Die(t) PROVE ObjectsInv'
      BY <1>2, <1>17 DEF Die
<1>18. CASE vsTerminate
      BY <1>2, <1>18 DEF vsTerminate
<1>19. CASE DestroyFactory \/ vaDriverInit
      BY <1>5, <1>19 DEF DestroyFactory, vaDriverInit, ObjectsInv
<1>20. CASE DestroyRemaining
  <2>1. PICK k \in DOMAIN Kind : \E o \in Kind[k] :
          IF DestructorFails(o) THEN UNCHANGED id
          ELSE id' = [IF o \in Images THEN ReleaseBuffer(o) ELSE id EXCEPT ![o] = NoId]
        BY <1>20 DEF DestroyRemaining
  <2>2. PICK o \in Kind[k] :
          IF DestructorFails(o) THEN UNCHANGED id
          ELSE id' = [IF o \in Images THEN ReleaseBuffer(o) ELSE id EXCEPT ![o] = NoId]
        BY <2>1
  <2>3. UNCHANGED objectVars
        BY <1>20 DEF DestroyRemaining
  <2>4. Images \subseteq Objects
        BY DEF Objects
  <2>5. id' \in [Objects -> Ids \cup {NoId}] /\ Images1
        BY <2>2, <2>4 DEF ObjectsInv, ReleaseBuffer
  <2>6. QED
        BY <1>1, <2>3, <2>5
<1>21. CASE UNCHANGED vars
      BY <1>2, <1>21 DEF vars
<1>22. QED
      BY <1>6, <1>16, <1>17, <1>18, <1>19, <1>20, <1>21 DEF Next

\* A failure is one of those the process dies of.
LEMMA FailureKinds ==
  ASSUME NEW t, Failure(t) # "none"
  PROVE  Failure(t) \in Died
BY DEF Failure, Died

\* The driver stays well formed in every step of the system.
LEMMA DriverStepInv ==
  ASSUME TypeInv, [Next]_vars
  PROVE  DriverInv'
<1>0. DriverInv
      BY DEF TypeInv
<1>1. ASSUME UNCHANGED <<no_op, factory, images_lock, state>> PROVE DriverInv'
      BY <1>0, <1>1 DEF DriverInv
<1>2. ASSUME UNCHANGED <<no_op, factory>>, images_lock' \in Threads \cup {Nil}, UNCHANGED state
      PROVE  DriverInv'
      BY <1>0, <1>2 DEF DriverInv
<1>3. ASSUME NEW t \in Threads, EntryPoint(t) PROVE DriverInv'
  <2>1. Enters(t)
        BY <1>3, EntriesEnter DEF TypeInv
  <2>2. QED
        BY <1>1, <2>1 DEF Enters, Call, objectVars
<1>4. ASSUME NEW t \in Threads, DriverStep(t) PROVE DriverInv'
  <2>1. UNCHANGED state
        BY <1>4, StepsProceed DEF TypeInv
  <2>2. CASE ObjectExists(t) \/ GetObject(t) \/ DestroyObject(t) \/ CreateConfigOrSurface(t)
             \/ CreateContext(t) \/ CreateBuffer(t) \/ GetMappedBO(t) \/ GetData(t)
        BY <1>1, <2>1, <2>2 DEF ObjectExists, GetObject, DestroyObject, CreateConfigOrSurface,
             CreateContext, CreateBuffer, GetMappedBO, GetData, objectVars
  <2>3. CASE BeginPicture(t) \/ RenderPicture(t) \/ Run(t) \/ RunReturns(t) \/ NoOp(t)
        BY <1>1, <2>1, <2>3 DEF BeginPicture, RenderPicture, Run, RunReturns, NoOp, objectVars
  <2>4. CASE CreateBacking(t) \/ CreateImage(t) \/ DestroyBacking(t) \/ DestroyImage(t)
        BY <1>2, <2>1, <2>4 DEF CreateBacking, CreateImage, DestroyBacking, DestroyImage, objectVars
  <2>5. QED
        BY <1>4, <2>2, <2>3, <2>4 DEF DriverStep
<1>5. ASSUME NEW t \in Threads, Die(t) PROVE DriverInv'
  <2>1. state' \in Died /\ UNCHANGED <<no_op, factory, images_lock>>
        BY <1>5, FailureKinds DEF Die, objectVars
  <2>2. QED
        BY <1>0, <2>1 DEF DriverInv, Died
<1>6. CASE vsTerminate \/ DestroyFactory \/ vaDriverInit
      BY <1>0, <1>6 DEF DriverInv, vsTerminate, DestroyFactory, vaDriverInit, objectVars
<1>7. CASE DestroyRemaining
  <2>1. /\ state = "closing" /\ UNCHANGED <<no_op, factory, images_lock>>
        /\ state' = "member" \/ state' = state
        BY <1>7 DEF DestroyRemaining, objectVars
  <2>2. QED
        BY <1>0, <2>1 DEF DriverInv, Died
<1>8. CASE UNCHANGED vars
      BY <1>1, <1>8 DEF vars, objectVars
<1>9. QED
      BY <1>3, <1>4, <1>5, <1>6, <1>7, <1>8 DEF Next

\* The types hold initially, ...
LEMMA TypeInit == Init => TypeInv
<1> SUFFICES ASSUME Init PROVE TypeInv
    OBVIOUS
<1>1. ObjectsInv
  <2>1. id \in [Objects -> Ids \cup {NoId}] /\ \A m \in Images : ~Live(m)
        BY DEF Init, Live, Objects
  <2>2. QED
        BY <2>1 DEF Init, ObjectsInv
<1>2. CallsInv
  <2>1. <<>> \in Seq(DriverCalls) /\ <<>> \in Seq(Objects)
        BY TupleSeq
  <2>2. QED
        BY <2>1, EmptyShape DEF Init, CallsInv
<1>3. DriverInv
      BY DEF Init, DriverInv
<1>4. QED
      BY <1>1, <1>2, <1>3 DEF TypeInv

\* ... every step keeps them, ...
LEMMA TypeStep == TypeInv /\ [Next]_vars => TypeInv'
BY ObjectsStep, CallsStep, DriverStepInv DEF TypeInv

\* ... so they hold always, ...
LEMMA TypeInvariant == Spec => []TypeInv
BY TypeInit, TypeStep, PTL DEF Spec

\* ... and they are what TypeOK asks for.
LEMMA TypeImplies == TypeInv => TypeOK
<1> SUFFICES ASSUME TypeInv PROVE TypeOK
    OBVIOUS
<1>1. ASSUME NEW t \in Threads
      PROVE  /\ \A i \in DOMAIN todo[t] :
                  /\ todo[t][i].op \in Methods \cup ContextMethods \cup OtherMethods
                  /\ todo[t][i].kind \in DOMAIN Kind
             /\ refs[t] \in Seq(Objects)
             /\ uses[t] \subseteq Objects
             /\ owns[t] \subseteq Objects \cup {<<c>> : c \in Contexts}
             /\ todo[t] = <<>> => refs[t] = <<>> /\ uses[t] = {} /\ owns[t] = {}
  <2>1. /\ todo[t] \in Seq(DriverCalls) /\ refs[t] \in Seq(Objects) /\ uses[t] \in SUBSET Objects
        /\ owns[t] \in SUBSET (Objects \cup Delegates)
        /\ todo[t] = <<>> => refs[t] = <<>> /\ uses[t] = {} /\ owns[t] = {}
        BY DEF TypeInv, CallsInv
  <2>2. \A i \in DOMAIN todo[t] : todo[t][i] \in DriverCalls
        BY <2>1
  <2>3. QED
        BY <2>1, <2>2, KindsFacts DEF DriverCalls, Ops, Delegates
<1>2. QED
      BY <1>1 DEF TypeInv, ObjectsInv, DriverInv, TypeOK

\* The state keeps its types, whatever ids the application passes in whatever order:
\* it includes that the calls left to a thread are calls of the driver, and that a
\* thread without a call holds no reference (drv_video.cc).
THEOREM TypeOKTheorem == Spec => []TypeOK
BY TypeInvariant, TypeImplies, PTL

WorkInv == \A c \in Contexts : slices_[c] # {} => render_target_[c] # Nil /\ ~NoDelegate(c)

\* Work that has a target and a delegate keeps them.
LEMMA WorkStep ==
  ASSUME TypeInv, WorkInv, [Next]_vars
  PROVE  WorkInv'
<1>0. slices_ \in [Contexts -> SUBSET Slices] /\ render_target_ \in [Contexts -> Surfaces \cup {Nil}]
      /\ config_ \in [Contexts -> Configs \cup {Nil}]
      BY DEF TypeInv, ObjectsInv
<1>1. ASSUME UNCHANGED <<slices_, render_target_, config_, no_op>> PROVE WorkInv'
      BY <1>1 DEF WorkInv, NoDelegate
<1>2. ASSUME NEW t \in Threads, EntryPoint(t) PROVE WorkInv'
  <2>1. Enters(t)
        BY <1>2, EntriesEnter DEF TypeInv
  <2>2. QED
        BY <1>1, <2>1 DEF Enters, Call, objectVars
<1>3. ASSUME NEW t \in Threads,
             ObjectExists(t) \/ GetObject(t) \/ DestroyObject(t) \/ CreateConfigOrSurface(t)
             \/ CreateBuffer(t) \/ GetMappedBO(t) \/ GetData(t) \/ Run(t) \/ NoOp(t)
             \/ CreateBacking(t) \/ CreateImage(t) \/ DestroyBacking(t) \/ DestroyImage(t)
      PROVE  WorkInv'
      BY <1>1, <1>3 DEF ObjectExists, GetObject, DestroyObject, CreateConfigOrSurface, CreateBuffer,
           GetMappedBO, GetData, Run, NoOp, CreateBacking, CreateImage, DestroyBacking, DestroyImage, objectVars
<1>4. ASSUME NEW t \in Threads, CreateContext(t) PROVE WorkInv'
  <2>1. PICK c \in Contexts : /\ slices_' = [slices_ EXCEPT ![c] = {}]
                              /\ config_' = [config_ EXCEPT ![c] = Last(refs[t])]
                              /\ render_target_' = [render_target_ EXCEPT ![c] = Nil]
        BY <1>4 DEF CreateContext
  <2>2. UNCHANGED no_op
        BY <1>4 DEF CreateContext
  <2>3. ASSUME NEW d \in Contexts, slices_'[d] # {}
        PROVE  slices_[d] # {} /\ config_'[d] = config_[d] /\ render_target_'[d] = render_target_[d]
        BY <1>0, <2>1, <2>3
  <2>4. QED
        BY <2>2, <2>3 DEF WorkInv, NoDelegate
<1>5. ASSUME NEW t \in Threads, BeginPicture(t) PROVE WorkInv'
  <2>1. Last(refs[t]) \in Surfaces /\ Nil \notin Surfaces
        BY <1>5, LastFacts, KindsApart DEF BeginPicture, Step, TypeInv, Objects
  <2>2. /\ render_target_' = [render_target_ EXCEPT ![Context(t)] = Last(refs[t])]
        /\ UNCHANGED <<slices_, config_, no_op>>
        BY <1>5 DEF BeginPicture
  <2>3. \A c \in Contexts : render_target_[c] # Nil => render_target_'[c] # Nil
        BY <1>0, <2>1, <2>2
  <2>4. QED
        BY <2>2, <2>3 DEF WorkInv, NoDelegate
<1>6. ASSUME NEW t \in Threads, RenderPicture(t) PROVE WorkInv'
  <2> DEFINE c == Context(t)
  <2>1. /\ slices_' = [slices_ EXCEPT ![c] = Looked(t) \cap Slices]
        /\ UNCHANGED <<render_target_, config_, no_op>>
        BY <1>6 DEF RenderPicture
  <2>2. ~no_op /\ Head(todo[t]).op = "RenderPicture" /\ Failure(t) = "none"
        BY <1>6 DEF RenderPicture, Step, Proceed
  <2>3. ~PictureCheckFails(t)
        BY <2>2 DEF Failure
  <2>4. render_target_[c] # Nil /\ ~NoDelegate(c)
        BY <2>2, <2>3 DEF PictureCheckFails
  <2> HIDE DEF c
  <2>5. \A d \in Contexts : d # c => slices_'[d] = slices_[d]
        BY <1>0, <2>1
  <2>6. QED
        BY <2>1, <2>4, <2>5 DEF WorkInv, NoDelegate
<1>7. ASSUME NEW t \in Threads, RunReturns(t) PROVE WorkInv'
  <2>1. /\ slices_' = [slices_ EXCEPT ![Context(t)] = {}]
        /\ UNCHANGED <<render_target_, config_, no_op>>
        BY <1>7 DEF RunReturns
  <2>2. \A c \in Contexts : slices_'[c] # {} => slices_[c] # {}
        BY <1>0, <2>1
  <2>3. QED
        BY <2>1, <2>2 DEF WorkInv, NoDelegate
<1>8. ASSUME NEW t \in Threads, DriverStep(t) PROVE WorkInv'
      BY <1>3, <1>4, <1>5, <1>6, <1>7, <1>8 DEF DriverStep
<1>9. ASSUME NEW t \in Threads, Die(t) PROVE WorkInv'
      BY <1>1, <1>9 DEF Die, objectVars
<1>10. CASE vsTerminate \/ DestroyFactory \/ vaDriverInit \/ DestroyRemaining
      BY <1>1, <1>10 DEF vsTerminate, DestroyFactory, vaDriverInit, DestroyRemaining, objectVars
<1>11. CASE UNCHANGED vars
      BY <1>1, <1>11 DEF vars, objectVars
<1>12. QED
      BY <1>2, <1>8, <1>9, <1>10, <1>11 DEF Next

\* Whatever ids are passed, and in whatever order the calls of a picture come, slices
\* are enqueued only in a context whose config has a delegate, and only when it has a
\* render target (the CHECKs of EnqueueWork and of the delegates).
THEOREM WorkHasATargetTheorem == Spec => []WorkHasATarget
<1>1. Init => WorkInv
      BY DEF Init, WorkInv
<1>2. TypeInv /\ WorkInv /\ [Next]_vars => WorkInv'
      BY WorkStep
<1>3. WorkInv => WorkHasATarget
      BY DEF WorkInv, WorkHasATarget
<1>4. QED
      BY <1>1, <1>2, <1>3, TypeInvariant, PTL DEF Spec

--------------------------------------------------------------------------------
(* A careful application: its threads, its pictures and its images.          *)

\* What a careful application's calls and the driver's objects satisfy.
ThreadInv(t) ==
  /\ Keeps(todo[t], refs[t], uses[t], owns[t]) /\ Named(todo[t]) /\ Alive(refs[t], uses[t])
  /\ Drawing(todo[t], refs[t]) /\ Imaging(todo[t], refs[t], uses[t], owns[t])

Apart == \A t, u \in Threads : t # u => (uses[t] \cup owns[t]) \cap owns[u] = {}

SlicesInv ==
  /\ \A t \in Threads : Spares(todo[t])
  /\ state = "running" => \A c \in Contexts : Live(c) /\ slices_[c] # {} =>
       pic_param_[c] \in Params /\ Live(pic_param_[c]) /\ \A b \in slices_[c] : Live(b)

\* A thread between the two steps that create or destroy an image.
AtImage(t, op) == todo[t] # <<>> /\ Head(todo[t]).op = op /\ Head(todo[t]).kind = "image"
Ending(t, m)   == AtImage(t, "destroy") /\ Head(todo[t]).obj = m
Starting(t, b) == AtImage(t, "create") /\ Last(refs[t]) = b

ImagesInv ==
  /\ \A m \in Images : Live(m) => (Live(buffer_[m]) <=> \A t \in Threads : ~Ending(t, m))
  /\ \A m, n \in Images : Live(m) /\ Live(n) /\ buffer_[m] = buffer_[n] => m = n
  /\ \A b \in Backings : Live(b) => \/ \E m \in Images : Live(m) /\ buffer_[m] = b
                                    \/ \E t \in Threads : Starting(t, b)
  /\ \A t \in Threads, m \in Images : Live(m) => ~Starting(t, buffer_[m])

LockInv == \A t \in Threads : AtImage(t, "create") \/ AtImage(t, "destroy") => images_lock = t

ClosingInv == state = "closing" => \A t \in Threads : todo[t] = <<>>

CarefulInv ==
  /\ \A t \in Threads : ThreadInv(t)
  /\ UniqueIds /\ Apart /\ SlicesInv /\ ImagesInv /\ LockInv /\ ClosingInv

\* The thread that ends an image owns it.
LEMMA EndingOwns ==
  ASSUME CallsInv, NEW u \in Threads, ThreadInv(u), NEW m, Ending(u, m)
  PROVE  m \in owns[u]
<1>1. todo[u] \in Seq(DriverCalls) /\ todo[u] # <<>>
      BY DEF CallsInv, Ending, AtImage
<1>2. Head(todo[u]) = todo[u][1] /\ 1 \in 1..Len(todo[u])
      BY <1>1, TailFacts
<1>3. QED
      BY <1>2 DEF ThreadInv, Keeps, Ending, AtImage, Releases

\* An image that a call may use has its buffer.
LEMMA UsableImageHasBuffer ==
  ASSUME CallsInv, CarefulInv, NEW m \in Images, Live(m), NEW S, m \in S,
         \A u \in Threads : S \cap owns[u] = {}
  PROVE  Live(buffer_[m])
BY EndingOwns DEF CarefulInv, ImagesInv

\* Every call of a careful application is one that keeps to the rules.
LEMMA CarefulEntries ==
  ASSUME Careful, ObjectsInv, CallsInv, CarefulInv, NEW t \in Threads, EntryPoint(t)
  PROVE  \E calls, S, X : Call(t, calls, S, X) /\ Honest(calls, S, X)
<1>1. CASE CallConfig(t)
      BY <1>1, UsersEntries, DestroyersEntries DEF CallConfig
<1>2. CASE CallSurface(t)
  <2>1. CASE \E n \in 1..2 : Call(t, vsCreateSurfaces2(n), {}, {})
               \/ Call(t, vsCreateSurfaces(n), {}, {})
        BY <2>1, vsCreateSurfacesHonest
  <2>2. CASE \E list \in Lists(Names("surface"), 2) : Call(t, vsDestroySurfaces(list), {}, Meant(list))
        BY <2>2, vsDestroySurfacesHonest
  <2>3. CASE \E target \in Names("surface") :
          \/ \E calls \in {vsSyncSurface(target), vsPutSurface(target), vsDeriveImage(target)} :
               Call(t, calls, Meant(<<target>>), {})
          \/ /\ Traps
             /\ \E calls \in {vsQuerySurfaceStatus, vsAssociateSubpicture, vsDeassociateSubpicture} :
                  Call(t, calls, Meant(<<target>>), {})
        BY <2>3, UsersEntries
  <2>4. QED
        BY <1>2, <2>1, <2>2, <2>3 DEF CallSurface
<1>3. CASE CallContext(t)
  <2>1. \A targets \in {<<>>} \cup Lists(Names("surface"), 1) : targets \in Seq(Names("surface"))
        BY ListsFacts, TupleSeq
  <2>2. CASE \E config \in Names("config"), targets \in {<<>>} \cup Lists(Names("surface"), 1) :
          Call(t, vsCreateContext(config, targets), Meant(<<config>> \o targets), {})
        BY <2>1, <2>2, vsCreateContextHonest
  <2>3. CASE \E context \in Names("context") :
          Call(t, vsDestroyContext(context), {}, Meant(<<context>>))
        BY <2>3, DestroyersEntries
  <2>4. QED
        BY <1>3, <2>2, <2>3 DEF CallContext
<1>4. CASE CallBuffer(t)
  <2>1. CASE \E context \in Names("context"), kind \in {"param", "slice"} :
          Call(t, vsCreateBuffer(context, kind), Meant(<<context>>), {})
        BY <2>1, UsersEntries
  <2>2. CASE \E buffer \in Names("buffer") : Call(t, vsMapBuffer(buffer), Meant(<<buffer>>), {})
        BY <2>2, UsersEntries
  <2>3. CASE \E buffer \in Names("buffer") :
          /\ Careful => /\ buffer.obj \notin Backings
                        /\ \A c \in Contexts : Live(c) /\ slices_[c] # {} =>
                             buffer.obj \notin slices_[c] \cup {pic_param_[c]}
          /\ Call(t, vsDestroyBuffer(buffer), {}, Meant(<<buffer>>))
        BY <2>3, DestroyersEntries DEF Unused
  <2>4. QED
        BY <1>4, <2>1, <2>2, <2>3 DEF CallBuffer
<1>5. CASE CallPicture(t)
  <2>1. PICK context \in Names("context") :
       \/ \E target \in Names("surface") :
            /\ Careful => slices_[context.obj] = {}
            /\ Call(t, vsBeginPicture(context, target), Meant(<<context, target>>), Delegate(context))
       \/ \E list \in Lists(Names("buffer"), 2) :
            /\ Careful => /\ render_target_[context.obj] # Nil /\ slices_[context.obj] = {}
                          /\ Meant(list) \cap Params # {} /\ Meant(list) \cap Slices # {}
            /\ Call(t, vsRenderPicture(context, list), Meant(<<context>> \o list), Delegate(context))
       \/ /\ Careful => slices_[context.obj] # {}
          /\ Call(t, vsEndPicture(context), Meant(<<context>>), Delegate(context))
        BY <1>5 DEF CallPicture
  <2>2. CASE \E target \in Names("surface") :
          /\ Careful => slices_[context.obj] = {}
          /\ Call(t, vsBeginPicture(context, target), Meant(<<context, target>>), Delegate(context))
        BY <2>2, vsBeginPictureHonest
  <2>3. CASE \E list \in Lists(Names("buffer"), 2) :
          /\ Careful => /\ render_target_[context.obj] # Nil /\ slices_[context.obj] = {}
                        /\ Meant(list) \cap Params # {} /\ Meant(list) \cap Slices # {}
          /\ Call(t, vsRenderPicture(context, list), Meant(<<context>> \o list), Delegate(context))
        BY <2>3, vsRenderPictureHonest
  <2>4. CASE /\ Careful => slices_[context.obj] # {}
             /\ Call(t, vsEndPicture(context), Meant(<<context>>), Delegate(context))
        BY <2>4, vsEndPictureHonest
  <2>5. QED
        BY <2>1, <2>2, <2>3, <2>4
<1>6. CASE CallImage(t)
  <2>1. CASE Call(t, vsCreateImage, {}, {})
        BY <2>1, vsCreateImageHonest
  <2>2. CASE \E image \in Names("image") :
          Call(t, vsDestroyImage(image), {}, Meant(<<image>>) \cup Backing(image))
        BY <2>2, vsDestroyImageHonest
  <2>3. ASSUME NEW surface \in Names("surface"), NEW image \in Names("image"),
               NEW calls \in {vsGetImage(surface, image), vsPutImage(surface, image)},
               Call(t, calls, Meant(<<surface, image>>) \cup Backing(image), {})
        PROVE  Honest(calls, Meant(<<surface, image>>) \cup Backing(image), {})
    <3>1. /\ "image" \in Trackers /\ "surface" \in Trackers
          /\ image.obj \in Images /\ Live(image.obj)
          BY CarefulNames, KindsFacts, TrackersFacts
    <3>2. image.obj \in Meant(<<surface, image>>)
          BY <3>1, MeantTwo
    <3>3. \A u \in Threads : (Meant(<<surface, image>>) \cup Backing(image)) \cap owns[u] = {}
          BY <2>3 DEF Call, MayCall
    <3>4. Live(buffer_[image.obj])
          BY <3>1, <3>2, <3>3, UsableImageHasBuffer
    <3>5. QED
          BY <2>3, <3>4, vsGetImageHonest, vsPutImageHonest
  <2>4. QED
        BY <1>6, <2>1, <2>2, <2>3 DEF CallImage
<1>7. QED
      BY <1>1, <1>2, <1>3, <1>4, <1>5, <1>6 DEF EntryPoint

\* A thread whose objects nobody touches.
LEMMA ThreadKept ==
  ASSUME ObjectsInv, CallsInv, NEW u \in Threads, ThreadInv(u),
         todo'[u] = todo[u], refs'[u] = refs[u], uses'[u] = uses[u], owns'[u] = owns[u],
         \A o \in uses[u] \cup owns[u] : o \in Objects /\ Live(o) => id'[o] = id[o],
         \A c \in Contexts : c \in uses[u] \cup owns[u] /\ <<c>> \in owns[u] =>
           slices_'[c] = slices_[c] /\ render_target_'[c] = render_target_[c],
         \A m \in Images : m \in uses[u] \cup owns[u] => buffer_'[m] = buffer_[m]
  PROVE  ThreadInv(u)'
<1> DEFINE s == todo[u]
           r == refs[u]
           U == uses[u]
           W == owns[u]
<1>0. /\ Keeps(s, r, U, W) /\ Named(s) /\ Alive(r, U) /\ Drawing(s, r) /\ Imaging(s, r, U, W)
      BY DEF ThreadInv
<1>1. s \in Seq(DriverCalls) /\ r \in Seq(Objects) /\ U \in SUBSET Objects
      BY DEF CallsInv
<1> HIDE DEF s, r, U, W
<1>2. Expected(s, r) \subseteq U \cup W
  <2>1. \A i \in 1..Len(s) : s[i].op = "get" => s[i].obj \in U
        BY <1>0 DEF Keeps
  <2>2. \A n \in 1..Len(r) : r[n] \in U \cup W
        BY <1>0 DEF Keeps
  <2>3. QED
        BY <2>1, <2>2 DEF Expected
<1>3. \A i \in 1..Len(s) : s[i].op \in Lookups => s[i].obj \in U \cup W /\ s[i].obj \in Objects
  <2>1. \A i \in 1..Len(s) : s[i].op \in Lookups =>
          s[i].obj \in U \cup W /\ s[i].kind \in Trackers /\ s[i].obj \in Kind[s[i].kind]
        BY <1>0 DEF Keeps, Lookups, Releases
  <2>2. Trackers \subseteq Kinds
        BY TrackersFacts DEF Trackers
  <2>3. QED
        BY <2>1, <2>2, KindsFacts
<1>4. \A i \in 1..Len(s) : s[i].op \in Lookups => id'[s[i].obj] # NoId /\ id'[s[i].obj] = s[i].id
      BY <1>0, <1>3 DEF Named, Live, s, U, W
<1>5. (\A o \in U : id'[o] # NoId) /\ \A n \in 1..Len(r) : id'[r[n]] # NoId
  <2>1. \A n \in 1..Len(r) : r[n] \in U \cup W /\ r[n] \in Objects
        BY <1>0, <1>1 DEF Keeps
  <2>2. QED
        BY <1>0, <1>1, <2>1 DEF Alive, Live, U, W
<1>6. \A i \in 1..Len(s) : \A c \in Expected(s, r) \cap Contexts :
        /\ s[i].op \in {"BeginPicture", "RenderPicture"} => slices_'[c] = {}
        /\ s[i].op = "RenderPicture" => render_target_'[c] # Nil
        /\ s[i].op \in {"Run", "RunReturns"} => slices_'[c] # {}
  <2>1. ASSUME NEW i \in 1..Len(s), NEW c \in Expected(s, r) \cap Contexts, s[i].op \in ContextMethods
        PROVE  slices_'[c] = slices_[c] /\ render_target_'[c] = render_target_[c]
    <3>1. PICK d \in Contexts : Expected(s, r) \cap Contexts = {d} /\ <<d>> \in W
          BY <1>0, <2>1 DEF Keeps
    <3>2. c = d
          BY <3>1
    <3>3. QED
          BY <1>2, <3>1, <3>2 DEF U, W
  <2>2. QED
        BY <1>0, <2>1 DEF Drawing, ContextMethods
<1>7. /\ \A i \in 1..Len(s) : s[i].op = "DestroyBacking" => buffer_'[s[i].obj] \in W
      /\ \A m \in Expected(s, r) \cap Images : buffer_'[m] \in U
  <2>1. \A i \in 1..Len(s) : s[i].op = "DestroyBacking" => s[i].obj \in Images /\ s[i].obj \in W
        BY <1>0, KindsFacts DEF Keeps, Lookups, Releases
  <2>2. QED
        BY <1>0, <1>2, <2>1 DEF Imaging, U, W
<1>8. /\ Named(s)' /\ Alive(r, U)' /\ Drawing(s, r)' /\ Imaging(s, r, U, W)'
  <2>0. s' = s /\ r' = r /\ U' = U /\ W' = W
        BY DEF s, r, U, W
  <2>1. Named(s)'
        BY <1>4, <2>0 DEF Named, Live
  <2>2. Alive(r, U)'
        BY <1>5, <2>0 DEF Alive, Live
  <2>3. Drawing(s, r)'
        BY <1>6, <2>0 DEF Drawing
  <2>4. Imaging(s, r, U, W)'
        BY <1>7, <2>0 DEF Imaging
  <2>5. QED
        BY <2>1, <2>2, <2>3, <2>4
<1>9. Keeps(s, r, U, W)'
      BY <1>0 DEF s, r, U, W
<1>10. QED
      BY <1>8, <1>9 DEF ThreadInv, s, r, U, W

--------------------------------------------------------------------------------
(* The threads after a step.                                                 *)

\* What the next call of t can destroy.
Released(t, o) ==
  \/ Head(todo[t]).op = "destroy" /\ o = Head(todo[t]).obj
  \/ Head(todo[t]).op = "DestroyBacking" /\ o \in Backings

\* A thread that does the next of its calls keeps to the rules.
LEMMA ThreadMoves ==
  ASSUME ObjectsInv, CallsInv, NEW t \in Threads, ThreadInv(t), todo[t] # <<>>, NEW r2, NEW S,
         todo'[t] = Tail(todo[t]), refs'[t] = r2, uses'[t] = uses[t], owns'[t] = owns[t] \cup S,
         Gets(todo[t], refs[t], r2, owns[t] \cup S),
         \A o \in Objects : Live(o) /\ ~Released(t, o) => id'[o] = id[o],
         Head(todo[t]).op = "CreateBacking" => \A n \in 1..Len(r2) : id'[r2[n]] # NoId,
         Head(todo[t]).op \notin ContextMethods \ {"Run"} =>
           \A c \in Contexts : c \in uses[t] \cup owns[t] =>
             slices_'[c] = slices_[c] /\ render_target_'[c] = render_target_[c],
         \A m \in Images : m \in uses[t] \cup owns[t] => buffer_'[m] = buffer_[m]
  PROVE  ThreadInv(t)'
<1> DEFINE s == todo[t]
           r == refs[t]
           U == uses[t]
           W == owns[t]
           u == Tail(s)
           W2 == W \cup S
<1>0. /\ Keeps(s, r, U, W) /\ Named(s) /\ Alive(r, U) /\ Drawing(s, r) /\ Imaging(s, r, U, W)
      BY DEF ThreadInv
<1>1. s \in Seq(DriverCalls) /\ r \in Seq(Objects) /\ U \in SUBSET Objects /\ Shape(s, r)
      BY DEF CallsInv
<1>2. Gets(s, r, r2, W2) /\ Head(s) = s[1]
      BY <1>1, TailFacts
<1>3. /\ Len(u) = Len(s) - 1 /\ Len(s) \in Nat /\ 1 \in 1..Len(s)
      /\ \A i \in 1..Len(u) : u[i] = s[i + 1] /\ i + 1 \in 1..Len(s)
      BY <1>1, TailFacts
<1>h. /\ \A o \in Objects : Live(o) /\ ~Released(t, o) => id'[o] = id[o]
      /\ s[1].op = "CreateBacking" => \A n \in 1..Len(r2) : id'[r2[n]] # NoId
      /\ s[1].op \notin ContextMethods \ {"Run"} =>
           \A c \in Contexts : c \in U \cup W =>
             slices_'[c] = slices_[c] /\ render_target_'[c] = render_target_[c]
      /\ \A m \in Images : m \in U \cup W => buffer_'[m] = buffer_[m]
      BY <1>2
<1>r. \A o : Released(t, o) <=> \/ s[1].op = "destroy" /\ o = s[1].obj
                                \/ s[1].op = "DestroyBacking" /\ o \in Backings
      BY <1>2 DEF Released
<1>p. s[1].op \in Releases => r = <<>> /\ U = {} /\ r2 = r
      BY <1>0, <1>2, <1>3 DEF Keeps, Releases, Gets
<1>s. r' = r2 /\ U' = U /\ W' = W2 /\ s' = u
      OBVIOUS
<1>z. s # <<>>
      OBVIOUS
<1>4. Keeps(u, r2, U, W2)
      BY <1>0, <1>1, <1>2, <1>z, KeepsStep
<1>5. s[1].op # "CreateBacking" => Expected(u, r2) = Expected(s, r)
  <2>1. Trackers \subseteq Kinds
        BY TrackersFacts DEF Trackers
  <2>2. s[1].op = "get" => s[1].obj \in Objects
        BY <1>0, <1>3, <2>1, KindsFacts DEF Keeps, Lookups
  <2>3. QED
        BY <1>1, <1>2, <1>z, <2>2, ExpectedStep
<1> HIDE DEF s, r, U, W, u, W2
<1>6. Expected(s, r) \subseteq U \cup W
  <2>1. \A i \in 1..Len(s) : s[i].op = "get" => s[i].obj \in U
        BY <1>0 DEF Keeps
  <2>2. \A n \in 1..Len(r) : r[n] \in U \cup W
        BY <1>0 DEF Keeps
  <2>3. QED
        BY <2>1, <2>2 DEF Expected
<1>7. ASSUME NEW i \in 1..Len(u), u[i].op \in Lookups
      PROVE  id'[u[i].obj] # NoId /\ id'[u[i].obj] = u[i].id
  <2>1. u[i] = s[i + 1] /\ i + 1 \in 1..Len(s) /\ i + 1 # 1
        BY <1>3
  <2>2. Live(s[i + 1].obj) /\ id[s[i + 1].obj] = s[i + 1].id
        BY <1>0, <1>7, <2>1 DEF Named
  <2>3. s[i + 1].obj \in Objects
    <3>1. s[i + 1].kind \in Trackers /\ s[i + 1].obj \in Kind[s[i + 1].kind]
          BY <1>0, <1>7, <2>1 DEF Keeps
    <3>2. QED
          BY <3>1, KindsFacts, TrackersFacts DEF Trackers
  <2>4. ~Released(t, s[i + 1].obj)
    <3>1. CASE s[1].op \in Releases
      <4>1. s[i + 1].op \notin {"exists", "get"}
            BY <1>0, <1>p, <2>1, <3>1 DEF Keeps
      <4>2. s[i + 1].op # "DestroyBacking"
            BY <1>0, <2>1 DEF Keeps
      <4>3. s[i + 1].op = "destroy"
            BY <1>7, <2>1, <4>1, <4>2 DEF Lookups
      <4>4. s[i + 1].obj \notin Backings
            BY <1>0, <2>1, <4>3 DEF Keeps
      <4>5. s[1].op = "destroy" => s[1].obj # s[i + 1].obj
            BY <1>0, <1>3, <2>1, <4>3 DEF Keeps
      <4>6. QED
            BY <1>r, <4>4, <4>5
    <3>2. CASE s[1].op \notin Releases
          BY <1>r, <3>2 DEF Releases
    <3>3. QED
          BY <3>1, <3>2
  <2>5. QED
        BY <1>h, <2>1, <2>2, <2>3, <2>4 DEF Live
<1>8. \A o \in U : id'[o] # NoId
  <2>1. ASSUME NEW o \in U PROVE id'[o] # NoId
    <3>1. Live(o) /\ o \in Objects
          BY <1>0, <1>1 DEF Alive
    <3>2. ~Released(t, o)
          BY <1>p, <1>r DEF Releases
    <3>3. QED
          BY <1>h, <3>1, <3>2 DEF Live
  <2>2. QED
        BY <2>1
<1>9. ASSUME NEW n \in 1..Len(r2) PROVE id'[r2[n]] # NoId
  <2>1. CASE r2 = r
    <3>1. Live(r[n]) /\ r[n] \in Objects
          BY <1>0, <1>1, <2>1 DEF Alive
    <3>2. ~Released(t, r[n])
      <4>1. s[1].op \notin Releases
            BY <1>p, <2>1
      <4>2. QED
            BY <1>r, <4>1 DEF Releases
    <3>3. QED
          BY <1>h, <2>1, <3>1, <3>2 DEF Live
  <2>2. CASE s[1].op = "CreateBacking"
        BY <1>h, <2>2
  <2>3. CASE s[1].op = "get" /\ r2 = Append(r, s[1].obj)
    <3>0. ~\E o : Released(t, o)
          BY <1>r, <2>3
    <3>1. s[1].kind \in Trackers /\ s[1].obj \in Kind[s[1].kind] /\ Live(s[1].obj)
          BY <1>0, <1>3, <2>3 DEF Keeps, Lookups, Named
    <3>2. s[1].obj \in Objects
          BY <3>1, KindsFacts, TrackersFacts DEF Trackers
    <3>3. /\ Len(r2) = Len(r) + 1 /\ Len(r) \in Nat
          /\ \A k \in 1..Len(r) : r2[k] = r[k] /\ r[k] \in Objects
          /\ r2[Len(r) + 1] = s[1].obj
          BY <1>1, <2>3, <3>2, AppendFacts
    <3>4. Live(r2[n]) /\ r2[n] \in Objects
          BY <1>0, <3>1, <3>2, <3>3 DEF Alive
    <3>5. QED
          BY <1>h, <3>0, <3>4 DEF Live
  <2>4. QED
        BY <1>2, <2>1, <2>2, <2>3 DEF Gets
<1>10. ASSUME NEW i \in 1..Len(u), NEW c \in Expected(u, r2) \cap Contexts, u[i].op \in ContextMethods
       PROVE  /\ u[i].op \in {"BeginPicture", "RenderPicture"} => slices_'[c] = {}
              /\ u[i].op = "RenderPicture" => render_target_'[c] # Nil
              /\ u[i].op \in {"Run", "RunReturns"} => slices_'[c] # {}
  <2>1. u[i] = s[i + 1] /\ i + 1 \in 1..Len(s) /\ 1 < i + 1
        BY <1>3
  <2>2. s[1].op \notin ContextMethods \ {"Run"}
        BY <1>0, <1>3, <2>1 DEF Keeps
  <2>3. s[1].op # "CreateBacking"
    <3>1. s[1].op = "CreateBacking" => i + 1 = 2 /\ s[2].op = "create"
          BY <1>0, <1>3, <2>1 DEF Keeps
    <3>2. QED
          BY <1>10, <2>1, <3>1 DEF ContextMethods
  <2>4. c \in Expected(s, r) /\ c \in Contexts
        BY <1>5, <2>3
  <2>5. slices_'[c] = slices_[c] /\ render_target_'[c] = render_target_[c]
        BY <1>6, <1>h, <2>2, <2>4
  <2>6. /\ s[i + 1].op \in {"BeginPicture", "RenderPicture"} => slices_[c] = {}
        /\ s[i + 1].op = "RenderPicture" => render_target_[c] # Nil
        /\ s[i + 1].op \in {"Run", "RunReturns"} => slices_[c] # {}
        BY <1>0, <2>1, <2>4 DEF Drawing
  <2>7. QED
        BY <2>1, <2>5, <2>6
<1>11. \A i \in 1..Len(u) : u[i].op # "DestroyBacking"
  <2>1. ASSUME NEW i \in 1..Len(u), u[i].op = "DestroyBacking" PROVE FALSE
    <3>1. s[i + 1].op = "DestroyBacking" /\ i + 1 \in 1..Len(s) /\ i + 1 # 1
          BY <1>3, <2>1
    <3>2. QED
          BY <1>0, <3>1 DEF Keeps
  <2>2. QED
        BY <2>1
<1>12. ASSUME NEW m \in Expected(u, r2) \cap Images PROVE buffer_'[m] \in U
  <2>1. CASE s[1].op # "CreateBacking"
        BY <1>0, <1>5, <1>6, <1>h, <2>1 DEF Imaging
  <2>2. CASE s[1].op = "CreateBacking"
    <3>1. PICK b \in Backings : r2 = <<b>>
          BY <1>2, <2>2 DEF Gets
    <3>2. Len(s) = 2 /\ s[2].op = "create"
          BY <1>0, <1>3, <2>2 DEF Keeps
    <3>3. \A i \in 1..Len(u) : u[i].op # "get"
      <4>1. \A i \in 1..Len(u) : i + 1 = 2
            BY <1>3, <3>2
      <4>2. QED
            BY <1>3, <3>2, <4>1
    <3>4. m = b
      <4>1. (\E n \in 1..Len(r2) : r2[n] = m) \/ \E i \in 1..Len(u) : u[i].op = "get" /\ u[i].obj = m
            BY <1>12, ExpectedMember
      <4>2. QED
            BY <3>1, <3>3, <4>1
    <3>5. QED
          BY <1>12, <3>4, KindsApart DEF Buffers
  <2>3. QED
        BY <2>1, <2>2
<1>13. /\ Named(s)' /\ Alive(r, U)' /\ Drawing(s, r)' /\ Imaging(s, r, U, W)'
  <2>1. Named(s)'
        BY <1>7, <1>s DEF Named, Live
  <2>2. Alive(r, U)'
        BY <1>8, <1>9, <1>s DEF Alive, Live
  <2>3. Drawing(s, r)'
        BY <1>10, <1>s DEF Drawing, ContextMethods
  <2>4. Imaging(s, r, U, W)'
        BY <1>11, <1>12, <1>s DEF Imaging
  <2>5. QED
        BY <2>1, <2>2, <2>3, <2>4
<1>14. Keeps(s, r, U, W)'
       BY <1>4, <1>s
<1>15. QED
       BY <1>13, <1>14 DEF ThreadInv, s, r, U, W

\* A thread that has nothing to do.
LEMMA ThreadRests ==
  ASSUME NEW t \in Threads, todo'[t] = <<>>, refs'[t] = <<>>, uses'[t] = {}, owns'[t] = {}
  PROVE  ThreadInv(t)'
<1>1. \A n \in 1..Len(<<>>) : FALSE
      OBVIOUS
<1>2. Expected(<<>>, <<>>) = {}
      BY <1>1 DEF Expected
<1>3. /\ Named(todo[t])' /\ Alive(refs[t], uses[t])'
      BY <1>1 DEF Named, Alive
<1>4. Drawing(todo[t], refs[t])' /\ Imaging(todo[t], refs[t], uses[t], owns[t])'
      BY <1>1, <1>2 DEF Drawing, Imaging
<1>5. Keeps(todo[t], refs[t], uses[t], owns[t])'
      BY EmptyKeeps
<1>6. QED
      BY <1>3, <1>4, <1>5 DEF ThreadInv

\* A thread that has just called.
LEMMA ThreadCalls ==
  ASSUME CallsInv, NEW t \in Threads, todo[t] = <<>>, NEW calls, NEW S, NEW X, Call(t, calls, S, X),
         Honest(calls, S, X)
  PROVE  ThreadInv(t)'
<1>1. todo'[t] = calls /\ refs'[t] = <<>> /\ uses'[t] = S /\ owns'[t] = X
      BY DEF Call, CallsInv
<1>2. UNCHANGED <<id, slices_, render_target_, buffer_>>
      BY DEF Call, objectVars
<1>3. /\ Keeps(calls, <<>>, S, X) /\ Named(calls) /\ Alive(<<>>, S) /\ Drawing(calls, <<>>)
      /\ Imaging(calls, <<>>, S, X)
      BY DEF Honest
<1>4. Named(todo[t])' /\ Alive(refs[t], uses[t])'
      BY <1>1, <1>2, <1>3 DEF Named, Alive, Live
<1>5. Drawing(todo[t], refs[t])' /\ Imaging(todo[t], refs[t], uses[t], owns[t])'
      BY <1>1, <1>2, <1>3 DEF Drawing, Imaging
<1>6. Keeps(todo[t], refs[t], uses[t], owns[t])'
      BY <1>1, <1>3
<1>7. QED
      BY <1>4, <1>5, <1>6 DEF ThreadInv

\* The next call of a careful thread.
LEMMA NextCall ==
  ASSUME CallsInv, NEW t \in Threads, ThreadInv(t), todo[t] # <<>>
  PROVE  /\ todo[t] \in Seq(DriverCalls) /\ Head(todo[t]) = todo[t][1] /\ 1 \in 1..Len(todo[t])
         /\ Head(todo[t]).kind \in Kinds
         /\ Head(todo[t]).op \in Lookups =>
              /\ Head(todo[t]).kind \in Trackers /\ Head(todo[t]).obj \in Kind[Head(todo[t]).kind]
              /\ Live(Head(todo[t]).obj) /\ id[Head(todo[t]).obj] = Head(todo[t]).id
         /\ Head(todo[t]).op \in Releases => Head(todo[t]).obj \in owns[t]
         /\ Head(todo[t]).op \in {"exists", "get"} => Head(todo[t]).obj \in uses[t]
<1>1. todo[t] \in Seq(DriverCalls) /\ Head(todo[t]) = todo[t][1] /\ 1 \in 1..Len(todo[t])
        /\ todo[t][1] \in DriverCalls
      BY TailFacts DEF CallsInv
<1>2. QED
      BY <1>1 DEF ThreadInv, Keeps, Named, DriverCalls

\* Looking up the id in a name finds the object that is meant.
LEMMA FindsTheObject ==
  ASSUME CallsInv, UniqueIds, NEW t \in Threads, ThreadInv(t), todo[t] # <<>>, Head(todo[t]).op \in Lookups
  PROVE  Find(Head(todo[t]).kind, Head(todo[t]).id) = {Head(todo[t]).obj}
<1> DEFINE k == Head(todo[t]).kind
           i == Head(todo[t]).id
           o == Head(todo[t]).obj
<1>1. k \in Trackers /\ o \in Kind[k] /\ Live(o) /\ id[o] = i
      BY NextCall
<1> HIDE DEF k, i, o
<1>2. \A p \in Kind[k] : id[p] = i => p = o
      BY <1>1 DEF UniqueIds
<1>3. Find(k, i) = {o}
      BY <1>1, <1>2 DEF Find
<1>4. QED
      BY <1>3 DEF k, i, o

\* The context a picture is drawn in.
LEMMA PictureContext ==
  ASSUME CallsInv, NEW t \in Threads, ThreadInv(t), todo[t] # <<>>, Head(todo[t]).op \in ContextMethods
  PROVE  /\ Context(t) \in Contexts /\ Context(t) \in Looked(t) /\ <<Context(t)>> \in owns[t]
              /\ Live(Context(t))
         /\ Context(t) \in Expected(todo[t], refs[t]) \cap Contexts
<1> DEFINE s == todo[t]
           r == refs[t]
<1>1. Shape(s, r) /\ Head(s) = s[1] /\ 1 \in 1..Len(s)
      BY NextCall DEF CallsInv
<1>2. HasContext(s, r, 1)
      BY <1>1 DEF Shape
<1>3. PICK n \in 1..Len(r) : r[n] \in Contexts
      BY <1>2 DEF HasContext
<1>4. r[n] \in Looked(t)
      BY DEF Looked
<1>5. Context(t) \in Looked(t) /\ Context(t) \in Contexts
      BY <1>3, <1>4 DEF Context
<1>6. Looked(t) \subseteq Expected(s, r)
      BY DEF Looked, Expected
<1>7. Context(t) \in Expected(s, r) \cap Contexts
      BY <1>5, <1>6
<1>8. Live(Context(t))
  <2>1. \A o \in Looked(t) : Live(o)
        BY DEF ThreadInv, Alive, Looked
  <2>2. QED
        BY <1>5, <2>1
<1>9. <<Context(t)>> \in owns[t]
  <2>1. \E c \in Contexts : Expected(s, r) \cap Contexts = {c} /\ <<c>> \in owns[t]
        BY <1>1 DEF ThreadInv, Keeps
  <2>2. PICK c \in Contexts : Expected(s, r) \cap Contexts = {c} /\ <<c>> \in owns[t]
        BY <2>1
  <2>3. Context(t) = c
        BY <1>7, <2>2
  <2>4. QED
        BY <2>2, <2>3
<1>10. QED
       BY <1>5, <1>7, <1>8, <1>9

\* What a step of the driver can do to the objects.
TouchesOwn(t) ==
  /\ \A o \in Objects : Live(o) /\ id'[o] # id[o] => Released(t, o) /\ o \in owns[t]
  /\ \A c \in Contexts : (slices_'[c] # slices_[c] \/ render_target_'[c] # render_target_[c]) =>
       Fresh(c) \/ (<<c>> \in owns[t] /\ Head(todo[t]).op \in ContextMethods \ {"Run"})
  /\ \A m \in Images : buffer_'[m] # buffer_[m] => Fresh(m)

Goes(t, r2, S) ==
  /\ Proceed(t, r2, S) /\ Gets(todo[t], refs[t], r2, owns[t] \cup S)
  /\ Head(todo[t]).op = "CreateBacking" => \A n \in 1..Len(r2) : id'[r2[n]] # NoId
  /\ \A o \in S : o \in Objects /\ Fresh(o)

\* A step of a careful thread changes only what the thread owns, or what nobody uses.
LEMMA Effects ==
  ASSUME ObjectsInv, CallsInv, UniqueIds, NEW t \in Threads, ThreadInv(t), DriverStep(t)
  PROVE  TouchesOwn(t) /\ (GivesUp(t) \/ \E r2, S : Goes(t, r2, S))
<1>0. state = "running" /\ todo[t] # <<>> /\ UNCHANGED state
      BY StepsProceed
<1>1. /\ todo[t] \in Seq(DriverCalls) /\ Head(todo[t]) = todo[t][1] /\ 1 \in 1..Len(todo[t])
      BY <1>0, NextCall
<1>2. ASSUME UNCHANGED <<id, objectVars>> PROVE TouchesOwn(t)
      BY <1>2 DEF TouchesOwn, objectVars
<1>3. ASSUME NEW S, Proceed(t, refs[t], S), Head(todo[t]).op \notin {"get", "CreateBacking"},
             \A o \in S : o \in Objects /\ Fresh(o)
      PROVE  \E r2, T : Goes(t, r2, T)
  <2>1. Gets(todo[t], refs[t], refs[t], owns[t] \cup S)
        BY <1>1, <1>3 DEF Gets
  <2>2. Goes(t, refs[t], S)
        BY <1>3, <2>1 DEF Goes
  <2>3. QED
        BY <2>2
<1>4. ASSUME NEW k \in Kinds, NEW o \in Objects, Allocate(k, o)
      PROVE  /\ \A p \in Objects : Live(p) => id'[p] = id[p]
             /\ id'[o] # NoId /\ Fresh(o)
             /\ UNCHANGED objectVars => TouchesOwn(t)
  <2>1. /\ \A p \in Objects \ {o} : id'[p] = id[p]
        /\ id'[o] = FreeId(k) /\ FreeId(k) \in Ids
        BY <1>4, AllocateObjects, FreeIdFacts
  <2>2. id'[o] # NoId
        BY <2>1, IdsFacts
  <2>3. ~Live(o) /\ Fresh(o)
        BY <1>4 DEF Allocate, Fresh
  <2>4. \A p \in Objects : Live(p) => id'[p] = id[p]
        BY <2>1, <2>3
  <2>5. QED
        BY <2>2, <2>3, <2>4 DEF TouchesOwn, objectVars
<1>5. ASSUME NEW o \in Objects, id' = [id EXCEPT ![o] = NoId], UNCHANGED objectVars, Released(t, o), o \in owns[t]
      PROVE  TouchesOwn(t)
  <2>1. \A p \in Objects : id'[p] # id[p] => p = o
        BY <1>5, ReleaseObjects
  <2>2. QED
        BY <1>5, <2>1 DEF TouchesOwn, objectVars
<1>6. CASE ObjectExists(t) \/ GetData(t) \/ Run(t) \/ NoOp(t)
  <2>1. Proceed(t, refs[t], {}) /\ UNCHANGED <<id, objectVars>>
        BY <1>6 DEF ObjectExists, GetData, Run, NoOp
  <2>2. Head(todo[t]).op \notin {"get", "CreateBacking"}
        BY <1>6 DEF ObjectExists, GetData, Run, NoOp, Step, ContextMethods
  <2>3. QED
        BY <1>2, <1>3, <2>1, <2>2
<1>7. CASE GetObject(t)
  <2>1. UNCHANGED <<id, objectVars>> /\ Head(todo[t]).op = "get"
        BY <1>7 DEF GetObject, Step
  <2>2. PICK o \in Find(Head(todo[t]).kind, Head(todo[t]).id) : Proceed(t, Append(refs[t], o), {})
        BY <1>7 DEF GetObject
  <2>3. o = todo[t][1].obj
        BY <1>0, <1>1, <2>1, <2>2, FindsTheObject DEF Lookups
  <2>4. Goes(t, Append(refs[t], o), {})
        BY <1>1, <2>1, <2>2, <2>3 DEF Goes, Gets
  <2>5. QED
        BY <1>2, <2>1, <2>4
<1>8. CASE CreateConfigOrSurface(t)
  <2>1. PICK k \in {"config", "surface"} : \E o \in Kind[k] : Allocate(k, o) /\ Proceed(t, refs[t], {o})
        BY <1>8 DEF CreateConfigOrSurface
  <2>2. PICK o \in Kind[k] : Allocate(k, o) /\ Proceed(t, refs[t], {o})
        BY <2>1
  <2>3. UNCHANGED objectVars /\ Head(todo[t]).op = "create" /\ k \in Kinds /\ o \in Objects
        BY <1>8, KindsFacts, TrackersFacts DEF CreateConfigOrSurface, Step
  <2>4. QED
        BY <1>3, <1>4, <2>2, <2>3
<1>9. CASE CreateBuffer(t)
  <2>1. PICK k \in {"param", "slice"} : \E o \in Kind[k] : Allocate("buffer", o)
               /\ Proceed(t, refs[t], {o})
        BY <1>9 DEF CreateBuffer
  <2>2. PICK o \in Kind[k] : Allocate("buffer", o) /\ Proceed(t, refs[t], {o})
        BY <2>1
  <2>3. UNCHANGED objectVars /\ Head(todo[t]).op = "create" /\ "buffer" \in Kinds /\ o \in Objects
        BY <1>9, KindsFacts, OpsFacts DEF CreateBuffer, Step
  <2>4. QED
        BY <1>3, <1>4, <2>2, <2>3
<1>10. CASE CreateContext(t)
  <2>1. PICK c \in Contexts :
          /\ Allocate("context", c) /\ Proceed(t, refs[t], {c})
          /\ render_target_' = [render_target_ EXCEPT ![c] = Nil]
          /\ slices_' = [slices_ EXCEPT ![c] = {}]
        BY <1>10 DEF CreateContext
  <2>2. UNCHANGED buffer_ /\ Head(todo[t]).op = "create" /\ "context" \in Kinds /\ c \in Objects
        BY <1>10, TrackersFacts DEF CreateContext, Step, Objects
  <2>3. \A p \in Objects : Live(p) => id'[p] = id[p]
        BY <1>4, <2>1, <2>2
  <2>4. \A d \in Contexts : (slices_'[d] # slices_[d] \/ render_target_'[d] # render_target_[d])
          => d = c
        BY <2>1 DEF ObjectsInv
  <2>5. TouchesOwn(t)
        BY <2>1, <2>2, <2>3, <2>4 DEF TouchesOwn, Allocate
  <2>6. QED
        BY <1>3, <2>1, <2>2, <2>5 DEF Allocate
<1>11. CASE CreateBacking(t)
  <2>1. PICK b \in Backings : Allocate("buffer", b) /\ Proceed(t, <<b>>, {b})
        BY <1>11 DEF CreateBacking
  <2>2. UNCHANGED objectVars /\ Head(todo[t]).op = "CreateBacking" /\ "buffer" \in Kinds
          /\ b \in Objects
        BY <1>11, TrackersFacts DEF CreateBacking, Step, Objects, Buffers
  <2>3. TouchesOwn(t) /\ id'[b] # NoId /\ Fresh(b)
        BY <1>4, <2>1, <2>2
  <2>4. Gets(todo[t], refs[t], <<b>>, owns[t] \cup {b})
        BY <1>1, <2>2 DEF Gets
  <2>5. \A n \in 1..Len(<<b>>) : <<b>>[n] = b
        OBVIOUS
  <2>6. Goes(t, <<b>>, {b})
        BY <2>1, <2>2, <2>3, <2>4, <2>5 DEF Goes
  <2>7. QED
        BY <2>3, <2>6
<1>12. CASE CreateImage(t)
  <2>1. PICK m \in Images :
          Allocate("image", m) /\ Proceed(t, refs[t], {m})
            /\ buffer_' = [buffer_ EXCEPT ![m] = Last(refs[t])]
        BY <1>12 DEF CreateImage
  <2>2. /\ UNCHANGED <<slices_, render_target_>> /\ Head(todo[t]).op = "create"
        /\ "image" \in Kinds /\ m \in Objects
        BY <1>12, TrackersFacts DEF CreateImage, Step, Objects
  <2>3. \A p \in Objects : Live(p) => id'[p] = id[p]
        BY <1>4, <2>1, <2>2
  <2>4. \A n \in Images : buffer_'[n] # buffer_[n] => n = m
        BY <2>1 DEF ObjectsInv
  <2>5. TouchesOwn(t)
        BY <2>1, <2>2, <2>3, <2>4 DEF TouchesOwn, Allocate
  <2>6. QED
        BY <1>3, <2>1, <2>2, <2>5 DEF Allocate
<1>13. CASE DestroyObject(t) \/ DestroyImage(t)
  <2>1. PICK o \in Find(Head(todo[t]).kind, Head(todo[t]).id) : id' = [id EXCEPT ![o] = NoId]
        BY <1>13 DEF DestroyObject, DestroyImage
  <2>2. /\ Head(todo[t]).op = "destroy" /\ Proceed(t, refs[t], {}) /\ UNCHANGED objectVars
        BY <1>13 DEF DestroyObject, DestroyImage, Step
  <2>3. o = Head(todo[t]).obj
        BY <1>0, <2>1, <2>2, FindsTheObject DEF Lookups
  <2>4. o \in Objects /\ o \in owns[t]
        BY <1>0, <2>2, <2>3, NextCall, KindsFacts DEF Lookups, Releases
  <2>5. TouchesOwn(t)
        BY <1>5, <2>1, <2>2, <2>3, <2>4 DEF Released
  <2>6. QED
        BY <1>3, <2>2, <2>5
<1>14. CASE DestroyBacking(t)
  <2>1. PICK m \in Find("image", Head(todo[t]).id) : id' = ReleaseBuffer(m)
        BY <1>14 DEF DestroyBacking
  <2>2. /\ Head(todo[t]).op = "DestroyBacking" /\ Proceed(t, refs[t], {}) /\ UNCHANGED objectVars
        BY <1>14 DEF DestroyBacking, Step
  <2>a. Head(todo[t]).kind = "image" /\ buffer_[Head(todo[t]).obj] \in owns[t]
        BY <1>1, <2>2 DEF ThreadInv, Keeps, Imaging
  <2>3. m = Head(todo[t]).obj
        BY <1>0, <2>1, <2>2, <2>a, FindsTheObject DEF Lookups
  <2>4. m \in Images /\ Live(m)
        BY <1>0, <2>2, <2>3, <2>a, NextCall, KindsFacts DEF Lookups
  <2>5. buffer_[m] \in Backings /\ buffer_[m] \in Objects /\ buffer_[m] \in owns[t]
        BY <2>3, <2>4, <2>a DEF ObjectsInv, Objects, Buffers
  <2>6. TouchesOwn(t)
        BY <1>5, <2>1, <2>2, <2>5 DEF Released, ReleaseBuffer
  <2>7. QED
        BY <1>3, <2>2, <2>6
<1>15. CASE GetMappedBO(t)
  <2>1. UNCHANGED <<id, objectVars>> /\ Head(todo[t]).op = "GetMappedBO"
        BY <1>15 DEF GetMappedBO, Step
  <2>2. Proceed(t, refs[t], {}) \/ GivesUp(t)
        BY <1>15 DEF GetMappedBO, GivesUp
  <2>3. QED
        BY <1>2, <1>3, <2>1, <2>2
<1>16. CASE BeginPicture(t) \/ RenderPicture(t) \/ RunReturns(t)
  <2>1. /\ Head(todo[t]).op \in ContextMethods \ {"Run"}
        /\ Proceed(t, refs[t], {}) /\ UNCHANGED <<id, buffer_>>
        BY <1>16 DEF BeginPicture, RenderPicture, RunReturns, Step, ContextMethods
  <2>2. Context(t) \in Contexts /\ <<Context(t)>> \in owns[t]
        BY <1>0, <2>1, PictureContext
  <2>3. \A c \in Contexts : (slices_'[c] # slices_[c] \/ render_target_'[c] # render_target_[c])
          => c = Context(t)
        BY <1>16 DEF BeginPicture, RenderPicture, RunReturns, ObjectsInv
  <2>4. TouchesOwn(t)
        BY <2>1, <2>2, <2>3 DEF TouchesOwn
  <2>5. QED
        BY <1>3, <2>1, <2>4 DEF ContextMethods
<1>17. QED
       BY <1>6, <1>7, <1>8, <1>9, <1>10, <1>11, <1>12, <1>13, <1>14, <1>15, <1>16 DEF DriverStep

\* What a step leaves of the calls of its thread, and of the others.
LEMMA CallsOfOthers ==
  ASSUME CallsInv, NEW t \in Threads, todo[t] # <<>>, GivesUp(t) \/ \E r2, S : Goes(t, r2, S)
  PROVE  \A u \in Threads : u # t =>
           todo'[u] = todo[u] /\ refs'[u] = refs[u] /\ uses'[u] = uses[u] /\ owns'[u] = owns[u]
BY DEF CallsInv, GivesUp, Goes, Proceed

\* What it leaves of its own.
LEMMA CallsOfOwn ==
  ASSUME CallsInv, NEW t \in Threads, todo[t] # <<>>, NEW r2, NEW S, Goes(t, r2, S)
  PROVE  \/ todo'[t] = <<>> /\ refs'[t] = <<>> /\ uses'[t] = {} /\ owns'[t] = {}
         \/ todo'[t] = Tail(todo[t]) /\ refs'[t] = r2 /\ uses'[t] = uses[t] /\ owns'[t] = owns[t] \cup S
<1>1. todo[t] \in Seq(DriverCalls)
      BY DEF CallsInv
<1>2. Len(todo[t]) = 1 => Tail(todo[t]) = <<>>
      BY <1>1, TailFacts
<1>3. QED
      BY <1>2 DEF CallsInv, Goes, Proceed

\* A step of one thread leaves all of them within the rules.
LEMMA ThreadsStep ==
  ASSUME ObjectsInv, CallsInv, UniqueIds, Apart, \A u \in Threads : ThreadInv(u),
         NEW t \in Threads, DriverStep(t)
  PROVE  (\A u \in Threads : ThreadInv(u)') /\ Apart'
<1>1. TouchesOwn(t) /\ (GivesUp(t) \/ \E r2, S : Goes(t, r2, S)) /\ todo[t] # <<>>
      BY Effects, StepsProceed
<1>2. ASSUME NEW u \in Threads, u # t PROVE ThreadInv(u)'
  <2>1. todo'[u] = todo[u] /\ refs'[u] = refs[u] /\ uses'[u] = uses[u] /\ owns'[u] = owns[u]
        BY <1>1, <1>2, CallsOfOthers
  <2>2. (uses[u] \cup owns[u]) \cap owns[t] = {} /\ (uses[t] \cup owns[t]) \cap owns[u] = {}
        BY <1>2 DEF Apart
  <2>3. \A o \in uses[u] \cup owns[u] : ~Fresh(o)
        BY DEF Fresh, Referenced
  <2>4. \A o \in uses[u] \cup owns[u] : o \in Objects /\ Live(o) => id'[o] = id[o]
        BY <1>1, <2>2 DEF TouchesOwn
  <2>5. \A c \in Contexts : c \in uses[u] \cup owns[u] /\ <<c>> \in owns[u] =>
           slices_'[c] = slices_[c] /\ render_target_'[c] = render_target_[c]
        BY <1>1, <2>2, <2>3 DEF TouchesOwn
  <2>6. \A m \in Images : m \in uses[u] \cup owns[u] => buffer_'[m] = buffer_[m]
        BY <1>1, <2>3 DEF TouchesOwn
  <2>7. QED
        BY <2>1, <2>4, <2>5, <2>6, ThreadKept
<1>3. ThreadInv(t)'
  <2>1. CASE GivesUp(t)
    <3>1. todo'[t] = <<>> /\ refs'[t] = <<>> /\ uses'[t] = {} /\ owns'[t] = {}
          BY <2>1 DEF GivesUp, CallsInv
    <3>2. QED
          BY <3>1, ThreadRests
  <2>2. ASSUME NEW r2, NEW S, Goes(t, r2, S) PROVE ThreadInv(t)'
    <3>1. CASE todo'[t] = <<>> /\ refs'[t] = <<>> /\ uses'[t] = {} /\ owns'[t] = {}
          BY <3>1, ThreadRests
    <3>2. CASE todo'[t] = Tail(todo[t]) /\ refs'[t] = r2 /\ uses'[t] = uses[t]
                 /\ owns'[t] = owns[t] \cup S
      <4>1. \A o \in uses[t] \cup owns[t] : ~Fresh(o)
            BY DEF Fresh, Referenced
      <4>2. \A o \in Objects : Live(o) /\ ~Released(t, o) => id'[o] = id[o]
            BY <1>1 DEF TouchesOwn
      <4>3. Head(todo[t]).op \notin ContextMethods \ {"Run"} =>
              \A c \in Contexts : c \in uses[t] \cup owns[t] =>
                slices_'[c] = slices_[c] /\ render_target_'[c] = render_target_[c]
            BY <1>1, <4>1 DEF TouchesOwn
      <4>4. \A m \in Images : m \in uses[t] \cup owns[t] => buffer_'[m] = buffer_[m]
            BY <1>1, <4>1 DEF TouchesOwn
      <4>5. /\ Gets(todo[t], refs[t], r2, owns[t] \cup S)
            /\ Head(todo[t]).op = "CreateBacking" => \A n \in 1..Len(r2) : id'[r2[n]] # NoId
            BY <2>2 DEF Goes
      <4>6. QED
            BY <1>1, <3>2, <4>2, <4>3, <4>4, <4>5, ThreadMoves
    <3>3. QED
          BY <1>1, <2>2, <3>1, <3>2, CallsOfOwn
  <2>3. QED
        BY <1>1, <2>1, <2>2
<1>4. Apart'
  <2>1. ASSUME NEW S, uses'[t] \subseteq uses[t], owns'[t] \subseteq owns[t] \cup S, \A o \in S :
               Fresh(o)
        PROVE  Apart'
    <3>1. ASSUME NEW u \in Threads, u # t
          PROVE  (uses'[t] \cup owns'[t]) \cap owns'[u] = {}
                   /\ (uses'[u] \cup owns'[u]) \cap owns'[t] = {}
      <4>1. uses'[u] = uses[u] /\ owns'[u] = owns[u]
            BY <1>1, <3>1, CallsOfOthers
      <4>2. \A o \in uses[u] \cup owns[u] : o \notin S
            BY <2>1 DEF Fresh, Referenced
      <4>3. (uses[t] \cup owns[t]) \cap owns[u] = {} /\ (uses[u] \cup owns[u]) \cap owns[t] = {}
            BY <3>1 DEF Apart
      <4>4. QED
            BY <2>1, <4>1, <4>2, <4>3
    <3>2. ASSUME NEW u \in Threads, NEW v \in Threads, u # v, u # t, v # t
          PROVE  (uses'[u] \cup owns'[u]) \cap owns'[v] = {}
      <4>1. uses'[u] = uses[u] /\ owns'[u] = owns[u] /\ owns'[v] = owns[v]
            BY <1>1, <3>2, CallsOfOthers
      <4>2. QED
            BY <3>2, <4>1 DEF Apart
    <3>3. QED
          BY <3>1, <3>2 DEF Apart
  <2>2. CASE GivesUp(t)
    <3>1. uses'[t] = {} /\ owns'[t] = {}
          BY <2>2 DEF GivesUp, CallsInv
    <3>2. QED
          BY <2>1, <3>1
  <2>3. ASSUME NEW r2, NEW S, Goes(t, r2, S) PROVE Apart'
    <3>1. uses'[t] \subseteq uses[t] /\ owns'[t] \subseteq owns[t] \cup S
          BY <1>1, <2>3, CallsOfOwn
    <3>2. \A o \in S : Fresh(o)
          BY <2>3 DEF Goes
    <3>3. QED
          BY <2>1, <3>1, <3>2
  <2>4. QED
        BY <1>1, <2>2, <2>3
<1>5. QED
      BY <1>2, <1>3, <1>4

\* So does a new call.
LEMMA ThreadsCall ==
  ASSUME ObjectsInv, CallsInv, Apart, \A u \in Threads : ThreadInv(u),
         NEW t \in Threads, todo[t] = <<>>, NEW calls, NEW S,
           NEW X, Call(t, calls, S, X), Honest(calls, S, X)
  PROVE  (\A u \in Threads : ThreadInv(u)') /\ Apart'
<1>1. /\ \A u \in Threads : u # t =>
           todo'[u] = todo[u] /\ refs'[u] = refs[u] /\ uses'[u] = uses[u] /\ owns'[u] = owns[u]
      /\ uses'[t] = S /\ owns'[t] = X
      BY DEF Call, CallsInv
<1>2. UNCHANGED <<id, slices_, render_target_, buffer_>>
      BY DEF Call, objectVars
<1>3. ASSUME NEW u \in Threads, u # t PROVE ThreadInv(u)'
  <2>1. todo'[u] = todo[u] /\ refs'[u] = refs[u] /\ uses'[u] = uses[u] /\ owns'[u] = owns[u]
        BY <1>1, <1>3
  <2>2. QED
        BY <1>2, <2>1, ThreadKept
<1>4. ThreadInv(t)'
      BY ThreadCalls
<1>5. Apart'
  <2>1. \A u \in Threads : (S \cup X) \cap owns[u] = {} /\ X \cap uses[u] = {}
        BY DEF Call, MayCall
  <2>2. QED
        BY <1>1, <2>1 DEF Apart
<1>6. QED
      BY <1>3, <1>4, <1>5

\* When no call goes on, nothing is in the way.
LEMMA ThreadsRest ==
  ASSUME CallsInv, \A t \in Threads : todo[t] = <<>>, UNCHANGED callVars
  PROVE  (\A u \in Threads : ThreadInv(u)') /\ Apart'
<1>1. \A t \in Threads : todo'[t] = <<>> /\ refs'[t] = <<>> /\ uses'[t] = {} /\ owns'[t] = {}
      BY DEF CallsInv, callVars
<1>2. QED
      BY <1>1, ThreadRests DEF Apart

\* So does a step that changes no object and no call.
LEMMA ThreadsStay ==
  ASSUME ObjectsInv, CallsInv, Apart, \A u \in Threads :
         ThreadInv(u), UNCHANGED <<id, objectVars, callVars>>
  PROVE  (\A u \in Threads : ThreadInv(u)') /\ Apart'
<1>1. UNCHANGED <<id, slices_, render_target_, buffer_, todo, refs, uses, owns>>
      BY DEF objectVars, callVars
<1>2. \A u \in Threads : ThreadInv(u)'
      BY <1>1, ThreadKept
<1>3. Apart'
      BY <1>1 DEF Apart
<1>4. QED
      BY <1>2, <1>3

\* Ids stay unique.
LEMMA IdsAfterAllocate ==
  ASSUME ObjectsInv, UniqueIds, NEW k \in Trackers, NEW o \in Kind[k], Allocate(k, o)
  PROVE  UniqueIds'
<1>1. k \in Kinds /\ o \in Objects /\ \A l \in Trackers : l \in Kinds /\ Kind[l] \subseteq Objects
      BY KindsFacts, TrackersFacts DEF Trackers
<1>2. /\ \A p \in Objects \ {o} : id'[p] = id[p]
      /\ id'[o] = FreeId(k) /\ FreeId(k) \in Ids /\ Find(k, FreeId(k)) = {}
      BY <1>1, AllocateObjects, FreeIdFacts
<1>3. \A l \in Trackers : l # k => o \notin Kind[l]
      BY KindsFacts, KindsApart DEF Trackers
<1>4. \A p \in Kind[k] : p # o => id'[p] # id'[o]
      BY <1>1, <1>2 DEF Find
<1>5. ASSUME NEW l \in Trackers, NEW p \in Kind[l], NEW q \in Kind[l], id'[p] # NoId, id'[p] = id'[q]
      PROVE  p = q
  <2>1. CASE p # o /\ q # o
        BY <1>1, <1>2, <1>5, <2>1 DEF UniqueIds, Live
  <2>2. CASE p = o \/ q = o
        BY <1>3, <1>4, <1>5, <2>2
  <2>3. QED
        BY <2>1, <2>2
<1>6. QED
      BY <1>5 DEF UniqueIds, Live

\* Destroying objects leaves ids unique.
LEMMA IdsAfterReleases ==
  ASSUME UniqueIds, \A o \in Objects : id'[o] = NoId \/ id'[o] = id[o]
  PROVE  UniqueIds'
<1>1. \A l \in Trackers : Kind[l] \subseteq Objects
      BY KindsFacts, TrackersFacts DEF Trackers
<1>2. QED
      BY <1>1 DEF UniqueIds, Live

--------------------------------------------------------------------------------
(* The ids and the enqueued buffers.                                         *)

\* The objects that a creating step allocates.
LEMMA IdsStep ==
  ASSUME ObjectsInv, CallsInv, UniqueIds, NEW t \in Threads, ThreadInv(t), DriverStep(t)
  PROVE  UniqueIds'
<1>1. ASSUME UNCHANGED id PROVE UniqueIds'
      BY <1>1, IdsAfterReleases
<1>2. ASSUME NEW o, id' = [id EXCEPT ![o] = NoId] PROVE UniqueIds'
      BY <1>2, ReleaseObjects, IdsAfterReleases
<1>3. CASE ObjectExists(t) \/ GetObject(t) \/ GetMappedBO(t) \/ GetData(t) \/ Run(t) \/ NoOp(t)
           \/ BeginPicture(t) \/ RenderPicture(t) \/ RunReturns(t)
      BY <1>1, <1>3 DEF ObjectExists, GetObject, GetMappedBO, GetData, Run, NoOp, BeginPicture,
         RenderPicture, RunReturns
<1>4. CASE DestroyObject(t) \/ DestroyBacking(t) \/ DestroyImage(t)
      BY <1>2, <1>4 DEF DestroyObject, DestroyBacking, DestroyImage, ReleaseBuffer
<1>5. CASE CreateConfigOrSurface(t)
  <2>1. PICK k \in {"config", "surface"} : \E o \in Kind[k] : Allocate(k, o)
        BY <1>5 DEF CreateConfigOrSurface
  <2>2. QED
        BY <2>1, TrackersFacts, IdsAfterAllocate
<1>6. CASE CreateContext(t) \/ CreateBuffer(t) \/ CreateBacking(t) \/ CreateImage(t)
  <2>1. \/ \E c \in Kind["context"] : Allocate("context", c)
        \/ \E b \in Kind["buffer"] : Allocate("buffer", b)
        \/ \E m \in Kind["image"] : Allocate("image", m)
        BY <1>6, KindsFacts DEF CreateContext, CreateBuffer, CreateBacking, CreateImage, Buffers
  <2>2. QED
        BY <2>1, TrackersFacts, IdsAfterAllocate
<1>7. QED
      BY <1>3, <1>4, <1>5, <1>6 DEF DriverStep

\* A step adds no call to those that are left.
LEMMA CallsShrink ==
  ASSUME CallsInv, NEW t \in Threads, DriverStep(t)
  PROVE  \A u \in Threads : \A i \in 1..Len(todo'[u]) :
           \E j \in 1..Len(todo[u]) : todo[u][j] = todo'[u][i]
<1>1. (Proceeds(t) \/ GivesUp(t)) /\ todo[t] # <<>> /\ todo[t] \in Seq(DriverCalls)
      BY StepsProceed DEF CallsInv
<1>2. todo' = [todo EXCEPT ![t] = Tail(todo[t])] \/ todo' = [todo EXCEPT ![t] = <<>>]
      BY <1>1 DEF Proceeds, Proceed, GivesUp, CallsInv
<1>3. /\ \A u \in Threads : u # t => todo'[u] = todo[u]
      /\ todo'[t] = Tail(todo[t]) \/ todo'[t] = <<>>
      BY <1>2 DEF CallsInv
<1>4. ASSUME NEW i \in 1..Len(todo'[t]) PROVE \E j \in 1..Len(todo[t]) : todo[t][j] = todo'[t][i]
  <2>1. CASE todo'[t] = Tail(todo[t])
    <3>1. i + 1 \in 1..Len(todo[t]) /\ Tail(todo[t])[i] = todo[t][i + 1]
          BY <1>1, <1>4, <2>1, TailFacts
    <3>2. QED
          BY <2>1, <3>1
  <2>2. CASE todo'[t] = <<>>
        BY <1>4, <2>2
  <2>3. QED
        BY <1>3, <2>1, <2>2
<1>5. QED
      BY <1>3, <1>4

\* Enqueued buffers stay when no context gets new ones.
LEMMA SlicesKept ==
  ASSUME ObjectsInv, CallsInv, SlicesInv, NEW t \in Threads, ThreadInv(t), DriverStep(t), TouchesOwn(t),
         \A c \in Contexts : id'[c] # NoId /\ slices_'[c] # {} =>
           Live(c) /\ slices_'[c] = slices_[c] /\ pic_param_'[c] = pic_param_[c]
  PROVE  SlicesInv'
<1>1. state = "running" /\ UNCHANGED state /\ todo[t] # <<>>
      BY StepsProceed
<1>2. ASSUME NEW u \in Threads PROVE Spares(todo[u])'
  <2>1. ASSUME NEW i \in 1..Len(todo'[u]), todo'[u][i].op = "destroy", NEW c \in Contexts,
               id'[c] # NoId, slices_'[c] # {}
        PROVE  todo'[u][i].obj \notin slices_'[c] \cup {pic_param_'[c]}
    <3>1. PICK j \in 1..Len(todo[u]) : todo[u][j] = todo'[u][i]
          BY CallsShrink
    <3>2. QED
          BY <2>1, <3>1 DEF SlicesInv, Spares
  <2>2. QED
        BY <2>1 DEF Spares, Live
<1>3. ASSUME NEW c \in Contexts, Live(c), slices_[c] # {}, NEW b \in slices_[c] \cup {pic_param_[c]}
      PROVE  id'[b] # NoId
  <2>1. b \in Params \cup Slices /\ Live(b)
        BY <1>1, <1>3 DEF SlicesInv, ObjectsInv
  <2>2. b \notin Backings /\ b \in Objects
        BY <2>1, KindsApart DEF Objects, Buffers
  <2>3. ~Released(t, b)
    <3>1. Head(todo[t]) = todo[t][1] /\ 1 \in 1..Len(todo[t])
          BY <1>1, NextCall
    <3>2. Head(todo[t]).op = "destroy" => Head(todo[t]).obj # b
          BY <1>3, <3>1 DEF SlicesInv, Spares
    <3>3. QED
          BY <2>2, <3>2 DEF Released
  <2>4. QED
        BY <2>1, <2>2, <2>3 DEF TouchesOwn, Live
<1>4. \A c \in Contexts : id'[c] # NoId /\ slices_'[c] # {} =>
        /\ pic_param_'[c] \in Params /\ id'[pic_param_'[c]] # NoId
        /\ \A b \in slices_'[c] : id'[b] # NoId
      BY <1>1, <1>3 DEF SlicesInv
<1>5. QED
      BY <1>2, <1>4 DEF SlicesInv, Live

\* The buffers RenderPicture enqueues are live, and no other thread is destroying one.
LEMMA SlicesRendered ==
  ASSUME ObjectsInv, CallsInv, SlicesInv, Apart, \A u \in Threads : ThreadInv(u),
         NEW t \in Threads, RenderPicture(t)
  PROVE  SlicesInv'
<1> DEFINE c == Context(t)
           r == refs[t]
           params == {n \in 1..Len(r) : r[n] \in Params}
<1>1. state = "running" /\ todo[t] # <<>> /\ Head(todo[t]).op = "RenderPicture"
        /\ UNCHANGED <<id, state>>
      BY DEF RenderPicture, Step, Proceed
<1>2. /\ todo[t] \in Seq(DriverCalls) /\ Head(todo[t]) = todo[t][1] /\ 1 \in 1..Len(todo[t])
      BY <1>1, NextCall
<1>3. Len(todo[t]) = 1
  <2>1. \A j \in 1..Len(todo[t]) : ~(1 < j)
        BY <1>1, <1>2 DEF ThreadInv, Keeps, ContextMethods
  <2>2. Len(todo[t]) \in Nat /\ 1 \in 1..Len(todo[t])
        BY <1>2
  <2> DEFINE n == Len(todo[t])
  <2>3. n \in Nat /\ 1 <= n /\ \A j \in 1..n : ~(1 < j)
        BY <2>1, <2>2
  <2> HIDE DEF n
  <2>4. n \in 1..n
        BY <2>3
  <2>5. n = 1
        BY <2>3, <2>4
  <2>6. QED
        BY <2>5 DEF n
<1>4. todo'[t] = <<>> /\ \A u \in Threads : u # t => todo'[u] = todo[u]
  <2>1. Tail(todo[t]) = <<>>
        BY <1>1, <1>2, <1>3, TailFacts
  <2>2. QED
        BY <2>1 DEF RenderPicture, Proceed, CallsInv
<1>5. /\ slices_' = [slices_ EXCEPT ![c] = Looked(t) \cap Slices]
      /\ pic_param_' = [pic_param_ EXCEPT ![c] = IF params = {} THEN pic_param_[c] ELSE r[Max(params)]]
      BY DEF RenderPicture, ObjectsInv
<1>6. c \in Contexts /\ c \in Expected(todo[t], r)
      BY <1>1, PictureContext DEF ContextMethods
<1>7. Expected(todo[t], r) \subseteq Looked(t)
  <2>1. \A i \in 1..Len(todo[t]) : todo[t][i].op # "get"
        BY <1>1, <1>2, <1>3
  <2>2. QED
        BY <2>1 DEF Expected, Looked
<1>8. params # {}
  <2>1. Expected(todo[t], r) \cap Params # {}
        BY <1>1, <1>2 DEF ThreadInv, Keeps
  <2>2. QED
        BY <1>7, <2>1 DEF Looked
<1>9. Max(params) \in params
  <2>1. Len(r) \in Nat
        BY DEF CallsInv
  <2>2. params \in SUBSET Nat /\ \A i \in params : i <= Len(r)
        BY <2>1
  <2>3. QED
        BY <1>8, <2>1, <2>2, MaxFacts
<1>10. r[Max(params)] \in Params /\ r[Max(params)] \in Looked(t)
       BY <1>9 DEF Looked
<1>11. pic_param_'[c] \in Params \cap Looked(t) /\ slices_'[c] = Looked(t) \cap Slices
       BY <1>5, <1>6, <1>8, <1>10 DEF ObjectsInv
<1> HIDE DEF params
<1>12. \A d \in Contexts : d # c => slices_'[d] = slices_[d] /\ pic_param_'[d] = pic_param_[d]
       BY <1>5 DEF ObjectsInv
<1> HIDE DEF c
<1>13. \A o \in Looked(t) : Live(o) /\ o \in uses[t] \cup owns[t]
       BY DEF ThreadInv, Alive, Keeps, Looked
<1>14. ASSUME NEW u \in Threads PROVE Spares(todo[u])'
  <2>1. CASE u = t
        BY <1>4, <2>1 DEF Spares
  <2>2. CASE u # t
    <3>1. ASSUME NEW i \in 1..Len(todo[u]), todo[u][i].op = "destroy",
                 NEW d \in Contexts, Live(d), slices_'[d] # {}
          PROVE  todo[u][i].obj \notin slices_'[d] \cup {pic_param_'[d]}
      <4>1. CASE d = c
        <5>1. todo[u][i].obj \in owns[u]
              BY <3>1 DEF ThreadInv, Keeps, Releases
        <5>2. todo[u][i].obj \notin Looked(t)
              BY <1>13, <2>2, <5>1 DEF Apart
        <5>3. QED
              BY <1>11, <4>1, <5>2
      <4>2. CASE d # c
            BY <1>12, <3>1, <4>2 DEF SlicesInv, Spares
      <4>3. QED
            BY <4>1, <4>2
    <3>2. QED
          BY <1>1, <1>4, <2>2, <3>1 DEF Spares, Live
  <2>3. QED
        BY <2>1, <2>2
<1>15. \A d \in Contexts : Live(d) /\ slices_'[d] # {} =>
         pic_param_'[d] \in Params /\ Live(pic_param_'[d]) /\ \A b \in slices_'[d] : Live(b)
       BY <1>1, <1>11, <1>12, <1>13 DEF SlicesInv
<1>16. QED
       BY <1>1, <1>14, <1>15 DEF SlicesInv, Live

\* Only one step makes a context, and only it chooses the config of one.
LEMMA ContextsStay ==
  ASSUME ObjectsInv, NEW t \in Threads, DriverStep(t), ~CreateContext(t)
  PROVE  UNCHANGED config_ /\ \A c \in Contexts : id'[c] # NoId => Live(c)
<1>1. Contexts \subseteq Objects
      BY DEF Objects
<1>2. CASE ObjectExists(t) \/ GetObject(t) \/ GetMappedBO(t) \/ GetData(t) \/ Run(t) \/ NoOp(t)
           \/ BeginPicture(t) \/ RenderPicture(t) \/ RunReturns(t)
      BY <1>2 DEF ObjectExists, GetObject, GetMappedBO, GetData, Run, NoOp, BeginPicture,
         RenderPicture,
        RunReturns, objectVars, Live
<1>3. CASE DestroyObject(t) \/ DestroyBacking(t) \/ DestroyImage(t)
  <2>1. \E o : id' = [id EXCEPT ![o] = NoId]
        BY <1>3 DEF DestroyObject, DestroyBacking, DestroyImage, ReleaseBuffer
  <2>2. \A c \in Contexts : id'[c] # NoId => Live(c)
        BY <1>1, <2>1, ReleaseObjects DEF Live
  <2>3. QED
        BY <1>3, <2>2 DEF DestroyObject, DestroyBacking, DestroyImage, objectVars
<1>4. CASE CreateConfigOrSurface(t) \/ CreateBuffer(t) \/ CreateBacking(t) \/ CreateImage(t)
  <2>1. \E k \in Kinds : \E o \in Objects \ Contexts : Allocate(k, o)
    <3>1. \/ \E o \in Configs : Allocate("config", o)
          \/ \E o \in Surfaces : Allocate("surface", o)
          \/ \E o \in Buffers : Allocate("buffer", o)
          \/ \E o \in Images : Allocate("image", o)
          BY <1>4, KindsFacts DEF CreateConfigOrSurface, CreateBuffer, CreateBacking, CreateImage,
             Buffers
    <3>2. /\ Configs \subseteq Objects \ Contexts /\ Surfaces \subseteq Objects \ Contexts
          /\ Buffers \subseteq Objects \ Contexts /\ Images \subseteq Objects \ Contexts
          BY KindsApart DEF Objects
    <3>3. QED
          BY <3>1, <3>2, TrackersFacts
  <2>2. \A c \in Contexts : id'[c] # NoId => Live(c)
        BY <1>1, <2>1, AllocateObjects DEF Live
  <2>3. QED
        BY <1>4, <2>2 DEF CreateConfigOrSurface, CreateBuffer, CreateBacking, CreateImage,
           objectVars
<1>5. QED
      BY <1>2, <1>3, <1>4 DEF DriverStep

\* Enqueued buffers stay until the picture ends.
LEMMA SlicesStep ==
  ASSUME ObjectsInv, CallsInv, UniqueIds, SlicesInv, Apart, \A u \in Threads : ThreadInv(u),
         NEW t \in Threads, DriverStep(t)
  PROVE  SlicesInv'
<1>1. TouchesOwn(t) /\ Contexts \subseteq Objects
      BY Effects DEF Objects
<1>2. CASE CreateContext(t)
  <2>1. PICK c \in Contexts :
          /\ Allocate("context", c)
          /\ pic_param_' = [pic_param_ EXCEPT ![c] = Nil]
          /\ slices_' = [slices_ EXCEPT ![c] = {}]
        BY <1>2 DEF CreateContext
  <2>2. \A p \in Objects \ {c} : id'[p] = id[p]
        BY <1>1, <2>1, TrackersFacts, AllocateObjects
  <2>3. \A d \in Contexts : id'[d] # NoId /\ slices_'[d] # {} =>
           Live(d) /\ slices_'[d] = slices_[d] /\ pic_param_'[d] = pic_param_[d]
        BY <1>1, <2>1, <2>2 DEF ObjectsInv, Live
  <2>4. QED
        BY <1>1, <2>3, SlicesKept
<1>3. CASE RunReturns(t)
  <2>1. slices_' = [slices_ EXCEPT ![Context(t)] = {}] /\ UNCHANGED <<id, pic_param_>>
        BY <1>3 DEF RunReturns
  <2>2. \A d \in Contexts : id'[d] # NoId /\ slices_'[d] # {} =>
           Live(d) /\ slices_'[d] = slices_[d] /\ pic_param_'[d] = pic_param_[d]
        BY <2>1 DEF ObjectsInv, Live
  <2>3. QED
        BY <1>1, <2>2, SlicesKept
<1>4. CASE RenderPicture(t)
      BY <1>4, SlicesRendered
<1>5. CASE ~(CreateContext(t) \/ RunReturns(t) \/ RenderPicture(t))
  <2>1. \A c \in Contexts : id'[c] # NoId => Live(c)
        BY <1>5, ContextsStay
  <2>2. UNCHANGED <<slices_, pic_param_>>
        BY <1>5 DEF DriverStep, ObjectExists, GetObject, GetMappedBO, GetData, Run, NoOp,
           BeginPicture,
          DestroyObject, DestroyBacking, DestroyImage, CreateConfigOrSurface, CreateBuffer, CreateBacking,
          CreateImage, objectVars
  <2>3. QED
        BY <1>1, <2>1, <2>2, SlicesKept
<1>6. QED
      BY <1>2, <1>3, <1>4, <1>5

--------------------------------------------------------------------------------
(* The images.                                                               *)

\* Which threads create or destroy an image after a step of t.
LEMMA AtImageAfter ==
  ASSUME ObjectsInv, CallsInv, UniqueIds, NEW t \in Threads, ThreadInv(t), DriverStep(t)
  PROVE  /\ \A u \in Threads : u # t => todo'[u] = todo[u] /\ refs'[u] = refs[u]
         /\ AtImage(t, "create")' => Head(todo[t]).op = "CreateBacking"
         /\ AtImage(t, "destroy")' => /\ Head(todo[t]).op = "DestroyBacking"
                                      /\ Head(todo'[t]).obj = Head(todo[t]).obj
<1> DEFINE s == todo[t]
           r == refs[t]
           u == Tail(s)
<1>1. (GivesUp(t) \/ \E r2, S : Goes(t, r2, S)) /\ todo[t] # <<>>
      BY Effects, StepsProceed
<1>2. \A v \in Threads : v # t => todo'[v] = todo[v] /\ refs'[v] = refs[v]
      BY <1>1, CallsOfOthers
<1>3. todo'[t] = <<>> \/ todo'[t] = u
  <2>1. GivesUp(t) => todo'[t] = <<>>
        BY DEF GivesUp, CallsInv
  <2>2. ASSUME NEW r2, NEW S, Goes(t, r2, S) PROVE todo'[t] = <<>> \/ todo'[t] = u
        BY <1>1, <2>2, CallsOfOwn
  <2>3. QED
        BY <1>1, <2>1, <2>2
<1>4. s \in Seq(DriverCalls) /\ Head(s) = s[1] /\ Shape(s, r) /\ Keeps(s, r, uses[t], owns[t])
      BY <1>1, NextCall DEF CallsInv, ThreadInv
<1>5. u # <<>> => Head(u) = s[2] /\ 2 \in 1..Len(s)
      BY <1>1, <1>4, TailFacts
<1> HIDE DEF s, r, u
<1>6. u # <<>> /\ Head(u).op = "create" /\ Head(u).kind = "image" => s[1].op = "CreateBacking"
  <2>1. 2 # 1 /\ 2 - 1 = 1
        OBVIOUS
  <2>2. QED
        BY <1>4, <1>5, <2>1 DEF Shape
<1>7. u # <<>> /\ Head(u).op = "destroy" /\ Head(u).kind = "image" =>
        s[1].op = "DestroyBacking" /\ s[1].obj = Head(u).obj
  <2>1. 2 > 1 /\ 2 - 1 = 1
        OBVIOUS
  <2>2. QED
        BY <1>4, <1>5, <2>1 DEF Keeps
<1>8. AtImage(t, "create")' => s[1].op = "CreateBacking"
      BY <1>3, <1>6 DEF AtImage
<1>9. AtImage(t, "destroy")' => s[1].op = "DestroyBacking" /\ Head(todo'[t]).obj = s[1].obj
      BY <1>3, <1>7 DEF AtImage
<1>10. QED
       BY <1>2, <1>4, <1>8, <1>9 DEF s

\* The steps that have nothing to do with an image.
PlainStep(t) ==
  \/ ObjectExists(t) \/ GetObject(t) \/ DestroyObject(t)
  \/ CreateConfigOrSurface(t) \/ CreateContext(t) \/ CreateBuffer(t)
  \/ GetMappedBO(t) \/ GetData(t)
  \/ BeginPicture(t) \/ RenderPicture(t) \/ Run(t) \/ RunReturns(t) \/ NoOp(t)

\* The other steps of the driver.
LEMMA StepsSplit ==
  ASSUME NEW t, DriverStep(t)
  PROVE  PlainStep(t) \/ CreateBacking(t) \/ CreateImage(t) \/ DestroyBacking(t) \/ DestroyImage(t)
BY DEF PlainStep, DriverStep

\* They leave images, their buffers and the lock alone.
LEMMA PlainStepFacts ==
  ASSUME ObjectsInv, CallsInv, UniqueIds, NEW t \in Threads, ThreadInv(t), PlainStep(t)
  PROVE  /\ UNCHANGED <<images_lock, buffer_>>
         /\ \A o \in Images \cup Backings : id'[o] = id[o]
         /\ Head(todo[t]).op \notin {"CreateBacking", "DestroyBacking"}
         /\ ~AtImage(t, "create") /\ ~AtImage(t, "destroy")
<1>0. DriverStep(t)
      BY DEF PlainStep, DriverStep
<1>a. todo[t] # <<>> /\ CallsInv
      BY <1>0, StepsProceed
<1>1. CASE ObjectExists(t) \/ GetObject(t) \/ GetMappedBO(t) \/ GetData(t) \/ Run(t) \/ NoOp(t)
           \/ BeginPicture(t) \/ RenderPicture(t) \/ RunReturns(t)
  <2>1. UNCHANGED <<images_lock, buffer_, id>>
        BY <1>1 DEF ObjectExists, GetObject, GetMappedBO, GetData, Run, NoOp, BeginPicture,
           RenderPicture,
          RunReturns, objectVars
  <2>2. Head(todo[t]).op \notin {"CreateBacking", "DestroyBacking", "create", "destroy"}
        BY <1>1 DEF ObjectExists, GetObject, GetMappedBO, GetData, Run, NoOp, BeginPicture,
           RenderPicture,
          RunReturns, Step, ContextMethods
  <2>3. QED
        BY <2>1, <2>2 DEF AtImage
<1>2. CASE CreateConfigOrSurface(t) \/ CreateContext(t) \/ CreateBuffer(t)
  <2>1. \E k \in Kinds : \E o \in Configs \cup Surfaces \cup Contexts \cup Params \cup Slices :
          Allocate(k, o)
    <3>1. \/ \E o \in Configs : Allocate("config", o)
          \/ \E o \in Surfaces : Allocate("surface", o)
          \/ \E o \in Contexts : Allocate("context", o)
          \/ \E o \in Params \cup Slices : Allocate("buffer", o)
          BY <1>2, KindsFacts DEF CreateConfigOrSurface, CreateContext, CreateBuffer
    <3>2. "config" \in Kinds /\ "surface" \in Kinds /\ "context" \in Kinds /\ "buffer" \in Kinds
          BY DEF Kinds
    <3>3. QED
          BY <3>1, <3>2
  <2>2. PICK k \in Kinds, o \in Configs \cup Surfaces \cup Contexts \cup Params \cup Slices :
               Allocate(k, o)
        BY <2>1
  <2>3. o \in Objects /\ o \notin Images \cup Backings /\ Images \cup Backings \subseteq Objects
        BY <2>2, KindsApart DEF Objects, Buffers
  <2>4. \A p \in Images \cup Backings : id'[p] = id[p]
        BY <2>2, <2>3, AllocateObjects
  <2>5. UNCHANGED <<images_lock, buffer_>> /\ Head(todo[t]).op = "create"
          /\ Head(todo[t]).kind # "image"
        BY <1>2 DEF CreateConfigOrSurface, CreateContext, CreateBuffer, Step, objectVars
  <2>6. QED
        BY <2>4, <2>5 DEF AtImage
<1>3. CASE DestroyObject(t)
  <2>1. PICK o \in Find(Head(todo[t]).kind, Head(todo[t]).id) : id' = [id EXCEPT ![o] = NoId]
        BY <1>3 DEF DestroyObject
  <2>2. /\ Head(todo[t]).op = "destroy" /\ Head(todo[t]).kind # "image"
        /\ UNCHANGED <<images_lock, buffer_>>
        BY <1>3 DEF DestroyObject, Step, objectVars
  <2>3. o = Head(todo[t]).obj /\ Head(todo[t]).kind \in Trackers /\ o \in Kind[Head(todo[t]).kind]
        BY <1>a, <2>1, <2>2, FindsTheObject, NextCall DEF Lookups
  <2>4. o \notin Backings
    <3>1. Keeps(todo[t], refs[t], uses[t], owns[t])
          BY <1>a DEF ThreadInv
    <3>2. Head(todo[t]) = todo[t][1] /\ 1 \in 1..Len(todo[t])
          BY <1>a, NextCall
    <3>3. todo[t][1].op = "destroy" => todo[t][1].obj \notin Backings
          BY <3>1, <3>2 DEF Keeps
    <3>4. QED
          BY <2>2, <2>3, <3>2, <3>3
  <2>5. o \notin Images
        BY <2>2, <2>3, KindsFacts, KindsApart DEF Trackers
  <2>6. \A p \in Images \cup Backings : id'[p] = id[p]
        BY <2>1, <2>4, <2>5, ReleaseObjects DEF Objects, Buffers
  <2>7. QED
        BY <2>2, <2>6 DEF AtImage
<1>4. QED
      BY <1>1, <1>2, <1>3 DEF PlainStep

\* The steps that create and destroy an image take and leave the lock.
LEMMA LockStep ==
  ASSUME ObjectsInv, CallsInv, UniqueIds, LockInv, NEW t \in Threads, ThreadInv(t), DriverStep(t)
  PROVE  LockInv'
<1>0. Nil \notin Threads
      BY NilAssumption
<1>1. /\ \A u \in Threads : u # t => todo'[u] = todo[u] /\ refs'[u] = refs[u]
      /\ AtImage(t, "create")' => Head(todo[t]).op = "CreateBacking"
      /\ AtImage(t, "destroy")' => Head(todo[t]).op = "DestroyBacking"
      BY AtImageAfter
<1>2. \A u \in Threads : u # t => (AtImage(u, "create")' <=> AtImage(u, "create"))
                               /\ (AtImage(u, "destroy")' <=> AtImage(u, "destroy"))
      BY <1>1 DEF AtImage
<1>3. CASE PlainStep(t)
  <2>1. UNCHANGED images_lock /\ ~AtImage(t, "create")' /\ ~AtImage(t, "destroy")'
        BY <1>1, <1>3, PlainStepFacts
  <2>2. QED
        BY <1>2, <2>1 DEF LockInv
<1>4. CASE CreateBacking(t) \/ DestroyBacking(t)
  <2>1. images_lock = Nil /\ images_lock' = t
        BY <1>4 DEF CreateBacking, DestroyBacking
  <2>2. QED
        BY <1>0, <1>2, <2>1 DEF LockInv
<1>5. CASE CreateImage(t) \/ DestroyImage(t)
  <2>1. (AtImage(t, "create") \/ AtImage(t, "destroy")) /\ Head(todo[t]).op \in {"create", "destroy"}
        BY <1>5 DEF CreateImage, DestroyImage, Step, AtImage
  <2>2. images_lock = t
        BY <2>1 DEF LockInv
  <2>3. ~AtImage(t, "create")' /\ ~AtImage(t, "destroy")'
        BY <1>1, <2>1
  <2>4. QED
        BY <1>2, <2>2, <2>3 DEF LockInv
<1>6. QED
      BY <1>3, <1>4, <1>5, StepsSplit

\* Nobody else is at an image when the lock is free or held by t.
LEMMA AloneAtImage ==
  ASSUME LockInv, NEW t \in Threads, images_lock \in {Nil, t}
  PROVE  \A u \in Threads : u # t => \A x : ~Ending(u, x) /\ ~Starting(u, x)
<1>1. Nil \notin Threads
      BY NilAssumption
<1>2. QED
      BY <1>1 DEF LockInv, Ending, Starting

\* Who is at an image after a step of t.
LEMMA EndingsAfter ==
  ASSUME ObjectsInv, CallsInv, UniqueIds, NEW t \in Threads, ThreadInv(t), DriverStep(t)
  PROVE  /\ \A u \in Threads : u # t =>
              \A x : (Ending(u, x)' <=> Ending(u, x)) /\ (Starting(u, x)' <=> Starting(u, x))
         /\ \A x : Ending(t, x)' => Head(todo[t]).op = "DestroyBacking" /\ x = Head(todo[t]).obj
         /\ \A x : Starting(t, x)' => Head(todo[t]).op = "CreateBacking" /\ x = Last(refs'[t])
BY AtImageAfter DEF Ending, Starting, AtImage

\* Images keep their buffers when neither they nor the buffers change.
LEMMA ImagesKept ==
  ASSUME ImagesInv, UNCHANGED buffer_, \A o \in Images \cup Backings : id'[o] = id[o],
         \A m \in Images : Live(m) => buffer_[m] \in Backings,
         \A u \in Threads : \A x : (Ending(u, x)' <=> Ending(u, x))
           /\ (Starting(u, x)' <=> Starting(u, x))
  PROVE  ImagesInv'
<1>1. ASSUME NEW m \in Images, id'[m] # NoId
      PROVE  /\ id'[buffer_'[m]] # NoId <=> \A u \in Threads : ~Ending(u, m)'
             /\ \A u \in Threads : ~Starting(u, buffer_[m])'
  <2>1. Live(m) /\ buffer_'[m] = buffer_[m] /\ id'[buffer_[m]] = id[buffer_[m]]
        BY <1>1 DEF Live
  <2>2. (Live(buffer_[m]) <=> \A u \in Threads : ~Ending(u, m)) /\ \A u \in Threads :
          ~Starting(u, buffer_[m])
        BY <2>1 DEF ImagesInv
  <2>3. \A u \in Threads : (Ending(u, m)' <=> Ending(u, m))
                          /\ (Starting(u, buffer_[m])' <=> Starting(u, buffer_[m]))
        OBVIOUS
  <2>4. id'[buffer_'[m]] # NoId <=> \A u \in Threads : ~Ending(u, m)'
        BY <2>1, <2>2, <2>3 DEF Live
  <2>5. \A u \in Threads : ~Starting(u, buffer_[m])'
        BY <2>2, <2>3
  <2>6. QED
        BY <2>4, <2>5
<1>2. \A m, n \in Images : id'[m] # NoId /\ id'[n] # NoId /\ buffer_'[m] = buffer_'[n] => m = n
      BY DEF ImagesInv, Live
<1>3. \A b \in Backings : id'[b] # NoId => \/ \E m \in Images : id'[m] # NoId /\ buffer_'[m] = b
                                           \/ \E u \in Threads : Starting(u, b)'
      BY DEF ImagesInv, Live
<1>4. QED
      BY <1>1, <1>2, <1>3 DEF ImagesInv, Live

\* A new image's buffer is nobody else's, ...
LEMMA CreateBackingStep ==
  ASSUME ObjectsInv, CallsInv, UniqueIds, LockInv, ImagesInv,
         NEW t \in Threads, ThreadInv(t), CreateBacking(t)
  PROVE  ImagesInv'
<1>0. DriverStep(t) /\ images_lock = Nil /\ Head(todo[t]).op = "CreateBacking" /\ UNCHANGED buffer_
      BY DEF DriverStep, CreateBacking, Step, objectVars
<1>a. todo[t] # <<>> /\ todo[t] \in Seq(DriverCalls) /\ Head(todo[t]) = todo[t][1]
        /\ 1 \in 1..Len(todo[t])
      BY <1>0, StepsProceed, NextCall
<1>1. PICK b \in Backings : Allocate("buffer", b) /\ Proceed(t, <<b>>, {b})
      BY DEF CreateBacking
<1>2. /\ b \in Objects /\ "buffer" \in Kinds /\ Images \subseteq Objects /\ Backings \subseteq Objects
      /\ b \notin Images
      BY KindsApart DEF Objects, Buffers, Kinds
<1>3. (\A p \in Objects : p # b => id'[p] = id[p]) /\ id'[b] # NoId /\ ~Live(b)
      BY <1>1, <1>2, AllocateObjects, FreeIdFacts, IdsFacts DEF Allocate, Fresh
<1>4. \A m \in Images : Live(m) => buffer_[m] # b /\ buffer_[m] \in Backings
      BY <1>1 DEF Allocate, Fresh, Referenced, ObjectsInv
<1>5. \A u \in Threads : \A x : ~Ending(u, x) /\ ~Starting(u, x)
  <2>1. ~AtImage(t, "create") /\ ~AtImage(t, "destroy")
        BY <1>0 DEF AtImage
  <2>2. QED
        BY <1>0, <2>1, AloneAtImage DEF Ending, Starting
<1>6. todo'[t] # <<>> /\ Head(todo'[t]).op = "create" /\ Head(todo'[t]).kind = "image"
        /\ refs'[t] = <<b>>
  <2>1. Len(todo[t]) = 2 /\ todo[t][2].op = "create" /\ todo[t][2].kind = "image"
        BY <1>0, <1>a DEF ThreadInv, Keeps
  <2>2. Tail(todo[t]) # <<>> /\ Head(Tail(todo[t])) = todo[t][2]
        BY <1>a, <2>1, TailFacts
  <2>3. todo'[t] = Tail(todo[t]) /\ refs'[t] = <<b>>
        BY <1>1, <2>1 DEF Proceed, CallsInv
  <2>4. QED
        BY <2>1, <2>2, <2>3
<1>7. Last(refs'[t]) = b
  <2>1. Last(<<b>>) = b
        BY DEF Last
  <2>2. QED
        BY <1>6, <2>1
<1>8. /\ \A u \in Threads : \A x : ~Ending(u, x)'
      /\ \A u \in Threads : \A x : Starting(u, x)' <=> u = t /\ x = b
  <2>1. /\ \A u \in Threads : u # t => \A x : ~Ending(u, x)' /\ ~Starting(u, x)'
        /\ \A x : ~Ending(t, x)'
        /\ \A x : Starting(t, x)' => x = b
        BY <1>0, <1>5, <1>7, EndingsAfter
  <2>2. Starting(t, b)'
        BY <1>6, <1>7 DEF Starting, AtImage
  <2>3. QED
        BY <2>1, <2>2
<1>9. ASSUME NEW m \in Images, id'[m] # NoId
      PROVE  id'[buffer_'[m]] # NoId /\ buffer_'[m] # b
  <2>1. Live(m) /\ buffer_'[m] = buffer_[m]
        BY <1>0, <1>2, <1>3, <1>9 DEF Live
  <2>2. Live(buffer_[m])
        BY <1>5, <2>1 DEF ImagesInv
  <2>3. QED
        BY <1>2, <1>3, <1>4, <2>1, <2>2 DEF Live
<1>10. \A m, n \in Images : id'[m] # NoId /\ id'[n] # NoId /\ buffer_'[m] = buffer_'[n] => m = n
       BY <1>0, <1>2, <1>3 DEF ImagesInv, Live
<1>11. ASSUME NEW c \in Backings, id'[c] # NoId, c # b
       PROVE  \E m \in Images : id'[m] # NoId /\ buffer_'[m] = c
  <2>1. Live(c)
        BY <1>2, <1>3, <1>11 DEF Live
  <2>2. PICK m \in Images : Live(m) /\ buffer_[m] = c
        BY <1>5, <2>1 DEF ImagesInv
  <2>3. QED
        BY <1>0, <1>2, <1>3, <2>2 DEF Live
<1>12. QED
       BY <1>8, <1>9, <1>10, <1>11 DEF ImagesInv, Live

\* ... the image gets it, ...
LEMMA CreateImageStep ==
  ASSUME ObjectsInv, CallsInv, UniqueIds, LockInv, ImagesInv,
         NEW t \in Threads, ThreadInv(t), CreateImage(t)
  PROVE  ImagesInv'
<1>0. DriverStep(t) /\ todo[t] # <<>> /\ Head(todo[t]).op = "create" /\ Head(todo[t]).kind = "image"
      BY DEF DriverStep, CreateImage, Step
<1>a. todo[t] \in Seq(DriverCalls) /\ Head(todo[t]) = todo[t][1] /\ 1 \in 1..Len(todo[t])
      BY <1>0, NextCall
<1> DEFINE b == Last(refs[t])
<1>1. PICK m \in Images : Allocate("image", m) /\ buffer_' = [buffer_ EXCEPT ![m] = b]
      BY DEF CreateImage
<1>2. /\ m \in Objects /\ "image" \in Kinds /\ Images \subseteq Objects /\ Backings \subseteq Objects
      /\ m \notin Backings
      BY KindsApart DEF Objects, Buffers, Kinds
<1>3. (\A p \in Objects : p # m => id'[p] = id[p]) /\ id'[m] # NoId /\ ~Live(m)
      BY <1>1, <1>2, AllocateObjects, FreeIdFacts, IdsFacts DEF Allocate, Fresh
<1>4. b \in Backings /\ Live(b)
  <2>1. b \in Backings
        BY <1>0, LastFacts
  <2>2. Len(refs[t]) = 1
        BY <1>0, <1>a DEF ThreadInv, Keeps
  <2>3. b = refs[t][1]
        BY <2>2 DEF Last
  <2>4. QED
        BY <2>1, <2>2, <2>3 DEF ThreadInv, Alive
<1>5. \A n \in Images : n # m => buffer_'[n] = buffer_[n]
      BY <1>1 DEF ObjectsInv
<1>6. buffer_'[m] = b
      BY <1>1 DEF ObjectsInv
<1>7. Starting(t, b)
      BY <1>0 DEF Starting, AtImage
<1> HIDE DEF b
<1>8. /\ \A u \in Threads : u # t => \A x : ~Ending(u, x) /\ ~Starting(u, x)
      /\ \A x : ~Ending(t, x)
      /\ \A x : Starting(t, x) => x = b
  <2>1. images_lock = t
        BY <1>0 DEF LockInv, AtImage
  <2>2. QED
        BY <1>0, <2>1, AloneAtImage DEF Ending, Starting, AtImage, b
<1>9. \A u \in Threads : \A x : ~Ending(u, x)' /\ ~Starting(u, x)'
      BY <1>0, <1>8, EndingsAfter
<1>10. ASSUME NEW n \in Images, id'[n] # NoId, n # m
       PROVE  id'[buffer_'[n]] # NoId /\ buffer_'[n] # b
  <2>1. Live(n) /\ buffer_'[n] = buffer_[n] /\ buffer_[n] \in Backings
        BY <1>2, <1>3, <1>5, <1>10 DEF Live, ObjectsInv
  <2>2. Live(buffer_[n])
        BY <1>8, <2>1 DEF ImagesInv
  <2>3. buffer_[n] # b
        BY <1>7, <2>1 DEF ImagesInv
  <2>4. QED
        BY <1>2, <1>3, <2>1, <2>2, <2>3 DEF Live
<1>11. id'[buffer_'[m]] # NoId
       BY <1>2, <1>3, <1>4, <1>6 DEF Live
<1>12. ASSUME NEW n \in Images, NEW p \in Images, id'[n] # NoId, id'[p] # NoId, buffer_'[n] = buffer_'[p]
       PROVE  n = p
  <2>1. CASE n = m \/ p = m
        BY <1>6, <1>10, <1>12, <2>1
  <2>2. CASE n # m /\ p # m
        BY <1>2, <1>3, <1>5, <1>12, <2>2 DEF ImagesInv, Live
  <2>3. QED
        BY <2>1, <2>2
<1>13. ASSUME NEW c \in Backings, id'[c] # NoId
       PROVE  \E n \in Images : id'[n] # NoId /\ buffer_'[n] = c
  <2>1. Live(c)
        BY <1>2, <1>3, <1>13 DEF Live
  <2>2. (\E n \in Images : Live(n) /\ buffer_[n] = c) \/ c = b
        BY <1>8, <2>1 DEF ImagesInv
  <2>3. CASE c = b
        BY <1>3, <1>6, <2>3
  <2>4. ASSUME NEW n \in Images, Live(n), buffer_[n] = c PROVE id'[n] # NoId /\ buffer_'[n] = c
    <3>1. n # m
          BY <1>3, <2>4
    <3>2. QED
          BY <1>2, <1>3, <1>5, <2>4, <3>1 DEF Live
  <2>5. QED
        BY <2>2, <2>3, <2>4
<1>14. QED
       BY <1>9, <1>10, <1>11, <1>12, <1>13 DEF ImagesInv, Live

\* ... its destructor destroys it, ...
LEMMA DestroyBackingStep ==
  ASSUME ObjectsInv, CallsInv, UniqueIds, LockInv, ImagesInv,
         NEW t \in Threads, ThreadInv(t), DestroyBacking(t)
  PROVE  ImagesInv'
<1>0. DriverStep(t) /\ images_lock = Nil /\ todo[t] # <<>> /\ Head(todo[t]).op = "DestroyBacking"
        /\ UNCHANGED buffer_
      BY DEF DriverStep, DestroyBacking, Step, objectVars
<1>b. todo[t] \in Seq(DriverCalls) /\ Head(todo[t]) = todo[t][1] /\ 1 \in 1..Len(todo[t])
      BY <1>0, NextCall
<1>a. Head(todo[t]).kind = "image"
      BY <1>0, <1>b DEF ThreadInv, Keeps
<1> DEFINE m == Head(todo[t]).obj
           b == buffer_[m]
<1>1. id' = [id EXCEPT ![b] = NoId]
  <2>1. PICK n \in Find("image", Head(todo[t]).id) : id' = ReleaseBuffer(n)
        BY DEF DestroyBacking
  <2>2. n = m
        BY <1>0, <1>a, <2>1, FindsTheObject DEF Lookups
  <2>3. QED
        BY <2>1, <2>2 DEF ReleaseBuffer
<1>2. m \in Images /\ Live(m)
      BY <1>0, <1>a, NextCall, KindsFacts DEF Lookups
<1>3. b \in Backings
      BY <1>2 DEF ObjectsInv
<1>4. todo'[t] # <<>> /\ Head(todo'[t]).op = "destroy" /\ Head(todo'[t]).kind = "image"
        /\ Head(todo'[t]).obj = m
  <2>1. Len(todo[t]) = 2 /\ todo[t][2].op = "destroy" /\ todo[t][2].kind = "image" /\ todo[t][2].obj = m
        BY <1>0, <1>b DEF ThreadInv, Keeps
  <2>2. Tail(todo[t]) # <<>> /\ Head(Tail(todo[t])) = todo[t][2]
        BY <1>b, <2>1, TailFacts
  <2>3. Proceed(t, refs[t], {})
        BY DEF DestroyBacking
  <2>4. todo'[t] = Tail(todo[t])
        BY <2>3 DEF Proceed, CallsInv
  <2>5. QED
        BY <2>1, <2>2, <2>4
<1>5. \A u \in Threads : \A x : ~Ending(u, x) /\ ~Starting(u, x)
  <2>1. ~AtImage(t, "create") /\ ~AtImage(t, "destroy")
        BY <1>0 DEF AtImage
  <2>2. QED
        BY <1>0, <2>1, AloneAtImage DEF Ending, Starting
<1>6. /\ \A u \in Threads : \A x : ~Starting(u, x)'
      /\ \A u \in Threads : \A x : Ending(u, x)' <=> u = t /\ x = m
  <2>1. /\ \A u \in Threads : u # t => \A x : ~Ending(u, x)' /\ ~Starting(u, x)'
        /\ \A x : ~Starting(t, x)'
        /\ \A x : Ending(t, x)' => x = m
        BY <1>0, <1>5, EndingsAfter
  <2>2. Ending(t, m)'
        BY <1>4 DEF Ending, AtImage
  <2>3. QED
        BY <2>1, <2>2
<1> HIDE DEF m
<1>7. \A p \in Objects : id'[p] = IF p = b THEN NoId ELSE id[p]
      BY <1>1, ReleaseObjects
<1>8. Images \subseteq Objects /\ Backings \subseteq Objects /\ b \notin Images
      BY <1>3, KindsApart DEF Objects, Buffers
<1>9. ASSUME NEW n \in Images, id'[n] # NoId
      PROVE  id'[buffer_'[n]] # NoId <=> n # m
  <2>1. Live(n) /\ buffer_'[n] = buffer_[n] /\ buffer_[n] \in Backings
        BY <1>0, <1>7, <1>8, <1>9 DEF Live, ObjectsInv
  <2>2. Live(buffer_[n])
        BY <1>5, <2>1 DEF ImagesInv
  <2>3. n # m => buffer_[n] # b
        BY <1>2, <2>1 DEF ImagesInv
  <2>4. QED
        BY <1>7, <1>8, <2>1, <2>2, <2>3 DEF Live
<1>10. \A n, p \in Images : id'[n] # NoId /\ id'[p] # NoId /\ buffer_'[n] = buffer_'[p] => n = p
       BY <1>0, <1>7, <1>8 DEF ImagesInv, Live
<1>11. ASSUME NEW c \in Backings, id'[c] # NoId
       PROVE  \E n \in Images : id'[n] # NoId /\ buffer_'[n] = c
  <2>1. Live(c)
        BY <1>7, <1>8, <1>11 DEF Live
  <2>2. PICK n \in Images : Live(n) /\ buffer_[n] = c
        BY <1>5, <2>1 DEF ImagesInv
  <2>3. QED
        BY <1>0, <1>7, <1>8, <2>2 DEF Live
<1>12. QED
       BY <1>2, <1>6, <1>9, <1>10, <1>11 DEF ImagesInv, Live

\* ... and nothing is left when the image is gone.
LEMMA DestroyImageStep ==
  ASSUME ObjectsInv, CallsInv, UniqueIds, LockInv, ImagesInv,
         NEW t \in Threads, ThreadInv(t), DestroyImage(t)
  PROVE  ImagesInv'
<1>0. DriverStep(t) /\ todo[t] # <<>> /\ Head(todo[t]).op = "destroy"
        /\ Head(todo[t]).kind = "image" /\ UNCHANGED buffer_
      BY DEF DriverStep, DestroyImage, Step, objectVars
<1> DEFINE m == Head(todo[t]).obj
<1>1. id' = [id EXCEPT ![m] = NoId]
  <2>1. PICK n \in Find("image", Head(todo[t]).id) : id' = [id EXCEPT ![n] = NoId]
        BY DEF DestroyImage
  <2>2. n = m
        BY <1>0, <2>1, FindsTheObject DEF Lookups
  <2>3. QED
        BY <2>1, <2>2
<1>2. m \in Images /\ Live(m)
      BY <1>0, NextCall, KindsFacts DEF Lookups
<1>3. Ending(t, m)
      BY <1>0 DEF Ending, AtImage
<1>4. /\ \A u \in Threads : u # t => \A x : ~Ending(u, x) /\ ~Starting(u, x)
      /\ \A x : Ending(t, x) => x = m
      /\ \A x : ~Starting(t, x)
  <2>1. images_lock = t
        BY <1>3 DEF LockInv, Ending
  <2>2. QED
        BY <1>0, <2>1, AloneAtImage DEF Ending, Starting, AtImage
<1>5. \A u \in Threads : \A x : ~Ending(u, x)' /\ ~Starting(u, x)'
      BY <1>0, <1>4, EndingsAfter
<1> HIDE DEF m
<1>6. \A p \in Objects : id'[p] = IF p = m THEN NoId ELSE id[p]
      BY <1>1, ReleaseObjects
<1>7. Images \subseteq Objects /\ Backings \subseteq Objects /\ m \notin Backings
      BY <1>2, KindsApart DEF Objects, Buffers
<1>8. ASSUME NEW n \in Images, id'[n] # NoId
      PROVE  id'[buffer_'[n]] # NoId
  <2>1. Live(n) /\ n # m /\ buffer_'[n] = buffer_[n] /\ buffer_[n] \in Backings
        BY <1>0, <1>6, <1>7, <1>8 DEF Live, ObjectsInv
  <2>2. Live(buffer_[n])
        BY <1>4, <2>1 DEF ImagesInv
  <2>3. QED
        BY <1>6, <1>7, <2>1, <2>2 DEF Live
<1>9. \A n, p \in Images : id'[n] # NoId /\ id'[p] # NoId /\ buffer_'[n] = buffer_'[p] => n = p
      BY <1>0, <1>6, <1>7 DEF ImagesInv, Live
<1>10. ASSUME NEW c \in Backings, id'[c] # NoId
       PROVE  \E n \in Images : id'[n] # NoId /\ buffer_'[n] = c
  <2>1. Live(c)
        BY <1>6, <1>7, <1>10 DEF Live
  <2>2. PICK n \in Images : Live(n) /\ buffer_[n] = c
        BY <1>4, <2>1 DEF ImagesInv
  <2>3. n # m
        BY <1>2, <1>3, <2>1, <2>2 DEF ImagesInv
  <2>4. QED
        BY <1>0, <1>6, <1>7, <2>2, <2>3 DEF Live
<1>11. QED
       BY <1>5, <1>8, <1>9, <1>10 DEF ImagesInv, Live

\* Images keep their buffers in every step of the driver.
LEMMA ImagesStep ==
  ASSUME ObjectsInv, CallsInv, UniqueIds, LockInv, ImagesInv,
         NEW t \in Threads, ThreadInv(t), DriverStep(t)
  PROVE  ImagesInv'
<1>1. CASE PlainStep(t)
  <2>1. \A u \in Threads : \A x : (Ending(u, x)' <=> Ending(u, x))
          /\ (Starting(u, x)' <=> Starting(u, x))
        BY <1>1, PlainStepFacts, EndingsAfter DEF Ending, Starting
  <2>2. UNCHANGED buffer_ /\ \A o \in Images \cup Backings : id'[o] = id[o]
        BY <1>1, PlainStepFacts
  <2>3. QED
        BY <2>1, <2>2, ImagesKept DEF ObjectsInv
<1>2. QED
      BY <1>1, StepsSplit, CreateBackingStep, CreateImageStep, DestroyBackingStep, DestroyImageStep

--------------------------------------------------------------------------------
(* The invariant.                                                            *)

\* A thread that has nothing to do.
LEMMA ThreadIdle ==
  ASSUME NEW t \in Threads, todo[t] = <<>>, refs[t] = <<>>, uses[t] = {}, owns[t] = {}
  PROVE  ThreadInv(t)
<1>1. \A n \in 1..Len(<<>>) : FALSE
      OBVIOUS
<1>2. Expected(<<>>, <<>>) = {}
      BY <1>1 DEF Expected
<1>3. Named(todo[t]) /\ Alive(refs[t], uses[t])
      BY <1>1 DEF Named, Alive
<1>4. Drawing(todo[t], refs[t]) /\ Imaging(todo[t], refs[t], uses[t], owns[t])
      BY <1>1, <1>2 DEF Drawing, Imaging
<1>5. Keeps(todo[t], refs[t], uses[t], owns[t])
      BY EmptyKeeps
<1>6. QED
      BY <1>3, <1>4, <1>5 DEF ThreadInv

\* The careful invariant holds initially.
LEMMA CarefulInit ==
  ASSUME Init
  PROVE  CarefulInv
<1>1. /\ \A t \in Threads : todo[t] = <<>> /\ refs[t] = <<>> /\ uses[t] = {} /\ owns[t] = {}
      /\ state = "running"
      BY DEF Init
<1>2. \A o \in Objects : ~Live(o)
      BY DEF Init, Live
<1>3. /\ Images \subseteq Objects /\ Backings \subseteq Objects /\ Contexts \subseteq Objects
      /\ \A k \in Trackers : Kind[k] \subseteq Objects
      BY KindsFacts, TrackersFacts DEF Objects, Buffers, Trackers
<1>4. \A t \in Threads : ThreadInv(t)
      BY <1>1, ThreadIdle
<1>5. UniqueIds /\ Apart
      BY <1>1, <1>2, <1>3 DEF UniqueIds, Apart
<1>6. SlicesInv
  <2>1. \A n \in 1..Len(<<>>) : FALSE
        OBVIOUS
  <2>2. QED
        BY <1>1, <1>2, <1>3, <2>1 DEF SlicesInv, Spares
<1>7. ImagesInv /\ LockInv
      BY <1>1, <1>2, <1>3 DEF ImagesInv, LockInv, AtImage
<1>8. ClosingInv
      BY <1>1 DEF ClosingInv
<1>9. QED
      BY <1>4, <1>5, <1>6, <1>7, <1>8 DEF CarefulInv

\* What does not depend on the calls.
LEMMA ObjectsStay ==
  ASSUME CallsInv, ObjectsInv, UniqueIds, ImagesInv, LockInv, UNCHANGED <<id, buffer_, images_lock>>,
         \A u \in Threads :
           \/ todo'[u] = todo[u] /\ refs'[u] = refs[u]
           \/ /\ ~AtImage(u, "create") /\ ~AtImage(u, "destroy")
              /\ ~AtImage(u, "create")' /\ ~AtImage(u, "destroy")'
  PROVE  UniqueIds' /\ ImagesInv' /\ LockInv'
<1>1. UniqueIds'
      BY DEF UniqueIds, Live
<1>2. LockInv'
      BY DEF LockInv, AtImage
<1>3. \A u \in Threads : \A x : (Ending(u, x)' <=> Ending(u, x)) /\ (Starting(u, x)' <=> Starting(u, x))
      BY DEF Ending, Starting, AtImage
<1>4. ImagesInv'
      BY <1>3, ImagesKept DEF ObjectsInv
<1>5. QED
      BY <1>1, <1>2, <1>4

\* A call that keeps to the rules keeps the invariant.
LEMMA CarefulCall ==
  ASSUME ObjectsInv, CallsInv, CallsInv', CarefulInv, NEW t \in Threads, Ready(t),
         NEW calls, NEW S, NEW X, Call(t, calls, S, X), Honest(calls, S, X)
  PROVE  CarefulInv'
<1>1. todo[t] = <<>> /\ state = "running"
      BY DEF Ready
<1>2. (\A u \in Threads : ThreadInv(u)') /\ Apart'
      BY <1>1, ThreadsCall DEF CarefulInv
<1>3. /\ UNCHANGED <<id, buffer_, images_lock, refs, slices_, pic_param_, state>>
      /\ todo'[t] = calls /\ \A u \in Threads : u # t => todo'[u] = todo[u]
      BY DEF Call, CallsInv, objectVars
<1>4. UniqueIds' /\ ImagesInv' /\ LockInv'
  <2>1. ~AtImage(t, "create") /\ ~AtImage(t, "destroy")
        BY <1>1 DEF AtImage
  <2>2. ~AtImage(t, "create")' /\ ~AtImage(t, "destroy")'
    <3>1. todo'[t] # <<>> => Head(todo'[t]) = calls[1]
          BY <1>3, TailFacts DEF CallsInv
    <3>2. calls[1].kind = "image" => calls[1].op \notin {"create", "destroy"}
          BY DEF Honest, Unlocked
    <3>3. QED
          BY <3>1, <3>2 DEF AtImage
  <2>3. \A u \in Threads : u # t => todo'[u] = todo[u] /\ refs'[u] = refs[u]
        BY <1>3
  <2>4. QED
        BY <1>3, <2>1, <2>2, <2>3, ObjectsStay DEF CarefulInv
<1>5. SlicesInv'
  <2>1. ASSUME NEW u \in Threads PROVE Spares(todo[u])'
    <3>1. Spares(todo'[u])
          BY <1>3 DEF Honest, CarefulInv, SlicesInv
    <3>2. QED
          BY <1>3, <3>1 DEF Spares, Live
  <2>2. QED
        BY <1>3, <2>1 DEF CarefulInv, SlicesInv, Live
<1>6. ClosingInv'
      BY <1>1, <1>3 DEF ClosingInv
<1>7. QED
      BY <1>2, <1>4, <1>5, <1>6 DEF CarefulInv

\* A step of the driver keeps it.
LEMMA CarefulDriverStep ==
  ASSUME ObjectsInv, CallsInv, CarefulInv, NEW t \in Threads, DriverStep(t)
  PROVE  CarefulInv'
<1>1. (\A u \in Threads : ThreadInv(u)') /\ Apart'
      BY ThreadsStep DEF CarefulInv
<1>2. UniqueIds' /\ SlicesInv' /\ ImagesInv' /\ LockInv'
      BY IdsStep, SlicesStep, ImagesStep, LockStep DEF CarefulInv
<1>3. ClosingInv'
      BY StepsProceed DEF ClosingInv
<1>4. QED
      BY <1>1, <1>2, <1>3 DEF CarefulInv

\* Nothing is called while the driver closes, and while it stays as it is.
LEMMA NobodyCalls ==
  ASSUME CallsInv, \A t \in Threads : todo[t] = <<>>, UNCHANGED callVars
  PROVE  /\ (\A u \in Threads : ThreadInv(u)') /\ Apart' /\ LockInv' /\ ClosingInv'
         /\ \A t \in Threads : Spares(todo[t])'
         /\ \A t \in Threads : \A x : ~Ending(t, x) /\ ~Starting(t, x) /\ ~Ending(t, x)'
              /\ ~Starting(t, x)'
<1>1. (\A u \in Threads : ThreadInv(u)') /\ Apart'
      BY ThreadsRest
<1>2. \A t \in Threads : todo'[t] = <<>>
      BY DEF callVars
<1>3. \A n \in 1..Len(<<>>) : FALSE
      OBVIOUS
<1>4. LockInv' /\ ClosingInv' /\ \A t \in Threads : Spares(todo[t])'
      BY <1>2, <1>3 DEF LockInv, AtImage, ClosingInv, Spares
<1>5. \A t \in Threads : \A x : ~Ending(t, x) /\ ~Starting(t, x) /\ ~Ending(t, x)' /\ ~Starting(t, x)'
      BY <1>2 DEF Ending, Starting, AtImage
<1>6. QED
      BY <1>1, <1>4, <1>5

\* Teardown destroys what is next in its order.
LEMMA TeardownFacts ==
  ASSUME NEW k, IsNext(k)
  PROVE  /\ k \in {"image", "buffer", "context", "surface", "config", "factory"}
         /\ k = "buffer" => \A m \in Images : ~Live(m)
         /\ k = "factory" => \A o \in Objects : ~Live(o)
<1> DEFINE order == TeardownOrder
<1>1. /\ DOMAIN order = 1..6 /\ order[1] = "image" /\ order[2] = "buffer" /\ order[3] = "context"
      /\ order[4] = "surface" /\ order[5] = "config" /\ order[6] = "factory"
      BY DEF TeardownOrder
<1>2. PICK i \in DOMAIN order : order[i] = k /\ \A j \in 1..(i - 1) : ~Remains(order[j])
      BY DEF IsNext
<1> HIDE DEF order
<1>3. i = 1 \/ i = 2 \/ i = 3 \/ i = 4 \/ i = 5 \/ i = 6
      BY <1>1, <1>2
<1>4. k = "buffer" => \A m \in Images : ~Live(m)
  <2>1. k = "buffer" => ~Remains("image")
    <3>1. k = "buffer" => i = 2
          BY <1>1, <1>2, <1>3
    <3>2. 1 \in 1..(2 - 1)
          OBVIOUS
    <3>3. QED
          BY <1>1, <1>2, <3>1, <3>2
  <2>2. QED
        BY <2>1, KindsFacts DEF Remains
<1>5. k = "factory" => \A o \in Objects : ~Live(o)
  <2>1. k = "factory" => /\ ~Remains("image") /\ ~Remains("buffer") /\ ~Remains("context")
                         /\ ~Remains("surface") /\ ~Remains("config")
    <3>1. k = "factory" => i = 6
          BY <1>1, <1>2, <1>3
    <3>2. \A j \in {1, 2, 3, 4, 5} : j \in 1..(6 - 1)
          OBVIOUS
    <3>3. k = "factory" => \A j \in {1, 2, 3, 4, 5} : ~Remains(order[j])
          BY <1>2, <3>1, <3>2
    <3>4. QED
          BY <1>1, <3>3
  <2>2. QED
        BY <2>1, KindsFacts DEF Remains, Objects
<1>6. QED
      BY <1>1, <1>2, <1>3, <1>4, <1>5

\* Teardown destroys images with their buffers, and buffers only when no image is left.
LEMMA ImagesTornDown ==
  ASSUME ObjectsInv, ImagesInv, UNCHANGED buffer_,
         \A t \in Threads : \A x : ~Ending(t, x) /\ ~Starting(t, x) /\ ~Ending(t, x)'
           /\ ~Starting(t, x)',
         NEW k \in DOMAIN Kind, IsNext(k), NEW o \in Kind[k], Live(o),
         id' = [IF o \in Images THEN ReleaseBuffer(o) ELSE id EXCEPT ![o] = NoId]
  PROVE  ImagesInv' /\ \A p \in Objects : id'[p] = NoId \/ id'[p] = id[p]
<1>1. o \in Objects /\ Images \subseteq Objects /\ Backings \subseteq Objects
      BY KindsFacts DEF Objects, Buffers
<1>2. CASE o \in Images
  <2> DEFINE b == buffer_[o]
  <2>1. b \in Backings
        BY <1>2 DEF ObjectsInv
  <2>2. id' = [[id EXCEPT ![b] = NoId] EXCEPT ![o] = NoId]
        BY <1>2 DEF ReleaseBuffer
  <2>3. \A p \in Objects : id'[p] = IF p = o \/ p = b THEN NoId ELSE id[p]
        BY <2>2 DEF ObjectsInv
  <2> HIDE DEF b
  <2>a. b = buffer_[o]
        BY DEF b
  <2>4. o \notin Backings /\ b \notin Images
        BY <1>2, <2>1, KindsApart DEF Buffers
  <2>5. ASSUME NEW n \in Images, id'[n] # NoId PROVE id'[buffer_'[n]] # NoId
    <3>1. Live(n) /\ n # o /\ buffer_'[n] = buffer_[n] /\ buffer_[n] \in Backings
          BY <1>1, <2>3, <2>5 DEF Live, ObjectsInv
    <3>2. Live(buffer_[n]) /\ buffer_[n] # b
          BY <1>2, <2>a, <3>1 DEF ImagesInv
    <3>3. QED
          BY <1>1, <2>3, <2>4, <3>1, <3>2 DEF Live
  <2>6. \A n, p \in Images : id'[n] # NoId /\ id'[p] # NoId /\ buffer_'[n] = buffer_'[p] => n = p
        BY <1>1, <2>3 DEF ImagesInv, Live
  <2>7. ASSUME NEW c \in Backings, id'[c] # NoId
        PROVE  \E n \in Images : id'[n] # NoId /\ buffer_'[n] = c
    <3>1. Live(c) /\ c # b
          BY <1>1, <2>3, <2>7 DEF Live
    <3>2. PICK n \in Images : Live(n) /\ buffer_[n] = c
          BY <3>1 DEF ImagesInv
    <3>3. n # o
          BY <2>a, <3>1, <3>2
    <3>4. QED
          BY <1>1, <2>3, <2>4, <3>2, <3>3 DEF Live
  <2>8. ImagesInv'
        BY <2>5, <2>6, <2>7 DEF ImagesInv, Live
  <2>9. QED
        BY <2>3, <2>8
<1>3. CASE o \notin Images
  <2>1. \A p \in Objects : id'[p] = IF p = o THEN NoId ELSE id[p]
        BY <1>3, ReleaseObjects
  <2>2. CASE o \notin Backings
    <3>1. \A p \in Images \cup Backings : id'[p] = id[p]
          BY <1>1, <1>3, <2>1, <2>2
    <3>2. ImagesInv'
          BY <3>1, ImagesKept DEF ObjectsInv
    <3>3. QED
          BY <2>1, <3>2
  <2>3. CASE o \in Backings
    <3>1. k = "buffer"
      <4>1. k \in {"image", "buffer", "context", "surface", "config", "factory"} /\ k # "factory"
            BY TeardownFacts, KindsFacts DEF Kinds
      <4>2. QED
            BY <2>3, <4>1, KindsFacts, KindsApart DEF Buffers
    <3>2. \A m \in Images : ~Live(m)
          BY <3>1, TeardownFacts
    <3>3. FALSE
          BY <2>3, <3>2 DEF ImagesInv
    <3>4. QED
          BY <3>3
  <2>4. QED
        BY <2>2, <2>3
<1>4. QED
      BY <1>2, <1>3

\* Every step of the system keeps it, if the application is careful.
LEMMA CarefulStep ==
  ASSUME Careful, TypeInv, CarefulInv, [Next]_vars
  PROVE  CarefulInv'
<1>0. ObjectsInv /\ CallsInv /\ CallsInv'
      BY CallsStep DEF TypeInv
<1>1. ASSUME NEW t \in Threads, EntryPoint(t) PROVE CarefulInv'
  <2>1. Ready(t)
        BY <1>1 DEF EntryPoint, CallConfig, CallSurface, CallContext, CallBuffer, CallPicture,
           CallImage
  <2>2. PICK calls, S, X : Call(t, calls, S, X) /\ Honest(calls, S, X)
        BY <1>0, <1>1, CarefulEntries
  <2>3. QED
        BY <1>0, <2>1, <2>2, CarefulCall
<1>2. ASSUME NEW t \in Threads, DriverStep(t) PROVE CarefulInv'
      BY <1>0, <1>2, CarefulDriverStep
<1>3. ASSUME UNCHANGED <<id, objectVars, images_lock, callVars>>,
             state' = "running" => state = "running", state' = "closing"
               => \A t \in Threads : todo[t] = <<>>
      PROVE  CarefulInv'
  <2>1. (\A u \in Threads : ThreadInv(u)') /\ Apart'
        BY <1>0, <1>3, ThreadsStay DEF CarefulInv
  <2>2. UNCHANGED <<id, buffer_, images_lock, todo, refs, slices_, pic_param_>>
        BY <1>3 DEF objectVars, callVars
  <2>3. UniqueIds' /\ ImagesInv' /\ LockInv'
        BY <1>0, <2>2, ObjectsStay DEF CarefulInv
  <2>4. SlicesInv'
    <3>1. \A u \in Threads : Spares(todo[u])'
          BY <2>2 DEF CarefulInv, SlicesInv, Spares, Live
    <3>2. QED
          BY <1>3, <2>2, <3>1 DEF CarefulInv, SlicesInv, Live
  <2>5. ClosingInv'
        BY <1>3, <2>2 DEF ClosingInv
  <2>6. QED
        BY <2>1, <2>3, <2>4, <2>5 DEF CarefulInv
<1>4. ASSUME NEW t \in Threads, Die(t) PROVE CarefulInv'
  <2>1. state' \in Died /\ UNCHANGED <<id, objectVars, images_lock, callVars>>
        BY <1>4, FailureKinds DEF Die
  <2>2. QED
        BY <1>3, <2>1 DEF Died
<1>5. CASE vsTerminate
      BY <1>3, <1>5 DEF vsTerminate
<1>6. CASE UNCHANGED vars
      BY <1>3, <1>6 DEF vars, CarefulInv, ClosingInv
<1>7. CASE DestroyRemaining
  <2>1. state = "closing" /\ UNCHANGED <<objectVars, images_lock, callVars>>
        BY <1>7 DEF DestroyRemaining
  <2>2. state' # "running"
        BY <1>7, <2>1 DEF DestroyRemaining
  <2>3. \A t \in Threads : todo[t] = <<>>
        BY <2>1 DEF CarefulInv, ClosingInv
  <2>4. /\ (\A u \in Threads : ThreadInv(u)') /\ Apart' /\ LockInv' /\ ClosingInv'
        /\ \A t \in Threads : Spares(todo[t])'
        /\ \A t \in Threads : \A x : ~Ending(t, x) /\ ~Starting(t, x) /\ ~Ending(t, x)'
             /\ ~Starting(t, x)'
        BY <1>0, <2>1, <2>3, NobodyCalls
  <2>5. SlicesInv'
        BY <2>2, <2>4 DEF SlicesInv
  <2>6. PICK k \in DOMAIN Kind :
          IsNext(k) /\ \E o \in Kind[k] : /\ Live(o)
                                          /\ \/ UNCHANGED id
                                             \/ id' = [IF o \in Images THEN ReleaseBuffer(o) ELSE id EXCEPT ![o] = NoId]
        BY <1>7 DEF DestroyRemaining
  <2>7. PICK o \in Kind[k] :
          /\ Live(o)
          /\ \/ UNCHANGED id
             \/ id' = [IF o \in Images THEN ReleaseBuffer(o) ELSE id EXCEPT ![o] = NoId]
        BY <2>6
  <2>8. UNCHANGED buffer_
        BY <2>1 DEF objectVars
  <2>9. CASE UNCHANGED id
    <3>1. UniqueIds' /\ ImagesInv' /\ LockInv'
          BY <1>0, <2>1, <2>8, <2>9, ObjectsStay DEF CarefulInv, callVars
    <3>2. QED
          BY <2>4, <2>5, <3>1 DEF CarefulInv
  <2>10. CASE id' = [IF o \in Images THEN ReleaseBuffer(o) ELSE id EXCEPT ![o] = NoId]
    <3>1. ImagesInv' /\ \A p \in Objects : id'[p] = NoId \/ id'[p] = id[p]
          BY <1>0, <2>4, <2>6, <2>7, <2>8, <2>10, ImagesTornDown DEF CarefulInv
    <3>2. UniqueIds'
          BY <3>1, IdsAfterReleases DEF CarefulInv
    <3>3. QED
          BY <2>4, <2>5, <3>1, <3>2 DEF CarefulInv
  <2>11. QED
         BY <2>7, <2>9, <2>10
<1>8. CASE DestroyFactory \/ vaDriverInit
  <2>1. /\ state = "closing" /\ UNCHANGED <<id, buffer_, images_lock, callVars>>
        /\ state' = "running" => \A c \in Contexts : ~Live(c)
    <3>1. vaDriverInit => ~Remains("context")
      <4>1. TeardownOrder[3] = "context" /\ 3 \in DOMAIN TeardownOrder
            BY DEF TeardownOrder
      <4>2. QED
            BY <4>1 DEF vaDriverInit
    <3>2. ~Remains("context") => \A c \in Contexts : ~Live(c)
          BY KindsFacts DEF Remains
    <3>3. QED
          BY <1>8, <3>1, <3>2 DEF DestroyFactory, vaDriverInit
  <2>2. \A t \in Threads : todo[t] = <<>>
        BY <2>1 DEF CarefulInv, ClosingInv
  <2>3. /\ (\A u \in Threads : ThreadInv(u)') /\ Apart' /\ ClosingInv'
        /\ \A t \in Threads : Spares(todo[t])'
        BY <1>0, <2>1, <2>2, NobodyCalls
  <2>4. SlicesInv'
        BY <2>1, <2>3 DEF SlicesInv, Live
  <2>5. UniqueIds' /\ ImagesInv' /\ LockInv'
        BY <1>0, <2>1, ObjectsStay DEF CarefulInv, callVars
  <2>6. QED
        BY <2>3, <2>4, <2>5 DEF CarefulInv
<1>9. QED
      BY <1>1, <1>2, <1>4, <1>5, <1>6, <1>7, <1>8 DEF Next

\* The careful invariant.
LEMMA CarefulInvariant ==
  ASSUME Careful
  PROVE  Spec => []CarefulInv
<1>1. Init => CarefulInv
      BY CarefulInit
<1>2. TypeInv /\ CarefulInv /\ [Next]_vars => CarefulInv'
      BY CarefulStep
<1>3. QED
      BY <1>1, <1>2, TypeInvariant, PTL DEF Spec

\* A set of one.
LEMMA OneMember ==
  ASSUME NEW x, NEW S, S = {x}
  PROVE  x \in S /\ Cardinality(S) = 1
BY FS_Singleton

\* An id names the same object in every step of a careful call, and no other object of
\* its kind, although ids are reused at once: what an entry point looked up at its
\* beginning is what its later calls get and destroy (object_tracker.h, drv_video.cc).
THEOREM LookupsFindTheNamedObjectTheorem ==
  ASSUME Careful
  PROVE  Spec => LookupsFindTheNamedObject
<1> DEFINE Finds(t) ==
             LET step == Head(todo[t])
             IN todo[t] # <<>> /\ step.op \in Lookups \ {"exists"} /\ todo'[t] = Tail(todo[t]) =>
                  step.obj \in Find(step.kind, step.id) /\ Cardinality(Find(step.kind, step.id)) = 1
<1>1. ASSUME TypeInv, CarefulInv, [Next]_vars
      PROVE  [\A t \in Threads : Finds(t)]_vars
  <2>1. ASSUME NEW t \in Threads, todo[t] # <<>>, Head(todo[t]).op \in Lookups
        PROVE  /\ Head(todo[t]).obj \in Find(Head(todo[t]).kind, Head(todo[t]).id)
               /\ Cardinality(Find(Head(todo[t]).kind, Head(todo[t]).id)) = 1
    <3>1. Find(Head(todo[t]).kind, Head(todo[t]).id) = {Head(todo[t]).obj}
          BY <1>1, <2>1, FindsTheObject DEF TypeInv, CarefulInv
    <3>2. QED
          BY <3>1, OneMember
  <2>2. QED
        BY <2>1
<1>2. QED
      BY <1>1, TypeInvariant, CarefulInvariant, PTL DEF Spec, LookupsFindTheNamedObject, Finds

\* Outside the creation or destruction of an image, the buffers made for images are
\* exactly those of the live images, one for each (VSImage::Create and ~VSImage).
THEOREM EveryImageHasItsBufferTheorem ==
  ASSUME Careful
  PROVE  Spec => []EveryImageHasItsBuffer
<1>1. ASSUME TypeInv, CarefulInv PROVE EveryImageHasItsBuffer
  <2> DEFINE live == {m \in Images : Live(m)}
             f == [m \in live |-> buffer_[m]]
  <2>1. SUFFICES ASSUME images_lock = Nil
                 PROVE  IsInjective(f) /\ {buffer_[m] : m \in live} = {b \in Backings : Live(b)}
        BY DEF EveryImageHasItsBuffer
  <2>2. \A u \in Threads : \A x : ~Ending(u, x) /\ ~Starting(u, x)
        BY <1>1, <2>1, NilAssumption DEF CarefulInv, LockInv, Ending, Starting
  <2>3. /\ \A m \in live : Live(buffer_[m]) /\ buffer_[m] \in Backings
        /\ \A b \in Backings : Live(b) => \E m \in live : buffer_[m] = b
        /\ \A m, n \in live : buffer_[m] = buffer_[n] => m = n
        BY <1>1, <2>2 DEF CarefulInv, ImagesInv, TypeInv, ObjectsInv
  <2>4. IsInjective(f)
        BY <2>3 DEF IsInjective
  <2>5. {buffer_[m] : m \in live} = {b \in Backings : Live(b)}
        BY <2>3
  <2>6. QED
        BY <2>4, <2>5
<1>2. QED
      BY <1>1, TypeInvariant, CarefulInvariant, PTL

--------------------------------------------------------------------------------
(* The process lives.                                                        *)

SafeInv ==
  /\ state \in {"running", "closing"}
  /\ ~factory => \A o \in Objects : ~Live(o)
  /\ \A c \in Contexts : Live(c) => config_[c] \in Configs

\* No check fails, and nothing that is gone is used.
LEMMA StepsAreSafe ==
  ASSUME ~Traps, Decodable = Configs, TypeInv, CarefulInv, SafeInv,
         NEW t \in Threads, state = "running", todo[t] # <<>>
  PROVE  Failure(t) = "none"
<1> DEFINE s  == todo[t]
           r  == refs[t]
           op == Head(todo[t]).op
<1>1. /\ s \in Seq(DriverCalls) /\ r \in Seq(Objects) /\ Head(s) = s[1] /\ 1 \in 1..Len(s)
      /\ ThreadInv(t) /\ ObjectsInv /\ CallsInv
      BY NextCall DEF TypeInv, CallsInv, CarefulInv
<1>2. /\ Keeps(s, r, uses[t], owns[t]) /\ Named(s) /\ Alive(r, uses[t]) /\ Drawing(s, r)
      /\ Imaging(s, r, uses[t], owns[t])
      BY <1>1 DEF ThreadInv
<1>3. op # "Trap"
      BY <1>1, <1>2 DEF Keeps
<1>4. ~LooksUpNothing(t)
      BY <1>1, FindsTheObject DEF LooksUpNothing, CarefulInv
<1>5. \A o \in Looked(t) : Live(o)
      BY <1>2 DEF Alive, Looked
<1>6. ASSUME op \in ContextMethods
      PROVE  ~PictureCheckFails(t) /\ ~UsesDeadMember(t)
  <2> DEFINE c == Context(t)
  <2>1. c \in Contexts /\ Live(c) /\ c \in Expected(s, r) \cap Contexts
        BY <1>1, <1>6, PictureContext
  <2>2. ~NoDelegate(c)
        BY <2>1 DEF SafeInv, NoDelegate
  <2> HIDE DEF c
  <2>3. op = "RenderPicture" => slices_[c] = {} /\ render_target_[c] # Nil
        BY <1>1, <1>2, <2>1 DEF Drawing
  <2>4. op = "Run" => slices_[c] # {} /\ pic_param_[c] # Nil /\ ~Dead(slices_[c] \cup {pic_param_[c]})
    <3>1. op = "Run" => slices_[c] # {}
          BY <1>1, <1>2, <2>1 DEF Drawing
    <3>2. slices_[c] # {} => pic_param_[c] \in Params /\ Live(pic_param_[c])
            /\ \A b \in slices_[c] : Live(b)
          BY <2>1 DEF CarefulInv, SlicesInv
    <3>3. Nil \notin Params
          BY KindsApart DEF Objects, Buffers
    <3>4. QED
          BY <3>1, <3>2, <3>3 DEF Dead
  <2>5. op \notin {"GetBuffer", "DestroyBacking"}
        BY <1>6 DEF ContextMethods
  <2>6. QED
        BY <2>2, <2>3, <2>4, <2>5 DEF PictureCheckFails, UsesDeadMember, c
<1>7. ASSUME op \notin ContextMethods
      PROVE  ~PictureCheckFails(t) /\ ~UsesDeadMember(t)
  <2>1. op \notin {"BeginPicture", "RenderPicture", "Run"}
        BY <1>7 DEF ContextMethods
  <2>2. op = "GetBuffer" => Live(buffer_[Last(r)])
    <3>1. SUFFICES ASSUME op = "GetBuffer" PROVE Live(buffer_[Last(r)])
          OBVIOUS
    <3>2. r # <<>> /\ Last(r) \in Images
          BY <1>1, <1>2, <3>1 DEF Keeps, LastIs
    <3>3. Last(r) = r[Len(r)] /\ Len(r) \in 1..Len(r)
          BY <1>1, <3>2 DEF Last
    <3>4. Last(r) \in Expected(s, r)
          BY <3>3 DEF Expected
    <3>5. QED
          BY <1>2, <3>2, <3>4 DEF Imaging, Alive
  <2>3. op = "DestroyBacking" => \A m \in Find("image", Head(s).id) : Live(buffer_[m])
    <3>1. SUFFICES ASSUME op = "DestroyBacking" PROVE \A m \in Find("image", Head(s).id) :
            Live(buffer_[m])
          OBVIOUS
    <3> DEFINE m == Head(s).obj
    <3>2. Head(s).kind = "image"
          BY <1>1, <1>2, <3>1 DEF Keeps
    <3>3. Find("image", Head(s).id) = {m} /\ m \in Images /\ Live(m) /\ m \in owns[t]
          BY <1>1, <3>1, <3>2, FindsTheObject, NextCall, KindsFacts DEF Lookups, Releases,
             CarefulInv
    <3> HIDE DEF m
    <3>4. \A u \in Threads : Ending(u, m) => m \in owns[u] /\ Head(todo[u]).op = "destroy"
          BY <1>1, EndingOwns DEF CarefulInv, Ending, AtImage
    <3>5. \A u \in Threads : ~Ending(u, m)
          BY <3>1, <3>3, <3>4 DEF CarefulInv, Apart
    <3>6. Live(buffer_[m])
          BY <3>3, <3>5 DEF CarefulInv, ImagesInv
    <3>7. QED
          BY <3>3, <3>6
  <2>4. QED
        BY <2>1, <2>2, <2>3 DEF PictureCheckFails, UsesDeadMember, Dead
<1>8. ~UsesDeadReference(t)
      BY <1>5 DEF UsesDeadReference, Dead
<1>9. ~Step(t, "Trap")
      BY <1>3 DEF Step
<1>10. QED
       BY <1>4, <1>6, <1>7, <1>8, <1>9 DEF Failure

\* A context is made with a config.
LEMMA ConfigsStep ==
  ASSUME ObjectsInv, CallsInv, UniqueIds, SafeInv, NEW t \in Threads, ThreadInv(t), DriverStep(t)
  PROVE  \A c \in Contexts : id'[c] # NoId => config_'[c] \in Configs
<1>0. todo[t] # <<>> /\ Contexts \subseteq Objects
      BY StepsProceed DEF Objects
<1>1. ASSUME UNCHANGED config_, \A c \in Contexts : id'[c] # NoId => Live(c)
      PROVE  \A c \in Contexts : id'[c] # NoId => config_'[c] \in Configs
      BY <1>1 DEF SafeInv
<1>2. CASE CreateContext(t)
  <2>1. PICK c \in Contexts : Allocate("context", c) /\ config_' = [config_ EXCEPT ![c] = Last(refs[t])]
        BY <1>2 DEF CreateContext
  <2>2. Last(refs[t]) \in Configs
        BY <1>0, <1>2, LastFacts DEF CreateContext, Step
  <2>3. \A p \in Objects \ {c} : id'[p] = id[p]
        BY <1>0, <2>1, TrackersFacts, AllocateObjects
  <2>4. \A d \in Contexts : config_'[d] = IF d = c THEN Last(refs[t]) ELSE config_[d]
        BY <2>1 DEF ObjectsInv
  <2>5. QED
        BY <1>0, <2>2, <2>3, <2>4 DEF SafeInv, Live
<1>3. CASE ~CreateContext(t)
      BY <1>1, <1>3, ContextsStay
<1>4. QED
      BY <1>2, <1>3

\* Every step of the system keeps the process alive.
LEMMA SafeStep ==
  ASSUME Careful, ~Traps, Decodable = Configs, TypeInv, CarefulInv, SafeInv, [Next]_vars
  PROVE  SafeInv'
<1>0. /\ ObjectsInv /\ CallsInv /\ UniqueIds /\ \A t \in Threads : ThreadInv(t)
      /\ Contexts \subseteq Objects /\ (state = "running" => factory)
      BY DEF TypeInv, DriverInv, CarefulInv, Objects
<1>1. ASSUME UNCHANGED <<id, config_, factory>>, state' \in {"running", "closing"} PROVE SafeInv'
      BY <1>1 DEF SafeInv, Live
<1>2. ASSUME NEW t \in Threads, EntryPoint(t) PROVE SafeInv'
  <2>1. PICK calls, S, X : Call(t, calls, S, X)
        BY <1>0, <1>2, CarefulEntries
  <2>2. QED
        BY <1>1, <2>1 DEF Call, SafeInv, objectVars
<1>3. ASSUME NEW t \in Threads, DriverStep(t) PROVE SafeInv'
  <2>1. state = "running" /\ UNCHANGED state
        BY <1>0, <1>3, StepsProceed
  <2>2. UNCHANGED factory
        BY <1>3 DEF DriverStep, ObjectExists, GetObject, GetMappedBO, GetData, Run, NoOp,
           BeginPicture,
          RenderPicture, RunReturns, DestroyObject, DestroyBacking, DestroyImage, CreateConfigOrSurface,
          CreateContext, CreateBuffer, CreateBacking, CreateImage, objectVars
  <2>3. \A c \in Contexts : id'[c] # NoId => config_'[c] \in Configs
        BY <1>0, <1>3, ConfigsStep
  <2>4. QED
        BY <1>0, <2>1, <2>2, <2>3 DEF SafeInv, Live
<1>4. ASSUME NEW t \in Threads, Die(t) PROVE SafeInv'
      BY <1>4, StepsAreSafe DEF Die
<1>5. CASE vsTerminate
      BY <1>1, <1>5 DEF vsTerminate, objectVars
<1>6. CASE UNCHANGED vars
      BY <1>1, <1>6 DEF vars, objectVars, SafeInv
<1>7. CASE DestroyFactory
  <2>1. \A o \in Objects : ~Live(o)
        BY <1>7, TeardownFacts DEF DestroyFactory
  <2>2. UNCHANGED <<id, config_, state>>
        BY <1>7 DEF DestroyFactory
  <2>3. QED
        BY <2>1, <2>2 DEF SafeInv, Live
<1>8. CASE vaDriverInit
      BY <1>8 DEF vaDriverInit, SafeInv, Live
<1>9. CASE DestroyRemaining
  <2>1. PICK k \in DOMAIN Kind : IsNext(k) /\ \E o \in Kind[k] :
          /\ Live(o)
          /\ IF DestructorFails(o)
             THEN state' = "member" /\ UNCHANGED id
             ELSE /\ id' = [IF o \in Images THEN ReleaseBuffer(o) ELSE id EXCEPT ![o] = NoId]
                  /\ UNCHANGED state
        BY <1>9 DEF DestroyRemaining
  <2>2. PICK o \in Kind[k] :
          /\ Live(o)
          /\ IF DestructorFails(o)
             THEN state' = "member" /\ UNCHANGED id
             ELSE /\ id' = [IF o \in Images THEN ReleaseBuffer(o) ELSE id EXCEPT ![o] = NoId]
                  /\ UNCHANGED state
        BY <2>1
  <2>3. o \in Objects
        BY KindsFacts
  <2>4. UNCHANGED <<objectVars, images_lock, callVars>> /\ \A t \in Threads : todo[t] = <<>>
        BY <1>9 DEF DestroyRemaining, CarefulInv, ClosingInv
  <2>5. UNCHANGED <<buffer_, factory, config_>>
        BY <2>4 DEF objectVars
  <2>6. \A t \in Threads : \A x : ~Ending(t, x) /\ ~Starting(t, x) /\ ~Ending(t, x)' /\ ~Starting(t, x)'
        BY <1>0, <2>4, NobodyCalls
  <2>7. ~DestructorFails(o)
    <3>1. o \in Images => Live(buffer_[o])
          BY <2>2, <2>6 DEF CarefulInv, ImagesInv
    <3>2. factory
          BY <2>2, <2>3 DEF SafeInv
    <3>3. QED
          BY <3>1, <3>2 DEF DestructorFails
  <2>8. id' = [IF o \in Images THEN ReleaseBuffer(o) ELSE id EXCEPT ![o] = NoId] /\ UNCHANGED state
        BY <2>2, <2>7
  <2>9. \A p \in Objects : id'[p] = NoId \/ id'[p] = id[p]
        BY <1>0, <2>1, <2>2, <2>5, <2>6, <2>8, ImagesTornDown DEF CarefulInv
  <2>10. QED
         BY <1>0, <2>5, <2>8, <2>9 DEF SafeInv, Live
<1>10. QED
       BY <1>2, <1>3, <1>4, <1>5, <1>6, <1>7, <1>8, <1>9 DEF Next

\* Whatever the threads of a careful application interleave, no CHECK fails and no dead
\* object is used, from vaInitialize through vaTerminate and back, any number of times:
\* it does not make the calls that always fail, and every config has a delegate.
THEOREM NeverDiesTheorem ==
  ASSUME Careful, ~Traps, Decodable = Configs
  PROVE  Spec => []NeverDies
<1>1. Init => SafeInv
      BY DEF Init, SafeInv, Live, Objects
<1>2. TypeInv /\ CarefulInv /\ SafeInv /\ [Next]_vars => SafeInv'
      BY SafeStep
<1>3. SafeInv => NeverDies
      BY DEF SafeInv, NeverDies, Died
<1>4. QED
      BY <1>1, <1>2, <1>3, TypeInvariant, CarefulInvariant, PTL DEF Spec

--------------------------------------------------------------------------------
(* Each context calls its delegate as ContextDelegate says.                  *)

\* While a delegate runs, its context is there, drawn in by that thread, and has slices.
RunsInv ==
  \A t \in Threads, c \in Contexts :
    InRun(t, c) => Live(c) /\ slices_[c] # {} /\ c = Context(t) /\ c \in uses[t] \cup owns[t]

\* It follows from what a careful application keeps to.
LEMMA RunsAreCareful == TypeInv /\ CarefulInv => RunsInv
<1> SUFFICES ASSUME TypeInv, CarefulInv, NEW t \in Threads, NEW c \in Contexts, InRun(t, c)
             PROVE  Live(c) /\ slices_[c] # {} /\ c = Context(t) /\ c \in uses[t] \cup owns[t]
    BY DEF RunsInv
<1> DEFINE s == todo[t]
           r == refs[t]
<1>1. CallsInv /\ ThreadInv(t) /\ s # <<>> /\ Head(s).op = "RunReturns" /\ c \in Looked(t)
      BY DEF TypeInv, CarefulInv, InRun
<1>2. Head(s) = s[1] /\ 1 \in 1..Len(s)
      BY <1>1, NextCall
<1>3. Keeps(s, r, uses[t], owns[t]) /\ Drawing(s, r) /\ Alive(r, uses[t])
      BY <1>1 DEF ThreadInv
<1> HIDE DEF s, r
<1>4. PICK n \in 1..Len(r) : r[n] = c
      BY <1>1 DEF Looked, r
<1>5. c \in Expected(s, r) \cap Contexts
      BY <1>4 DEF Expected
<1>6. Live(c) /\ c \in uses[t] \cup owns[t]
      BY <1>3, <1>4 DEF Alive, Keeps
<1>7. slices_[c] # {}
      BY <1>1, <1>2, <1>3, <1>5 DEF Drawing
<1>8. Context(t) \in Expected(s, r) \cap Contexts
      BY <1>1, PictureContext DEF ContextMethods, s, r
<1>9. c = Context(t)
  <2>1. PICK d \in Contexts : Expected(s, r) \cap Contexts = {d}
        BY <1>1, <1>2, <1>3 DEF Keeps, ContextMethods
  <2>2. QED
        BY <1>5, <1>8, <2>1
<1>10. QED
       BY <1>6, <1>7, <1>9

\* What a step of an entry point does to a context.
Kept(t, c)  ==
  id'[c] = id[c] /\ slices_'[c] = slices_[c] /\ render_target_'[c] = render_target_[c] /\ ~InRun(t, c)
Made(c)     == ~Live(c) /\ slices_'[c] = {} /\ render_target_'[c] = Nil
Gone(t, c)  ==
  id'[c] = NoId /\ UNCHANGED <<slices_, render_target_>> /\ c \in owns[t] /\ ~InRun(t, c)
Drawn(t, c) == c = Context(t) /\ (BeginPicture(t) \/ RenderPicture(t) \/ RunReturns(t))

LEMMA ContextStep ==
  ASSUME ObjectsInv, CallsInv, UniqueIds, ~no_op, NEW t \in Threads, ThreadInv(t), DriverStep(t),
         NEW c \in Contexts, InRun(t, c) => c = Context(t)
  PROVE  Kept(t, c) \/ Made(c) \/ Gone(t, c) \/ Drawn(t, c)
<1>0. /\ state = "running" /\ todo[t] # <<>>
      /\ c \in Objects /\ c \notin Configs \cup Surfaces \cup Images \cup Buffers
      BY StepsProceed, KindsApart DEF Objects
<1>1. ASSUME NEW k \in Kinds, NEW o \in Objects, o # c, Allocate(k, o), UNCHANGED <<slices_, render_target_>>,
             Head(todo[t]).op # "RunReturns"
      PROVE  Kept(t, c)
      BY <1>0, <1>1, AllocateObjects DEF Kept, InRun
<1>2. ASSUME UNCHANGED <<id, slices_, render_target_>>, Head(todo[t]).op # "RunReturns"
      PROVE  Kept(t, c)
      BY <1>2 DEF Kept, InRun
<1>3. CASE ObjectExists(t) \/ GetObject(t) \/ GetData(t) \/ GetMappedBO(t) \/ Run(t)
      BY <1>2, <1>3 DEF ObjectExists, GetObject, GetData, GetMappedBO, Run, Step, objectVars
<1>4. ~NoOp(t)
      BY DEF NoOp
<1>5. CASE CreateConfigOrSurface(t)
  <2>1. PICK k \in {"config", "surface"} : \E o \in Kind[k] : Allocate(k, o)
        BY <1>5 DEF CreateConfigOrSurface
  <2>2. PICK o \in Kind[k] : Allocate(k, o)
        BY <2>1
  <2>3. k \in Kinds /\ o \in Objects /\ o # c
        BY <1>0, <2>2, KindsFacts, TrackersFacts
  <2>4. QED
        BY <1>1, <1>5, <2>2, <2>3 DEF CreateConfigOrSurface, Step, objectVars
<1>6. CASE CreateBuffer(t)
  <2>1. PICK k \in {"param", "slice"} : \E o \in Kind[k] : Allocate("buffer", o)
        BY <1>6 DEF CreateBuffer
  <2>2. PICK o \in Kind[k] : Allocate("buffer", o)
        BY <2>1
  <2>3. "buffer" \in Kinds /\ o \in Objects /\ o # c
        BY <1>0, <2>2, KindsFacts, OpsFacts DEF Buffers
  <2>4. QED
        BY <1>1, <1>6, <2>2, <2>3 DEF CreateBuffer, Step, objectVars
<1>7. CASE CreateBacking(t)
  <2>1. PICK b \in Backings : Allocate("buffer", b)
        BY <1>7 DEF CreateBacking
  <2>2. "buffer" \in Kinds /\ b \in Objects /\ b # c
        BY <1>0, <2>1, TrackersFacts DEF Buffers, Objects
  <2>3. QED
        BY <1>1, <1>7, <2>1, <2>2 DEF CreateBacking, Step, objectVars
<1>8. CASE CreateImage(t)
  <2>1. PICK m \in Images : Allocate("image", m)
        BY <1>8 DEF CreateImage
  <2>2. "image" \in Kinds /\ m \in Objects /\ m # c
        BY <1>0, <2>1, TrackersFacts DEF Objects
  <2>3. UNCHANGED <<slices_, render_target_>> /\ Head(todo[t]).op # "RunReturns"
        BY <1>8 DEF CreateImage, Step
  <2>4. QED
        BY <1>1, <2>1, <2>2, <2>3
<1>9. CASE CreateContext(t)
  <2>1. PICK d \in Contexts :
          /\ Allocate("context", d)
          /\ render_target_' = [render_target_ EXCEPT ![d] = Nil]
          /\ slices_' = [slices_ EXCEPT ![d] = {}]
        BY <1>9 DEF CreateContext
  <2>2. CASE d = c
        BY <2>1, <2>2 DEF Made, Allocate, Fresh, ObjectsInv
  <2>3. CASE d # c
    <3>1. "context" \in Kinds /\ d \in Objects
          BY TrackersFacts DEF Objects
    <3>2. id'[c] = id[c]
          BY <1>0, <2>1, <2>3, <3>1, AllocateObjects
    <3>3. slices_'[c] = slices_[c] /\ render_target_'[c] = render_target_[c]
          BY <2>1, <2>3 DEF ObjectsInv
    <3>4. ~InRun(t, c)
          BY <1>9 DEF CreateContext, Step, InRun
    <3>5. QED
          BY <3>2, <3>3, <3>4 DEF Kept
  <2>4. QED
        BY <2>2, <2>3
<1>10. CASE DestroyObject(t) \/ DestroyImage(t)
  <2>1. PICK o \in Find(Head(todo[t]).kind, Head(todo[t]).id) : id' = [id EXCEPT ![o] = NoId]
        BY <1>10 DEF DestroyObject, DestroyImage
  <2>2. Head(todo[t]).op = "destroy" /\ UNCHANGED objectVars
        BY <1>10 DEF DestroyObject, DestroyImage, Step
  <2>3. o = Head(todo[t]).obj /\ o \in owns[t]
        BY <1>0, <2>1, <2>2, FindsTheObject, NextCall DEF Lookups, Releases
  <2>4. id'[c] = IF c = o THEN NoId ELSE id[c]
        BY <1>0, <2>1, ReleaseObjects
  <2>5. QED
        BY <2>2, <2>3, <2>4 DEF Kept, Gone, InRun, objectVars
<1>11. CASE DestroyBacking(t)
  <2>1. PICK m \in Find("image", Head(todo[t]).id) : id' = ReleaseBuffer(m)
        BY <1>11 DEF DestroyBacking
  <2>2. Head(todo[t]).op = "DestroyBacking" /\ UNCHANGED objectVars
        BY <1>11 DEF DestroyBacking, Step
  <2>3. buffer_[m] # c
    <3>1. m \in Images
          BY <2>1, KindsFacts DEF Find
    <3>2. buffer_[m] \in Buffers \cup {Nil} /\ Nil \notin Objects
          BY <3>1, KindsApart DEF ObjectsInv, Buffers
    <3>3. QED
          BY <1>0, <3>2
  <2>4. id'[c] = id[c]
        BY <1>0, <2>1, <2>3, ReleaseObjects DEF ReleaseBuffer
  <2>5. QED
        BY <2>2, <2>4 DEF Kept, InRun, objectVars
<1>12. CASE BeginPicture(t) \/ RenderPicture(t) \/ RunReturns(t)
  <2>1. CASE c = Context(t)
        BY <1>12, <2>1 DEF Drawn
  <2>2. CASE c # Context(t)
        BY <1>12, <2>2 DEF Kept, BeginPicture, RenderPicture, RunReturns, ObjectsInv
  <2>3. QED
        BY <2>1, <2>2
<1>13. QED
       BY <1>3, <1>4, <1>5, <1>6, <1>7, <1>8, <1>9, <1>10, <1>11, <1>12 DEF DriverStep

\* What each context's delegate and its callers promise, in one step.
Contract(c) == [DelegateOf(c)!Next]_(DelegateOf(c)!vars)

\* A step that leaves a context and its delegate alone.
Unseen(c) == UNCHANGED <<Phase(c), Target(c), Enqueued(c), Executed(c)>>

LEMMA UnseenKeeps == ASSUME NEW c, Unseen(c) PROVE Contract(c)
BY DEF Unseen, Contract, DelegateOf!vars

\* The threads in Run of a delegate are those that were, but for the one that moves.
LEMMA OthersRun ==
  ASSUME CallsInv, NEW t \in Threads, todo[t] # <<>>, GivesUp(t) \/ \E r2, S : Goes(t, r2, S),
         NEW u \in Threads, u # t, NEW c
  PROVE  InRun(u, c)' <=> InRun(u, c)
<1>1. todo'[u] = todo[u] /\ refs'[u] = refs[u]
      BY CallsOfOthers
<1>2. QED
      BY <1>1 DEF InRun, Looked

\* A step of an entry point of a careful application is one of the contract of each delegate.
LEMMA DriverStepKeepsContract ==
  ASSUME TypeInv, CarefulInv, RunsInv, RunsInv', ~no_op, NEW t \in Threads, DriverStep(t),
         state = "running", state' = "running", NEW c \in Contexts
  PROVE  Contract(c)
<1>0. /\ ObjectsInv /\ CallsInv /\ UniqueIds /\ Apart /\ \A u \in Threads : ThreadInv(u)
      /\ todo[t] # <<>> /\ (GivesUp(t) \/ \E r2, S : Goes(t, r2, S))
      /\ slices_ \in [Contexts -> SUBSET Slices] /\ render_target_ \in [Contexts -> Surfaces \cup {Nil}]
      BY StepsProceed, Effects DEF TypeInv, CarefulInv, ObjectsInv
<1>1. /\ \A u \in Threads : InRun(u, c) => Live(c) /\ slices_[c] # {} /\ c = Context(u) /\ c \in uses[u] \cup owns[u]
      /\ \A u \in Threads : InRun(u, c)' => Live(c)' /\ slices_'[c] # {}
      BY DEF RunsInv
<1>2. \A u \in Threads : u # t => (InRun(u, c)' <=> InRun(u, c))
      BY <1>0, OthersRun
<1>3. /\ Phase(c) = IF Running(c) THEN "running" ELSE "idle"
      /\ Phase(c)' = IF Running(c)' THEN "running" ELSE "idle"
      BY DEF Phase, Died
<1>4. CASE Kept(t, c)
  <2>1. Target(c)' = Target(c) /\ Enqueued(c)' = Enqueued(c)
        BY <1>4 DEF Kept, Target, Enqueued, Live
  <2>2. Running(c) => Running(c)'
        BY <1>2, <1>4 DEF Kept, Running
  <2>3. CASE Running(c)' /\ ~Running(c)
    <3>1. Live(c)' /\ slices_'[c] # {}
          BY <1>1, <2>3 DEF Running
    <3>2. Executed(c) = {} /\ Executed(c)' = slices_[c] /\ Enqueued(c) = slices_[c] /\ slices_[c] # {}
          BY <1>4, <2>3, <3>1 DEF Kept, Executed, Enqueued, Live
    <3>3. DelegateOf(c)!Run
          BY <1>3, <2>1, <2>3, <3>2 DEF DelegateOf!Run
    <3>4. QED
          BY <3>3 DEF Contract, DelegateOf!Next
  <2>4. CASE Running(c)' <=> Running(c)
    <3>1. Executed(c)' = Executed(c)
          BY <1>4, <2>4 DEF Kept, Executed
    <3>2. QED
          BY <1>3, <2>1, <2>4, <3>1, UnseenKeeps DEF Unseen
  <2>5. QED
        BY <2>2, <2>3, <2>4
<1>5. ASSUME Enqueued(c) = {} \/ slices_[c] = {} \/ ~Live(c) PROVE ~Running(c)
      BY <1>1, <1>5 DEF Enqueued, Running
<1>6. CASE Made(c)
  <2>1. ~Running(c) /\ ~Running(c)'
        BY <1>1, <1>6 DEF Made, Running
  <2>2. /\ Target(c) = Nil /\ Target(c)' = Nil /\ Enqueued(c) = {} /\ Enqueued(c)' = {}
        /\ Executed(c) = {} /\ Executed(c)' = {}
        BY <1>6, <2>1 DEF Made, Target, Enqueued, Executed
  <2>3. QED
        BY <1>3, <2>1, <2>2, UnseenKeeps DEF Unseen
<1>7. CASE Gone(t, c)
  <2>1. ~Running(c)
    <3>1. ASSUME NEW u \in Threads, InRun(u, c) PROVE FALSE
      <4>1. u # t
            BY <1>7, <3>1 DEF Gone
      <4>2. c \in uses[u] \cup owns[u]
            BY <1>1, <3>1
      <4>3. QED
            BY <1>0, <1>7, <4>1, <4>2 DEF Gone, Apart
    <3>2. QED
          BY <3>1 DEF Running
  <2>2. ~Live(c)'
        BY <1>7 DEF Gone, Live
  <2>3. ~Running(c)'
        BY <1>1, <2>2 DEF Running
  <2>4. Target(c)' = Nil /\ Enqueued(c)' = {} /\ Executed(c) = {} /\ Executed(c)' = {}
        BY <2>1, <2>2, <2>3 DEF Target, Enqueued, Executed
  <2>5. DelegateOf(c)!Replaced
        BY <1>3, <2>1, <2>3, <2>4 DEF DelegateOf!Replaced, DelegateOf!NoFrames
  <2>6. QED
        BY <2>5 DEF Contract, DelegateOf!Next
<1>8. CASE Drawn(t, c)
  <2> DEFINE s == todo[t]
             r == refs[t]
  <2>1. /\ c = Context(t) /\ Head(s).op \in ContextMethods
        /\ UNCHANGED id
        BY <1>8 DEF Drawn, BeginPicture, RenderPicture, RunReturns, Step, ContextMethods
  <2>2. /\ Live(c) /\ Live(c)' /\ c \in Looked(t) /\ c \in Expected(s, r) \cap Contexts
        BY <1>0, <2>1, PictureContext DEF Live
  <2>3. /\ Head(s) = s[1] /\ 1 \in 1..Len(s) /\ Drawing(s, r) /\ Shape(s, r)
        BY <1>0, NextCall DEF ThreadInv, CallsInv
  <2> HIDE DEF s, r
  <2>4. CASE BeginPicture(t)
    <3>1. Head(s).op = "BeginPicture" /\ slices_' = slices_ /\ render_target_'[c] = Last(r)
          BY <1>0, <2>1, <2>4 DEF BeginPicture, Step, s, r
    <3>2. slices_[c] = {} /\ Last(r) \in Surfaces
          BY <2>2, <2>3, <3>1 DEF Drawing, Shape, LastIs
    <3>3. ~Running(c) /\ ~Running(c)'
          BY <1>1, <3>1, <3>2 DEF Running
    <3>4. /\ Target(c)' = Last(r) /\ Enqueued(c) = {} /\ Enqueued(c)' = {}
          /\ Executed(c) = {} /\ Executed(c)' = {}
          BY <2>2, <3>1, <3>2, <3>3 DEF Target, Enqueued, Executed
    <3>5. DelegateOf(c)!SetRenderTarget(Last(r))
          BY <1>3, <3>3, <3>4 DEF DelegateOf!SetRenderTarget
    <3>6. QED
          BY <3>2, <3>5 DEF Contract, DelegateOf!Next
  <2>5. CASE RenderPicture(t)
    <3>1. /\ Head(s).op = "RenderPicture" /\ render_target_' = render_target_
          /\ slices_'[c] \in SUBSET Slices
          BY <1>0, <2>1, <2>5 DEF RenderPicture, Step, s
    <3>2. slices_[c] = {} /\ render_target_[c] # Nil
          BY <2>2, <2>3, <3>1 DEF Drawing
    <3>3. ~Running(c) /\ ~Running(c)'
      <4>1. ~Running(c)
            BY <1>5, <3>2
      <4>2. todo'[t] = <<>>
        <5>1. Keeps(s, r, uses[t], owns[t]) /\ s \in Seq(DriverCalls)
              BY <1>0 DEF ThreadInv, CallsInv, s, r
        <5>2. \A j \in 1..Len(s) : ~(1 < j)
              BY <2>3, <3>1, <5>1 DEF Keeps, ContextMethods
        <5>3. Len(s) = 1
              BY <2>3, <5>1, <5>2, TailFacts
        <5>4. Tail(s) = <<>> /\ todo' = [todo EXCEPT ![t] = Tail(s)]
              BY <2>5, <5>1, <5>3, TailFacts DEF RenderPicture, Proceed, s
        <5>5. QED
              BY <1>0, <5>4 DEF CallsInv
      <4>3. QED
            BY <1>2, <4>1, <4>2 DEF Running, InRun
    <3>4. /\ Target(c) # Nil /\ Target(c)' = Target(c)
          /\ Enqueued(c) = {} /\ Enqueued(c)' = slices_'[c]
          /\ Executed(c) = {} /\ Executed(c)' = {}
          BY <2>2, <3>1, <3>2, <3>3 DEF Target, Enqueued, Executed
    <3>5. CASE slices_'[c] = {}
          BY <1>3, <3>3, <3>4, <3>5, UnseenKeeps DEF Unseen
    <3>6. CASE slices_'[c] # {}
      <4>1. DelegateOf(c)!EnqueueWork(slices_'[c])
            BY <1>3, <3>3, <3>4 DEF DelegateOf!EnqueueWork
      <4>2. slices_'[c] \in (SUBSET Buffers) \ {{}}
            BY <3>1, <3>6 DEF Buffers
      <4>3. QED
            BY <4>1, <4>2 DEF Contract, DelegateOf!Next
    <3>7. QED
          BY <3>5, <3>6
  <2>6. CASE RunReturns(t)
    <3>1. Head(s).op = "RunReturns" /\ render_target_' = render_target_ /\ slices_'[c] = {}
          BY <1>0, <2>1, <2>6 DEF RunReturns, Step, s
    <3>2. Running(c) /\ ~Running(c)'
          BY <1>0, <1>1, <2>2, <3>1 DEF Running, InRun, s
    <3>3. /\ Target(c)' = Target(c) /\ Enqueued(c)' = {} /\ Executed(c)' = {}
          BY <2>2, <3>1, <3>2 DEF Target, Enqueued, Executed
    <3>4. DelegateOf(c)!RunReturns
          BY <1>3, <3>2, <3>3 DEF DelegateOf!RunReturns
    <3>5. QED
          BY <3>4 DEF Contract, DelegateOf!Next
  <2>7. QED
        BY <1>8, <2>4, <2>5, <2>6 DEF Drawn
<1>9. QED
      BY <1>0, <1>1, <1>4, <1>6, <1>7, <1>8, ContextStep

\* What an idle delegate sees of the other steps: nothing, or that its context is gone.
LEMMA IdleKeepsContract ==
  ASSUME NEW c, state \notin Died, state' \notin Died, ~Running(c), ~Running(c)',
         id'[c] \in {id[c], NoId}, slices_'[c] = slices_[c], render_target_'[c] = render_target_[c]
  PROVE  Contract(c)
<1>1. Phase(c) = "idle" /\ Phase(c)' = "idle" /\ Executed(c) = {} /\ Executed(c)' = {}
      BY DEF Phase, Executed
<1>2. CASE id'[c] = id[c]
  <2>1. Target(c)' = Target(c) /\ Enqueued(c)' = Enqueued(c)
        BY <1>2 DEF Target, Enqueued, Live
  <2>2. QED
        BY <1>1, <2>1, UnseenKeeps DEF Unseen
<1>3. CASE id'[c] = NoId
  <2>1. Target(c)' = Nil /\ Enqueued(c)' = {}
        BY <1>3 DEF Target, Enqueued, Live
  <2>2. DelegateOf(c)!Replaced
        BY <1>1, <2>1 DEF DelegateOf!Replaced, DelegateOf!NoFrames
  <2>3. QED
        BY <2>2 DEF Contract, DelegateOf!Next
<1>4. QED
      BY <1>2, <1>3

\* A call begins, and no delegate notices.
LEMMA EntryKeepsContract ==
  ASSUME Careful, TypeInv, CarefulInv, state \notin Died, NEW t \in Threads, EntryPoint(t),
         NEW c \in Contexts
  PROVE  Contract(c)
<1>0. ObjectsInv /\ CallsInv
      BY DEF TypeInv
<1>1. PICK calls, S, X : Call(t, calls, S, X) /\ Honest(calls, S, X)
      BY <1>0, CarefulEntries
<1>2. todo[t] = <<>> /\ todo' = [todo EXCEPT ![t] = calls]
      /\ UNCHANGED <<id, slices_, render_target_, refs, state>>
      BY <1>1 DEF EntryPoint, CallConfig, CallSurface, CallContext, CallBuffer, CallPicture, CallImage,
           Ready, Call, objectVars
<1>3. ASSUME NEW u \in Threads PROVE InRun(u, c)' <=> InRun(u, c)
  <2>1. CASE u = t
    <3>1. refs[t] = <<>>
          BY <1>0, <1>2 DEF CallsInv
    <3>2. Looked(t) = {} /\ Looked(t)' = {}
          BY <1>2, <3>1 DEF Looked
    <3>3. QED
          BY <2>1, <3>2 DEF InRun
  <2>2. CASE u # t
    <3>1. todo'[u] = todo[u] /\ refs'[u] = refs[u]
          BY <1>0, <1>2, <2>2 DEF CallsInv
    <3>2. QED
          BY <3>1 DEF InRun, Looked
  <2>3. QED
        BY <2>1, <2>2
<1>4. Running(c)' <=> Running(c)
      BY <1>3 DEF Running
<1>5. Unseen(c)
      BY <1>2, <1>4 DEF Unseen, Phase, Target, Enqueued, Executed, Live
<1>6. QED
      BY <1>5, UnseenKeeps

\* In vsTerminate, and before the first call of the next driver, no delegate runs.
LEMMA TerminateKeepsContract ==
  ASSUME TypeInv, CarefulInv, SafeInv, SafeInv', NEW c \in Contexts,
         vsTerminate \/ DestroyRemaining \/ DestroyFactory \/ vaDriverInit
  PROVE  Contract(c)
<1>1. /\ \A t \in Threads : todo[t] = <<>>
      /\ UNCHANGED <<slices_, render_target_, todo, refs>>
      BY DEF CarefulInv, ClosingInv, vsTerminate, DestroyRemaining, DestroyFactory, vaDriverInit,
           objectVars, callVars
<1>2. ~Running(c) /\ ~Running(c)'
      BY <1>1 DEF Running, InRun
<1>3. state \notin Died /\ state' \notin Died
      BY DEF SafeInv, Died
<1>4. id'[c] \in {id[c], NoId}
  <2>1. CASE vsTerminate \/ DestroyFactory \/ vaDriverInit
        BY <2>1 DEF vsTerminate, DestroyFactory, vaDriverInit
  <2>2. CASE DestroyRemaining
    <3>1. /\ ObjectsInv
          /\ c \in Objects /\ c \notin Images \cup Buffers
          BY KindsApart DEF TypeInv, Objects
    <3>2. PICK k \in DOMAIN Kind : \E o \in Kind[k] :
            /\ Live(o)
            /\ IF DestructorFails(o)
               THEN state' = "member" /\ UNCHANGED id
               ELSE id' = [IF o \in Images THEN ReleaseBuffer(o) ELSE id EXCEPT ![o] = NoId]
          BY <2>2 DEF DestroyRemaining
    <3>3. PICK o \in Kind[k] :
            /\ Live(o)
            /\ IF DestructorFails(o)
               THEN state' = "member" /\ UNCHANGED id
               ELSE id' = [IF o \in Images THEN ReleaseBuffer(o) ELSE id EXCEPT ![o] = NoId]
          BY <3>2
    <3>4. id' = [IF o \in Images THEN ReleaseBuffer(o) ELSE id EXCEPT ![o] = NoId]
          BY <1>3, <3>3 DEF Died
    <3>5. CASE o \in Images
      <4>1. buffer_[o] # c
            BY <3>1, <3>3, <3>5 DEF ObjectsInv, Buffers
      <4>2. QED
            BY <3>1, <3>4, <3>5, <4>1 DEF ReleaseBuffer, ObjectsInv
    <3>6. CASE o \notin Images
          BY <3>1, <3>4, <3>6 DEF ObjectsInv
    <3>7. QED
          BY <3>5, <3>6
  <2>3. QED
        BY <2>1, <2>2
<1>5. QED
      BY <1>1, <1>2, <1>3, <1>4, IdleKeepsContract

\* So every step keeps to it, ...
LEMMA StepsKeepContract ==
  ASSUME Careful, ~Traps, Decodable = Configs, NoOps = {FALSE}, TypeInv, CarefulInv, SafeInv, SafeInv',
         RunsInv, RunsInv', [Next]_vars, NEW c \in Contexts
  PROVE  Contract(c)
<1>0. state \notin Died /\ state' \notin Died /\ ~no_op /\ CallsInv
      BY DEF SafeInv, Died, TypeInv, DriverInv
<1>1. ASSUME NEW t \in Threads, EntryPoint(t) PROVE Contract(c)
      BY <1>0, <1>1, EntryKeepsContract
<1>2. ASSUME NEW t \in Threads, DriverStep(t) PROVE Contract(c)
  <2>1. state = "running" /\ state' = "running"
        BY <1>0, <1>2, StepsProceed
  <2>2. QED
        BY <1>0, <1>2, <2>1, DriverStepKeepsContract
<1>3. ASSUME NEW t \in Threads PROVE ~Die(t)
      BY <1>0, FailureKinds DEF Die
<1>4. CASE UNCHANGED vars
  <2>1. \A u \in Threads : InRun(u, c)' <=> InRun(u, c)
        BY <1>4 DEF vars, callVars, InRun, Looked
  <2>2. Unseen(c)
        BY <1>4, <2>1 DEF vars, objectVars, Unseen, Phase, Target, Enqueued, Executed, Running, Live
  <2>3. QED
        BY <2>2, UnseenKeeps
<1>5. CASE vsTerminate \/ DestroyRemaining \/ DestroyFactory \/ vaDriverInit
      BY <1>5, TerminateKeepsContract
<1>6. QED
      BY <1>1, <1>2, <1>3, <1>4, <1>5 DEF Next

\* ... from the first.
LEMMA ContractInit ==
  ASSUME Init, NEW c \in Contexts
  PROVE  DelegateOf(c)!Init
<1>1. ~Running(c) /\ ~Live(c) /\ state = "running"
      BY DEF Init, Running, InRun, Live, Objects
<1>2. Phase(c) = "idle" /\ Target(c) = Nil /\ Enqueued(c) = {} /\ Executed(c) = {}
      BY <1>1 DEF Phase, Died, Target, Enqueued, Executed
<1>3. QED
      BY <1>2 DEF DelegateOf!Init, DelegateOf!NoFrames

\* However the threads of a careful application interleave, the entry points call the
\* delegate of each context in the order the delegate counts on: a target before work,
\* no new target or work while there is some, Run when there is some, and nothing else
\* until Run has returned (context.cc, drv_video.cc).
THEOREM CallsKeepToContractTheorem ==
  ASSUME Careful, ~Traps, Decodable = Configs, NoOps = {FALSE}
  PROVE  Spec => CallsKeepToContract
<1>1. Init => SafeInv /\ \A c \in Contexts : DelegateOf(c)!Init
      BY ContractInit DEF Init, SafeInv, Live, Objects
<1>2. TypeInv /\ CarefulInv /\ SafeInv /\ [Next]_vars => SafeInv'
      BY SafeStep
<1>3. TypeInv /\ CarefulInv => RunsInv
      BY RunsAreCareful
<1>4. TypeInv /\ CarefulInv /\ SafeInv /\ SafeInv' /\ RunsInv /\ RunsInv' /\ [Next]_vars
        => [\A c \in Contexts : [DelegateOf(c)!Next]_(DelegateOf(c)!vars)]_vars
      BY StepsKeepContract DEF Contract
<1>5. QED
      BY <1>1, <1>2, <1>3, <1>4, TypeInvariant, CarefulInvariant, PTL DEF Spec, CallsKeepToContract
================================================================================
