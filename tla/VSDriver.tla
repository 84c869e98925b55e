------------------------------- MODULE VSDriver -------------------------------
(***************************************************************************)
(* The driver between vaInitialize and vaTerminate: the five trackers of   *)
(* VSDriver (driver.h) and the VA-API entry points of drv_video.cc that    *)
(* use them.  An entry point is a list of VSDriver calls, each of which    *)
(* holds a tracker's lock only for itself; between two of them the other   *)
(* threads of the application may do anything.  Here each such call is a   *)
(* step.  That a tracker behaves as a set of uniquely named objects is     *)
(* what module ObjectTracker establishes; decoding is the subject of       *)
(* module H264DecoderDelegate.                                             *)
(*                                                                         *)
(* Objects are allocations, as in ObjectTracker: an object looked up under *)
(* one id may be gone, and the id may name another object, when it is used. *)
(***************************************************************************)
EXTENDS Integers, Sequences, FiniteSets, SequencesExt

CONSTANTS
  Careful,    \* TRUE if the application keeps to the rules below, see MayCall
  Traps,      \* TRUE if it makes the calls that always fail, for the status of surfaces
  NoOps,      \* what USE_NO_OP_CONTEXT_DELEGATE=1 may be
  Threads,    \* threads of the application
  Configs, Surfaces, Contexts, Images,  \* allocations of each kind of object
  Params,     \* VSBuffers that hold picture parameters
  Slices,     \* VSBuffers that hold slice parameters and slice data
  Backings,   \* VSBuffers that hold the pixels of an image
  Decodable,  \* the configs of the H.264 profiles, which have a delegate
  Mapped,     \* the surfaces that have a buffer object
  Nil         \* a null pointer

Buffers == Params \cup Slices \cup Backings
Objects == Configs \cup Surfaces \cup Contexts \cup Images \cup Buffers

ASSUME FlagsAssumption     == Careful \in BOOLEAN /\ Traps \in BOOLEAN /\ NoOps \subseteq BOOLEAN
ASSUME DecodableAssumption == Decodable \subseteq Configs
ASSUME MappedAssumption    == Mapped \subseteq Surfaces
ASSUME NilAssumption       == Nil \notin Objects \cup Threads
ASSUME ObjectsAssumption   == IsFiniteSet(Objects)

\* An allocation holds objects of one kind only.
ASSUME KindsAssumption ==
  LET kinds == <<Configs, Surfaces, Contexts, Images, Params, Slices, Backings>>
  IN \A i, j \in DOMAIN kinds : i # j => kinds[i] \cap kinds[j] = {}

VARIABLES
  id,              \* the id of each live object, NoId for one that is not live
  config_,         \* VSContext::config_
  render_target_,  \* the surface last given to a context's delegate
  pic_param_,      \* the picture parameters its delegate points to
  slices_,         \* the slice buffers its delegate points to
  buffer_,         \* VSImage::buffer_
  no_op,           \* TRUE if contexts get a NoOpContextDelegate
  factory,         \* TRUE while scoped_bo_mapping_factory_ exists
  images_lock,     \* the thread that creates or destroys an image, or Nil
  todo,            \* the driver calls each thread's entry point still makes
  refs,            \* the references it has got from them
  uses,            \* the objects it was called with
  owns,            \* what no other call may use meanwhile, see MayCall
  state            \* "running" or "closing"; or why the process died

objectVars == <<config_, render_target_, pic_param_, slices_, buffer_, no_op, factory>>
callVars   == <<todo, refs, uses, owns>>
vars       == <<id, objectVars, images_lock, callVars, state>>

MaxObjects == Cardinality(Objects)  \* ids stay below this bound
Ids  == 0..MaxObjects
NoId == -1

Kind == [config |-> Configs, surface |-> Surfaces, context |-> Contexts,
         buffer |-> Buffers, image |-> Images,
         param |-> Params, slice |-> Slices, backing |-> Backings]

Died == {"check", "reference", "member"}

\* The methods of VSDriver, one of each for each kind of object, ...
Methods == {"create", "exists", "get", "destroy"}

\* ... those of a VSContext, of which EndPicture takes two steps, ...
ContextMethods == {"BeginPicture", "RenderPicture", "Run", "RunReturns"}

\* ... and what else an entry point does that matters.
OtherMethods == {"GetData", "GetBuffer", "GetMappedBO", "CreateBacking", "DestroyBacking", "Trap"}

TypeOK ==
  /\ id \in [Objects -> Ids \cup {NoId}]
  /\ config_ \in [Contexts -> Configs \cup {Nil}]
  /\ render_target_ \in [Contexts -> Surfaces \cup {Nil}]
  /\ pic_param_ \in [Contexts -> Params \cup {Nil}]
  /\ slices_ \in [Contexts -> SUBSET Slices]
  /\ buffer_ \in [Images -> Backings \cup {Nil}]
  /\ no_op \in NoOps
  /\ factory \in BOOLEAN /\ (state = "running" => factory)
  /\ images_lock \in Threads \cup {Nil}
  /\ \A t \in Threads :
       /\ \A i \in DOMAIN todo[t] :
            /\ todo[t][i].op \in Methods \cup ContextMethods \cup OtherMethods
            /\ todo[t][i].kind \in DOMAIN Kind
       /\ refs[t] \in Seq(Objects)
       /\ uses[t] \subseteq Objects
       /\ owns[t] \subseteq Objects \cup {<<c>> : c \in Contexts}
       /\ todo[t] = <<>> => refs[t] = <<>> /\ uses[t] = {} /\ owns[t] = {}
  /\ state \in {"running", "closing"} \cup Died

Init ==
  /\ id = [o \in Objects |-> NoId]
  /\ config_ = [c \in Contexts |-> Nil]
  /\ render_target_ = [c \in Contexts |-> Nil]
  /\ pic_param_ = [c \in Contexts |-> Nil]
  /\ slices_ = [c \in Contexts |-> {}]
  /\ buffer_ = [m \in Images |-> Nil]
  /\ no_op \in NoOps
  /\ factory = TRUE
  /\ images_lock = Nil
  /\ todo = [t \in Threads |-> <<>>]
  /\ refs = [t \in Threads |-> <<>>]
  /\ uses = [t \in Threads |-> {}]
  /\ owns = [t \in Threads |-> {}]
  /\ state = "running"

--------------------------------------------------------------------------------
(* The trackers.                                                            *)

Live(o)    == id[o] # NoId
Find(k, i) == {o \in Kind[k] : id[o] = i}

\* Mutants: an id can be given twice; the bound on the ids is given.
ZeroId(k)       == 0
IdPastTheEnd(k) == MaxObjects + 1

\* The smallest id no live object of the kind has.
FreeId(k) == CHOOSE i \in Ids : Find(k, i) = {} /\ \A j \in 0..(i - 1) : Find(k, j) # {}

\* Somebody still has a pointer or a reference to o.
Referenced(o) ==
  \/ \E t \in Threads : o \in uses[t] \cup owns[t] \/ \E n \in 1..Len(refs[t]) : refs[t][n] = o
  \/ \E c \in Contexts :
       Live(c) /\ o \in {config_[c], render_target_[c], pic_param_[c]} \cup slices_[c]
  \/ \E m \in Images : Live(m) /\ buffer_[m] = o

Fresh(o) == ~Live(o) /\ ~Referenced(o)

--------------------------------------------------------------------------------
(* The entry points of drv_video.cc, as the lists of what they do.  The      *)
(* arguments are names: the id that is passed and the object that is meant,  *)
(* which the driver does not see.                                            *)

Op(op, k, name)  == [op |-> op, kind |-> k, id |-> name.id, obj |-> name.obj]
Anonymous        == [id |-> NoId, obj |-> Nil]
Exists(k, name)  == Op("exists", k, name)       \* CHECK(fdrv->XExists(id))
Get(k, name)     == Op("get", k, name)          \* fdrv->GetX(id)
Destroy(k, name) == Op("destroy", k, name)      \* fdrv->DestroyX(id)
Create(k)        == Op("create", k, Anonymous)  \* fdrv->CreateX(...)
Do(op)           == Op(op, "context", Anonymous)

vsCreateConfig == <<Create("config")>>
vsDestroyConfig(config) == <<Destroy("config", config)>>
vsQueryConfigAttributes(config)  == <<Get("config", config), Do("GetData")>>
vsQuerySurfaceAttributes(config) == <<Exists("config", config)>>

vsCreateSurfaces2(n) == [i \in 1..n |-> Create("surface")]
vsCreateSurfaces(n)  == vsCreateSurfaces2(n)  \* with no attributes
vsDestroySurfaces(list) == [i \in 1..Len(list) |-> Destroy("surface", list[i])]

vsCreateContext(config, targets) ==
  <<Exists("config", config)>>
    \o [i \in 1..Len(targets) |-> Exists("surface", targets[i])]
    \o <<Get("config", config), Create("context")>>
vsDestroyContext(context) == <<Destroy("context", context)>>

vsCreateBuffer(context, kind) == <<Exists("context", context), Create(kind)>>
vsMapBuffer(buffer) == <<Get("buffer", buffer), Do("GetData")>>
vsDestroyBuffer(buffer) == <<Destroy("buffer", buffer)>>

vsBeginPicture(context, target) ==
  <<Exists("surface", target), Exists("context", context),
    Get("context", context), Get("surface", target), Do("BeginPicture")>>

vsRenderPicture(context, list) ==
  <<Exists("context", context)>>
    \o [i \in 1..(2 * Len(list)) |-> IF i % 2 = 1 THEN Exists("buffer", list[(i + 1) \div 2])
                                                 ELSE Get("buffer", list[i \div 2])]
    \o <<Get("context", context), Do("RenderPicture")>>

vsEndPicture(context) ==
  <<Exists("context", context), Get("context", context), Do("Run"), Do("RunReturns")>>

\* These look the surface up and do nothing with it.
vsSyncSurface(target)         == <<Exists("surface", target)>>
vsPutSurface(surface)         == <<Exists("surface", surface)>>
vsPutImage(surface, image)    == <<Exists("surface", surface)>>
vsDeriveImage(surface)        == <<Exists("surface", surface)>>

\* CHECK(false)
vsQuerySurfaceStatus    == <<Do("Trap")>>
vsAssociateSubpicture   == <<Do("Trap")>>
vsDeassociateSubpicture == <<Do("Trap")>>

vsCreateImage == <<Op("CreateBacking", "backing", Anonymous), Create("image")>>
vsDestroyImage(image) == <<Op("DestroyBacking", "image", image), Destroy("image", image)>>

vsGetImage(surface, image) ==
  <<Exists("surface", surface), Get("surface", surface), Exists("image", image),
    Do("GetMappedBO"), Get("image", image), Do("GetBuffer")>>

--------------------------------------------------------------------------------
(* The application calls an entry point.  A careful one passes ids it got    *)
(* and has not destroyed; never destroys an object another call is using; uses *)
(* a context in one thread at a time (context.h:22-26), a picture being begun, *)
(* rendered and ended in this order (context_delegate.h:50-66); keeps enqueued *)
(* buffers until the picture ends and a render target until its context is     *)
(* gone (context_delegate.h:42-44 and 59-60); leaves an image's buffer to the  *)
(* image.  A careless one passes any id at any time.  With the delegates that    *)
(* do nothing the order of a picture's calls leaves no trace to go by: the      *)
(* rules are for NoOps = {FALSE}.                                              *)

Names(k) ==
  IF Careful THEN {[id |-> id[o], obj |-> o] : o \in {p \in Kind[k] : Live(p)}}
  ELSE {[id |-> i, obj |-> Nil] : i \in 0..Cardinality(Kind[k])}

Lists(S, n) == {list \in UNION {[1..m -> S] : m \in 1..n} : IsInjective(list)}

Meant(list) == {list[i].obj : i \in 1..Len(list)} \ {Nil}
Delegate(c) == IF Careful THEN {<<c.obj>>} ELSE {}
Backing(m)  == IF Careful THEN {buffer_[m.obj]} ELSE {}

Ready(t) == state = "running" /\ todo[t] = <<>>

MayCall(shared, exclusive) ==
  \A u \in Threads :
    /\ (shared \cup exclusive) \cap owns[u] = {}
    /\ exclusive \cap uses[u] = {}

\* The bound on memory: a call begins when all it creates finds an allocation.
Creations(k, calls) ==
  Cardinality({i \in 1..Len(calls) : calls[i].op \in {"create", "CreateBacking"} /\ calls[i].kind = k})

Room(calls) ==
  \A k \in {calls[i].kind : i \in 1..Len(calls)} :
    Creations(k, calls) > 0 =>
      Creations(k, calls) + MapThenSumSet(LAMBDA u : Creations(k, todo[u]), Threads)
        <= Cardinality({o \in Kind[k] : Fresh(o)})

Call(t, calls, shared, exclusive) ==
  /\ MayCall(shared, exclusive)
  /\ Room(calls)
  /\ todo' = [todo EXCEPT ![t] = calls]
  /\ uses' = [uses EXCEPT ![t] = shared]
  /\ owns' = [owns EXCEPT ![t] = exclusive]
  /\ UNCHANGED <<id, objectVars, images_lock, refs, state>>

CallConfig(t) ==
  /\ Ready(t)
  /\ \/ Call(t, vsCreateConfig, {}, {})
     \/ \E config \in Names("config") :
          \/ Call(t, vsDestroyConfig(config), {}, Meant(<<config>>))
          \/ Call(t, vsQueryConfigAttributes(config), Meant(<<config>>), {})
          \/ Call(t, vsQuerySurfaceAttributes(config), Meant(<<config>>), {})

CallSurface(t) ==
  /\ Ready(t)
  /\ \/ \E n \in 1..2 : Call(t, vsCreateSurfaces2(n), {}, {}) \/ Call(t, vsCreateSurfaces(n), {}, {})
     \/ \E list \in Lists(Names("surface"), 2) :
          /\ Careful => \A c \in Contexts : Live(c) => render_target_[c] \notin Meant(list)
          /\ Call(t, vsDestroySurfaces(list), {}, Meant(list))
     \/ \E target \in Names("surface") :
          \/ \E calls \in {vsSyncSurface(target), vsPutSurface(target), vsDeriveImage(target)} :
               Call(t, calls, Meant(<<target>>), {})
          \/ /\ Traps
             /\ \E calls \in {vsQuerySurfaceStatus, vsAssociateSubpicture, vsDeassociateSubpicture} :
                  Call(t, calls, Meant(<<target>>), {})

CallContext(t) ==
  /\ Ready(t)
  /\ \/ \E config \in Names("config"), targets \in {<<>>} \cup Lists(Names("surface"), 1) :
          Call(t, vsCreateContext(config, targets), Meant(<<config>> \o targets), {})
     \/ \E context \in Names("context") :
          Call(t, vsDestroyContext(context), {}, Meant(<<context>>))

CallBuffer(t) ==
  /\ Ready(t)
  /\ \/ \E context \in Names("context"), kind \in {"param", "slice"} :
          Call(t, vsCreateBuffer(context, kind), Meant(<<context>>), {})
     \/ \E buffer \in Names("buffer") : Call(t, vsMapBuffer(buffer), Meant(<<buffer>>), {})
     \/ \E buffer \in Names("buffer") :
          /\ Careful => /\ buffer.obj \notin Backings
                        /\ \A c \in Contexts : Live(c) /\ slices_[c] # {} =>
                             buffer.obj \notin slices_[c] \cup {pic_param_[c]}
          /\ Call(t, vsDestroyBuffer(buffer), {}, Meant(<<buffer>>))

CallPicture(t) ==
  /\ Ready(t)
  /\ \E context \in Names("context") :
       \/ \E target \in Names("surface") :
            /\ Careful => slices_[context.obj] = {}
            /\ Call(t, vsBeginPicture(context, target), Meant(<<context, target>>), Delegate(context))
       \/ \E list \in Lists(Names("buffer"), 2) :
            /\ Careful => /\ render_target_[context.obj] # Nil /\ slices_[context.obj] = {}
                          /\ Meant(list) \cap Params # {} /\ Meant(list) \cap Slices # {}
            /\ Call(t, vsRenderPicture(context, list), Meant(<<context>> \o list), Delegate(context))
       \/ /\ Careful => slices_[context.obj] # {}
          /\ Call(t, vsEndPicture(context), Meant(<<context>>), Delegate(context))

CallImage(t) ==
  /\ Ready(t)
  /\ \/ Call(t, vsCreateImage, {}, {})
     \/ \E image \in Names("image") :
          Call(t, vsDestroyImage(image), {}, Meant(<<image>>) \cup Backing(image))
     \/ \E surface \in Names("surface"), image \in Names("image") :
          \E calls \in {vsGetImage(surface, image), vsPutImage(surface, image)} :
            Call(t, calls, Meant(<<surface, image>>) \cup Backing(image), {})

--------------------------------------------------------------------------------
(* The steps of the entry points.                                            *)

Step(t, op)   == state = "running" /\ todo[t] # <<>> /\ Head(todo[t]).op = op
Looked(t)     == {refs[t][n] : n \in 1..Len(refs[t])}
Context(t)    == CHOOSE c \in Looked(t) : c \in Contexts
NoDelegate(c) == ~no_op /\ config_[c] \notin Decodable
Dead(S)       == \E o \in S : ~Live(o)

Lookups == {"exists", "get", "destroy", "DestroyBacking"}

\* Looks up an id no object has (CHECK in drv_video.cc and object_tracker.h).
LooksUpNothing(t) ==
  Head(todo[t]).op \in Lookups /\ Find(Head(todo[t]).kind, Head(todo[t]).id) = {}

\* Uses a reference it looked up, and the object is gone.
UsesDeadReference(t) == Head(todo[t]).op \notin Lookups \cup {"Trap"} /\ Dead(Looked(t))

\* Mutant: EnqueueWork without CHECK(render_target_).
TargetNotChecked(t) ==
  LET op == Head(todo[t]).op
      c  == Context(t)
  IN \/ op \in {"BeginPicture", "RenderPicture", "Run"} /\ NoDelegate(c)
     \/ op = "RenderPicture" /\ slices_[c] # {}
     \/ op = "Run" /\ ~no_op /\ pic_param_[c] = Nil

\* A CHECK of VSContext or of the delegate fails.
PictureCheckFails(t) ==
  LET op == Head(todo[t]).op
      c  == Context(t)
  IN \/ op \in {"BeginPicture", "RenderPicture", "Run"} /\ NoDelegate(c)
     \/ op = "RenderPicture" /\ ~no_op /\ (render_target_[c] = Nil \/ slices_[c] # {})
     \/ op = "Run" /\ ~no_op /\ pic_param_[c] = Nil

\* Follows a pointer kept in an object to one that is gone, or uses the first of
\* no slice parameters.
UsesDeadMember(t) ==
  LET op == Head(todo[t]).op
      c  == Context(t)
  IN \/ op = "Run" /\ ~no_op /\ (slices_[c] = {} \/ Dead(slices_[c] \cup {pic_param_[c]}))
     \/ op = "GetBuffer" /\ Dead({buffer_[Last(refs[t])]})
     \/ op = "DestroyBacking" /\ \E m \in Find("image", Head(todo[t]).id) : Dead({buffer_[m]})

Failure(t) ==
  CASE Step(t, "Trap")      -> "check"
    [] LooksUpNothing(t)    -> "check"
    [] UsesDeadReference(t) -> "reference"
    [] OTHER -> CASE PictureCheckFails(t) -> "check"
                  [] UsesDeadMember(t)    -> "member"
                  [] OTHER                -> "none"

Die(t) ==
  /\ state = "running"
  /\ todo[t] # <<>>
  /\ Failure(t) # "none"
  /\ state' = Failure(t)
  /\ UNCHANGED <<id, objectVars, images_lock, callVars>>

\* The step is done; r are the references got so far and S the objects created.
Proceed(t, r, S) ==
  LET last == Len(todo[t]) = 1
  IN /\ Failure(t) = "none"
     /\ todo' = [todo EXCEPT ![t] = Tail(@)]
     /\ refs' = [refs EXCEPT ![t] = IF last THEN <<>> ELSE r]
     /\ uses' = [uses EXCEPT ![t] = IF last THEN {} ELSE @]
     /\ owns' = [owns EXCEPT ![t] = IF last THEN {} ELSE @ \cup S]
     /\ UNCHANGED state

ObjectExists(t) ==
  /\ Step(t, "exists")
  /\ Proceed(t, refs[t], {})
  /\ UNCHANGED <<id, objectVars, images_lock>>

GetObject(t) ==
  /\ Step(t, "get")
  /\ \E o \in Find(Head(todo[t]).kind, Head(todo[t]).id) : Proceed(t, Append(refs[t], o), {})
  /\ UNCHANGED <<id, objectVars, images_lock>>

Allocate(k, o) == Fresh(o) /\ id' = [id EXCEPT ![o] = FreeId(k)]

CreateConfigOrSurface(t) ==
  /\ Step(t, "create")
  /\ \E k \in {"config", "surface"} \cap {Head(todo[t]).kind} : \E o \in Kind[k] :
       Allocate(k, o) /\ Proceed(t, refs[t], {o})
  /\ UNCHANGED <<objectVars, images_lock>>

CreateContext(t) ==
  /\ Step(t, "create")
  /\ Head(todo[t]).kind = "context"
  /\ \E c \in Contexts :
       /\ Allocate("context", c)
       /\ Proceed(t, refs[t], {c})
       /\ config_' = [config_ EXCEPT ![c] = Last(refs[t])]
       /\ render_target_' = [render_target_ EXCEPT ![c] = Nil]
       /\ pic_param_' = [pic_param_ EXCEPT ![c] = Nil]
       /\ slices_' = [slices_ EXCEPT ![c] = {}]
  /\ UNCHANGED <<buffer_, no_op, factory, images_lock>>

CreateBuffer(t) ==
  /\ Step(t, "create")
  /\ \E k \in {"param", "slice"} \cap {Head(todo[t]).kind} :
       \E b \in Kind[k] : Allocate("buffer", b) /\ Proceed(t, refs[t], {b})
  /\ UNCHANGED <<objectVars, images_lock>>

DestroyObject(t) ==
  /\ Step(t, "destroy")
  /\ Head(todo[t]).kind # "image"
  /\ \E o \in Find(Head(todo[t]).kind, Head(todo[t]).id) : id' = [id EXCEPT ![o] = NoId]
  /\ Proceed(t, refs[t], {})
  /\ UNCHANGED <<objectVars, images_lock>>

(***************************************************************************)
(* VSImage::Create creates the image's VSBuffer and ~VSImage destroys it,  *)
(* each while images_ is locked; other threads can use buffers_ meanwhile. *)
(***************************************************************************)
CreateBacking(t) ==
  /\ Step(t, "CreateBacking")
  /\ images_lock = Nil
  /\ images_lock' = t
  /\ \E b \in Backings : Allocate("buffer", b) /\ Proceed(t, <<b>>, {b})
  /\ UNCHANGED objectVars

CreateImage(t) ==
  /\ Step(t, "create")
  /\ Head(todo[t]).kind = "image"
  /\ images_lock' = Nil
  /\ \E m \in Images :
       /\ Allocate("image", m)
       /\ buffer_' = [buffer_ EXCEPT ![m] = Last(refs[t])]
       /\ Proceed(t, refs[t], {m})
  /\ UNCHANGED <<config_, render_target_, pic_param_, slices_, no_op, factory>>

\* Mutant: the destructor leaves the buffer alone.
KeepBuffer(m) == [id EXCEPT ![m] = id[m]]

\* ~VSImage.
ReleaseBuffer(m) == [id EXCEPT ![buffer_[m]] = NoId]

DestroyBacking(t) ==
  /\ Step(t, "DestroyBacking")
  /\ images_lock = Nil
  /\ images_lock' = t
  /\ \E m \in Find("image", Head(todo[t]).id) : id' = ReleaseBuffer(m)
  /\ Proceed(t, refs[t], {})
  /\ UNCHANGED objectVars

DestroyImage(t) ==
  /\ Step(t, "destroy")
  /\ Head(todo[t]).kind = "image"
  /\ images_lock' = Nil
  /\ \E m \in Find("image", Head(todo[t]).id) : id' = [id EXCEPT ![m] = NoId]
  /\ Proceed(t, refs[t], {})
  /\ UNCHANGED objectVars

GetMappedBO(t) ==
  /\ Step(t, "GetMappedBO")
  /\ \/ Last(refs[t]) \in Mapped /\ Proceed(t, refs[t], {})
     \/ /\ Last(refs[t]) \notin Mapped /\ Failure(t) = "none"
        /\ todo' = [todo EXCEPT ![t] = <<>>]
        /\ refs' = [refs EXCEPT ![t] = <<>>]
        /\ uses' = [uses EXCEPT ![t] = {}]
        /\ owns' = [owns EXCEPT ![t] = {}]
        /\ UNCHANGED state
  /\ UNCHANGED <<id, objectVars, images_lock>>

\* The object is read: VSBuffer::GetData in vsMapBuffer, VSImage::GetBuffer in
\* vsGetImage, VSConfig::GetProfile and the like in vsQueryConfigAttributes.
GetData(t) ==
  /\ Step(t, "GetData") \/ Step(t, "GetBuffer")
  /\ Proceed(t, refs[t], {})
  /\ UNCHANGED <<id, objectVars, images_lock>>

(***************************************************************************)
(* The calls of a VSContext and its delegate.                              *)
(***************************************************************************)
BeginPicture(t) ==
  /\ Step(t, "BeginPicture")
  /\ ~no_op
  /\ render_target_' = [render_target_ EXCEPT ![Context(t)] = Last(refs[t])]
  /\ Proceed(t, refs[t], {})
  /\ UNCHANGED <<id, config_, pic_param_, slices_, buffer_, no_op, factory, images_lock>>

RenderPicture(t) ==
  LET c      == Context(t)
      params == {n \in 1..Len(refs[t]) : refs[t][n] \in Params}
  IN /\ Step(t, "RenderPicture")
     /\ ~no_op
     /\ Proceed(t, refs[t], {})
     /\ slices_' = [slices_ EXCEPT ![c] = Looked(t) \cap Slices]
     /\ pic_param_' = [pic_param_ EXCEPT ![c] = IF params = {} THEN @ ELSE refs[t][Max(params)]]
     /\ UNCHANGED <<id, config_, render_target_, buffer_, no_op, factory, images_lock>>

\* Run reads the buffers first; decoding takes long.
Run(t) ==
  /\ Step(t, "Run")
  /\ Proceed(t, refs[t], {})
  /\ UNCHANGED <<id, objectVars, images_lock>>

\* Mutant: the slice buffers stay for the next picture.
RunKeepsSlices(t) ==
  /\ Step(t, "RunReturns")
  /\ ~no_op
  /\ Proceed(t, refs[t], {})
  /\ UNCHANGED <<id, objectVars, images_lock>>

\* Run forgets the slice buffers, not the picture parameters.
RunReturns(t) ==
  /\ Step(t, "RunReturns")
  /\ ~no_op
  /\ Proceed(t, refs[t], {})
  /\ slices_' = [slices_ EXCEPT ![Context(t)] = {}]
  /\ UNCHANGED <<id, config_, render_target_, pic_param_, buffer_, no_op, factory, images_lock>>

\* The methods of NoOpContextDelegate do nothing.
NoOp(t) ==
  /\ \E op \in ContextMethods \ {"Run"} : Step(t, op)
  /\ no_op
  /\ Proceed(t, refs[t], {})
  /\ UNCHANGED <<id, objectVars, images_lock>>

--------------------------------------------------------------------------------
(* vsTerminate deletes the VSDriver when no other entry point runs: its      *)
(* trackers go in the reverse order of their declaration, one object after    *)
(* the other, and the factory of the mappings last; an image takes its buffer *)
(* with it, and a surface returns its mapping to the factory.  A new VSDriver *)
(* starts empty.                                                             *)

vsTerminate ==
  /\ state = "running"
  /\ \A t \in Threads : todo[t] = <<>>
  /\ state' = "closing"
  /\ UNCHANGED <<id, objectVars, images_lock, callVars>>

\* Mutant: the order of declaration.
DeclarationOrder == <<"factory", "config", "surface", "context", "buffer", "image">>

TeardownOrder == <<"image", "buffer", "context", "surface", "config", "factory">>

Remains(k) == IF k = "factory" THEN factory ELSE \E o \in Kind[k] : Live(o)

\* What is destroyed next.
IsNext(k) ==
  /\ Remains(k)
  /\ \E i \in DOMAIN TeardownOrder :
       TeardownOrder[i] = k /\ \A j \in 1..(i - 1) : ~Remains(TeardownOrder[j])

\* What the destructor of o uses is gone.
DestructorFails(o) == (o \in Images /\ ~Live(buffer_[o])) \/ (o \in Mapped /\ ~factory)

DestroyRemaining ==
  /\ state = "closing"
  /\ \E k \in DOMAIN Kind : IsNext(k) /\ \E o \in Kind[k] :
       /\ Live(o)
       /\ IF DestructorFails(o)
          THEN state' = "member" /\ UNCHANGED id
          ELSE /\ id' = [IF o \in Images THEN ReleaseBuffer(o) ELSE id EXCEPT ![o] = NoId]
               /\ UNCHANGED state
  /\ UNCHANGED <<objectVars, images_lock, callVars>>

\* With its GBM device.
DestroyFactory ==
  /\ state = "closing"
  /\ IsNext("factory")
  /\ factory' = FALSE
  /\ UNCHANGED <<id, config_, render_target_, pic_param_, slices_, buffer_, no_op, images_lock,
                 callVars, state>>

vaDriverInit ==
  /\ state = "closing"
  /\ \A i \in DOMAIN TeardownOrder : ~Remains(TeardownOrder[i])
  /\ state' = "running"
  /\ factory' = TRUE
  /\ UNCHANGED <<id, config_, render_target_, pic_param_, slices_, buffer_, no_op, images_lock,
                 callVars>>

--------------------------------------------------------------------------------

EntryPoint(t) ==
  \/ CallConfig(t) \/ CallSurface(t) \/ CallContext(t)
  \/ CallBuffer(t) \/ CallPicture(t) \/ CallImage(t)

DriverStep(t) ==
  \/ ObjectExists(t) \/ GetObject(t) \/ DestroyObject(t)
  \/ CreateConfigOrSurface(t) \/ CreateContext(t) \/ CreateBuffer(t)
  \/ CreateBacking(t) \/ CreateImage(t) \/ DestroyBacking(t) \/ DestroyImage(t)
  \/ GetMappedBO(t) \/ GetData(t)
  \/ BeginPicture(t) \/ RenderPicture(t) \/ Run(t) \/ RunReturns(t) \/ NoOp(t)

Next ==
  \/ \E t \in Threads : EntryPoint(t) \/ DriverStep(t) \/ Die(t)
  \/ vsTerminate
  \/ DestroyRemaining \/ DestroyFactory
  \/ vaDriverInit

Spec == Init /\ [][Next]_vars

--------------------------------------------------------------------------------

\* The application that keeps to the rules never loses the process: whatever its
\* threads interleave, no CHECK fails, every reference a call uses is to a live
\* object, every pointer kept in a context or an image too, also in vsTerminate.
NeverDies == state \notin Died

\* An id names the same object in every step of a call and for as long as the
\* application holds it, although ids are reused at once.
LookupsFindTheNamedObject ==
  [][\A t \in Threads :
       LET step == Head(todo[t])
       IN todo[t] # <<>> /\ step.op \in Lookups \ {"exists"} /\ todo'[t] = Tail(todo[t]) =>
            step.obj \in Find(step.kind, step.id) /\ Cardinality(Find(step.kind, step.id)) = 1]_vars

\* Outside the creation or destruction of an image, the buffers made for images
\* are exactly those of the live images, one for each: none is shared or leaked.
EveryImageHasItsBuffer ==
  images_lock = Nil =>
    LET live == {m \in Images : Live(m)}
    IN /\ IsInjective([m \in live |-> buffer_[m]])
       /\ {buffer_[m] : m \in live} = {b \in Backings : Live(b)}

\* Whatever ids are passed, and in whatever order a picture's calls come, work is
\* enqueued only in a context of a config with a delegate, and it has a target.
WorkHasATarget ==
  \A c \in Contexts : Live(c) /\ slices_[c] # {} => render_target_[c] # Nil /\ ~NoDelegate(c)

\* A picture can be begun in a context of any config the driver created.
EveryConfigDecodes ==
  \A t \in Threads : todo[t] # <<>> /\ Head(todo[t]).op = "BeginPicture" /\ ~Dead(Looked(t)) =>
    ~NoDelegate(Context(t))

--------------------------------------------------------------------------------
(* Each context's delegate, as its callers see it.                           *)

\* t is in Run of the delegate of c.
InRun(t, c) == todo[t] # <<>> /\ Head(todo[t]).op = "RunReturns" /\ c \in Looked(t)
Running(c)  == \E t \in Threads : InRun(t, c)

Phase(c) == IF state \in Died THEN state ELSE IF Running(c) THEN "running" ELSE "idle"

Target(c)   == IF Live(c) THEN render_target_[c] ELSE Nil
Enqueued(c) == IF Live(c) THEN slices_[c] ELSE {}
Executed(c) == IF Running(c) THEN slices_[c] ELSE {}

DelegateOf(c) == INSTANCE ContextDelegate WITH
  Frames <- {}, Unsupported <- {}, frames <- [f \in {} |-> Nil], output <- Nil,
  phase <- Phase(c), target <- Target(c), enqueued <- Enqueued(c), executed <- Executed(c)

\* Whatever the threads of the application interleave, each context's delegate is called
\* as it counts on: with a target before there is work, with no new target or work while
\* there is some, Run when there is some, and nothing else until Run has returned.
CallsKeepToContract ==
  /\ \A c \in Contexts : DelegateOf(c)!Init
  /\ [][\A c \in Contexts : [DelegateOf(c)!Next]_(DelegateOf(c)!vars)]_vars
================================================================================
