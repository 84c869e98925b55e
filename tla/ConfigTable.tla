------------------------------ MODULE ConfigTable ------------------------------
(***************************************************************************)
(* The table of capabilities of the driver and the entry points that read  *)
(* it (drv_video.cc:27-245): what an application is told is supported, and *)
(* the attributes of the configs it creates; and the other queries that    *)
(* fill an array of the application.                                       *)
(*                                                                         *)
(* The value of an attribute is a mask, here the set of its bits.          *)
(***************************************************************************)
EXTENDS Integers, Sequences, FiniteSets, SequencesExt

CONSTANTS
  MAX_CONFIG_ATTRIBUTES,  \* what an array of attributes can hold: 32
  MaxList,                \* bound: the longest list an application passes
  Profiles, Entrypoints, Types, Bits  \* what it asks for

MAX_CAPABILITY_ATTRIBUTES == 5
MAX_PROFILES              == 9
MAX_ENTRYPOINTS           == 8
MAX_IMAGE_FORMATS         == 10
MAX_SUBPIC_FORMATS        == 6
kMaxNumSurfaceAttributes  == 32

ASSUME AttributesAssumption ==
  /\ MAX_CONFIG_ATTRIBUTES \in Nat /\ MAX_CAPABILITY_ATTRIBUTES < MAX_CONFIG_ATTRIBUTES
  /\ MaxList \in Nat /\ MaxList <= MAX_CONFIG_ATTRIBUTES

Attrib(type, value) == [type |-> type, value |-> value]

NotSupported == {"VA_ATTRIB_NOT_SUPPORTED"}

DecodesTo(profile, formats) ==
  [profile |-> profile, entry_point |-> "VLD", attribs |-> <<Attrib("RTFormat", formats)>>]

kCapabilities ==
  <<DecodesTo("AV1Profile0", {"YUV420"}),
    DecodesTo("VP8Version0_3", {"YUV420"}),
    DecodesTo("VP9Profile0", {"YUV420"}),
    DecodesTo("VP9Profile2", {"YUV420", "YUV420_10BPP"}),
    DecodesTo("JPEGBaseline", {"YUV420"}),
    DecodesTo("H264ConstrainedBaseline", {"YUV420"}),
    DecodesTo("H264Main", {"YUV420"}),
    DecodesTo("H264High", {"YUV420"})>>

kSupportedImageFormats == <<"NV12">>

VARIABLES
  config,  \* the VSConfig created last, with the list it was created with
  answer   \* what the last call was and what it returned

vars == <<config, answer>>

None == [op |-> "none"]

VSConfig(profile, entrypoint, attrib_list, list) ==
  [op |-> "config", profile |-> profile, entrypoint |-> entrypoint, attribs |-> attrib_list,
   requested |-> list]

\* An answer written to an array of the application that has a given room.
Written(op, room, list) == [op |-> op, status |-> "SUCCESS", room |-> room, list |-> list]

Init == config = None /\ answer = None

--------------------------------------------------------------------------------

vsQueryConfigProfiles == {c.profile : c \in ToSet(kCapabilities)}

vsQueryConfigEntrypoints(profile) ==
  {c.entry_point : c \in {d \in ToSet(kCapabilities) : d.profile = profile}}

\* Where the table has a profile and entrypoint, and what it has at the first
\* such place, where the loops return.
Matching(profile, entrypoint) ==
  {i \in DOMAIN kCapabilities :
     kCapabilities[i].profile = profile /\ kCapabilities[i].entry_point = entrypoint}

Capability(profile, entrypoint) == kCapabilities[Min(Matching(profile, entrypoint))]

\* Mutant: a profile is found only together with the entrypoint.
NeverFound(profile) == FALSE

ProfileFound(profile) == \E c \in ToSet(kCapabilities) : c.profile = profile

Status(profile, entrypoint) ==
  IF Matching(profile, entrypoint) # {} THEN "SUCCESS"
  ELSE IF ProfileFound(profile) THEN "UNSUPPORTED_ENTRYPOINT"
  ELSE "UNSUPPORTED_PROFILE"

\* Of the entries of a type in the list, the first is given the value.
Reported(capability, list) ==
  [n \in DOMAIN list |->
     LET known == {a \in ToSet(capability.attribs) : a.type = list[n].type}
     IN IF known # {} /\ \A i \in 1..(n - 1) : list[i].type # list[n].type
        THEN CHOOSE a \in known : TRUE
        ELSE Attrib(list[n].type, NotSupported)]

vsGetConfigAttributes(profile, entrypoint, list) ==
  LET status == Status(profile, entrypoint)
  IN [op |-> "GetConfigAttributes", profile |-> profile, entrypoint |-> entrypoint,
      status |-> status,
      list |-> IF status = "SUCCESS" THEN Reported(Capability(profile, entrypoint), list) ELSE list]

\* Mutant: a part of a mask is not accepted.
EqualOnly(value, requested) == value = requested

Accepted(value, requested) == value \cap requested # {} \/ value = requested

Supports(capability, a) ==
  \E b \in ToSet(capability.attribs) : b.type = a.type /\ Accepted(b.value, a.value)

\* The array has MAX_CAPABILITY_ATTRIBUTES elements; those without an initializer
\* are zero, which is an empty mask of RTFormat formats.
AttribList(capability) ==
  capability.attribs
    \o [i \in 1..(MAX_CAPABILITY_ATTRIBUTES - Len(capability.attribs)) |-> Attrib("RTFormat", {})]

\* Mutant: the find_if is left out.
AlwaysAdded(attribs, a) == Append(attribs, a)

Completed(attribs, a) ==
  IF \E b \in ToSet(attribs) : b.type = a.type THEN attribs ELSE Append(attribs, a)

CreateStatus(profile, entrypoint, list) ==
  IF /\ Status(profile, entrypoint) = "SUCCESS"
     /\ \E a \in ToSet(list) : ~Supports(Capability(profile, entrypoint), a)
  THEN "ATTR_NOT_SUPPORTED"
  ELSE Status(profile, entrypoint)

vsCreateConfig(profile, entrypoint, list) ==
  LET status == CreateStatus(profile, entrypoint, list)
  IN /\ answer' = [op |-> "CreateConfig", profile |-> profile, entrypoint |-> entrypoint,
                   status |-> status, list |-> list]
     /\ config' = IF status # "SUCCESS" THEN config
                  ELSE VSConfig(profile, entrypoint,
                                FoldLeft(Completed, list,
                                         AttribList(Capability(profile, entrypoint))), list)

vsQueryConfigAttributes ==
  /\ config # None
  /\ answer' = [op |-> "QueryConfigAttributes", profile |-> config.profile,
                entrypoint |-> config.entrypoint, status |-> "SUCCESS",
                room |-> MAX_CONFIG_ATTRIBUTES, list |-> config.attribs]
  /\ UNCHANGED config

\* What the table has at some places, in its order.
Listed(places) ==
  [n \in 1..Cardinality(places) |->
     kCapabilities[CHOOSE i \in places : Cardinality({j \in places : j <= i}) = n]]

\* Each profile once; std::set has an order of its own.
UniqueProfiles ==
  {i \in DOMAIN kCapabilities :
     \A j \in 1..(i - 1) : kCapabilities[j].profile # kCapabilities[i].profile}

QueryConfigProfiles ==
  /\ answer' = Written("QueryConfigProfiles", MAX_PROFILES,
                       [n \in DOMAIN Listed(UniqueProfiles) |-> Listed(UniqueProfiles)[n].profile])
  /\ UNCHANGED config

\* An entry for each capability, also if two have the same entrypoint.
QueryConfigEntrypoints(profile) ==
  LET listed == Listed({i \in DOMAIN kCapabilities : kCapabilities[i].profile = profile})
  IN /\ answer' = Written("QueryConfigEntrypoints", MAX_ENTRYPOINTS,
                          [n \in DOMAIN listed |-> listed[n].entry_point])
     /\ UNCHANGED config

vsQueryImageFormats ==
  /\ answer' = Written("QueryImageFormats", MAX_IMAGE_FORMATS, kSupportedImageFormats)
  /\ UNCHANGED config

\* There are no subpictures and no display attributes.
vsQuerySubpictureFormats ==
  /\ answer' = Written("QuerySubpictureFormats", MAX_SUBPIC_FORMATS, <<>>)
  /\ UNCHANGED config

SubpictureCalls ==
  {"CreateSubpicture", "DestroySubpicture", "SetSubpictureImage", "SetSubpictureChromakey",
   "SetSubpictureGlobalAlpha"}

DisplayCalls == {"QueryDisplayAttributes", "GetDisplayAttributes", "SetDisplayAttributes"}

Unimplemented(op) ==
  /\ answer' = [op |-> op, status |-> "UNIMPLEMENTED"]
  /\ UNCHANGED config

\* These take any id of a buffer or an image, and do nothing.
Succeeds(op) ==
  /\ answer' = [op |-> op, status |-> "SUCCESS"]
  /\ UNCHANGED config

vsBufferSetNumElements == Succeeds("BufferSetNumElements")
vsUnmapBuffer          == Succeeds("UnmapBuffer")
vsSetImagePalette      == Succeeds("SetImagePalette")

\* Mutant: the number of elements is taken for a result only.
NeverTooFew(num_attribs) == FALSE

TooFew(num_attribs) == num_attribs < kMaxNumSurfaceAttributes

SurfaceAttributes ==
  <<Attrib("PixelFormat", {"NV12"}), Attrib("PixelFormat", {"YV12"}),
    Attrib("MaxWidth", {4096}), Attrib("MaxHeight", {4096})>>

\* With a null array, or with one of num_attribs elements.
vsQuerySurfaceAttributes(null, num_attribs) ==
  /\ config # None
  /\ answer' = IF null \/ TooFew(num_attribs)
               THEN [op |-> "SurfaceAttributesNumber", num_attribs |-> kMaxNumSurfaceAttributes,
                     status |-> IF null THEN "SUCCESS" ELSE "MAX_NUM_EXCEEDED"]
               ELSE Written("QuerySurfaceAttributes", num_attribs, SurfaceAttributes)
  /\ UNCHANGED config

--------------------------------------------------------------------------------

\* A list may name a type more than once.
ListsOf(S) == UNION {[1..n -> S] : n \in 0..MaxList}

Requests  == {Attrib(type, value) : type \in Types, value \in SUBSET Bits}
Questions == {Attrib(type, {}) : type \in Types}  \* the values are written only

\* What an application allocates for surface attributes: a guess, or what it
\* was told.
Rooms ==
  {1, kMaxNumSurfaceAttributes - 1}
    \cup IF answer.op = "SurfaceAttributesNumber" THEN {answer.num_attribs} ELSE {}

Next ==
  \/ \E profile \in Profiles, entrypoint \in Entrypoints :
       \/ \E list \in ListsOf(Requests) : vsCreateConfig(profile, entrypoint, list)
       \/ \E list \in ListsOf(Questions) :
            answer' = vsGetConfigAttributes(profile, entrypoint, list) /\ UNCHANGED config
  \/ \E profile \in Profiles : QueryConfigEntrypoints(profile)
  \/ vsQueryConfigAttributes \/ QueryConfigProfiles \/ vsQueryImageFormats
  \/ vsQuerySubpictureFormats \/ \E op \in SubpictureCalls \cup DisplayCalls : Unimplemented(op)
  \/ vsBufferSetNumElements \/ vsUnmapBuffer \/ vsSetImagePalette
  \/ \E null \in BOOLEAN, num_attribs \in Rooms : vsQuerySurfaceAttributes(null, num_attribs)

Spec == Init /\ [][Next]_vars

--------------------------------------------------------------------------------

\* The places of a list at which a type is first named.
FirstOfEachType(list) ==
  {n \in DOMAIN list : \A i \in 1..(n - 1) : list[i].type # list[n].type}

\* What the three kinds of query say agrees with what can be created: a config of
\* any profile and entrypoint that are listed, and of no other; the errors tell
\* which of the two is not.
CreationAgreesWithQueries ==
  answer.op = "CreateConfig" =>
    LET profile    == answer.profile \in vsQueryConfigProfiles
        entrypoint == answer.entrypoint \in vsQueryConfigEntrypoints(answer.profile)
    IN /\ answer.status \in {"SUCCESS", "ATTR_NOT_SUPPORTED"} <=> entrypoint
       /\ answer.status = "UNSUPPORTED_ENTRYPOINT" <=> profile /\ ~entrypoint
       /\ answer.list = <<>> /\ entrypoint => answer.status = "SUCCESS"

\* A config can be created with any part of a mask that vsGetConfigAttributes
\* reports for a type, and with no value of a type it reports, where it is first
\* named, as not supported (drv_video.cc:141-152 and 176-194).
ReportedValuesAreAccepted ==
  answer.op = "GetConfigAttributes" /\ answer.status = "SUCCESS" =>
    \A n \in FirstOfEachType(answer.list) :
      LET a == answer.list[n]
          Created(value) ==
            CreateStatus(answer.profile, answer.entrypoint, <<Attrib(a.type, value)>>)
      IN IF a.value = NotSupported
         THEN \A value \in SUBSET Bits : Created(value) = "ATTR_NOT_SUPPORTED"
         ELSE \A value \in (SUBSET a.value) \ {{}} : Created(value) = "SUCCESS"

OneOfEachType(list) == IsInjective([i \in DOMAIN list |-> list[i].type])

\* A config has the attributes it was created with, and one more for each type of
\* the capability that was not named, also although the table is padded.
ConfigIsComplete ==
  config # None =>
    /\ IsPrefix(config.requested, config.attribs)
    /\ \A a \in ToSet(Capability(config.profile, config.entrypoint).attribs) :
         \E b \in ToSet(config.attribs) : b.type = a.type
    /\ \A i, j \in (Len(config.requested) + 1)..Len(config.attribs) : i = j
    /\ OneOfEachType(config.requested) => OneOfEachType(config.attribs)

\* No answer is longer than the array it is written to, which the application
\* allocated with the maxima of __vaDriverInit_1_0, or with the number it passes
\* to vsQuerySurfaceAttributes: the loops and the memcpy write without looking,
\* and the list of a config grows with what it was created with.
AnswersFitTheirArrays ==
  "room" \in DOMAIN answer => Len(answer.list) <= answer.room
================================================================================
