--------------------------- MODULE ConfigTable_proofs ---------------------------
(***************************************************************************)
(* Proofs about the table of capabilities and the configs made from it,    *)
(* for everything an application may ask and lists of any length that      *)
(* fits its array.                                                         *)
(***************************************************************************)
EXTENDS ConfigTable, ProofLemmas

--------------------------------------------------------------------------------
(* The table.                                                                *)

Formats(f) == <<Attrib("RTFormat", f)>>

\* Each capability has one attribute, the formats, which are supported.
LEMMA Table ==
  /\ Len(kCapabilities) = 8 /\ DOMAIN kCapabilities = 1..8
  /\ \A i \in 1..8 : \E f : kCapabilities[i].attribs = Formats(f) /\ f # NotSupported
  <1>1. \A p, f : DecodesTo(p, f).attribs = Formats(f)
        BY DEF DecodesTo, Formats
  <1>2. {"YUV420"} # NotSupported /\ {"YUV420", "YUV420_10BPP"} # NotSupported
        BY DEF NotSupported
  <1> DEFINE D(p, f) == DecodesTo(p, f)
             One(c)  == \E f : c.attribs = Formats(f) /\ f # NotSupported
  <1>3. \A p : One(D(p, {"YUV420"})) /\ One(D(p, {"YUV420", "YUV420_10BPP"}))
        BY <1>1, <1>2, Zenon
  <1>4. kCapabilities =
          <<D("AV1Profile0", {"YUV420"}), D("VP8Version0_3", {"YUV420"}),
            D("VP9Profile0", {"YUV420"}), D("VP9Profile2", {"YUV420", "YUV420_10BPP"}),
            D("JPEGBaseline", {"YUV420"}), D("H264ConstrainedBaseline", {"YUV420"}),
            D("H264Main", {"YUV420"}), D("H264High", {"YUV420"})>>
        BY Zenon DEF kCapabilities
  <1> HIDE DEF D, One
  <1>5. Len(kCapabilities) = 8 /\ DOMAIN kCapabilities = 1..8
        BY <1>4
  <1>6. \A i \in 1..8 : One(kCapabilities[i])
    <2>1. One(kCapabilities[1]) /\ One(kCapabilities[2]) /\ One(kCapabilities[3])
          /\ One(kCapabilities[4]) /\ One(kCapabilities[5]) /\ One(kCapabilities[6])
          /\ One(kCapabilities[7]) /\ One(kCapabilities[8])
          BY <1>3, <1>4
    <2>2. QED
          BY <2>1
  <1>7. QED
        BY <1>5, <1>6 DEF One

\* What is found is a capability of the table.
LEMMA CapabilityFacts ==
  ASSUME NEW profile, NEW entrypoint, Matching(profile, entrypoint) # {}
  PROVE  \E f : Capability(profile, entrypoint).attribs = Formats(f) /\ f # NotSupported
  <1>1. Matching(profile, entrypoint) \in SUBSET (1..8)
        BY Table DEF Matching
  <1>2. \E i \in Matching(profile, entrypoint) : \A j \in Matching(profile, entrypoint) : i <= j
        BY <1>1, LeastMember
  <1>3. Min(Matching(profile, entrypoint)) \in Matching(profile, entrypoint)
        BY <1>2 DEF Min
  <1>4. QED
        BY <1>1, <1>3, Table DEF Capability

\* Something is found for what the queries list.
LEMMA MatchingIsListed ==
  ASSUME NEW profile, NEW entrypoint
  PROVE  /\ Matching(profile, entrypoint) # {} <=> entrypoint \in vsQueryConfigEntrypoints(profile)
         /\ ProfileFound(profile) <=> profile \in vsQueryConfigProfiles
         /\ Matching(profile, entrypoint) # {} => ProfileFound(profile)
  BY DEF Matching, vsQueryConfigEntrypoints, vsQueryConfigProfiles, ProfileFound, ToSet

\* The only attribute that is supported is the formats.
LEMMA SupportsFacts ==
  ASSUME NEW c, NEW f, c.attribs = Formats(f), NEW a
  PROVE  Supports(c, a) <=> a.type = "RTFormat" /\ Accepted(f, a.value)
  <1>1. ToSet(Formats(f)) = {Attrib("RTFormat", f)}
        BY DEF ToSet, Formats
  <1>2. Attrib("RTFormat", f).type = "RTFormat" /\ Attrib("RTFormat", f).value = f
        BY DEF Attrib
  <1>3. QED
        BY <1>1, <1>2, Zenon DEF Supports

\* The outcomes of a lookup in the table.
LEMMA StatusFacts ==
  ASSUME NEW profile, NEW entrypoint
  PROVE  /\ Status(profile, entrypoint) = "SUCCESS" <=> Matching(profile, entrypoint) # {}
         /\ Matching(profile, entrypoint) = {} =>
              Status(profile, entrypoint)
                = IF ProfileFound(profile) THEN "UNSUPPORTED_ENTRYPOINT" ELSE "UNSUPPORTED_PROFILE"
  BY DEF Status

--------------------------------------------------------------------------------
(* The attributes of a config.                                               *)


\* Completing a list of formats with formats: nothing is added to a list that is
\* not empty, and the first to one that is.
LEMMA CompletedList ==
  ASSUME NEW A, \A a \in A : a.type = "RTFormat",
         NEW list \in Seq(A), NEW added \in Seq(A), added # <<>>
  PROVE  FoldLeft(Completed, list, added) = IF list = <<>> THEN <<added[1]>> ELSE list
  <1> DEFINE S == Seq(A)
             N == Len(added)
             step == [x \in S \X (1..N) |-> Completed(x[1], added[x[2]])]
             Chosen(iter) ==
               iter = [s \in SUBSET DOMAIN added |->
                         IF s = {} THEN list ELSE Completed(iter[s \ {Max(s)}], added[Max(s)])]
             g == CHOOSE iter : Chosen(iter)
  <1>0. N \in Nat /\ N >= 1 /\ DOMAIN added = 1..N /\ \A n \in 1..N : added[n] \in A
        OBVIOUS
  <1>1. \A l \in S, a \in A : Completed(l, a) \in S
        BY DEF Completed
  <1>2. step \in Steps(S, N)
        BY <1>0, <1>1 DEF Steps
  <1>3. \A l \in S, n \in 1..N : step[<<l, n>>] = Completed(l, added[n])
        OBVIOUS
  <1>4. FoldLeft(Completed, list, added) = g[DOMAIN added]
        BY DEF FoldLeft, MapThenFoldSet
  <1> HIDE DEF N, S, step
  <1>5. Chosen(g)
    <2>1. list \in S
          BY DEF S
    <2>2. PICK iter : IsFold(iter, S, list, N, step)
          BY <1>0, <1>2, <2>1, FoldOnSubsets
    <2>3. Chosen(iter)
      <3>1. ASSUME NEW s \in SUBSET (1..N), s # {}
            PROVE  iter[s] = Completed(iter[s \ {Max(s)}], added[Max(s)])
        <4>1. iter[s] = step[<<iter[s \ {Max(s)}], Max(s)>>]
              BY <2>2, <3>1 DEF IsFold
        <4>2. s \ {Max(s)} \in SUBSET (1..N) /\ Max(s) \in 1..N
              BY <1>0, <3>1, MaxOfIndices
        <4>3. iter[s \ {Max(s)}] \in S
              BY <2>2, <4>2 DEF IsFold
        <4>4. QED
              BY <1>3, <4>1, <4>2, <4>3
      <3>2. iter[{}] = list
            BY <2>2 DEF IsFold
      <3>3. iter = [s \in SUBSET (1..N) |-> iter[s]]
            BY <2>2 DEF IsFold
      <3>4. QED
            BY <1>0, <3>1, <3>2, <3>3
    <2>4. QED
          BY <2>3
  <1> HIDE DEF g
  <1>6. IsFold(g, S, list, N, step)
    <2>1. list \in S
          BY DEF S
    <2>2. DOMAIN g = SUBSET (1..N) /\ g = [s \in SUBSET (1..N) |-> g[s]] /\ g[{}] = list
          BY <1>0, <1>5
    <2>3. ASSUME NEW s \in SUBSET (1..N), s # {}, g[s \ {Max(s)}] \in S
          PROVE  g[s] = step[<<g[s \ {Max(s)}], Max(s)>>]
      <3>1. Max(s) \in 1..N
            BY <1>0, <2>3, MaxOfIndices
      <3>2. g[s] = Completed(g[s \ {Max(s)}], added[Max(s)])
            BY <1>0, <1>5, <2>3
      <3>3. QED
            BY <1>3, <2>3, <3>1, <3>2
    <2>4. QED
          BY <1>0, <1>2, <2>1, <2>2, <2>3, FoldIsTyped
  <1> DEFINE f == [n \in 0..N |-> g[1..n]]
  <1>7. Recursion(f, S, list, N, step)
    <2>1. list \in S
          BY DEF S
    <2>2. QED
          BY <1>0, <1>6, <2>1, FoldIsRecursion
  <1>8. FoldLeft(Completed, list, added) = f[N]
        BY <1>0, <1>4
  <1> HIDE DEF f
  <1> DEFINE result == IF list = <<>> THEN <<added[1]>> ELSE list
  <1>9. f[1] = result
    <2>1. f[1] = Completed(list, added[1])
      <3>1. 1 \in 1..N /\ 1 - 1 = 0 /\ list \in S
            BY <1>0 DEF S
      <3>2. f[1] = step[<<f[0], 1>>] /\ f[0] = list
            BY <1>7, <3>1 DEF Recursion
      <3>3. QED
            BY <1>3, <3>1, <3>2
    <2>2. CASE list = <<>>
      <3>1. ToSet(list) = {}
            BY <2>2, SetOfEmpty
      <3>2. QED
            BY <2>1, <2>2, <3>1 DEF Completed
    <2>3. CASE list # <<>>
      <3>1. list[1] \in ToSet(list) /\ list[1].type = "RTFormat" /\ added[1].type = "RTFormat"
            BY <1>0, <2>3 DEF ToSet
      <3>2. QED
            BY <2>1, <2>3, <3>1 DEF Completed
    <2>4. QED
          BY <2>2, <2>3
  <1>10. result \in S /\ \E b \in ToSet(result) : b.type = "RTFormat"
    <2>1. result \in Seq(A) /\ result # <<>>
          BY <1>0
    <2>2. result[1] \in ToSet(result) /\ result[1].type = "RTFormat"
      <3> HIDE DEF result
      <3>1. QED
            BY <2>1 DEF ToSet
    <2>3. QED
          BY <2>1, <2>2 DEF S
  <1> HIDE DEF result
  <1>11. ASSUME NEW n \in 1..N PROVE Completed(result, added[n]) = result
    <2>1. added[n].type = "RTFormat"
          BY <1>0
    <2>2. QED
          BY <1>10, <2>1 DEF Completed
  <1> DEFINE T == {n \in Nat : n + 1 <= N => f[n + 1] = result}
  <1>12. 0 \in T
        BY <1>9
  <1>13. ASSUME NEW n \in T PROVE n + 1 \in T
    <2> SUFFICES ASSUME (n + 1) + 1 <= N PROVE f[(n + 1) + 1] = result
        OBVIOUS
    <2>1. f[n + 1] = result /\ ((n + 1) + 1) \in 1..N /\ ((n + 1) + 1) - 1 = n + 1
          BY <1>0
    <2>2. f[(n + 1) + 1] = step[<<f[n + 1], (n + 1) + 1>>]
          BY <1>7, <2>1 DEF Recursion
    <2>3. QED
          BY <1>3, <1>10, <1>11, <2>1, <2>2
  <1>14. T = Nat
    <2> HIDE DEF T
    <2>1. T \in SUBSET Nat
          BY DEF T
    <2>2. QED
          BY <1>12, <1>13, <2>1, Induction
  <1>15. f[N] = result
    <2>1. (N - 1) \in T
      <3> HIDE DEF T
      <3>1. QED
            BY <1>0, <1>14
    <2>2. (N - 1) + 1 = N
          BY <1>0
    <2>3. QED
          BY <1>0, <2>1, <2>2
  <1>16. QED
        BY <1>8, <1>15 DEF result


\* No more is listed than the table has places.
LEMMA ListedFits ==
  ASSUME NEW places \in SUBSET DOMAIN kCapabilities
  PROVE  \E k \in 0..8 : DOMAIN Listed(places) = 1..k
  <1>1. IsFiniteSet(1..8) /\ Cardinality(1..8) = 8
    <2>1. ASSUME NEW n \in Nat, n >= 1 PROVE IsFiniteSet(1..n) /\ Cardinality(1..n) = n
          BY <2>1, FS_Interval
    <2>2. 8 \in Nat /\ 8 >= 1
          OBVIOUS
    <2>3. QED
          BY <2>1, <2>2, Zenon
  <1>2. places \in SUBSET (1..8)
        BY Table
  <1>3. IsFiniteSet(places) /\ Cardinality(places) <= 8
        BY <1>1, <1>2, FS_Subset
  <1>4. Cardinality(places) \in 0..8
        BY <1>3, FS_CardinalityType
  <1>5. QED
        BY <1>4 DEF Listed

--------------------------------------------------------------------------------
(* The invariants.                                                           *)

\* The config has the attributes it was created with, or else those of its capability.
ConfigInv ==
  config # None =>
    /\ Matching(config.profile, config.entrypoint) # {}
    /\ config.requested \in ListsOf(Requests)
    /\ \A a \in ToSet(config.requested) : a.type = "RTFormat"
    /\ \E f : /\ Capability(config.profile, config.entrypoint).attribs = Formats(f)
              /\ config.attribs = IF config.requested = <<>> THEN Formats(f) ELSE config.requested

\* What an application may pass as the length of an array, it was told.
RoomInv == answer.op = "SurfaceAttributesNumber" => answer.num_attribs = kMaxNumSurfaceAttributes

Inv ==
  /\ ConfigInv /\ RoomInv
  /\ CreationAgreesWithQueries /\ ReportedValuesAreAccepted /\ AnswersFitTheirArrays

\* The attributes of a config that is created.
LEMMA CreatedAttribs ==
  ASSUME NEW profile, NEW entrypoint, NEW list \in ListsOf(Requests),
         CreateStatus(profile, entrypoint, list) = "SUCCESS"
  PROVE  /\ Matching(profile, entrypoint) # {}
         /\ \A a \in ToSet(list) : a.type = "RTFormat"
         /\ \E f : /\ Capability(profile, entrypoint).attribs = Formats(f)
                   /\ FoldLeft(Completed, list, AttribList(Capability(profile, entrypoint)))
                        = IF list = <<>> THEN Formats(f) ELSE list
  <1> DEFINE c == Capability(profile, entrypoint)
  <1>1. Matching(profile, entrypoint) # {} /\ \A a \in ToSet(list) : Supports(c, a)
        BY StatusFacts DEF CreateStatus
  <1>2. PICK f : c.attribs = Formats(f)
        BY <1>1, CapabilityFacts
  <1>3. \A a \in ToSet(list) : a.type = "RTFormat"
        BY <1>1, <1>2, SupportsFacts
  <1> DEFINE added == AttribList(c)
             A == {Attrib("RTFormat", f), Attrib("RTFormat", {})} \cup ToSet(list)
  <1>4. \A a \in A : a.type = "RTFormat"
        BY <1>3 DEF Attrib
  <1>5. list \in Seq(A)
    <2>1. PICK n \in 0..MaxList : list \in [1..n -> Requests]
          BY DEF ListsOf
    <2>2. list \in [1..n -> ToSet(list)]
          BY <2>1 DEF ToSet
    <2>3. ToSet(list) \subseteq A
          OBVIOUS
    <2> HIDE DEF A
    <2>4. list \in [1..n -> A]
          BY <2>2, <2>3
    <2>5. QED
          BY <2>4
  <1>6. added \in Seq(A) /\ added # <<>> /\ added[1] = Attrib("RTFormat", f)
    <2> DEFINE a == Attrib("RTFormat", f)
               z == Attrib("RTFormat", {})
               zeros == [i \in 1..4 |-> z]
    <2>1. added = <<a>> \o zeros
      <3>1. Len(c.attribs) = 1
            BY <1>2 DEF Formats
      <3>2. MAX_CAPABILITY_ATTRIBUTES - Len(c.attribs) = 4
            BY <3>1 DEF MAX_CAPABILITY_ATTRIBUTES
      <3>3. QED
            BY <1>2, <3>2 DEF AttribList, Formats
    <2>2. a \in A /\ z \in A
          OBVIOUS
    <2> HIDE DEF added, a, z, A
    <2>3. <<a>> \in Seq(A) /\ Len(<<a>>) = 1 /\ <<a>>[1] = a
          BY <2>2
    <2>4. zeros \in Seq(A) /\ Len(zeros) = 4
          BY <2>2
    <2> HIDE DEF zeros
    <2>5. QED
          BY <2>1, <2>3, <2>4 DEF a
  <1> HIDE DEF A, added
  <1>7. FoldLeft(Completed, list, added) = IF list = <<>> THEN <<added[1]>> ELSE list
        BY <1>4, <1>5, <1>6, CompletedList
  <1>8. QED
        BY <1>1, <1>2, <1>3, <1>6, <1>7 DEF added, Formats

\* The config that is created last satisfies ConfigInv.
LEMMA ConfigPreserved ==
  ASSUME ConfigInv, [Next]_vars
  PROVE  ConfigInv'
  <1>1. CASE UNCHANGED config
        BY <1>1 DEF ConfigInv
  <1>2. ASSUME NEW profile \in Profiles, NEW entrypoint \in Entrypoints,
               NEW list \in ListsOf(Requests), vsCreateConfig(profile, entrypoint, list)
        PROVE  ConfigInv'
    <2>1. CASE CreateStatus(profile, entrypoint, list) # "SUCCESS"
      <3>1. UNCHANGED config
            BY <1>2, <2>1 DEF vsCreateConfig
      <3>2. QED
            BY <1>1, <3>1
    <2>2. CASE CreateStatus(profile, entrypoint, list) = "SUCCESS"
      <3> DEFINE attribs == FoldLeft(Completed, list, AttribList(Capability(profile, entrypoint)))
      <3>1. config' = VSConfig(profile, entrypoint, attribs, list)
            BY <1>2, <2>2 DEF vsCreateConfig
      <3> HIDE DEF attribs
      <3>2. /\ config'.profile = profile /\ config'.entrypoint = entrypoint
            /\ config'.attribs = attribs /\ config'.requested = list
            BY <3>1 DEF VSConfig
      <3>3. QED
            BY <2>2, <3>2, CreatedAttribs DEF ConfigInv, attribs
    <2>3. QED
          BY <2>1, <2>2
  <1>3. QED
        BY <1>1, <1>2 DEF Next, vars, vsQueryConfigAttributes, QueryConfigProfiles,
              QueryConfigEntrypoints, vsQueryImageFormats, vsQuerySubpictureFormats, Unimplemented,
              vsBufferSetNumElements, vsUnmapBuffer, vsSetImagePalette, Succeeds,
              vsQuerySurfaceAttributes


--------------------------------------------------------------------------------
(* What the answers say.                                                     *)

\* A single request is answered by the formats of the capability.
LEMMA SingleRequest ==
  ASSUME NEW profile, NEW entrypoint, NEW f, Matching(profile, entrypoint) # {},
         Capability(profile, entrypoint).attribs = Formats(f), NEW a
  PROVE  CreateStatus(profile, entrypoint, <<a>>)
           = IF a.type = "RTFormat" /\ Accepted(f, a.value) THEN "SUCCESS"
             ELSE "ATTR_NOT_SUPPORTED"
  <1>1. ToSet(<<a>>) = {a}
        BY DEF ToSet
  <1>2. Status(profile, entrypoint) = "SUCCESS"
        BY StatusFacts
  <1>3. Supports(Capability(profile, entrypoint), a) <=> a.type = "RTFormat" /\ Accepted(f, a.value)
        BY SupportsFacts
  <1>4. QED
        BY <1>1, <1>2, <1>3, Zenon DEF CreateStatus

\* vsCreateConfig answers as the queries say.
LEMMA CreationAgrees ==
  ASSUME NEW profile, NEW entrypoint, NEW list, vsCreateConfig(profile, entrypoint, list)
  PROVE  CreationAgreesWithQueries'
  <1> DEFINE status == CreateStatus(profile, entrypoint, list)
  <1>1. /\ answer'.op = "CreateConfig" /\ answer'.profile = profile
        /\ answer'.entrypoint = entrypoint /\ answer'.status = status /\ answer'.list = list
        BY DEF vsCreateConfig
  <1>2. Matching(profile, entrypoint) # {} =>
          /\ status \in {"SUCCESS", "ATTR_NOT_SUPPORTED"}
          /\ list = <<>> => status = "SUCCESS"
    <2>1. list = <<>> => ToSet(list) = {}
          BY SetOfEmpty
    <2>2. QED
          BY <2>1, StatusFacts DEF CreateStatus
  <1>3. Matching(profile, entrypoint) = {} =>
          status = IF ProfileFound(profile) THEN "UNSUPPORTED_ENTRYPOINT" ELSE "UNSUPPORTED_PROFILE"
        BY StatusFacts DEF CreateStatus
  <1> HIDE DEF status
  <1>4. QED
        BY <1>1, <1>2, <1>3, MatchingIsListed DEF CreationAgreesWithQueries

\* What is reported for a type agrees with what can be created.
Right(profile, entrypoint, a) ==
  IF a.value = NotSupported
  THEN \A value \in SUBSET Bits :
         CreateStatus(profile, entrypoint, <<Attrib(a.type, value)>>) = "ATTR_NOT_SUPPORTED"
  ELSE \A value \in (SUBSET a.value) \ {{}} :
         CreateStatus(profile, entrypoint, <<Attrib(a.type, value)>>) = "SUCCESS"

\* vsGetConfigAttributes reports what vsCreateConfig accepts.
LEMMA ReportAgrees ==
  ASSUME NEW profile, NEW entrypoint, NEW list \in ListsOf(Questions),
         answer' = vsGetConfigAttributes(profile, entrypoint, list)
  PROVE  ReportedValuesAreAccepted'
  <1> DEFINE c == Capability(profile, entrypoint)
             Created(type, value) == CreateStatus(profile, entrypoint, <<Attrib(type, value)>>)
  <1>1. /\ answer'.profile = profile /\ answer'.entrypoint = entrypoint
        /\ answer'.status = Status(profile, entrypoint)
        /\ Status(profile, entrypoint) = "SUCCESS" => answer'.list = Reported(c, list)
        BY DEF vsGetConfigAttributes
  <1>2. SUFFICES ASSUME Status(profile, entrypoint) = "SUCCESS",
                        NEW n \in FirstOfEachType(Reported(c, list))
                 PROVE  Right(profile, entrypoint, Reported(c, list)[n])
    <2>1. (answer'.status = "SUCCESS" =>
             \A n \in FirstOfEachType(answer'.list) :
               Right(answer'.profile, answer'.entrypoint, answer'.list[n]))
            => ReportedValuesAreAccepted'
          BY Zenon DEF ReportedValuesAreAccepted, Right
    <2>2. QED
          BY <1>1, <1>2, <2>1
  <1>3. PICK f : c.attribs = Formats(f) /\ f # NotSupported
        BY <1>2, StatusFacts, CapabilityFacts
  <1>4. \A i \in DOMAIN list : Reported(c, list)[i].type = list[i].type
    <2> SUFFICES ASSUME NEW i \in DOMAIN list PROVE Reported(c, list)[i].type = list[i].type
        OBVIOUS
    <2> DEFINE known == {a \in ToSet(c.attribs) : a.type = list[i].type}
               chosen == CHOOSE a \in known : TRUE
    <2>1. known # {} => chosen.type = list[i].type
          OBVIOUS
    <2>2. Attrib(list[i].type, NotSupported).type = list[i].type
          BY DEF Attrib
    <2>3. \/ Reported(c, list)[i] = chosen /\ known # {}
          \/ Reported(c, list)[i] = Attrib(list[i].type, NotSupported)
          BY DEF Reported
    <2>4. QED
          BY <2>1, <2>2, <2>3, Zenon
  <1>5. DOMAIN Reported(c, list) = DOMAIN list
        BY DEF Reported
  <1>6. n \in DOMAIN list /\ \A i \in 1..(n - 1) : list[i].type # list[n].type
    <2>1. PICK k \in Nat : DOMAIN list = 1..k
          BY DEF ListsOf
    <2>2. n \in DOMAIN list
          BY <1>2, <1>5 DEF FirstOfEachType
    <2>3. \A i \in 1..(n - 1) : i \in DOMAIN list
          BY <2>1, <2>2
    <2>4. QED
          BY <1>2, <1>4, <2>2, <2>3 DEF FirstOfEachType
  <1>7. ToSet(c.attribs) = {Attrib("RTFormat", f)}
        BY <1>3 DEF ToSet, Formats
  <1>8. Reported(c, list)[n] = IF list[n].type = "RTFormat" THEN Attrib("RTFormat", f)
                               ELSE Attrib(list[n].type, NotSupported)
    <2> DEFINE known == {a \in ToSet(c.attribs) : a.type = list[n].type}
    <2>1. Attrib("RTFormat", f).type = "RTFormat"
          BY DEF Attrib
    <2>2. Reported(c, list)[n] = IF known # {} THEN CHOOSE a \in known : TRUE
                                 ELSE Attrib(list[n].type, NotSupported)
          BY <1>6 DEF Reported
    <2>3. list[n].type = "RTFormat" => known = {Attrib("RTFormat", f)}
          BY <1>7, <2>1
    <2>4. list[n].type # "RTFormat" => known = {}
          BY <1>7, <2>1
    <2> HIDE DEF known
    <2>5. QED
          BY <2>2, <2>3, <2>4
  <1>9. \A type, value : Created(type, value) = IF type = "RTFormat" /\ Accepted(f, value)
                                                THEN "SUCCESS" ELSE "ATTR_NOT_SUPPORTED"
    <2>1. Matching(profile, entrypoint) # {}
          BY <1>2, StatusFacts
    <2>2. \A type, value : Attrib(type, value).type = type /\ Attrib(type, value).value = value
          BY DEF Attrib
    <2>3. QED
          BY <1>3, <2>1, <2>2, SingleRequest
  <1> HIDE DEF Created
  <1>10. CASE list[n].type = "RTFormat"
    <2>1. Reported(c, list)[n].value = f /\ Reported(c, list)[n].type = "RTFormat"
          BY <1>8, <1>10 DEF Attrib
    <2>2. \A value \in (SUBSET f) \ {{}} : Accepted(f, value)
          BY DEF Accepted
    <2>3. \A value \in (SUBSET f) \ {{}} : Created("RTFormat", value) = "SUCCESS"
          BY <1>9, <2>2
    <2>4. QED
          BY <1>3, <2>1, <2>3 DEF Right, Created
  <1>11. CASE list[n].type # "RTFormat"
    <2>1. Reported(c, list)[n].value = NotSupported /\ Reported(c, list)[n].type # "RTFormat"
          BY <1>8, <1>11 DEF Attrib
    <2>2. \A value : Created(Reported(c, list)[n].type, value) = "ATTR_NOT_SUPPORTED"
          BY <1>9, <2>1
    <2>3. QED
          BY <2>1, <2>2 DEF Right, Created
  <1>12. QED
        BY <1>10, <1>11


\* A list of the table fits, and so do the attributes of a config.
LEMMA AnswersFit ==
  ASSUME ConfigInv, RoomInv, Next
  PROVE  AnswersFitTheirArrays'
  <1>1. ASSUME NEW op, NEW room \in Nat, NEW list, Len(list) <= room,
               answer' = Written(op, room, list)
        PROVE  AnswersFitTheirArrays'
        BY <1>1 DEF Written, AnswersFitTheirArrays
  <1>2. ASSUME "room" \notin DOMAIN answer' PROVE AnswersFitTheirArrays'
        BY <1>2 DEF AnswersFitTheirArrays
  <1>3. ASSUME NEW places \in SUBSET DOMAIN kCapabilities, NEW k \in 0..8,
               DOMAIN Listed(places) = 1..k, NEW e
        PROVE  Len([n \in DOMAIN Listed(places) |-> e[n]]) <= 8
        BY <1>3
  <1>4. ASSUME vsQueryConfigAttributes PROVE AnswersFitTheirArrays'
    <2>1. answer'.room = MAX_CONFIG_ATTRIBUTES /\ answer'.list = config.attribs /\ config # None
          BY <1>4 DEF vsQueryConfigAttributes
    <2>2. config.requested \in ListsOf(Requests)
          BY <2>1 DEF ConfigInv
    <2>3. PICK n \in 0..MaxList : config.requested \in [1..n -> Requests]
          BY <2>2 DEF ListsOf
    <2>4. Len(config.requested) = n
          BY <2>3
    <2>5. PICK f : config.attribs = IF config.requested = <<>> THEN Formats(f) ELSE config.requested
          BY <2>1 DEF ConfigInv
    <2>6. Len(Formats(f)) = 1
          BY DEF Formats
    <2>7. Len(config.attribs) <= MAX_CONFIG_ATTRIBUTES
      <3>1. /\ MaxList \in Nat /\ MAX_CONFIG_ATTRIBUTES \in Nat
            /\ MaxList <= MAX_CONFIG_ATTRIBUTES /\ 1 <= MAX_CONFIG_ATTRIBUTES
            BY AttributesAssumption DEF MAX_CAPABILITY_ATTRIBUTES
      <3>2. Len(config.attribs) = 1 \/ Len(config.attribs) = n
            BY <2>4, <2>5, <2>6
      <3>3. ASSUME NEW k, k = 1 \/ k = n PROVE k <= MAX_CONFIG_ATTRIBUTES
            BY <3>1, <3>3
      <3>4. QED
            BY <3>2, <3>3, Zenon
    <2>8. QED
          BY <2>1, <2>7 DEF AnswersFitTheirArrays
  <1>5. ASSUME QueryConfigProfiles PROVE AnswersFitTheirArrays'
    <2> DEFINE places == UniqueProfiles
               list == [n \in DOMAIN Listed(places) |-> Listed(places)[n].profile]
    <2>1. PICK k \in 0..8 : DOMAIN Listed(places) = 1..k
      <3>1. places \in SUBSET DOMAIN kCapabilities
            BY DEF UniqueProfiles
      <3>2. QED
            BY <3>1, ListedFits
    <2>2. Len(list) <= 9
          BY <2>1
    <2>3. answer' = Written("QueryConfigProfiles", 9, list)
          BY <1>5, Zenon DEF QueryConfigProfiles, MAX_PROFILES
    <2> HIDE DEF list
    <2>4. 9 \in Nat
          OBVIOUS
    <2>5. QED
          BY <1>1, <2>2, <2>3, <2>4, Zenon
  <1>6. ASSUME NEW profile \in Profiles, QueryConfigEntrypoints(profile)
        PROVE  AnswersFitTheirArrays'
    <2> DEFINE places == {i \in DOMAIN kCapabilities : kCapabilities[i].profile = profile}
               list == [n \in DOMAIN Listed(places) |-> Listed(places)[n].entry_point]
    <2>1. PICK k \in 0..8 : DOMAIN Listed(places) = 1..k
      <3>1. places \in SUBSET DOMAIN kCapabilities
            OBVIOUS
      <3>2. QED
            BY <3>1, ListedFits
    <2>2. Len(list) <= 8
      <3> HIDE DEF places
      <3>1. QED
            BY <2>1
    <2>3. answer' = Written("QueryConfigEntrypoints", 8, list)
          BY <1>6, Zenon DEF QueryConfigEntrypoints, MAX_ENTRYPOINTS
    <2> HIDE DEF list
    <2>4. 8 \in Nat
          OBVIOUS
    <2>5. QED
          BY <1>1, <2>2, <2>3, <2>4, Zenon
  <1>7. ASSUME vsQueryImageFormats PROVE AnswersFitTheirArrays'
    <2>1. Len(kSupportedImageFormats) = 1
          BY DEF kSupportedImageFormats
    <2>2. 10 \in Nat /\ Len(kSupportedImageFormats) <= 10
          BY <2>1
    <2>3. answer' = Written("QueryImageFormats", 10, kSupportedImageFormats)
          BY <1>7, Zenon DEF vsQueryImageFormats, MAX_IMAGE_FORMATS
    <2>4. QED
          BY <1>1, <2>2, <2>3, Zenon
  <1>8. ASSUME vsQuerySubpictureFormats PROVE AnswersFitTheirArrays'
    <2>1. Len(<<>>) = 0
          OBVIOUS
    <2>2. answer' = Written("QuerySubpictureFormats", 6, <<>>)
          BY <1>8 DEF vsQuerySubpictureFormats, MAX_SUBPIC_FORMATS
    <2>3. answer'.room = 6 /\ answer'.list = <<>>
          BY <2>2 DEF Written
    <2>4. QED
          BY <2>1, <2>3 DEF AnswersFitTheirArrays
  <1>9. ASSUME NEW null \in BOOLEAN, NEW num_attribs \in Rooms,
               vsQuerySurfaceAttributes(null, num_attribs)
        PROVE  AnswersFitTheirArrays'
    <2>1. CASE null \/ TooFew(num_attribs)
          BY <1>2, <1>9, <2>1 DEF vsQuerySurfaceAttributes
    <2>2. CASE ~null /\ ~TooFew(num_attribs)
      <3>1. num_attribs \in Nat /\ num_attribs >= 32
            BY <2>2 DEF Rooms, RoomInv, TooFew, kMaxNumSurfaceAttributes
      <3>2. Len(SurfaceAttributes) = 4
            BY DEF SurfaceAttributes
      <3>3. answer' = Written("QuerySurfaceAttributes", num_attribs, SurfaceAttributes)
            BY <1>9, <2>2 DEF vsQuerySurfaceAttributes
      <3>4. Len(SurfaceAttributes) <= num_attribs
            BY <3>1, <3>2
      <3>5. QED
            BY <1>1, <3>1, <3>3, <3>4, Zenon
    <2>3. QED
          BY <2>1, <2>2
  <1>10. ASSUME NEW profile, NEW entrypoint, NEW list,
                \/ vsCreateConfig(profile, entrypoint, list)
                \/ answer' = vsGetConfigAttributes(profile, entrypoint, list)
         PROVE  AnswersFitTheirArrays'
         BY <1>2, <1>10 DEF vsCreateConfig, vsGetConfigAttributes
  <1>11. ASSUME NEW op, Unimplemented(op) \/ Succeeds(op) PROVE AnswersFitTheirArrays'
         BY <1>2, <1>11 DEF Unimplemented, Succeeds
  <1>12. QED
         BY <1>4, <1>5, <1>6, <1>7, <1>8, <1>9, <1>10, <1>11, Zenon
            DEF Next, vsBufferSetNumElements, vsUnmapBuffer, vsSetImagePalette

\* Every step preserves the invariant.
LEMMA InvPreserved ==
  ASSUME Inv, [Next]_vars
  PROVE  Inv'
  <1> DEFINE Said == CreationAgreesWithQueries /\ ReportedValuesAreAccepted
  <1>1. ConfigInv'
        BY ConfigPreserved DEF Inv
  <1>2. CASE UNCHANGED vars
    <2>1. RoomInv'
          BY <1>2 DEF Inv, vars, RoomInv
    <2>2. CreationAgreesWithQueries'
          BY <1>2 DEF Inv, vars, CreationAgreesWithQueries
    <2>3. ReportedValuesAreAccepted'
          BY <1>2 DEF Inv, vars, ReportedValuesAreAccepted
    <2>4. AnswersFitTheirArrays'
          BY <1>2 DEF Inv, vars, AnswersFitTheirArrays
    <2>5. QED
          BY <1>1, <2>1, <2>2, <2>3, <2>4 DEF Inv
  <1>3. CASE Next
    <2>1. AnswersFitTheirArrays'
          BY <1>3, AnswersFit DEF Inv
    <2>2. RoomInv' /\ Said'
      <3>1. ASSUME answer'.op \notin {"CreateConfig", "GetConfigAttributes", "SurfaceAttributesNumber"}
            PROVE  RoomInv' /\ Said'
            BY <3>1 DEF RoomInv, CreationAgreesWithQueries, ReportedValuesAreAccepted
      <3>2. ASSUME NEW profile \in Profiles, NEW entrypoint \in Entrypoints,
                   NEW list \in ListsOf(Requests), vsCreateConfig(profile, entrypoint, list)
            PROVE  RoomInv' /\ Said'
        <4>1. answer'.op = "CreateConfig"
              BY <3>2 DEF vsCreateConfig
        <4>2. RoomInv' /\ ReportedValuesAreAccepted'
              BY <4>1 DEF RoomInv, ReportedValuesAreAccepted
        <4>3. QED
              BY <3>2, <4>2, CreationAgrees
      <3>3. ASSUME NEW profile \in Profiles, NEW entrypoint \in Entrypoints,
                   NEW list \in ListsOf(Questions),
                   answer' = vsGetConfigAttributes(profile, entrypoint, list)
            PROVE  RoomInv' /\ Said'
        <4>1. answer'.op = "GetConfigAttributes"
              BY <3>3 DEF vsGetConfigAttributes
        <4>2. RoomInv' /\ CreationAgreesWithQueries'
              BY <4>1 DEF RoomInv, CreationAgreesWithQueries
        <4>3. QED
              BY <3>3, <4>2, ReportAgrees
      <3>4. ASSUME NEW null \in BOOLEAN, NEW num_attribs \in Rooms,
                   vsQuerySurfaceAttributes(null, num_attribs)
            PROVE  RoomInv' /\ Said'
            BY <3>1, <3>4 DEF vsQuerySurfaceAttributes, Written, RoomInv, CreationAgreesWithQueries,
               ReportedValuesAreAccepted
      <3>5. ASSUME NEW op \in SubpictureCalls \cup DisplayCalls, Unimplemented(op)
            PROVE  RoomInv' /\ Said'
            BY <3>1, <3>5 DEF Unimplemented, SubpictureCalls, DisplayCalls
      <3>6. ASSUME NEW profile \in Profiles, QueryConfigEntrypoints(profile)
            PROVE  RoomInv' /\ Said'
            BY <3>1, <3>6 DEF Written, QueryConfigEntrypoints
      <3>7. ASSUME vsQueryConfigAttributes \/ QueryConfigProfiles PROVE RoomInv' /\ Said'
            BY <3>1, <3>7 DEF Written, vsQueryConfigAttributes, QueryConfigProfiles
      <3>8. ASSUME vsQueryImageFormats \/ vsQuerySubpictureFormats PROVE RoomInv' /\ Said'
            BY <3>1, <3>8 DEF Written, vsQueryImageFormats, vsQuerySubpictureFormats
      <3>9. ASSUME vsBufferSetNumElements \/ vsUnmapBuffer \/ vsSetImagePalette
            PROVE  RoomInv' /\ Said'
            BY <3>1, <3>9 DEF vsBufferSetNumElements, vsUnmapBuffer, vsSetImagePalette, Succeeds
      <3>10. QED
             BY <1>3, <3>2, <3>3, <3>4, <3>5, <3>6, <3>7, <3>8, <3>9, Zenon DEF Next
    <2>3. QED
          BY <1>1, <2>1, <2>2 DEF Inv
  <1>4. QED
        BY <1>2, <1>3

\* Whatever is asked, the invariant holds.
LEMMA Invariance == Spec => []Inv
  <1>1. Init => Inv
        BY DEF Init, None, Inv, ConfigInv, RoomInv, CreationAgreesWithQueries,
           ReportedValuesAreAccepted, AnswersFitTheirArrays
  <1>2. Inv /\ [Next]_vars => Inv'
        BY InvPreserved
  <1>3. QED
        BY <1>1, <1>2, PTL DEF Spec

--------------------------------------------------------------------------------

\* A config can be created of what the queries list, and of nothing else; an error
\* says which of profile and entrypoint is not listed (drv_video.cc:159-216).
THEOREM CreationAgreesWithQueriesTheorem == Spec => []CreationAgreesWithQueries
  <1>1. Inv => CreationAgreesWithQueries
        BY DEF Inv
  <1>2. QED
        BY <1>1, Invariance, PTL

\* vsCreateConfig accepts every part of a mask that vsGetConfigAttributes reports, and
\* nothing of a type that it reports as not supported (drv_video.cc:129-157).
THEOREM ReportedValuesAreAcceptedTheorem == Spec => []ReportedValuesAreAccepted
  <1>1. Inv => ReportedValuesAreAccepted
        BY DEF Inv
  <1>2. QED
        BY <1>1, Invariance, PTL

\* No answer is longer than its array, for lists of attributes that fit in one
\* themselves (drv_video.cc:229-245 and 594-661).
THEOREM AnswersFitTheirArraysTheorem == Spec => []AnswersFitTheirArrays
  <1>1. Inv => AnswersFitTheirArrays
        BY DEF Inv
  <1>2. QED
        BY <1>1, Invariance, PTL

\* A config keeps what it was created with, in order, and has each attribute of its
\* capability; none is doubled that the application did not double
\* (drv_video.cc:172-207).
THEOREM ConfigIsCompleteTheorem == Spec => []ConfigIsComplete
  <1>1. ConfigInv => ConfigIsComplete
    <2> SUFFICES ASSUME ConfigInv, config # None PROVE ConfigIsComplete
        BY DEF ConfigIsComplete
    <2> DEFINE list == config.requested
               attribs == config.attribs
               own == Capability(config.profile, config.entrypoint).attribs
    <2>1. PICK f : own = Formats(f) /\ attribs = IF list = <<>> THEN Formats(f) ELSE list
          BY DEF ConfigInv
    <2>2. list \in ListsOf(Requests) /\ \A a \in ToSet(list) : a.type = "RTFormat"
          BY DEF ConfigInv
    <2>3. PICK n \in Nat : list \in [1..n -> Requests]
          BY <2>2 DEF ListsOf
    <2>4. list \in Seq(Requests) /\ Len(list) = n
          BY <2>3
    <2>5. /\ Len(Formats(f)) = 1 /\ ToSet(Formats(f)) = {Attrib("RTFormat", f)}
          /\ Formats(f)[1] = Attrib("RTFormat", f) /\ Attrib("RTFormat", f).type = "RTFormat"
          /\ DOMAIN Formats(f) = {1}
          BY DEF Formats, ToSet, Attrib
    <2> HIDE DEF list, attribs, own
    <2>6. IsPrefix(list, attribs)
      <3>1. CASE list = <<>>
        <4>1. Len(list) = 0 /\ Len(attribs) = 1
              BY <2>1, <2>5, <3>1
        <4>2. SubSeq(list, 1, 0) = <<>> /\ SubSeq(attribs, 1, 0) = <<>>
              BY <2>1, <3>1 DEF Formats
        <4>3. QED
              BY <4>1, <4>2 DEF IsPrefix
      <3>2. CASE list # <<>>
        <4>1. attribs = list
              BY <2>1, <3>2
        <4>2. QED
              BY <2>4, <4>1 DEF IsPrefix
      <3>3. QED
            BY <3>1, <3>2
    <2>7. \A a \in ToSet(own) : \E b \in ToSet(attribs) : b.type = a.type
      <3>1. \E b \in ToSet(attribs) : b.type = "RTFormat"
        <4>1. CASE list = <<>>
              BY <2>1, <2>5, <4>1
        <4>2. CASE list # <<>>
          <5>1. list[1] \in ToSet(list)
                BY <2>4, <4>2 DEF ToSet
          <5>2. QED
                BY <2>1, <2>2, <4>2, <5>1
        <4>3. QED
              BY <4>1, <4>2
      <3>2. QED
            BY <2>1, <2>5, <3>1
    <2>8. \A i, j \in (Len(list) + 1)..Len(attribs) : i = j
      <3>1. (Len(list) = 0 /\ Len(attribs) = 1) \/ Len(attribs) = Len(list)
            BY <2>1, <2>5
      <3>2. ASSUME NEW k \in Nat, NEW m, (k = 0 /\ m = 1) \/ m = k
            PROVE  \A i, j \in (k + 1)..m : i = j
            BY <3>2
      <3>3. Len(list) \in Nat
            BY <2>4
      <3>4. QED
            BY <3>1, <3>2, <3>3, Zenon
    <2>9. OneOfEachType(list) => OneOfEachType(attribs)
      <3>1. CASE list = <<>>
            BY <2>1, <2>5, <3>1 DEF OneOfEachType, IsInjective
      <3>2. CASE list # <<>>
            BY <2>1, <3>2
      <3>3. QED
            BY <3>1, <3>2
    <2>10. QED
           BY <2>6, <2>7, <2>8, <2>9, Zenon DEF ConfigIsComplete, list, attribs, own
  <1>2. Inv => ConfigIsComplete
        BY <1>1 DEF Inv
  <1>3. QED
        BY <1>2, Invariance, PTL
================================================================================
