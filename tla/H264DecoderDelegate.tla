-------------------------- MODULE H264DecoderDelegate --------------------------
(***************************************************************************)
(* The H.264 delegate of a context (h264_decoder_delegate.cc:563-780): it   *)
(* collects the buffers of a picture, and Run feeds them to the hardware    *)
(* decoder's library, which answers with a status at a time.  The library   *)
(* is external: it is modelled by what the code expects of it and by its    *)
(* headers, h264decapi.h and dectypes.h.                                    *)
(*                                                                         *)
(* Pictures go by the timestamp given to them, a u32 that wraps at TsMod.   *)
(***************************************************************************)
EXTENDS Integers, Sequences, FiniteSets, SequencesExt

CONSTANTS
  ByVaApi,       \* TRUE: the caller renders as VA-API users do; FALSE: it only keeps
                 \* to context_delegate.h.  See the section on the caller.
  Surfaces,
  PicParams,     \* buffers of VAPictureParameterBufferType
  Matrices,      \* of VAIQMatrixBufferType
  SliceParams,   \* of VASliceParameterBufferType
  SliceData,     \* of VASliceDataBufferType
  Intra,         \* the slice parameters with slice_type 2
  OrderType1,    \* the picture parameters with pic_order_cnt_type 1
  CacheSize,     \* kTimestampCacheSize
  TsMod,         \* 2^32
  Reorder,       \* a picture is held back for at most so many later ones; Run asks
                 \* for none to be (no_output_reordering), and Reorder = 0 says that
                 \* the library obeys
  Oddities,      \* what the library may answer besides the usual: "error" and,
                 \* when it has no more pictures, "flushed"
  MaxRepeats,    \* how often in a row it may answer DEC_OK
  Nil

Buffers == PicParams \cup Matrices \cup SliceParams \cup SliceData

ASSUME BuffersAssumption == IsFiniteSet(Buffers)
ASSUME NilAssumption     == Nil \notin Surfaces \cup Buffers \cup 0..(TsMod - 1)
ASSUME IntraAssumption   == Intra \subseteq SliceParams
ASSUME OrderAssumption   == OrderType1 \subseteq PicParams
ASSUME CacheAssumption   == CacheSize \in Nat \ {0} /\ TsMod \in Nat /\ CacheSize < TsMod
ASSUME ReorderAssumption == Reorder \in 0..(CacheSize - 1)

VARIABLES
  \* the delegate
  slice_data_buffers_, slice_param_buffers_,
  pic_param_buffer_, matrix_buffer_, render_target_,
  current_ts_, ts_to_render_target_,
  \* Run
  pc,        \* "idle", "decode" (in the loop), "next" and "frame" (draining), "end"
  result,    \* "none" in the loop; "ok" or the status that made it fail
  stream,    \* the linear memory of the stream: blocks allocated
  input,     \* what is left of it: a sequence of "headers" and "slices"
  picture,   \* the H264DecPicture of the loop, Nil before it is filled
  hw,        \* the decoder instance of the library, see HwInit
  \* the caller
  alive,     \* buffers that exist
  begun,     \* a render target was set for the picture in work
  work,      \* buffers enqueued since the last Run returned
  drawn,     \* the surface each picture was decoded for
  died       \* "no", or why the process ended

delegateVars == <<slice_data_buffers_, slice_param_buffers_, pic_param_buffer_, matrix_buffer_,
                  render_target_, current_ts_, ts_to_render_target_>>
runVars      == <<pc, result, stream, input, picture>>
callerVars   == <<alive, begun, work, drawn>>
vars         == <<delegateVars, runVars, hw, callerVars, died>>

Cache == INSTANCE LRUCache WITH MaxSize <- CacheSize

Ts == 0..(TsMod - 1)

HwInit == [headers |-> FALSE,  \* it has parameter sets
           dpb     |-> FALSE,  \* it has its picture buffers
           held    |-> {},     \* pictures decoded and held back
           ready   |-> <<>>,   \* pictures H264DecNextPicture can return
           out     |-> {},     \* pictures returned and not given back
           flushed |-> FALSE,  \* H264DecNextPicture will say DEC_FLUSHED
           repeats |-> 0]      \* DEC_OKs in a row

\* A delegate as it is constructed.
Constructed ==
  [slice_data |-> <<>>, slice_param |-> <<>>, pic_param |-> Nil, matrix |-> Nil,
   target |-> Nil, ts |-> 0, cache |-> Cache!Empty]

Init ==
  /\ slice_data_buffers_ = Constructed.slice_data
  /\ slice_param_buffers_ = Constructed.slice_param
  /\ pic_param_buffer_ = Constructed.pic_param
  /\ matrix_buffer_ = Constructed.matrix
  /\ render_target_ = Constructed.target
  /\ current_ts_ = Constructed.ts
  /\ ts_to_render_target_ = Constructed.cache
  /\ pc = "idle" /\ result = "none" /\ stream = 0 /\ input = <<>> /\ picture = Nil
  /\ hw = HwInit
  /\ alive = Buffers
  /\ begun = FALSE
  /\ work = {}
  /\ drawn = [ts \in Ts |-> Nil]
  /\ died = "no"

TypeOK ==
  /\ slice_data_buffers_ \in Seq(SliceData)
  /\ slice_param_buffers_ \in Seq(SliceParams)
  /\ pic_param_buffer_ \in PicParams \cup {Nil}
  /\ matrix_buffer_ \in Matrices \cup {Nil}
  /\ render_target_ \in Surfaces \cup {Nil}
  /\ current_ts_ \in Ts
  /\ Len(ts_to_render_target_.ordering) <= CacheSize
  /\ pc \in {"idle", "decode", "next", "frame", "end"}
  /\ result \in {"none", "ok", "error"}
  /\ stream \in 0..1
  /\ input \in Seq({"headers", "slices"})
  /\ picture \in Ts \cup {Nil}
  /\ hw.held \cup hw.out \subseteq Ts
  /\ alive \subseteq Buffers /\ work \subseteq Buffers
  /\ drawn \in [Ts -> Surfaces \cup {Nil}]
  /\ died \in {"no", "check", "dead buffer", "no slice", "order type"}

--------------------------------------------------------------------------------
(* The caller.  context_delegate.h asks of it: a target is set before work is *)
(* enqueued, at least once, and not while work is enqueued (:38-41, :57); no   *)
(* work is enqueued twice (:58) and some is before Run (:63); a buffer lives    *)
(* as long as its work is enqueued, until Run returns (:59-60).  VA-API users   *)
(* do a little more: each picture has its target, its picture parameters, its  *)
(* slice parameters and slice data, which may come in several calls, slices     *)
(* last.                                                                     *)

Idle == died = "no" /\ pc = "idle"

OfType(list, type) ==
  LET kept[n \in 0..Len(list)] ==
        IF n = 0 THEN <<>>
        ELSE IF list[n] \in type THEN Append(kept[n - 1], list[n]) ELSE kept[n - 1]
  IN kept[Len(list)]

\* Mutant: the picture parameters of the first picture are kept.
FirstKept(list, old) == IF list = <<>> \/ old # Nil THEN old ELSE Last(list)

LastOr(list, old) == IF list = <<>> THEN old ELSE Last(list)

Complete(buffers) ==
  \A type \in {PicParams, SliceParams, SliceData} : buffers \cap type # {}

\* A new key makes Put shrink the cache first.
PutFails(ts) == ~Cache!Has(ts_to_render_target_, ts) /\ Cache!SizeFails(ts_to_render_target_)

SetRenderTarget(surface) ==
  /\ Idle
  /\ work = {}
  /\ render_target_' = surface
  /\ IF PutFails(current_ts_)
     THEN died' = "check" /\ UNCHANGED <<ts_to_render_target_, begun>>
     ELSE /\ ts_to_render_target_' = Cache!Put(ts_to_render_target_, current_ts_, surface)
          /\ begun' = TRUE
          /\ UNCHANGED died
  /\ UNCHANGED <<slice_data_buffers_, slice_param_buffers_, pic_param_buffer_, matrix_buffer_,
                 current_ts_, runVars, hw, alive, work, drawn>>

CallEnqueueWork(list) ==
  /\ Idle
  /\ ToSet(list) \subseteq alive \ work
  /\ begun
  /\ ByVaApi => work \cap SliceData = {}
             /\ (ToSet(list) \cap SliceData # {} => Complete(work \cup ToSet(list)))
  /\ ~ByVaApi => work = {}

\* CHECK(render_target_) and CHECK(slice_data_buffers_.empty()).
EnqueueFails == render_target_ = Nil \/ slice_data_buffers_ # <<>>

EnqueueWork(list) ==
  /\ CallEnqueueWork(list)
  /\ IF EnqueueFails
     THEN died' = "check" /\ UNCHANGED <<delegateVars, work>>
     ELSE /\ work' = work \cup ToSet(list)
          /\ slice_data_buffers_' = slice_data_buffers_ \o OfType(list, SliceData)
          /\ slice_param_buffers_' = slice_param_buffers_ \o OfType(list, SliceParams)
          /\ pic_param_buffer_' = LastOr(OfType(list, PicParams), pic_param_buffer_)
          /\ matrix_buffer_' = LastOr(OfType(list, Matrices), matrix_buffer_)
          /\ UNCHANGED <<render_target_, current_ts_, ts_to_render_target_, died>>
  /\ UNCHANGED <<runVars, hw, alive, begun, drawn>>

DestroyBuffer(b) ==
  /\ Idle
  /\ b \in alive \ work
  /\ alive' = alive \ {b}
  /\ UNCHANGED <<delegateVars, runVars, hw, begun, work, drawn, died>>

CreateBuffer(b) ==
  /\ Idle
  /\ b \notin alive \cup {pic_param_buffer_, matrix_buffer_}
  /\ alive' = alive \cup {b}
  /\ UNCHANGED <<delegateVars, runVars, hw, begun, work, drawn, died>>

\* The context is destroyed, with what is enqueued and with the decoder
\* instance and the pictures in it, and another one is created.
Recreate ==
  /\ Idle
  /\ slice_data_buffers_' = Constructed.slice_data
  /\ slice_param_buffers_' = Constructed.slice_param
  /\ pic_param_buffer_' = Constructed.pic_param
  /\ matrix_buffer_' = Constructed.matrix
  /\ render_target_' = Constructed.target
  /\ current_ts_' = Constructed.ts
  /\ ts_to_render_target_' = Constructed.cache
  /\ hw' = HwInit
  /\ begun' = FALSE /\ work' = {} /\ drawn' = [ts \in Ts |-> Nil]
  /\ UNCHANGED <<runVars, alive, died>>

--------------------------------------------------------------------------------
(* Run.                                                                      *)

\* Run is called with work enqueued; a VA-API user has enqueued a whole picture.
CallRun == Idle /\ work # {} /\ (ByVaApi => Complete(work))

\* CHECK(pic_param_buffer_); the buffers read; slice_param_buffers_[0]; and, before a
\* slice of type 2, the CHECK(false) of BuildPackedH264SPS on pic_order_cnt_type 1.
RunFailure ==
  IF pic_param_buffer_ = Nil THEN "check"
  ELSE IF ({pic_param_buffer_} \cup ToSet(slice_param_buffers_) \cup ToSet(slice_data_buffers_))
            \ alive # {} THEN "dead buffer"
  ELSE IF slice_param_buffers_ = <<>> THEN "no slice"
  ELSE IF slice_param_buffers_[1] \in Intra /\ pic_param_buffer_ \in OrderType1 THEN "order type"
  ELSE "no"

RunDies ==
  /\ CallRun
  /\ RunFailure # "no"
  /\ died' = RunFailure
  /\ UNCHANGED <<delegateVars, runVars, hw, callerVars>>

\* The parameter sets go before the slices of a picture whose first slice has
\* slice_type 2.
Bitstream ==
  (IF slice_param_buffers_[1] \in Intra THEN <<"headers">> ELSE <<>>)
    \o (IF slice_data_buffers_ = <<>> THEN <<>> ELSE <<"slices">>)

\* Mutant: a timestamp wider than pic_id, which does not wrap.
Unwrapped(ts) == ts + 1

NextTs(ts) == (ts + 1) % TsMod

Run ==
  /\ CallRun
  /\ RunFailure = "no"
  /\ stream' = stream + 1
  /\ input' = Bitstream
  /\ drawn' = [drawn EXCEPT ![current_ts_] = render_target_]
  /\ current_ts_' = NextTs(current_ts_)
  /\ pc' = "decode"
  /\ UNCHANGED <<slice_data_buffers_, slice_param_buffers_, pic_param_buffer_, matrix_buffer_,
                 render_target_, ts_to_render_target_, result, picture, hw, alive, begun, work,
                 died>>

--------------------------------------------------------------------------------
(* The answers of H264DecDecode and what the loop does with them.            *)

\* Mutant: the timestamp is advanced before it is given to the picture.
PreIncremented == current_ts_

PicId == CHOOSE ts \in Ts : NextTs(ts) = current_ts_  \* input.pic_id

\* The library can decode the slices that are next in the stream.
CanDecode == input # <<>> /\ Head(input) = "slices" /\ hw.headers /\ hw.dpb

Answer(next, r) ==
  /\ died = "no"
  /\ pc = "decode"
  /\ pc' = next
  /\ result' = r
  /\ UNCHANGED <<delegateVars, stream, callerVars, died>>

HdrsRdy ==
  /\ input # <<>> /\ Head(input) = "headers"
  /\ Answer("decode", "none")
  /\ input' = Tail(input)
  /\ hw' = [hw EXCEPT !.headers = TRUE, !.repeats = 0]
  /\ UNCHANGED picture

WaitingForBuffer ==
  /\ input # <<>> /\ Head(input) = "slices" /\ hw.headers /\ ~hw.dpb
  /\ Answer("decode", "none")
  /\ hw' = [hw EXCEPT !.dpb = TRUE, !.repeats = 0]
  /\ UNCHANGED <<input, picture>>

DecOk ==
  /\ hw.repeats < MaxRepeats
  /\ Answer("decode", "none")
  /\ hw' = [hw EXCEPT !.repeats = @ + 1]
  /\ UNCHANGED <<input, picture>>

\* The pictures in R become available, in some order.
MakeReady(pictures, R) ==
  hw' = [hw EXCEPT !.held = pictures \ R, !.ready = @ \o SetToSeq(R), !.repeats = 0,
                   !.flushed = "flushed" \in Oddities]

PicDecoded ==
  /\ CanDecode
  /\ Answer("next", "none")
  /\ \E R \in SUBSET (hw.held \cup {PicId}) :
       /\ \A ts \in (hw.held \cup {PicId}) \ R : (PicId - ts) % TsMod < Reorder
       /\ MakeReady(hw.held \cup {PicId}, R)
  /\ input' = Tail(input)
  /\ picture' = Nil

PendingFlush ==
  /\ CanDecode
  /\ Answer("next", "none")
  /\ \E R \in (SUBSET hw.held) \ {{}} : MakeReady(hw.held, R)
  /\ picture' = Nil
  /\ UNCHANGED input

StrmProcessed ==
  /\ input = <<>>
  /\ Answer("end", "ok")
  /\ UNCHANGED <<input, picture, hw>>

\* Any other status.
OtherStatus == Answer("end", "error") /\ UNCHANGED <<input, picture, hw>>

NoParameterSets == input # <<>> /\ Head(input) = "slices" /\ ~hw.headers /\ OtherStatus
Error              == "error" \in Oddities /\ OtherStatus
StreamNotSupported == "error" \in Oddities /\ OtherStatus

--------------------------------------------------------------------------------
(* The loop over H264DecNextPicture.                                         *)

Draining(from, to) ==
  /\ died = "no"
  /\ pc = from
  /\ pc' = to
  /\ UNCHANGED <<delegateVars, result, stream, input, callerVars, died>>

PicRdy ==
  /\ hw.ready # <<>>
  /\ Draining("next", "frame")
  /\ picture' = Head(hw.ready)
  /\ hw' = [hw EXCEPT !.ready = Tail(@), !.out = @ \cup {Head(hw.ready)}]

\* DEC_FLUSHED: nothing is filled in, but the loop goes on as with a picture.
Flushed ==
  /\ hw.ready = <<>> /\ hw.flushed
  /\ Draining("next", "frame")
  /\ hw' = [hw EXCEPT !.flushed = FALSE]
  /\ UNCHANGED picture

\* Mutant: the loop asks again.
AsksAgain ==
  /\ hw.ready = <<>> /\ ~hw.flushed
  /\ Draining("next", "next")
  /\ UNCHANGED <<picture, hw>>

\* Mutant: a picture that was not returned is treated as one that was.
TakesAnyStatus ==
  /\ hw.ready = <<>> /\ ~hw.flushed
  /\ Draining("next", "frame")
  /\ UNCHANGED <<picture, hw>>

NoMorePictures ==
  /\ hw.ready = <<>> /\ ~hw.flushed
  /\ Draining("next", "decode")
  /\ UNCHANGED <<picture, hw>>

\* Mutant: the picture is not given back.
Kept(ts) == hw.out

GivenBack(ts) == hw.out \ {ts}

\* OnFrameReady, then H264DecPictureConsumed.
PictureConsumed ==
  /\ Draining("frame", "next")
  /\ hw' = [hw EXCEPT !.out = GivenBack(picture)]
  /\ UNCHANGED picture

--------------------------------------------------------------------------------
(* The end of Run.                                                          *)

\* Mutant: a failed Run keeps the slices.
KeptIfFailed(list) == IF result = "ok" THEN <<>> ELSE list

Freed         == stream - 1
Cleared(list) == <<>>

\* H264DecAbort drops what has not been fetched.
Aborted == [hw EXCEPT !.held = {}, !.ready = <<>>, !.flushed = FALSE, !.repeats = 0]

RunReturns ==
  /\ died = "no"
  /\ pc = "end"
  /\ pc' = "idle"
  /\ hw' = IF result = "ok" THEN hw ELSE Aborted
  /\ stream' = Freed
  /\ slice_data_buffers_' = Cleared(slice_data_buffers_)
  /\ slice_param_buffers_' = Cleared(slice_param_buffers_)
  /\ input' = <<>> /\ result' = "none" /\ picture' = Nil
  /\ begun' = ~ByVaApi
  /\ work' = {}
  /\ UNCHANGED <<pic_param_buffer_, matrix_buffer_, render_target_, current_ts_,
                 ts_to_render_target_, alive, drawn, died>>

Inside ==
  \/ HdrsRdy \/ WaitingForBuffer \/ DecOk \/ PicDecoded \/ PendingFlush
  \/ StrmProcessed \/ NoParameterSets
  \/ PicRdy \/ Flushed \/ NoMorePictures \/ PictureConsumed
  \/ RunReturns

Next ==
  \/ \E surface \in Surfaces : SetRenderTarget(surface)
  \/ \E buffers \in (SUBSET Buffers) \ {{}} : \E list \in SetToSeqs(buffers) : EnqueueWork(list)
  \/ \E b \in Buffers : DestroyBuffer(b) \/ CreateBuffer(b)
  \/ RunDies
  \/ Run
  \/ Recreate
  \/ Inside \/ Error \/ StreamNotSupported

Spec == Init /\ [][Next]_vars

\* Run is called in a thread of the application, which goes on, and the library
\* answers; MaxRepeats says that it does not answer DEC_OK forever. An error that
\* can come at any time is not relied on.
FairSpec == Spec /\ WF_vars(Inside)

--------------------------------------------------------------------------------

\* A picture the library has decoded and may still return finds, under its
\* timestamp, the surface it was decoded for: the cache is "large enough for
\* frame-reordering" (h264_decoder_delegate.cc:563), also when timestamps wrap.
FramesFindTheirTarget ==
  LET pending == hw.held \cup ToSet(hw.ready) \cup hw.out
  IN \A ts \in pending :
       Cache!Has(ts_to_render_target_, ts) /\ Cache!Peek(ts_to_render_target_, ts) = drawn[ts]

\* The decoder is called, and Run returns, only when every picture fetched has
\* been given back: the library does not run out of picture buffers.
PicturesAreGivenBack == pc \in {"idle", "decode", "end"} => hw.out = {}

\* What OnFrameReady is given and H264DecPictureConsumed gives back is a picture
\* the library returned and has not got back yet, once for each picture, in the
\* order of the loop over H264DecNextPicture (h264_decoder_delegate.cc:705-713):
\* unless the library answers DEC_FLUSHED, with which the loop uses whatever the
\* picture held before.
OnlyFetchedPictures == pc = "frame" => picture \in hw.out

\* After Run returns no slices are left, and whatever answers there were the next
\* picture can be enqueued (context_delegate.h:63-65).
RunLeavesNoSlices ==
  Idle /\ work = {} => slice_data_buffers_ = <<>> /\ slice_param_buffers_ = <<>>

\* The cache holds the targets of the latest timestamps, one each, the newest
\* first, however often a target is set for one picture; its index and its list
\* agree (h264_decoder_delegate.cc:601, lru_cache.h:98-127).
CacheHoldsLatestTargets ==
  LET list  == ts_to_render_target_.ordering
      index == ts_to_render_target_.index
  IN /\ DOMAIN index = {list[i].key : i \in DOMAIN list}
     /\ \A i \in DOMAIN list :
          /\ index[list[i].key] = list[i]
          /\ list[i].key = (list[1].key - (i - 1)) % TsMod

\* For a VA-API user the process ends in one way only: Run meets picture parameters
\* with pic_order_cnt_type 1, enqueued for that very Run, before a slice of type 2. That
\* happens although the CHECK(false) at h264_decoder_delegate.cc:438 has the comment "we
\* don't produce pic_order_cnt_type == 1". No other CHECK fails, and Run reads no buffer
\* that is gone.
DiesOnlyOfOrderType ==
  died # "no" => died = "order type" /\ pic_param_buffer_ \in work \cap OrderType1

\* Run returns, whatever the decoder answers.
RunTerminates == pc # "idle" ~> pc = "idle"

\* context_delegate.h:59-60: the buffers need to live until Run returns, so no
\* later Run reads them.
ReadsLiveBuffersOnly == died # "dead buffer"

--------------------------------------------------------------------------------
(* The delegate as its callers see it.                                       *)

\* What the cache has for the timestamp of a picture, which OnFrameReady is to copy
\* the picture to (h264_decoder_delegate.cc:765-770 and 778).
TargetOf(ts) ==
  IF Cache!Has(ts_to_render_target_, ts) THEN Cache!Peek(ts_to_render_target_, ts) ELSE Nil

\* The buffers Run has read, while the library has not decoded their slices.
InStream ==
  IF "slices" \in ToSet(input)
  THEN {pic_param_buffer_} \cup ToSet(slice_param_buffers_) \cup ToSet(slice_data_buffers_)
  ELSE {}

Phase ==
  CASE died = "no"         -> IF pc = "idle" THEN "idle" ELSE "running"
    [] died = "order type" -> "refused"
    [] OTHER               -> "dead"

ToBeOutput  == [ts \in hw.held \cup ToSet(hw.ready) |-> TargetOf(ts)]
BeingOutput == IF pc = "frame" THEN TargetOf(picture) ELSE Nil

Abstract == INSTANCE ContextDelegate WITH
  Frames <- Ts, Unsupported <- OrderType1,
  phase <- Phase, target <- render_target_, enqueued <- work,
  executed <- InStream, frames <- ToBeOutput, output <- BeingOutput

\* For a VA-API user, and unless the library answers DEC_FLUSHED, the delegate keeps the
\* promises of a ContextDelegate: no Run executes what an earlier one left, each picture
\* is output at most once, and to the target of its own work; and the process ends at no
\* call but a Run of picture parameters with pic_order_cnt_type 1.
ImplementsContextDelegate == Abstract!Spec
================================================================================
