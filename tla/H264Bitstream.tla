----------------------------- MODULE H264Bitstream -----------------------------
(***************************************************************************)
(* The stream that H264DecoderDelegate::Run builds for one picture         *)
(* (h264_decoder_delegate.cc:337-559, 619-654): before an I picture a      *)
(* sequence and a picture parameter set, made from what the application    *)
(* passed in the VA picture parameter buffer, and then the slices.         *)
(*                                                                         *)
(* Beside Run, a behaviour may be that of any other client of the builder, *)
(* which appends what it likes (pc is then "client").                      *)
(***************************************************************************)
EXTENDS H264BitstreamBuilder

CONSTANTS
  Profiles,  \* the VAProfile of a context
  Pictures   \* values of VAPictureParameterBufferH264, by field

\* The fields of VAPictureParameterBufferH264 that are read; none is wider than 16 bits.
SignedFields == {"pic_init_qp_minus26", "pic_init_qs_minus26", "chroma_qp_index_offset"}
UnsignedFields ==
  {"chroma_format_idc", "bit_depth_luma_minus8", "bit_depth_chroma_minus8",
   "log2_max_frame_num_minus4", "pic_order_cnt_type", "log2_max_pic_order_cnt_lsb_minus4",
   "num_ref_frames", "gaps_in_frame_num_value_allowed_flag", "picture_width_in_mbs_minus1",
   "picture_height_in_mbs_minus1", "frame_mbs_only_flag", "mb_adaptive_frame_field_flag",
   "direct_8x8_inference_flag", "entropy_coding_mode_flag", "pic_order_present_flag",
   "weighted_pred_flag", "weighted_bipred_idc", "deblocking_filter_control_present_flag",
   "constrained_intra_pred_flag", "redundant_pic_cnt_present_flag"}

ASSUME PicturesAssumption ==
  \A p \in Pictures :
    /\ \A f \in SignedFields : p[f] \in -128..127
    /\ \A f \in UnsignedFields : p[f] \in 0..kMaxValue

VARIABLES
  profile, pic, slice_type,  \* what Run reads
  todo,  \* the slices that are not in the stream yet
  sent,  \* history: the slices that are
  pc     \* where Run is

runVars    == <<profile, pic, slice_type>>
streamVars == <<vars, runVars, todo, sent, pc>>

RunInit ==
  /\ builder = Constructed(FALSE)
  /\ elements = <<>> /\ units = 0
  /\ profile \in Profiles /\ pic \in Pictures
  /\ slice_type \in {0, 1, 2}
  /\ todo \in UNION {[1..n -> Slices] : n \in 1..MaxUnits}
  /\ sent = <<>>
  /\ pc = IF slice_type = 2 THEN "SPS" ELSE "dump"

ClientInit ==
  /\ Init
  /\ profile = CHOOSE p \in Profiles : TRUE
  /\ pic = CHOOSE p \in Pictures : TRUE
  /\ slice_type = 0 /\ todo = <<>> /\ sent = <<>>
  /\ pc = "client"

--------------------------------------------------------------------------------
(* The parameter sets.                                                       *)

If(condition, list) == IF condition THEN list ELSE <<>>
Flags(n)            == [i \in 1..n |-> u(1, 0)]

H264ProfileIDC ==
  [kProfileIDCConstrainedBaseline |-> 66, kProfileIDCMain |-> 77, kProfileIDCHigh |-> 100]

ProfileIdc ==
  [H264ConstrainedBaseline |-> H264ProfileIDC.kProfileIDCConstrainedBaseline,
   H264Main |-> H264ProfileIDC.kProfileIDCMain, H264High |-> H264ProfileIDC.kProfileIDCHigh]
ASSUME ProfilesAssumption == Profiles \subseteq DOMAIN ProfileIdc

kLevelIDC5p1 == 51

\* The fields that only some profiles have: of those above, one.
HighFields(p) ==
  <<ue(p.chroma_format_idc)>> \o If(p.chroma_format_idc = 3, Flags(1))
    \o <<ue(p.bit_depth_chroma_minus8), ue(p.bit_depth_luma_minus8)>> \o Flags(2)


FrameFields(p) ==
  <<u(1, p.frame_mbs_only_flag)>>
    \o If(p.frame_mbs_only_flag = 0, <<u(1, p.mb_adaptive_frame_field_flag)>>)

\* Mutant: an extended aspect ratio, the width and height of which are zero.
ExtendedSAR == <<u(1, 1), u(1, 1), u(8, 255), u(16, 0), u(16, 0)>> \o Flags(8)

\* vui_parameters_present_flag, the aspect ratio, and eight flags that are zero.
VUI == <<u(1, 1), u(1, 1), u(8, 1)>> \o Flags(8)

SPS(idc, p) ==
  <<u(8, idc)>> \o Flags(6) \o <<u(2, 0), u(8, kLevelIDC5p1), ue(0)>>
    \o If(idc = H264ProfileIDC.kProfileIDCHigh, HighFields(p))
    \o <<ue(p.log2_max_frame_num_minus4), ue(p.pic_order_cnt_type)>>
    \o If(p.pic_order_cnt_type = 0, <<ue(p.log2_max_pic_order_cnt_lsb_minus4)>>)
    \o <<ue(p.num_ref_frames), u(1, p.gaps_in_frame_num_value_allowed_flag),
         ue(p.picture_width_in_mbs_minus1), ue(p.picture_height_in_mbs_minus1)>>
    \o FrameFields(p)
    \o <<u(1, p.direct_8x8_inference_flag)>> \o Flags(1) \o VUI

PPS(p) ==
  <<ue(0), ue(0), u(1, p.entropy_coding_mode_flag), u(1, p.pic_order_present_flag), ue(0),
    ue(4), ue(0), u(1, p.weighted_pred_flag), u(2, p.weighted_bipred_idc),
    se(p.pic_init_qp_minus26), se(p.pic_init_qs_minus26), se(p.chroma_qp_index_offset),
    u(1, p.deblocking_filter_control_present_flag), u(1, p.constrained_intra_pred_flag),
    u(1, p.redundant_pic_cnt_present_flag)>>

Packed(nalu_type, list) ==
  FinishNALU(FoldHalves(AppendElement, BeginNALU(builder, nalu_type, 3), list))

Record(nalu_type, list) ==
  /\ elements' = WithStopBit(elements \o StartCode \o <<u(1, 0), u(2, 3), u(5, nalu_type)>> \o list)
  /\ units' = units + 1

\* CHECK(false) where pic_order_cnt_type is 1.
BuildPackedH264SPS ==
  /\ pc = "SPS"
  /\ LET packed == Packed(kSPS, SPS(ProfileIdc[profile], pic))
     IN builder' = [packed EXCEPT !.trapped = @ \/ pic.pic_order_cnt_type = 1]
  /\ Record(kSPS, SPS(ProfileIdc[profile], pic))
  /\ pc' = "PPS"
  /\ UNCHANGED <<runVars, todo, sent>>

BuildPackedH264PPS ==
  /\ pc = "PPS" /\ ~builder.trapped
  /\ builder' = Packed(kPPS, PPS(pic)) /\ Record(kPPS, PPS(pic))
  /\ pc' = "dump"
  /\ UNCHANGED <<runVars, todo, sent>>

\* The parameter sets, if there are any, are written to a file.
DumpParameterSets ==
  /\ pc = "dump" /\ ~builder.trapped
  /\ builder' = ReadOut(builder)
  /\ pc' = "slices"
  /\ UNCHANGED <<elements, units, runVars, todo, sent>>

\* One slice, after a start code.
AppendNextSlice ==
  /\ pc = "slices" /\ todo # <<>> /\ ~builder.trapped
  /\ AppendSlice(Head(todo))
  /\ todo' = Tail(todo)
  /\ sent' = Append(sent, Head(todo))
  /\ UNCHANGED <<runVars, pc>>

\* The stream is flushed, written to a file and copied for the hardware.
FlushStream ==
  /\ pc = "slices" /\ todo = <<>> /\ ~builder.trapped
  /\ builder' = ReadOut(IF builder.reg # <<>> THEN FlushReg(builder) ELSE builder)
  /\ pc' = "decode"
  /\ UNCHANGED <<elements, units, runVars, todo, sent>>

RunNext ==
  \/ BuildPackedH264SPS \/ BuildPackedH264PPS \/ DumpParameterSets
  \/ AppendNextSlice \/ FlushStream

ClientNext ==
  /\ pc = "client"
  /\ Next
  /\ UNCHANGED <<runVars, todo, sent, pc>>

StreamSpec == (RunInit \/ ClientInit) /\ [][RunNext \/ ClientNext]_streamVars

--------------------------------------------------------------------------------
(* A decoder.                                                                *)

StartsAt(bytes) ==
  {i \in 1..(Len(bytes) - 3) : SubSeq(bytes, i, i + 3) = <<0, 0, 0, 1>>}

\* The bytes between the start codes.
UnitsIn(bytes) ==
  LET starts == SetToSortSeq(StartsAt(bytes), <)
  IN [k \in DOMAIN starts |->
        SubSeq(bytes, starts[k] + 4, IF k = Len(starts) THEN Len(bytes) ELSE starts[k + 1] - 1)]

Field(name, kind, bits, condition) ==
  [name |-> name, kind |-> kind, bits |-> bits, condition |-> condition]
Always(name, kind, bits) == Field(name, kind, bits, "always")

\* Clause 7.3.2.1.1 of the H.264 specification, up to the flag of the VUI.
SPSSyntax ==
  <<Always("nal_unit_header", "u", 8), Always("profile_idc", "u", 8),
    Always("constraint_set_flags", "u", 8), Always("level_idc", "u", 8),
    Always("seq_parameter_set_id", "ue", 0),
    Field("chroma_format_idc", "ue", 0, "high"),
    Field("separate_colour_plane_flag", "u", 1, "444"),
    Field("bit_depth_luma_minus8", "ue", 0, "high"),
    Field("bit_depth_chroma_minus8", "ue", 0, "high"),
    Field("qpprime_y_zero_transform_bypass_flag", "u", 1, "high"),
    Field("seq_scaling_matrix_present_flag", "u", 1, "high"),
    Always("log2_max_frame_num_minus4", "ue", 0), Always("pic_order_cnt_type", "ue", 0),
    Field("log2_max_pic_order_cnt_lsb_minus4", "ue", 0, "poc0"),
    Always("num_ref_frames", "ue", 0), Always("gaps_in_frame_num_value_allowed_flag", "u", 1),
    Always("picture_width_in_mbs_minus1", "ue", 0), Always("picture_height_in_mbs_minus1", "ue", 0),
    Always("frame_mbs_only_flag", "u", 1),
    Field("mb_adaptive_frame_field_flag", "u", 1, "fields"),
    Always("direct_8x8_inference_flag", "u", 1), Always("frame_cropping_flag", "u", 1),
    Always("vui_parameters_present_flag", "u", 1)>>

\* Clause 7.3.2.2, for one slice group.
PPSSyntax ==
  <<Always("nal_unit_header", "u", 8), Always("pic_parameter_set_id", "ue", 0),
    Always("pps_seq_parameter_set_id", "ue", 0), Always("entropy_coding_mode_flag", "u", 1),
    Always("pic_order_present_flag", "u", 1), Always("num_slice_groups_minus1", "ue", 0),
    Always("num_ref_idx_l0_default_active_minus1", "ue", 0),
    Always("num_ref_idx_l1_default_active_minus1", "ue", 0),
    Always("weighted_pred_flag", "u", 1), Always("weighted_bipred_idc", "u", 2),
    Always("pic_init_qp_minus26", "se", 0), Always("pic_init_qs_minus26", "se", 0),
    Always("chroma_qp_index_offset", "se", 0),
    Always("deblocking_filter_control_present_flag", "u", 1),
    Always("constrained_intra_pred_flag", "u", 1), Always("redundant_pic_cnt_present_flag", "u", 1),
    Always("rbsp_stop_one_bit", "u", 1)>>

Present(condition, read) ==
  CASE condition = "always" -> TRUE
    [] condition = "high"   -> read.profile_idc = 100
    [] condition = "444"    -> read.profile_idc = 100 /\ read.chroma_format_idc = 3
    [] condition = "poc0"   -> read.pic_order_cnt_type = 0
    [] condition = "fields" -> read.frame_mbs_only_flag = 0

Parse(syntax, unit) ==
  FoldLeft(LAMBDA r, f :
             IF ~Present(f.condition, r.read) THEN r
             ELSE LET one == Read(f.kind, f.bits, r.rest)
                  IN [read |-> [n \in DOMAIN r.read \cup {f.name} |->
                                  IF n = f.name THEN one.value ELSE r.read[n]],
                      rest |-> one.rest],
           [read |-> [n \in {} |-> 0], rest |-> AllBits(Unescape(unit))], syntax)

\* The stream has the units it should have, in the order a decoder needs them,
\* although no emulation prevention bytes are put into it: no parameter set looks
\* like a start code to the decoder, and each slice is whole
\* (h264_decoder_delegate.cc:627-654).
StreamSplitsIntoUnits ==
  pc = "decode" =>
    LET found == UnitsIn(builder.data)
        sets  == IF slice_type = 2 THEN 2 ELSE 0
    IN /\ SubSeq(found, sets + 1, Len(found)) = sent
       /\ [k \in 1..sets |-> found[k][1]] = SubSeq(<<103, 104>>, 1, sets)
       /\ \A k \in 1..sets : StartCodesIn(found[k]) = {} /\ Unescape(found[k]) = found[k]

================================================================================
