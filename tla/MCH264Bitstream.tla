---------------------------- MODULE MCH264Bitstream ----------------------------
EXTENDS H264Bitstream

\* A low and a high value of each field.
Range2 ==
  [chroma_format_idc |-> <<1, 1>>, bit_depth_luma_minus8 |-> <<0, 0>>,
   bit_depth_chroma_minus8 |-> <<0, 0>>, log2_max_frame_num_minus4 |-> <<0, 12>>,
   pic_order_cnt_type |-> <<0, 2>>, log2_max_pic_order_cnt_lsb_minus4 |-> <<0, 12>>,
   num_ref_frames |-> <<1, 16>>, gaps_in_frame_num_value_allowed_flag |-> <<0, 1>>,
   picture_width_in_mbs_minus1 |-> <<44, 255>>, picture_height_in_mbs_minus1 |-> <<29, 255>>,
   frame_mbs_only_flag |-> <<0, 1>>, mb_adaptive_frame_field_flag |-> <<0, 1>>,
   direct_8x8_inference_flag |-> <<0, 1>>,
   entropy_coding_mode_flag |-> <<0, 1>>, pic_order_present_flag |-> <<0, 1>>,
   weighted_pred_flag |-> <<0, 1>>, weighted_bipred_idc |-> <<0, 2>>,
   pic_init_qp_minus26 |-> <<-26, 25>>, pic_init_qs_minus26 |-> <<-26, 25>>,
   chroma_qp_index_offset |-> <<-12, 12>>,
   deblocking_filter_control_present_flag |-> <<0, 1>>, constrained_intra_pred_flag |-> <<0, 1>>,
   redundant_pic_cnt_present_flag |-> <<0, 1>>]

Fields == DOMAIN Range2

Picture(high) == [f \in Fields |-> Range2[f][IF f \in high THEN 2 ELSE 1]]

\* All fields low or high but for at most one.
MCPictures ==
  {Picture({f}) : f \in Fields} \cup {Picture(Fields \ {f}) : f \in Fields}

MCElements == {u(1, 0), u(1, 1), u(8, 3), u(16, 0), ue(9), se(-2)}

MCSlices == {<<101, 0, 0, 3, 1>>, <<65, 128>>}
================================================================================
