---------------------------- MODULE MCStreamSyntax ----------------------------
(***************************************************************************)
(* The streams that StreamSyntax.cfg considers: a plain one and, for each  *)
(* field of the configurations, streams that differ from it there.         *)
(***************************************************************************)
EXTENDS StreamSyntax

Plainest ==
  [width |-> 360, height |-> 200, colourspace |-> "YUV420", bit_depth |-> 8, base_depth |-> 8, fps |-> 50,
   num_image_planes |-> 3, num_processed_planes |-> 1, encoding_transform_type |-> "dd",
   predicted_residual |-> TRUE, temporal_enabled |-> FALSE, temporal_use_reduced_signalling |-> TRUE,
   temporal_step_width_modifier |-> 48, temporal_cq_sw_multiplier |-> 1000,
   delta_sw_mult |-> (1 :> 1000 @@ 2 :> 1000 @@ 4 :> 1000 @@ 8 :> 1000),
   encoding_upsample |-> "ModifiedCubic", upsampling_coefficients |-> <<1382, 14285, 3942, 461>>,
   level_1_filtering |-> <<0, 0>>, level_1_filtering_enabled |-> FALSE,
   scaling_mode |-> (LOQ_LEVEL_1 :> "None" @@ LOQ_LEVEL_2 :> "2D"),
   user_data_enabled |-> "None", level1_depth_flag |-> FALSE, chroma_step_width_multiplier |-> 64,
   tile_width |-> 0, tile_height |-> 0,
   compression_type_entropy_enabled_per_tile |-> FALSE, compression_type_size_per_tile |-> "None",
   sublevel_idc |-> 1, picture_type |-> "Frame", step_width_1 |-> 500, step_width_2 |-> 1000,
   dithering_control |-> FALSE, dithering_type |-> "Uniform", dithering_strength |-> 4,
   dequant_offset |-> 0, dequant_offset_mode |-> "Default", quant_matrix_mode |-> "BothPrevious",
   qm_coefficient |-> (LOQ_LEVEL_1 :> <<1, 2, 3, 4>> @@ LOQ_LEVEL_2 :> <<250, 6, 7, 8>>),
   base_encoder |-> "AVC", encapsulation |-> "NAL",
   no_enhancement_temporal_layer |-> FALSE, additional_info_present |-> FALSE, additional_info_type |-> 0]

With(changes) == changes @@ Plainest

Larger == [width |-> 366, height |-> 206]
Temporal == [temporal_enabled |-> TRUE, num_processed_planes |-> 3]
Empty == [step_width_1 |-> MAX_STEP_WIDTH, step_width_2 |-> MAX_STEP_WIDTH]
Raised(one, two) == [delta_sw_mult |-> (1 :> one @@ 2 :> two @@ 4 :> 1000 @@ 8 :> 1000)]
Modes(l1, l2) == [scaling_mode |-> (LOQ_LEVEL_1 :> l1 @@ LOQ_LEVEL_2 :> l2)]
Tiles(w, h) == [tile_width |-> w, tile_height |-> h]
Sixteen == [i \in 1 .. 16 |-> 9 + i]

Filterings ==
  {With([level_1_filtering |-> <<3, 5>>, level_1_filtering_enabled |-> TRUE]),
   With([step_width_1 |-> MAX_STEP_WIDTH, level_1_filtering_enabled |-> TRUE])}

Sizes ==
  {With(Larger), With(Larger @@ Modes("2D", "2D") @@ [num_processed_planes |-> 3]),
   With(Larger @@ Modes("1D", "1D")), With(Modes("1D", "None")),
   With([colourspace |-> "Y"]), With([colourspace |-> "YUV422", num_processed_planes |-> 3]),
   With([colourspace |-> "YUV444", num_processed_planes |-> 3, base_depth |-> 10, bit_depth |-> 12]),
   With(Larger @@ [encoding_transform_type |-> "dds", num_processed_planes |-> 3,
                   qm_coefficient |-> (LOQ_LEVEL_1 :> Sixteen @@ LOQ_LEVEL_2 :> Sixteen), quant_matrix_mode |-> "Same"])}

Globals ==
  {With([predicted_residual |-> FALSE, level1_depth_flag |-> TRUE, user_data_enabled |-> "6bits"]),
   With([chroma_step_width_multiplier |-> 30, fps |-> 30, sublevel_idc |-> 0]),
   With([encoding_upsample |-> "AdaptiveCubic"]),
   With([additional_info_present |-> TRUE]), With([additional_info_present |-> TRUE, additional_info_type |-> 1])}

Pictures ==
  {With([quant_matrix_mode |-> m, num_processed_planes |-> 3]) :
      m \in {"BothDefault", "Level2Custom", "Level1Custom", "Different"}}
    \cup {With([dequant_offset |-> 9, dequant_offset_mode |-> "ConstOffset"]), With([picture_type |-> "Field"]),
          With([dithering_control |-> TRUE]), With([dithering_control |-> TRUE, dithering_type |-> "None"]),
          With(Empty), With(Raised(1200, 2000))}

Temporals ==
  {With(Temporal), With(Temporal @@ [temporal_cq_sw_multiplier |-> 500, temporal_step_width_modifier |-> 12]),
   With(Temporal @@ Empty @@ [temporal_cq_sw_multiplier |-> 500]),
   With(Temporal @@ Raised(1000, 1500) @@ [step_width_1 |-> MAX_STEP_WIDTH, step_width_2 |-> 30000]),
   With(Temporal @@ Raised(1500, 1000) @@ [step_width_1 |-> MAX_STEP_WIDTH, step_width_2 |-> 30000]),
   With(Temporal @@ Empty @@ [temporal_cq_sw_multiplier |-> 500, no_enhancement_temporal_layer |-> TRUE,
                              temporal_use_reduced_signalling |-> FALSE])}

Tilings ==
  {With(Tiles(128, 64)), With(Tiles(512, 256) @@ Temporal), With(Tiles(1024, 512)),
   With(Tiles(256, 256) @@ Empty @@ [compression_type_entropy_enabled_per_tile |-> TRUE,
                                     compression_type_size_per_tile |-> "Prefix_OnDiff"])}

(* Every base encoder, and each of its ways to carry enhancement; the      *)
(* packets of the second kind are longer than a byte can say.              *)
Carried(base, encapsulation, ps) ==
  {[p EXCEPT !.base_encoder = base, !.encapsulation = encapsulation] : p \in ps}
Dds == With([encoding_transform_type |-> "dds", num_processed_planes |-> 3])

MCStreams ==
  {Plainest} \cup Carried("HEVC", "NAL", Filterings) \cup Carried("AVC", "SEI_Registered", Globals)
    \cup Carried("AVC", "SEI_Unregistered", Pictures) \cup Carried("VVC", "NAL", Temporals)
    \cup Carried("EVC", "NAL", Tilings) \cup Sizes
    \cup UNION {Carried(base, encapsulation, {Dds}) :
                   base \in {"HEVC", "VVC"}, encapsulation \in {"SEI_Registered", "SEI_Unregistered"}}
    \cup Carried("X265", "None", {Dds}) \cup Carried("AVC", "SEI_Registered", {Dds})

(* Spliced behind a stream that signals what they leave out, and more.     *)
MCSplicedStreams == {Plainest, With(Temporal @@ Larger), With(Tiles(128, 64)), With([quant_matrix_mode |-> "Level1Custom"])}

(* What base encoders make of a picture: parameter sets if it is intra,    *)
(* supplemental information of others, and a slice.  Start codes have      *)
(* three bytes and four.                                                   *)
Foreign == <<5, 18>> \o [i \in 1 .. 16 |-> i] \o <<9, 9, 128>>
Long(header) == <<0>> \o StartCode \o header
Short(header) == StartCode \o header
Slice == <<3, 0, 0, 3, 1, 0, 255, 123, 0, 0, 3>>

MCBaseUnit(base, type) ==
  LET sets == CASE base = "AVC" -> <<Unit(7, Long(<<103, 100, 0, 31>>)), Unit(8, Long(<<104, 206>>))>>
                [] base \in {"HEVC", "X265"} ->
                     <<Unit(32, Long(<<64, 1, 12>>)), Unit(33, Long(<<66, 1, 1>>)), Unit(34, Short(<<68, 1, 193>>))>>
                [] base = "VVC" -> <<Unit(15, Long(<<0, 121, 0, 0, 3, 2>>)), Unit(16, Short(<<0, 129, 7>>))>>
                [] base = "EVC" -> <<Unit(24, U32(4) \o <<50, 0, 7, 7>>), Unit(25, U32(3) \o <<52, 0, 7>>)>>
      begin == CASE base = "AVC" -> <<Unit(9, Long(<<9, 16>>))>> [] OTHER -> <<>>
      sei   == CASE base = "AVC" -> <<Unit(6, Short(<<6>> \o Foreign))>>
                 [] base \in {"HEVC", "X265"} -> <<Unit(39, Short(<<78, 1>> \o Foreign))>>
                 [] base = "VVC" -> <<Unit(23, Short(<<0, 185>> \o Foreign))>>
                 [] base = "EVC" -> <<>>
      slice == CASE base = "AVC" -> <<Unit(IF type = "IDR" THEN 5 ELSE 1, Short(<<IF type = "IDR" THEN 101 ELSE 65>> \o Slice))>>
                 [] base \in {"HEVC", "X265"} -> <<Unit(1, Long(<<2, 1>> \o Slice))>>
                 [] base = "VVC" -> <<Unit(0, Long(<<0, 1>> \o Slice))>>
                 [] base = "EVC" -> <<Unit(0, U32(2 + Len(Slice)) \o <<2, 0>> \o Slice)>>
  IN  [temporal_id |-> IF type = "Inter" THEN 1 ELSE 0,
       units |-> begin \o (IF Intra(type) THEN sets ELSE <<>>) \o sei \o slice]

(* Of a kind, the symbols of the tiles: none, one tile of each plane, all  *)
(* different.                                                              *)
MCContent(kind, layer, tile) ==
  CASE kind = "Blank"  -> 0
    [] kind = "Sparse" -> IF layer[2] = LOQ_LEVEL_2 /\ tile = 1 THEN 7 + layer[3] ELSE 0
    [] kind = "Busy"   -> (1 + 37 * layer[1] + 17 * layer[2] + layer[3] + 5 * tile) % 120
=============================================================================
