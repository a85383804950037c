------------------------- MODULE StreamConfiguration -------------------------
(***************************************************************************)
(* The configurations of the enhancement (SignaledConfiguration.hpp) and   *)
(* what follows from them on both sides: the sizes of planes, layers and   *)
(* tiles (decoder/src/Dimensions.cpp, which the encoder uses too) and the  *)
(* quantisation matrices; and how the encoder makes its configuration from *)
(* the user's parameters (encoder/src/Encoder.cpp).                        *)
(*                                                                         *)
(* A size is a pair of a width and a height.  An enumerator is a string.   *)
(* Parameters are a record with one field for each parameter that reaches  *)
(* the stream; the defaults of ParameterDefaults.cpp were applied before.  *)
(***************************************************************************)
EXTENDS Integers, Sequences, SequencesExt

LOQ_LEVEL_1 == 0
LOQ_LEVEL_2 == 1
Loqs == {LOQ_LEVEL_1, LOQ_LEVEL_2}
MAX_STEP_WIDTH == 32767

CeilDiv(a, b) == (a + b - 1) \div b

-----------------------------------------------------------------------------
(* Dimensions *)

ChromaScale(g) ==
  CASE g.colourspace = "YUV420" -> <<2, 2>>
    [] g.colourspace = "YUV422" -> <<2, 1>>
    [] OTHER                    -> <<1, 1>>

Scale(g, plane) == IF plane = 0 THEN <<1, 1>> ELSE ChromaScale(g)

(* set_loq_dimensions *)
PlaneOf(g, plane, size) == [i \in 1 .. 2 |-> CeilDiv(size[i], Scale(g, plane)[i])]

(* set_dimensions: level 1 is half of level 2 where that is upsampled. *)
LevelOf(g, loq, size) ==
  IF loq = LOQ_LEVEL_2 THEN size
  ELSE CASE g.scaling_mode[LOQ_LEVEL_2] = "None" -> size
         [] g.scaling_mode[LOQ_LEVEL_2] = "1D"   -> <<CeilDiv(size[1], 2), size[2]>>
         [] g.scaling_mode[LOQ_LEVEL_2] = "2D"   -> <<CeilDiv(size[1], 2), CeilDiv(size[2], 2)>>

PlaneSize(g, plane, loq, size) == PlaneOf(g, plane, LevelOf(g, loq, size))

(* set_plane_dimensions: a layer has one value per transform block. *)
LayerSize(g, plane, loq, size) ==
  [i \in 1 .. 2 |-> CeilDiv(PlaneSize(g, plane, loq, size)[i], g.transform_block_size)]

(* The tile is signalled in top level luma pels and counted in blocks. *)
TileSize(g, plane) ==
  IF g.tile_width # 0 /\ g.tile_height # 0
    THEN <<g.tile_width \div (g.transform_block_size * Scale(g, plane)[1]),
           g.tile_height \div (g.transform_block_size * Scale(g, plane)[2])>>
    ELSE <<0, 0>>

(* Faulty variant of DoubledTo: doubled until it is larger, not as large.  *)
RECURSIVE DoubledBeyond(_, _)
DoubledBeyond(w, width) == IF w <= width THEN DoubledBeyond(2 * w, width) ELSE w

RECURSIVE DoubledTo(_, _)
DoubledTo(w, width) == IF w < width THEN DoubledTo(2 * w, width) ELSE w

(* Dimensions::set: whole blocks in the smallest enhanced plane, doubled   *)
(* until they cover the picture.                                           *)
Conformant(g, size) ==
  LET layer == LayerSize(g, g.num_processed_planes - 1, LOQ_LEVEL_1, size)
  IN  [i \in 1 .. 2 |-> DoubledTo(layer[i] * g.transform_block_size, size[i])]

Halved(mode, size) ==
  CASE mode = "None" -> size
    [] mode = "1D"   -> <<size[1] \div 2, size[2]>>
    [] mode = "2D"   -> <<size[1] \div 2, size[2] \div 2>>

IntermediateSize(g, size) == Halved(g.scaling_mode[LOQ_LEVEL_2], Conformant(g, size))
BaseSize(g, size) == Halved(g.scaling_mode[LOQ_LEVEL_1], IntermediateSize(g, size))

CropUnit(g, plane) == IF plane = 0 THEN ChromaScale(g) ELSE <<1, 1>>

-----------------------------------------------------------------------------
(* The encoder's configuration *)

TileDimensionsType(width, height) ==
  CASE width = 0 /\ height = 0      -> "None"
    [] width = 512 /\ height = 256  -> "512x256"
    [] width = 1024 /\ height = 512 -> "1024x512"
    [] OTHER                        -> "Custom"

(* update_global_configuration, but for the resolution *)
GlobalWithoutResolution(p) ==
  [colourspace |-> p.colourspace,
   base_depth |-> p.base_depth,
   enhancement_depth |-> p.bit_depth,
   num_image_planes |-> p.num_image_planes,
   num_processed_planes |-> p.num_processed_planes,
   transform_block_size |-> IF p.encoding_transform_type = "dd" THEN 2 ELSE 4,
   num_residual_layers |-> IF p.encoding_transform_type = "dd" THEN 4 ELSE 16,
   predicted_residual_enabled |-> p.predicted_residual,
   temporal_enabled |-> p.temporal_enabled,
   temporal_tile_intra_signalling_enabled |-> p.temporal_use_reduced_signalling,
   temporal_step_width_modifier |-> p.temporal_step_width_modifier,
   upsample |-> p.encoding_upsample,
   upsampling_coefficients |-> p.upsampling_coefficients,
   level_1_filtering |-> p.level_1_filtering,
   scaling_mode |-> p.scaling_mode,
   user_data_enabled |-> p.user_data_enabled,
   level1_depth_flag |-> p.level1_depth_flag,
   chroma_step_width_multiplier |-> p.chroma_step_width_multiplier,
   tile_dimensions_type |-> TileDimensionsType(p.tile_width, p.tile_height),
   tile_width |-> p.tile_width,
   tile_height |-> p.tile_height,
   compression_type_entropy_enabled_per_tile |-> p.compression_type_entropy_enabled_per_tile,
   compression_type_size_per_tile |-> p.compression_type_size_per_tile,
   resolution |-> <<p.width, p.height>>]

(* The encoded size, from which the conformance window cuts the picture. *)
EncoderGlobal(p) ==
  LET g == GlobalWithoutResolution(p)
  IN  [g EXCEPT !.resolution = Conformant(g, <<p.width, p.height>>)]

LevelOfRate(rate) ==
  CASE rate <= 29410000   -> 1
    [] rate <= 124560000  -> 2
    [] rate <= 527650000  -> 3
    [] OTHER              -> 4

(* Faulty variant of ConformanceWindow: the right and the bottom offset    *)
(* are swapped.                                                            *)
ConformanceWindowSwapped(p, g) ==
  IF g.resolution = <<p.width, p.height>> THEN [on |-> FALSE, offsets |-> <<0, 0, 0, 0>>]
  ELSE [on |-> TRUE, offsets |-> <<0, (g.resolution[2] - p.height) \div 2,
                                   0, (g.resolution[1] - p.width) \div 2>>]

(* The offsets are left, right, top, bottom; the right and the bottom are  *)
(* halved, which suits planes whose chroma is halved.                      *)
ConformanceWindow(p, g) ==
  IF g.resolution = <<p.width, p.height>> THEN [on |-> FALSE, offsets |-> <<0, 0, 0, 0>>]
  ELSE [on |-> TRUE, offsets |-> <<0, (g.resolution[1] - p.width) \div 2,
                                   0, (g.resolution[2] - p.height) \div 2>>]

(* update_sequence_configuration *)
EncoderSequence(p) ==
  LET g == EncoderGlobal(p)
  IN  [profile_idc |-> IF p.colourspace \in {"YUV422", "YUV444"} THEN "Main444" ELSE "Main",
       level_idc |-> LevelOfRate(g.resolution[1] * g.resolution[2] * p.fps),
       sublevel_idc |-> p.sublevel_idc,
       conformance_window |-> ConformanceWindow(p, g).on,
       conf_win_offsets |-> ConformanceWindow(p, g).offsets]

(* update_picture_configuration *)
DequantOffsetSignalled(p) ==
  ~(p.dequant_offset = 0 /\ p.dequant_offset_mode = "Default")

-----------------------------------------------------------------------------
(* Quantisation matrices: default_qm_coefficient_2x2 and _4x4, by row. *)

DefaultCoefficients2x2 ==
  <<<<0, 2, 0, 0>>, <<32, 3, 0, 32>>, <<0, 3, 0, 32>>>>
DefaultCoefficients4x4 ==
  <<<<13, 26, 19, 32, 52, 1, 78, 9, 13, 26, 19, 32, 150, 91, 91, 19>>,
    <<13, 26, 19, 32, 52, 1, 78, 9, 26, 72, 0, 3, 150, 91, 91, 19>>,
    <<0, 0, 0, 2, 52, 1, 78, 9, 26, 72, 0, 3, 150, 91, 91, 19>>>>

DefaultMatrix(g, loq) ==
  LET row == IF loq = LOQ_LEVEL_1 THEN 3
             ELSE IF g.scaling_mode[loq] = "1D" THEN 1 ELSE 2
  IN  IF g.num_residual_layers = 4 THEN DefaultCoefficients2x2[row] ELSE DefaultCoefficients4x4[row]

(* The levels whose matrix the mode takes from the picture configuration. *)
CustomLoqs(mode) ==
  CASE mode = "Same"               -> Loqs
    [] mode = "Level2Custom"       -> {LOQ_LEVEL_2}
    [] mode = "Level1Custom"       -> {LOQ_LEVEL_1}
    [] mode = "Different"          -> Loqs
    [] OTHER                       -> {}

(* The coefficients that serve a level: one matrix serves both if "Same". *)
CustomMatrix(picture, loq) ==
  IF loq = LOQ_LEVEL_2 \/ picture.quant_matrix_mode = "Same"
    THEN picture.qm_coefficient_2 ELSE picture.qm_coefficient_1

NoMatrix == <<>>

(* Faulty variant of MatrixOf: the coefficients of level 1 serve each      *)
(* level that has its own.                                                 *)
MatrixOfLevel1(g, picture, loq, is_idr, previous) ==
  IF loq \in CustomLoqs(picture.quant_matrix_mode) THEN picture.qm_coefficient_1 ELSE DefaultMatrix(g, loq)

(* find_quant_matrix_coeff for all layers *)
MatrixOf(g, picture, loq, is_idr, previous) ==
  CASE loq \in CustomLoqs(picture.quant_matrix_mode)     -> CustomMatrix(picture, loq)
    [] picture.quant_matrix_mode = "BothPrevious" /\ ~is_idr /\ previous # NoMatrix -> previous
    [] OTHER                                             -> DefaultMatrix(g, loq)

(* update_picture_configuration_in_loop: the coefficients that the encoder *)
(* puts into the picture configuration, from those it put there before.    *)
CoefficientsInLoop(p, g, is_idr, enhanced, memory) ==
  LET default == [l \in Loqs |-> DefaultMatrix(g, l)]
      mode    == p.quant_matrix_mode
  IN  IF is_idr /\ ~enhanced THEN default
      ELSE CASE mode = "BothPrevious" -> memory
             [] mode = "BothDefault"  -> default
             [] mode = "Same"         -> [l \in Loqs |-> p.qm_coefficient[LOQ_LEVEL_2]]
             [] mode = "Level2Custom" -> [memory EXCEPT ![LOQ_LEVEL_2] = p.qm_coefficient[LOQ_LEVEL_2]]
             [] mode = "Level1Custom" -> [memory EXCEPT ![LOQ_LEVEL_1] = p.qm_coefficient[LOQ_LEVEL_1]]
             [] mode = "Different"    -> p.qm_coefficient
=============================================================================
