---------------------------- MODULE StreamSyntax ----------------------------
(***************************************************************************)
(* The enhancement data of a picture as bits, and on their way in the      *)
(* access unit of a base picture (Encapsulation).  The encoder keeps its   *)
(* configuration (encoder/src/Encoder.cpp) and the serializer writes what  *)
(* the decoder cannot infer (encoder/src/Serializer.cpp); the deserializer *)
(* (decoder/src/Deserializer.cpp) reads it into a configuration that the   *)
(* decoder (decoder/src/Decoder.cpp) keeps from picture to picture, and    *)
(* from stream to stream when one is spliced behind another.               *)
(*                                                                         *)
(* The entropy coders are those of EntropyCoder: here a tile is a number,  *)
(* zero if nothing in it differs from zero, with a code of run lengths and *)
(* a Huffman code of these; a layer without tiles is one.  The temporal    *)
(* layer of a tiled picture without enhancement is left to TemporalLoop,   *)
(* and the compressed lists of tile flags and sizes to EntropyCoder.       *)
(***************************************************************************)
EXTENDS StreamConfiguration, Bitstream, Encapsulation, TLC

CONSTANTS
  Streams,        \* the parameters of the encoders considered
  SplicedStreams, \* those of an encoder whose stream follows another
  Contents,       \* kinds of pictures
  Content(_, _, _), \* the symbols of a tile: of kind, <<plane, loq, layer>>, tile
  BaseUnit(_, _),   \* what a base encoder makes of a picture: its temporal id and NAL units
  MaxPictures,    \* pictures encoded, of all streams
  MaxStreams      \* streams spliced together

ASSUME BoundsAssumption == MaxPictures \in Nat /\ MaxStreams \in Nat \ {0}

FrameTypes == {"IDR", "Intra", "Inter"}
Intra(type) == type \in {"IDR", "Intra"}

(* The types that the parser of a base codec reports: HEVC and EVC have no *)
(* IDR.                                                                    *)
FrameTypesOf(base) == IF base \in {"AVC", "VVC"} THEN FrameTypes ELSE {"Intra", "Inter"}

VARIABLES
  params,      \* the parameters of the encoder at work
  enc,         \* its memory: step width, residuals held, matrices
  sent,        \* what it has put into the packet
  au,          \* the bytes of the access unit on its way
  scan,        \* what the decoder found in an access unit, and what it left
  packet,      \* the blocks of the packet that are not parsed yet
  dec,         \* the decoder: configurations, sizes, matrices, symbols
  pictures, streams

vars == <<params, enc, sent, au, scan, packet, dec, pictures, streams>>

Nothing == [nothing |-> TRUE]

-----------------------------------------------------------------------------
(* Enumerators in the order of their codes. *)
Profiles == <<"Main", "Main444">>
Colourspaces == <<"Y", "YUV420", "YUV422", "YUV444">>
Depths == <<8, 10, 12, 14>>
Upsamples == <<"Nearest", "Linear", "Cubic", "ModifiedCubic", "AdaptiveCubic">>
ScalingModes == <<"None", "1D", "2D">>
TileDimensions == <<"None", "512x256", "1024x512", "Custom">>
UserDataModes == <<"None", "2bits", "6bits">>
CompressionTypes == <<"None", "Prefix", "Prefix_OnDiff">>
QuantMatrixModes == <<"BothPrevious", "BothDefault", "Same", "Level2Custom", "Level1Custom", "Different">>
PictureTypes == <<"Frame", "Field">>
FieldTypes == <<"Top", "Bottom">>
DequantOffsets == <<"Default", "ConstOffset">>
DitheringTypes == <<"None", "Uniform">>

ResolutionTable ==
  <<<<0, 0>>, <<360, 200>>, <<400, 240>>, <<480, 320>>, <<640, 360>>, <<640, 480>>, <<768, 480>>,
    <<800, 600>>, <<852, 480>>, <<854, 480>>, <<856, 480>>, <<960, 540>>, <<960, 640>>, <<1024, 576>>,
    <<1024, 600>>, <<1024, 768>>, <<1152, 864>>, <<1280, 720>>, <<1280, 800>>, <<1280, 1024>>,
    <<1360, 768>>, <<1366, 768>>, <<1440, 1050>>, <<1440, 900>>, <<1600, 1200>>, <<1680, 1050>>,
    <<1920, 1080>>, <<1920, 1200>>, <<2048, 1080>>, <<2048, 1152>>, <<2048, 1536>>, <<2160, 1440>>,
    <<2560, 1440>>, <<2560, 1600>>, <<2560, 2048>>, <<3200, 1800>>, <<3200, 2048>>, <<3200, 2400>>,
    <<3440, 1440>>, <<3840, 1600>>, <<3840, 2160>>, <<3840, 3072>>, <<4096, 2160>>, <<4096, 3072>>,
    <<5120, 2880>>, <<5120, 3200>>, <<5120, 4096>>, <<6400, 4096>>, <<6400, 4800>>, <<7680, 4320>>,
    <<7680, 4800>>>>
ExplicitResolution == 63

CodeOf(table, x) == (CHOOSE i \in DOMAIN table : table[i] = x) - 1
Known(table, code) == code < Len(table)
NameOf(table, code) == IF Known(table, code) THEN table[code + 1] ELSE "unknown"

-----------------------------------------------------------------------------
(* Serializer *)

Concat(parts) == FlattenSeq(parts)
Flag(b) == Bits(1, IF b THEN 1 ELSE 0)
If(b, bits) == IF b THEN bits ELSE <<>>
Enum(n, table, x) == Bits(n, CodeOf(table, x))
Each(n, values) == Concat([i \in DOMAIN values |-> Bits(n, values[i])])

(* Level 15 and its extension cannot be configured. *)
emit_sequence_configuration(s) ==
  Concat(<<Enum(4, Profiles, s.profile_idc), Bits(4, s.level_idc), Bits(2, s.sublevel_idc),
           Flag(s.conformance_window), Bits(5, 0),
           If(s.conformance_window,
              Concat([i \in 1 .. 4 |-> Multibyte(s.conf_win_offsets[i])]))>>)

ResolutionType(size) ==
  IF size \in ToSet(ResolutionTable) THEN CodeOf(ResolutionTable, size) ELSE ExplicitResolution

Filtered(g) == g.level_1_filtering # <<0, 0>>

emit_tile_configuration(g) ==
  Concat(<<If(g.tile_dimensions_type = "Custom", Bits(16, g.tile_width) \o Bits(16, g.tile_height)),
           Bits(5, 0), Flag(g.compression_type_entropy_enabled_per_tile),
           Enum(2, CompressionTypes, g.compression_type_size_per_tile)>>)

emit_global_configuration(g) ==
  Concat(<<
    Flag(g.num_processed_planes = 3), Bits(6, ResolutionType(g.resolution)),
    Flag(g.transform_block_size = 4), Enum(2, Colourspaces, g.colourspace),
    Enum(2, Depths, g.base_depth), Enum(2, Depths, g.enhancement_depth),
    Flag(g.temporal_step_width_modifier # 48), Flag(g.predicted_residual_enabled),
    Flag(g.temporal_tile_intra_signalling_enabled), Flag(g.temporal_enabled),
    Enum(3, Upsamples, g.upsample), Flag(Filtered(g)),
    Enum(2, ScalingModes, g.scaling_mode[LOQ_LEVEL_1]),
    Enum(2, ScalingModes, g.scaling_mode[LOQ_LEVEL_2]),
    Enum(2, TileDimensions, g.tile_dimensions_type), Enum(2, UserDataModes, g.user_data_enabled),
    Flag(g.level1_depth_flag), Flag(g.chroma_step_width_multiplier # 64),
    If(g.num_processed_planes # 1, Bits(4, 1) \o Bits(4, 0)),
    If(g.temporal_step_width_modifier # 48, Bits(8, g.temporal_step_width_modifier)),
    If(g.upsample = "AdaptiveCubic", Each(16, g.upsampling_coefficients)),
    If(Filtered(g), Each(4, g.level_1_filtering)),
    If(g.tile_dimensions_type # "None", emit_tile_configuration(g)),
    If(ResolutionType(g.resolution) = ExplicitResolution, Each(16, g.resolution)),
    If(g.chroma_step_width_multiplier # 64, Bits(8, g.chroma_step_width_multiplier))>>)

(* What follows the first bits is written of a picture without enhancement *)
(* too, and nobody reads it.                                               *)
emit_picture_configuration(c) ==
  Concat(<<
    Flag(~c.enhancement_enabled),
    IF c.enhancement_enabled
      THEN Concat(<<Enum(3, QuantMatrixModes, c.quant_matrix_mode), Flag(c.dequant_offset_signalled),
                    Enum(1, PictureTypes, c.picture_type), Flag(c.temporal_refresh),
                    Flag(c.step_width_1 # MAX_STEP_WIDTH), Bits(15, c.step_width_2),
                    Flag(c.dithering_control)>>)
      ELSE Concat(<<Bits(4, 0), Enum(1, PictureTypes, c.picture_type), Flag(c.temporal_refresh),
                    Flag(c.temporal_signalling_present)>>),
    If(c.picture_type = "Field", Enum(1, FieldTypes, c.field_type) \o Bits(7, 0)),
    If(c.step_width_1 # MAX_STEP_WIDTH, Bits(15, c.step_width_1) \o Flag(c.level_1_filtering_enabled)),
    If(c.quant_matrix_mode \in {"Same", "Level2Custom", "Different"}, Each(8, c.qm_coefficient_2)),
    If(c.quant_matrix_mode \in {"Level1Custom", "Different"}, Each(8, c.qm_coefficient_1)),
    If(c.dequant_offset_signalled, Enum(1, DequantOffsets, c.dequant_offset_mode) \o Bits(7, c.dequant_offset)),
    If(c.dithering_control,
       Concat(<<Bits(2, IF c.dithering_type = "None" THEN 0 ELSE 1), Bits(1, 0),
                Bits(5, IF c.dithering_type = "None" THEN 0 ELSE c.dithering_strength)>>))>>)

(* VUI parameters have no payload. *)
emit_additional_info(info) ==
  Bits(8, info.additional_info_type)
    \o If(info.additional_info_type = 0, Bits(8, info.payload_type))

-----------------------------------------------------------------------------
(* Encoded data *)

(* EncodedChunk: each of the two codes is the shorter one of some tiles,   *)
(* and they are as long as each other for others.  Some have zeros.        *)
RawCode(x) ==
  IF x = 0 THEN <<>> ELSE <<<<x>>, <<x>>, <<x, 0, 0, 0>>, <<x, 0>>>>[(x % 4) + 1]
PrefixCode(x) ==
  IF x = 0 THEN <<>> ELSE <<<<255 - x>>, <<255 - x, x>>, <<255 - x, 0, 0>>, <<255 - x, x>>>>[(x % 4) + 1]

(* Faulty variant of Decoded: the flag rle_only is not looked at. *)
DecodedAsPrefix(rle_only, bytes) == 255 - Head(bytes)

Decoded(rle_only, bytes) == IF rle_only THEN Head(bytes) ELSE 255 - Head(bytes)

FirstLayer(g, c) == IF c.enhancement_enabled THEN 0 ELSE g.num_residual_layers
TotalLayers(g, c, loq) ==
  g.num_residual_layers + (IF loq = LOQ_LEVEL_2 /\ c.temporal_signalling_present THEN 1 ELSE 0)

(* The layers of a picture in the order of the nested loops of both sides. *)
LayersOf(g, c, plane, loq) ==
  [i \in 1 .. TotalLayers(g, c, loq) - FirstLayer(g, c) |-> <<plane, loq, FirstLayer(g, c) + i - 1>>]
Layers(g, c) ==
  Concat([i \in 1 .. 2 * g.num_processed_planes |-> LayersOf(g, c, (i - 1) \div 2, (i - 1) % 2)])

Tiled(g) == g.tile_dimensions_type # "None"

TilesIn(g, plane, size) ==
  IF Tiled(g) THEN CeilDiv(size[1], TileSize(g, plane)[1]) * CeilDiv(size[2], TileSize(g, plane)[2]) ELSE 1

(* Of each layer the flags of all planes come first, those of the temporal *)
(* layer last of a plane.                                                  *)
emit_encoded_data(g, c, symbols) ==
  LET Tile(layer) == symbols[layer].tiles[1]
      Rle(layer)  == Len(PrefixCode(Tile(layer))) > Len(RawCode(Tile(layer)))
      Data(layer) == IF Rle(layer) THEN RawCode(Tile(layer)) ELSE PrefixCode(Tile(layer))
      layers      == Layers(g, c)
      FlagsOf(plane) ==
        Concat([i \in 1 .. 2 * g.num_residual_layers |->
                  LET layer == <<plane, (i - 1) \div g.num_residual_layers, (i - 1) % g.num_residual_layers>>
                  IN  If(c.enhancement_enabled, Flag(Tile(layer) # 0) \o Flag(Rle(layer)))])
          \o If(c.temporal_signalling_present,
                LET layer == <<plane, LOQ_LEVEL_2, g.num_residual_layers>>
                IN  Flag(Tile(layer) # 0) \o Flag(Rle(layer)))
  IN  Aligned(Concat([i \in 1 .. g.num_processed_planes |-> FlagsOf(i - 1)]))
        \o Concat([i \in DOMAIN layers |->
              If(Tile(layers[i]) # 0, Multibyte(Len(Data(layers[i]))) \o Bytes(Data(layers[i])))])

emit_encoded_data_tiled(g, c, symbols) ==
  LET layers == Layers(g, c)
      tiles  == [i \in DOMAIN layers |-> symbols[layers[i]].tiles]
      Size(Code(_), i) == Len(Concat([t \in DOMAIN tiles[i] |-> Code(tiles[i][t])]))
      Rle(i) == Size(RawCode, i) < Size(PrefixCode, i)
      Data(i, t) == IF Rle(i) THEN RawCode(tiles[i][t]) ELSE PrefixCode(tiles[i][t])
      rle_only == Concat([i \in DOMAIN layers |-> Flag(Rle(i))])
      entropy_enabled ==
        Concat([i \in DOMAIN layers |-> Concat([t \in DOMAIN tiles[i] |-> Flag(tiles[i][t] # 0)])])
  IN  Aligned(Aligned(rle_only) \o entropy_enabled)
        \o Concat([i \in DOMAIN layers |-> Concat([t \in DOMAIN tiles[i] |->
              If(tiles[i][t] # 0, Multibyte(Len(Data(i, t))) \o Bytes(Data(i, t)))])])

(* Faulty variant of PayloadSizeType: six bytes have no code of their own. *)
PayloadSizeTypeOfSix(size) == IF size <= 6 THEN size ELSE 7

PayloadSizeType(size) == IF size <= 5 THEN size ELSE 7

(* emit_block; the payload types are numbered from 0. *)
emit_block(payload_type, contents) ==
  LET payload == Aligned(contents)
      size    == SizeInBytes(payload)
  IN  Concat(<<Bits(3, PayloadSizeType(size)), Bits(5, payload_type),
               If(PayloadSizeType(size) = 7, Multibyte(size)), payload>>)

(* emit, with syntax_blocks_mask. *)
emit(type, s, g, c, info, symbols) ==
  Concat(<<
    If(Intra(type), emit_block(0, emit_sequence_configuration(s)) \o emit_block(1, emit_global_configuration(g))),
    emit_block(2, emit_picture_configuration(c)),
    If(c.enhancement_enabled \/ c.temporal_signalling_present,
       IF Tiled(g) THEN emit_block(4, emit_encoded_data_tiled(g, c, symbols))
                   ELSE emit_block(3, emit_encoded_data(g, c, symbols))),
    If(Intra(type) /\ info.additional_info_present, emit_block(5, emit_additional_info(info)))>>)

-----------------------------------------------------------------------------
(* Deserializer: the syntax of a block is a list of fields, each read if   *)
(* the fields before it have certain values.  A width of zero stands for a *)
(* multibyte number, and a count for a vector.                             *)

Always == {}
Field(name, width, when) == [name |-> name, width |-> width, count |-> 0, when |-> when]
Vector(name, width, count, when) == [name |-> name, width |-> width, count |-> count, when |-> when]
Reserved(width, when) == Field("reserved", width, when)

SequenceSyntax ==
  <<Field("profile_idc", 4, Always), Field("level_idc", 4, Always), Field("sublevel_idc", 2, Always),
    Field("conformance_window", 1, Always), Reserved(5, Always),
    Vector("conf_win_offsets", 0, 4, {<<"conformance_window", {1}>>})>>

Custom == {<<"tile_dimensions_type", {3}>>}
HasTiles == {<<"tile_dimensions_type", {1, 2, 3}>>}

GlobalSyntax ==
  <<Field("processed_planes_type", 1, Always), Field("resolution_type", 6, Always),
    Field("transform_type", 1, Always), Field("chroma_sampling_type", 2, Always),
    Field("base_depth_type", 2, Always), Field("enhancement_depth_type", 2, Always),
    Field("temporal_step_width_modifier_signalled", 1, Always), Field("predicted_residual_mode", 1, Always),
    Field("temporal_tile_intra_signalling_enabled", 1, Always), Field("temporal_enabled", 1, Always),
    Field("upsample_type", 3, Always), Field("level_1_filtering_signalled", 1, Always),
    Vector("scaling_mode", 2, 2, Always), Field("tile_dimensions_type", 2, Always),
    Field("user_data_enabled", 2, Always), Field("level1_depth_flag", 1, Always),
    Field("chroma_step_width_flag", 1, Always),
    Field("planes_type", 4, {<<"processed_planes_type", {1}>>}), Reserved(4, {<<"processed_planes_type", {1}>>}),
    Field("temporal_step_width_modifier", 8, {<<"temporal_step_width_modifier_signalled", {1}>>}),
    Vector("upsampling_coefficients", 16, 4, {<<"upsample_type", {4}>>}),
    Vector("level_1_filtering", 4, 2, {<<"level_1_filtering_signalled", {1}>>}),
    Vector("custom_tile", 16, 2, Custom), Reserved(5, HasTiles),
    Field("compression_type_entropy_enabled_per_tile", 1, HasTiles),
    Field("compression_type_size_per_tile", 2, HasTiles),
    Vector("resolution", 16, 2, {<<"resolution_type", {ExplicitResolution}>>}),
    Field("chroma_step_width_multiplier", 8, {<<"chroma_step_width_flag", {1}>>})>>

Enhanced == <<"no_enhancement_bit", {0}>>
Plain == <<"no_enhancement_bit", {1}>>

PictureSyntax(num_residual_layers) ==
  <<Field("no_enhancement_bit", 1, Always), Field("quant_matrix_mode", 3, {Enhanced}),
    Field("dequant_offset_signalled", 1, {Enhanced}), Reserved(4, {Plain}), Field("picture_type", 1, Always),
    Field("temporal_refresh", 1, Always), Field("temporal_signalling_present", 1, {Plain}),
    Field("step_width_level1_enabled", 1, {Enhanced}), Field("step_width_2", 15, {Enhanced}),
    Field("dithering_control", 1, {Enhanced}),
    Field("field_type", 1, {Enhanced, <<"picture_type", {1}>>}), Reserved(7, {Enhanced, <<"picture_type", {1}>>}),
    Field("step_width_1", 15, {Enhanced, <<"step_width_level1_enabled", {1}>>}),
    Field("level_1_filtering_enabled", 1, {Enhanced, <<"step_width_level1_enabled", {1}>>}),
    Vector("qm_coefficient_2", 8, num_residual_layers, {Enhanced, <<"quant_matrix_mode", {2, 3, 5}>>}),
    Vector("qm_coefficient_1", 8, num_residual_layers, {Enhanced, <<"quant_matrix_mode", {4, 5}>>}),
    Field("dequant_offset_mode", 1, {Enhanced, <<"dequant_offset_signalled", {1}>>}),
    Field("dequant_offset", 7, {Enhanced, <<"dequant_offset_signalled", {1}>>}),
    Field("dithering_type", 2, {Enhanced, <<"dithering_control", {1}>>}),
    Reserved(1, {Enhanced, <<"dithering_control", {1}>>}),
    Field("dithering_strength", 5, {Enhanced, <<"dithering_control", {1}>>})>>

InfoSyntax ==
  <<Field("additional_info_type", 8, Always), Field("payload_type", 8, {<<"additional_info_type", {0}>>})>>

ReadNumber(r, width) == IF width = 0 THEN ReadMultibyte(r) ELSE Read(r, width)

RECURSIVE ReadNumbers(_, _, _)
ReadNumbers(v, width, count) ==
  LET n == ReadNumber(v.reader, width)
  IN  IF ~v.reader.ok \/ count = 0 THEN v
      ELSE ReadNumbers([reader |-> n, values |-> Append(v.values, n.value)], width, count - 1)

ReadVector(r, width, count) == ReadNumbers([reader |-> r, values |-> <<>>], width, count)

Has(f, name) == name \in DOMAIN f

(* The fields of a block, of which those that were read are defined. *)
RECURSIVE ParseMore(_, _)
ParseMore(p, syntax) ==
  IF syntax = <<>> THEN p
  ELSE LET e == Head(syntax)
           n == ReadNumber(p.reader, e.width)
           v == ReadVector(p.reader, e.width, e.count)
       IN  ParseMore(IF \E c \in e.when : ~(Has(p.fields, c[1]) /\ p.fields[c[1]] \in c[2]) THEN p
                     ELSE IF e.count = 0 THEN [reader |-> n, fields |-> (e.name :> n.value) @@ p.fields]
                     ELSE [reader |-> v.reader, fields |-> (e.name :> v.values) @@ p.fields],
                     Tail(syntax))

ParseFields(reader, syntax) == ParseMore([reader |-> reader, fields |-> <<>>], syntax)

On(f, name) == f[name] = 1
Signalled(f, name, default) == IF Has(f, name) THEN f[name] ELSE default

parse_sequence_config(f, old) ==
  [profile_idc |-> NameOf(Profiles, f.profile_idc), level_idc |-> f.level_idc,
   sublevel_idc |-> f.sublevel_idc, conformance_window |-> On(f, "conformance_window"),
   conf_win_offsets |-> Signalled(f, "conf_win_offsets", old.conf_win_offsets)]

ResolutionOf(f) ==
  IF Has(f, "resolution") THEN f.resolution
  ELSE IF Known(ResolutionTable, f.resolution_type) THEN ResolutionTable[f.resolution_type + 1] ELSE <<0, 0>>

TileOf(f) == <<<<0, 0>>, <<512, 256>>, <<1024, 512>>, Signalled(f, "custom_tile", <<0, 0>>)>>[f.tile_dimensions_type + 1]

(* Faulty variant of StepWidthMultiplier: kept where it is not signalled. *)
StepWidthMultiplierKept(f, old) == Signalled(f, "chroma_step_width_multiplier", old.chroma_step_width_multiplier)

StepWidthMultiplier(f, old) == Signalled(f, "chroma_step_width_multiplier", 64)

(* Coefficients of the upsampling, and how tiles are compressed, are kept  *)
(* from the configuration before where they are not signalled.             *)
parse_global_config(f, old) ==
  [colourspace |-> Colourspaces[f.chroma_sampling_type + 1],
   base_depth |-> Depths[f.base_depth_type + 1],
   enhancement_depth |-> Depths[f.enhancement_depth_type + 1],
   num_image_planes |-> IF f.chroma_sampling_type = 0 THEN 1 ELSE 3,
   num_processed_planes |-> IF On(f, "processed_planes_type") THEN 3 ELSE 1,
   transform_block_size |-> IF On(f, "transform_type") THEN 4 ELSE 2,
   num_residual_layers |-> IF On(f, "transform_type") THEN 16 ELSE 4,
   predicted_residual_enabled |-> On(f, "predicted_residual_mode"),
   temporal_enabled |-> On(f, "temporal_enabled"),
   temporal_tile_intra_signalling_enabled |-> On(f, "temporal_tile_intra_signalling_enabled"),
   temporal_step_width_modifier |-> Signalled(f, "temporal_step_width_modifier", 48),
   upsample |-> NameOf(Upsamples, f.upsample_type),
   upsampling_coefficients |-> Signalled(f, "upsampling_coefficients", old.upsampling_coefficients),
   level_1_filtering |-> Signalled(f, "level_1_filtering", <<0, 0>>),
   scaling_mode |-> [l \in Loqs |-> NameOf(ScalingModes, f.scaling_mode[l + 1])],
   user_data_enabled |-> NameOf(UserDataModes, f.user_data_enabled),
   level1_depth_flag |-> On(f, "level1_depth_flag"),
   chroma_step_width_multiplier |-> StepWidthMultiplier(f, old),
   tile_dimensions_type |-> TileDimensions[f.tile_dimensions_type + 1],
   tile_width |-> TileOf(f)[1],
   tile_height |-> TileOf(f)[2],
   compression_type_entropy_enabled_per_tile |->
     IF Has(f, "compression_type_entropy_enabled_per_tile")
       THEN On(f, "compression_type_entropy_enabled_per_tile") ELSE old.compression_type_entropy_enabled_per_tile,
   compression_type_size_per_tile |->
     IF Has(f, "compression_type_size_per_tile")
       THEN NameOf(CompressionTypes, f.compression_type_size_per_tile) ELSE old.compression_type_size_per_tile,
   resolution |-> ResolutionOf(f)]

GlobalHolds(f) ==
  /\ Known(UserDataModes, f.user_data_enabled) /\ Known(Upsamples, f.upsample_type)
  /\ \A i \in 1 .. 2 : Known(ScalingModes, f.scaling_mode[i])
  /\ Has(f, "planes_type") => f.planes_type = 1
  /\ Has(f, "compression_type_size_per_tile") => Known(CompressionTypes, f.compression_type_size_per_tile)
  /\ f.resolution_type \in (1 .. Len(ResolutionTable) - 1) \cup {ExplicitResolution}
  /\ f.chroma_sampling_type = 0 => f.processed_planes_type = 0

(* Whether the temporal layer is signalled is inferred in a picture with   *)
(* enhancement.                                                            *)
parse_picture_config(f, g, old) ==
  LET common == [old EXCEPT !.enhancement_enabled = ~On(f, "no_enhancement_bit"),
                            !.picture_type = PictureTypes[f.picture_type + 1],
                            !.temporal_refresh = On(f, "temporal_refresh")]
  IN  IF On(f, "no_enhancement_bit")
      THEN [common EXCEPT !.temporal_signalling_present = On(f, "temporal_signalling_present")]
      ELSE [common EXCEPT
              !.temporal_signalling_present = g.temporal_enabled /\ ~On(f, "temporal_refresh"),
              !.quant_matrix_mode = NameOf(QuantMatrixModes, f.quant_matrix_mode),
              !.dequant_offset_signalled = On(f, "dequant_offset_signalled"),
              !.step_width_2 = f.step_width_2,
              !.dithering_control = On(f, "dithering_control"),
              !.field_type = IF Has(f, "field_type") THEN NameOf(FieldTypes, f.field_type) ELSE @,
              !.step_width_1 = Signalled(f, "step_width_1", MAX_STEP_WIDTH),
              !.level_1_filtering_enabled =
                 IF Has(f, "level_1_filtering_enabled") THEN On(f, "level_1_filtering_enabled") ELSE @,
              !.qm_coefficient_2 = Signalled(f, "qm_coefficient_2", @),
              !.qm_coefficient_1 = Signalled(f, "qm_coefficient_1", @),
              !.dequant_offset_mode =
                 IF Has(f, "dequant_offset_mode") THEN NameOf(DequantOffsets, f.dequant_offset_mode) ELSE @,
              !.dequant_offset = Signalled(f, "dequant_offset", @),
              !.dithering_type = IF Has(f, "dithering_type") THEN NameOf(DitheringTypes, f.dithering_type) ELSE @,
              !.dithering_strength =
                 IF Has(f, "dithering_type") /\ f.dithering_type # 0 THEN f.dithering_strength ELSE @]

PictureHolds(f) ==
  ~On(f, "no_enhancement_bit") =>
    /\ f.step_width_2 > 0 /\ Known(QuantMatrixModes, f.quant_matrix_mode)
    /\ Has(f, "step_width_1") => f.step_width_1 > 0
    /\ Has(f, "dithering_type") => Known(DitheringTypes, f.dithering_type)

(* A chunk is read from its size on. *)
ReadChunk(p, rle_only) ==
  LET size  == ReadMultibyte(p.reader)
      first == Read(size, BitsPerByte)
  IN  [reader |-> Check(AfterBytes(size, size.value), first.ok /\ size.value > 0),
       tiles  |-> Append(p.tiles, Decoded(rle_only, <<first.value>>))]

NoChunk(p) == [p EXCEPT !.tiles = Append(@, 0)]

parse_encoded_data(reader, g, c, sizes) ==
  LET layers == Layers(g, c)
      flags  == ReadVector(reader, 1, 2 * Len(layers))
      ReadLayer(p, i) ==
        LET q == IF flags.values[2 * i - 1] = 1
                   THEN ReadChunk([reader |-> p.reader, tiles |-> <<>>], flags.values[2 * i] = 1)
                   ELSE NoChunk([reader |-> p.reader, tiles |-> <<>>])
        IN  [reader |-> q.reader,
             symbols |-> (layers[i] :> [size |-> sizes[layers[i]], tiles |-> q.tiles]) @@ p.symbols]
      RECURSIVE ReadLayers(_, _)
      ReadLayers(p, i) == IF ~p.reader.ok \/ i > Len(layers) THEN p ELSE ReadLayers(ReadLayer(p, i), i + 1)
  IN  ReadLayers([reader |-> ReadAlignment(flags.reader), symbols |-> <<>>], 1)

(* The flags of a picture without enhancement are not read. *)
parse_encoded_data_tiled(reader, g, c) ==
  LET layers   == Layers(g, c)
      SizeOf(l) == LayerSize(g, l[1], l[2], Conformant(g, g.resolution))
      count    == [i \in DOMAIN layers |-> TilesIn(g, layers[i][1], SizeOf(layers[i]))]
      before   == [i \in DOMAIN layers |-> FoldLeft(+, 0, SubSeq(count, 1, i - 1))]
      Signal(n) == IF c.enhancement_enabled THEN n ELSE 0
      rle      == ReadVector(reader, 1, Signal(Len(layers)))
      entropy  == ReadVector(ReadAlignment(rle.reader), 1, Signal(FoldLeft(+, 0, count)))
      ReadTile(i, p, t) ==
        IF c.enhancement_enabled /\ entropy.values[before[i] + t] = 1
          THEN ReadChunk(p, rle.values[i] = 1) ELSE NoChunk(p)
      ReadLayer(p, i) ==
        LET q == FoldLeft(LAMBDA a, t : ReadTile(i, a, t), [reader |-> p.reader, tiles |-> <<>>],
                          [t \in 1 .. count[i] |-> t])
        IN  [reader |-> q.reader,
             symbols |-> (layers[i] :> [size |-> SizeOf(layers[i]), tiles |-> q.tiles]) @@ p.symbols]
      RECURSIVE ReadLayers(_, _)
      ReadLayers(p, i) == IF ~p.reader.ok \/ i > Len(layers) THEN p ELSE ReadLayers(ReadLayer(p, i), i + 1)
  IN  ReadLayers([reader |-> ReadAlignment(entropy.reader), symbols |-> <<>>], 1)

-----------------------------------------------------------------------------
(* Decoder *)

(* The layers that a global configuration gives a size to. *)
Surfaces(g) ==
  ((0 .. g.num_image_planes - 1) \X Loqs \X (0 .. g.num_residual_layers - 1))
    \cup (IF g.temporal_enabled
           THEN (0 .. g.num_processed_planes - 1) \X {LOQ_LEVEL_2} \X {g.num_residual_layers} ELSE {})

(* initialize_decode, on a new global configuration: sizes of surfaces are *)
(* kept where it has none, and so are temporal buffers.                    *)
Resized(d) ==
  LET g == d.global
      planes == IF g.temporal_enabled THEN 0 .. g.num_processed_planes - 1 ELSE {}
      size   == Conformant(g, g.resolution)
  IN  [d EXCEPT !.sizes  = [l \in Surfaces(g) |-> LayerSize(g, l[1], l[2], size)] @@ @,
                !.buffer = [p \in planes |-> PlaneSize(g, p, LOQ_LEVEL_2, size)] @@ @]

(* parse_block: the header of a block, its payload and what follows it.    *)
(* No filler is ever written.                                              *)
NextBlock(bits) ==
  LET size_type == Read(Reader(bits), 3)
      type      == Read(size_type, 5)
      size      == IF size_type.value = 7 THEN ReadMultibyte(type) ELSE [type EXCEPT !.value = size_type.value]
      after     == AfterBytes(size, size.value)
  IN  IF after.ok /\ size_type.value # 6
        THEN [ok |-> TRUE, type |-> type.value, payload |-> NextBytes(size, size.value),
              rest |-> SubSeq(bits, after.at + 1, Len(bits))]
        ELSE [ok |-> FALSE, type |-> type.value, payload |-> <<>>, rest |-> <<>>]

(* The memory of a Decoder is cleared when it is made; the first picture   *)
(* of a stream brings all configurations.                                  *)
NoGlobal ==
  [chroma_step_width_multiplier |-> 0, upsampling_coefficients |-> <<0, 0, 0, 0>>,
   compression_type_entropy_enabled_per_tile |-> FALSE, compression_type_size_per_tile |-> "None"]

NoPicture ==
  [enhancement_enabled |-> FALSE, temporal_refresh |-> FALSE, temporal_signalling_present |-> FALSE,
   picture_type |-> "Frame", field_type |-> "Top", step_width_1 |-> 0, step_width_2 |-> 0,
   dithering_control |-> FALSE, dithering_type |-> "None", dithering_strength |-> 0,
   dequant_offset_signalled |-> FALSE, dequant_offset_mode |-> "Default", dequant_offset |-> 0,
   level_1_filtering_enabled |-> FALSE, quant_matrix_mode |-> "BothPrevious",
   qm_coefficient_2 |-> NoMatrix, qm_coefficient_1 |-> NoMatrix]

FreshDecoder ==
  [sequence |-> [conf_win_offsets |-> <<0, 0, 0, 0>>], global |-> NoGlobal, picture |-> NoPicture,
   info |-> <<>>, sizes |-> <<>>, buffer |-> <<>>, symbols |-> <<>>, matrices |-> <<>>, ok |-> TRUE, busy |-> FALSE]

(* The coding type is what the carriage of the packet says (set_idr).      *)
WithMatrices(d, is_idr) ==
  [d EXCEPT !.matrices = [l \in Loqs |-> MatrixOf(d.global, d.picture, l, is_idr, NoMatrix)]]

-----------------------------------------------------------------------------
(* Encoder *)

FreshEncoder(p) ==
  [step_width_2 |-> p.step_width_2, held |-> FALSE, started |-> FALSE, distance |-> 0,
   coefficients |-> [l \in Loqs |-> DefaultMatrix(EncoderGlobal(p), l)],
   matrices |-> [l \in Loqs |-> NoMatrix]]

EnhancementEnabled(p, e, type) ==
  p.step_width_1 >= MAX_STEP_WIDTH /\ e.step_width_2 >= MAX_STEP_WIDTH =>
    p.temporal_enabled /\ Intra(type) /\ p.temporal_cq_sw_multiplier # 1000

(* No residuals to predict from, or they are not wanted. *)
NoTemporal(p, e, type) == ~p.temporal_enabled \/ ~e.held \/ Intra(type)

(* DELTA_SW: by the distance of an inter picture from the last intra one,  *)
(* gop_frame_num - last_idr_frame_num.                                     *)
StepWidthFactor(p, e, type) ==
  IF ~Intra(type) THEN p.delta_sw_mult[Max({m \in DOMAIN p.delta_sw_mult : e.distance % m = 0})]
  ELSE IF p.temporal_enabled THEN p.temporal_cq_sw_multiplier ELSE 1000

StepWidth2(p, e, type) ==
  IF EnhancementEnabled(p, e, type)
    THEN Min({Max({(p.step_width_2 * StepWidthFactor(p, e, type)) \div 1000, 1}), MAX_STEP_WIDTH})
    ELSE e.step_width_2

(* The configuration of a picture when it is written. *)
EncoderPicture(p, e, type) ==
  LET enhanced == EnhancementEnabled(p, e, type)
      coefficients == CoefficientsInLoop(p, EncoderGlobal(p), Intra(type), enhanced, e.coefficients)
  IN  [enhancement_enabled |-> enhanced,
       temporal_refresh |-> NoTemporal(p, e, type),
       temporal_signalling_present |->
         ~NoTemporal(p, e, type) /\ (enhanced \/ p.no_enhancement_temporal_layer),
       picture_type |-> p.picture_type, field_type |-> "Top",
       step_width_1 |-> p.step_width_1, step_width_2 |-> StepWidth2(p, e, type),
       dithering_control |-> p.dithering_control, dithering_type |-> p.dithering_type,
       dithering_strength |-> p.dithering_strength,
       dequant_offset_signalled |-> DequantOffsetSignalled(p),
       dequant_offset_mode |-> p.dequant_offset_mode, dequant_offset |-> p.dequant_offset,
       level_1_filtering_enabled |-> p.level_1_filtering_enabled,
       quant_matrix_mode |-> p.quant_matrix_mode,
       qm_coefficient_2 |-> coefficients[LOQ_LEVEL_2], qm_coefficient_1 |-> coefficients[LOQ_LEVEL_1]]

(* The symbols of all layers, of surfaces of the encoder's dimensions,     *)
(* which are those of the source made conformant.                          *)
SymbolsOf(p, c, kind) ==
  LET g == EncoderGlobal(p)
      SizeOf(l) == LayerSize(g, l[1], l[2], Conformant(g, <<p.width, p.height>>))
  IN  [l \in ToSet(Layers(g, c)) |->
         [size |-> SizeOf(l),
          tiles |-> [t \in 1 .. TilesIn(g, l[1], SizeOf(l)) |-> Content(kind, l, t)]]]

-----------------------------------------------------------------------------
Init ==
  /\ params \in Streams
  /\ enc = FreshEncoder(params)
  /\ sent = Nothing /\ au = <<>> /\ scan = Nothing /\ packet = <<>>
  /\ dec = FreshDecoder
  /\ pictures = 0 /\ streams = 1

(* A packet as bytes, and back. *)
ByteOf(bits, i) ==
  128 * bits[i] + 64 * bits[i + 1] + 32 * bits[i + 2] + 16 * bits[i + 3]
    + 8 * bits[i + 4] + 4 * bits[i + 5] + 2 * bits[i + 6] + bits[i + 7]
BytesOfBits(bits) == [i \in 1 .. SizeInBytes(bits) |-> ByteOf(bits, 8 * i - 7)]
BitsOfBytes(bytes) == [i \in 1 .. 8 * Len(bytes) |-> (bytes[(i + 7) \div 8] \div 2 ^ ((8 - i) % 8)) % 2]

Idle == au = <<>> /\ packet = <<>> /\ ~dec.busy

(* One picture; the first of a stream is intra, and an IDR if the base     *)
(* codec's parser knows any.                                               *)
Encode(type, kind) ==
  LET g == EncoderGlobal(params)
      c == EncoderPicture(params, enc, type)
      symbols  == SymbolsOf(params, c, kind)
      matrices == [l \in Loqs |-> MatrixOf(g, c, l, type = "IDR", enc.matrices[l])]
      info == [additional_info_present |-> params.additional_info_present,
               additional_info_type |-> params.additional_info_type, payload_type |-> 0]
      base == BaseUnit(params.base_encoder, type)
  IN  /\ Idle /\ pictures < MaxPictures
      /\ type \in FrameTypesOf(params.base_encoder)
      /\ ~enc.started => Intra(type) /\ ("IDR" \in FrameTypesOf(params.base_encoder) => type = "IDR")
      /\ enc' = [step_width_2 |-> c.step_width_2, started |-> TRUE,
                 held |-> IF c.enhancement_enabled THEN enc.held \/ params.temporal_enabled
                          ELSE enc.held /\ ~NoTemporal(params, enc, type),
                 distance |-> IF c.enhancement_enabled /\ Intra(type) THEN 1 ELSE enc.distance + 1,
                 coefficients |-> (LOQ_LEVEL_1 :> c.qm_coefficient_1 @@ LOQ_LEVEL_2 :> c.qm_coefficient_2),
                 matrices |-> matrices]
      /\ \E payload \in {BytesOfBits(emit(type, EncoderSequence(params), g, c, info, symbols))} :
           /\ sent' = [type |-> type, picture |-> c, symbols |-> symbols, payload |-> payload]
           /\ au' = BytesOf(add_enhancement(params.base_encoder, params.encapsulation, base, type = "IDR", payload))
      /\ dec' = [dec EXCEPT !.symbols = <<>>]
      /\ pictures' = pictures + 1
      /\ UNCHANGED <<params, scan, packet, streams>>

(* A decoder may begin anywhere where configurations are sent. *)
StartDecoder ==
  /\ au # <<>> /\ Intra(sent.type)
  /\ dec' = FreshDecoder
  /\ UNCHANGED <<params, enc, sent, au, scan, packet, pictures, streams>>

(* push_au: the packet is what the callback gets. *)
Scan ==
  /\ au # <<>>
  /\ scan' = scan_enhancement(BaseCoding(params.base_encoder), params.encapsulation, au, sent.type = "IDR")
  /\ packet' = IF scan'.found = <<>> THEN <<>> ELSE BitsOfBytes(scan'.found[1].packet)
  /\ au' = <<>>
  /\ UNCHANGED <<params, enc, sent, dec, pictures, streams>>

(* The decoder with a block's fields, of each type of block. *)
WithSequence(p) ==
  [dec EXCEPT !.sequence = parse_sequence_config(p.fields, @),
              !.ok = p.reader.ok /\ Known(Profiles, p.fields.profile_idc)]

WithGlobal(p) ==
  IF p.reader.ok /\ GlobalHolds(p.fields)
    THEN Resized([dec EXCEPT !.global = parse_global_config(p.fields, @)]) ELSE [dec EXCEPT !.ok = FALSE]

WithPicture(p) ==
  [dec EXCEPT !.picture = parse_picture_config(p.fields, dec.global, @),
              !.ok = p.reader.ok /\ PictureHolds(p.fields)]

WithSymbols(p) == [dec EXCEPT !.symbols = p.symbols, !.ok = p.reader.ok]

WithInfo(p) ==
  [dec EXCEPT !.info = p.fields, !.ok = p.reader.ok /\ p.fields.additional_info_type \in {0, 1}]

Parse(payload_type, payload) ==
  CASE payload_type = 0 -> ParseFields(payload, SequenceSyntax)
    [] payload_type = 1 -> ParseFields(payload, GlobalSyntax)
    [] payload_type = 2 -> ParseFields(payload, PictureSyntax(dec.global.num_residual_layers))
    [] payload_type = 3 -> parse_encoded_data(payload, dec.global, dec.picture, dec.sizes)
    [] payload_type = 4 -> parse_encoded_data_tiled(payload, dec.global, dec.picture)
    [] payload_type = 5 -> ParseFields(payload, InfoSyntax)

AfterBlock(payload_type, p) ==
  CASE payload_type = 0          -> WithSequence(p)
    [] payload_type = 1          -> WithGlobal(p)
    [] payload_type = 2          -> WithPicture(p)
    [] payload_type \in {3, 4}   -> WithSymbols(p)
    [] payload_type = 5          -> WithInfo(p)

(* One block of the packet, while none was refused.  Encoded data comes in *)
(* the kind of block that the tiling asks for.                             *)
ParseBlock ==
  /\ packet # <<>> /\ dec.ok
  /\ \E b \in {NextBlock(packet)} :
       /\ packet' = b.rest
       /\ IF b.ok /\ b.type \in 0 .. 5 /\ (b.type = 4 => Tiled(dec.global))
            THEN \E p \in {Parse(b.type, Reader(b.payload))} : dec' = [AfterBlock(b.type, p) EXCEPT !.busy = TRUE]
            ELSE dec' = [dec EXCEPT !.ok = FALSE]
  /\ UNCHANGED <<params, enc, sent, au, scan, pictures, streams>>

(* The blocks are parsed, and the picture is decoded. *)
Decode ==
  /\ packet = <<>> /\ dec.busy /\ dec.ok
  /\ dec' = [WithMatrices(dec, scan.found[1].is_lcevc_idr) EXCEPT !.busy = FALSE]
  /\ UNCHANGED <<params, enc, sent, au, scan, packet, pictures, streams>>

(* The stream ends, and that of another encoder follows, carried alike. *)
Splice(p) ==
  /\ Idle /\ enc.started
  /\ streams < MaxStreams /\ pictures < MaxPictures
  /\ params' = [p EXCEPT !.base_encoder = params.base_encoder, !.encapsulation = params.encapsulation]
  /\ enc' = FreshEncoder(p)
  /\ sent' = Nothing /\ scan' = Nothing
  /\ streams' = streams + 1
  /\ UNCHANGED <<au, packet, dec, pictures>>

Next ==
  \/ \E type \in FrameTypes, kind \in Contents : Encode(type, kind)
  \/ StartDecoder
  \/ Scan
  \/ ParseBlock
  \/ Decode
  \/ \E p \in SplicedStreams : Splice(p)

Spec == Init /\ [][Next]_vars

-----------------------------------------------------------------------------
Arrived == Idle /\ dec.ok /\ sent # Nothing

(* A packet is whole bytes, and everything known of the decoder is typed.  *)
TypeOK ==
  /\ params.base_encoder \in BaseEncoders /\ params.encapsulation \in Encapsulations
  /\ \A i \in DOMAIN au : au[i] \in 0 .. 255
  /\ Len(packet) % BitsPerByte = 0 /\ \A i \in DOMAIN packet : packet[i] \in 0 .. 1
  /\ dec.ok \in BOOLEAN
  /\ pictures \in 0 .. MaxPictures /\ streams \in 1 .. MaxStreams

(* No CHECK of the deserializer refuses what the serializer wrote, and     *)
(* none reads beyond its block.                                            *)
NothingRefused == dec.ok

(* In the bytes of an access unit the decoder finds the enhancement, whole *)
(* and once, whatever the bytes of the base and of the enhancement are, it *)
(* knows of an IDR what the encoder knew, and the base decoder gets the    *)
(* access unit that the base encoder made, with the enhancement in it if   *)
(* it came as supplemental information.                                    *)
EnhancementFoundAgain ==
  scan # Nothing /\ au = <<>> =>
    LET base == BaseUnit(params.base_encoder, sent.type)
        carried == add_enhancement(params.base_encoder, params.encapsulation, base, sent.type = "IDR", sent.payload)
    IN  /\ scan.found = <<[packet |-> sent.payload, is_lcevc_idr |-> sent.type = "IDR"]>>
        /\ scan.rest = BytesOf(IF params.encapsulation \in {"None", "NAL"} THEN base.units ELSE carried)

(* What decoding looks at of a configuration: of the fields that are kept  *)
(* from picture to picture, those that are in use.                         *)
GlobalInUse(g) ==
  [g EXCEPT !.num_image_planes = 0,
            !.upsampling_coefficients = IF g.upsample = "AdaptiveCubic" THEN @ ELSE <<>>,
            !.compression_type_entropy_enabled_per_tile = Tiled(g) /\ @,
            !.compression_type_size_per_tile = IF Tiled(g) THEN @ ELSE "None"]

PictureInUse(c) ==
  [enhancement_enabled |-> c.enhancement_enabled, temporal_refresh |-> c.temporal_refresh,
   temporal_signalling_present |-> c.temporal_signalling_present, picture_type |-> c.picture_type,
   enhancement |->
     IF ~c.enhancement_enabled THEN Nothing
     ELSE [step_width_1 |-> c.step_width_1, step_width_2 |-> c.step_width_2,
           filtered |-> c.step_width_1 # MAX_STEP_WIDTH /\ c.level_1_filtering_enabled,
           dequant_offset |-> IF c.dequant_offset_signalled THEN <<c.dequant_offset_mode, c.dequant_offset>> ELSE <<>>,
           dithering |-> IF c.dithering_control /\ c.dithering_type # "None" THEN c.dithering_strength ELSE 0]]

SequenceInUse(s) == [s EXCEPT !.conf_win_offsets = IF s.conformance_window THEN @ ELSE <<>>]

(* Both sides decode a picture with the same configuration, although the   *)
(* decoder has kept fields of other pictures and of another stream.        *)
ConfigurationArrives ==
  Arrived =>
    /\ GlobalInUse(dec.global) = GlobalInUse(EncoderGlobal(params))
    /\ SequenceInUse(dec.sequence) = SequenceInUse(EncoderSequence(params))
    /\ PictureInUse(dec.picture) = PictureInUse(sent.picture)

(* Every tile of every layer arrives where it belongs, in a surface of the *)
(* same size.                                                              *)
SymbolsArrive ==
  Arrived => dec.symbols =
    IF sent.picture.enhancement_enabled \/ sent.picture.temporal_signalling_present THEN sent.symbols ELSE <<>>

(* Both sides dequantise with the same matrices, although the decoder has  *)
(* forgotten those of the picture before (Decoder.cpp:318), and the        *)
(* encoder carries its own along.                                          *)
MatricesAgree ==
  Arrived /\ sent.picture.enhancement_enabled => dec.matrices = enc.matrices

(* The decoder works with the sizes of the encoder: it expects base        *)
(* pictures as large as the encoder makes them (the CHECK of Decoder.cpp:  *)
(* 377), and its temporal buffers have the planes' sizes, whatever stream  *)
(* they served before.                                                     *)
SizesAgree ==
  Arrived =>
    LET g == EncoderGlobal(params)
        source == <<params.width, params.height>>
    IN  /\ BaseSize(dec.global, dec.global.resolution) = BaseSize(g, source)
        /\ params.temporal_enabled =>
             \A plane \in 0 .. g.num_processed_planes - 1 :
               dec.buffer[plane] = PlaneSize(g, plane, LOQ_LEVEL_2, Conformant(g, source))

(* What the decoder puts out after the conformance window has the size of  *)
(* the source (Encoder.cpp:292), of sources with halved chroma that have   *)
(* an even size: see the hazards for the others.                           *)
OutputSize(d, plane) ==
  LET size    == PlaneSize(d.global, plane, LOQ_LEVEL_2, Conformant(d.global, d.global.resolution))
      offsets == d.sequence.conf_win_offsets
      unit    == CropUnit(d.global, plane)
  IN  IF d.sequence.conformance_window
        THEN <<size[1] - (offsets[1] + offsets[2]) * unit[1], size[2] - (offsets[3] + offsets[4]) * unit[2]>>
        ELSE size

OutputHasSourceSize ==
  Arrived /\ params.colourspace = "YUV420" /\ params.width % 2 = 0 /\ params.height % 2 = 0 =>
    \A plane \in 0 .. 2 :
      OutputSize(dec, plane) = PlaneOf(EncoderGlobal(params), plane, <<params.width, params.height>>)
=============================================================================
