---------------------------- MODULE ResidualCoding ----------------------------
(***************************************************************************)
(* One plane of a sequence of pictures through both sides: the encoder     *)
(* scales the source (FileEncoder.cpp, DownsampleImage), predicts each     *)
(* sub-layer, transforms, selects and quantises what is left, and decodes  *)
(* it again (Encoder::encode); every layer of symbols goes through the     *)
(* entropy coders of EntropyCoder; the decoder predicts, dequantises and   *)
(* adds up (Decoder::decode).  The base codec between them is external: it *)
(* adds some error to the picture that it is given.                        *)
(*                                                                         *)
(* One thread runs each side and calls its stages one after the other, so  *)
(* that at.stage is the next call.  Headers are not modelled here: both    *)
(* sides have the same configuration, and the decoder is given what the    *)
(* picture header says of a picture.  See StreamSyntax and TemporalLoop.   *)
(***************************************************************************)
EXTENDS EntropyCoder, Resampling, Transform, PriorityMap, TemporalDecision

CONSTANT Configurations   \* configurations of encoders, with their pictures

(* Whole blocks in sub-layer 1 (Dimensions::set), of which sub-layer 2 has *)
(* two pels for each in the directions that are scaled.                    *)
ASSUME ConfigurationsAssumption ==
  \A c \in Configurations :
    /\ c.size \in {2, 4} /\ c.width \in Nat \ {0} /\ c.height \in Nat \ {0}
    /\ c.scaling[1] \in ScalingModes /\ c.scaling[2] \in ScalingModes
    /\ c.width % (IF c.scaling[2] = "None" THEN c.size ELSE 2 * c.size) = 0
    /\ c.height % (IF c.scaling[2] = "2D" THEN 2 * c.size ELSE c.size) = 0
    /\ c.base_depth \in {8, 10, 12, 14} /\ c.enhancement_depth \in {8, 10, 12, 14}
    /\ c.upsample \in Upsamples /\ c.downsample \in Downsamples
    /\ \A k \in 1 .. 4 : c.upsampling_coefficients[k] \in Int
    /\ c.filter # <<>> => c.filter[1] \in Int /\ c.filter[2] \in Int
    /\ \A i \in DOMAIN c.pictures :
         /\ c.pictures[i].error \in Int
         /\ Width(c.pictures[i].source) \in Nat \ {0} /\ Height(c.pictures[i].source) \in Nat \ {0}
         /\ c.pictures[i].source \in [0 .. Height(c.pictures[i].source) - 1 ->
                                       [0 .. Width(c.pictures[i].source) - 1 -> Int]]
    /\ Len(c.pictures) \in Nat \ {0} /\ DOMAIN c.pictures = 1 .. Len(c.pictures)

VARIABLES
  conf,      \* the configuration, or NoPictures if a surface is coded alone
  at,        \* side, picture, sub-layer, pass and next stage
  work,      \* the surfaces that the stages hand on
  encoder,   \* the encoder's reconstruction and temporal buffer
  trials,    \* what the passes "intra" and "inter" have come to
  header,    \* of the picture: refresh, signalling and step widths
  sent,      \* surfaces to transmit, in order of transmission
  received,  \* surfaces that have been decoded
  decoder,   \* the decoder's reconstruction and temporal buffer
  shown      \* the decoded picture

pipeline == <<conf, at, work, encoder, trials, header, sent, received, decoder, shown>>

NoPictures == [pictures |-> <<>>]
Nothing == <<>>

Stages == {"downsample", "base", "upsample", "adjust", "difference", "mean", "types", "transform",
           "select", "quantise", "dequantise", "invert", "decide", "predict", "unenhanced",
           "send", "coding", "output", "end"}

CodingInit ==
  /\ \/ conf = NoPictures /\ Init
     \/ conf \in Configurations /\ Idle
  /\ at = [side |-> "encoder", image |-> 1, level |-> 1, pass |-> "final",
           stage |-> IF conf = NoPictures THEN "end" ELSE "downsample"]
  /\ work = [source |-> Nothing, intermediate |-> Nothing, base |-> Nothing,
             prediction |-> Nothing, difference |-> Nothing, residuals |-> Nothing,
             sad |-> Nothing, mean |-> Nothing, types |-> Nothing, coefficients |-> Nothing,
             symbols |-> Nothing, mask |-> Nothing]
  /\ encoder = [reco |-> Nothing, previous |-> Nothing]
  /\ trials = [intra |-> Nothing, inter |-> Nothing]
  /\ header = [refresh |-> TRUE, signalled |-> FALSE, step |-> 0]
  /\ sent = <<>>
  /\ received = <<>>
  /\ decoder = [reco |-> Nothing, buffer |-> Nothing]
  /\ shown = Nothing

Stage(side, stage) == at.side \in side /\ at.stage = stage
Encoder == {"encoder"}
Decoder == {"decoder"}
Either == {"encoder", "decoder"}
Go(stage) == at' = [at EXCEPT !.stage = stage]

-----------------------------------------------------------------------------
(* The configuration.                                                      *)

Picture == conf.pictures[at.image]
NumLayers == conf.size * conf.size
HorizontalOnly(level) == conf.scaling[level] = "1D"

(* level1_depth_flag: sub-layer 1 has the depth of the enhancement.        *)
IntermediateDepth == IF conf.level1_depth_flag THEN conf.enhancement_depth ELSE conf.base_depth

Scaled(size, level, mode) == IF conf.scaling[level] \in mode THEN size \div 2 ELSE size

is_user_data_layer(level, layer) ==
  level = 1 /\ conf.user_data.bits > 0 /\ layer = (IF conf.size = 4 THEN 5 ELSE 1)

(* The picture header has the step width of sub-layer 2. *)
PlaneStep(level) ==
  CASE level = 1 -> conf.step[1]
    [] level = 2 /\ conf.plane = 0 -> header.step
    [] level = 2 /\ conf.plane > 0 -> ChromaStepWidth(header.step, conf.chroma_multiplier)

(* last_idr_frame_num: set at intra pictures that are enhanced. *)
EarlierIntra == {i \in 1 .. at.image - 1 : conf.pictures[i].intra /\ conf.pictures[i].enhanced}
LastIntra == IF EarlierIntra = {} THEN 1
             ELSE CHOOSE i \in EarlierIntra : \A j \in EarlierIntra : j <= i

(* DELTA_SW: inter pictures have a multiplier by their distance from it.   *)
DeltaMultiplier ==
  LET distance == at.image - LastIntra
  IN  conf.delta_sw_mult[CHOOSE m \in {1, 2, 4, 8} :
                           distance % m = 0 /\ (m < 8 => distance % (2 * m) # 0)]

(* The step of sub-layer 2 has a multiplier. *)
PictureStep ==
  StepWidth((conf.step[2] * (IF ~Picture.intra THEN DeltaMultiplier
                             ELSE IF conf.temporal THEN conf.temporal_cq_sw_multiplier
                             ELSE 1000)) \div 1000)

-----------------------------------------------------------------------------
(* FileEncoder: the pictures for the base encoder and for the enhancement. *)

Downsample ==
  /\ Stage(Encoder, "downsample")
  /\ \E padded \in {Expand(Picture.source, conf.width, conf.height)} :
       work' = [work EXCEPT
         !.source = padded,
         !.intermediate = DownsampleImage(padded, conf.enhancement_depth, IntermediateDepth,
                                          conf.scaling[2], DownsampleKernels[conf.downsample])]
  /\ Go("base")
  /\ UNCHANGED <<vars, conf, encoder, trials, header, sent, received, decoder, shown>>

(* run_base_encoder; external is the error of the codec.                   *)
CodeBase ==
  /\ Stage(Encoder, "base")
  /\ \E base \in {DownsampleImage(work.intermediate, IntermediateDepth, conf.base_depth,
                                  conf.scaling[1], DownsampleKernels[conf.downsample])} :
       work' = [work EXCEPT
         !.source = ConvertToInternal(work.source, conf.enhancement_depth),
         !.intermediate = ConvertToInternal(work.intermediate, IntermediateDepth),
         !.base = Mapped(base, LAMBDA v : Clamp(v + Picture.error, 0, 2^conf.base_depth - 1))]
  /\ Go("upsample")
  /\ UNCHANGED <<vars, conf, encoder, trials, header, sent, received, decoder, shown>>

-----------------------------------------------------------------------------
(* Prediction of a sub-layer, the same on both sides.                      *)

BaseInternal ==
  ConvertToInternal(ConvertBitShift(work.base, conf.base_depth,
                                    IF conf.enhancement_depth > conf.base_depth THEN IntermediateDepth
                                                                                ELSE conf.base_depth),
                    IF conf.enhancement_depth > conf.base_depth THEN IntermediateDepth ELSE conf.base_depth)

(* What is upsampled to the sub-layer: the base, or sub-layer 1.           *)
Below == IF at.level = 1 THEN BaseInternal
         ELSE IF at.side = "encoder" THEN encoder.reco ELSE decoder.reco

UpsamplePrediction ==
  /\ Stage(Either, "upsample")
  /\ \E below \in {Below} :
       work' = [work EXCEPT !.prediction =
         Upsample(below, conf.scaling[at.level],
                  UpsampleKernel(conf.upsample, conf.upsampling_coefficients))]
  /\ Go("adjust")
  /\ UNCHANGED <<vars, conf, encoder, trials, header, sent, received, decoder, shown>>

Adjusted ==
  IF conf.predicted_residual THEN Adjust(Below, work.prediction, conf.scaling[at.level])
                             ELSE work.prediction

(* Without enhancement sub-layer 1 is its prediction.                      *)
EncoderAdjust ==
  /\ Stage(Encoder, "adjust")
  /\ \E adjusted \in {Adjusted} :
       /\ work' = [work EXCEPT !.prediction = adjusted]
       /\ encoder' = IF Picture.enhanced \/ at.level = 2 THEN encoder
                     ELSE [encoder EXCEPT !.reco = adjusted]
  /\ at' = IF Picture.enhanced THEN [at EXCEPT !.stage = "difference"]
           ELSE IF at.level = 1 THEN [at EXCEPT !.level = 2, !.stage = "upsample"]
           ELSE [at EXCEPT !.stage = "unenhanced"]
  /\ UNCHANGED <<vars, conf, trials, header, sent, received, decoder, shown>>

-----------------------------------------------------------------------------
(* The encoder's residuals.                                                *)

(* Without temporal prediction: refresh, and no signalling.                *)
Refreshed == ~conf.temporal \/ encoder.previous = Nothing \/ Picture.intra

(* The next picture, to see what moves; of plane 0, if anything depends.   *)
SeesNext ==
  /\ at.image < Len(conf.pictures) /\ conf.plane = 0
  /\ \/ conf.sad_threshold # 0 /\ conf.sad_coeff_threshold # 0
     \/ conf.priority_sl_2
     \/ conf.quant_reduced_deadzone # 5

NextSource ==
  ConvertToInternal(Expand(conf.pictures[at.image + 1].source, conf.width, conf.height),
                    conf.enhancement_depth)

Prioritised(level) ==
  conf.plane = 0 /\ (IF level = 1 THEN conf.priority_sl_1 ELSE conf.priority_sl_2)

(* What is coded before the final pass: sub-layer 2 in two trial passes if *)
(* it may be predicted.                                                    *)
FirstPass == IF at.level = 2 /\ ~Refreshed THEN "intra" ELSE "final"

EntryOf(pass) == IF pass = "final" /\ Prioritised(at.level) THEN "mean" ELSE "transform"

Difference ==
  /\ Stage(Encoder, "difference")
  /\ \E target \in {IF at.level = 1 THEN work.intermediate ELSE work.source} :
       work' = [work EXCEPT
         !.difference = Subtract(target, work.prediction),
         !.residuals = Subtract(target, work.prediction),
         !.sad = IF at.level = 2 /\ SeesNext THEN TemporalCost_SAD(target, NextSource, conf.size)
                 ELSE Nothing,
         !.types = Nothing]
  /\ header' = IF at.level = 1 THEN header
               ELSE [refresh |-> Refreshed, signalled |-> ~Refreshed, step |-> PictureStep]
  /\ at' = [at EXCEPT !.pass = FirstPass, !.stage = EntryOf(FirstPass)]
  /\ UNCHANGED <<vars, conf, encoder, trials, sent, received, decoder, shown>>

(* The priority map looks at the source of the sub-layer.                  *)
Target == IF at.level = 1 THEN work.intermediate ELSE work.source

ComputeMeans ==
  /\ Stage(Encoder, "mean")
  /\ work' = [work EXCEPT !.mean = ComputeMeanValue(Target)]
  /\ Go("types")
  /\ UNCHANGED <<vars, conf, encoder, trials, header, sent, received, decoder, shown>>

ComputeTypes ==
  /\ Stage(Encoder, "types")
  /\ work' = [work EXCEPT !.types = ComputeContrastTexture(Target, work.mean)]
  /\ Go("transform")
  /\ UNCHANGED <<vars, conf, encoder, trials, header, sent, received, decoder, shown>>

-----------------------------------------------------------------------------
(* encode_residuals.                                                       *)

EncodeTransform ==
  /\ Stage(Encoder, "transform")
  /\ work' = [work EXCEPT !.coefficients =
                Coefficients(work.residuals, conf.size, ForwardBasis(conf.size, HorizontalOnly(at.level)))]
  /\ Go("select")
  /\ UNCHANGED <<vars, conf, encoder, trials, header, sent, received, decoder, shown>>

(* The trial passes see neither what moves nor the types.                  *)
PassSad == IF at.pass = "final" THEN work.sad ELSE Nothing
PassTypes == IF at.pass = "final" THEN work.types ELSE Nothing

WithoutStatic(layers) ==
  IF PassSad # Nothing /\ conf.sad_threshold # 0 /\ conf.sad_coeff_threshold # 0
    THEN StaticResiduals(layers, PassSad, header.step, conf.sad_threshold, conf.sad_coeff_threshold)
    ELSE layers

ByPriority(layers) ==
  CASE PassTypes = Nothing -> layers
    [] PassTypes # Nothing /\ at.level = 1 ->
         PriorityLevel1(layers, conf.size, PassTypes, conf.priority_type_sl_1, conf.encoding_mode)
    [] PassTypes # Nothing /\ at.level = 2 ->
         PriorityLevel2(layers, conf.size, PassTypes, PassSad, conf.priority_type_sl_2, header.step)

SelectCoefficients ==
  /\ Stage(Encoder, "select")
  /\ work' = [work EXCEPT !.coefficients = ByPriority(WithoutStatic(@))]
  /\ Go("quantise")
  /\ UNCHANGED <<vars, conf, encoder, trials, header, sent, received, decoder, shown>>

(* Temporal_SWM *)
SwmType ==
  IF at.level = 1 \/ header.refresh THEN "Disabled"
  ELSE IF at.pass = "final" THEN "Dependent" ELSE "Active"

PassSteps == StepWidths(PlaneStep(at.level), conf.temporal_step_width_modifier, SwmType)

Matrix(layer) == conf.matrix[at.level][layer + 1]

Quantised(layer, surface) ==
  LET q == [p \in 1 .. Len(PassSteps) |-> Quantiser(PassSteps[p], Matrix(layer))]
  IN  IF Len(q) = 1
        THEN Quantize(surface, q, PassSad, conf.size, conf.quant_reduced_deadzone)
        ELSE Quantize_SWM(surface, q, work.mask, PassSad, conf.size, conf.quant_reduced_deadzone)

(* Any user data will do; random data differ from pel to pel.              *)
UserData ==
  Generate(conf.width, conf.height, LAMBDA x, y :
    CASE conf.user_data.method = "Zeros" -> 0
      [] conf.user_data.method = "Ones" -> 2^conf.user_data.bits - 1
      [] conf.user_data.method = "Random" -> (x + y) % 2^conf.user_data.bits)

QuantiseLayers ==
  /\ Stage(Encoder, "quantise")
  /\ work' = [work EXCEPT !.symbols =
       [l \in 0 .. NumLayers - 1 |->
          IF is_user_data_layer(at.level, l)
            THEN UserDataInsert(Quantised(l, work.coefficients[l]), conf.user_data.bits, UserData)
            ELSE Quantised(l, work.coefficients[l])]]
  /\ Go("dequantise")
  /\ UNCHANGED <<vars, conf, encoder, trials, header, sent, received, decoder, shown>>

-----------------------------------------------------------------------------
(* decode_residuals, in the encoder.                                       *)

Dequantisers(steps, layer) ==
  [p \in 1 .. Len(steps) |-> Dequantiser(conf.dequant_offset, steps[p], Matrix(layer))]

Cleared(layer, surface) ==
  IF is_user_data_layer(at.level, layer) THEN UserDataClear(surface, conf.user_data.bits) ELSE surface

EncoderDequantise ==
  /\ Stage(Encoder, "dequantise")
  /\ work' = [work EXCEPT !.coefficients =
       [l \in 0 .. NumLayers - 1 |->
          IF Len(PassSteps) = 1
            THEN InverseQuantize(Cleared(l, work.symbols[l]), Dequantisers(PassSteps, l))
            ELSE InverseQuantize_SWM(work.symbols[l], Dequantisers(PassSteps, l), work.mask)]]
  /\ Go("invert")
  /\ UNCHANGED <<vars, conf, encoder, trials, header, sent, received, decoder, shown>>

(* Only the 4x4 blocks of sub-layer 1 are filtered. *)
Filtered(residuals) ==
  IF at.level = 1 /\ conf.filter # Nothing /\ conf.size = 4
    THEN Deblock(residuals, conf.filter[1], conf.filter[2]) ELSE residuals

Inverted ==
  InverseTransform(work.coefficients, conf.size, InverseBasis(conf.size, HorizontalOnly(at.level)))

(* Sub-layer 2 of a pass is costed against its source.                     *)
Trial(pass, residuals) ==
  [symbols |-> work.symbols,
   reco |-> AddSurfaces(work.prediction,
                        IF pass = "inter" THEN AddSurfaces(encoder.previous, residuals) ELSE residuals)]

InvertTrial ==
  /\ Stage(Encoder, "invert") /\ at.pass # "final"
  /\ \E residuals \in {Inverted} : trials' = [trials EXCEPT ![at.pass] = Trial(at.pass, residuals)]
  /\ work' = IF at.pass = "inter" THEN work
             ELSE [work EXCEPT !.residuals = Subtract(work.difference, encoder.previous)]
  /\ at' = IF at.pass = "inter" THEN [at EXCEPT !.stage = "decide"]
           ELSE [at EXCEPT !.pass = "inter", !.stage = "transform"]
  /\ UNCHANGED <<vars, conf, encoder, header, sent, received, decoder, shown>>

InvertLevel1 ==
  /\ Stage(Encoder, "invert") /\ at.level = 1
  /\ \E residuals \in {Inverted} :
       encoder' = [encoder EXCEPT !.reco = AddSurfaces(work.prediction, Filtered(residuals))]
  /\ sent' = [l \in 1 .. NumLayers |-> work.symbols[l - 1]]
  /\ at' = [at EXCEPT !.level = 2, !.stage = "upsample"]
  /\ UNCHANGED <<vars, conf, work, trials, header, received, decoder, shown>>

(* The temporal buffer has what is added to the prediction; without        *)
(* temporal prediction there is no buffer.                                 *)
InvertLevel2 ==
  /\ Stage(Encoder, "invert") /\ at.level = 2 /\ at.pass = "final"
  /\ \E accumulated \in {IF header.refresh THEN Inverted
                                           ELSE AddSurfaces(encoder.previous, Inverted)} :
       encoder' = [reco |-> AddSurfaces(work.prediction, accumulated),
                   previous |-> IF conf.temporal THEN accumulated ELSE encoder.previous]
  /\ sent' = sent \o [l \in 1 .. NumLayers |-> work.symbols[l - 1]]
                  \o (IF header.refresh THEN <<>> ELSE <<work.mask>>)
  /\ Go("send")
  /\ UNCHANGED <<vars, conf, work, trials, header, received, decoder, shown>>

-----------------------------------------------------------------------------
(* The temporal decision.                                                  *)

(* The factor of the cost is the step of layer 0. *)
Lambda == Dequantiser(conf.dequant_offset, PlaneStep(2), Matrix(0)).step

TrialCost(pass) ==
  TemporalCost(work.source, trials[pass].reco, trials[pass].symbols, conf.size, Lambda, pass = "intra")

TileMap ==
  TemporalTileMap(SumOfSymbols(trials.intra.symbols), SumOfSymbols(trials.inter.symbols), conf.size)

Decide ==
  /\ Stage(Encoder, "decide")
  /\ \E mask \in {CompareLE(TrialCost("intra"), TrialCost("inter"))} :
       work' = [work EXCEPT !.mask = IF conf.tile_signalling
                                       THEN TemporalTileIntraSignal(TileMap, mask, conf.size)
                                       ELSE mask]
  /\ Go("predict")
  /\ UNCHANGED <<vars, conf, encoder, trials, header, sent, received, decoder, shown>>

PredictTemporally ==
  /\ Stage(Encoder, "predict")
  /\ \E previous \in {ApplyTemporalMap(encoder.previous, work.mask, conf.size)} :
       /\ encoder' = [encoder EXCEPT !.previous = previous]
       /\ work' = [work EXCEPT !.residuals = Subtract(work.difference, previous)]
  /\ at' = [at EXCEPT !.pass = "final", !.stage = EntryOf("final")]
  /\ UNCHANGED <<vars, conf, trials, header, sent, received, decoder, shown>>

(* A picture without enhancement may still have a temporal layer; its map  *)
(* of tiles has no intra tile.                                             *)
Unenhanced(previous, mask, signalled) ==
  /\ work' = [work EXCEPT !.mask = mask]
  /\ encoder' = [reco |-> IF previous = Nothing THEN work.prediction
                                               ELSE AddSurfaces(work.prediction, previous),
                 previous |-> previous]
  /\ header' = [header EXCEPT !.refresh = (previous = Nothing), !.signalled = signalled]
  /\ sent' = IF signalled THEN <<mask>> ELSE <<>>
  /\ Go("send")
  /\ UNCHANGED <<vars, conf, trials, received, decoder, shown>>

NoTiles ==
  Fill(TilesAcross(Width(work.prediction) \div conf.size, conf.size),
       TilesAcross(Height(work.prediction) \div conf.size, conf.size), TEMPORAL_PRED)

UnenhancedMask ==
  CompareLE(TemporalCost_SAD(work.source, work.prediction, conf.size),
            TemporalCost_SAD(work.source, AddSurfaces(work.prediction, encoder.previous), conf.size))

EncodeUnenhanced ==
  /\ Stage(Encoder, "unenhanced")
  /\ IF Refreshed THEN Unenhanced(Nothing, Nothing, FALSE)
     ELSE IF ~conf.no_enhancement_temporal_layer THEN Unenhanced(encoder.previous, Nothing, FALSE)
     ELSE \E mask \in {IF conf.tile_signalling
                         THEN TemporalTileIntraSignal(NoTiles, UnenhancedMask, conf.size)
                         ELSE UnenhancedMask} :
            Unenhanced(ApplyTemporalMap(encoder.previous, mask, conf.size), mask, TRUE)

-----------------------------------------------------------------------------
(* Transmission: surface by surface through the entropy coders.            *)

IsMask(k) == header.signalled /\ k = Len(sent)

(* With temporal prediction surfaces are scanned tile by tile.  Element k  *)
(* of the scan, from 0 on, of a surface.                                   *)
ScanTile == IF conf.temporal THEN TransformsPerTile(conf.size) ELSE conf.width

ScanPosition(s, k) ==
  LET y0 == (k \div (Width(s) * ScanTile)) * ScanTile
      height == Least(ScanTile, Height(s) - y0)
      x0 == ((k - y0 * Width(s)) \div (ScanTile * height)) * ScanTile
      width == Least(ScanTile, Width(s) - x0)
      rest == k - y0 * Width(s) - x0 * height
  IN  <<x0 + (rest % width), y0 + (rest \div width)>>

(* The inverse. *)
ScanIndex(width, height, x, y) ==
  LET y0 == (y \div ScanTile) * ScanTile
      x0 == (x \div ScanTile) * ScanTile
  IN  y0 * width + x0 * Least(ScanTile, height - y0)
        + (y - y0) * Least(ScanTile, width - x0) + (x - x0)

Scanned(s) ==
  [i \in 1 .. Width(s) * Height(s) |-> s[ScanPosition(s, i - 1)[2]][ScanPosition(s, i - 1)[1]]]

TileStarts(s) ==
  {i \in 1 .. Width(s) * Height(s) :
     LET p == ScanPosition(s, i - 1) IN p[1] % ScanTile = 0 /\ p[2] % ScanTile = 0}

SendSurface ==
  /\ Stage(Encoder, "send") /\ Len(received) < Len(sent)
  /\ \E s \in {sent[Len(received) + 1]} :
       Code([coder |-> IF IsMask(Len(received) + 1) THEN "temporal" ELSE "residuals",
             data |-> Scanned(s),
             reduced |-> IsMask(Len(received) + 1) /\ conf.tile_signalling, form |-> "smaller",
             starts |-> TileStarts(s), enabled |-> {}])
  /\ Go("coding")
  /\ UNCHANGED <<conf, work, encoder, trials, header, sent, received, decoder, shown>>

ReceiveSurface ==
  /\ Stage(Encoder, "coding")
  /\ phase = "decoding" /\ Len(out) = Size
  /\ \E s \in {sent[Len(received) + 1]} :
       received' = Append(received, Generate(Width(s), Height(s), LAMBDA x, y :
                                               out[ScanIndex(Width(s), Height(s), x, y) + 1]))
  /\ Go("send")
  /\ UNCHANGED <<vars, conf, work, encoder, trials, header, sent, decoder, shown>>

AllReceived ==
  /\ Stage(Encoder, "send") /\ Len(received) = Len(sent)
  /\ at' = [at EXCEPT !.side = "decoder", !.level = 1, !.stage = "upsample"]
  /\ UNCHANGED <<vars, conf, work, encoder, trials, header, sent, received, decoder, shown>>

-----------------------------------------------------------------------------
(* Decoder::decode                                                         *)

ReceivedLayer(layer) == received[(IF at.level = 1 THEN 1 ELSE NumLayers + 1) + layer]

DecoderAdjust ==
  /\ Stage(Decoder, "adjust")
  /\ \E adjusted \in {Adjusted} :
       /\ work' = [work EXCEPT !.prediction = adjusted]
       /\ decoder' = IF Picture.enhanced \/ at.level = 2 THEN decoder
                     ELSE [decoder EXCEPT !.reco = adjusted]
  /\ at' = IF Picture.enhanced THEN [at EXCEPT !.stage = "dequantise"]
           ELSE IF at.level = 1 THEN [at EXCEPT !.level = 2, !.stage = "upsample"]
           ELSE [at EXCEPT !.stage = "unenhanced"]
  /\ UNCHANGED <<vars, conf, encoder, trials, header, sent, received, shown>>

(* get_temporal_mask *)
DecodedMask ==
  IF header.signalled THEN received[Len(received)]
  ELSE Fill(conf.width \div conf.size, conf.height \div conf.size,
            IF header.refresh THEN TEMPORAL_INTR ELSE TEMPORAL_PRED)

(* Faulty variant of DecodedSteps: the steps of luma for every plane. *)
DecodedStepsOfLuma ==
  LET step == IF at.level = 1 THEN conf.step[1] ELSE header.step
  IN  IF at.level = 2 /\ conf.temporal /\ ~header.refresh
        THEN <<ModifiedStepWidth(step, conf.temporal_step_width_modifier), step>>
        ELSE <<step>>

(* decode_residuals has its own way to the step widths.                    *)
DecodedSteps ==
  LET step == PlaneStep(at.level)
  IN  IF at.level = 2 /\ conf.temporal /\ ~header.refresh
        THEN <<ModifiedStepWidth(step, conf.temporal_step_width_modifier), step>>
        ELSE <<step>>

(* The user data are extracted in place. *)
ExtractUserData(layer) ==
  IF is_user_data_layer(at.level, layer)
    THEN UserDataClear(ReceivedLayer(layer), conf.user_data.bits)
    ELSE ReceivedLayer(layer)

DecoderDequantise ==
  /\ Stage(Decoder, "dequantise")
  /\ work' = [work EXCEPT
       !.mask = IF at.level = 2 /\ conf.temporal THEN DecodedMask ELSE Nothing,
       !.coefficients = [l \in 0 .. NumLayers - 1 |->
         DequantizeInPlace(ExtractUserData(l), Dequantisers(DecodedSteps, l), DecodedMask)]]
  /\ Go("invert")
  /\ UNCHANGED <<vars, conf, encoder, trials, header, sent, received, decoder, shown>>

DecodeLevel1 ==
  /\ Stage(Decoder, "invert") /\ at.level = 1
  /\ \E residuals \in {Inverted} :
       decoder' = [decoder EXCEPT !.reco = AddSurfaces(work.prediction, Filtered(residuals))]
  /\ at' = [at EXCEPT !.level = 2, !.stage = "upsample"]
  /\ UNCHANGED <<vars, conf, work, encoder, trials, header, sent, received, shown>>

(* The buffer, masked; it begins with zeros. *)
Predicted(mask) ==
  IF decoder.buffer = Nothing THEN Fill(conf.width, conf.height, 0)
                              ELSE ApplyTemporalMap(decoder.buffer, mask, conf.size)

DecodeLevel2 ==
  /\ Stage(Decoder, "invert") /\ at.level = 2
  /\ \E residuals \in {IF conf.temporal THEN AddSurfaces(Predicted(work.mask), Inverted) ELSE Inverted} :
       decoder' = [reco |-> AddSurfaces(work.prediction, residuals),
                   buffer |-> IF conf.temporal THEN residuals ELSE Nothing]
  /\ Go("output")
  /\ UNCHANGED <<vars, conf, work, encoder, trials, header, sent, received, shown>>

DecodeUnenhanced ==
  /\ Stage(Decoder, "unenhanced")
  /\ IF conf.temporal
       THEN \E buffer \in {Predicted(DecodedMask)} :
              decoder' = [reco |-> AddSurfaces(work.prediction, buffer), buffer |-> buffer]
       ELSE decoder' = [decoder EXCEPT !.reco = work.prediction]
  /\ Go("output")
  /\ UNCHANGED <<vars, conf, work, encoder, trials, header, sent, received, shown>>

(* Dithering, of plane 0 only, the window and the conversion.              *)
Output ==
  /\ Stage(Decoder, "output")
  /\ \E start \in IF conf.dither = Nothing \/ conf.plane > 0 THEN {0}
                  ELSE 1 .. Len(conf.dither) - NumLayers + 1 :
       shown' = ConvertFromInternal(
                  Conform(IF start = 0 THEN decoder.reco
                          ELSE Dither(decoder.reco, conf.size, conf.dither, Fill(conf.width, conf.height, start)),
                          0, 0, conf.width - Width(Picture.source), conf.height - Height(Picture.source)),
                  conf.enhancement_depth)
  /\ Go("end")
  /\ UNCHANGED <<vars, conf, work, encoder, trials, header, sent, received, decoder>>

NextPicture ==
  /\ Stage(Decoder, "end") /\ at.image < Len(conf.pictures)
  /\ at' = [at EXCEPT !.side = "encoder", !.image = @ + 1, !.level = 1, !.pass = "final",
                      !.stage = "downsample"]
  /\ sent' = <<>>
  /\ received' = <<>>
  /\ shown' = Nothing
  /\ UNCHANGED <<vars, conf, work, encoder, trials, header, decoder>>

Pipeline ==
  \/ Downsample \/ CodeBase \/ UpsamplePrediction \/ EncoderAdjust \/ Difference
  \/ ComputeMeans \/ ComputeTypes
  \/ EncodeTransform \/ SelectCoefficients \/ QuantiseLayers \/ EncoderDequantise
  \/ InvertTrial \/ InvertLevel1 \/ InvertLevel2 \/ Decide \/ PredictTemporally \/ EncodeUnenhanced
  \/ SendSurface \/ ReceiveSurface \/ AllReceived
  \/ DecoderAdjust \/ DecoderDequantise \/ DecodeLevel1 \/ DecodeLevel2 \/ DecodeUnenhanced
  \/ Output \/ NextPicture

CodingNext == Pipeline \/ (Next /\ UNCHANGED pipeline)

allvars == <<vars, pipeline>>

CodingSpec == CodingInit /\ [][CodingNext]_allvars /\ WF_vars(Next)

-----------------------------------------------------------------------------
(* Nothing is cut off from the products of symbols with their steps, which *)
(* the encoder's dequantiser of one step width (InverseQuantize.cpp) cuts  *)
(* to 16 bits before it clamps them, and the decoder's does not.           *)
Word16 == -32768 .. 32767

Fits(s, q) ==
  \A y \in 0 .. Height(s) - 1, x \in 0 .. Width(s) - 1 :
    Dequantised(s[y][x], q[1]) \in Word16

ProductsFit ==
  Stage(Encoder, "dequantise") /\ at.pass = "final" /\ Len(PassSteps) = 1 =>
    \A l \in 0 .. NumLayers - 1 : Fits(Cleared(l, work.symbols[l]), Dequantisers(PassSteps, l))

(* The decoder has the encoder's picture and the encoder's temporal        *)
(* buffer: each side has its own way to the step widths, the mask, the     *)
(* user data and the prediction, and any difference would stay in the      *)
(* buffer until the next refresh.                                          *)
DecoderReconstructsEncoder ==
  Stage(Decoder, "output") =>
    /\ decoder.reco = encoder.reco
    /\ conf.temporal =>
         decoder.buffer = (IF encoder.previous = Nothing THEN Fill(conf.width, conf.height, 0)
                                                         ELSE encoder.previous)

(* What quantisation with the given step may cost a coefficient: what is   *)
(* below the first step, or anywhere within a step.                        *)
StepError(layer, step, symbol) ==
  LET q == Quantiser(step, Matrix(layer))
      d == Dequantiser(conf.dequant_offset, step, Matrix(layer))
      least == Abs(symbol) * (q.step - d.step) - q.deadzone - d.offset
  IN  IF symbol = 0 THEN q.step - q.deadzone - 1
                    ELSE Greatest(Abs(least), Abs(least + q.step - 1))

(* The step of a block, if quantisation and dequantisation agree on it: a  *)
(* tile is quantised as its first transform.                               *)
StepAt(x, y) == PassSteps[IF header.refresh THEN 1 ELSE StepOf(work.mask, x, y)]
OneStep(x, y) ==
  header.refresh \/ work.mask[y][x] = work.mask[TileOrigin(y, conf.size)][TileOrigin(x, conf.size)]

(* The symbols of a block of sub-layer 2, and whether none is at its limit. *)
SymbolAt(layer, x, y) == received[NumLayers + 1 + layer][y][x]
Unlimited(x, y) == \A l \in 0 .. NumLayers - 1 : SymbolAt(l, x, y) \in 1 - Limit .. Limit - 2

(* Steps of all layers, and what the integers of the transform cut off.    *)
BlockError(x, y) ==
  NumLayers - 1 + Total(NumLayers, LAMBDA l : StepError(l, StepAt(x, y), SymbolAt(l, x, y)))

(* Half a sample of rounding, and the noise.                               *)
Noise ==
  {0} \cup (IF conf.plane = 0 THEN {Abs(conf.dither[k]) : k \in DOMAIN conf.dither} ELSE {})

(* The encoder may give up coefficients of still or unimportant blocks.    *)
GivesUp == conf.priority_sl_2 \/ conf.sad_threshold # 0 \/ conf.quant_reduced_deadzone # 5

(* The picture shown is, pel by pel, as near to the source as the steps of *)
(* sub-layer 2 say, whatever the scaling, the base codec's error, sub-     *)
(* layer 1 and the prediction have done: unless a symbol is at its limit,  *)
(* or the encoder may give up coefficients.                                *)
ShownWithinSteps ==
  Stage(Decoder, "end") /\ Picture.enhanced /\ ~GivesUp =>
    \A y \in DOMAIN Picture.source : \A x \in DOMAIN Picture.source[0] :
      OneStep(x \div conf.size, y \div conf.size) /\ Unlimited(x \div conf.size, y \div conf.size) =>
        \E noise \in Noise :
          Abs(shown[y][x] - Picture.source[y][x]) * 2^(15 - conf.enhancement_depth)
            <= BlockError(x \div conf.size, y \div conf.size) + 2^(14 - conf.enhancement_depth) + noise
=============================================================================
