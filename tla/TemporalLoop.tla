---------------------------- MODULE TemporalLoop ----------------------------
(***************************************************************************)
(* The temporal prediction loop of LCEVC sub-layer 2.  Encoder::encode     *)
(* (encoder/src/Encoder.cpp) and Decoder::decode (decoder/src/Decoder.cpp) *)
(* each keep the accumulated residuals of every plane, and must keep the   *)
(* same ones although the stream carries only differences, a mask of the   *)
(* blocks to predict from zero, and a few bits.                            *)
(*                                                                         *)
(* The encoder works plane by plane, and decides for each plane; the bits  *)
(* temporal_refresh and temporal_signalling_present are written once for   *)
(* the picture, as the last plane has left them.                           *)
(*                                                                         *)
(* A residual stands for the residuals of a transform block; they add up   *)
(* in 16 bits and wrap.  The base prediction that both sides add the       *)
(* residuals to is left out, and so is sub-layer 1, which keeps no state.  *)
(* Of the step width of sub-layer 2, which the picture header carries, all *)
(* that counts here is whether it asks for no enhancement.                 *)
(***************************************************************************)
EXTENDS Integers

CONSTANTS NumPlanes,       \* num_processed_planes
          Blocks,          \* the transform blocks of a plane
          Modulus,         \* number of values of a residual: 2^16
          Symbols,         \* quantised residuals of a block
          Recon,           \* Recon[s][w]: s dequantised with step width w
          Empty,           \* a default-constructed Surface, or no packet
          Configurations   \* the encoder configurations considered

ASSUME NumPlanesAssumption == NumPlanes \in Nat \ {0}
ASSUME ModulusAssumption == Modulus \in Nat \ {0}

Planes == 0 .. NumPlanes - 1
Residuals == 0 .. Modulus - 1
StepWidths == {"plain", "reduced"}

ASSUME ReconAssumption == Recon \in [Symbols -> [StepWidths -> Residuals]]

(* temporal_enabled; whether both step widths are configured at            *)
(* MAX_STEP_WIDTH (which asks for no enhancement); whether                 *)
(* temporal_cq_sw_multiplier # 1000; whether one of the multipliers        *)
(* delta_sw_mult_gop01 to gop08 takes the width of sub-layer 2 to          *)
(* MAX_STEP_WIDTH; no_enhancement_temporal_layer; and                      *)
(* tile_dimensions_type # TileDimensions_None.                             *)
ConfigurationTypes ==
  [temporal : BOOLEAN, level1_max : BOOLEAN, level2_max : BOOLEAN,
   intra_scaled : BOOLEAN, inter_scaled : BOOLEAN,
   no_enhancement_layer : BOOLEAN, tiled : BOOLEAN]

ASSUME ConfigurationsAssumption == Configurations \subseteq ConfigurationTypes

FrameTypes == {"IDR", "Intra", "Inter"}
Intra(type) == type \in {"IDR", "Intra"}

Masks == [Blocks -> {"INTR", "PRED"}]
Surfaces == [Blocks -> Residuals]

(* The plane to code next of a picture, and what is known of the picture.  *)
Frames ==
  [plane : 0 .. NumPlanes, type : FrameTypes \cup {"None"}, scaled : BOOLEAN,
   enhanced : BOOLEAN, refresh : BOOLEAN, present : BOOLEAN]

(* A picture's enhancement data.                                           *)
Packets ==
  [global : BOOLEAN, enhanced : BOOLEAN, refresh : BOOLEAN, present : BOOLEAN,
   layer : BOOLEAN,
   symbols : [Planes -> [Blocks -> Symbols] \cup {Empty}],
   mask : [Planes -> Masks \cup {Empty}]]

ASSUME EmptyAssumption ==
  /\ Empty \notin Surfaces /\ Empty \notin Packets
  /\ Empty \notin [Blocks -> Symbols] /\ Empty \notin Masks

VARIABLES
  config,     \* the configuration of this encoder
  level2,     \* step_width_loq[LOQ_LEVEL_2] >= MAX_STEP_WIDTH, in the encoder
  previous,   \* previous_residuals_ of the encoder
  frame,      \* the picture the encoder is working on
  written,    \* symbols of each plane of that picture: residuals and mask
  reco,       \* full_reco of the encoder, less the prediction
  packet,     \* the enhancement data on its way to the decoder
  buffer,     \* temporal_buffer_ of the decoder
  shown       \* full_reco of the decoder, less the prediction

encoderVars == <<level2, previous, frame, written, reco>>
decoderVars == <<buffer, shown>>
vars == <<config, encoderVars, packet, decoderVars>>

Idle == [plane |-> NumPlanes, type |-> "None", scaled |-> FALSE, enhanced |-> FALSE,
         refresh |-> FALSE, present |-> FALSE]

Zero == [b \in Blocks |-> 0]
AllIntr == [b \in Blocks |-> "INTR"]
AllPred == [b \in Blocks |-> "PRED"]
Unwritten == [p \in Planes |-> [symbols |-> Empty, mask |-> Empty]]

Init ==
  /\ config \in Configurations
  /\ level2 = config.level2_max
  /\ previous = [p \in Planes |-> Empty]
  /\ frame = Idle
  /\ written = Unwritten
  /\ reco = [p \in Planes |-> Empty]
  /\ packet = Empty
  /\ buffer = [p \in Planes |-> Empty]
  /\ shown = [p \in Planes |-> Empty]

-----------------------------------------------------------------------------
(* Operators common to both sides.                                         *)

(* Faulty variant of Add: more than 16 bits. *)
AddWide(s, t) == [b \in Blocks |-> s[b] + t[b]]

(* Add *)
Add(s, t) == [b \in Blocks |-> (s[b] + t[b]) % Modulus]

(* ApplyTemporalMap *)
ApplyTemporalMap(s, mask) == [b \in Blocks |-> IF mask[b] = "INTR" THEN 0 ELSE s[b]]

(* decode_residuals with one step width for all blocks. *)
Dequantised(symbols) == [b \in Blocks |-> Recon[symbols[b]]["plain"]]

(* decode_residuals with two passes: predicted blocks have the step width  *)
(* that temporal_step_width_modifier reduces.                              *)
DequantisedByMask(symbols, mask) ==
  [b \in Blocks |-> Recon[symbols[b]][IF mask[b] = "PRED" THEN "reduced" ELSE "plain"]]

-----------------------------------------------------------------------------
(* Encoder.                                                                *)

(* "Figure out whether data should be sent": with the step widths that the *)
(* picture before has left.                                                *)
EnhancementEnabled(type) ==
  config.level1_max /\ level2 => config.temporal /\ Intra(type) /\ config.intra_scaled

(* DELTA_SW: at an inter picture, the distance from the last intra picture *)
(* picks the multiplier; whether it takes the width to MAX_STEP_WIDTH.     *)
InterScaled(type) == IF config.inter_scaled /\ ~Intra(type) THEN BOOLEAN ELSE {FALSE}

(* A picture begins; update_picture_configuration_in_loop.  A stream       *)
(* begins with an IDR.                                                     *)
StartFrame(type) ==
  /\ packet = Empty /\ frame = Idle
  /\ reco[0] = Empty => type = "IDR"
  /\ \E scaled \in InterScaled(type) :
       frame' = [plane |-> 0, type |-> type, scaled |-> scaled,
                 enhanced |-> EnhancementEnabled(type),
                 refresh |-> FALSE, present |-> FALSE]
  /\ UNCHANGED <<config, level2, previous, written, reco, packet, decoderVars>>

Working == frame.plane < NumPlanes

(* No temporal prediction is possible, or it is not wanted. *)
NoTemporal(p) == ~config.temporal \/ previous[p] = Empty \/ Intra(frame.type)

(* step_width_loq[LOQ_LEVEL_2] is set for every enhanced plane: the        *)
(* multiplier of intra pictures makes it smaller, those of inter pictures  *)
(* make it larger.                                                         *)
StepWidthAfter ==
  IF Intra(frame.type) THEN config.level2_max /\ ~(config.temporal /\ config.intra_scaled)
                       ELSE config.level2_max \/ frame.scaled

Flags(refresh, present) ==
  frame' = [frame EXCEPT !.refresh = refresh, !.present = present, !.plane = @ + 1]

(* Faulty variant of Store: the buffer of the first plane only. *)
StoreFirst(p, surface) == previous' = [previous EXCEPT ![0] = IF p = 0 THEN surface ELSE @]

Store(p, surface) == previous' = [previous EXCEPT ![p] = surface]

Reconstruct(p, surface) == reco' = [reco EXCEPT ![p] = surface]

Write(p, symbols, mask) ==
  written' = [written EXCEPT ![p] = [symbols |-> symbols, mask |-> mask]]

(* No Temporal. *)
EncodeAfresh(p) ==
  /\ Working /\ p = frame.plane
  /\ frame.enhanced
  /\ ~frame.present /\ NoTemporal(p)
  /\ Flags(TRUE, FALSE)
  /\ level2' = StepWidthAfter
  /\ \E symbols \in [Blocks -> Symbols] :
       /\ Write(p, symbols, Empty)
       /\ Store(p, IF config.temporal THEN Dequantised(symbols) ELSE previous[p])
       /\ Reconstruct(p, Dequantised(symbols))
  /\ UNCHANGED <<config, packet, decoderVars>>

(* Temporal.  The masks that the costs can lead to are not restricted,     *)
(* except that an empty buffer forces every block to be intra.             *)
EncodePredicted(p) ==
  /\ Working /\ p = frame.plane
  /\ frame.enhanced
  /\ frame.present \/ ~NoTemporal(p)
  /\ Flags(FALSE, TRUE)
  /\ level2' = StepWidthAfter
  /\ \E mask \in IF previous[p] = Empty THEN {AllIntr} ELSE Masks,
        symbols \in [Blocks -> Symbols] :
       LET predicted == IF previous[p] = Empty THEN Zero
                        ELSE ApplyTemporalMap(previous[p], mask)
           sum == Add(predicted, DequantisedByMask(symbols, mask))
       IN  /\ Write(p, symbols, mask)
           /\ Store(p, sum)
           /\ Reconstruct(p, sum)
  /\ UNCHANGED <<config, packet, decoderVars>>

(* Faulty variant of PassThrough: the residuals are not dropped. *)
PassThroughKeeping(p) ==
  /\ Working /\ p = frame.plane
  /\ ~frame.enhanced
  /\ NoTemporal(p)
  /\ Flags(TRUE, FALSE)
  /\ Reconstruct(p, Zero)
  /\ UNCHANGED <<config, level2, previous, written, packet, decoderVars>>

(* No Temporal & no enhancement. *)
PassThrough(p) ==
  /\ Working /\ p = frame.plane
  /\ ~frame.enhanced
  /\ NoTemporal(p)
  /\ Flags(TRUE, FALSE)
  /\ Store(p, Empty)
  /\ Reconstruct(p, Zero)
  /\ UNCHANGED <<config, level2, written, packet, decoderVars>>

(* No enhancement, but the blocks are chosen that keep their residuals. *)
EncodeMaskOnly(p) ==
  /\ Working /\ p = frame.plane
  /\ ~frame.enhanced
  /\ ~NoTemporal(p) /\ config.no_enhancement_layer
  /\ Flags(FALSE, TRUE)
  /\ \E mask \in Masks :
       /\ Write(p, Empty, mask)
       /\ Store(p, ApplyTemporalMap(previous[p], mask))
       /\ Reconstruct(p, ApplyTemporalMap(previous[p], mask))
  /\ UNCHANGED <<config, level2, packet, decoderVars>>

(* No enhancement and no signalling: all blocks keep their residuals. *)
KeepResiduals(p) ==
  /\ Working /\ p = frame.plane
  /\ ~frame.enhanced
  /\ ~NoTemporal(p) /\ ~config.no_enhancement_layer
  /\ Flags(FALSE, FALSE)
  /\ Reconstruct(p, previous[p])
  /\ UNCHANGED <<config, level2, previous, written, packet, decoderVars>>

EncodePlane(p) ==
  \/ EncodeAfresh(p) \/ EncodePredicted(p)
  \/ PassThrough(p) \/ EncodeMaskOnly(p) \/ KeepResiduals(p)

(* Faulty variant of LayerWritten: only along with residual layers. *)
LayerWithResiduals == frame.present /\ frame.enhanced

(* The temporal layer follows the residual layers when it is signalled.    *)
(* emit_encoded_data_tiled takes the number of tiles from the residual     *)
(* symbols, so it finds no tile to write when there are none.              *)
LayerWritten == frame.present /\ (config.tiled => frame.enhanced)

(* Serializer: temporal_signalling_present is coded only in a picture      *)
(* without enhancement.                                                    *)
Emit ==
  /\ packet = Empty /\ frame # Idle /\ ~Working
  /\ packet' = [global   |-> Intra(frame.type),
                enhanced |-> frame.enhanced,
                refresh  |-> frame.refresh,
                present  |-> ~frame.enhanced /\ frame.present,
                layer    |-> LayerWritten,
                symbols  |-> [p \in Planes |-> written[p].symbols],
                mask     |-> [p \in Planes |-> IF LayerWritten THEN written[p].mask ELSE Empty]]
  /\ frame' = Idle
  /\ written' = Unwritten
  /\ UNCHANGED <<config, level2, previous, reco, decoderVars>>

-----------------------------------------------------------------------------
(* Decoder.                                                                *)

(* Faulty variant of Present: the bit as it was coded. *)
PresentAsCoded(pkt) == pkt.present

(* parse_picture_config *)
Present(pkt) ==
  IF pkt.enhanced THEN config.temporal /\ ~pkt.refresh ELSE pkt.present

(* Symbols of the temporal layer; of a layer without any tile all blocks   *)
(* are left at their default.                                              *)
MaskSymbols(p) == IF packet.layer THEN packet.mask[p] ELSE AllPred

(* get_temporal_mask *)
TemporalMask(p) ==
  IF Present(packet) THEN MaskSymbols(p)
  ELSE IF packet.refresh THEN AllIntr ELSE AllPred

(* decode_residuals *)
DecodedResiduals(p) ==
  IF ~packet.enhanced THEN Zero
  ELSE IF config.temporal /\ ~packet.refresh
    THEN DequantisedByMask(packet.symbols[p], TemporalMask(p))
    ELSE Dequantised(packet.symbols[p])

(* A decoder starts on a stream cut at an intra picture. *)
StartDecoder ==
  /\ packet # Empty /\ packet.global
  /\ buffer' = [p \in Planes |-> Empty]
  /\ UNCHANGED <<config, encoderVars, packet, shown>>

(* A global configuration reserves the buffers, without a content. *)
BufferAfterParsing(p) ==
  IF packet.global /\ buffer[p] = Empty THEN Surfaces ELSE {buffer[p]}

TemporalResiduals(p, held) ==
  Add(ApplyTemporalMap(IF held = Empty THEN Zero ELSE held, TemporalMask(p)),
      DecodedResiduals(p))

DecodeTemporal ==
  /\ packet # Empty
  /\ config.temporal
  /\ \E held \in [Planes -> Surfaces \cup {Empty}] :
       /\ \A p \in Planes : held[p] \in BufferAfterParsing(p)
       /\ buffer' = [p \in Planes |-> TemporalResiduals(p, held[p])]
  /\ shown' = buffer'
  /\ packet' = Empty
  /\ UNCHANGED <<config, encoderVars>>

DecodeWithoutTemporal ==
  /\ packet # Empty
  /\ ~config.temporal
  /\ shown' = [p \in Planes |-> DecodedResiduals(p)]
  /\ packet' = Empty
  /\ UNCHANGED <<config, encoderVars, buffer>>

Next ==
  \/ \E type \in FrameTypes : StartFrame(type)
  \/ \E p \in Planes : EncodePlane(p)
  \/ Emit
  \/ StartDecoder
  \/ DecodeTemporal
  \/ DecodeWithoutTemporal

Spec == Init /\ [][Next]_vars

-----------------------------------------------------------------------------
(* Nobody works on a picture: the last one was encoded and decoded. *)
InStep == frame = Idle /\ packet = Empty /\ reco[0] # Empty

Filled(surface) == IF surface = Empty THEN Zero ELSE surface

(* Residuals stay within 16 bits and every surface is complete; the work   *)
(* of the encoder is under way or in the packet.                           *)
TypeOK ==
  /\ config \in Configurations
  /\ level2 \in BOOLEAN
  /\ previous \in [Planes -> Surfaces \cup {Empty}]
  /\ frame \in Frames
  /\ written \in [Planes -> [symbols : [Blocks -> Symbols] \cup {Empty},
                            mask    : Masks \cup {Empty}]]
  /\ reco \in [Planes -> Surfaces \cup {Empty}]
  /\ buffer \in [Planes -> Surfaces \cup {Empty}]
  /\ shown \in [Planes -> Surfaces \cup {Empty}]
  /\ packet \in Packets \cup {Empty}
  /\ packet # Empty => frame = Idle

(* After every picture the decoder shows what the encoder reconstructed,   *)
(* also when it started at an intra picture in the middle of the stream.   *)
NoDrift == InStep => shown = reco

(* After every picture both sides hold the same residuals for the next;    *)
(* the decoder holds zeros where the encoder has dropped its buffer.       *)
BuffersAgree ==
  InStep /\ config.temporal =>
    \A p \in Planes : buffer[p] = Filled(previous[p])

(* The bits of the picture fit every plane: the planes never differ in     *)
(* whether they have a temporal buffer.                                    *)
PlanesUniform ==
  frame = Idle => \A p, q \in Planes : previous[p] = Empty <=> previous[q] = Empty

(* The decoder expects a temporal layer exactly when one is in the stream, *)
(* although an enhanced picture does not code whether there is one.        *)
SignallingAgrees == packet # Empty => (Present(packet) <=> packet.layer)

(* "No enhancement - but temporal layer can still be added" (Decoder.cpp): *)
(* a picture without enhancement is shown as the encoder made it.          *)
LayerStillAdded == InStep => shown = reco
=============================================================================
