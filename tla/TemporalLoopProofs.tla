------------------------- MODULE TemporalLoopProofs -------------------------
(***************************************************************************)
(* Proofs about TemporalLoop, for every number of planes and blocks, every *)
(* width of a residual and every quantisation.                             *)
(***************************************************************************)
EXTENDS TemporalLoop, TLAPS

USE DEF Frames

(* The sum of two surfaces is a surface: Add wraps in 16 bits.             *)
LEMMA AddType ==
  ASSUME NEW s \in Surfaces, NEW t \in Surfaces
  PROVE  Add(s, t) \in Surfaces
<1>1. \A b \in Blocks : s[b] \in Int /\ t[b] \in Int
  BY ModulusAssumption DEF Surfaces, Residuals
<1>2. \A x, y \in Int : (x + y) % Modulus \in Residuals
  BY ModulusAssumption DEF Residuals
<1> QED  BY <1>1, <1>2 DEF Add, Surfaces

(* Adding zeros, on either side, changes nothing.                          *)
LEMMA AddZero ==
  ASSUME NEW s \in Surfaces
  PROVE  Add(s, Zero) = s /\ Add(Zero, s) = s
<1>1. \A b \in Blocks : s[b] \in Residuals
  BY DEF Surfaces
<1>2. \A x \in Residuals : (x + 0) % Modulus = x /\ (0 + x) % Modulus = x
  BY ModulusAssumption DEF Residuals
<1>3. Add(s, Zero) = [b \in Blocks |-> s[b]] /\ Add(Zero, s) = [b \in Blocks |-> s[b]]
  BY <1>1, <1>2 DEF Add, Zero
<1> QED  BY <1>3 DEF Surfaces

LEMMA ZeroType == Zero \in Surfaces
<1>1. 0 \in Residuals
  BY ModulusAssumption DEF Residuals
<1> QED  BY <1>1 DEF Zero, Surfaces

LEMMA ApplyType ==
  ASSUME NEW s \in Surfaces, NEW m
  PROVE  ApplyTemporalMap(s, m) \in Surfaces
<1>1. 0 \in Residuals
  BY ModulusAssumption DEF Residuals
<1> QED  BY <1>1 DEF ApplyTemporalMap, Surfaces

(* Predicting every block keeps a surface, predicting none empties it.     *)
LEMMA ApplyUniform ==
  ASSUME NEW s \in Surfaces
  PROVE  ApplyTemporalMap(s, AllPred) = s /\ ApplyTemporalMap(s, AllIntr) = Zero
<1>1. ApplyTemporalMap(s, AllPred) = [b \in Blocks |-> s[b]]
  BY DEF ApplyTemporalMap, AllPred
<1> QED  BY <1>1 DEF ApplyTemporalMap, AllIntr, Zero, Surfaces

LEMMA DequantisedType ==
  ASSUME NEW symbols \in [Blocks -> Symbols], NEW m
  PROVE  Dequantised(symbols) \in Surfaces /\ DequantisedByMask(symbols, m) \in Surfaces
<1>1. \A x \in Symbols, w \in StepWidths : Recon[x][w] \in Residuals
  BY ReconAssumption
<1>2. "plain" \in StepWidths /\ "reduced" \in StepWidths
  BY DEF StepWidths
<1> QED  BY <1>1, <1>2 DEF Dequantised, DequantisedByMask, Surfaces

-----------------------------------------------------------------------------
(* Type correctness.                                                       *)

(* Every plane of an enhanced picture has residual symbols: those already  *)
(* coded, and those in the packet.  The decoder would otherwise dequantise *)
(* symbols that are not there.                                             *)
SymbolsCarried ==
  /\ packet # Empty /\ packet.enhanced => \A p \in Planes : packet.symbols[p] # Empty
  /\ frame.enhanced => \A p \in Planes : p < frame.plane => written[p].symbols # Empty

TypeInv == TypeOK /\ SymbolsCarried

LEMMA DecodedType ==
  ASSUME TypeInv, packet # Empty, NEW p \in Planes
  PROVE  DecodedResiduals(p) \in Surfaces
<1>1. CASE ~packet.enhanced
  BY <1>1, ZeroType DEF DecodedResiduals
<1>2. CASE packet.enhanced
  <2>1. packet.symbols[p] \in [Blocks -> Symbols]
    BY <1>2 DEF TypeInv, TypeOK, SymbolsCarried, Packets
  <2> QED  BY <1>2, <2>1, DequantisedType DEF DecodedResiduals
<1> QED  BY <1>1, <1>2

LEMMA InitTypeInv == Init => TypeInv
<1> SUFFICES ASSUME Init PROVE TypeInv
  OBVIOUS
<1>1. config \in ConfigurationTypes
  BY ConfigurationsAssumption DEF Init
<1>2. config.level2_max \in BOOLEAN
  BY <1>1 DEF ConfigurationTypes
<1>3. frame \in Frames
  BY NumPlanesAssumption DEF Init, Idle
<1>4. TypeOK
  BY <1>2, <1>3 DEF Init, TypeOK, Unwritten
<1> QED  BY <1>4 DEF Init, Idle, TypeInv, SymbolsCarried

(* The flags of a plane, and what it is written, stored and reconstructed  *)
(* as, have their types.                                                   *)
LEMMA FlagsType ==
  ASSUME TypeOK, Working, NEW r \in BOOLEAN, NEW s \in BOOLEAN, Flags(r, s)
  PROVE  frame' \in Frames
<1>1. frame.plane + 1 \in 0 .. NumPlanes
  BY NumPlanesAssumption DEF TypeOK, Working
<1> QED  BY <1>1 DEF Flags, TypeOK

LEMMA WorkingNoPacket ==
  ASSUME TypeOK, Working
  PROVE  packet = Empty
BY NumPlanesAssumption DEF TypeOK, Working, Idle

LEMMA EmitType ==
  ASSUME TypeOK, Emit
  PROVE  packet' \in Packets
<1>1. Intra(frame.type) \in BOOLEAN /\ LayerWritten \in BOOLEAN
  BY DEF Intra, LayerWritten
<1>2. (~frame.enhanced /\ frame.present) \in BOOLEAN
  OBVIOUS
<1>3. [p \in Planes |-> written[p].symbols] \in [Planes -> [Blocks -> Symbols] \cup {Empty}]
  BY DEF TypeOK
<1>4. [p \in Planes |-> IF LayerWritten THEN written[p].mask ELSE Empty]
        \in [Planes -> Masks \cup {Empty}]
  BY DEF TypeOK
<1> QED  BY <1>1, <1>2, <1>3, <1>4 DEF Emit, Packets, TypeOK

LEMMA NextTypeOK == TypeInv /\ [Next]_vars => TypeOK'
<1> SUFFICES ASSUME TypeInv, [Next]_vars PROVE TypeOK'
  OBVIOUS
<1> TypeOK
  BY DEF TypeInv
<1>0. config \in ConfigurationTypes
  BY ConfigurationsAssumption DEF TypeOK
<1>1. ASSUME NEW type \in FrameTypes, StartFrame(type) PROVE TypeOK'
  <2>1. EnhancementEnabled(type) \in BOOLEAN
    BY DEF EnhancementEnabled
  <2>2. PICK scaled \in InterScaled(type) :
          frame' = [plane |-> 0, type |-> type, scaled |-> scaled,
                    enhanced |-> EnhancementEnabled(type),
                    refresh |-> FALSE, present |-> FALSE]
    BY <1>1 DEF StartFrame
  <2>3. scaled \in BOOLEAN
    BY DEF InterScaled
  <2>4. frame' \in Frames
    BY <2>1, <2>2, <2>3, NumPlanesAssumption
  <2> QED  BY <1>1, <2>4 DEF StartFrame, TypeOK, decoderVars
<1>2. ASSUME NEW p \in Planes, EncodeAfresh(p) PROVE TypeOK'
  <2>1. frame' \in Frames
    BY <1>2, FlagsType DEF EncodeAfresh
  <2>2. level2' \in BOOLEAN
    BY <1>2 DEF EncodeAfresh, StepWidthAfter
  <2>3. PICK symbols \in [Blocks -> Symbols] :
          /\ Write(p, symbols, Empty)
          /\ Store(p, IF config.temporal THEN Dequantised(symbols) ELSE previous[p])
          /\ Reconstruct(p, Dequantised(symbols))
    BY <1>2 DEF EncodeAfresh
  <2>4. Dequantised(symbols) \in Surfaces
    BY DequantisedType
  <2> QED
    BY <1>2, <2>1, <2>2, <2>3, <2>4, WorkingNoPacket
    DEF EncodeAfresh, TypeOK, Write, Store, Reconstruct, decoderVars
<1>3. ASSUME NEW p \in Planes, EncodePredicted(p) PROVE TypeOK'
  <2>1. frame' \in Frames
    BY <1>3, FlagsType DEF EncodePredicted
  <2>2. level2' \in BOOLEAN
    BY <1>3 DEF EncodePredicted, StepWidthAfter
  <2>3. PICK mask \in IF previous[p] = Empty THEN {AllIntr} ELSE Masks,
             symbols \in [Blocks -> Symbols] :
          LET predicted == IF previous[p] = Empty THEN Zero
                           ELSE ApplyTemporalMap(previous[p], mask)
              sum == Add(predicted, DequantisedByMask(symbols, mask))
          IN  /\ Write(p, symbols, mask)
              /\ Store(p, sum)
              /\ Reconstruct(p, sum)
    BY <1>3 DEF EncodePredicted
  <2>4. mask \in Masks
    BY DEF AllIntr, Masks
  <2>5. PICK s \in Surfaces :
          Write(p, symbols, mask) /\ Store(p, s) /\ Reconstruct(p, s)
    BY <2>3, AddType, ZeroType, ApplyType, DequantisedType DEF TypeOK
  <2> QED
    BY <1>3, <2>1, <2>2, <2>4, <2>5, WorkingNoPacket
    DEF EncodePredicted, TypeOK, Write, Store, Reconstruct, decoderVars
<1>4. ASSUME NEW p \in Planes, PassThrough(p) PROVE TypeOK'
  <2>1. frame' \in Frames
    BY <1>4, FlagsType DEF PassThrough
  <2> QED
    BY <1>4, <2>1, ZeroType, WorkingNoPacket
    DEF PassThrough, TypeOK, Store, Reconstruct, decoderVars
<1>5. ASSUME NEW p \in Planes, EncodeMaskOnly(p) PROVE TypeOK'
  <2>1. frame' \in Frames
    BY <1>5, FlagsType DEF EncodeMaskOnly
  <2>2. PICK mask \in Masks :
          /\ Write(p, Empty, mask)
          /\ Store(p, ApplyTemporalMap(previous[p], mask))
          /\ Reconstruct(p, ApplyTemporalMap(previous[p], mask))
    BY <1>5 DEF EncodeMaskOnly
  <2>3. ApplyTemporalMap(previous[p], mask) \in Surfaces
    BY <1>5, ApplyType DEF EncodeMaskOnly, NoTemporal, TypeOK
  <2> QED
    BY <1>5, <2>1, <2>2, <2>3, WorkingNoPacket
    DEF EncodeMaskOnly, TypeOK, Write, Store, Reconstruct, decoderVars
<1>6. ASSUME NEW p \in Planes, KeepResiduals(p) PROVE TypeOK'
  <2>1. frame' \in Frames
    BY <1>6, FlagsType DEF KeepResiduals
  <2> QED
    BY <1>6, <2>1, WorkingNoPacket
    DEF KeepResiduals, TypeOK, Reconstruct, decoderVars
<1>7. CASE Emit
  <2>1. frame' = Idle /\ written' = Unwritten
    BY <1>7 DEF Emit
  <2>2. Idle \in Frames
    BY NumPlanesAssumption DEF Idle
  <2>3. Unwritten \in [Planes -> [symbols : [Blocks -> Symbols] \cup {Empty},
                                  mask    : Masks \cup {Empty}]]
    BY DEF Unwritten
  <2>4. packet' \in Packets
    BY <1>7, EmitType
  <2> QED
    BY <1>7, <2>1, <2>2, <2>3, <2>4 DEF Emit, TypeOK, decoderVars
<1>8. CASE StartDecoder
  BY <1>8 DEF StartDecoder, TypeOK, encoderVars
<1>9. CASE DecodeTemporal
  <2>1. \A p \in Planes : DecodedResiduals(p) \in Surfaces
    BY <1>9, DecodedType DEF DecodeTemporal
  <2>2. PICK held \in [Planes -> Surfaces \cup {Empty}] :
          buffer' = [p \in Planes |-> TemporalResiduals(p, held[p])]
    BY <1>9 DEF DecodeTemporal
  <2>3. \A p \in Planes : TemporalResiduals(p, held[p]) \in Surfaces
    BY <2>1, AddType, ApplyType, ZeroType DEF TemporalResiduals
  <2> QED
    BY <1>9, <2>2, <2>3 DEF DecodeTemporal, TypeOK, encoderVars
<1>10. CASE DecodeWithoutTemporal
  <2>1. \A p \in Planes : DecodedResiduals(p) \in Surfaces
    BY <1>10, DecodedType DEF DecodeWithoutTemporal
  <2> QED
    BY <1>10, <2>1 DEF DecodeWithoutTemporal, TypeOK, encoderVars
<1>11. CASE UNCHANGED vars
  BY <1>11 DEF vars, encoderVars, decoderVars, TypeOK, Working
<1> QED
  BY <1>1, <1>2, <1>3, <1>4, <1>5, <1>6, <1>7, <1>8, <1>9, <1>10, <1>11 DEF Next, EncodePlane

(* Only the plane that is coded changes what is written.                   *)
LEMMA NextSymbolsCarried == TypeInv /\ [Next]_vars => SymbolsCarried'
<1> SUFFICES ASSUME TypeInv, [Next]_vars PROVE SymbolsCarried'
  OBVIOUS
<1>1. ASSUME NEW type \in FrameTypes, StartFrame(type) PROVE SymbolsCarried'
  <2>1. \A p \in Planes : ~(p < 0)
    BY NumPlanesAssumption DEF Planes
  <2> QED  BY <1>1, <2>1 DEF StartFrame, SymbolsCarried, TypeInv
<1>2. ASSUME NEW p \in Planes, EncodePlane(p) PROVE SymbolsCarried'
  <2>1. packet = Empty /\ packet' = Empty
    BY <1>2, WorkingNoPacket
    DEF TypeInv, EncodePlane, EncodeAfresh, EncodePredicted, PassThrough, EncodeMaskOnly, KeepResiduals
  <2>2. p = frame.plane /\ frame'.plane = p + 1 /\ frame'.enhanced = frame.enhanced
    BY <1>2
    DEF TypeInv, TypeOK, EncodePlane, EncodeAfresh, EncodePredicted, PassThrough, EncodeMaskOnly,
        KeepResiduals, Flags
  <2>3. ASSUME frame.enhanced
        PROVE  \E s \in [Blocks -> Symbols] : \E m : Write(p, s, m)
    BY <1>2, <2>3
    DEF EncodePlane, EncodeAfresh, EncodePredicted, PassThrough, EncodeMaskOnly, KeepResiduals
  <2>4. \A q \in Planes : q < p + 1 => q = p \/ q < p
    BY NumPlanesAssumption DEF Planes
  <2>5. ASSUME frame.enhanced, NEW q \in Planes, q < p + 1
        PROVE  written'[q].symbols # Empty
    <3>1. PICK s \in [Blocks -> Symbols] : \E m : Write(p, s, m)
      BY <2>3, <2>5
    <3>2. CASE q = p
      BY <3>1, <3>2, EmptyAssumption DEF Write, TypeInv, TypeOK
    <3>3. CASE q < p
      BY <2>2, <2>5, <3>1, <3>3 DEF Write, TypeInv, TypeOK, SymbolsCarried
    <3> QED  BY <2>4, <2>5, <3>2, <3>3
  <2> QED  BY <2>1, <2>2, <2>5 DEF SymbolsCarried
<1>3. CASE Emit
  <2>1. packet'.enhanced = frame.enhanced /\ frame'.enhanced = FALSE
    BY <1>3 DEF Emit, Idle
  <2>2. \A p \in Planes : packet'.symbols[p] = written[p].symbols
    BY <1>3 DEF Emit
  <2>3. \A p \in Planes : p < frame.plane
    BY <1>3, NumPlanesAssumption DEF Emit, Working, Planes, TypeInv, TypeOK
  <2> QED  BY <2>1, <2>2, <2>3 DEF SymbolsCarried, TypeInv
<1>4. CASE StartDecoder
  BY <1>4 DEF StartDecoder, encoderVars, TypeInv, SymbolsCarried
<1>5. CASE DecodeTemporal \/ DecodeWithoutTemporal
  BY <1>5 DEF DecodeTemporal, DecodeWithoutTemporal, encoderVars, TypeInv, SymbolsCarried
<1>6. CASE UNCHANGED vars
  BY <1>6 DEF vars, encoderVars, decoderVars, TypeInv, SymbolsCarried
<1> QED  BY <1>1, <1>2, <1>3, <1>4, <1>5, <1>6 DEF Next

LEMMA TypeInvariant == Spec => []TypeInv
<1>1. TypeInv /\ [Next]_vars => TypeInv'
  BY NextTypeOK, NextSymbolsCarried DEF TypeInv
<1> QED  BY InitTypeInv, <1>1, PTL DEF Spec

(* Residuals stay within their width, surfaces are complete, and no        *)
(* picture is worked on while another is on its way.                       *)
THEOREM TypeCorrect == Spec => []TypeOK
<1>1. TypeInv => TypeOK
  BY DEF TypeInv
<1> QED  BY TypeInvariant, <1>1, PTL

-----------------------------------------------------------------------------
(* The loop does not drift, unless pictures without enhancement are to     *)
(* have a temporal layer that is tiled.                                    *)

LayerCarried == \A c \in Configurations : c.tiled => ~c.no_enhancement_layer

(* What a plane was coded as, in the three ways there are: without the     *)
(* buffer, as a change of the buffer, and as the buffer.  The decoder's    *)
(* buffer is named where decoding starts from it.                          *)
Afresh(p, enhanced, symbols) ==
  IF enhanced
    THEN /\ reco[p] = Dequantised(symbols)
         /\ previous[p] = IF config.temporal THEN reco[p] ELSE Empty
    ELSE /\ reco[p] = Zero
         /\ previous[p] = Empty

Predicted(p, enhanced, symbols, mask) ==
  /\ buffer[p] \in Surfaces
  /\ reco[p] = IF enhanced
                 THEN Add(ApplyTemporalMap(buffer[p], mask), DequantisedByMask(symbols, mask))
                 ELSE ApplyTemporalMap(buffer[p], mask)
  /\ previous[p] = reco[p]

Kept(p) ==
  /\ buffer[p] \in Surfaces
  /\ reco[p] = buffer[p]
  /\ previous[p] = reco[p]

Coded(p, enhanced, refresh, present, symbols, mask) ==
  /\ refresh => Afresh(p, enhanced, symbols)
  /\ present => Predicted(p, enhanced, symbols, mask)
  /\ ~refresh /\ ~present => Kept(p)

(* The bits a picture can have, by its type and the configuration.         *)
BitsFit(intra, enhanced, refresh, present) ==
  /\ ~(refresh /\ present)
  /\ ~refresh => config.temporal /\ ~intra
  /\ ~refresh => (present <=> enhanced \/ config.no_enhancement_layer)

Uniform(S) == \A p, q \in S : previous[p] = Empty <=> previous[q] = Empty

(* Planes of the picture that the encoder has still to code.               *)
Open == {p \in Planes : p >= frame.plane}

Started == reco[0] # Empty

(* Between pictures, both sides agree.                                     *)
IdleInv ==
  frame = Idle /\ packet = Empty =>
    /\ Uniform(Planes)
    /\ Started => shown = reco
    /\ Started /\ config.temporal => \A p \in Planes : buffer[p] = Filled(previous[p])
    /\ ~Started => \A p \in Planes : previous[p] = Empty

(* The planes that are not coded yet are as the picture before left them,  *)
(* and will be coded in the same way as those before them.                 *)
WorkInv ==
  frame # Idle =>
    /\ frame.type # "None"
    /\ Uniform(Open)
    /\ ~Intra(frame.type) /\ config.temporal =>
         \A p \in Open : buffer[p] = Filled(previous[p])
    /\ frame.plane = 0 => ~frame.refresh /\ ~frame.present
    /\ frame.plane > 0 =>
         /\ BitsFit(Intra(frame.type), frame.enhanced, frame.refresh, frame.present)
         /\ \A p \in Open : NoTemporal(p) <=> frame.refresh
    /\ \A p \in Planes \ Open :
         Coded(p, frame.enhanced, frame.refresh, frame.present,
               written[p].symbols, written[p].mask)

PacketInv ==
  packet # Empty =>
    /\ BitsFit(packet.global, packet.enhanced, packet.refresh, packet.layer)
    /\ Present(packet) <=> packet.layer
    /\ \A p \in Planes :
         Coded(p, packet.enhanced, packet.refresh, packet.layer,
               packet.symbols[p], packet.mask[p])

NoBufferWithoutTemporal == ~config.temporal => \A p \in Planes : previous[p] = Empty

LoopInv == IdleInv /\ WorkInv /\ PacketInv /\ NoBufferWithoutTemporal

LEMMA InitLoopInv == Init => LoopInv
BY NumPlanesAssumption
DEF Init, LoopInv, IdleInv, WorkInv, PacketInv, NoBufferWithoutTemporal, Uniform, Started, Planes

LEMMA StartFrameLoopInv ==
  ASSUME TypeInv, LoopInv, NEW type \in FrameTypes, StartFrame(type)
  PROVE  LoopInv'
<1>1. frame = Idle /\ packet = Empty /\ frame'.plane = 0 /\ frame'.type = type
      /\ ~frame'.refresh /\ ~frame'.present /\ frame' # Idle /\ packet' = Empty
  BY DEF StartFrame, Idle, FrameTypes
<1>2. UNCHANGED <<config, previous, reco, buffer, shown>>
  BY DEF StartFrame, decoderVars
<1>3. Open' = Planes /\ \A p \in Planes : p >= 0
  BY <1>1, NumPlanesAssumption DEF Open, Planes
<1>4. Uniform(Open)'
  BY <1>1, <1>2, <1>3 DEF LoopInv, IdleInv, Uniform
<1>5. ~Intra(type) => Started
  BY DEF StartFrame, Started, Intra
<1>6. ~Intra(type) /\ config.temporal => \A p \in Planes : buffer[p] = Filled(previous[p])
  BY <1>1, <1>5 DEF LoopInv, IdleInv
<1>7. (~Intra(frame.type) /\ config.temporal => \A p \in Open : buffer[p] = Filled(previous[p]))'
  BY <1>1, <1>2, <1>3, <1>6 DEF Filled
<1>8. WorkInv'
  BY <1>1, <1>3, <1>4, <1>7 DEF WorkInv, FrameTypes
<1> QED  BY <1>1, <1>2, <1>8 DEF LoopInv, IdleInv, PacketInv, NoBufferWithoutTemporal

(* The effect of coding plane p, whichever way: its bits are r and s.      *)
PlaneCoded(p, r, s) ==
  /\ Working /\ p = frame.plane
  /\ Flags(r, s)
  /\ BitsFit(Intra(frame.type), frame.enhanced, r, s)
  /\ NoTemporal(p) <=> r
  /\ Coded(p, frame.enhanced, r, s, written[p].symbols, written[p].mask)'
  /\ \A q \in Planes \ {p} :
       written'[q] = written[q] /\ previous'[q] = previous[q] /\ reco'[q] = reco[q]
  /\ UNCHANGED <<config, packet, buffer>>

(* Where there is a buffer on one side, there is the same on the other.    *)
LEMMA HeldBuffer ==
  ASSUME TypeInv, LoopInv, Working, ~NoTemporal(frame.plane)
  PROVE  previous[frame.plane] \in Surfaces /\ buffer[frame.plane] = previous[frame.plane]
<1>1. frame.plane \in Planes /\ frame.plane \in Open /\ frame # Idle
  BY NumPlanesAssumption DEF Working, Open, Planes, TypeInv, TypeOK, Idle
<1>2. previous[frame.plane] \in Surfaces
  BY <1>1 DEF NoTemporal, TypeInv, TypeOK
<1>3. buffer[frame.plane] = Filled(previous[frame.plane])
  BY <1>1 DEF LoopInv, WorkInv, NoTemporal
<1> QED  BY <1>2, <1>3, EmptyAssumption DEF Filled

LEMMA AfreshCoded ==
  ASSUME TypeInv, LoopInv, NEW p \in Planes, EncodeAfresh(p)
  PROVE  PlaneCoded(p, TRUE, FALSE)
<1>1. PICK symbols \in [Blocks -> Symbols] :
        /\ Write(p, symbols, Empty)
        /\ Store(p, IF config.temporal THEN Dequantised(symbols) ELSE previous[p])
        /\ Reconstruct(p, Dequantised(symbols))
  BY DEF EncodeAfresh
<1>2. frame'.enhanced /\ frame.enhanced
  BY DEF EncodeAfresh, Flags, TypeInv, TypeOK
<1>3. written'[p].symbols = symbols /\ reco'[p] = Dequantised(symbols)
  BY <1>1 DEF Write, Reconstruct, TypeInv, TypeOK
<1>4. previous'[p] = IF config.temporal THEN Dequantised(symbols) ELSE Empty
  BY <1>1 DEF Store, TypeInv, TypeOK, LoopInv, NoBufferWithoutTemporal
<1>5. UNCHANGED <<config, packet, buffer>>
  BY DEF EncodeAfresh, decoderVars
<1>6. Coded(p, frame.enhanced, TRUE, FALSE, written[p].symbols, written[p].mask)'
  BY <1>2, <1>3, <1>4, <1>5 DEF Coded, Afresh, Dequantised
<1>7. \A q \in Planes \ {p} :
        written'[q] = written[q] /\ previous'[q] = previous[q] /\ reco'[q] = reco[q]
  BY <1>1 DEF Write, Store, Reconstruct, TypeInv, TypeOK
<1> QED  BY <1>5, <1>6, <1>7 DEF EncodeAfresh, PlaneCoded, BitsFit

LEMMA PredictedCoded ==
  ASSUME TypeInv, LoopInv, NEW p \in Planes, EncodePredicted(p)
  PROVE  PlaneCoded(p, FALSE, TRUE)
<1>1. Working /\ p = frame.plane /\ frame # Idle /\ p \in Open
  BY NumPlanesAssumption DEF EncodePredicted, Working, Open, Planes, TypeInv, TypeOK, Idle
<1>2. ~NoTemporal(p)
  <2>1. CASE frame.plane = 0
    BY <1>1, <2>1 DEF EncodePredicted, LoopInv, WorkInv
  <2>2. CASE frame.plane > 0
    BY <1>1, <2>2 DEF EncodePredicted, LoopInv, WorkInv, BitsFit
  <2> QED  BY <1>1, <2>1, <2>2, NumPlanesAssumption DEF Planes
<1>3. previous[p] \in Surfaces /\ buffer[p] = previous[p] /\ previous[p] # Empty
  BY <1>1, <1>2, HeldBuffer, EmptyAssumption
<1>4. PICK mask \in Masks, symbols \in [Blocks -> Symbols] :
        /\ Write(p, symbols, mask)
        /\ Store(p, Add(ApplyTemporalMap(previous[p], mask), DequantisedByMask(symbols, mask)))
        /\ Reconstruct(p, Add(ApplyTemporalMap(previous[p], mask), DequantisedByMask(symbols, mask)))
  BY <1>3 DEF EncodePredicted
<1>5. PICK sum :
        /\ sum = Add(ApplyTemporalMap(previous[p], mask), DequantisedByMask(symbols, mask))
        /\ Store(p, sum) /\ Reconstruct(p, sum)
  BY <1>4
<1>6. frame'.enhanced /\ frame.enhanced
  BY DEF EncodePredicted, Flags, TypeInv, TypeOK
<1>7. /\ written'[p].symbols = symbols /\ written'[p].mask = mask
      /\ reco'[p] = sum /\ previous'[p] = sum
  BY <1>4, <1>5 DEF Write, Store, Reconstruct, TypeInv, TypeOK
<1>8. UNCHANGED <<config, packet, buffer>>
  BY DEF EncodePredicted, decoderVars
<1>9. Predicted(p, frame.enhanced, written[p].symbols, written[p].mask)'
  BY <1>3, <1>5, <1>6, <1>7, <1>8
  DEF Predicted, Add, ApplyTemporalMap, DequantisedByMask
<1>10. \A q \in Planes \ {p} :
        written'[q] = written[q] /\ previous'[q] = previous[q] /\ reco'[q] = reco[q]
  BY <1>4, <1>5 DEF Write, Store, Reconstruct, TypeInv, TypeOK
<1>11. BitsFit(Intra(frame.type), frame.enhanced, FALSE, TRUE)
  BY <1>2, <1>6 DEF BitsFit, NoTemporal
<1> QED
  BY <1>1, <1>2, <1>8, <1>9, <1>10, <1>11 DEF EncodePredicted, PlaneCoded, Coded

LEMMA PassedThroughCoded ==
  ASSUME TypeInv, LoopInv, NEW p \in Planes, PassThrough(p)
  PROVE  PlaneCoded(p, TRUE, FALSE)
<1>1. ~frame'.enhanced /\ ~frame.enhanced
  BY DEF PassThrough, Flags, TypeInv, TypeOK
<1>2. previous'[p] = Empty /\ reco'[p] = Zero
  BY DEF PassThrough, Store, Reconstruct, TypeInv, TypeOK
<1>3. Coded(p, frame.enhanced, TRUE, FALSE, written[p].symbols, written[p].mask)'
  BY <1>1, <1>2 DEF Coded, Afresh, Zero
<1>4. \A q \in Planes \ {p} :
        written'[q] = written[q] /\ previous'[q] = previous[q] /\ reco'[q] = reco[q]
  BY DEF PassThrough, Store, Reconstruct, TypeInv, TypeOK
<1> QED  BY <1>3, <1>4 DEF PassThrough, PlaneCoded, BitsFit, decoderVars

LEMMA MaskOnlyCoded ==
  ASSUME TypeInv, LoopInv, NEW p \in Planes, EncodeMaskOnly(p)
  PROVE  PlaneCoded(p, FALSE, TRUE)
<1>1. Working /\ p = frame.plane /\ ~NoTemporal(p)
  BY DEF EncodeMaskOnly
<1>2. previous[p] \in Surfaces /\ buffer[p] = previous[p]
  BY <1>1, HeldBuffer
<1>3. PICK mask \in Masks :
        /\ Write(p, Empty, mask)
        /\ Store(p, ApplyTemporalMap(previous[p], mask))
        /\ Reconstruct(p, ApplyTemporalMap(previous[p], mask))
  BY DEF EncodeMaskOnly
<1>4. ~frame'.enhanced /\ ~frame.enhanced
  BY DEF EncodeMaskOnly, Flags, TypeInv, TypeOK
<1>5. PICK kept :
        /\ kept = ApplyTemporalMap(previous[p], mask)
        /\ Store(p, kept) /\ Reconstruct(p, kept)
  BY <1>3
<1>6. /\ written'[p].mask = mask
      /\ reco'[p] = kept /\ previous'[p] = kept
  BY <1>3, <1>5 DEF Write, Store, Reconstruct, TypeInv, TypeOK
<1>7. UNCHANGED <<config, packet, buffer>>
  BY DEF EncodeMaskOnly, decoderVars
<1>8. Predicted(p, frame.enhanced, written[p].symbols, written[p].mask)'
  BY <1>2, <1>4, <1>5, <1>6, <1>7 DEF Predicted, ApplyTemporalMap
<1>9. \A q \in Planes \ {p} :
        written'[q] = written[q] /\ previous'[q] = previous[q] /\ reco'[q] = reco[q]
  BY <1>3, <1>5 DEF Write, Store, Reconstruct, TypeInv, TypeOK
<1>10. BitsFit(Intra(frame.type), frame.enhanced, FALSE, TRUE)
  BY <1>1 DEF BitsFit, NoTemporal, EncodeMaskOnly
<1> QED
  BY <1>1, <1>7, <1>8, <1>9, <1>10 DEF EncodeMaskOnly, PlaneCoded, Coded

LEMMA KeptCoded ==
  ASSUME TypeInv, LoopInv, NEW p \in Planes, KeepResiduals(p)
  PROVE  PlaneCoded(p, FALSE, FALSE)
<1>1. Working /\ p = frame.plane /\ ~NoTemporal(p)
  BY DEF KeepResiduals
<1>2. previous[p] \in Surfaces /\ buffer[p] = previous[p]
  BY <1>1, HeldBuffer
<1>3. reco'[p] = previous[p]
  BY DEF KeepResiduals, Reconstruct, TypeInv, TypeOK
<1>4. \A q \in Planes \ {p} :
        written'[q] = written[q] /\ previous'[q] = previous[q] /\ reco'[q] = reco[q]
  BY DEF KeepResiduals, Reconstruct, TypeInv, TypeOK
<1>5. BitsFit(Intra(frame.type), frame.enhanced, FALSE, FALSE)
  BY <1>1 DEF BitsFit, NoTemporal, KeepResiduals
<1>6. Kept(p)'
  BY <1>2, <1>3 DEF Kept, KeepResiduals, decoderVars
<1> QED
  BY <1>1, <1>4, <1>5, <1>6 DEF KeepResiduals, PlaneCoded, Coded, decoderVars

(* All planes of a picture get the same bits.                              *)
LEMMA BitsSettled ==
  ASSUME TypeInv, LoopInv, NEW p \in Planes, NEW r \in BOOLEAN, NEW s \in BOOLEAN,
         PlaneCoded(p, r, s), frame.plane > 0
  PROVE  r = frame.refresh /\ s = frame.present
<1>1. frame # Idle /\ p \in Open
  BY NumPlanesAssumption DEF PlaneCoded, Working, Open, Planes, TypeInv, TypeOK, Idle
<1>2. r = frame.refresh
  BY <1>1 DEF LoopInv, WorkInv, PlaneCoded, TypeInv, TypeOK
<1>3. BitsFit(Intra(frame.type), frame.enhanced, r, s)
  BY DEF PlaneCoded
<1>4. BitsFit(Intra(frame.type), frame.enhanced, r, frame.present)
  BY <1>1, <1>2 DEF LoopInv, WorkInv
<1>5. s = frame.present
  BY <1>3, <1>4 DEF BitsFit, TypeInv, TypeOK
<1> QED  BY <1>2, <1>5

LEMMA PlaneCodedLoopInv ==
  ASSUME TypeInv, LoopInv, NEW p \in Planes, NEW r \in BOOLEAN, NEW s \in BOOLEAN,
         PlaneCoded(p, r, s)
  PROVE  LoopInv'
<1>1. frame # Idle /\ p = frame.plane /\ p \in Open /\ packet = Empty
  BY NumPlanesAssumption, WorkingNoPacket
  DEF PlaneCoded, Working, Open, Planes, TypeInv, TypeOK, Idle
<1>2. /\ frame'.plane = p + 1 /\ frame'.type = frame.type /\ frame'.enhanced = frame.enhanced
      /\ frame'.refresh = r /\ frame'.present = s
  BY <1>1 DEF PlaneCoded, Flags, TypeInv, TypeOK
<1>3. UNCHANGED <<config, packet, buffer>>
  BY DEF PlaneCoded
<1>4. \A q \in Planes \ {p} :
        written'[q] = written[q] /\ previous'[q] = previous[q] /\ reco'[q] = reco[q]
  BY DEF PlaneCoded
<1>5. Open' = Open \ {p} /\ Open \subseteq Planes
  BY <1>1, <1>2, NumPlanesAssumption DEF Open, Planes
<1>6. frame'.type # "None" /\ frame' # Idle
  BY <1>1, <1>2 DEF LoopInv, WorkInv, Idle
<1>7. Uniform(Open)'
  BY <1>1, <1>4, <1>5 DEF LoopInv, WorkInv, Uniform
<1>8. (~Intra(frame.type) /\ config.temporal => \A q \in Open : buffer[q] = Filled(previous[q]))'
  BY <1>1, <1>2, <1>3, <1>4, <1>5 DEF LoopInv, WorkInv, Filled, Intra
<1>9. frame'.plane > 0
  BY <1>2, NumPlanesAssumption DEF Planes
<1>10. BitsFit(Intra(frame.type), frame.enhanced, frame.refresh, frame.present)'
  BY <1>2, <1>3 DEF PlaneCoded, BitsFit, Intra
<1>11. \A q \in Open : NoTemporal(q) <=> r
  <2>1. NoTemporal(p) <=> r
    BY DEF PlaneCoded
  <2> QED  BY <1>1, <2>1 DEF NoTemporal, LoopInv, WorkInv, Uniform
<1>12. (\A q \in Open : NoTemporal(q) <=> frame.refresh)'
  BY <1>2, <1>3, <1>4, <1>5, <1>11 DEF NoTemporal, Intra
<1>13. ASSUME NEW q \in Planes \ Open'
       PROVE  Coded(q, frame.enhanced, frame.refresh, frame.present,
                    written[q].symbols, written[q].mask)'
  <2>1. CASE q = p
    BY <1>2, <2>1 DEF PlaneCoded, Coded, Afresh, Predicted, Kept
  <2>2. CASE q # p
    <3>1. q \in Planes \ Open /\ frame.plane > 0
      BY <1>1, <1>5, <1>13, <2>2, NumPlanesAssumption DEF Open, Planes
    <3>2. r = frame.refresh /\ s = frame.present
      BY <3>1, BitsSettled
    <3>3. Coded(q, frame.enhanced, frame.refresh, frame.present,
                written[q].symbols, written[q].mask)
      BY <1>1, <3>1 DEF LoopInv, WorkInv
    <3>4. written'[q] = written[q] /\ previous'[q] = previous[q] /\ reco'[q] = reco[q]
      BY <1>4, <2>2, <1>13
    <3>5. Afresh(q, frame.enhanced, written[q].symbols)
            = Afresh(q, frame.enhanced, written[q].symbols)'
      BY <1>2, <1>3, <3>4 DEF Afresh, Dequantised, Zero
    <3>6. Predicted(q, frame.enhanced, written[q].symbols, written[q].mask)
            = Predicted(q, frame.enhanced, written[q].symbols, written[q].mask)'
      BY <1>2, <1>3, <3>4 DEF Predicted, Add, ApplyTemporalMap, DequantisedByMask
    <3>7. Kept(q) = Kept(q)'
      BY <1>3, <3>4 DEF Kept
    <3> QED
      BY <1>2, <3>2, <3>3, <3>5, <3>6, <3>7 DEF Coded
  <2> QED  BY <2>1, <2>2
<1>14. WorkInv'
  BY <1>6, <1>7, <1>8, <1>9, <1>10, <1>12, <1>13 DEF WorkInv
<1>15. NoBufferWithoutTemporal'
  <2>1. ASSUME ~config.temporal PROVE previous'[p] = Empty
    <3>1. r
      BY <2>1 DEF PlaneCoded, BitsFit
    <3>2. Afresh(p, frame.enhanced, written[p].symbols)'
      BY <1>2, <3>1 DEF PlaneCoded, Coded, Afresh
    <3> QED  BY <1>3, <2>1, <3>2 DEF Afresh
  <2> QED  BY <1>3, <1>4, <2>1 DEF LoopInv, NoBufferWithoutTemporal
<1> QED
  BY <1>1, <1>3, <1>6, <1>14, <1>15 DEF LoopInv, IdleInv, PacketInv

LEMMA EmitLoopInv ==
  ASSUME LayerCarried, TypeInv, LoopInv, Emit
  PROVE  LoopInv'
<1>1. frame # Idle /\ frame.plane > 0 /\ Planes \ Open = Planes
  BY NumPlanesAssumption DEF Emit, Working, Open, Planes, TypeInv, TypeOK
<1>2. packet' # Empty /\ packet' \in Packets
  BY EmitType, EmptyAssumption DEF TypeInv
<1>3. UNCHANGED <<config, previous, reco, buffer>> /\ frame' = Idle
  BY DEF Emit, decoderVars
<1>4. BitsFit(Intra(frame.type), frame.enhanced, frame.refresh, frame.present)
  BY <1>1 DEF LoopInv, WorkInv
<1>5. config.tiled => ~config.no_enhancement_layer
  BY DEF LayerCarried, TypeInv, TypeOK
<1>6. LayerWritten = frame.present
  BY <1>4, <1>5 DEF LayerWritten, BitsFit, TypeInv, TypeOK
<1>7. /\ packet'.global = Intra(frame.type) /\ packet'.enhanced = frame.enhanced
      /\ packet'.refresh = frame.refresh
      /\ packet'.present = (~frame.enhanced /\ frame.present)
      /\ packet'.layer = frame.present
  BY <1>6 DEF Emit
<1>8. \A p \in Planes :
        /\ packet'.symbols[p] = written[p].symbols
        /\ frame.present => packet'.mask[p] = written[p].mask
  BY <1>6 DEF Emit
<1>9. BitsFit(packet.global, packet.enhanced, packet.refresh, packet.layer)'
  BY <1>3, <1>4, <1>7 DEF BitsFit
<1>10. (Present(packet) <=> packet.layer)'
  BY <1>3, <1>4, <1>7 DEF Present, BitsFit
<1>11. ASSUME NEW p \in Planes
       PROVE  Coded(p, packet.enhanced, packet.refresh, packet.layer,
                    packet.symbols[p], packet.mask[p])'
  <2>1. Coded(p, frame.enhanced, frame.refresh, frame.present,
              written[p].symbols, written[p].mask)
    BY <1>1 DEF LoopInv, WorkInv
  <2>2. CASE frame.present
    <3>1. Predicted(p, frame.enhanced, written[p].symbols, written[p].mask) /\ ~frame.refresh
      BY <1>4, <2>1, <2>2 DEF Coded, BitsFit
    <3>2. Predicted(p, packet'.enhanced, packet'.symbols[p], packet'.mask[p])
      BY <1>7, <1>8, <2>2, <3>1
    <3>3. Predicted(p, packet.enhanced, packet.symbols[p], packet.mask[p])'
      BY <1>3, <3>2 DEF Predicted, Add, ApplyTemporalMap, DequantisedByMask
    <3> QED  BY <1>7, <2>2, <3>1, <3>3 DEF Coded
  <2>3. CASE ~frame.present
    BY <1>3, <1>7, <1>8, <2>1, <2>3 DEF Coded, Afresh, Kept, Dequantised, Zero
  <2> QED  BY <2>2, <2>3
<1> QED
  BY <1>2, <1>3, <1>9, <1>10, <1>11
  DEF LoopInv, IdleInv, WorkInv, PacketInv, NoBufferWithoutTemporal

(* An intra picture is decoded without what the buffer holds.              *)
LEMMA StartDecoderLoopInv ==
  ASSUME TypeInv, LoopInv, StartDecoder
  PROVE  LoopInv'
<1>1. packet # Empty /\ packet.global /\ frame = Idle
  BY DEF StartDecoder, TypeInv, TypeOK
<1>2. packet.refresh /\ ~packet.layer
  BY <1>1 DEF LoopInv, PacketInv, BitsFit, TypeInv, TypeOK, Packets
<1>3. UNCHANGED <<config, previous, frame, written, reco, packet>>
  BY DEF StartDecoder, encoderVars
<1>4. ASSUME NEW p \in Planes
      PROVE  Coded(p, packet.enhanced, packet.refresh, packet.layer,
                   packet.symbols[p], packet.mask[p])'
  BY <1>1, <1>2, <1>3
  DEF LoopInv, PacketInv, Coded, Afresh, Dequantised, Zero
<1>5. PacketInv'
  BY <1>1, <1>3, <1>4 DEF LoopInv, PacketInv, BitsFit, Present
<1> QED  BY <1>1, <1>3, <1>5 DEF LoopInv, IdleInv, WorkInv, NoBufferWithoutTemporal

(* Decoding undoes coding: from any content that the buffer can have.      *)
LEMMA TemporalDecoded ==
  ASSUME TypeInv, LoopInv, packet # Empty, config.temporal,
         NEW p \in Planes, NEW held \in BufferAfterParsing(p)
  PROVE  /\ TemporalResiduals(p, held) = reco[p]
         /\ reco[p] = Filled(previous[p])
         /\ reco[p] # Empty
<1>1. Coded(p, packet.enhanced, packet.refresh, packet.layer,
            packet.symbols[p], packet.mask[p])
  BY DEF LoopInv, PacketInv
<1>2. BitsFit(packet.global, packet.enhanced, packet.refresh, packet.layer)
      /\ (Present(packet) <=> packet.layer)
  BY DEF LoopInv, PacketInv
<1>3. packet \in Packets
  BY DEF TypeInv, TypeOK
<1>4. DecodedResiduals(p) \in Surfaces
  BY DecodedType
<1>5. (IF held = Empty THEN Zero ELSE held) \in Surfaces
  BY ZeroType DEF BufferAfterParsing, TypeInv, TypeOK
<1>6. CASE packet.refresh
  <2>1. TemporalMask(p) = AllIntr
    BY <1>2, <1>3, <1>6 DEF TemporalMask, BitsFit
  <2>2. TemporalResiduals(p, held) = DecodedResiduals(p)
    BY <1>4, <1>5, <2>1, ApplyUniform, AddZero DEF TemporalResiduals
  <2>3. DecodedResiduals(p) = IF packet.enhanced THEN Dequantised(packet.symbols[p]) ELSE Zero
    BY <1>6 DEF DecodedResiduals
  <2>4. reco[p] = DecodedResiduals(p)
    BY <1>1, <1>6, <2>3 DEF Coded, Afresh
  <2>5. reco[p] = Filled(previous[p])
    BY <1>1, <1>4, <1>6, <2>4, EmptyAssumption DEF Coded, Afresh, Filled
  <2> QED  BY <1>4, <2>2, <2>4, <2>5, EmptyAssumption
<1>7. CASE packet.layer
  <2>1. ~packet.refresh /\ ~packet.global
    BY <1>2, <1>3, <1>7 DEF BitsFit, Packets
  <2>2. Predicted(p, packet.enhanced, packet.symbols[p], packet.mask[p])
    BY <1>1, <1>7 DEF Coded
  <2>3. held = buffer[p] /\ held \in Surfaces /\ held # Empty
    BY <2>1, <2>2, EmptyAssumption DEF BufferAfterParsing, Predicted
  <2>4. TemporalMask(p) = packet.mask[p]
    BY <1>2, <1>7 DEF TemporalMask, MaskSymbols
  <2>5. TemporalResiduals(p, held) =
          Add(ApplyTemporalMap(held, packet.mask[p]), DecodedResiduals(p))
    BY <2>3, <2>4 DEF TemporalResiduals
  <2>6. ApplyTemporalMap(held, packet.mask[p]) \in Surfaces
    BY <2>3, ApplyType
  <2>7. CASE packet.enhanced
    <3>1. DecodedResiduals(p) = DequantisedByMask(packet.symbols[p], packet.mask[p])
      BY <2>1, <2>4, <2>7 DEF DecodedResiduals
    <3>2. reco[p] = TemporalResiduals(p, held)
      BY <2>2, <2>3, <2>5, <2>7, <3>1 DEF Predicted
    <3>3. reco[p] \in Surfaces
      BY <1>4, <2>5, <2>6, <3>2, AddType
    <3> QED  BY <2>2, <3>2, <3>3, EmptyAssumption DEF Predicted, Filled
  <2>8. CASE ~packet.enhanced
    <3>1. DecodedResiduals(p) = Zero
      BY <2>8 DEF DecodedResiduals
    <3>2. TemporalResiduals(p, held) = ApplyTemporalMap(held, packet.mask[p])
      BY <2>5, <2>6, <3>1, AddZero
    <3>3. reco[p] = TemporalResiduals(p, held)
      BY <2>2, <2>3, <2>8, <3>2 DEF Predicted
    <3> QED  BY <2>2, <2>6, <3>2, <3>3, EmptyAssumption DEF Predicted, Filled
  <2> QED  BY <2>7, <2>8
<1>8. CASE ~packet.refresh /\ ~packet.layer
  <2>1. ~packet.global /\ ~packet.enhanced
    BY <1>2, <1>3, <1>8 DEF BitsFit, Packets
  <2>2. Kept(p)
    BY <1>1, <1>8 DEF Coded
  <2>3. held = buffer[p] /\ held \in Surfaces /\ held # Empty
    BY <2>1, <2>2, EmptyAssumption DEF BufferAfterParsing, Kept
  <2>4. TemporalMask(p) = AllPred /\ DecodedResiduals(p) = Zero
    BY <1>2, <1>8, <2>1 DEF TemporalMask, DecodedResiduals
  <2>5. TemporalResiduals(p, held) = held
    BY <2>3, <2>4, ApplyUniform, AddZero DEF TemporalResiduals
  <2> QED  BY <2>2, <2>3, <2>5, EmptyAssumption DEF Kept, Filled
<1> QED  BY <1>6, <1>7, <1>8

(* Whether a plane keeps residuals does not depend on the plane.           *)
LEMMA PacketUniform ==
  ASSUME TypeInv, LoopInv, packet # Empty
  PROVE  Uniform(Planes)
<1>1. CASE ~config.temporal
  BY <1>1 DEF LoopInv, NoBufferWithoutTemporal, Uniform
<1>2. CASE config.temporal
  <2>1. \A p \in Planes : reco[p] # Empty
    <3> SUFFICES ASSUME NEW p \in Planes PROVE reco[p] # Empty
      OBVIOUS
    <3>1. PICK held : held \in BufferAfterParsing(p)
      BY ZeroType DEF BufferAfterParsing
    <3> QED  BY <1>2, <3>1, TemporalDecoded
  <2>2. \A p \in Planes :
          Coded(p, packet.enhanced, packet.refresh, packet.layer,
                packet.symbols[p], packet.mask[p])
    BY DEF LoopInv, PacketInv
  <2>3. \A p \in Planes : previous[p] = Empty <=> packet.refresh /\ ~packet.enhanced
    BY <1>2, <2>1, <2>2 DEF LoopInv, PacketInv, BitsFit, Coded, Afresh, Predicted, Kept
  <2> QED  BY <2>3 DEF Uniform
<1> QED  BY <1>1, <1>2

LEMMA DecodeLoopInv ==
  ASSUME TypeInv, LoopInv, TypeInv', DecodeTemporal \/ DecodeWithoutTemporal
  PROVE  LoopInv'
<1>1. packet # Empty /\ frame = Idle /\ packet' = Empty
  BY DEF DecodeTemporal, DecodeWithoutTemporal, TypeInv, TypeOK
<1>2. UNCHANGED <<config, previous, frame, written, reco>>
  BY DEF DecodeTemporal, DecodeWithoutTemporal, encoderVars
<1>3. reco \in [Planes -> Surfaces \cup {Empty}] /\ shown' \in [Planes -> Surfaces \cup {Empty}]
  BY DEF TypeInv, TypeOK
<1>4. 0 \in Planes
  BY NumPlanesAssumption DEF Planes
<1>5. CASE DecodeTemporal
  <2>1. PICK held \in [Planes -> Surfaces \cup {Empty}] :
          /\ \A p \in Planes : held[p] \in BufferAfterParsing(p)
          /\ buffer' = [p \in Planes |-> TemporalResiduals(p, held[p])]
    BY <1>5 DEF DecodeTemporal
  <2>2. \A p \in Planes :
          /\ TemporalResiduals(p, held[p]) = reco[p]
          /\ reco[p] = Filled(previous[p]) /\ reco[p] # Empty
    BY <1>1, <1>5, <2>1, TemporalDecoded DEF DecodeTemporal
  <2>3. \A p \in Planes : buffer'[p] = reco[p] /\ shown'[p] = reco[p]
    BY <1>5, <2>1, <2>2 DEF DecodeTemporal
  <2>4. shown' = reco
    BY <1>3, <2>3
  <2> QED
    BY <1>1, <1>2, <1>4, <2>2, <2>3, <2>4, PacketUniform
    DEF LoopInv, IdleInv, WorkInv, PacketInv, NoBufferWithoutTemporal, Uniform, Started, Filled
<1>6. CASE DecodeWithoutTemporal
  <2>1. ASSUME NEW p \in Planes
        PROVE  shown'[p] = reco[p] /\ reco[p] # Empty
    <3>1. packet.refresh
      BY <1>1, <1>6 DEF DecodeWithoutTemporal, LoopInv, PacketInv, BitsFit
    <3>2. reco[p] = DecodedResiduals(p)
      BY <1>1, <1>6, <3>1 DEF DecodeWithoutTemporal, LoopInv, PacketInv, Coded, Afresh, DecodedResiduals
    <3>3. shown'[p] = DecodedResiduals(p)
      BY <1>6 DEF DecodeWithoutTemporal
    <3> QED  BY <1>1, <3>2, <3>3, DecodedType, EmptyAssumption
  <2>2. shown' = reco
    BY <1>3, <2>1
  <2>3. ~config.temporal
    BY <1>6 DEF DecodeWithoutTemporal
  <2> QED
    BY <1>1, <1>2, <1>4, <2>1, <2>2, <2>3, PacketUniform
    DEF LoopInv, IdleInv, WorkInv, PacketInv, NoBufferWithoutTemporal, Uniform, Started
<1> QED  BY <1>5, <1>6

LEMMA NextLoopInv ==
  ASSUME LayerCarried, TypeInv, LoopInv, TypeInv', [Next]_vars
  PROVE  LoopInv'
<1>1. ASSUME NEW p \in Planes, EncodePlane(p) PROVE LoopInv'
  <2>1. \E r, s \in BOOLEAN : PlaneCoded(p, r, s)
    BY <1>1, AfreshCoded, PredictedCoded, PassedThroughCoded, MaskOnlyCoded, KeptCoded
    DEF EncodePlane
  <2> QED  BY <2>1, PlaneCodedLoopInv
<1>2. CASE UNCHANGED vars
  <2>1. UNCHANGED <<config, previous, frame, written, reco, packet, buffer, shown>>
    BY <1>2 DEF vars, encoderVars, decoderVars
  <2>2. IdleInv'
    BY <2>1 DEF LoopInv, IdleInv, Uniform, Started, Filled
  <2>3. \A p, e, r, l, s, m : Coded(p, e, r, l, s, m) <=> Coded(p, e, r, l, s, m)'
    BY <2>1
    DEF Coded, Afresh, Predicted, Kept, Add, ApplyTemporalMap, Dequantised,
        DequantisedByMask, Zero
  <2>4. WorkInv'
    BY <2>1, <2>3 DEF LoopInv, WorkInv, Uniform, Open, Filled, NoTemporal, BitsFit, Intra
  <2>5. PacketInv'
    BY <2>1, <2>3 DEF LoopInv, PacketInv, BitsFit, Present
  <2> QED  BY <2>1, <2>2, <2>4, <2>5 DEF LoopInv, NoBufferWithoutTemporal
<1> QED
  BY <1>1, <1>2, StartFrameLoopInv, EmitLoopInv, StartDecoderLoopInv, DecodeLoopInv DEF Next

LEMMA LoopInvariant ==
  ASSUME LayerCarried
  PROVE  Spec => [](TypeInv /\ LoopInv)
<1>1. TypeInv /\ LoopInv /\ TypeInv' /\ [Next]_vars => LoopInv'
  BY NextLoopInv
<1> QED  BY TypeInvariant, InitLoopInv, <1>1, PTL DEF Spec

(* After every picture the decoder shows what the encoder reconstructed:   *)
(* whatever the encoder decides, and wherever the decoder starts.          *)
THEOREM DecoderFollows ==
  ASSUME LayerCarried
  PROVE  Spec => []NoDrift
<1>1. LoopInv => NoDrift
  BY DEF LoopInv, IdleInv, NoDrift, InStep, Started
<1> QED  BY LoopInvariant, <1>1, PTL

(* After every picture both sides hold the same residuals for the next.    *)
THEOREM SameResiduals ==
  ASSUME LayerCarried
  PROVE  Spec => []BuffersAgree
<1>1. LoopInv => BuffersAgree
  BY DEF LoopInv, IdleInv, BuffersAgree, InStep, Started
<1> QED  BY LoopInvariant, <1>1, PTL

(* Between pictures all planes have a buffer or none has: so the bits that *)
(* the last plane leaves are those of every plane.                         *)
THEOREM OneModeForAllPlanes ==
  ASSUME LayerCarried
  PROVE  Spec => []PlanesUniform
<1>1. TypeInv /\ LoopInv => PlanesUniform
  BY PacketUniform DEF LoopInv, IdleInv, PlanesUniform, Uniform
<1> QED  BY LoopInvariant, <1>1, PTL

(* The decoder looks for a temporal layer exactly when there is one.       *)
THEOREM LayerExpected ==
  ASSUME LayerCarried
  PROVE  Spec => []SignallingAgrees
<1>1. LoopInv => SignallingAgrees
  BY DEF LoopInv, PacketInv, SignallingAgrees
<1> QED  BY LoopInvariant, <1>1, PTL
=============================================================================
