----------------------------- MODULE HevcParser -----------------------------
(***************************************************************************)
(* BaseDecoderHEVC (src/uBaseDecoderHEVC.cpp): what it keeps of parameter  *)
(* sets and slice headers, and the picture order count it derives.         *)
(***************************************************************************)
EXTENDS BaseNal

IDR_W_RADL == 19
CRA == 21
VPS == 32
AUD == 35
EndOfSequence == 36

(* uFromHEVC *)
NalClass(type) ==
  IF type \in (0 .. 9) \cup (16 .. 21) THEN "Slice"
  ELSE IF type = 33 THEN "SPS"
  ELSE IF type = 34 THEN "PPS"
  ELSE IF type = EndOfSequence THEN "EOS"
  ELSE "Other"

isIdr(type) == type \in {IDR_W_RADL, 20}
isBla(type) == type \in 16 .. 18
isIrap(type) == type \in 16 .. 23
isRasl(type) == type \in {8, 9}
isRadl(type) == type \in {6, 7}
isSubLayerNonReferencePicture(type) == type \in {0, 2, 4, 6, 8, 10, 12, 14}

(* The parameter sets before they were read: memset(this, 0, ...). *)
SPS == [chroma |-> 0, separate |-> FALSE, width |-> 0, height |-> 0,
        window |-> <<0, 0, 0, 0>>, depth |-> 0, log2MaxLsb |-> 0]
PPS == [sps |-> 0, dependentSlices |-> FALSE]

New ==
  [nalType |-> 0, temporalId |-> 0, thrown |-> FALSE, poc |-> 0,
   firstPicture |-> TRUE, noRaslOutput |-> FALSE,
   sps |-> [i \in 0 .. MaxSPSCount - 1 |-> SPS], activeSPS |-> NoSPS,
   pps |-> [i \in 0 .. MaxPPSCount - 1 |-> PPS],
   slice |-> [type |-> "B", lsb |-> 0],
   prevTid0 |-> [msb |-> 0, lsb |-> 0]]

SPSs ==
  [chroma : Nat, separate : BOOLEAN, width : Nat, height : Nat, window : Seq(Nat),
   depth : Nat, log2MaxLsb : Nat]

(* What a stream may say in them, without dependent slices. *)
SPSSyntax ==
  [chroma : Nat, separate : BOOLEAN, width : Nat, height : Nat, depth : Nat,
   log2MaxLsb : Nat, cropping : BOOLEAN, crop : Seq(Nat)]
PPSSyntax == [tiles : BOOLEAN, dependentSlices : {FALSE}]

Parsers ==
  [nalType : Nat, temporalId : Nat, thrown : BOOLEAN, poc : 0 .. Word - 1,
   firstPicture : BOOLEAN, noRaslOutput : BOOLEAN,
   sps : [0 .. MaxSPSCount - 1 -> SPSs], activeSPS : NoSPS .. MaxSPSCount - 1,
   pps : [0 .. MaxPPSCount - 1 -> [sps : Nat, dependentSlices : BOOLEAN]],
   slice : [type : SliceTypes, lsb : Nat],
   prevTid0 : [msb : 0 .. Word - 1, lsb : Nat]]

-----------------------------------------------------------------------------
(* A set without a conformance window leaves the offsets at what the table *)
(* held, and so the flag of separate planes in other chroma formats.       *)
ParseSPS(d, id, s) ==
  IF id >= MaxSPSCount THEN Thrown(d)
  ELSE [d EXCEPT !.activeSPS = id,
                 !.sps[id] =
                   [chroma     |-> s.chroma,
                    separate   |-> IF s.chroma = 3 THEN s.separate ELSE @.separate,
                    width      |-> s.width,
                    height     |-> s.height,
                    window     |-> IF s.cropping THEN s.crop ELSE @.window,
                    depth      |-> s.depth,
                    log2MaxLsb |-> s.log2MaxLsb]]

(* Tiles are not supported. *)
ParsePPS(d, id, sps, s) ==
  IF id >= MaxPPSCount \/ s.tiles THEN Thrown(d)
  ELSE [d EXCEPT !.pps[id] = [sps |-> sps, dependentSlices |-> s.dependentSlices]]

(* A picture of several slices is not supported.  The header is read up to *)
(* the count, which an IDR does not have, with the sets it refers to; with *)
(* dependent slice segments allowed it is not read at all.                 *)
ParseSliceHeader(d, s) ==
  IF ~s.firstInPicture THEN Thrown(d)
  ELSE IF d.pps[s.pps].dependentSlices THEN d
  ELSE [d EXCEPT !.slice = [type |-> s.type, lsb |-> IF isIdr(d.nalType) THEN @.lsb ELSE s.lsb]]

-----------------------------------------------------------------------------
(* HandlePictureOrderCount: an IDR counts from zero. *)
RestartedAtIdr(d) ==
  IF isIdr(d.nalType)
    THEN [d EXCEPT !.prevTid0 = [msb |-> 0, lsb |-> 0], !.slice.lsb = 0]
    ELSE d

(* Faulty variant of Msb: every random access point restarts the count. *)
MsbFromZero(d) ==
  IF isIrap(d.nalType) THEN 0
  ELSE PicOrderCntMsb(d.slice.lsb, d.prevTid0, 2^(d.sps[d.activeSPS].log2MaxLsb))

Msb(d) ==
  IF isIrap(d.nalType) /\ d.noRaslOutput THEN 0
  ELSE PicOrderCntMsb(d.slice.lsb, d.prevTid0, 2^(d.sps[d.activeSPS].log2MaxLsb))

(* The picture that later counts are relative to. *)
IsAnchor(d) ==
  /\ ~isRasl(d.nalType) /\ ~isRadl(d.nalType)
  /\ ~isSubLayerNonReferencePicture(d.nalType)
  /\ d.temporalId = 0

HandlePictureOrderCount ==
  [d \in Parsers |->
     [d EXCEPT !.poc = Wrapped(Msb(d) + d.slice.lsb),
               !.prevTid0 = IF IsAnchor(d) THEN [msb |-> Msb(d), lsb |-> d.slice.lsb] ELSE @]]

(* The first picture, an IDR and a BLA are decoded without those before. *)
HandleSliceHeader ==
  [d \in Parsers |->
     [d EXCEPT !.noRaslOutput = isIdr(d.nalType) \/ isBla(d.nalType) \/ d.firstPicture,
               !.firstPicture = FALSE]]

AfterSlice ==
  [d \in Parsers |->
     IF d.thrown THEN d ELSE HandlePictureOrderCount[RestartedAtIdr(HandleSliceHeader[d])]]

(* The temporal id is taken from the layer's bits of the header: it is 0   *)
(* in the base layer.                                                      *)
Started(d, nal) == [d EXCEPT !.nalType = nal.type, !.temporalId = (nal.layer % 32) \div 4]

ParseNalUnit(d, nal) ==
  CASE NalClass(nal.type) = "SPS"   -> ParseSPS(Started(d, nal), nal.id, nal.syntax)
    [] NalClass(nal.type) = "PPS"   -> ParsePPS(Started(d, nal), nal.id, nal.sps, nal.syntax)
    [] NalClass(nal.type) = "Slice" ->
         AfterSlice[ParseSliceHeader(Started(d, nal), nal.syntax)]
    [] NalClass(nal.type) = "EOS"   -> [Started(d, nal) EXCEPT !.firstPicture = TRUE]
    [] OTHER                        -> Started(d, nal)

(* Never an IDR. *)
GetBasePictureType(d) == d.slice.type

-----------------------------------------------------------------------------
(* The size that the active set gives, without what its window cuts off. *)

GetPictureWidth(d) ==
  LET s == d.sps[d.activeSPS]
  IN  s.width - (IF s.chroma \in {1, 2} THEN 2 ELSE 1) * (s.window[1] + s.window[2])

GetPictureHeight(d) ==
  LET s == d.sps[d.activeSPS]
  IN  s.height - (IF s.chroma = 1 THEN 2 ELSE 1) * (s.window[3] + s.window[4])

GetBitDepthLuma(d) == d.sps[d.activeSPS].depth
GetChromaFormatIDC(d) == d.sps[d.activeSPS].chroma
=============================================================================
