----------------------------- MODULE AvcParser -----------------------------
(***************************************************************************)
(* BaseDecoderAVC (src/uBaseDecoderAVC.cpp): what it keeps of parameter    *)
(* sets and slice headers, and the picture order count it derives.         *)
(* Pictures are frames (HandlePictureOrderCount asserts it), and counts    *)
(* are of type 0 or 2 (it asserts this, too).                              *)
(***************************************************************************)
EXTENDS BaseNal

CodedSlice_IDR == 5
AUD == 9

(* uFromAVC *)
NalClass(type) ==
  IF type \in (0 .. 5) \cup {19, 20, 21} THEN "Slice"
  ELSE IF type \in {7, 13, 15} THEN "SPS"
  ELSE IF type = 8 THEN "PPS"
  ELSE "Other"

(* The parameter sets before they were read: memset(this, 0, ...). *)
SPS == [chroma |-> 0, separate |-> FALSE, chromaArray |-> 0, depth |-> 0,
        log2MaxFrameNum |-> 0, pocType |-> 0, log2MaxLsb |-> 0,
        width |-> 0, height |-> 0, frameMbsOnly |-> FALSE, crop |-> <<0, 0, 0, 0>>]
PPS == [sps |-> 0, bottomOrder |-> FALSE]

New ==
  [nalType |-> 0, refIdc |-> 0, thrown |-> FALSE, poc |-> 0,
   sps |-> [i \in 0 .. MaxSPSCount - 1 |-> SPS], activeSPS |-> NoSPS,
   pps |-> [i \in 0 .. MaxPPSCount - 1 |-> PPS],
   slice |-> [type |-> "Unknown", idr |-> FALSE, frameNum |-> 0, fieldPic |-> FALSE,
              bottom |-> FALSE, lsb |-> 0, deltaBottom |-> 0, mmco5 |-> FALSE],
   refPic |-> [msb |-> 0, lsb |-> 0, top |-> 0, bottom |-> FALSE, mmco5 |-> FALSE,
               frameNum |-> 0, frameNumOffset |-> 0]]

SPSs ==
  [chroma : Nat, separate : BOOLEAN, chromaArray : Nat, depth : Nat, log2MaxFrameNum : Nat,
   pocType : Nat, log2MaxLsb : Nat, width : Nat, height : Nat, frameMbsOnly : BOOLEAN,
   crop : Seq(Nat)]

(* What a stream may say in them, in the profiles that the parser is for. *)
SPSSyntax ==
  [profile : Nat, reserved : Nat, chroma : Nat, separate : BOOLEAN, depth : Nat,
   log2MaxFrameNum : Nat, pocType : {0, 2}, log2MaxLsb : Nat, width : Nat, height : Nat,
   frameMbsOnly : BOOLEAN, cropping : BOOLEAN, crop : Seq(Nat)]
PPSSyntax == [sliceGroups : Nat, mapType : Nat, bottomOrder : BOOLEAN]

Parsers ==
  [nalType : Nat, refIdc : Nat, thrown : BOOLEAN, poc : 0 .. Word - 1,
   sps : [0 .. MaxSPSCount - 1 -> SPSs], activeSPS : NoSPS .. MaxSPSCount - 1,
   pps : [0 .. MaxPPSCount - 1 -> [sps : Nat, bottomOrder : BOOLEAN]],
   slice : [type : SliceTypes, idr : BOOLEAN, frameNum : Nat, fieldPic : BOOLEAN,
            bottom : BOOLEAN, lsb : Nat, deltaBottom : Int, mmco5 : BOOLEAN],
   refPic : [msb : 0 .. Word - 1, lsb : Nat, top : 0 .. Word - 1, bottom : BOOLEAN,
             mmco5 : BOOLEAN, frameNum : Nat, frameNumOffset : Nat]]

HighProfiles == {100, 110, 122, 244, 44, 83, 86, 118, 128, 138, 139, 134, 135}

-----------------------------------------------------------------------------
(* Profiles without the chroma format leave it, and the bit depth, at what *)
(* the table held; so do sets without cropping with the offsets.           *)
SPSAfter(old, s) ==
  LET high == s.profile \in HighProfiles
      separate == IF high /\ s.chroma = 3 THEN s.separate ELSE old.separate
  IN  [chroma          |-> IF high THEN s.chroma ELSE old.chroma,
       separate        |-> separate,
       chromaArray     |-> IF ~high THEN old.chromaArray ELSE IF separate THEN 0 ELSE s.chroma,
       depth           |-> IF high THEN s.depth ELSE old.depth,
       log2MaxFrameNum |-> s.log2MaxFrameNum,
       pocType         |-> s.pocType,
       log2MaxLsb      |-> IF s.pocType = 0 THEN s.log2MaxLsb ELSE old.log2MaxLsb,
       width           |-> s.width,
       height          |-> s.height,
       frameMbsOnly    |-> s.frameMbsOnly,
       crop            |-> IF s.cropping THEN s.crop ELSE old.crop]

ParseSPS(d, id, s) ==
  IF id >= MaxSPSCount \/ s.reserved # 0 THEN Thrown(d)
  ELSE [d EXCEPT !.activeSPS = id, !.sps[id] = SPSAfter(@, s)]

(* Slice groups of an explicit map (type 6) are not supported. *)
ParsePPS(d, id, sps, s) ==
  IF id >= MaxPPSCount \/ (s.sliceGroups > 1 /\ s.mapType = 6) THEN Thrown(d)
  ELSE [d EXCEPT !.pps[id] = [sps |-> sps, bottomOrder |-> s.bottomOrder]]

(* HandleDecRefPicMarking.  The flag of operation 5 is never taken back.   *)
ResetsCounts(d, s) ==
  d.slice.mmco5 \/ (d.refIdc # 0 /\ d.nalType # CodedSlice_IDR /\ s.mmco5)

(* The slice is read with the sets that it refers to. *)
ParseSliceHeader(d, s) ==
  LET pps == d.pps[s.pps]
      sps == d.sps[pps.sps]
      fieldPic == IF sps.frameMbsOnly THEN d.slice.fieldPic ELSE s.fieldPic
  IN  [d EXCEPT !.slice =
        [type        |-> s.type,
         idr         |-> d.nalType = CodedSlice_IDR,
         frameNum    |-> s.frameNum,
         fieldPic    |-> fieldPic,
         bottom      |-> IF ~sps.frameMbsOnly /\ fieldPic THEN s.bottom ELSE @.bottom,
         lsb         |-> IF sps.pocType = 0 THEN s.lsb ELSE @.lsb,
         deltaBottom |-> IF sps.pocType = 0 /\ pps.bottomOrder /\ ~fieldPic
                           THEN s.deltaBottom ELSE @.deltaBottom,
         mmco5       |-> ResetsCounts(d, s)]]

-----------------------------------------------------------------------------
(* HandlePictureOrderCount: with the set parsed last.                      *)

PreviousCount(d) ==
  IF d.nalType = CodedSlice_IDR THEN [msb |-> 0, lsb |-> 0]
  ELSE IF d.refPic.mmco5 THEN [msb |-> 0, lsb |-> IF d.refPic.bottom THEN 0 ELSE d.refPic.top]
  ELSE [msb |-> d.refPic.msb, lsb |-> d.refPic.lsb]

(* The count of a picture, of its two fields the lower. *)
FrameCount(top, bottom) == IF top < bottom THEN top ELSE bottom

(* Type 0.  Later counts are relative to that of a reference picture. *)
CountByLsb(d) ==
  LET msb == PicOrderCntMsb(d.slice.lsb, PreviousCount(d), 2^(d.sps[d.activeSPS].log2MaxLsb))
      top == Wrapped(msb + d.slice.lsb)
  IN  [d EXCEPT !.poc = FrameCount(top, Wrapped(top + d.slice.deltaBottom)),
                !.refPic = IF d.refIdc = 0 THEN @
                           ELSE [@ EXCEPT !.msb = msb, !.lsb = d.slice.lsb, !.top = top,
                                          !.bottom = d.slice.bottom, !.mmco5 = d.slice.mmco5]]

(* Faulty variant of FrameNumOffset: an IDR does not restart it. *)
FrameNumOffsetKept(d) ==
  IF d.refPic.frameNum > d.slice.frameNum THEN d.refPic.frameNumOffset + 2^(d.sps[0].log2MaxFrameNum)
  ELSE d.refPic.frameNumOffset

(* The frame numbers that went by before the counter of the stream wrapped *)
(* last; its range is always taken from set 0.                             *)
FrameNumOffset(d) ==
  IF d.nalType = CodedSlice_IDR THEN 0
  ELSE IF d.refPic.frameNum > d.slice.frameNum
    THEN d.refPic.frameNumOffset + 2^(d.sps[0].log2MaxFrameNum)
  ELSE d.refPic.frameNumOffset

(* Type 2: the pictures are displayed in coding order. *)
CountByFrameNum(d) ==
  LET twice == 2 * (FrameNumOffset(d) + d.slice.frameNum)
  IN  [d EXCEPT !.poc = Wrapped(IF d.nalType = CodedSlice_IDR THEN 0
                                ELSE IF d.refIdc = 0 THEN twice - 1 ELSE twice),
                !.refPic.frameNum = d.slice.frameNum,
                !.refPic.frameNumOffset = IF d.slice.mmco5 THEN 0 ELSE FrameNumOffset(d)]

HandlePictureOrderCount ==
  [d \in Parsers |-> IF d.sps[d.activeSPS].pocType = 0 THEN CountByLsb(d) ELSE CountByFrameNum(d)]

Started(d, nal) == [d EXCEPT !.nalType = nal.type, !.refIdc = nal.ref]

ParseNalUnit(d, nal) ==
  CASE NalClass(nal.type) = "SPS"   -> ParseSPS(Started(d, nal), nal.id, nal.syntax)
    [] NalClass(nal.type) = "PPS"   -> ParsePPS(Started(d, nal), nal.id, nal.sps, nal.syntax)
    [] NalClass(nal.type) = "Slice" ->
         HandlePictureOrderCount[ParseSliceHeader(Started(d, nal), nal.syntax)]
    [] OTHER                        -> Started(d, nal)

GetBasePictureType(d) == IF d.slice.idr THEN "IDR" ELSE d.slice.type

-----------------------------------------------------------------------------
(* The size that the active set gives, without what it crops. *)

GetPictureWidth(d) ==
  LET s == d.sps[d.activeSPS]
      unit == IF s.chromaArray \in {1, 2} THEN 2 ELSE 1
  IN  s.width * 16 - unit * (s.crop[1] + s.crop[2])

GetPictureHeight(d) ==
  LET s == d.sps[d.activeSPS]
      fields == IF s.frameMbsOnly THEN 1 ELSE 2
      unit == fields * (IF s.chromaArray = 1 THEN 2 ELSE 1)
  IN  fields * s.height * 16 - unit * (s.crop[3] + s.crop[4])

GetBitDepthLuma(d) == d.sps[d.activeSPS].depth
GetChromaFormatIDC(d) == d.sps[d.activeSPS].chroma
=============================================================================
