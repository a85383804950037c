----------------------------- MODULE BaseStream -----------------------------
(***************************************************************************)
(* The base elementary stream as the encoder and the decoder both read it: *)
(* src/uESFile.cpp hands its NAL units to the parser of the codec, cuts it *)
(* into access units in coding order and gives each a picture order count  *)
(* that is meant to increase in display order over the whole stream,       *)
(* although every IDR restarts the count that the base codec codes.        *)
(***************************************************************************)
EXTENDS BaseCoder, SequencesExt

VARIABLES es,      \* [highest, offset]: m_poc_highest and m_poc_offset
          parser   \* m_decoder

streamVars == <<stream, gop, es, parser>>

NewParser == IF Codec = "AVC" THEN AVC!New ELSE HEVC!New

StreamInit ==
  /\ CoderInit
  /\ es = [highest |-> 0, offset |-> 0]
  /\ parser = NewParser

ParseNalUnit(p, nal) ==
  IF Codec = "AVC" THEN AVC!ParseNalUnit(p, nal) ELSE HEVC!ParseNalUnit(p, nal)

BasePictureType(p) ==
  IF Codec = "AVC" THEN AVC!GetBasePictureType(p) ELSE HEVC!GetBasePictureType(p)

IsSlice(p) ==
  (IF Codec = "AVC" THEN AVC!NalClass(p.nalType) ELSE HEVC!NalClass(p.nalType)) = "Slice"

(* GetPictureOrderCountIncrement *)
PocStep == IF Codec = "AVC" THEN 2 ELSE 1

(* The loop over the NAL units: what the parser is behind the slice that   *)
(* ends the access unit, or where it throws.                               *)
ParsedUnits(nals) ==
  LET Further(i) ==
        [p \in AVC!Parsers \cup HEVC!Parsers |->
           IF i > 1 /\ (p.thrown \/ IsSlice(p)) THEN p ELSE ParseNalUnit(p, nals[i])]
      After[i \in 0 .. Len(nals)] == IF i = 0 THEN parser ELSE Further(i)[After[i - 1]]
  IN  After[Len(nals)]

(* What the probe of a stream finds out. *)
SizeOf(p) ==
  IF Codec = "AVC"
    THEN [width  |-> AVC!GetPictureWidth(p), height |-> AVC!GetPictureHeight(p),
          depth  |-> AVC!GetBitDepthLuma(p), chroma |-> AVC!GetChromaFormatIDC(p)]
    ELSE [width  |-> HEVC!GetPictureWidth(p), height |-> HEVC!GetPictureHeight(p),
          depth  |-> HEVC!GetBitDepthLuma(p), chroma |-> HEVC!GetChromaFormatIDC(p)]

(* GenerateIncreasingPOC.  The offset moves to the highest count so far at *)
(* an IDR whose own count lies below it.                                   *)
OffsetFor(p) ==
  IF BasePictureType(p) = "IDR" /\ p.poc < es.highest THEN es.highest ELSE es.offset

HighestAfter(poc) ==
  IF poc > es.highest THEN poc + PocStep ELSE es.highest

(* The access unit that the parser has come to the end of: id is what the  *)
(* base decoder will make of it, a picture's display index.                *)
AccessUnit(next, p) ==
  [id |-> DisplayIndex(next), poc |-> p.poc + OffsetFor(p), type |-> BasePictureType(p)]

(* ReadAccessUnit succeeds: next is the group read from, p the parser.     *)
ReadPicture(next, p) ==
  /\ ~p.thrown
  /\ gop' = next
  /\ parser' = p
  /\ es' = [highest |-> HighestAfter(p.poc + OffsetFor(p)), offset |-> OffsetFor(p)]
  /\ UNCHANGED stream

(* ReadAccessUnit fails: there is nothing after the last group, or what    *)
(* comes cannot be parsed.                                                 *)
Unreadable == \E next \in ThisOrNextGop : ParsedUnits(NalUnits(next)).thrown

NoAccessUnit == WholeGroups \/ Unreadable

(* The groups at whose end m_poc_highest is the next count in display      *)
(* order of AVC.  I P B B and I P P P are among them; I P P, I P B P and a *)
(* group of one picture are not, and the IDR after such a group gets the   *)
(* count of the picture before it.                                         *)
CountedToTheEnd(order) ==
  LET Highest[k \in 0 .. Len(order)] ==
        LET before == Highest[k - 1]
        IN  IF k = 0 THEN 0 ELSE IF order[k] > before THEN order[k] + 1 ELSE before
  IN  Highest[Len(order)] = Len(order)
=============================================================================
