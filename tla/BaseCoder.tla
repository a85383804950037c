----------------------------- MODULE BaseCoder -----------------------------
(***************************************************************************)
(* An abstract base encoder, external to this repository: the base streams *)
(* that the parsers may see.  A stream is a series of groups of pictures,  *)
(* each a random access point followed by its other pictures in coding     *)
(* order; which group comes next is chosen step by step.                   *)
(*                                                                         *)
(* In AVC every group starts with an IDR that restarts the picture order   *)
(* count.  In HEVC only the first does: GetBasePictureType has no IDR for  *)
(* HEVC, so ESFile does not cope with another (see README); later groups   *)
(* start with a CRA, that pictures displayed before it may follow.  A      *)
(* picture is one slice, and a frame.                                      *)
(***************************************************************************)
EXTENDS Integers, Sequences, FiniteSets

CONSTANTS
  Streams,      \* a sequence of stream parameters, see StreamsAssumption
  MaxGroups,    \* bound on the groups of a stream
  MaxPictures,  \* bound on its pictures
  MaxSPSCount, MaxPPSCount,  \* for the parsers, see BaseNal
  Word

AVC == INSTANCE AvcParser
HEVC == INSTANCE HevcParser

(* start is the count of the first picture: not zero only in a stream cut  *)
(* at a CRA.  sps and pps are the syntax elements but for the ids, size    *)
(* the [width, height, depth, chroma] that the pictures have.              *)
ASSUME StreamsAssumption ==
  \A i \in DOMAIN Streams :
    /\ Streams[i].codec \in {"AVC", "HEVC"}
    /\ Streams[i].start \in Nat
    /\ Streams[i].bReferences \in BOOLEAN /\ Streams[i].unreadable \in BOOLEAN
    /\ IF Streams[i].codec = "AVC"
         THEN /\ Streams[i].start = 0
              /\ Streams[i].sps \in AVC!SPSSyntax /\ Streams[i].pps \in AVC!PPSSyntax
         ELSE Streams[i].sps \in HEVC!SPSSyntax /\ Streams[i].pps \in HEVC!PPSSyntax
    /\ \A o \in Streams[i].orders :
         /\ o \in Seq(Nat) /\ o # <<>>
         /\ {o[k] : k \in DOMAIN o} = 0 .. Len(o) - 1
         /\ Streams[i].codec = "AVC" => o[1] = 0

ASSUME BoundsAssumption ==
  /\ MaxGroups \in Nat /\ MaxPictures \in Nat
  /\ MaxSPSCount \in Nat \ {0} /\ MaxPPSCount \in Nat \ {0} /\ Word \in Nat \ {0}

(* A picture that others coded before it are displayed after. *)
Reordered(order, i) == \E j \in 1 .. i - 1 : order[j] > order[i]
ReferenceIn(s, order, i) == s.bReferences \/ ~Reordered(order, i)

(* The pictures that the counts of others are coded relative to, and the   *)
(* last of them before picture k.                                          *)
Anchor(s, order, i) == i = 1 \/ (order[i] > order[1] /\ ReferenceIn(s, order, i))
LastAnchor(s, order, k, j) ==
  j < k /\ Anchor(s, order, j) /\ \A i \in j + 1 .. k - 1 : ~Anchor(s, order, i)

MaxLsb(s) == 2^(s.sps.log2MaxLsb)
MaxFrameNum(s) == 2^(s.sps.log2MaxFrameNum)

(* Distances of counts that their low parts tell apart. *)
Near(s, distance) == -(MaxLsb(s) \div 2) < distance /\ distance < MaxLsb(s) \div 2

(* A conforming base encoder: the low part of a count is wide enough for   *)
(* the pictures between two that others are counted from, and no count     *)
(* leaves its word.  AVC counts fields.  Counts of type 2 are for streams  *)
(* in display order.                                                       *)
ASSUME CountsAssumption ==
  \A i \in DOMAIN Streams :
    LET s == Streams[i]
    IN  /\ MaxLsb(s) \in Nat \ {0}
        /\ IF s.codec = "AVC"
             THEN /\ MaxFrameNum(s) \in Nat \ {0, 1}
                  /\ 2 * MaxPictures <= Word
                  /\ \A o \in s.orders :
                       IF s.sps.pocType = 2 THEN \A k \in DOMAIN o : o[k] = k - 1
                       ELSE \A j, k \in DOMAIN o :
                              LastAnchor(s, o, k, j) => Near(s, 2 * (o[k] - o[j]))
             ELSE /\ s.start + MaxPictures <= Word
                  /\ \A o \in s.orders : \A j \in DOMAIN o :
                       /\ \A k \in DOMAIN o : LastAnchor(s, o, k, j) => Near(s, o[k] - o[j])
                       /\ LastAnchor(s, o, Len(o) + 1, j) =>
                            \A next \in s.orders : Near(s, Len(o) + next[1] - o[j])

VARIABLES stream,  \* which of the streams it is
          gop      \* the group: [first, order, done, id, groups]: the display index of its
                   \* first picture, its coding order, how much of it was read, the
                   \* parameter sets it uses and the groups up to it

S == Streams[stream]
Codec == S.codec

CoderInit ==
  /\ stream \in DOMAIN Streams
  /\ gop = [first |-> 0, order |-> <<>>, done |-> 0, id |-> -1, groups |-> 0]

PicturesRead == gop.first + gop.done

(* Parameter sets are sent when a group uses others than the one before    *)
(* it.  Those beyond the tables cannot be read, and come in no first group *)
(* nor with depth 0 in the table (the search for it would come upon them). *)
Ids ==
  IF gop.groups = 0 THEN {0}
  ELSE 0 .. MaxSPSCount - (IF S.unreadable THEN 0 ELSE 1)

(* The group that the stream holds next, or the one that goes on. *)
ThisOrNextGop ==
  IF gop.done < Len(gop.order)
    THEN {[gop EXCEPT !.done = @ + 1]}
    ELSE {[first |-> PicturesRead, order |-> o, done |-> 1, id |-> i, groups |-> gop.groups + 1] :
            o \in {g \in S.orders :
                     /\ gop.groups < MaxGroups
                     /\ PicturesRead + Len(g) <= MaxPictures
                     /\ gop.groups = 0 => g[1] = 0},
            i \in Ids}

WholeGroups == gop.done = Len(gop.order) /\ gop.order # <<>>

Place(next) == next.order[next.done]
DisplayIndex(next) == next.first + Place(next)

Reference(order, i) == ReferenceIn(S, order, i)

SliceType(next) ==
  IF next.done = 1 THEN "I" ELSE IF Reordered(next.order, next.done) THEN "B" ELSE "P"

-----------------------------------------------------------------------------
(* The NAL units of an access unit.                                        *)

AvcSlice(next) ==
  [type |-> IF next.done = 1 THEN AVC!CodedSlice_IDR ELSE 1,
   ref |-> IF Reference(next.order, next.done) THEN 2 ELSE 0,
   syntax |->
     [type |-> SliceType(next), pps |-> next.id, fieldPic |-> FALSE, bottom |-> FALSE,
      frameNum |-> Cardinality({i \in 1 .. next.done - 1 : Reference(next.order, i)})
                     % MaxFrameNum(S),
      lsb |-> (2 * Place(next)) % MaxLsb(S),
      deltaBottom |-> 1, mmco5 |-> FALSE]]

AvcUnits(next) ==
  <<[type |-> AVC!AUD, ref |-> 0]>>
    \o (IF next.id = gop.id THEN <<>>
        ELSE <<[type |-> 7, ref |-> 3, id |-> next.id, syntax |-> S.sps],
               [type |-> 8, ref |-> 3, id |-> next.id, sps |-> next.id, syntax |-> S.pps]>>)
    \o <<AvcSlice(next)>>

HevcType(next) ==
  IF next.done = 1 THEN IF next.groups = 1 /\ S.start = 0 THEN HEVC!IDR_W_RADL ELSE HEVC!CRA
  ELSE (IF Place(next) < next.order[1] THEN 8 ELSE 0)
         + (IF Reference(next.order, next.done) THEN 1 ELSE 0)

(* The count that a picture has in the base codec. *)
HevcCount(next) == S.start + DisplayIndex(next)

HevcSlice(next) ==
  [type |-> HevcType(next), layer |-> 0,
   syntax |-> [type |-> SliceType(next), pps |-> next.id, firstInPicture |-> TRUE,
               lsb |-> HevcCount(next) % MaxLsb(S)]]

HevcUnits(next) ==
  <<[type |-> HEVC!AUD, layer |-> 0]>>
    \o (IF next.id = gop.id THEN <<>>
        ELSE <<[type |-> HEVC!VPS, layer |-> 0],
               [type |-> 33, layer |-> 0, id |-> next.id, syntax |-> S.sps],
               [type |-> 34, layer |-> 0, id |-> next.id, sps |-> next.id, syntax |-> S.pps]>>)
    \o <<HevcSlice(next)>>

NalUnits(next) == IF Codec = "AVC" THEN AvcUnits(next) ELSE HevcUnits(next)
=============================================================================
