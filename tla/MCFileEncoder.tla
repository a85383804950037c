--------------------------- MODULE MCFileEncoder ---------------------------
(* Small instances of FileEncoder for TLC. *)
EXTENDS FileEncoder, FiniteSetsExt

(* Every coding order of a group of up to n pictures. *)
Orders(n) ==
  UNION {SetToSeqs(0 .. k - 1) : k \in 1 .. n}

AvcOrders(n) == {o \in Orders(n) : o[1] = 0 /\ CountedToTheEnd(o)}

(* A group of n pictures in display order. *)
LowDelay(n) == [i \in 1 .. n |-> i - 1]

AvcSets(profile, chroma, pocType) ==
  [profile |-> profile, reserved |-> 0, chroma |-> chroma, separate |-> FALSE, depth |-> 10,
   log2MaxFrameNum |-> 4, pocType |-> pocType, log2MaxLsb |-> 4,
   width |-> 2, height |-> 2, frameMbsOnly |-> TRUE]

AvcPPS == [sliceGroups |-> 1, mapType |-> 0, bottomOrder |-> TRUE]

HevcSets(chroma) ==
  [chroma |-> chroma, separate |-> FALSE, width |-> 32, height |-> 32, depth |-> 10, log2MaxLsb |-> 4]

HevcPPS == [tiles |-> FALSE, dependentSlices |-> FALSE]

Cut(sets, crop) == sets @@ [cropping |-> crop # <<>>, crop |-> crop]
Size(w, h, chroma) == [width |-> w, height |-> h, depth |-> 10, chroma |-> chroma]

(* Cropped 4:2:0 with a group in which the low part of the count wraps;    *)
(* 4:4:4 in display order, with one in which the frame number wraps; a     *)
(* profile that sends no depth; monochrome; and two of HEVC, whose counts  *)
(* go on over the groups.                                                  *)
SixStreams ==
  <<[codec |-> "AVC", start |-> 0, sps |-> Cut(AvcSets(100, 1, 0), <<0, 1, 0, 2>>), pps |-> AvcPPS,
     size |-> Size(30, 28, 1), unreadable |-> FALSE, bReferences |-> FALSE,
     orders |-> AvcOrders(4) \cup {<<0, 3, 1, 2, 6, 4, 5, 9, 7, 8>>}],
    [codec |-> "AVC", start |-> 0, sps |-> Cut(AvcSets(244, 3, 2), <<1, 1, 1, 0>>), pps |-> AvcPPS,
     size |-> Size(30, 31, 3), unreadable |-> TRUE, bReferences |-> FALSE,
     orders |-> {LowDelay(2), LowDelay(4), LowDelay(18)}],
    [codec |-> "AVC", start |-> 0, sps |-> Cut(AvcSets(77, 1, 0), <<>>), pps |-> AvcPPS,
     size |-> Size(32, 32, 1), unreadable |-> FALSE, bReferences |-> TRUE,
     orders |-> AvcOrders(3)],
    [codec |-> "AVC", start |-> 0, sps |-> Cut(AvcSets(110, 0, 0), <<1, 0, 1, 0>>), pps |-> AvcPPS,
     size |-> Size(31, 31, 0), unreadable |-> FALSE, bReferences |-> FALSE,
     orders |-> {<<0, 2, 1>>}],
    [codec |-> "HEVC", start |-> 0, sps |-> Cut(HevcSets(1), <<1, 0, 0, 2>>), pps |-> HevcPPS,
     size |-> Size(30, 28, 1), unreadable |-> FALSE, bReferences |-> FALSE,
     orders |-> Orders(2) \cup {<<0, 2, 1>>, <<2, 0, 1>>, <<0, 4, 2, 1, 3>>, <<4, 2, 1, 0, 3, 8, 6, 5, 7>>}],
    [codec |-> "HEVC", start |-> 0, sps |-> Cut(HevcSets(2), <<>>), pps |-> HevcPPS,
     size |-> Size(32, 32, 2), unreadable |-> TRUE, bReferences |-> TRUE,
     orders |-> {<<0, 2, 1>>, <<2, 0, 1>>}]>>

(* Groups at whose end the count is not at the next picture. *)
ShortGroups ==
  <<[codec |-> "AVC", start |-> 0, sps |-> Cut(AvcSets(100, 1, 0), <<>>), pps |-> AvcPPS,
     size |-> Size(32, 32, 1), unreadable |-> FALSE, bReferences |-> FALSE,
     orders |-> {LowDelay(2), LowDelay(3)}]>>
=============================================================================
