-------------------------- MODULE BaseStreamProofs --------------------------
(***************************************************************************)
(* What the proofs about the two readers of a base stream share: what the  *)
(* parsers of base NAL units (AvcParser, HevcParser, and the loop of       *)
(* BaseStream over an access unit) make of the units that a conforming     *)
(* encoder sends, which pictures were read, and that every picture of a    *)
(* conforming stream gets the count that is due to it.                     *)
(***************************************************************************)
EXTENDS BaseStream, DataLemmas

-----------------------------------------------------------------------------
(* Counts.                                                                 *)

(* Both parsers find the high part of a count alike. *)
CountMsb(lsb, prev, max) == HEVC!PicOrderCntMsb(lsb, prev, max)

LEMMA CountMsbOfAvc ==
  \A lsb, prev, max : AVC!PicOrderCntMsb(lsb, prev, max) = CountMsb(lsb, prev, max)
  BY DEF CountMsb, AVC!PicOrderCntMsb, HEVC!PicOrderCntMsb, AVC!Wrapped, HEVC!Wrapped

(* The high part of a count is found from one less than half the range of  *)
(* the low part away.                                                      *)
LEMMA MsbOfCount ==
  ASSUME Word \in Nat \ {0},
         NEW m \in Nat \ {0}, NEW a \in Nat, NEW c \in Nat, c < Word,
         -(m \div 2) < c - a, c - a < m \div 2,
         NEW prev, prev.msb = a - (a % m), prev.lsb = a % m
  PROVE  CountMsb(c % m, prev, m) = c - (c % m)
  <1>1a. PICK p \in Nat : p = c \div m
    BY DivMod
  <1>1b. PICK x \in 0 .. m - 1 : x = c % m
    BY DivMod
  <1>1. x = c % m /\ c = m * p + x
    BY <1>1a, <1>1b, DivMod
  <1>2a. PICK q \in Nat : q = a \div m
    BY DivMod
  <1>2b. PICK y \in 0 .. m - 1 : y = a % m
    BY DivMod
  <1>2. y = a % m /\ a = m * q + y
    BY <1>2a, <1>2b, DivMod
  <1>3. PICK h \in Nat : h = m \div 2 /\ 2 * h <= m /\ m <= 2 * h + 1
    OBVIOUS
  <1>4. PICK u \in Nat, v \in Nat : u = m * p /\ v = m * q
    OBVIOUS
  <1>5. p < q => u + m <= v
    BY <1>4, Apart
  <1>6. q < p => v + m <= u
    BY <1>4, Apart
  <1>7. p = q => u = v
    BY <1>4
  <1>8. q + 1 < p => v + m + m <= u
    <2>1. q + 1 < p => m * (q + 1) + m <= m * p
      BY Apart
    <2>2. m * (q + 1) = v + m
      BY <1>4
    <2> QED
      BY <2>1, <2>2, <1>4
  <1>9. p + 1 < q => u + m + m <= v
    <2>1. p + 1 < q => m * (p + 1) + m <= m * q
      BY Apart
    <2>2. m * (p + 1) = u + m
      BY <1>4
    <2> QED
      BY <2>1, <2>2, <1>4
  <1>10. p = q + 1 => u = v + m
    BY <1>4
  <1>11. q = p + 1 => v = u + m
    BY <1>4
  <1>12. c = u + x /\ a = v + y /\ prev.msb = v /\ prev.lsb = y
    BY <1>1, <1>2, <1>4
  <1>13. -h < c - a /\ c - a < h
    BY <1>3
  <1>14. CASE p = q
    <2>1. ~(x < y /\ y - x >= h) /\ ~(x > y /\ x - y > h)
      BY <1>7, <1>12, <1>13, <1>14
    <2> QED
      BY <1>1, <1>3, <1>7, <1>12, <1>14, <2>1 DEF CountMsb, HEVC!PicOrderCntMsb
  <1>15. CASE p = q + 1
    <2>1. x < y /\ y - x >= h
      BY <1>3, <1>10, <1>12, <1>13, <1>15
    <2>2. v + m = u /\ u \in 0 .. Word - 1
      BY <1>10, <1>12, <1>15
    <2>3. u % Word = u
      BY <2>2
    <2> QED
      BY <1>1, <1>3, <1>12, <2>1, <2>2, <2>3 DEF CountMsb, HEVC!PicOrderCntMsb, HEVC!Wrapped
  <1>16. CASE q = p + 1
    <2>1. x > y /\ x - y > h
      BY <1>3, <1>11, <1>12, <1>13, <1>16
    <2>2. v - m = u /\ u \in 0 .. Word - 1
      BY <1>11, <1>12, <1>16
    <2>3. u % Word = u
      BY <2>2
    <2> QED
      BY <1>1, <1>3, <1>12, <2>1, <2>2, <2>3 DEF CountMsb, HEVC!PicOrderCntMsb, HEVC!Wrapped
  <1>17. ~(q + 1 < p) /\ ~(p + 1 < q)
    BY <1>3, <1>8, <1>9, <1>12, <1>13
  <1> QED
    BY <1>14, <1>15, <1>16, <1>17

(* The low part of a count. *)
LEMMA LowPart ==
  ASSUME NEW a \in Nat, NEW b \in Nat, NEW m \in Nat \ {0}
  PROVE  (a + b) % m = ((a % m) + b) % m
  <1>1. PICK q \in Nat : q = a \div m
    BY DivMod
  <1>2. PICK x \in 0 .. m - 1 : x = a % m
    BY DivMod
  <1>3. a = m * q + x
    BY <1>1, <1>2, DivMod
  <1>4. PICK r \in Nat : r = (x + b) \div m
    BY DivMod
  <1>5. PICK y \in 0 .. m - 1 : y = (x + b) % m
    BY DivMod
  <1>6. x + b = m * r + y
    BY <1>4, <1>5, DivMod
  <1>7. a + b = m * (q + r) + y
    BY <1>3, <1>6
  <1>8. PICK s \in Nat : s = (a + b) \div m
    BY DivMod
  <1>9. PICK z \in 0 .. m - 1 : z = (a + b) % m
    BY DivMod
  <1>10. a + b = m * s + z
    BY <1>8, <1>9, DivMod
  <1>11. ~(s < q + r) /\ ~(q + r < s)
    <2>1. PICK u \in Nat, v \in Nat : u = m * s /\ v = m * (q + r)
      OBVIOUS
    <2>2. s < q + r => u + m <= v
      BY <2>1, Apart
    <2>3. q + r < s => v + m <= u
      BY <2>1, Apart
    <2>4. u + z = v + y
      BY <1>7, <1>10, <2>1
    <2> QED
      BY <2>2, <2>3, <2>4
  <1>12. s = q + r
    BY <1>11
  <1>13. z = y
    BY <1>7, <1>10, <1>12
  <1> QED
    BY <1>2, <1>5, <1>9, <1>13

(* The number of the next frame. *)
LEMMA NextLow ==
  ASSUME NEW n \in Nat, NEW m \in Nat \ {0}
  PROVE  (n + 1) % m = IF n % m = m - 1 THEN 0 ELSE (n % m) + 1
  <1>1. (n + 1) % m = ((n % m) + 1) % m
    BY LowPart
  <1>2. PICK x \in 0 .. m - 1 : x = n % m
    BY DivMod
  <1>3. (x + 1) % m = IF x = m - 1 THEN 0 ELSE x + 1
    <2>1. CASE x = m - 1
      <3>1. m % m = 0
        <4>1. m % m \in 0 .. m - 1 /\ m \div m \in Nat /\ m = m * (m \div m) + (m % m)
          BY DivMod
        <4>2. PICK r \in 0 .. m - 1, k \in Nat : r = m % m /\ k = m \div m
          BY <4>1
        <4>3. m * 1 = m * k + r
          BY <4>1, <4>2
        <4>4. ~(k < 1)
          <5>1. k < 1 => m * k = 0
            OBVIOUS
          <5> QED
            BY <4>2, <4>3, <5>1
        <4>5. ~(1 < k)
          <5>1. PICK u \in Nat : u = m * k
            OBVIOUS
          <5>2. 1 < k => m * 1 + m <= m * k
            BY Apart
          <5> QED
            BY <4>2, <4>3, <5>1, <5>2
        <4>6. k = 1
          BY <4>4, <4>5
        <4> QED
          BY <4>2, <4>3, <4>6
      <3> QED
        BY <2>1, <3>1
    <2>2. CASE x # m - 1
      BY <2>2
    <2> QED
      BY <2>1, <2>2
  <1> QED
    BY <1>1, <1>2, <1>3

LEMMA Distance ==
  \A h, f, n, x, y \in Nat : h + (f + n + x) - (h + f + y) = n + x - y
  OBVIOUS

-----------------------------------------------------------------------------
(* The parser of HEVC.                                                     *)

(* A table with another entry. *)
LEMMA Updated ==
  ASSUME NEW A, NEW B, NEW f \in [A -> B], NEW a \in A, NEW b \in B
  PROVE  [f EXCEPT ![a] = b] \in [A -> B] /\ [f EXCEPT ![a] = b][a] = b
  OBVIOUS

(* What no NAL unit but parameter sets and slices touches. *)
HevcKept(d, p) ==
  /\ p.thrown = d.thrown /\ p.firstPicture = d.firstPicture
  /\ p.sps = d.sps /\ p.activeSPS = d.activeSPS /\ p.pps = d.pps
  /\ p.slice = d.slice /\ p.prevTid0 = d.prevTid0

LEMMA HevcNewTyped == HEVC!New \in HEVC!Parsers /\ ~HEVC!New.thrown
  <1>1. HEVC!SPS \in HEVC!SPSs
    BY DEF HEVC!SPS, HEVC!SPSs
  <1>2. HEVC!PPS \in [sps : Nat, dependentSlices : BOOLEAN]
    BY DEF HEVC!PPS
  <1>3. 0 \in 0 .. Word - 1 /\ HEVC!NoSPS \in HEVC!NoSPS .. MaxSPSCount - 1
    BY BoundsAssumption DEF HEVC!NoSPS
  <1> QED
    BY <1>1, <1>2, <1>3 DEF HEVC!New, HEVC!Parsers, HEVC!SliceTypes

LEMMA HevcStarted ==
  ASSUME NEW d \in HEVC!Parsers, NEW nal, nal.type \in Nat, nal.layer = 0
  PROVE  /\ HEVC!Started(d, nal) \in HEVC!Parsers
         /\ HEVC!Started(d, nal).nalType = nal.type
         /\ HEVC!Started(d, nal).temporalId = 0
         /\ HevcKept(d, HEVC!Started(d, nal))
  <1>1. (nal.layer % 32) \div 4 = 0
    OBVIOUS
  <1>2. HEVC!Started(d, nal) = [d EXCEPT !.nalType = nal.type, !.temporalId = 0]
    BY <1>1 DEF HEVC!Started
  <1>3. [d EXCEPT !.nalType = nal.type, !.temporalId = 0] \in HEVC!Parsers
    BY DEF HEVC!Parsers
  <1>4. /\ [d EXCEPT !.nalType = nal.type, !.temporalId = 0].nalType = nal.type
        /\ [d EXCEPT !.nalType = nal.type, !.temporalId = 0].temporalId = 0
        /\ HevcKept(d, [d EXCEPT !.nalType = nal.type, !.temporalId = 0])
    BY DEF HEVC!Parsers, HevcKept
  <1> QED
    BY <1>2, <1>3, <1>4

(* Access unit delimiters and video parameter sets. *)
LEMMA HevcOther ==
  ASSUME NEW d \in HEVC!Parsers, NEW nal, nal.type \in {HEVC!AUD, HEVC!VPS}, nal.layer = 0,
         NEW p, p = HEVC!ParseNalUnit(d, nal)
  PROVE  p \in HEVC!Parsers /\ HevcKept(d, p) /\ HEVC!NalClass(p.nalType) # "Slice"
  <1>1. nal.type \in Nat /\ HEVC!NalClass(nal.type) = "Other"
    BY DEF HEVC!AUD, HEVC!VPS, HEVC!NalClass, HEVC!EndOfSequence
  <1>2. p = HEVC!Started(d, nal)
    BY <1>1 DEF HEVC!ParseNalUnit
  <1> QED
    BY <1>1, <1>2, HevcStarted

LEMMA HevcSPSRead ==
  ASSUME NEW d \in HEVC!Parsers, NEW id \in Nat, NEW s \in HEVC!SPSSyntax,
         NEW p, p = HEVC!ParseNalUnit(d, [type |-> 33, layer |-> 0, id |-> id, syntax |-> s])
  PROVE  /\ p \in HEVC!Parsers /\ HEVC!NalClass(p.nalType) # "Slice"
         /\ IF id >= MaxSPSCount THEN p.thrown
            ELSE /\ p.thrown = d.thrown /\ p.firstPicture = d.firstPicture
                 /\ p.activeSPS = id /\ p.sps[id].log2MaxLsb = s.log2MaxLsb
                 /\ p.pps = d.pps /\ p.prevTid0 = d.prevTid0
  <1> DEFINE nal == [type |-> 33, layer |-> 0, id |-> id, syntax |-> s]
  <1>1. PICK q \in HEVC!Parsers : q = HEVC!Started(d, nal) /\ q.nalType = 33 /\ HevcKept(d, q)
    BY HevcStarted
  <1>2. HEVC!NalClass(33) = "SPS"
    BY DEF HEVC!NalClass
  <1>3. p = HEVC!ParseSPS(q, id, s)
    BY <1>1, <1>2 DEF HEVC!ParseNalUnit
  <1>4. CASE id >= MaxSPSCount
    <2>1. p = [q EXCEPT !.thrown = TRUE]
      BY <1>3, <1>4 DEF HEVC!ParseSPS, HEVC!Thrown
    <2> QED
      BY <2>1, <1>1, <1>2, <1>4 DEF HEVC!Parsers
  <1>5. CASE ~(id >= MaxSPSCount)
    <2>1. id \in 0 .. MaxSPSCount - 1
      BY <1>5, BoundsAssumption
    <2> DEFINE old == q.sps[id]
               new == [chroma     |-> s.chroma,
                       separate   |-> IF s.chroma = 3 THEN s.separate ELSE old.separate,
                       width      |-> s.width,
                       height     |-> s.height,
                       window     |-> IF s.cropping THEN s.crop ELSE old.window,
                       depth      |-> s.depth,
                       log2MaxLsb |-> s.log2MaxLsb]
    <2>2. old \in HEVC!SPSs
      BY <2>1 DEF HEVC!Parsers
    <2>3. new \in HEVC!SPSs /\ new.log2MaxLsb = s.log2MaxLsb
      BY <2>2 DEF HEVC!SPSs, HEVC!SPSSyntax
    <2>4. p = [q EXCEPT !.activeSPS = id, !.sps[id] = new]
      BY <1>3, <1>5 DEF HEVC!ParseSPS
    <2> HIDE DEF new
    <2>5. q.sps \in [0 .. MaxSPSCount - 1 -> HEVC!SPSs]
      BY DEF HEVC!Parsers
    <2>6. PICK sets : sets = [q.sps EXCEPT ![id] = new]
      OBVIOUS
    <2>9. sets \in [0 .. MaxSPSCount - 1 -> HEVC!SPSs] /\ sets[id] = new
      BY <2>1, <2>3, <2>5, <2>6, Updated
    <2>7. p = [q EXCEPT !.activeSPS = id, !.sps = sets]
      BY <2>4, <2>6
    <2>8. id \in HEVC!NoSPS .. MaxSPSCount - 1
      BY <2>1 DEF HEVC!NoSPS
    <2> QED
      BY ZenonT(30), <2>3, <2>9, <2>7, <2>8, <1>1, <1>2, <1>5 DEF HEVC!Parsers, HevcKept
  <1> QED
    BY <1>4, <1>5

LEMMA HevcPPSRead ==
  ASSUME NEW d \in HEVC!Parsers, NEW id \in Nat, NEW s \in HEVC!PPSSyntax,
         NEW p, p = HEVC!ParseNalUnit(d, [type |-> 34, layer |-> 0, id |-> id, sps |-> id, syntax |-> s])
  PROVE  /\ p \in HEVC!Parsers /\ HEVC!NalClass(p.nalType) # "Slice"
         /\ \/ p.thrown
            \/ /\ id < MaxPPSCount
               /\ p.thrown = d.thrown /\ p.firstPicture = d.firstPicture
               /\ p.activeSPS = d.activeSPS /\ p.sps = d.sps
               /\ ~p.pps[id].dependentSlices /\ p.prevTid0 = d.prevTid0
  <1> DEFINE nal == [type |-> 34, layer |-> 0, id |-> id, sps |-> id, syntax |-> s]
  <1>1. PICK q \in HEVC!Parsers : q = HEVC!Started(d, nal) /\ q.nalType = 34 /\ HevcKept(d, q)
    BY HevcStarted
  <1>2. HEVC!NalClass(34) = "PPS"
    BY DEF HEVC!NalClass, HEVC!EndOfSequence
  <1>3. p = HEVC!ParsePPS(q, id, id, s)
    BY <1>1, <1>2 DEF HEVC!ParseNalUnit
  <1>4. CASE id >= MaxPPSCount \/ s.tiles
    <2>1. p = [q EXCEPT !.thrown = TRUE]
      BY <1>3, <1>4 DEF HEVC!ParsePPS, HEVC!Thrown
    <2> QED
      BY <2>1, <1>1, <1>2 DEF HEVC!Parsers
  <1>5. CASE ~(id >= MaxPPSCount \/ s.tiles)
    <2>1. id \in 0 .. MaxPPSCount - 1 /\ id < MaxPPSCount
      BY <1>5, BoundsAssumption
    <2> DEFINE new == [sps |-> id, dependentSlices |-> s.dependentSlices]
               Sets == [sps : Nat, dependentSlices : BOOLEAN]
    <2>2. new \in Sets /\ ~new.dependentSlices
      BY DEF HEVC!PPSSyntax
    <2>3. p = [q EXCEPT !.pps[id] = new]
      BY <1>3, <1>5 DEF HEVC!ParsePPS
    <2>4. q.pps \in [0 .. MaxPPSCount - 1 -> Sets]
      BY DEF HEVC!Parsers
    <2> HIDE DEF new, Sets
    <2>5. PICK sets : sets = [q.pps EXCEPT ![id] = new]
      OBVIOUS
    <2>7. sets \in [0 .. MaxPPSCount - 1 -> Sets] /\ sets[id] = new
      BY <2>1, <2>2, <2>4, <2>5, Updated
    <2>6. p = [q EXCEPT !.pps = sets]
      BY <2>3, <2>5
    <2> QED
      BY ZenonT(30), <2>1, <2>2, <2>7, <2>6, <1>1, <1>2 DEF HEVC!Parsers, HevcKept, Sets
  <1> QED
    BY <1>4, <1>5

(* The high part fits its word. *)
LEMMA MsbTyped ==
  ASSUME Word \in Nat \ {0}, NEW lsb \in Nat, NEW max \in Int,
         NEW prev \in [msb : 0 .. Word - 1, lsb : Nat]
  PROVE  CountMsb(lsb, prev, max) \in 0 .. Word - 1
  <1>1. prev.msb \in Int /\ prev.msb \in 0 .. Word - 1
    OBVIOUS
  <1>2. /\ (prev.msb + max) % Word \in 0 .. Word - 1
        /\ (prev.msb - max) % Word \in 0 .. Word - 1
    BY <1>1
  <1> QED
    BY <1>1, <1>2 DEF CountMsb, HEVC!PicOrderCntMsb, HEVC!Wrapped

(* A slice of the one that the picture has, once its sets were read.       *)
HevcSliceUnit(type, s) == [type |-> type, layer |-> 0, syntax |-> s]

HevcSliceRead(d, type, s, p) ==
  LET lsb  == IF HEVC!isIdr(type) THEN 0 ELSE s.lsb
      prev == IF HEVC!isIdr(type) THEN [msb |-> 0, lsb |-> 0] ELSE d.prevTid0
      msb  == IF HEVC!isIrap(type) /\ (HEVC!isIdr(type) \/ HEVC!isBla(type) \/ d.firstPicture) THEN 0
              ELSE CountMsb(lsb, prev, 2^(d.sps[d.activeSPS].log2MaxLsb))
      anchor == ~HEVC!isRasl(type) /\ ~HEVC!isRadl(type)
                  /\ ~HEVC!isSubLayerNonReferencePicture(type)
  IN  /\ ~p.thrown /\ ~p.firstPicture
      /\ p.sps = d.sps /\ p.activeSPS = d.activeSPS /\ p.pps = d.pps
      /\ p.slice.type = s.type
      /\ p.poc = (msb + lsb) % Word
      /\ p.prevTid0 = IF anchor THEN [msb |-> msb, lsb |-> lsb] ELSE prev

LEMMA HevcSliceReads ==
  ASSUME NEW d \in HEVC!Parsers, ~d.thrown, d.activeSPS \in 0 .. MaxSPSCount - 1,
         NEW type \in Nat, HEVC!NalClass(type) = "Slice",
         NEW s, s.firstInPicture, ~d.pps[s.pps].dependentSlices,
         s.type \in HEVC!SliceTypes, s.lsb \in Nat,
         NEW p, p = HEVC!ParseNalUnit(d, HevcSliceUnit(type, s))
  PROVE  p \in HEVC!Parsers /\ p.nalType = type /\ HevcSliceRead(d, type, s, p)
  <1> DEFINE nal == HevcSliceUnit(type, s)
             idr == HEVC!isIdr(type)
             lsb  == IF idr THEN 0 ELSE s.lsb
             prev == IF idr THEN [msb |-> 0, lsb |-> 0] ELSE d.prevTid0
             max == 2^(d.sps[d.activeSPS].log2MaxLsb)
             msb  == IF HEVC!isIrap(type) /\ (idr \/ HEVC!isBla(type) \/ d.firstPicture) THEN 0
                     ELSE CountMsb(lsb, prev, max)
             anchor == ~HEVC!isRasl(type) /\ ~HEVC!isRadl(type)
                         /\ ~HEVC!isSubLayerNonReferencePicture(type)
  <1>0. nal.type = type /\ nal.layer = 0 /\ nal.syntax = s
    BY DEF HevcSliceUnit
  <1>1. PICK d1 \in HEVC!Parsers : /\ d1 = HEVC!Started(d, nal)
                                   /\ d1.nalType = type /\ d1.temporalId = 0 /\ HevcKept(d, d1)
    BY <1>0, HevcStarted
  <1>2. PICK old \in Nat : old = d1.slice.lsb
    BY DEF HEVC!Parsers
  <1> DEFINE read == [type |-> s.type, lsb |-> IF idr THEN old ELSE s.lsb]
  <1>3. PICK d2 : d2 = [d1 EXCEPT !.slice = read]
    OBVIOUS
  <1>4. d2 = HEVC!ParseSliceHeader(d1, s)
    BY <1>1, <1>2, <1>3 DEF HEVC!ParseSliceHeader, HevcKept
  <1>5. read \in [type : HEVC!SliceTypes, lsb : Nat] /\ read.type = s.type
    BY <1>2
  <1> HIDE DEF read
  <1>6. /\ d2 \in HEVC!Parsers /\ ~d2.thrown /\ d2.nalType = type /\ d2.temporalId = 0
        /\ d2.firstPicture = d.firstPicture
        /\ d2.sps = d.sps /\ d2.activeSPS = d.activeSPS /\ d2.pps = d.pps
        /\ d2.slice = read /\ d2.prevTid0 = d.prevTid0
    BY SMTT(20), <1>1, <1>3, <1>5 DEF HEVC!Parsers, HevcKept
  <1>7. p = HEVC!HandlePictureOrderCount[HEVC!RestartedAtIdr(HEVC!HandleSliceHeader[d2])]
    BY <1>0, <1>1, <1>4, <1>6 DEF HEVC!ParseNalUnit, HEVC!AfterSlice
  <1>8. PICK nr \in BOOLEAN : nr = (idr \/ HEVC!isBla(type) \/ d.firstPicture)
    BY <1>6 DEF HEVC!isIdr
  <1>9. PICK d3 : d3 = [d2 EXCEPT !.noRaslOutput = nr, !.firstPicture = FALSE]
    OBVIOUS
  <1>10. d3 = HEVC!HandleSliceHeader[d2]
    BY <1>6, <1>8, <1>9 DEF HEVC!HandleSliceHeader
  <1>11. /\ d3 \in HEVC!Parsers /\ ~d3.thrown /\ d3.nalType = type /\ d3.temporalId = 0
         /\ ~d3.firstPicture /\ d3.noRaslOutput = nr
         /\ d3.sps = d.sps /\ d3.activeSPS = d.activeSPS /\ d3.pps = d.pps
         /\ d3.slice = read /\ d3.prevTid0 = d.prevTid0
    BY ZenonT(30), <1>6, <1>9 DEF HEVC!Parsers
  <1>12. PICK d4 : d4 = HEVC!RestartedAtIdr(d3)
    OBVIOUS
  <1>13. /\ d4 \in HEVC!Parsers /\ ~d4.thrown /\ d4.nalType = type /\ d4.temporalId = 0
         /\ ~d4.firstPicture /\ d4.noRaslOutput = nr
         /\ d4.sps = d.sps /\ d4.activeSPS = d.activeSPS /\ d4.pps = d.pps
         /\ d4.slice.type = s.type /\ d4.slice.lsb = lsb /\ d4.prevTid0 = prev
    <2>1. CASE ~idr
      BY <2>1, <1>5, <1>11, <1>12 DEF HEVC!RestartedAtIdr, read
    <2>2. CASE idr
      <3>1. PICK zero : zero = [msb |-> 0, lsb |-> 0]
        OBVIOUS
      <3>2. zero \in [msb : 0 .. Word - 1, lsb : Nat]
        BY <3>1, BoundsAssumption
      <3>3. d4 = [d3 EXCEPT !.prevTid0 = zero, !.slice.lsb = 0]
        BY <2>2, <3>1, <1>11, <1>12 DEF HEVC!RestartedAtIdr
      <3>4. PICK sl : sl = [read EXCEPT !.lsb = 0]
        OBVIOUS
      <3>5. sl \in [type : HEVC!SliceTypes, lsb : Nat] /\ sl.type = s.type /\ sl.lsb = 0
        BY <1>5, <3>4
      <3>6. d4 = [d3 EXCEPT !.prevTid0 = zero, !.slice = sl]
        BY <3>3, <3>4, <1>11
      <3> QED
        BY <2>2, <3>1, <3>2, <3>5, <3>6, <1>11 DEF HEVC!Parsers
    <2> QED
      BY <2>1, <2>2
  <1>14. prev \in [msb : 0 .. Word - 1, lsb : Nat] /\ lsb \in Nat /\ max \in Int
    <2>1. d.sps[d.activeSPS].log2MaxLsb \in Nat
      BY DEF HEVC!Parsers, HEVC!SPSs
    <2>2. max \in Int
      BY <2>1
    <2>3. d.prevTid0 \in [msb : 0 .. Word - 1, lsb : Nat]
      BY DEF HEVC!Parsers
    <2> QED
      BY <2>2, <2>3, BoundsAssumption
  <1>15. msb \in 0 .. Word - 1
    <2> HIDE DEF prev, lsb, max
    <2>1. CountMsb(lsb, prev, max) \in 0 .. Word - 1
      BY <1>14, BoundsAssumption, MsbTyped
    <2> QED
      BY <2>1, BoundsAssumption
  <1>16. HEVC!Msb(d4) = msb
    BY <1>8, <1>13 DEF HEVC!Msb, CountMsb
  <1>17. HEVC!IsAnchor(d4) <=> anchor
    BY <1>13 DEF HEVC!IsAnchor
  <1> DEFINE after == IF anchor THEN [msb |-> msb, lsb |-> lsb] ELSE prev
             poc == (msb + lsb) % Word
  <1>18. p = [d4 EXCEPT !.poc = poc, !.prevTid0 = after]
    <2>1. p = HEVC!HandlePictureOrderCount[d4]
      BY <1>7, <1>10, <1>12
    <2>2. p = [d4 EXCEPT !.poc = HEVC!Wrapped(HEVC!Msb(d4) + d4.slice.lsb),
                         !.prevTid0 = IF HEVC!IsAnchor(d4)
                                        THEN [msb |-> HEVC!Msb(d4), lsb |-> d4.slice.lsb] ELSE @]
      BY <2>1, <1>13 DEF HEVC!HandlePictureOrderCount
    <2> HIDE DEF msb, lsb, prev, anchor
    <2> QED
      BY <2>2, <1>13, <1>16, <1>17 DEF HEVC!Wrapped
  <1>19. after \in [msb : 0 .. Word - 1, lsb : Nat] /\ poc \in 0 .. Word - 1
    <2> HIDE DEF msb, lsb, prev, anchor
    <2>1. msb + lsb \in Int
      BY <1>14, <1>15
    <2>2. poc \in 0 .. Word - 1
      BY <2>1, BoundsAssumption
    <2> QED
      BY <2>2, <1>14, <1>15
  <1>20. /\ p \in HEVC!Parsers /\ ~p.thrown /\ ~p.firstPicture /\ p.nalType = type
         /\ p.sps = d.sps /\ p.activeSPS = d.activeSPS /\ p.pps = d.pps
         /\ p.slice.type = s.type
         /\ p.poc = poc /\ p.prevTid0 = after
    <2> HIDE DEF after, poc
    <2> QED
      BY ZenonT(30), <1>13, <1>18, <1>19 DEF HEVC!Parsers
  <1> QED
    BY <1>20 DEF HevcSliceRead

-----------------------------------------------------------------------------
(* The parser of AVC.                                                      *)

AvcKept(d, p) ==
  /\ p.thrown = d.thrown /\ p.sps = d.sps /\ p.activeSPS = d.activeSPS
  /\ p.pps = d.pps /\ p.slice = d.slice /\ p.refPic = d.refPic

AvcPPSs == [sps : Nat, bottomOrder : BOOLEAN]
AvcSlices ==
  [type : AVC!SliceTypes, idr : BOOLEAN, frameNum : Nat, fieldPic : BOOLEAN,
   bottom : BOOLEAN, lsb : Nat, deltaBottom : Int, mmco5 : BOOLEAN]
AvcRefs ==
  [msb : 0 .. Word - 1, lsb : Nat, top : 0 .. Word - 1, bottom : BOOLEAN,
   mmco5 : BOOLEAN, frameNum : Nat, frameNumOffset : Nat]

LEMMA AvcParts ==
  AVC!Parsers =
    [nalType : Nat, refIdc : Nat, thrown : BOOLEAN, poc : 0 .. Word - 1,
     sps : [0 .. MaxSPSCount - 1 -> AVC!SPSs], activeSPS : AVC!NoSPS .. MaxSPSCount - 1,
     pps : [0 .. MaxPPSCount - 1 -> AvcPPSs], slice : AvcSlices, refPic : AvcRefs]
  BY DEF AVC!Parsers, AvcPPSs, AvcSlices, AvcRefs

LEMMA AvcNewTyped == AVC!New \in AVC!Parsers /\ ~AVC!New.thrown
  <1>1. AVC!SPS \in AVC!SPSs
    BY DEF AVC!SPS, AVC!SPSs
  <1>2. AVC!PPS \in AvcPPSs
    BY DEF AVC!PPS, AvcPPSs
  <1>3. 0 \in 0 .. Word - 1 /\ AVC!NoSPS \in AVC!NoSPS .. MaxSPSCount - 1
    BY BoundsAssumption DEF AVC!NoSPS
  <1>4. AVC!New.slice \in AvcSlices
    BY DEF AVC!New, AvcSlices, AVC!SliceTypes
  <1>5. AVC!New.refPic \in AvcRefs
    BY <1>3 DEF AVC!New, AvcRefs
  <1> QED
    BY <1>1, <1>2, <1>3, <1>4, <1>5, AvcParts DEF AVC!New

LEMMA AvcStarted ==
  ASSUME NEW d \in AVC!Parsers, NEW nal, nal.type \in Nat, nal.ref \in Nat
  PROVE  /\ AVC!Started(d, nal) \in AVC!Parsers
         /\ AVC!Started(d, nal).nalType = nal.type
         /\ AVC!Started(d, nal).refIdc = nal.ref
         /\ AvcKept(d, AVC!Started(d, nal))
  <1>1. AVC!Started(d, nal) = [d EXCEPT !.nalType = nal.type, !.refIdc = nal.ref]
    BY DEF AVC!Started
  <1>2. [d EXCEPT !.nalType = nal.type, !.refIdc = nal.ref] \in AVC!Parsers
    BY AvcParts
  <1>3. /\ [d EXCEPT !.nalType = nal.type, !.refIdc = nal.ref].nalType = nal.type
        /\ [d EXCEPT !.nalType = nal.type, !.refIdc = nal.ref].refIdc = nal.ref
        /\ AvcKept(d, [d EXCEPT !.nalType = nal.type, !.refIdc = nal.ref])
    BY AvcParts DEF AvcKept
  <1> QED
    BY <1>1, <1>2, <1>3

(* An access unit delimiter. *)
LEMMA AvcOther ==
  ASSUME NEW d \in AVC!Parsers, NEW nal, nal.type = AVC!AUD, nal.ref \in Nat,
         NEW p, p = AVC!ParseNalUnit(d, nal)
  PROVE  p \in AVC!Parsers /\ AvcKept(d, p) /\ AVC!NalClass(p.nalType) # "Slice"
  <1>1. nal.type \in Nat /\ AVC!NalClass(nal.type) = "Other"
    BY DEF AVC!AUD, AVC!NalClass
  <1>2. p = AVC!Started(d, nal)
    BY <1>1 DEF AVC!ParseNalUnit
  <1> QED
    BY <1>1, <1>2, AvcStarted

LEMMA AvcSPSRead ==
  ASSUME NEW d \in AVC!Parsers, NEW id \in Nat, NEW s \in AVC!SPSSyntax,
         NEW p, p = AVC!ParseNalUnit(d, [type |-> 7, ref |-> 3, id |-> id, syntax |-> s])
  PROVE  /\ p \in AVC!Parsers /\ AVC!NalClass(p.nalType) # "Slice"
         /\ \/ p.thrown
            \/ /\ id < MaxSPSCount
               /\ p.thrown = d.thrown /\ p.activeSPS = id
               /\ p.sps[id].pocType = s.pocType
               /\ p.sps[id].log2MaxFrameNum = s.log2MaxFrameNum
               /\ s.pocType = 0 => p.sps[id].log2MaxLsb = s.log2MaxLsb
               /\ id # 0 => p.sps[0] = d.sps[0]
               /\ p.pps = d.pps /\ p.slice = d.slice /\ p.refPic = d.refPic
  <1> DEFINE nal == [type |-> 7, ref |-> 3, id |-> id, syntax |-> s]
  <1>1. PICK q \in AVC!Parsers : q = AVC!Started(d, nal) /\ q.nalType = 7 /\ AvcKept(d, q)
    BY AvcStarted
  <1>2. AVC!NalClass(7) = "SPS"
    BY DEF AVC!NalClass
  <1>3. p = AVC!ParseSPS(q, id, s)
    BY <1>1, <1>2 DEF AVC!ParseNalUnit
  <1>4. CASE id >= MaxSPSCount \/ s.reserved # 0
    <2>1. p = [q EXCEPT !.thrown = TRUE]
      BY <1>3, <1>4 DEF AVC!ParseSPS, AVC!Thrown
    <2> QED
      BY <2>1, <1>1, <1>2, AvcParts
  <1>5. CASE ~(id >= MaxSPSCount \/ s.reserved # 0)
    <2>1. id \in 0 .. MaxSPSCount - 1 /\ 0 \in 0 .. MaxSPSCount - 1 /\ id < MaxSPSCount
      BY <1>5, BoundsAssumption
    <2>2. PICK old \in AVC!SPSs : old = q.sps[id]
      BY <2>1, AvcParts
    <2>3. PICK new : new = AVC!SPSAfter(old, s)
      OBVIOUS
    <2>4. /\ new \in AVC!SPSs
          /\ new.pocType = s.pocType /\ new.log2MaxFrameNum = s.log2MaxFrameNum
          /\ s.pocType = 0 => new.log2MaxLsb = s.log2MaxLsb
      <3>1. /\ old.chroma \in Nat /\ old.separate \in BOOLEAN /\ old.chromaArray \in Nat
            /\ old.depth \in Nat /\ old.log2MaxLsb \in Nat /\ old.crop \in Seq(Nat)
        BY DEF AVC!SPSs
      <3>2. /\ s.chroma \in Nat /\ s.separate \in BOOLEAN
            /\ s.depth \in Nat /\ s.log2MaxLsb \in Nat /\ s.crop \in Seq(Nat)
            /\ s.log2MaxFrameNum \in Nat /\ s.pocType \in Nat /\ s.width \in Nat
            /\ s.height \in Nat /\ s.frameMbsOnly \in BOOLEAN
        BY DEF AVC!SPSSyntax
      <3> QED
        BY <2>3, <3>1, <3>2 DEF AVC!SPSAfter, AVC!SPSs
    <2>5. PICK sets : sets = [q.sps EXCEPT ![id] = new]
      OBVIOUS
    <2>6. /\ sets \in [0 .. MaxSPSCount - 1 -> AVC!SPSs] /\ sets[id] = new
          /\ id # 0 => sets[0] = q.sps[0]
      <3>1. q.sps \in [0 .. MaxSPSCount - 1 -> AVC!SPSs]
        BY AvcParts
      <3>2. id # 0 => sets[0] = q.sps[0]
        BY <2>1, <2>5, <3>1
      <3> QED
        BY <2>1, <2>4, <2>5, <3>1, <3>2, Updated
    <2>7. p = [q EXCEPT !.activeSPS = id, !.sps = sets]
      BY <1>3, <1>5, <2>2, <2>3, <2>5 DEF AVC!ParseSPS
    <2>8. id \in AVC!NoSPS .. MaxSPSCount - 1
      BY <2>1 DEF AVC!NoSPS
    <2>9. /\ p \in AVC!Parsers /\ p.nalType = 7
          /\ p.thrown = q.thrown /\ p.activeSPS = id /\ p.sps = sets
          /\ p.pps = q.pps /\ p.slice = q.slice /\ p.refPic = q.refPic
      BY <2>6, <2>7, <2>8, <1>1, AvcParts
    <2> QED
      BY <2>1, <2>4, <2>6, <2>9, <1>1, <1>2 DEF AvcKept
  <1> QED
    BY <1>4, <1>5

LEMMA AvcPPSRead ==
  ASSUME NEW d \in AVC!Parsers, NEW id \in Nat, NEW s \in AVC!PPSSyntax,
         NEW p, p = AVC!ParseNalUnit(d, [type |-> 8, ref |-> 3, id |-> id, sps |-> id, syntax |-> s])
  PROVE  /\ p \in AVC!Parsers /\ AVC!NalClass(p.nalType) # "Slice"
         /\ \/ p.thrown
            \/ /\ id < MaxPPSCount
               /\ p.thrown = d.thrown /\ p.activeSPS = d.activeSPS /\ p.sps = d.sps
               /\ p.pps[id].sps = id
               /\ p.slice = d.slice /\ p.refPic = d.refPic
  <1> DEFINE nal == [type |-> 8, ref |-> 3, id |-> id, sps |-> id, syntax |-> s]
  <1>1. PICK q \in AVC!Parsers : q = AVC!Started(d, nal) /\ q.nalType = 8 /\ AvcKept(d, q)
    BY AvcStarted
  <1>2. AVC!NalClass(8) = "PPS"
    BY DEF AVC!NalClass
  <1>3. p = AVC!ParsePPS(q, id, id, s)
    BY <1>1, <1>2 DEF AVC!ParseNalUnit
  <1> DEFINE Refused == id >= MaxPPSCount \/ (s.sliceGroups > 1 /\ s.mapType = 6)
  <1>4. CASE Refused
    <2>1. p = [q EXCEPT !.thrown = TRUE]
      BY <1>3, <1>4 DEF AVC!ParsePPS, AVC!Thrown
    <2> QED
      BY <2>1, <1>1, <1>2, AvcParts
  <1>5. CASE ~Refused
    <2>1. id \in 0 .. MaxPPSCount - 1 /\ id < MaxPPSCount
      BY <1>5, BoundsAssumption
    <2>2. PICK new : new = [sps |-> id, bottomOrder |-> s.bottomOrder]
      OBVIOUS
    <2>3. new \in AvcPPSs /\ new.sps = id
      BY <2>2 DEF AvcPPSs, AVC!PPSSyntax
    <2>4. PICK sets : sets = [q.pps EXCEPT ![id] = new]
      OBVIOUS
    <2>5. sets \in [0 .. MaxPPSCount - 1 -> AvcPPSs] /\ sets[id] = new
      <3>1. q.pps \in [0 .. MaxPPSCount - 1 -> AvcPPSs]
        BY AvcParts
      <3> QED
        BY <2>1, <2>3, <2>4, <3>1, Updated
    <2>6. p = [q EXCEPT !.pps = sets]
      BY <1>3, <1>5, <2>2, <2>4 DEF AVC!ParsePPS
    <2>7. /\ p \in AVC!Parsers /\ p.nalType = 8
          /\ p.thrown = q.thrown /\ p.activeSPS = q.activeSPS /\ p.sps = q.sps
          /\ p.pps = sets /\ p.slice = q.slice /\ p.refPic = q.refPic
      BY <2>5, <2>6, <1>1, AvcParts
    <2> QED
      BY <2>1, <2>3, <2>5, <2>7, <1>1, <1>2 DEF AvcKept
  <1> QED
    BY <1>4, <1>5

(* A slice of the one frame that the picture is, once its sets were read.  *)
AvcSliceUnit(type, ref, s) == [type |-> type, ref |-> ref, syntax |-> s]

FrameSlices ==
  [type : AVC!SliceTypes, pps : Nat, fieldPic : {FALSE}, bottom : {FALSE},
   frameNum : Nat, lsb : Nat, deltaBottom : {1}, mmco5 : {FALSE}]

(* What holds of a parser that has read nothing but frames. *)
FramesOnly(d) ==
  /\ ~d.slice.fieldPic /\ ~d.slice.mmco5 /\ d.slice.deltaBottom \in {0, 1}
  /\ ~d.refPic.mmco5

CountedByLsb(d, type, ref, s, p) ==
  LET prev == IF type = AVC!CodedSlice_IDR THEN [msb |-> 0, lsb |-> 0]
              ELSE [msb |-> d.refPic.msb, lsb |-> d.refPic.lsb]
      msb  == CountMsb(s.lsb, prev, 2^(d.sps[d.activeSPS].log2MaxLsb))
      top  == (msb + s.lsb) % Word
  IN  /\ \E delta \in {0, 1} : p.poc = AVC!FrameCount(top, (top + delta) % Word)
      /\ IF ref = 0 THEN p.refPic = d.refPic ELSE p.refPic.msb = msb /\ p.refPic.lsb = s.lsb

CountedByFrameNum(d, type, s, p) ==
  LET offset == IF type = AVC!CodedSlice_IDR THEN 0
                ELSE IF d.refPic.frameNum > s.frameNum
                  THEN d.refPic.frameNumOffset + 2^(d.sps[0].log2MaxFrameNum)
                ELSE d.refPic.frameNumOffset
  IN  /\ p.poc = (IF type = AVC!CodedSlice_IDR THEN 0 ELSE 2 * (offset + s.frameNum)) % Word
      /\ p.refPic.frameNum = s.frameNum /\ p.refPic.frameNumOffset = offset

LEMMA AvcHeaderReads ==
  ASSUME NEW d \in AVC!Parsers, ~d.thrown, FramesOnly(d),
         NEW type \in Nat, AVC!NalClass(type) = "Slice", NEW ref \in Nat,
         NEW s \in FrameSlices, s.pps \in 0 .. MaxPPSCount - 1,
         d.activeSPS \in 0 .. MaxSPSCount - 1, d.pps[s.pps].sps = d.activeSPS
  PROVE  \E q \in AVC!Parsers :
           /\ AVC!ParseNalUnit(d, AvcSliceUnit(type, ref, s)) = AVC!HandlePictureOrderCount[q]
           /\ ~q.thrown /\ q.nalType = type /\ q.refIdc = ref
           /\ q.sps = d.sps /\ q.activeSPS = d.activeSPS /\ q.pps = d.pps /\ q.refPic = d.refPic
           /\ q.slice.type = s.type /\ q.slice.idr = (type = AVC!CodedSlice_IDR)
           /\ q.slice.frameNum = s.frameNum
           /\ d.sps[d.activeSPS].pocType = 0 => q.slice.lsb = s.lsb
           /\ ~q.slice.fieldPic /\ ~q.slice.mmco5 /\ q.slice.deltaBottom \in {0, 1}
  <1> DEFINE nal == AvcSliceUnit(type, ref, s)
  <1>0. nal.type = type /\ nal.ref = ref /\ nal.syntax = s
    BY DEF AvcSliceUnit
  <1>1. PICK d1 \in AVC!Parsers : /\ d1 = AVC!Started(d, nal)
                                  /\ d1.nalType = type /\ d1.refIdc = ref /\ AvcKept(d, d1)
    BY <1>0, AvcStarted
  <1>2. PICK old \in AvcSlices : old = d.slice /\ old = d1.slice
    BY <1>1, AvcParts DEF AvcKept
  <1>3. PICK pps \in AvcPPSs : pps = d1.pps[s.pps] /\ pps.sps = d.activeSPS
    BY <1>1, AvcParts DEF AvcKept
  <1>4. PICK sps \in AVC!SPSs : sps = d1.sps[pps.sps] /\ sps = d.sps[d.activeSPS]
    BY <1>1, <1>3, AvcParts DEF AvcKept
  <1>5. PICK read : read =
          [type        |-> s.type,
           idr         |-> type = AVC!CodedSlice_IDR,
           frameNum    |-> s.frameNum,
           fieldPic    |-> FALSE,
           bottom      |-> old.bottom,
           lsb         |-> IF sps.pocType = 0 THEN s.lsb ELSE old.lsb,
           deltaBottom |-> IF sps.pocType = 0 /\ pps.bottomOrder THEN 1 ELSE old.deltaBottom,
           mmco5       |-> FALSE]
    OBVIOUS
  <1>6. /\ s.type \in AVC!SliceTypes /\ s.fieldPic = FALSE /\ s.frameNum \in Nat
        /\ s.lsb \in Nat /\ s.deltaBottom = 1 /\ s.mmco5 = FALSE
    BY DEF FrameSlices
  <1>7. old.fieldPic = FALSE /\ old.mmco5 = FALSE /\ old.deltaBottom \in {0, 1}
    BY <1>2 DEF FramesOnly, AvcSlices
  <1>8. AVC!ParseSliceHeader(d1, s) = [d1 EXCEPT !.slice = read]
    <2>1. (IF sps.frameMbsOnly THEN d1.slice.fieldPic ELSE s.fieldPic) = FALSE
      BY <1>2, <1>6, <1>7
    <2>2. AVC!ResetsCounts(d1, s) = FALSE
      BY <1>2, <1>6, <1>7 DEF AVC!ResetsCounts
    <2> QED
      BY <1>1, <1>2, <1>3, <1>4, <1>5, <1>6, <2>1, <2>2 DEF AVC!ParseSliceHeader
  <1>9. /\ read \in AvcSlices
        /\ read.type = s.type /\ read.idr = (type = AVC!CodedSlice_IDR)
        /\ read.frameNum = s.frameNum
        /\ sps.pocType = 0 => read.lsb = s.lsb
        /\ ~read.fieldPic /\ ~read.mmco5 /\ read.deltaBottom \in {0, 1}
    BY <1>2, <1>5, <1>6, <1>7 DEF AvcSlices
  <1>10. PICK q : q = [d1 EXCEPT !.slice = read]
    OBVIOUS
  <1>11. /\ q \in AVC!Parsers /\ q.slice = read
         /\ ~q.thrown /\ q.nalType = type /\ q.refIdc = ref
         /\ q.sps = d.sps /\ q.activeSPS = d.activeSPS /\ q.pps = d.pps /\ q.refPic = d.refPic
    BY <1>1, <1>9, <1>10, AvcParts DEF AvcKept
  <1>12. AVC!ParseNalUnit(d, nal) = AVC!HandlePictureOrderCount[q]
    BY <1>0, <1>1, <1>8, <1>10 DEF AVC!ParseNalUnit
  <1>13. /\ q.slice.type = s.type /\ q.slice.idr = (type = AVC!CodedSlice_IDR)
         /\ q.slice.frameNum = s.frameNum
         /\ d.sps[d.activeSPS].pocType = 0 => q.slice.lsb = s.lsb
         /\ ~q.slice.fieldPic /\ ~q.slice.mmco5 /\ q.slice.deltaBottom \in {0, 1}
    BY <1>4, <1>9, <1>11
  <1> QED
    BY <1>11, <1>12, <1>13

LEMMA AvcSliceReads ==
  ASSUME NEW d \in AVC!Parsers, ~d.thrown, FramesOnly(d),
         NEW type \in Nat, AVC!NalClass(type) = "Slice", NEW ref \in Nat,
         NEW s \in FrameSlices, s.pps \in 0 .. MaxPPSCount - 1,
         d.activeSPS \in 0 .. MaxSPSCount - 1, d.pps[s.pps].sps = d.activeSPS,
         d.sps[d.activeSPS].pocType # 0 => ref # 0 /\ 2^(d.sps[0].log2MaxFrameNum) \in Nat,
         NEW p, p = AVC!ParseNalUnit(d, AvcSliceUnit(type, ref, s))
  PROVE  /\ p \in AVC!Parsers /\ ~p.thrown /\ p.nalType = type /\ FramesOnly(p)
         /\ p.sps = d.sps /\ p.activeSPS = d.activeSPS /\ p.pps = d.pps
         /\ p.slice.type = s.type /\ p.slice.idr = (type = AVC!CodedSlice_IDR)
         /\ IF d.sps[d.activeSPS].pocType = 0
              THEN CountedByLsb(d, type, ref, s, p)
              ELSE CountedByFrameNum(d, type, s, p)
  <1>1. PICK q \in AVC!Parsers :
          /\ p = AVC!HandlePictureOrderCount[q]
          /\ ~q.thrown /\ q.nalType = type /\ q.refIdc = ref
          /\ q.sps = d.sps /\ q.activeSPS = d.activeSPS /\ q.pps = d.pps /\ q.refPic = d.refPic
          /\ q.slice.type = s.type /\ q.slice.idr = (type = AVC!CodedSlice_IDR)
          /\ q.slice.frameNum = s.frameNum
          /\ d.sps[d.activeSPS].pocType = 0 => q.slice.lsb = s.lsb
          /\ ~q.slice.fieldPic /\ ~q.slice.mmco5 /\ q.slice.deltaBottom \in {0, 1}
    BY AvcHeaderReads
  <1>2. PICK old \in AvcRefs : old = q.refPic /\ old = d.refPic /\ old.mmco5 = FALSE
    BY <1>1, AvcParts DEF FramesOnly, AvcRefs
  <1>3. q.slice \in AvcSlices /\ s.lsb \in Nat /\ s.frameNum \in Nat
    BY AvcParts DEF FrameSlices
  <1> DEFINE idr == type = AVC!CodedSlice_IDR
             zero == [msb |-> 0, lsb |-> 0]
  <1>4. CASE d.sps[d.activeSPS].pocType = 0
    <2> DEFINE prev == IF idr THEN zero ELSE [msb |-> d.refPic.msb, lsb |-> d.refPic.lsb]
               max == 2^(d.sps[d.activeSPS].log2MaxLsb)
    <2>1. prev \in [msb : 0 .. Word - 1, lsb : Nat]
      BY <1>2, BoundsAssumption DEF AvcRefs
    <2>2. max \in Int
      <3>1. d.sps[d.activeSPS] \in AVC!SPSs
        BY AvcParts
      <3>2. d.sps[d.activeSPS].log2MaxLsb \in Nat
        BY <3>1 DEF AVC!SPSs
      <3> QED
        BY <3>2
    <2>3. AVC!PreviousCount(q) = prev
      BY <1>1, <1>2 DEF AVC!PreviousCount
    <2> HIDE DEF prev, max
    <2>4. PICK msb : msb = CountMsb(s.lsb, prev, max)
      OBVIOUS
    <2>5. msb \in 0 .. Word - 1
      BY <1>3, <2>1, <2>2, <2>4, BoundsAssumption, MsbTyped
    <2>6. PICK top : top = (msb + s.lsb) % Word
      OBVIOUS
    <2>7. top \in 0 .. Word - 1
      <3>1. msb + s.lsb \in Int
        BY <1>3, <2>5
      <3> QED
        BY <3>1, <2>6, BoundsAssumption
    <2>8. PICK delta \in {0, 1} : delta = q.slice.deltaBottom
      BY <1>1
    <2>9. PICK count : count = AVC!FrameCount(top, (top + delta) % Word)
      OBVIOUS
    <2>10. count \in 0 .. Word - 1
      <3>1. (top + delta) % Word \in 0 .. Word - 1
        <4>1. top + delta \in Int
          BY <2>7, <2>8
        <4> QED
          BY <4>1, BoundsAssumption
      <3> QED
        BY <2>7, <2>9, <3>1 DEF AVC!FrameCount
    <2>11. PICK after : after = IF ref = 0 THEN old
                                ELSE [old EXCEPT !.msb = msb, !.lsb = s.lsb, !.top = top,
                                                 !.bottom = q.slice.bottom, !.mmco5 = q.slice.mmco5]
      OBVIOUS
    <2>12. /\ after \in AvcRefs /\ ~after.mmco5
           /\ IF ref = 0 THEN after = old ELSE after.msb = msb /\ after.lsb = s.lsb
      <3>1. q.slice.bottom \in BOOLEAN /\ q.slice.mmco5 = FALSE
        BY <1>1, <1>3 DEF AvcSlices
      <3>2. CASE ref = 0
        BY <1>2, <2>11, <3>2
      <3>3. CASE ref # 0
        <4>1. /\ after \in AvcRefs
              /\ after.mmco5 = FALSE /\ after.msb = msb /\ after.lsb = s.lsb
          BY <1>3, <2>5, <2>7, <2>11, <3>1, <3>3 DEF AvcRefs
        <4> QED
          BY <3>3, <4>1
      <3> QED
        BY <3>2, <3>3
    <2>13. AVC!CountByLsb(q) = [q EXCEPT !.poc = count, !.refPic = after]
      <3>1. AVC!PicOrderCntMsb(q.slice.lsb, AVC!PreviousCount(q), 2^(q.sps[q.activeSPS].log2MaxLsb)) = msb
        BY <1>1, <1>4, <2>3, <2>4, CountMsbOfAvc DEF max
      <3>2. AVC!Wrapped(msb + q.slice.lsb) = top
        BY <1>1, <1>4, <2>6 DEF AVC!Wrapped
      <3>3. AVC!FrameCount(top, AVC!Wrapped(top + q.slice.deltaBottom)) = count
        BY <2>8, <2>9 DEF AVC!Wrapped
      <3>4. AVC!CountByLsb(q) =
              [q EXCEPT !.poc = count,
                        !.refPic = IF q.refIdc = 0 THEN @
                                   ELSE [@ EXCEPT !.msb = msb, !.lsb = q.slice.lsb, !.top = top,
                                                  !.bottom = q.slice.bottom, !.mmco5 = q.slice.mmco5]]
        BY <3>1, <3>2, <3>3 DEF AVC!CountByLsb
      <3> QED
        BY <1>1, <1>2, <1>4, <2>11, <3>4
    <2>14. p = [q EXCEPT !.poc = count, !.refPic = after]
      BY <1>1, <1>4, <2>13 DEF AVC!HandlePictureOrderCount
    <2>15. /\ p \in AVC!Parsers /\ ~p.thrown /\ p.nalType = type
           /\ p.sps = d.sps /\ p.activeSPS = d.activeSPS /\ p.pps = d.pps
           /\ p.slice = q.slice /\ p.poc = count /\ p.refPic = after
      BY <1>1, <2>10, <2>12, <2>14, AvcParts
    <2>16. FramesOnly(p)
      BY <1>1, <2>12, <2>15 DEF FramesOnly
    <2>17. CountedByLsb(d, type, ref, s, p)
      BY <1>2, <2>4, <2>6, <2>8, <2>9, <2>12, <2>15 DEF CountedByLsb, prev, max
    <2> QED
      BY <1>1, <1>4, <2>15, <2>16, <2>17
  <1>5. CASE d.sps[d.activeSPS].pocType # 0
    <2> DEFINE offset == IF idr THEN 0
                         ELSE IF d.refPic.frameNum > s.frameNum
                           THEN d.refPic.frameNumOffset + 2^(d.sps[0].log2MaxFrameNum)
                         ELSE d.refPic.frameNumOffset
    <2>1. offset \in Nat
      BY <1>2, <1>5 DEF AvcRefs
    <2>2. AVC!FrameNumOffset(q) = offset
      BY <1>1 DEF AVC!FrameNumOffset
    <2> HIDE DEF offset
    <2>3. PICK count : count = (IF idr THEN 0 ELSE 2 * (offset + s.frameNum)) % Word
      OBVIOUS
    <2>4. count \in 0 .. Word - 1
      <3>1. (IF idr THEN 0 ELSE 2 * (offset + s.frameNum)) \in Int
        BY <1>3, <2>1
      <3> QED
        BY <2>3, <3>1, BoundsAssumption
    <2>5. PICK after : after = [old EXCEPT !.frameNum = s.frameNum, !.frameNumOffset = offset]
      OBVIOUS
    <2>6. /\ after \in AvcRefs /\ after.mmco5 = FALSE
          /\ after.frameNum = s.frameNum /\ after.frameNumOffset = offset
      BY <1>2, <1>3, <2>1, <2>5 DEF AvcRefs
    <2>7. AVC!CountByFrameNum(q) = [q EXCEPT !.poc = count, !.refPic = after]
      <3>1. AVC!Wrapped(IF q.nalType = AVC!CodedSlice_IDR THEN 0
                        ELSE IF q.refIdc = 0 THEN 2 * (AVC!FrameNumOffset(q) + q.slice.frameNum) - 1
                        ELSE 2 * (AVC!FrameNumOffset(q) + q.slice.frameNum)) = count
        BY <1>1, <1>5, <2>2, <2>3 DEF AVC!Wrapped
      <3>2. AVC!CountByFrameNum(q) =
              [q EXCEPT !.poc = count, !.refPic.frameNum = s.frameNum, !.refPic.frameNumOffset = offset]
        BY <1>1, <2>2, <3>1 DEF AVC!CountByFrameNum
      <3>3. q.refPic = old
        BY <1>2
      <3> QED
        BY <2>5, <3>2, <3>3, AvcParts
    <2>8. p = [q EXCEPT !.poc = count, !.refPic = after]
      BY <1>1, <1>5, <2>7 DEF AVC!HandlePictureOrderCount
    <2>9. /\ p \in AVC!Parsers /\ ~p.thrown /\ p.nalType = type
          /\ p.sps = d.sps /\ p.activeSPS = d.activeSPS /\ p.pps = d.pps
          /\ p.slice = q.slice /\ p.poc = count /\ p.refPic = after
      BY <1>1, <2>4, <2>6, <2>8, AvcParts
    <2>10. FramesOnly(p)
      BY <1>1, <2>6, <2>9 DEF FramesOnly
    <2>11. CountedByFrameNum(d, type, s, p)
      BY <2>3, <2>6, <2>9 DEF CountedByFrameNum, offset
    <2> QED
      BY <1>1, <1>5, <2>9, <2>10, <2>11
  <1> QED
    BY <1>4, <1>5

-----------------------------------------------------------------------------
(* The loop over the NAL units.                                            *)

(* What the loop over the NAL units does with the one at i. *)
Further(nals, i) ==
  [p \in AVC!Parsers \cup HEVC!Parsers |->
     IF i > 1 /\ (p.thrown \/ IsSlice(p)) THEN p ELSE ParseNalUnit(p, nals[i])]

LEMMA LoopIs ==
  ASSUME NEW nals, Len(nals) \in Nat
  PROVE  \E f : /\ f[0] = parser
                /\ \A i \in 1 .. Len(nals) : f[i] = Further(nals, i)[f[i - 1]]
                /\ ParsedUnits(nals) = f[Len(nals)]
  <1> DEFINE Loop(f) == f = [i \in 0 .. Len(nals) |->
                               IF i = 0 THEN parser ELSE Further(nals, i)[f[i - 1]]]
             F == CHOOSE f : Loop(f)
  <1>1. \E f : Loop(f)
    <2> DEFINE step == [i \in 1 .. Len(nals) |-> Further(nals, i)]
    <2>1. PICK f : Carried(f, step, parser, Len(nals))
      <3> HIDE DEF step
      <3>1. Len(nals) \in Nat
        OBVIOUS
      <3> QED
        BY <3>1, LoopExists
    <2>2. \A i \in 0 .. Len(nals) : i # 0 => step[i] = Further(nals, i)
      OBVIOUS
    <2> HIDE DEF step
    <2>3. Loop(f)
      BY <2>1, <2>2 DEF Carried
    <2> QED
      BY <2>3
  <1>2. Loop(F)
    BY <1>1
  <1>3. ParsedUnits(nals) = F[Len(nals)]
    BY DEF ParsedUnits, Further
  <1> HIDE DEF F
  <1>4. F[0] = parser /\ \A i \in 1 .. Len(nals) : F[i] = Further(nals, i)[F[i - 1]]
    BY <1>2
  <1> QED
    BY <1>3, <1>4

-----------------------------------------------------------------------------
(* The access units.                                                       *)

LEMMA TwoJoined ==
  ASSUME NEW a, NEW b, NEW s, s = <<a>> \o <<>> \o <<b>>
  PROVE  Len(s) = 2 /\ s[1] = a /\ s[2] = b
  <1>1. <<a>> \o <<>> = <<a>>
    OBVIOUS
  <1> QED
    BY <1>1

LEMMA FiveJoined ==
  ASSUME NEW a, NEW b, NEW c, NEW d, NEW e, NEW s, s = <<a>> \o <<b, c, d>> \o <<e>>
  PROVE  Len(s) = 5 /\ s[1] = a /\ s[2] = b /\ s[3] = c /\ s[4] = d /\ s[5] = e
  <1> DEFINE A == {a, b, c, d, e}
  <1>1. <<a>> \in Seq(A) /\ <<b, c, d>> \in Seq(A) /\ <<e>> \in Seq(A)
    OBVIOUS
  <1>2. Len(<<a>>) = 1 /\ Len(<<b, c, d>>) = 3 /\ Len(<<e>>) = 1 /\ <<e>>[1] = e
    OBVIOUS
  <1> HIDE DEF A
  <1>3. PICK t : t = <<a>> \o <<b, c, d>>
    OBVIOUS
  <1>4. /\ t \in Seq(A) /\ Len(t) = 4
        /\ t[1] = a /\ t[2] = b /\ t[3] = c /\ t[4] = d
    BY <1>1, <1>3
  <1>5. PICK u : u = <<e>>
    OBVIOUS
  <1>6. u \in Seq(A) /\ Len(u) = 1 /\ u[1] = e
    BY <1>1, <1>2, <1>5
  <1>7. s = t \o u
    BY <1>3, <1>5
  <1> QED
    BY <1>4, <1>6, <1>7

LEMMA FourJoined ==
  ASSUME NEW a, NEW b, NEW c, NEW d,  NEW s, s = <<a>> \o <<b, c>> \o <<d>>
  PROVE  Len(s) = 4 /\ s[1] = a /\ s[2] = b /\ s[3] = c /\ s[4] = d
  OBVIOUS

(* The access units of HEVC: the parser q that the slice finds, or one     *)
(* that throws when the sets cannot be read.                               *)
LEMMA HevcUnitsRead ==
  ASSUME Codec = "HEVC", parser \in HEVC!Parsers, ~parser.thrown,
         S.sps \in HEVC!SPSSyntax, S.pps \in HEVC!PPSSyntax,
         NEW next, next.id \in Nat
  PROVE  \E q \in HEVC!Parsers :
           /\ ParsedUnits(NalUnits(next)) =
                IF q.thrown THEN q ELSE HEVC!ParseNalUnit(q, HevcSlice(next))
           /\ q.thrown => next.id # gop.id
           /\ ~q.thrown =>
                /\ q.firstPicture = parser.firstPicture /\ q.prevTid0 = parser.prevTid0
                /\ IF next.id = gop.id
                     THEN q.sps = parser.sps /\ q.activeSPS = parser.activeSPS /\ q.pps = parser.pps
                     ELSE /\ next.id < MaxSPSCount /\ next.id < MaxPPSCount
                          /\ q.activeSPS = next.id
                          /\ q.sps[next.id].log2MaxLsb = S.sps.log2MaxLsb
                          /\ ~q.pps[next.id].dependentSlices
  <1>1. PICK nals : nals = NalUnits(next)
    OBVIOUS
  <1>2. nals = HevcUnits(next)
    BY <1>1 DEF NalUnits
  <1> DEFINE aud == [type |-> HEVC!AUD, layer |-> 0]
             vps == [type |-> HEVC!VPS, layer |-> 0]
             sps == [type |-> 33, layer |-> 0, id |-> next.id, syntax |-> S.sps]
             pps == [type |-> 34, layer |-> 0, id |-> next.id, sps |-> next.id, syntax |-> S.pps]
             slice == HevcSlice(next)
             Stops(p) == p.thrown \/ HEVC!NalClass(p.nalType) = "Slice"
  <1>3. PICK p1 \in HEVC!Parsers : /\ p1 = HEVC!ParseNalUnit(parser, aud)
                                   /\ HevcKept(parser, p1) /\ ~Stops(p1)
    <2>1. aud.type \in {HEVC!AUD, HEVC!VPS} /\ aud.layer = 0
      OBVIOUS
    <2>2. PICK p1 : p1 = HEVC!ParseNalUnit(parser, aud)
      OBVIOUS
    <2>3. p1 \in HEVC!Parsers /\ HevcKept(parser, p1) /\ HEVC!NalClass(p1.nalType) # "Slice"
      BY <2>1, <2>2, HevcOther
    <2>4. ~p1.thrown
      BY <2>3 DEF HevcKept
    <2> QED
      BY <2>2, <2>3, <2>4
  <1>4. ASSUME NEW p \in HEVC!Parsers, NEW nal, NEW i \in 1 .. Len(nals), nals[i] = nal,
               i = 1 \/ ~Stops(p)
        PROVE  Further(nals, i)[p] = HEVC!ParseNalUnit(p, nal)
    BY <1>4 DEF Further, IsSlice, ParseNalUnit
  <1>5. ASSUME NEW p \in HEVC!Parsers, NEW i \in 1 .. Len(nals), i > 1, p.thrown
        PROVE  Further(nals, i)[p] = p
    BY <1>5 DEF Further
  <1>6. CASE next.id = gop.id
    <2>1. Len(nals) = 2 /\ nals[1] = aud /\ nals[2] = slice
      <3>1. nals = <<aud>> \o <<>> \o <<slice>>
        BY <1>2, <1>6 DEF HevcUnits
      <3> HIDE DEF aud, slice
      <3> QED
        BY <3>1, TwoJoined
    <2> HIDE DEF aud, slice, Stops
    <2>2. PICK f : /\ f[0] = parser
                   /\ \A i \in 1 .. Len(nals) : f[i] = Further(nals, i)[f[i - 1]]
                   /\ ParsedUnits(nals) = f[Len(nals)]
      <3>1. Len(nals) \in Nat
        BY <2>1
      <3> QED
        BY <3>1, LoopIs
    <2>3. f[1] = Further(nals, 1)[f[1 - 1]] /\ f[2] = Further(nals, 2)[f[2 - 1]]
      BY <2>1, <2>2
    <2>4. f[1] = p1
      BY <1>3, <1>4, <2>1, <2>2, <2>3
    <2>5. f[2] = HEVC!ParseNalUnit(p1, slice)
      BY <1>3, <1>4, <2>1, <2>3, <2>4
    <2>6. ~p1.thrown
      BY <1>3 DEF Stops
    <2>7. ParsedUnits(NalUnits(next)) = HEVC!ParseNalUnit(p1, HevcSlice(next))
      BY <1>1, <2>1, <2>2, <2>5 DEF slice
    <2> QED
      BY <1>3, <1>6, <2>6, <2>7 DEF HevcKept
  <1>7. CASE next.id # gop.id
    <2>1. /\ Len(nals) = 5 /\ nals[1] = aud /\ nals[2] = vps /\ nals[3] = sps
          /\ nals[4] = pps /\ nals[5] = slice
      <3>1. nals = <<aud>> \o <<vps, sps, pps>> \o <<slice>>
        BY <1>2, <1>7 DEF HevcUnits
      <3> HIDE DEF aud, vps, sps, pps, slice
      <3> QED
        BY <3>1, FiveJoined
    <2>2. PICK p2 \in HEVC!Parsers : /\ p2 = HEVC!ParseNalUnit(p1, vps)
                                     /\ HevcKept(p1, p2) /\ ~Stops(p2)
      <3>1. vps.type \in {HEVC!AUD, HEVC!VPS} /\ vps.layer = 0
        OBVIOUS
      <3>2. PICK p2 : p2 = HEVC!ParseNalUnit(p1, vps)
        OBVIOUS
      <3>3. p2 \in HEVC!Parsers /\ HevcKept(p1, p2) /\ HEVC!NalClass(p2.nalType) # "Slice"
        BY <3>1, <3>2, HevcOther
      <3>4. ~p2.thrown
        BY <1>3, <3>3 DEF HevcKept
      <3> QED
        BY <3>2, <3>3, <3>4
    <2>3. PICK p3 : p3 = HEVC!ParseNalUnit(p2, sps)
      OBVIOUS
    <2>4. /\ p3 \in HEVC!Parsers /\ HEVC!NalClass(p3.nalType) # "Slice"
          /\ IF next.id >= MaxSPSCount THEN p3.thrown
             ELSE /\ p3.thrown = p2.thrown /\ p3.firstPicture = p2.firstPicture
                  /\ p3.activeSPS = next.id /\ p3.sps[next.id].log2MaxLsb = S.sps.log2MaxLsb
                  /\ p3.pps = p2.pps /\ p3.prevTid0 = p2.prevTid0
      BY <2>3, HevcSPSRead
    <2>5. PICK p4 : p4 = HEVC!ParseNalUnit(p3, pps)
      OBVIOUS
    <2>6. /\ p4 \in HEVC!Parsers /\ HEVC!NalClass(p4.nalType) # "Slice"
          /\ \/ p4.thrown
             \/ /\ next.id < MaxPPSCount
                /\ p4.thrown = p3.thrown /\ p4.firstPicture = p3.firstPicture
                /\ p4.activeSPS = p3.activeSPS /\ p4.sps = p3.sps
                /\ ~p4.pps[next.id].dependentSlices /\ p4.prevTid0 = p3.prevTid0
      BY <2>4, <2>5, HevcPPSRead
    <2> DEFINE q == IF p3.thrown THEN p3 ELSE p4
    <2>7. q \in HEVC!Parsers
      BY <2>4, <2>6
    <2>8. ~q.thrown =>
             /\ q.firstPicture = parser.firstPicture /\ q.prevTid0 = parser.prevTid0
             /\ next.id < MaxSPSCount /\ next.id < MaxPPSCount
             /\ q.activeSPS = next.id
             /\ q.sps[next.id].log2MaxLsb = S.sps.log2MaxLsb
             /\ ~q.pps[next.id].dependentSlices
      <3> SUFFICES ASSUME ~q.thrown
                   PROVE  /\ q.firstPicture = parser.firstPicture /\ q.prevTid0 = parser.prevTid0
                          /\ next.id < MaxSPSCount /\ next.id < MaxPPSCount
                          /\ q.activeSPS = next.id
                          /\ q.sps[next.id].log2MaxLsb = S.sps.log2MaxLsb
                          /\ ~q.pps[next.id].dependentSlices
        OBVIOUS
      <3>1. ~p3.thrown /\ q = p4 /\ ~p4.thrown
        OBVIOUS
      <3>2. next.id < MaxSPSCount
        BY <2>4, <3>1, BoundsAssumption
      <3>3. /\ p2.firstPicture = parser.firstPicture /\ p2.prevTid0 = parser.prevTid0
        BY <1>3, <2>2 DEF HevcKept
      <3> QED
        BY <2>4, <2>6, <3>1, <3>2, <3>3, BoundsAssumption
    <2> HIDE DEF aud, vps, sps, pps, slice
    <2>9. PICK f : /\ f[0] = parser
                   /\ \A i \in 1 .. Len(nals) : f[i] = Further(nals, i)[f[i - 1]]
                   /\ ParsedUnits(nals) = f[Len(nals)]
      <3>1. Len(nals) \in Nat
        BY <2>1
      <3> QED
        BY <3>1, LoopIs
    <2>10. /\ f[1] = Further(nals, 1)[f[1 - 1]] /\ f[2] = Further(nals, 2)[f[2 - 1]]
           /\ f[3] = Further(nals, 3)[f[3 - 1]] /\ f[4] = Further(nals, 4)[f[4 - 1]]
           /\ f[5] = Further(nals, 5)[f[5 - 1]]
      BY <2>1, <2>9
    <2>11. f[1] = p1
      BY <1>3, <1>4, <2>1, <2>9, <2>10
    <2>12. f[2] = p2
      BY <1>3, <1>4, <2>1, <2>2, <2>10, <2>11
    <2>13. f[3] = p3
      BY <1>4, <2>1, <2>2, <2>3, <2>10, <2>12
    <2>14. f[4] = q
      <3>1. CASE p3.thrown
        BY <1>5, <2>1, <2>4, <2>10, <2>13, <3>1
      <3>2. CASE ~p3.thrown
        BY <1>4, <2>1, <2>4, <2>5, <2>10, <2>13, <3>2
      <3> QED
        BY <3>1, <3>2
    <2>15. f[5] = IF q.thrown THEN q ELSE HEVC!ParseNalUnit(q, slice)
      <3>1. HEVC!NalClass(q.nalType) # "Slice"
        BY <2>4, <2>6
      <3> HIDE DEF q
      <3>2. CASE q.thrown
        BY <1>5, <2>1, <2>7, <2>10, <2>14, <3>2
      <3>3. CASE ~q.thrown
        BY <1>4, <2>1, <2>7, <2>10, <2>14, <3>1, <3>3
      <3> QED
        BY <3>2, <3>3
    <2>16. ParsedUnits(NalUnits(next)) = IF q.thrown THEN q ELSE HEVC!ParseNalUnit(q, HevcSlice(next))
      BY <1>1, <2>1, <2>9, <2>15 DEF slice
    <2> HIDE DEF q
    <2> QED
      BY <1>7, <2>7, <2>8, <2>16
  <1> QED
    BY <1>6, <1>7

(* The access units of AVC, likewise. *)
LEMMA AvcUnitsRead ==
  ASSUME Codec = "AVC", parser \in AVC!Parsers, ~parser.thrown,
         S.sps \in AVC!SPSSyntax, S.pps \in AVC!PPSSyntax,
         NEW next, next.id \in Nat
  PROVE  \E q \in AVC!Parsers :
           /\ ParsedUnits(NalUnits(next)) =
                IF q.thrown THEN q ELSE AVC!ParseNalUnit(q, AvcSlice(next))
           /\ q.thrown => next.id # gop.id
           /\ ~q.thrown =>
                /\ q.slice = parser.slice /\ q.refPic = parser.refPic
                /\ IF next.id = gop.id
                     THEN q.sps = parser.sps /\ q.activeSPS = parser.activeSPS /\ q.pps = parser.pps
                     ELSE /\ next.id < MaxSPSCount /\ next.id < MaxPPSCount
                          /\ q.activeSPS = next.id /\ q.pps[next.id].sps = next.id
                          /\ q.sps[next.id].pocType = S.sps.pocType
                          /\ S.sps.pocType = 0 => q.sps[next.id].log2MaxLsb = S.sps.log2MaxLsb
                          /\ q.sps[next.id].log2MaxFrameNum = S.sps.log2MaxFrameNum
                          /\ next.id # 0 => q.sps[0] = parser.sps[0]
  <1>1. PICK nals : nals = NalUnits(next)
    OBVIOUS
  <1>2. nals = AvcUnits(next)
    BY <1>1 DEF NalUnits
  <1> DEFINE aud == [type |-> AVC!AUD, ref |-> 0]
             sps == [type |-> 7, ref |-> 3, id |-> next.id, syntax |-> S.sps]
             pps == [type |-> 8, ref |-> 3, id |-> next.id, sps |-> next.id, syntax |-> S.pps]
             slice == AvcSlice(next)
             Stops(p) == p.thrown \/ AVC!NalClass(p.nalType) = "Slice"
  <1>3. PICK p1 \in AVC!Parsers : /\ p1 = AVC!ParseNalUnit(parser, aud)
                                  /\ AvcKept(parser, p1) /\ ~Stops(p1)
    <2>1. aud.type = AVC!AUD /\ aud.ref \in Nat
      OBVIOUS
    <2>2. PICK p1 : p1 = AVC!ParseNalUnit(parser, aud)
      OBVIOUS
    <2>3. p1 \in AVC!Parsers /\ AvcKept(parser, p1) /\ AVC!NalClass(p1.nalType) # "Slice"
      BY <2>1, <2>2, AvcOther
    <2>4. ~p1.thrown
      BY <2>3 DEF AvcKept
    <2> QED
      BY <2>2, <2>3, <2>4
  <1>4. ASSUME NEW p \in AVC!Parsers, NEW nal, NEW i \in 1 .. Len(nals), nals[i] = nal,
               i = 1 \/ ~Stops(p)
        PROVE  Further(nals, i)[p] = AVC!ParseNalUnit(p, nal)
    BY <1>4 DEF Further, IsSlice, ParseNalUnit
  <1>5. ASSUME NEW p \in AVC!Parsers, NEW i \in 1 .. Len(nals), i > 1, p.thrown
        PROVE  Further(nals, i)[p] = p
    BY <1>5 DEF Further
  <1>6. CASE next.id = gop.id
    <2>1. Len(nals) = 2 /\ nals[1] = aud /\ nals[2] = slice
      <3>1. nals = <<aud>> \o <<>> \o <<slice>>
        BY <1>2, <1>6 DEF AvcUnits
      <3> HIDE DEF aud, slice
      <3> QED
        BY <3>1, TwoJoined
    <2> HIDE DEF aud, slice, Stops
    <2>2. PICK f : /\ f[0] = parser
                   /\ \A i \in 1 .. Len(nals) : f[i] = Further(nals, i)[f[i - 1]]
                   /\ ParsedUnits(nals) = f[Len(nals)]
      <3>1. Len(nals) \in Nat
        BY <2>1
      <3> QED
        BY <3>1, LoopIs
    <2>3. f[1] = Further(nals, 1)[f[1 - 1]] /\ f[2] = Further(nals, 2)[f[2 - 1]]
      BY <2>1, <2>2
    <2>4. f[1] = p1
      BY <1>3, <1>4, <2>1, <2>2, <2>3
    <2>5. f[2] = AVC!ParseNalUnit(p1, slice)
      BY <1>3, <1>4, <2>1, <2>3, <2>4
    <2>6. ~p1.thrown
      BY <1>3 DEF Stops
    <2>7. ParsedUnits(NalUnits(next)) = AVC!ParseNalUnit(p1, AvcSlice(next))
      BY <1>1, <2>1, <2>2, <2>5 DEF slice
    <2> QED
      BY <1>3, <1>6, <2>6, <2>7 DEF AvcKept
  <1>7. CASE next.id # gop.id
    <2>1. /\ Len(nals) = 4 /\ nals[1] = aud /\ nals[2] = sps
          /\ nals[3] = pps /\ nals[4] = slice
      <3>1. nals = <<aud>> \o <<sps, pps>> \o <<slice>>
        BY <1>2, <1>7 DEF AvcUnits
      <3> HIDE DEF aud, sps, pps, slice
      <3> QED
        BY <3>1, FourJoined
    <2>2. PICK p2 : p2 = AVC!ParseNalUnit(p1, sps)
      OBVIOUS
    <2>3. /\ p2 \in AVC!Parsers /\ AVC!NalClass(p2.nalType) # "Slice"
          /\ \/ p2.thrown
             \/ /\ next.id < MaxSPSCount
                /\ p2.thrown = p1.thrown /\ p2.activeSPS = next.id
                /\ p2.sps[next.id].pocType = S.sps.pocType
                /\ p2.sps[next.id].log2MaxFrameNum = S.sps.log2MaxFrameNum
                /\ S.sps.pocType = 0 => p2.sps[next.id].log2MaxLsb = S.sps.log2MaxLsb
                /\ next.id # 0 => p2.sps[0] = p1.sps[0]
                /\ p2.pps = p1.pps /\ p2.slice = p1.slice /\ p2.refPic = p1.refPic
      BY <2>2, AvcSPSRead
    <2>4. PICK p3 : p3 = AVC!ParseNalUnit(p2, pps)
      OBVIOUS
    <2>5. /\ p3 \in AVC!Parsers /\ AVC!NalClass(p3.nalType) # "Slice"
          /\ \/ p3.thrown
             \/ /\ next.id < MaxPPSCount
                /\ p3.thrown = p2.thrown /\ p3.activeSPS = p2.activeSPS /\ p3.sps = p2.sps
                /\ p3.pps[next.id].sps = next.id
                /\ p3.slice = p2.slice /\ p3.refPic = p2.refPic
      BY <2>3, <2>4, AvcPPSRead
    <2> DEFINE q == IF p2.thrown THEN p2 ELSE p3
    <2>6. q \in AVC!Parsers /\ AVC!NalClass(q.nalType) # "Slice"
      BY <2>3, <2>5
    <2>7. ~q.thrown =>
             /\ q.slice = parser.slice /\ q.refPic = parser.refPic
             /\ next.id < MaxSPSCount /\ next.id < MaxPPSCount
             /\ q.activeSPS = next.id /\ q.pps[next.id].sps = next.id
             /\ q.sps[next.id].pocType = S.sps.pocType
             /\ S.sps.pocType = 0 => q.sps[next.id].log2MaxLsb = S.sps.log2MaxLsb
             /\ q.sps[next.id].log2MaxFrameNum = S.sps.log2MaxFrameNum
             /\ next.id # 0 => q.sps[0] = parser.sps[0]
      <3>1. q.thrown \/ (~p2.thrown /\ q = p3 /\ ~p3.thrown)
        OBVIOUS
      <3>2. /\ p1.slice = parser.slice /\ p1.refPic = parser.refPic
            /\ p1.sps = parser.sps
        BY <1>3 DEF AvcKept
      <3> HIDE DEF q
      <3> QED
        BY <2>3, <2>5, <3>1, <3>2
    <2> HIDE DEF aud, sps, pps, slice
    <2>8. PICK f : /\ f[0] = parser
                   /\ \A i \in 1 .. Len(nals) : f[i] = Further(nals, i)[f[i - 1]]
                   /\ ParsedUnits(nals) = f[Len(nals)]
      <3>1. Len(nals) \in Nat
        BY <2>1
      <3> QED
        BY <3>1, LoopIs
    <2>9. /\ f[1] = Further(nals, 1)[f[1 - 1]] /\ f[2] = Further(nals, 2)[f[2 - 1]]
          /\ f[3] = Further(nals, 3)[f[3 - 1]] /\ f[4] = Further(nals, 4)[f[4 - 1]]
      BY <2>1, <2>8
    <2>10. f[1] = p1
      BY <1>3, <1>4, <2>1, <2>8, <2>9
    <2>11. f[2] = p2
      BY <1>3, <1>4, <2>1, <2>2, <2>9, <2>10
    <2>12. f[3] = q
      <3>1. CASE p2.thrown
        BY <1>5, <2>1, <2>3, <2>9, <2>11, <3>1
      <3>2. CASE ~p2.thrown
        BY <1>4, <2>1, <2>3, <2>4, <2>9, <2>11, <3>2
      <3> QED
        BY <3>1, <3>2
    <2>13. f[4] = IF q.thrown THEN q ELSE AVC!ParseNalUnit(q, slice)
      <3> HIDE DEF q
      <3>1. CASE q.thrown
        BY <1>5, <2>1, <2>6, <2>9, <2>12, <3>1
      <3>2. CASE ~q.thrown
        BY <1>4, <2>1, <2>6, <2>9, <2>12, <3>2
      <3> QED
        BY <3>1, <3>2
    <2>14. ParsedUnits(NalUnits(next)) = IF q.thrown THEN q ELSE AVC!ParseNalUnit(q, AvcSlice(next))
      BY <1>1, <2>1, <2>8, <2>13 DEF slice
    <2> HIDE DEF q
    <2> QED
      BY <1>7, <2>6, <2>7, <2>14
  <1> QED
    BY <1>6, <1>7

Gops == [first : Nat, order : Seq(Nat), done : Nat, id : Int, groups : Nat]

-----------------------------------------------------------------------------
(* The orders of the pictures in a group.                                  *)

(* A coding order holds every place once. *)
LEMMA OrdersHoldPlacesOnce ==
  ASSUME NEW s \in DOMAIN Streams, NEW o \in Streams[s].orders
  PROVE  /\ o \in Seq(Nat) /\ o # <<>>
         /\ \A k \in 1 .. Len(o) : o[k] \in 0 .. Len(o) - 1
         /\ \A j, k \in 1 .. Len(o) : o[j] = o[k] => j = k
  <1>1. /\ o \in Seq(Nat) /\ o # <<>>
        /\ {o[k] : k \in DOMAIN o} = 0 .. Len(o) - 1
    BY StreamsAssumption
  <1>2. PICK n \in Nat : n = Len(o)
    BY <1>1
  <1>3. DOMAIN o = 1 .. n
    BY <1>1, <1>2
  <1>4. \A k \in 1 .. n : o[k] \in 0 .. n - 1
    BY <1>1, <1>2, <1>3
  <1>5. o \in Surjection(1 .. n, 0 .. n - 1)
    <2>1. o \in [1 .. n -> 0 .. n - 1]
      BY <1>1, <1>2, <1>4
    <2>2. \A t \in 0 .. n - 1 : \E k \in 1 .. n : o[k] = t
      BY <1>1, <1>2, <1>3
    <2> QED
      BY <2>1, <2>2 DEF Surjection
  <1>6. /\ IsFiniteSet(1 .. n)
        /\ Cardinality(1 .. n) = n /\ Cardinality(0 .. n - 1) = n
    <2>1. 0 \in Int /\ 1 \in Int /\ n \in Int /\ n - 1 \in Int
      BY <1>2
    <2>2. /\ IsFiniteSet(1 .. n)
          /\ Cardinality(1 .. n) = IF 1 > n THEN 0 ELSE n - 1 + 1
          /\ Cardinality(0 .. n - 1) = IF 0 > n - 1 THEN 0 ELSE n - 1 - 0 + 1
      BY <2>1, FS_Interval
    <2> QED
      BY <2>2, <1>2
  <1>7. o \in Injection(1 .. n, 0 .. n - 1)
    BY <1>5, <1>6, FS_Surjection
  <1>8. \A j, k \in 1 .. n : o[j] = o[k] => j = k
    BY <1>3, <1>7 DEF Injection, IsInjective
  <1> QED
    BY <1>1, <1>2, <1>4, <1>8

-----------------------------------------------------------------------------
(* The pictures read.                                                      *)

(* The display indices of the pictures before the last one read. *)
Before(g) == (0 .. g.first - 1) \cup {g.first + g.order[k] : k \in 1 .. g.done - 1}

SeenIds == (0 .. gop.first - 1) \cup {gop.first + gop.order[k] : k \in 1 .. gop.done}

GopInv ==
  /\ stream \in DOMAIN Streams
  /\ gop \in Gops
  /\ gop.done <= Len(gop.order)
  /\ IF gop.groups = 0 THEN gop.order = <<>> /\ gop.first = 0
                       ELSE gop.order \in S.orders /\ gop.done # 0

LEMMA InitGop == CoderInit => GopInv /\ SeenIds = {} /\ PicturesRead = 0
  BY DEF CoderInit, GopInv, Gops, SeenIds, PicturesRead

(* Whichever group comes next, its picture is behind those read so far,    *)
(* which are of groups before or of its own.                               *)
LEMMA NextGop ==
  ASSUME GopInv, NEW next \in ThisOrNextGop
  PROVE  /\ next \in Gops
         /\ next.groups # 0 /\ next.order \in S.orders
         /\ next.done \in 1 .. Len(next.order)
         /\ next.first + next.done = PicturesRead + 1
         /\ SeenIds \subseteq Before(next)
         /\ next.groups = 1 /\ next.done = 1 => PicturesRead = 0
  <1>1. CASE gop.done < Len(gop.order)
    <2>1. next = [gop EXCEPT !.done = @ + 1]
      BY <1>1 DEF ThisOrNextGop
    <2>2. gop \in Gops
      BY DEF GopInv
    <2>3. /\ next.first = gop.first /\ next.order = gop.order /\ next.done = gop.done + 1
          /\ next.id = gop.id /\ next.groups = gop.groups
          /\ next \in Gops
      BY <2>1, <2>2 DEF Gops
    <2>4. gop.groups # 0
      BY <1>1 DEF GopInv, Gops
    <2>5. SeenIds = Before(next)
      BY <2>2, <2>3 DEF SeenIds, Before, Gops
    <2>6. gop.order \in S.orders /\ gop.done \in Nat \ {0} /\ gop.first \in Nat
      BY <2>2, <2>4 DEF GopInv, Gops
    <2>7. next.done \in 1 .. Len(next.order) /\ next.done # 1
      BY <1>1, <2>2, <2>3, <2>6 DEF Gops
    <2>8. next.first + next.done = PicturesRead + 1
      BY <2>3, <2>6 DEF PicturesRead
    <2> QED
      BY <2>3, <2>4, <2>5, <2>6, <2>7, <2>8
  <1>2. CASE ~(gop.done < Len(gop.order))
    <2>1. PICK o \in S.orders, i \in Ids :
            next = [first |-> PicturesRead, order |-> o, done |-> 1, id |-> i,
                    groups |-> gop.groups + 1]
      BY <1>2 DEF ThisOrNextGop
    <2>2. /\ gop \in Gops /\ PicturesRead \in Nat
          /\ gop.done = Len(gop.order)
      BY <1>2 DEF GopInv, Gops, PicturesRead
    <2>3. o \in Seq(Nat) /\ o # <<>>
      BY OrdersHoldPlacesOnce DEF GopInv, S
    <2>4. Ids \subseteq Int
      BY BoundsAssumption DEF Ids
    <2>5. /\ next.first = PicturesRead /\ next.order = o /\ next.done = 1
          /\ next.groups = gop.groups + 1
          /\ next \in Gops
      BY <2>1, <2>2, <2>3, <2>4 DEF Gops
    <2>6. SeenIds \subseteq 0 .. PicturesRead - 1
      <3>1. CASE gop.groups = 0
        <4>1. gop.first = 0 /\ gop.done = 0
          BY <3>1, <2>2 DEF GopInv, Gops
        <4> QED
          BY <4>1 DEF SeenIds
      <3>2. CASE gop.groups # 0
        <4>1. \A k \in 1 .. gop.done : gop.order[k] \in 0 .. gop.done - 1
          BY <3>2, <2>2, OrdersHoldPlacesOnce DEF GopInv, S
        <4>2. gop.first \in Nat /\ gop.done \in Nat
          BY <2>2 DEF Gops
        <4>3. ASSUME NEW k \in 1 .. gop.done
              PROVE  gop.first + gop.order[k] \in 0 .. PicturesRead - 1
          <5>1. PICK place \in 0 .. gop.done - 1 : place = gop.order[k]
            BY <4>1
          <5> QED
            BY <4>2, <5>1 DEF PicturesRead
        <4>4. 0 .. gop.first - 1 \subseteq 0 .. PicturesRead - 1
          BY <4>2 DEF PicturesRead
        <4>5. {gop.first + gop.order[k] : k \in 1 .. gop.done} \subseteq 0 .. PicturesRead - 1
          BY <4>3
        <4> QED
          BY <4>4, <4>5 DEF SeenIds
      <3> QED
        BY <3>1, <3>2
    <2>7. SeenIds \subseteq Before(next)
      BY <2>5, <2>6 DEF Before
    <2>8. gop.groups = 0 => PicturesRead = 0
      BY <2>2 DEF GopInv, Gops, PicturesRead
    <2>9. 1 \in 1 .. Len(o)
      BY <2>3
    <2> QED
      BY <2>1, <2>2, <2>5, <2>7, <2>8, <2>9 DEF Gops
  <1> QED
    BY <1>1, <1>2

LEMMA ReadGop ==
  ASSUME GopInv, NEW next \in ThisOrNextGop, gop' = next, UNCHANGED stream
  PROVE  /\ GopInv'
         /\ PicturesRead' = PicturesRead + 1
         /\ SeenIds' = Before(next) \cup {DisplayIndex(next)}
         /\ DisplayIndex(next) \in Nat \ SeenIds
  <1>1. /\ next \in Gops
        /\ next.groups # 0 /\ next.order \in S.orders
        /\ next.done \in 1 .. Len(next.order)
        /\ next.first + next.done = PicturesRead + 1
        /\ SeenIds \subseteq Before(next)
    BY NextGop
  <1>2. GopInv'
    BY <1>1 DEF GopInv, Gops, S
  <1>3. PicturesRead' = PicturesRead + 1
    BY <1>1 DEF PicturesRead
  <1>4. SeenIds' = Before(next) \cup {DisplayIndex(next)}
    BY <1>1 DEF SeenIds, Before, DisplayIndex, Place, Gops
  <1>5. /\ \A k \in 1 .. Len(next.order) : next.order[k] \in 0 .. Len(next.order) - 1
        /\ \A j, k \in 1 .. Len(next.order) : next.order[j] = next.order[k] => j = k
    BY <1>1, OrdersHoldPlacesOnce DEF GopInv, S
  <1>6. DisplayIndex(next) \in Nat /\ DisplayIndex(next) >= next.first
    BY <1>1, <1>5 DEF DisplayIndex, Place, Gops
  <1>7. DisplayIndex(next) \notin Before(next)
    <2>1. ASSUME NEW k \in 1 .. next.done - 1, DisplayIndex(next) = next.first + next.order[k]
          PROVE  FALSE
      <3>1. k \in 1 .. Len(next.order) /\ k # next.done
        BY <1>1 DEF Gops
      <3>2. PICK a \in Nat, b \in Nat : a = next.order[k] /\ b = next.order[next.done]
        BY <1>1, <1>5, <3>1
      <3>3. next.first + a = next.first + b /\ next.first \in Nat
        BY <1>1, <2>1, <3>2 DEF DisplayIndex, Place, Gops
      <3>4. a = b
        BY <3>3
      <3>5. next.order[k] = next.order[next.done]
        BY <3>2, <3>4
      <3> QED
        BY <1>1, <1>5, <3>1, <3>5
    <2> QED
      BY <1>1, <1>6, <2>1 DEF Before, Gops
  <1> QED
    BY <1>1, <1>2, <1>3, <1>4, <1>6, <1>7

LEMMA SeenAreNat == GopInv => SeenIds \subseteq Nat /\ PicturesRead \in Nat
  <1> SUFFICES ASSUME GopInv PROVE SeenIds \subseteq Nat /\ PicturesRead \in Nat
    OBVIOUS
  <1>1. gop.first \in Nat /\ gop.order \in Seq(Nat) /\ gop.done \in Nat /\ gop.done <= Len(gop.order)
    BY DEF GopInv, Gops
  <1>2. \A k \in 1 .. gop.done : gop.order[k] \in Nat
    BY <1>1
  <1> QED
    BY SMTT(20), <1>1, <1>2 DEF SeenIds, PicturesRead

-----------------------------------------------------------------------------
(* Where the next picture belongs: to the group or to another.             *)

PlaceInv ==
  /\ gop.first + Len(gop.order) <= MaxPictures
  /\ IF gop.groups = 0 THEN gop.id = -1 ELSE gop.id \in Nat

GoesOn(next) ==
  /\ next.done # 1 /\ gop.groups # 0
  /\ next.first = gop.first /\ next.order = gop.order /\ next.done = gop.done + 1
  /\ next.id = gop.id /\ next.groups = gop.groups

StartsGroup(next) ==
  /\ next.done = 1
  /\ gop.done = Len(gop.order) /\ next.first = gop.first + Len(gop.order)
  /\ next.groups = gop.groups + 1
  /\ gop.groups = 0 => next.first = 0 /\ next.order[1] = 0 /\ next.id = 0

LEMMA NextPlace ==
  ASSUME GopInv, PlaceInv, NEW next \in ThisOrNextGop
  PROVE  /\ GoesOn(next) \/ StartsGroup(next)
         /\ next.first + Len(next.order) <= MaxPictures
         /\ next.id \in Nat
         /\ DisplayIndex(next) \in 0 .. MaxPictures - 1
  <1>1. /\ next \in Gops /\ next.order \in S.orders /\ next.done \in 1 .. Len(next.order)
    BY NextGop
  <1>2. gop \in Gops
    BY DEF GopInv
  <1>3. /\ GoesOn(next) \/ StartsGroup(next)
        /\ next.first + Len(next.order) <= MaxPictures
        /\ next.id \in Nat
    <2>1. CASE gop.done < Len(gop.order)
      <3>1. next = [gop EXCEPT !.done = @ + 1]
        BY <2>1 DEF ThisOrNextGop
      <3>2. gop.groups # 0 /\ gop.done # 0
        BY <2>1, <1>2 DEF GopInv, Gops
      <3>3. /\ next.first = gop.first /\ next.order = gop.order /\ next.done = gop.done + 1
            /\ next.id = gop.id /\ next.groups = gop.groups
        BY <3>1, <1>2 DEF Gops
      <3>4. next.done # 1
        BY <3>2, <3>3, <1>2 DEF Gops
      <3> QED
        BY <3>2, <3>3, <3>4 DEF GoesOn, PlaceInv
    <2>2. CASE ~(gop.done < Len(gop.order))
      <3>1. PICK o, i :
              /\ o \in S.orders /\ i \in Ids
              /\ PicturesRead + Len(o) <= MaxPictures
              /\ gop.groups = 0 => o[1] = 0
              /\ next = [first |-> PicturesRead, order |-> o, done |-> 1, id |-> i,
                         groups |-> gop.groups + 1]
        BY <2>2 DEF ThisOrNextGop
      <3>2. gop.done = Len(gop.order) /\ PicturesRead = gop.first + Len(gop.order)
        BY <2>2, <1>2 DEF GopInv, Gops, PicturesRead
      <3>3. i \in Nat /\ (gop.groups = 0 => i = 0)
        BY <3>1, BoundsAssumption DEF Ids
      <3>4. /\ next.first = PicturesRead /\ next.order = o /\ next.done = 1
            /\ next.id = i /\ next.groups = gop.groups + 1
        BY <3>1
      <3>5. gop.groups = 0 => next.first = 0
        BY <3>2, <3>4 DEF GopInv
      <3> QED
        BY <3>1, <3>2, <3>3, <3>4, <3>5 DEF StartsGroup
    <2> QED
      BY <2>1, <2>2
  <1>4. DisplayIndex(next) \in 0 .. MaxPictures - 1
    <2>1. next.order[next.done] \in 0 .. Len(next.order) - 1
      BY <1>1, OrdersHoldPlacesOnce DEF GopInv, S
    <2>2. PICK place \in 0 .. Len(next.order) - 1 : place = next.order[next.done]
      BY <2>1
    <2>3. next.first \in Nat /\ Len(next.order) \in Nat
      BY <1>1 DEF Gops
    <2> QED
      BY SMTT(20), <1>3, <2>2, <2>3, BoundsAssumption DEF DisplayIndex, Place
  <1> QED
    BY <1>3, <1>4

LEMMA ReadPlace ==
  ASSUME GopInv, PlaceInv, NEW next \in ThisOrNextGop, gop' = next
  PROVE  PlaceInv'
  <1>1. next.first + Len(next.order) <= MaxPictures /\ next.id \in Nat
    BY NextPlace
  <1>2. next.groups # 0
    BY NextGop
  <1> QED
    BY <1>1, <1>2 DEF PlaceInv

LEMMA InitPlace == CoderInit => PlaceInv
  <1>1. Len(<<>>) = 0
    OBVIOUS
  <1> QED
    BY <1>1, BoundsAssumption DEF CoderInit, PlaceInv

-----------------------------------------------------------------------------
(* The counts of HEVC.                                                     *)

(* A count split as the parser keeps it. *)
Parts(count, max) == [msb |-> count - (count % max), lsb |-> count % max]

(* The counts of the pictures of a stream, as ESFile passes them on: those *)
(* of the base codec but for what a first CRA does not say.                *)
HevcStart == S.start % MaxLsb(S)

(* The parser behind the picture that g is at. *)
HevcAt(g, d) ==
  IF g.groups = 0 THEN d = HEVC!New
  ELSE /\ d \in HEVC!Parsers /\ ~d.thrown /\ ~d.firstPicture
       /\ g.id < MaxSPSCount /\ g.id < MaxPPSCount
       /\ d.activeSPS = g.id
       /\ d.sps[g.id].log2MaxLsb = S.sps.log2MaxLsb
       /\ ~d.pps[g.id].dependentSlices
       /\ \E j \in 1 .. g.done :
            /\ LastAnchor(S, g.order, g.done + 1, j)
            /\ d.prevTid0 = Parts(HevcStart + g.first + g.order[j], MaxLsb(S))

(* What CountsAssumption says of the stream. *)
LEMMA HevcStream ==
  ASSUME GopInv, Codec = "HEVC"
  PROVE  /\ S.start \in Nat /\ S.sps \in HEVC!SPSSyntax /\ S.pps \in HEVC!PPSSyntax
         /\ MaxLsb(S) \in Nat \ {0} /\ HevcStart \in Nat /\ HevcStart <= S.start
         /\ HevcStart + MaxPictures <= Word
         /\ \A o \in S.orders : \A j \in DOMAIN o :
              /\ \A k \in DOMAIN o : LastAnchor(S, o, k, j) => Near(S, o[k] - o[j])
              /\ LastAnchor(S, o, Len(o) + 1, j) =>
                   \A next \in S.orders : Near(S, Len(o) + next[1] - o[j])
  <1>1. stream \in DOMAIN Streams /\ S.codec # "AVC"
    BY DEF GopInv, Codec
  <1>2. /\ S.start \in Nat /\ S.sps \in HEVC!SPSSyntax /\ S.pps \in HEVC!PPSSyntax
    BY <1>1, StreamsAssumption DEF S
  <1>3. /\ MaxLsb(S) \in Nat \ {0} /\ S.start + MaxPictures <= Word
        /\ \A o \in S.orders : \A j \in DOMAIN o :
             /\ \A k \in DOMAIN o : LastAnchor(S, o, k, j) => Near(S, o[k] - o[j])
             /\ LastAnchor(S, o, Len(o) + 1, j) =>
                  \A next \in S.orders : Near(S, Len(o) + next[1] - o[j])
    BY <1>1, CountsAssumption DEF S
  <1>4. HevcStart \in Nat /\ HevcStart <= S.start
    <2>1. PICK m \in Nat \ {0} : m = MaxLsb(S)
      BY <1>3
    <2>2. PICK c \in Nat : c = S.start
      BY <1>2
    <2>3. c % m \in 0 .. m - 1 /\ c \div m \in Nat /\ c = m * (c \div m) + (c % m)
      BY DivMod
    <2>4. m * (c \div m) \in Nat
      BY <2>3
    <2>5. c % m <= c
      BY <2>3, <2>4
    <2> QED
      BY <2>1, <2>2, <2>3, <2>5 DEF HevcStart
  <1> QED
    BY <1>2, <1>3, <1>4, BoundsAssumption

(* The NAL unit type says how the count is found. *)
LEMMA HevcTypeSays ==
  ASSUME NEW next, next.done = 1 \/ next.order[next.done] # next.order[1],
         next.order[next.done] \in Int, next.order[1] \in Int, Reference(next.order, next.done) \in BOOLEAN,
         NEW type, type = HevcType(next)
  PROVE  /\ type \in Nat /\ HEVC!NalClass(type) = "Slice" /\ ~HEVC!isBla(type)
         /\ HEVC!isIdr(type) <=> next.done = 1 /\ next.groups = 1 /\ S.start = 0
         /\ HEVC!isIrap(type) <=> next.done = 1
         /\ Anchor(S, next.order, next.done) <=>
              /\ ~HEVC!isRasl(type) /\ ~HEVC!isRadl(type)
              /\ ~HEVC!isSubLayerNonReferencePicture(type)
  <1> USE DEF HEVC!NalClass, HEVC!isBla, HEVC!isIdr, HEVC!isIrap, HEVC!isRasl, HEVC!isRadl,
              HEVC!isSubLayerNonReferencePicture, HEVC!IDR_W_RADL, HEVC!CRA
  <1>1. CASE next.done = 1
    <2>1. type = IF next.groups = 1 /\ S.start = 0 THEN 19 ELSE 21
      BY <1>1 DEF HevcType
    <2>2. Anchor(S, next.order, next.done)
      BY <1>1 DEF Anchor
    <2> QED
      BY <1>1, <2>1, <2>2
  <1>2. CASE next.done # 1
    <2> DEFINE leading == next.order[next.done] < next.order[1]
               ref == Reference(next.order, next.done)
    <2>1. type = (IF leading THEN 8 ELSE 0) + (IF ref THEN 1 ELSE 0)
      BY <1>2 DEF HevcType, Place
    <2>2. Anchor(S, next.order, next.done) <=> ~leading /\ ref
      BY <1>2 DEF Anchor, Reference
    <2> HIDE DEF leading, ref
    <2>3. leading \in BOOLEAN /\ ref \in BOOLEAN
      BY DEF leading, ref
    <2>4. \/ leading /\ ref /\ type = 9
          \/ leading /\ ~ref /\ type = 8
          \/ ~leading /\ ref /\ type = 1
          \/ ~leading /\ ~ref /\ type = 0
      BY <2>1, <2>3
    <2>5. CASE type = 9 /\ leading
      BY <1>2, <2>2, <2>5
    <2>6. CASE type = 8 /\ leading
      BY <1>2, <2>2, <2>6
    <2>7. CASE type = 1 /\ ~leading /\ ref
      BY <1>2, <2>2, <2>7
    <2>8. CASE type = 0 /\ ~ref
      BY <1>2, <2>2, <2>8
    <2> QED
      BY <2>4, <2>5, <2>6, <2>7, <2>8
  <1> QED
    BY <1>1, <1>2

(* Which picture is the last that later ones are counted from. *)
LEMMA NextAnchor ==
  ASSUME NEW s, NEW o, NEW k \in Nat \ {0}
  PROVE  /\ Anchor(s, o, k) => LastAnchor(s, o, k + 1, k)
         /\ \A j \in Nat : LastAnchor(s, o, k, j) /\ ~Anchor(s, o, k) => LastAnchor(s, o, k + 1, j)
  BY DEF LastAnchor

LEMMA HevcReads ==
  ASSUME Codec = "HEVC", GopInv, PlaceInv, HevcAt(gop, parser),
         NEW next \in ThisOrNextGop, NEW p, p = ParsedUnits(NalUnits(next))
  PROVE  /\ p \in HEVC!Parsers
         /\ p.thrown => StartsGroup(next)
         /\ ~p.thrown =>
              /\ p.poc = HevcStart + DisplayIndex(next) /\ p.slice.type = SliceType(next)
              /\ HevcAt(next, p)
  <1>1. /\ next \in Gops /\ next.order \in S.orders /\ next.done \in 1 .. Len(next.order)
        /\ next.groups # 0
    BY NextGop
  <1>2. /\ GoesOn(next) \/ StartsGroup(next)
        /\ next.id \in Nat /\ DisplayIndex(next) \in 0 .. MaxPictures - 1
    BY NextPlace
  <1>3. /\ S.sps \in HEVC!SPSSyntax /\ S.pps \in HEVC!PPSSyntax
        /\ MaxLsb(S) \in Nat \ {0} /\ HevcStart \in Nat
        /\ HevcStart + MaxPictures <= Word /\ S.start \in Nat
    BY HevcStream
  <1>4. parser \in HEVC!Parsers /\ ~parser.thrown
    BY HevcNewTyped DEF HevcAt
  <1>5. PICK q \in HEVC!Parsers :
           /\ p = IF q.thrown THEN q ELSE HEVC!ParseNalUnit(q, HevcSlice(next))
           /\ q.thrown => next.id # gop.id
           /\ ~q.thrown =>
                /\ q.firstPicture = parser.firstPicture /\ q.prevTid0 = parser.prevTid0
                /\ IF next.id = gop.id
                     THEN q.sps = parser.sps /\ q.activeSPS = parser.activeSPS /\ q.pps = parser.pps
                     ELSE /\ next.id < MaxSPSCount /\ next.id < MaxPPSCount
                          /\ q.activeSPS = next.id
                          /\ q.sps[next.id].log2MaxLsb = S.sps.log2MaxLsb
                          /\ ~q.pps[next.id].dependentSlices
    BY <1>2, <1>3, <1>4, HevcUnitsRead
  <1>6. CASE q.thrown
    <2>1. p = q /\ ~GoesOn(next)
      BY <1>5, <1>6 DEF GoesOn
    <2> QED
      BY <1>2, <1>6, <2>1
  <1>7. CASE ~q.thrown
    <2>1. /\ next.id < MaxSPSCount /\ next.id < MaxPPSCount
          /\ q.activeSPS = next.id /\ q.sps[next.id].log2MaxLsb = S.sps.log2MaxLsb
          /\ ~q.pps[next.id].dependentSlices
      <3>1. CASE next.id = gop.id
        <4>1. gop.groups # 0
          BY <1>2, <3>1 DEF PlaceInv
        <4> QED
          BY <1>5, <1>7, <3>1, <4>1 DEF HevcAt
      <3> QED
        BY <1>5, <1>7, <3>1
    <2> DEFINE type == HevcType(next)
               c == HevcStart + DisplayIndex(next)
               m == MaxLsb(S)
    <2>2. PICK s : s = HevcSlice(next).syntax
      OBVIOUS
    <2>3. /\ HevcSlice(next) = HevcSliceUnit(type, s)
          /\ s.type = SliceType(next) /\ s.pps = next.id /\ s.firstInPicture
          /\ s.lsb = HevcCount(next) % m
      BY <2>2 DEF HevcSlice, HevcSliceUnit
    <2>4. c \in Nat /\ c < Word
      BY <1>2, <1>3, BoundsAssumption
    <2>5. s.lsb = c % m /\ s.lsb \in 0 .. m - 1
      <3>1. HevcCount(next) % m = c % m
        <4>1. PICK a \in Nat, b \in Nat : a = S.start /\ b = DisplayIndex(next)
          BY <1>2, <1>3
        <4>2. PICK n \in Nat \ {0} : n = m
          BY <1>3
        <4>3. (a + b) % n = ((a % n) + b) % n
          BY LowPart
        <4> QED
          BY <4>1, <4>2, <4>3 DEF HevcCount, HevcStart
      <3>2. c % m \in 0 .. m - 1
        BY <1>3, <2>4, DivMod
      <3> QED
        BY <2>3, <3>1, <3>2
    <2>6. /\ next.order[next.done] \in Int /\ next.order[1] \in Int
          /\ next.done = 1 \/ next.order[next.done] # next.order[1]
      <3>1. PICK o : o = next.order
        OBVIOUS
      <3>2. o \in Seq(Nat) /\ \A j, k \in 1 .. Len(o) : o[j] = o[k] => j = k
        BY <1>1, <3>1, OrdersHoldPlacesOnce DEF GopInv, S
      <3>3. PICK k \in 1 .. Len(o) : k = next.done
        BY <1>1, <3>1
      <3>4. 1 \in 1 .. Len(o)
        BY <3>2, <3>3
      <3> QED
        BY <3>1, <3>2, <3>3, <3>4
    <2>7. /\ type \in Nat /\ HEVC!NalClass(type) = "Slice" /\ ~HEVC!isBla(type)
          /\ HEVC!isIdr(type) <=> next.done = 1 /\ next.groups = 1 /\ S.start = 0
          /\ HEVC!isIrap(type) <=> next.done = 1
          /\ Anchor(S, next.order, next.done) <=>
               /\ ~HEVC!isRasl(type) /\ ~HEVC!isRadl(type)
               /\ ~HEVC!isSubLayerNonReferencePicture(type)
      <3>1. Reference(next.order, next.done) \in BOOLEAN
        <4>1. S.bReferences \in BOOLEAN
          BY StreamsAssumption DEF S, GopInv
        <4> QED
          BY <4>1 DEF Reference, ReferenceIn
      <3> QED
        BY <2>6, <3>1, HevcTypeSays
    <2>8. p \in HEVC!Parsers /\ p.nalType = type /\ HevcSliceRead(q, type, s, p)
      <3>1. q.activeSPS \in 0 .. MaxSPSCount - 1
        BY <1>2, <2>1, BoundsAssumption
      <3>2. s.type \in HEVC!SliceTypes /\ s.lsb \in Nat
        BY <2>3, <2>5 DEF SliceType, HEVC!SliceTypes
      <3>3. p = HEVC!ParseNalUnit(q, HevcSliceUnit(type, s))
        BY <1>5, <1>7, <2>3
      <3> QED
        BY <1>7, <2>1, <2>3, <2>7, <3>1, <3>2, <3>3, HevcSliceReads
    <2> DEFINE lsb  == IF HEVC!isIdr(type) THEN 0 ELSE s.lsb
               prev == IF HEVC!isIdr(type) THEN [msb |-> 0, lsb |-> 0] ELSE q.prevTid0
               msb  == IF HEVC!isIrap(type) /\ (HEVC!isIdr(type) \/ HEVC!isBla(type) \/ q.firstPicture)
                         THEN 0 ELSE CountMsb(lsb, prev, m)
    <2>9. /\ ~p.thrown /\ ~p.firstPicture
          /\ p.sps = q.sps /\ p.activeSPS = q.activeSPS /\ p.pps = q.pps
          /\ p.slice.type = SliceType(next)
          /\ p.poc = (msb + lsb) % Word
          /\ p.prevTid0 = IF Anchor(S, next.order, next.done) THEN [msb |-> msb, lsb |-> lsb] ELSE prev
      <3>1. 2^(q.sps[q.activeSPS].log2MaxLsb) = m
        BY <2>1 DEF MaxLsb
      <3> QED
        BY <2>3, <2>7, <2>8, <3>1 DEF HevcSliceRead
    (* The count before it that this one is found from. *)
    <2>10. /\ msb = c - (c % m) /\ lsb = c % m
           /\ GoesOn(next) => ~HEVC!isIdr(type)
      <3>1. CASE gop.groups = 0
        <4>1. next.done = 1 /\ next.groups = 1 /\ DisplayIndex(next) = 0 /\ q.firstPicture
          BY <1>2, <1>5, <1>7, <3>1 DEF GoesOn, StartsGroup, DisplayIndex, Place, HevcAt, HEVC!New
        <4>2. c = HevcStart /\ c = c % m /\ msb = 0
          <5>1. PICK a \in Nat, n \in Nat \ {0} : a = S.start /\ n = m
            BY <1>3
          <5>2. a % n \in 0 .. n - 1
            BY DivMod
          <5>3. (a % n) % n = a % n
            BY <5>2
          <5>4. c = HevcStart
            BY <1>3, <4>1
          <5> QED
            BY <2>7, <4>1, <5>1, <5>3, <5>4 DEF HevcStart
        <4>3. HEVC!isIdr(type) => c % m = 0
          <5>1. ASSUME S.start = 0 PROVE HevcStart = 0
            <6>1. PICK n \in Nat \ {0} : n = m
              BY <1>3
            <6>2. 0 % n = 0
              OBVIOUS
            <6> QED
              BY <5>1, <6>1, <6>2 DEF HevcStart
          <5> QED
            BY <2>7, <4>2, <5>1
        <4> QED
          BY <2>4, <2>5, <3>1, <4>2, <4>3 DEF GoesOn
      <3>2. CASE gop.groups # 0
        <4>1. PICK j \in 1 .. gop.done :
                /\ LastAnchor(S, gop.order, gop.done + 1, j)
                /\ parser.prevTid0 = Parts(HevcStart + gop.first + gop.order[j], m)
          BY <3>2 DEF HevcAt
        <4>2. /\ gop.order \in S.orders /\ gop.first \in Nat /\ gop.done \in Nat \ {0}
              /\ gop.done <= Len(gop.order) /\ gop.groups \in Nat /\ Len(gop.order) \in Nat
          BY <3>2 DEF GopInv, Gops
        <4>3. next.groups # 1 \/ GoesOn(next)
          BY <1>2, <3>2, <4>2 DEF StartsGroup
        <4>4. ~HEVC!isIdr(type) /\ ~q.firstPicture
          <5>1. ~HEVC!isIdr(type)
            BY <2>7, <4>3 DEF GoesOn
          <5> QED
            BY <1>5, <1>7, <3>2, <5>1 DEF HevcAt
        <4>5. PICK place \in Nat : place = gop.order[j]
          BY <4>1, <4>2, OrdersHoldPlacesOnce DEF GopInv, S
        <4>6. PICK a \in Nat : a = HevcStart + gop.first + place
          BY <1>3, <4>2, <4>5
        <4>7. Near(S, c - a)
          <5>0. gop.order \in Seq(Nat) /\ j \in DOMAIN gop.order
            BY <4>1, <4>2, OrdersHoldPlacesOnce DEF GopInv, S
          <5>1. CASE GoesOn(next)
            <6>1. next.done \in DOMAIN gop.order /\ LastAnchor(S, gop.order, next.done, j)
              BY <1>1, <4>1, <5>0, <5>1 DEF GoesOn
            <6>2. Near(S, gop.order[next.done] - gop.order[j])
              BY <4>2, <5>0, <6>1, HevcStream
            <6>3. PICK here \in Nat : here = gop.order[next.done]
              BY <5>0, <6>1
            <6>4. c - a = here - place
              <7>1. PICK h \in Nat, f \in Nat : h = HevcStart /\ f = gop.first
                BY <1>3, <4>2
              <7>2. DisplayIndex(next) = f + here
                BY <5>1, <6>3, <7>1 DEF GoesOn, DisplayIndex, Place
              <7>3. c = h + (f + here) /\ a = h + f + place
                BY <4>6, <7>1, <7>2
              <7> HIDE DEF c
              <7> QED
                BY <4>5, <6>3, <7>1, <7>3
            <6> QED
              BY <4>5, <6>2, <6>3, <6>4
          <5>2. CASE StartsGroup(next)
            <6>1. LastAnchor(S, gop.order, Len(gop.order) + 1, j)
              BY <4>1, <5>2 DEF StartsGroup
            <6>2. Near(S, Len(gop.order) + next.order[1] - gop.order[j])
              BY <1>1, <4>2, <5>0, <6>1, HevcStream
            <6>3. PICK here \in Nat : here = next.order[1]
              BY SMTT(20), <1>1, OrdersHoldPlacesOnce DEF GopInv, S, Gops
            <6>4. c - a = Len(gop.order) + here - place
              <7>1. PICK h \in Nat, f \in Nat, n \in Nat : h = HevcStart /\ f = gop.first /\ n = Len(gop.order)
                BY <1>3, <4>2
              <7>2. DisplayIndex(next) = f + n + here
                BY <5>2, <6>3, <7>1 DEF StartsGroup, DisplayIndex, Place
              <7>3. c = h + (f + n + here) /\ a = h + f + place
                BY <4>6, <7>1, <7>2
              <7> HIDE DEF c
              <7>4. h + (f + n + here) - (h + f + place) = n + here - place
                BY Distance
              <7>5. c - a = n + here - place
                BY <7>3, <7>4
              <7> QED
                BY <7>1, <7>5
            <6> QED
              BY <4>5, <6>2, <6>3, <6>4
          <5> QED
            BY <1>2, <5>1, <5>2
        <4>8. prev.msb = a - (a % m) /\ prev.lsb = a % m
          BY <1>5, <1>7, <4>1, <4>4, <4>5, <4>6 DEF Parts
        <4>9. CountMsb(c % m, prev, m) = c - (c % m)
          <5>1. PICK n \in Nat \ {0} : n = m
            BY <1>3
          <5>2. -(n \div 2) < c - a /\ c - a < n \div 2
            BY <4>7, <5>1 DEF Near
          <5> HIDE DEF prev, c, m
          <5>3. CountMsb(c % n, prev, n) = c - (c % n)
            <6>1. c \in Nat /\ c < Word /\ Word \in Nat \ {0}
              BY <2>4, BoundsAssumption
            <6>2. prev.msb = a - (a % n) /\ prev.lsb = a % n
              BY <4>8, <5>1
            <6> QED
              BY <5>2, <6>1, <6>2, MsbOfCount
          <5> QED
            BY <5>1, <5>3
        <4> QED
          BY <2>5, <2>7, <4>4, <4>9
      <3> QED
        BY <3>1, <3>2
    <2> HIDE DEF msb, lsb, c, m
    <2>11. p.poc = c
      <3>1. PICK x \in Nat, n \in Nat : x = c % m /\ n = c
        BY <2>4, <2>5
      <3>2. msb + lsb = n /\ n < Word
        BY <2>4, <2>10, <3>1
      <3>3. n % Word = n
        BY <3>2, BoundsAssumption
      <3> QED
        BY <2>9, <3>1, <3>2, <3>3
    <2>12. \E j \in 1 .. next.done :
             /\ LastAnchor(S, next.order, next.done + 1, j)
             /\ p.prevTid0 = Parts(HevcStart + next.first + next.order[j], m)
      <3>1. CASE Anchor(S, next.order, next.done)
        <4>1. LastAnchor(S, next.order, next.done + 1, next.done)
          BY <1>1, <3>1, NextAnchor
        <4>2. p.prevTid0 = Parts(c, m)
          BY <2>9, <2>10, <3>1 DEF Parts
        <4>3. c = HevcStart + next.first + next.order[next.done]
          <5>1. next.first \in Nat /\ HevcStart \in Nat /\ next.order[next.done] \in Int
            BY <1>1, <1>3, <2>6 DEF Gops
          <5> QED
            BY <5>1 DEF c, DisplayIndex, Place
        <4>4. next.done \in 1 .. next.done
          BY <1>1
        <4> QED
          BY <4>1, <4>2, <4>3, <4>4
      <3>2. CASE ~Anchor(S, next.order, next.done)
        <4>1. next.done # 1
          BY <3>2 DEF Anchor
        <4>2. GoesOn(next)
          BY <1>2, <4>1 DEF StartsGroup
        <4>3. PICK j \in 1 .. gop.done :
                /\ LastAnchor(S, gop.order, gop.done + 1, j)
                /\ parser.prevTid0 = Parts(HevcStart + gop.first + gop.order[j], m)
          BY <4>2 DEF HevcAt, GoesOn, m
        <4>4. LastAnchor(S, next.order, next.done + 1, j)
          BY <1>1, <3>2, <4>2, <4>3, NextAnchor DEF GoesOn
        <4>5. p.prevTid0 = parser.prevTid0
          BY <1>5, <1>7, <2>9, <2>10, <3>2, <4>2
        <4>6. gop.done \in Nat /\ next.done = gop.done + 1
          BY <4>2 DEF GoesOn, GopInv, Gops
        <4>7. j \in 1 .. next.done
          BY <4>3, <4>6
        <4> QED
          BY <4>2, <4>3, <4>4, <4>5, <4>7 DEF GoesOn
      <3> QED
        BY <3>1, <3>2
    <2>13. HevcAt(next, p)
      BY <1>1, <2>1, <2>8, <2>9, <2>12 DEF HevcAt, m
    <2> QED
      BY <2>8, <2>9, <2>11, <2>13 DEF c
  <1> QED
    BY <1>6, <1>7

-----------------------------------------------------------------------------
(* The counts of AVC.                                                      *)

(* What CountsAssumption says of the stream. *)
LEMMA AvcStream ==
  ASSUME GopInv, Codec = "AVC"
  PROVE  /\ S.sps \in AVC!SPSSyntax /\ S.pps \in AVC!PPSSyntax
         /\ MaxLsb(S) \in Nat \ {0} /\ MaxFrameNum(S) \in Nat \ {0, 1}
         /\ 2 * MaxPictures <= Word
         /\ \A o \in S.orders :
              /\ o[1] = 0
              /\ IF S.sps.pocType = 2 THEN \A k \in DOMAIN o : o[k] = k - 1
                 ELSE \A j, k \in DOMAIN o : LastAnchor(S, o, k, j) => Near(S, 2 * (o[k] - o[j]))
  <1>1. stream \in DOMAIN Streams /\ S.codec = "AVC"
    BY DEF GopInv, Codec
  <1>2. /\ S.sps \in AVC!SPSSyntax /\ S.pps \in AVC!PPSSyntax
        /\ \A o \in S.orders : o[1] = 0
    BY <1>1, StreamsAssumption DEF S
  <1>3. /\ MaxLsb(S) \in Nat \ {0} /\ MaxFrameNum(S) \in Nat \ {0, 1}
        /\ 2 * MaxPictures <= Word
        /\ \A o \in S.orders :
             IF S.sps.pocType = 2 THEN \A k \in DOMAIN o : o[k] = k - 1
             ELSE \A j, k \in DOMAIN o : LastAnchor(S, o, k, j) => Near(S, 2 * (o[k] - o[j]))
    BY <1>1, CountsAssumption DEF S
  <1> QED
    BY <1>2, <1>3

(* The parser behind the picture that g is at.  The number of the frame is *)
(* that of the group's pictures before it, as all are references.          *)
AvcAt(g, d) ==
  IF g.groups = 0 THEN d = AVC!New
  ELSE /\ d \in AVC!Parsers /\ ~d.thrown /\ FramesOnly(d)
       /\ g.id < MaxSPSCount /\ g.id < MaxPPSCount
       /\ d.activeSPS = g.id /\ d.pps[g.id].sps = g.id
       /\ d.sps[g.id].pocType = S.sps.pocType
       /\ d.sps[0].log2MaxFrameNum = S.sps.log2MaxFrameNum
       /\ IF S.sps.pocType = 0
            THEN /\ d.sps[g.id].log2MaxLsb = S.sps.log2MaxLsb
                 /\ \E j \in 1 .. g.done :
                      /\ LastAnchor(S, g.order, g.done + 1, j)
                      /\ d.refPic.msb = Parts(2 * g.order[j], MaxLsb(S)).msb
                      /\ d.refPic.lsb = Parts(2 * g.order[j], MaxLsb(S)).lsb
            ELSE /\ d.refPic.frameNum = (g.done - 1) % MaxFrameNum(S)
                 /\ d.refPic.frameNumOffset = Parts(g.done - 1, MaxFrameNum(S)).msb

(* An AVC picture and what the parser makes of its slice. *)
LEMMA AvcSliceTyped ==
  ASSUME Codec = "AVC", GopInv,
         NEW next \in ThisOrNextGop, next.id \in Nat,
         NEW s, s = AvcSlice(next).syntax
  PROVE  /\ AvcSlice(next) = AvcSliceUnit(IF next.done = 1 THEN 5 ELSE 1,
                               IF Reference(next.order, next.done) THEN 2 ELSE 0, s)
         /\ s \in FrameSlices /\ s.pps = next.id /\ s.type = SliceType(next)
         /\ s.lsb = (2 * Place(next)) % MaxLsb(S)
         /\ S.sps.pocType = 2 =>
              Reference(next.order, next.done) /\ s.frameNum = (next.done - 1) % MaxFrameNum(S)
  <1>1. /\ next \in Gops /\ next.order \in S.orders /\ next.done \in 1 .. Len(next.order)
    BY NextGop
  <1>2. next.order \in Seq(Nat) /\ Place(next) \in Nat
    BY <1>1, OrdersHoldPlacesOnce DEF GopInv, S, Place
  <1>3. MaxLsb(S) \in Nat \ {0} /\ MaxFrameNum(S) \in Nat \ {0}
    BY AvcStream
  <1> DEFINE before == {i \in 1 .. next.done - 1 : Reference(next.order, i)}
  <1>4. /\ IsFiniteSet(1 .. next.done - 1) /\ Cardinality(1 .. next.done - 1) = next.done - 1
    <2>1. PICK n \in Nat \ {0} : n = next.done
      BY <1>1
    <2>2. 1 \in Int /\ n - 1 \in Int
      BY <2>1
    <2>3. /\ IsFiniteSet(1 .. n - 1)
          /\ Cardinality(1 .. n - 1) = IF 1 > n - 1 THEN 0 ELSE n - 1 - 1 + 1
      BY <2>2, FS_Interval
    <2> QED
      BY <2>1, <2>3
  <1>5. Cardinality(before) \in Nat
    <2>1. before \subseteq 1 .. next.done - 1
      OBVIOUS
    <2> QED
      BY <1>4, <2>1, FS_Subset, FS_CardinalityType
  <1>6. s.frameNum = Cardinality(before) % MaxFrameNum(S) /\ s.frameNum \in Nat
    <2>1. s.frameNum = Cardinality(before) % MaxFrameNum(S)
      BY DEF AvcSlice
    <2> HIDE DEF before
    <2>2. Cardinality(before) % MaxFrameNum(S) \in 0 .. MaxFrameNum(S) - 1
      BY <1>3, <1>5, DivMod
    <2> QED
      BY <1>3, <2>1, <2>2
  <1>7. s.lsb = (2 * Place(next)) % MaxLsb(S) /\ s.lsb \in Nat
    <2>1. s.lsb = (2 * Place(next)) % MaxLsb(S)
      BY DEF AvcSlice
    <2>2. 2 * Place(next) \in Nat
      BY <1>2
    <2>3. (2 * Place(next)) % MaxLsb(S) \in 0 .. MaxLsb(S) - 1
      BY <1>3, <2>2, DivMod
    <2> QED
      BY <1>3, <2>1, <2>3
  <1>8. s \in FrameSlices
    <2>1. PICK fn \in Nat, lsb \in Nat, ty \in AVC!SliceTypes :
            s = [type |-> ty, pps |-> next.id, fieldPic |-> FALSE, bottom |-> FALSE,
                 frameNum |-> fn, lsb |-> lsb, deltaBottom |-> 1, mmco5 |-> FALSE]
      <3>1. SliceType(next) \in AVC!SliceTypes
        BY DEF SliceType, AVC!SliceTypes
      <3>2. s = [type |-> SliceType(next), pps |-> next.id, fieldPic |-> FALSE, bottom |-> FALSE,
                 frameNum |-> s.frameNum, lsb |-> s.lsb, deltaBottom |-> 1, mmco5 |-> FALSE]
        BY DEF AvcSlice
      <3> QED
        BY <1>6, <1>7, <3>1, <3>2
    <2> QED
      BY <2>1 DEF FrameSlices
  <1>9. ASSUME S.sps.pocType = 2
        PROVE  Reference(next.order, next.done) /\ s.frameNum = (next.done - 1) % MaxFrameNum(S)
    <2>1. PICK o : o = next.order
      OBVIOUS
    <2>2. \A k \in 1 .. Len(o) : o[k] = k - 1
      BY <1>1, <1>2, <1>9, <2>1, AvcStream
    <2>3. \A i \in 1 .. Len(o) : ~Reordered(o, i)
      <3>1. ASSUME NEW i \in 1 .. Len(o), NEW j \in 1 .. i - 1 PROVE ~(o[j] > o[i])
        <4>1. Len(o) \in Nat
          BY <1>2, <2>1
        <4>2. i \in Nat /\ j \in Nat /\ j < i /\ j \in 1 .. Len(o)
          BY <4>1
        <4>3. o[i] = i - 1 /\ o[j] = j - 1
          BY <2>2, <4>2
        <4> QED
          BY <4>2, <4>3
      <3> QED
        BY <3>1 DEF Reordered
    <2>4. \A i \in 1 .. Len(o) : Reference(o, i)
      BY <2>3 DEF Reference, ReferenceIn
    <2>5. before = 1 .. next.done - 1
      <3>1. Len(o) \in Nat
        BY <1>2, <2>1
      <3> QED
        BY <1>1, <2>1, <2>4, <3>1
    <2> QED
      BY <1>1, <1>4, <1>6, <2>1, <2>4, <2>5
  <1>10. AvcSlice(next) = AvcSliceUnit(IF next.done = 1 THEN 5 ELSE 1,
                            IF Reference(next.order, next.done) THEN 2 ELSE 0, s)
    BY DEF AvcSlice, AvcSliceUnit, AVC!CodedSlice_IDR
  <1>11. s.pps = next.id /\ s.type = SliceType(next)
    BY DEF AvcSlice
  <1> QED
    BY <1>7, <1>8, <1>9, <1>10, <1>11

LEMMA AvcReads ==
  ASSUME Codec = "AVC", GopInv, PlaceInv, AvcAt(gop, parser),
         NEW next \in ThisOrNextGop, NEW p, p = ParsedUnits(NalUnits(next))
  PROVE  /\ p \in AVC!Parsers
         /\ p.thrown => StartsGroup(next)
         /\ ~p.thrown =>
              /\ p.poc = 2 * Place(next)
              /\ p.slice.type = SliceType(next) /\ p.slice.idr = (next.done = 1)
              /\ AvcAt(next, p)
  <1>1. /\ next \in Gops /\ next.order \in S.orders /\ next.done \in 1 .. Len(next.order)
        /\ next.groups # 0
    BY NextGop
  <1>2. /\ GoesOn(next) \/ StartsGroup(next)
        /\ next.id \in Nat /\ next.first + Len(next.order) <= MaxPictures
    BY NextPlace
  <1>3. /\ S.sps \in AVC!SPSSyntax /\ S.pps \in AVC!PPSSyntax
        /\ MaxLsb(S) \in Nat \ {0} /\ MaxFrameNum(S) \in Nat \ {0, 1}
        /\ 2 * MaxPictures <= Word
    BY AvcStream
  <1>4. parser \in AVC!Parsers /\ ~parser.thrown /\ FramesOnly(parser)
    <2>1. FramesOnly(AVC!New)
      BY DEF FramesOnly, AVC!New
    <2> QED
      BY <2>1, AvcNewTyped DEF AvcAt
  <1>5. PICK q \in AVC!Parsers :
           /\ p = IF q.thrown THEN q ELSE AVC!ParseNalUnit(q, AvcSlice(next))
           /\ q.thrown => next.id # gop.id
           /\ ~q.thrown =>
                /\ q.slice = parser.slice /\ q.refPic = parser.refPic
                /\ IF next.id = gop.id
                     THEN q.sps = parser.sps /\ q.activeSPS = parser.activeSPS /\ q.pps = parser.pps
                     ELSE /\ next.id < MaxSPSCount /\ next.id < MaxPPSCount
                          /\ q.activeSPS = next.id /\ q.pps[next.id].sps = next.id
                          /\ q.sps[next.id].pocType = S.sps.pocType
                          /\ S.sps.pocType = 0 => q.sps[next.id].log2MaxLsb = S.sps.log2MaxLsb
                          /\ q.sps[next.id].log2MaxFrameNum = S.sps.log2MaxFrameNum
                          /\ next.id # 0 => q.sps[0] = parser.sps[0]
    BY <1>2, <1>3, <1>4, AvcUnitsRead
  <1>6. CASE q.thrown
    <2>1. p = q /\ ~GoesOn(next)
      BY <1>5, <1>6 DEF GoesOn
    <2> QED
      BY <1>2, <1>6, <2>1
  <1>7. CASE ~q.thrown
    <2>1. /\ next.id < MaxSPSCount /\ next.id < MaxPPSCount
          /\ q.activeSPS = next.id /\ q.pps[next.id].sps = next.id
          /\ q.sps[next.id].pocType = S.sps.pocType
          /\ S.sps.pocType = 0 => q.sps[next.id].log2MaxLsb = S.sps.log2MaxLsb
          /\ q.sps[0].log2MaxFrameNum = S.sps.log2MaxFrameNum
      <3>1. CASE next.id = gop.id
        <4>1. gop.groups # 0
          BY <1>2, <3>1 DEF PlaceInv
        <4> QED
          BY <1>5, <1>7, <3>1, <4>1 DEF AvcAt
      <3>2. CASE next.id # gop.id
        <4>1. gop.groups = 0 => next.id = 0
          BY <1>2 DEF GoesOn, StartsGroup
        <4>2. q.sps[0].log2MaxFrameNum = S.sps.log2MaxFrameNum
          BY <1>5, <1>7, <3>2, <4>1 DEF AvcAt
        <4> QED
          BY <1>5, <1>7, <3>2, <4>2
      <3> QED
        BY <3>1, <3>2
    <2>2. PICK s : s = AvcSlice(next).syntax
      OBVIOUS
    <2> DEFINE type == IF next.done = 1 THEN 5 ELSE 1
               ref == IF Reference(next.order, next.done) THEN 2 ELSE 0
               m == MaxLsb(S)
               F == MaxFrameNum(S)
               c == 2 * Place(next)
    <2>3. /\ AvcSlice(next) = AvcSliceUnit(type, ref, s)
          /\ s \in FrameSlices /\ s.pps = next.id /\ s.type = SliceType(next)
          /\ s.lsb = c % m
          /\ S.sps.pocType = 2 => ref # 0 /\ s.frameNum = (next.done - 1) % F
      BY <1>2, <2>2, AvcSliceTyped
    <2>4. S.sps.pocType \in {0, 2}
      BY <1>3 DEF AVC!SPSSyntax
    <2>5. /\ next.order \in Seq(Nat) /\ Place(next) \in 0 .. MaxPictures - 1
          /\ c \in Nat /\ c + 1 < Word /\ 2 * (next.done - 1) < Word
          /\ Place(next) = next.order[next.done]
          /\ next.done = 1 => c = 0
      <3>1. /\ next.order \in Seq(Nat) /\ next.order[next.done] \in 0 .. Len(next.order) - 1
            /\ next.first \in Nat /\ next.order[1] = 0
        BY <1>1, OrdersHoldPlacesOnce, AvcStream DEF GopInv, S, Gops
      <3>2. PICK n \in Nat, place \in Nat : n = Len(next.order) /\ place = Place(next) /\ place < n
        BY <3>1 DEF Place
      <3>3. n <= MaxPictures
        BY <1>2, <3>1, <3>2, BoundsAssumption
      <3>4. 2 * place + 1 < Word /\ 2 * (next.done - 1) < Word
        BY <1>1, <1>3, <3>2, <3>3, BoundsAssumption
      <3>5. next.done = 1 => place = 0
        BY <3>1, <3>2 DEF Place
      <3>6. place \in 0 .. MaxPictures - 1 /\ 2 * place \in Nat
        BY <3>2, <3>3, BoundsAssumption
      <3>7. Place(next) = next.order[next.done]
        BY DEF Place
      <3> QED
        BY <3>1, <3>2, <3>4, <3>5, <3>6, <3>7
    <2>6. /\ p \in AVC!Parsers /\ ~p.thrown /\ FramesOnly(p)
          /\ p.sps = q.sps /\ p.activeSPS = q.activeSPS /\ p.pps = q.pps
          /\ p.slice.type = s.type /\ p.slice.idr = (type = AVC!CodedSlice_IDR)
          /\ IF S.sps.pocType = 0 THEN CountedByLsb(q, type, ref, s, p)
                                  ELSE CountedByFrameNum(q, type, s, p)
      <3>1. FramesOnly(q)
        BY <1>4, <1>5, <1>7 DEF FramesOnly
      <3>2. q.activeSPS \in 0 .. MaxSPSCount - 1 /\ s.pps \in 0 .. MaxPPSCount - 1
            /\ q.pps[s.pps].sps = q.activeSPS
        BY <1>2, <2>1, <2>3, BoundsAssumption
      <3>3. type \in Nat /\ AVC!NalClass(type) = "Slice" /\ ref \in Nat
        BY DEF AVC!NalClass
      <3>4. q.sps[q.activeSPS].pocType # 0 => ref # 0 /\ 2^(q.sps[0].log2MaxFrameNum) \in Nat
        <4>1. 2^(q.sps[0].log2MaxFrameNum) = F
          BY <2>1 DEF MaxFrameNum
        <4> QED
          BY <1>3, <2>1, <2>3, <2>4, <4>1
      <3>5. p = AVC!ParseNalUnit(q, AvcSliceUnit(type, ref, s))
        BY <1>5, <1>7, <2>3
      <3> HIDE DEF type, ref
      <3> QED
        BY <1>7, <2>1, <2>3, <3>1, <3>2, <3>3, <3>4, <3>5, AvcSliceReads
    <2>7. p.slice.type = SliceType(next) /\ p.slice.idr = (next.done = 1)
      BY <2>3, <2>6 DEF AVC!CodedSlice_IDR
    <2>8. type = AVC!CodedSlice_IDR <=> next.done = 1
      BY DEF AVC!CodedSlice_IDR
    <2> HIDE DEF type, ref, m, F, c
    <2>9. CASE S.sps.pocType = 0
      <3> DEFINE prev == IF type = AVC!CodedSlice_IDR THEN [msb |-> 0, lsb |-> 0]
                         ELSE [msb |-> q.refPic.msb, lsb |-> q.refPic.lsb]
      <3>1. 2^(q.sps[q.activeSPS].log2MaxLsb) = m
        BY <2>1, <2>9 DEF m, MaxLsb
      <3>2. CountMsb(c % m, prev, m) = c - (c % m)
        <4>1. CASE next.done = 1
          <5>1. PICK n \in Nat \ {0} : n = m
            BY <1>3 DEF m
          <5>2. c % m = 0
            BY <2>5, <4>1, <5>1
          <5>3. CountMsb(0, [msb |-> 0, lsb |-> 0], n) = 0
            BY DEF CountMsb, HEVC!PicOrderCntMsb, HEVC!Wrapped
          <5> QED
            BY <2>5, <2>8, <4>1, <5>1, <5>2, <5>3
        <4>2. CASE next.done # 1
          <5>1. GoesOn(next)
            BY <1>2, <4>2 DEF StartsGroup
          <5>2. PICK j \in 1 .. gop.done :
                  /\ LastAnchor(S, gop.order, gop.done + 1, j)
                  /\ parser.refPic.msb = Parts(2 * gop.order[j], m).msb
                  /\ parser.refPic.lsb = Parts(2 * gop.order[j], m).lsb
            BY <2>9, <5>1 DEF AvcAt, GoesOn, m
          <5>3. j \in DOMAIN next.order /\ next.done \in DOMAIN next.order
            <6>1. gop.done \in Nat /\ next.done = gop.done + 1
              BY <5>1 DEF GopInv, Gops, GoesOn
            <6>2. PICK n \in Nat : n = Len(next.order) /\ DOMAIN next.order = 1 .. n
              BY <2>5
            <6> QED
              BY <1>1, <5>2, <6>1, <6>2
          <5>4. Near(S, 2 * (next.order[next.done] - next.order[j]))
            <6>1. LastAnchor(S, next.order, next.done, j)
              BY <5>1, <5>2 DEF GoesOn
            <6> QED
              BY <1>1, <2>9, <5>3, <6>1, AvcStream
          <5>5. PICK place \in Nat, here \in Nat : place = next.order[j] /\ here = Place(next)
            <6>1. next.order[j] \in Nat
              BY <2>5, <5>3
            <6> QED
              BY <2>5, <6>1
          <5>6. PICK a \in Nat : a = 2 * place
            OBVIOUS
          <5>7. Near(S, c - a)
            <6>1. c - a = 2 * (here - place)
              BY <5>5, <5>6 DEF c
            <6> QED
              BY <2>5, <5>4, <5>5, <6>1
          <5>8. prev.msb = a - (a % m) /\ prev.lsb = a % m
            BY <1>5, <1>7, <2>8, <4>2, <5>1, <5>2, <5>5, <5>6 DEF Parts, GoesOn
          <5>9. PICK n \in Nat \ {0} : n = m
            BY <1>3 DEF m
          <5>10. -(n \div 2) < c - a /\ c - a < n \div 2
            BY <5>7, <5>9 DEF Near, m
          <5> HIDE DEF prev
          <5>11. CountMsb(c % n, prev, n) = c - (c % n)
            <6>1. c \in Nat /\ c < Word /\ Word \in Nat \ {0}
              BY <2>5, BoundsAssumption
            <6>2. prev.msb = a - (a % n) /\ prev.lsb = a % n
              BY <5>8, <5>9
            <6> QED
              BY ZenonT(30), <5>10, <6>1, <6>2, MsbOfCount
          <5> QED
            BY <5>9, <5>11
        <4> QED
          BY <4>1, <4>2
      <3>3. /\ \E delta \in {0, 1} : p.poc = AVC!FrameCount(c, (c + delta) % Word)
            /\ IF ref = 0 THEN p.refPic = q.refPic
               ELSE p.refPic.msb = c - (c % m) /\ p.refPic.lsb = c % m
        <4>1. PICK x \in Nat, n \in Nat : x = c % m /\ n = c
          <5>1. c % m \in 0 .. m - 1
            BY <1>3, <2>5, DivMod DEF m
          <5> QED
            BY <2>5, <5>1
        <4>2. (n - x + x) % Word = n
          <5>1. n < Word
            BY <2>5, <4>1, BoundsAssumption
          <5> QED
            BY <5>1, BoundsAssumption
        <4>3. (c - (c % m) + (c % m)) % Word = c
          BY <4>1, <4>2
        <4>4. CountedByLsb(q, type, ref, s, p) /\ s.lsb = c % m
          BY <2>3, <2>6, <2>9
        <4>5. \A x1, x2 : CountMsb(s.lsb, prev, 2^(q.sps[q.activeSPS].log2MaxLsb)) = c - (c % m)
          BY <3>1, <3>2, <4>4
        <4> QED
          BY <4>3, <4>4, <4>5 DEF CountedByLsb
      <3>4. p.poc = c
        <4>1. PICK n \in Nat : n = c /\ n + 1 < Word
          BY <2>5
        <4>2. PICK delta \in {0, 1} : p.poc = AVC!FrameCount(n, (n + delta) % Word)
          BY <3>3, <4>1
        <4>3. (n + delta) % Word = n + delta
          BY <4>1, BoundsAssumption
        <4> QED
          BY <4>1, <4>2, <4>3 DEF AVC!FrameCount
      <3>5. \E j \in 1 .. next.done :
              /\ LastAnchor(S, next.order, next.done + 1, j)
              /\ p.refPic.msb = Parts(2 * next.order[j], m).msb
              /\ p.refPic.lsb = Parts(2 * next.order[j], m).lsb
        <4>1. CASE Reference(next.order, next.done)
          <5>1. Anchor(S, next.order, next.done)
            <6>1. next.done = 1 \/ next.order[next.done] > next.order[1]
              <7>1. PICK o : o = next.order
                OBVIOUS
              <7>2. /\ o \in Seq(Nat) /\ o[1] = 0
                    /\ \A i, k \in 1 .. Len(o) : o[i] = o[k] => i = k
                BY <1>1, <7>1, OrdersHoldPlacesOnce, AvcStream DEF GopInv, S
              <7>3. PICK k \in 1 .. Len(o) : k = next.done
                BY <1>1, <7>1
              <7>4. 1 \in 1 .. Len(o) /\ o[k] \in Nat
                BY <7>2, <7>3
              <7> QED
                BY <7>1, <7>2, <7>3, <7>4
            <6> QED
              BY <4>1, <6>1 DEF Anchor, Reference
          <5>2. LastAnchor(S, next.order, next.done + 1, next.done)
            BY <1>1, <5>1, NextAnchor
          <5>3. ref # 0
            BY <4>1 DEF ref
          <5>4. c = 2 * next.order[next.done]
            BY <2>5 DEF c
          <5>5. next.done \in 1 .. next.done
            BY <1>1
          <5>6. p.refPic.msb = Parts(c, m).msb /\ p.refPic.lsb = Parts(c, m).lsb
            BY <3>3, <5>3 DEF Parts
          <5> QED
            BY <5>2, <5>4, <5>5, <5>6
        <4>2. CASE ~Reference(next.order, next.done)
          <5>1. ref = 0
            BY <4>2 DEF ref
          <5>2. ~Anchor(S, next.order, next.done) /\ next.done # 1
            <6>1. next.done # 1
              <7>1. \A i \in 1 .. 1 - 1 : FALSE
                OBVIOUS
              <7> QED
                BY <4>2, <7>1 DEF Reference, ReferenceIn, Reordered
            <6> QED
              BY <4>2, <6>1 DEF Anchor, Reference
          <5>3. GoesOn(next)
            BY <1>2, <5>2 DEF StartsGroup
          <5>4. PICK j \in 1 .. gop.done :
                  /\ LastAnchor(S, gop.order, gop.done + 1, j)
                  /\ parser.refPic.msb = Parts(2 * gop.order[j], m).msb
                  /\ parser.refPic.lsb = Parts(2 * gop.order[j], m).lsb
            BY <2>9, <5>3 DEF AvcAt, GoesOn, m
          <5>5. LastAnchor(S, next.order, next.done + 1, j)
            BY <1>1, <5>2, <5>3, <5>4, NextAnchor DEF GoesOn
          <5>6. p.refPic = parser.refPic
            BY <1>5, <1>7, <3>3, <5>1
          <5>7. gop.done \in Nat /\ next.done = gop.done + 1
            BY <5>3 DEF GoesOn, GopInv, Gops
          <5>8. j \in 1 .. next.done
            BY <5>4, <5>7
          <5> QED
            BY <5>3, <5>4, <5>5, <5>6, <5>8 DEF GoesOn
        <4> QED
          BY <4>1, <4>2
      <3>6. AvcAt(next, p)
        BY <1>1, <2>1, <2>6, <2>9, <3>5 DEF AvcAt, m
      <3> QED
        BY <2>6, <2>7, <3>4, <3>6 DEF c
    <2>10. CASE S.sps.pocType = 2
      <3>1. /\ ref # 0 /\ s.frameNum = (next.done - 1) % F
            /\ CountedByFrameNum(q, type, s, p)
            /\ 2^(q.sps[0].log2MaxFrameNum) = F
        BY <2>1, <2>3, <2>6, <2>10 DEF MaxFrameNum, F
      <3>2. PICK f \in Nat \ {0, 1}, n \in Nat : f = F /\ n = next.done - 1
        BY <1>1, <1>3 DEF F
      <3>3. Place(next) = n
        BY SMTT(20), <1>1, <2>5, <2>10, <3>2, AvcStream
      <3> DEFINE offset == IF type = AVC!CodedSlice_IDR THEN 0
                ELSE IF q.refPic.frameNum > s.frameNum
                  THEN q.refPic.frameNumOffset + 2^(q.sps[0].log2MaxFrameNum)
                ELSE q.refPic.frameNumOffset
      <3>4. offset = n - (n % f)
        <4>1. CASE next.done = 1
          <5>1. n = 0 /\ 0 % f = 0
            BY <3>2, <4>1
          <5> QED
            BY <2>8, <4>1, <5>1
        <4>2. CASE next.done # 1
          <5>1. GoesOn(next)
            BY <1>2, <4>2 DEF StartsGroup
          <5>2. PICK k \in Nat : k = gop.done - 1 /\ n = k + 1
            BY <3>2, <4>2, <5>1 DEF GoesOn, GopInv, Gops
          <5>3. q.refPic.frameNum = k % f /\ q.refPic.frameNumOffset = k - (k % f)
            BY <1>5, <1>7, <2>10, <3>2, <5>1, <5>2 DEF AvcAt, GoesOn, Parts, F
          <5>5. n % f = IF (k % f) = f - 1 THEN 0 ELSE (k % f) + 1
            BY <3>2, <5>2, NextLow
          <5>4. s.frameNum = n % f
            BY <3>1, <3>2
          <5>6. PICK x \in 0 .. f - 1 : x = k % f
            BY <3>2, DivMod
          <5>7. CASE x = f - 1
            <6>1. s.frameNum = 0 /\ n % f = 0 /\ q.refPic.frameNum > s.frameNum
              BY <3>2, <5>3, <5>4, <5>5, <5>6, <5>7
            <6>2. offset = k - x + f
              BY <2>8, <3>1, <3>2, <4>2, <5>3, <5>6, <6>1
            <6>3. k - x + f = n
              BY <3>2, <5>2, <5>6, <5>7
            <6> QED
              BY <3>2, <6>1, <6>2, <6>3
          <5>8. CASE x # f - 1
            <6>1. s.frameNum = x + 1 /\ n % f = x + 1 /\ ~(q.refPic.frameNum > s.frameNum)
              BY <3>2, <5>3, <5>4, <5>5, <5>6, <5>8
            <6>2. offset = k - x
              BY <2>8, <4>2, <5>3, <5>6, <6>1
            <6>3. k - x = n - (x + 1)
              BY <3>2, <5>2, <5>6
            <6> QED
              BY <6>1, <6>2, <6>3
          <5> QED
            BY <5>7, <5>8
        <4> QED
          BY <4>1, <4>2
      <3>5. /\ p.poc = (IF type = AVC!CodedSlice_IDR THEN 0 ELSE 2 * (offset + s.frameNum)) % Word
            /\ p.refPic.frameNum = s.frameNum /\ p.refPic.frameNumOffset = offset
        BY <3>1 DEF CountedByFrameNum
      <3> HIDE DEF offset
      <3>6. s.frameNum = n % f
        BY <3>1, <3>2
      <3>7. p.poc = c
        <4>1. PICK x \in 0 .. f - 1 : x = n % f
          BY <3>2, DivMod
        <4>2. offset + s.frameNum = n
          BY <3>2, <3>4, <3>6, <4>1
        <4>3. c = 2 * n
          BY <3>3 DEF c
        <4>4. (2 * n) % Word = 2 * n
          <5>1. PICK w \in Nat \ {0}, x2 \in Nat : w = Word /\ x2 = 2 * n
            BY BoundsAssumption
          <5>2. x2 < w
            BY <2>5, <3>2, <5>1
          <5>3. x2 % w = x2
            BY <5>2
          <5> QED
            BY <5>1, <5>3
        <4>5. 0 % Word = 0
          BY BoundsAssumption
        <4>6. next.done = 1 => n = 0
          BY <3>2
        <4> QED
          BY <2>8, <3>5, <4>2, <4>3, <4>4, <4>5, <4>6
      <3>8. AvcAt(next, p)
        <4>1. p.refPic.frameNum = (next.done - 1) % F /\ p.refPic.frameNumOffset = Parts(next.done - 1, F).msb
          BY <3>2, <3>4, <3>5, <3>6 DEF Parts
        <4> QED
          BY <1>1, <2>1, <2>6, <2>10, <4>1 DEF AvcAt, F
      <3> QED
        BY <2>6, <2>7, <3>7, <3>8 DEF c
    <2> QED
      BY <2>4, <2>9, <2>10
  <1> QED
    BY <1>6, <1>7

-----------------------------------------------------------------------------
(* The groups at whose end the highest count is the next one.              *)

Counting(h, order) ==
  /\ h \in [0 .. Len(order) -> Nat] /\ h[0] = 0 /\ h[Len(order)] = Len(order)
  /\ \A k \in 1 .. Len(order) :
       h[k] = IF order[k] > h[k - 1] THEN order[k] + 1 ELSE h[k - 1]

LEMMA CountedIsCounting ==
  ASSUME NEW order \in Seq(Nat), CountedToTheEnd(order)
  PROVE  \E h : Counting(h, order)
  <1> DEFINE Loop(f) == f = [k \in 0 .. Len(order) |->
                IF k = 0 THEN 0 ELSE IF order[k] > f[k - 1] THEN order[k] + 1 ELSE f[k - 1]]
             h == CHOOSE f : Loop(f)
  <1>1. PICK n \in Nat : n = Len(order) /\ DOMAIN order = 1 .. n
    OBVIOUS
  (* No step leaves the natural numbers, so the first that does cannot be. *)
  <1>2. ASSUME NEW f, f[0] = 0, NEW k \in 0 .. n,
               \A i \in 1 .. n : f[i - 1] \in Nat => f[i] \in Nat
        PROVE  f[k] \in Nat
    <2> DEFINE Bad == {i \in Nat : i <= n /\ f[i] \notin Nat}
    <2>1. SUFFICES ASSUME Bad # {} PROVE FALSE
      BY <1>1
    <2>2. PICK i \in Bad : i = 0 \/ (i - 1 \in Nat /\ i - 1 \notin Bad)
      <3> HIDE DEF Bad
      <3>1. Bad \in SUBSET Nat
        BY DEF Bad
      <3> QED
        BY <2>1, <3>1, LeastOf
    <2>3. i # 0
      BY <1>2, <2>2
    <2>4. i \in 1 .. n /\ f[i - 1] \in Nat
      BY <1>1, <2>2, <2>3
    <2> QED
      BY <1>2, <2>2, <2>4
  <1>3. \E f : Loop(f)
    <2> DEFINE step == [k \in 1 .. n |-> [b \in Nat |-> IF order[k] > b THEN order[k] + 1 ELSE b]]
    <2>1. PICK f : Carried(f, step, 0, n)
      <3> HIDE DEF step
      <3>1. n \in Nat
        BY <1>1
      <3> QED
        BY <3>1, LoopExists
    <2>2. \A k \in 1 .. n : f[k] = step[k][f[k - 1]]
      <3> HIDE DEF step
      <3> QED
        BY <2>1 DEF Carried
    <2>3. f[0] = 0
      <3> HIDE DEF step
      <3> QED
        BY <2>1, <1>1 DEF Carried
    <2>4. \A k \in 1 .. n : f[k - 1] \in Nat =>
            f[k] = IF order[k] > f[k - 1] THEN order[k] + 1 ELSE f[k - 1]
      BY <2>2
    <2>5. \A k \in 1 .. n : f[k - 1] \in Nat => f[k] \in Nat
      BY <1>1, <2>4
    <2>6. \A k \in 0 .. n : f[k] \in Nat
      BY <1>2, <2>3, <2>5
    <2>7. \A k \in 1 .. n : f[k] = IF order[k] > f[k - 1] THEN order[k] + 1 ELSE f[k - 1]
      <3>1. \A k \in 1 .. n : k - 1 \in 0 .. n
        BY <1>1
      <3> QED
        BY <2>4, <2>6, <3>1
    <2>8. f = [k \in 0 .. n |->
                IF k = 0 THEN 0 ELSE IF order[k] > f[k - 1] THEN order[k] + 1 ELSE f[k - 1]]
      <3>1. \A k \in 0 .. n : k # 0 => k \in 1 .. n
        BY <1>1
      <3>2. f = [k \in 0 .. n |-> f[k]]
        <4> HIDE DEF step
        <4> QED
          BY <2>1 DEF Carried
      <3> HIDE DEF step
      <3> QED
        BY <2>3, <2>7, <3>1, <3>2
    <2> QED
      BY <1>1, <2>8
  <1>4. Loop(h)
    BY <1>3
  <1>5. h[Len(order)] = Len(order)
    BY DEF CountedToTheEnd
  <1> HIDE DEF h
  <1>6. h[0] = 0 /\ \A k \in 1 .. n : h[k] = IF order[k] > h[k - 1] THEN order[k] + 1 ELSE h[k - 1]
    <2>1. \A k \in 0 .. n :
            h[k] = IF k = 0 THEN 0 ELSE IF order[k] > h[k - 1] THEN order[k] + 1 ELSE h[k - 1]
      BY <1>1, <1>4
    <2>2. 0 \in 0 .. n /\ \A k \in 1 .. n : k \in 0 .. n /\ k # 0
      BY <1>1
    <2> QED
      BY <2>1, <2>2
  <1>7. \A k \in 1 .. n : h[k - 1] \in Nat => h[k] \in Nat
    BY <1>1, <1>6
  <1>8. \A k \in 0 .. n : h[k] \in Nat
    BY <1>2, <1>6, <1>7
  <1>9. h \in [0 .. n -> Nat]
    BY <1>1, <1>4, <1>8
  <1> QED
    BY <1>1, <1>5, <1>6, <1>9 DEF Counting

-----------------------------------------------------------------------------
(* The counts of either.                                                   *)

(* Every group of an AVC stream ends with its highest count below the next *)
(* one: what ESFile needs for counts that go on over the groups.           *)
GroupsCounted ==
  \A s \in DOMAIN Streams : Streams[s].codec = "AVC" =>
    \A o \in Streams[s].orders : CountedToTheEnd(o)

(* The count that a picture is due, from its place in display order.       *)
CountDue(id) == IF Codec = "AVC" THEN 2 * id ELSE HevcStart + id

ParserInv == IF Codec = "AVC" THEN AvcAt(gop, parser) ELSE HevcAt(gop, parser)

OffsetInv ==
  IF Codec = "AVC"
    THEN /\ es.offset = 2 * gop.first
         /\ IF gop.groups = 0 THEN es.highest = 0
            ELSE \E h : Counting(h, gop.order) /\ es.highest = 2 * (gop.first + h[gop.done])
    ELSE es.offset = 0

CountsInv == GopInv /\ PlaceInv /\ ParserInv /\ OffsetInv

LEMMA InitCounts == StreamInit => CountsInv
  <1> SUFFICES ASSUME StreamInit PROVE CountsInv
    OBVIOUS
  <1>1. GopInv /\ PlaceInv
    BY InitGop, InitPlace DEF StreamInit
  <1>2. gop.groups = 0 /\ gop.first = 0
    BY DEF StreamInit, CoderInit
  <1>3. ParserInv
    BY <1>2 DEF StreamInit, ParserInv, NewParser, AvcAt, HevcAt
  <1>4. OffsetInv
    BY <1>2 DEF StreamInit, OffsetInv
  <1> QED
    BY <1>1, <1>3, <1>4 DEF CountsInv

(* The access unit read next has the count and the type that are due to    *)
(* its picture; only where a group starts can the parser give up.          *)
LEMMA UnitRead ==
  ASSUME CountsInv, GroupsCounted, NEW next \in ThisOrNextGop, NEW p, p = ParsedUnits(NalUnits(next))
  PROVE  /\ p.thrown => StartsGroup(next)
         /\ ~p.thrown =>
              /\ AccessUnit(next, p).id = DisplayIndex(next)
              /\ AccessUnit(next, p).poc = CountDue(DisplayIndex(next))
              /\ AccessUnit(next, p).type \in {"IDR", "I", "P", "B"}
              /\ ReadPicture(next, p) => CountsInv'
  <1>1. /\ next \in Gops /\ next.groups # 0 /\ next.order \in S.orders
        /\ next.done \in 1 .. Len(next.order)
    BY NextGop DEF CountsInv
  <1>2. /\ GoesOn(next) \/ StartsGroup(next)
        /\ DisplayIndex(next) \in 0 .. MaxPictures - 1
    BY NextPlace DEF CountsInv
  <1>3. AccessUnit(next, p).id = DisplayIndex(next)
    BY DEF AccessUnit
  <1>4. ASSUME ReadPicture(next, p) PROVE GopInv' /\ PlaceInv' /\ UNCHANGED <<Codec, S, HevcStart>>
    <2>1. gop' = next /\ UNCHANGED stream
      BY <1>4 DEF ReadPicture
    <2> QED
      BY <2>1, ReadGop, ReadPlace DEF CountsInv, Codec, S, HevcStart
  <1>5. SliceType(next) \in {"I", "P", "B"}
    BY DEF SliceType
  <1>6. CASE Codec # "AVC"
    <2>1. Codec = "HEVC"
      BY <1>6, StreamsAssumption DEF CountsInv, GopInv, Codec, S
    <2>2. /\ p.thrown => StartsGroup(next)
          /\ ~p.thrown =>
               /\ p.poc = HevcStart + DisplayIndex(next) /\ p.slice.type = SliceType(next)
               /\ HevcAt(next, p)
      BY <1>6, <2>1, HevcReads DEF CountsInv, ParserInv
    <2>3. ~p.thrown => BasePictureType(p) = SliceType(next)
      BY <1>6, <2>2 DEF BasePictureType, HEVC!GetBasePictureType
    <2>4. ~p.thrown => OffsetFor(p) = 0
      <3>1. es.offset = 0
        BY <1>6 DEF CountsInv, OffsetInv
      <3> QED
        BY <1>5, <2>3, <3>1 DEF OffsetFor
    <2>5. ~p.thrown => AccessUnit(next, p).poc = CountDue(DisplayIndex(next))
      <3>1. PICK h \in Nat, i \in Nat : h = HevcStart /\ i = DisplayIndex(next)
        BY <1>2, <2>1, HevcStream DEF CountsInv
      <3>2. h + i + 0 = h + i
        OBVIOUS
      <3> QED
        BY <1>6, <2>2, <2>4, <3>1, <3>2 DEF AccessUnit, CountDue
    <2>6. ~p.thrown => AccessUnit(next, p).type \in {"I", "P", "B"}
      BY <1>5, <2>3 DEF AccessUnit
    <2>7. ASSUME ~p.thrown, ReadPicture(next, p) PROVE CountsInv'
      <3>1. gop' = next /\ parser' = p /\ es'.offset = 0
        BY <2>4, <2>7 DEF ReadPicture
      <3>2. HevcAt(next, p)' = HevcAt(next, p)
        BY <1>4, <2>7, <3>1 DEF HevcAt
      <3>3. ParserInv' /\ OffsetInv'
        BY <1>4, <1>6, <2>2, <2>7, <3>1, <3>2 DEF ParserInv, OffsetInv
      <3> QED
        BY <1>4, <2>7, <3>3 DEF CountsInv
    <2> QED
      BY <1>3, <2>2, <2>5, <2>6, <2>7
  <1>7. CASE Codec = "AVC"
    <2>1. /\ p.thrown => StartsGroup(next)
          /\ ~p.thrown =>
               /\ p.poc = 2 * Place(next)
               /\ p.slice.type = SliceType(next) /\ p.slice.idr = (next.done = 1)
               /\ AvcAt(next, p)
      BY <1>7, AvcReads DEF CountsInv, ParserInv
    <2>2. ~p.thrown => BasePictureType(p) = IF next.done = 1 THEN "IDR" ELSE SliceType(next)
      BY <1>7, <2>1 DEF BasePictureType, AVC!GetBasePictureType
    <2>3. /\ next.order \in Seq(Nat) /\ next.order # <<>> /\ CountedToTheEnd(next.order)
          /\ next.first \in Nat /\ Place(next) \in Nat /\ next.order[1] = 0
          /\ Place(next) = next.order[next.done]
      <3>1. stream \in DOMAIN Streams /\ S.codec = "AVC"
        BY <1>7 DEF CountsInv, GopInv, Codec
      <3>2. next.order \in Seq(Nat) /\ next.order # <<>> /\ next.order[1] = 0
        BY <1>1, <3>1, StreamsAssumption DEF S
      <3> QED
        BY <1>1, <3>1, <3>2 DEF GroupsCounted, S, Gops, Place
    (* The highest count that the groups before it leave. *)
    <2>4. \E h : /\ Counting(h, next.order)
                 /\ es.highest = 2 * (next.first + h[next.done - 1])
                 /\ ~p.thrown => OffsetFor(p) = 2 * next.first
      <3>1. CASE GoesOn(next)
        <4>1. PICK h : Counting(h, gop.order) /\ es.highest = 2 * (gop.first + h[gop.done])
          BY <1>7, <3>1 DEF CountsInv, OffsetInv, GoesOn
        <4>2. next.done - 1 = gop.done
          BY <3>1 DEF GoesOn, CountsInv, GopInv, Gops
        <4>3. ~p.thrown => OffsetFor(p) = 2 * next.first
          <5>1. next.done # 1 /\ SliceType(next) # "IDR" /\ es.offset = 2 * next.first
            BY <1>5, <1>7, <3>1 DEF GoesOn, CountsInv, OffsetInv
          <5> QED
            BY <2>2, <5>1 DEF OffsetFor
        <4> QED
          BY <3>1, <4>1, <4>2, <4>3 DEF GoesOn
      <3>2. CASE StartsGroup(next)
        <4>1. PICK h : Counting(h, next.order)
          BY <2>3, CountedIsCounting
        <4>2. next.done = 1 /\ h[next.done - 1] = 0
          BY <3>2, <4>1 DEF StartsGroup, Counting
        <4>3. es.highest = 2 * next.first /\ (es.highest = 0 => es.offset = 2 * next.first)
          <5>1. CASE gop.groups = 0
            BY <1>7, <3>2, <5>1 DEF StartsGroup, CountsInv, OffsetInv, GopInv
          <5>2. CASE gop.groups # 0
            <6>1. PICK g : Counting(g, gop.order) /\ es.highest = 2 * (gop.first + g[gop.done])
              BY <1>7, <5>2 DEF CountsInv, OffsetInv
            <6>2. g[gop.done] = Len(gop.order)
              BY <3>2, <6>1 DEF StartsGroup, Counting
            <6>3. gop.first \in Nat /\ Len(gop.order) \in Nat \ {0} /\ next.first = gop.first + Len(gop.order)
              BY <3>2, <5>2 DEF StartsGroup, CountsInv, GopInv, Gops
            <6> QED
              BY <6>1, <6>2, <6>3
          <5> QED
            BY <5>1, <5>2
        <4>4. ~p.thrown => OffsetFor(p) = 2 * next.first
          <5>1. ASSUME ~p.thrown PROVE OffsetFor(p) = 2 * next.first
            <6>1. p.poc = 0 /\ BasePictureType(p) = "IDR"
              BY <2>1, <2>2, <2>3, <4>2, <5>1
            <6>2. PICK x \in Nat : x = 2 * next.first
              BY <2>3
            <6> QED
              BY <4>3, <6>1, <6>2 DEF OffsetFor
          <5> QED
            BY <5>1
        <4>5. es.highest = 2 * (next.first + h[next.done - 1])
          BY <2>3, <4>2, <4>3
        <4> QED
          BY <4>1, <4>4, <4>5
      <3> QED
        BY <1>2, <3>1, <3>2
    <2>5. PICK h : /\ Counting(h, next.order)
                   /\ es.highest = 2 * (next.first + h[next.done - 1])
                   /\ ~p.thrown => OffsetFor(p) = 2 * next.first
      BY <2>4
    <2>6. ~p.thrown => /\ AccessUnit(next, p).poc = CountDue(DisplayIndex(next))
                       /\ p.poc + OffsetFor(p) = 2 * (next.first + Place(next))
      <3>1. PICK f \in Nat, i \in Nat : f = next.first /\ i = Place(next)
        BY <2>3
      <3>2. 2 * i + 2 * f = 2 * (f + i)
        OBVIOUS
      <3> QED
        BY <1>7, <2>1, <2>5, <3>1, <3>2 DEF AccessUnit, CountDue, DisplayIndex
    <2>7. ~p.thrown => AccessUnit(next, p).type \in {"IDR", "I", "P", "B"}
      BY <1>5, <2>2 DEF AccessUnit
    <2>8. ASSUME ~p.thrown, ReadPicture(next, p) PROVE CountsInv'
      <3>1. /\ gop' = next /\ parser' = p /\ es'.offset = 2 * next.first
            /\ es'.highest = HighestAfter(2 * (next.first + Place(next)))
        BY <2>5, <2>6, <2>8 DEF ReadPicture
      <3>2. es'.highest = 2 * (next.first + h[next.done])
        <4>1. h[next.done] = IF next.order[next.done] > h[next.done - 1]
                               THEN next.order[next.done] + 1 ELSE h[next.done - 1]
          BY <1>1, <2>5 DEF Counting
        <4>2. PICK f \in Nat, i \in Nat, b \in Nat :
                f = next.first /\ i = Place(next) /\ b = h[next.done - 1]
          <5>1. next.done - 1 \in 0 .. Len(next.order)
            BY <1>1, <2>3
          <5>2. h[next.done - 1] \in Nat
            BY <2>5, <5>1 DEF Counting
          <5> QED
            BY <2>3, <5>2
        <4>3. HighestAfter(2 * (f + i)) = IF 2 * (f + i) > 2 * (f + b) THEN 2 * (f + i) + 2 ELSE 2 * (f + b)
          BY <1>7, <2>5, <4>2 DEF HighestAfter, PocStep
        <4>4. HighestAfter(2 * (f + i)) = 2 * (f + (IF i > b THEN i + 1 ELSE b))
          BY <4>3
        <4> QED
          BY <2>3, <3>1, <4>1, <4>2, <4>4
      <3>3. AvcAt(next, p)' = AvcAt(next, p)
        BY <1>4, <2>8, <3>1 DEF AvcAt
      <3>4. ParserInv'
        BY <1>4, <1>7, <2>1, <2>8, <3>1, <3>3 DEF ParserInv
      <3>5. OffsetInv'
        BY <1>1, <1>4, <1>7, <2>5, <2>8, <3>1, <3>2 DEF OffsetInv
      <3> QED
        BY <1>4, <2>8, <3>4, <3>5 DEF CountsInv
    <2> QED
      BY <1>3, <2>1, <2>6, <2>7, <2>8
  <1> QED
    BY <1>6, <1>7
=============================================================================
