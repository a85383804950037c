------------------------- MODULE FileEncoderProofs -------------------------
(***************************************************************************)
(* FileEncoder, for every source and every limit.  The access units are    *)
(* written in coding order for every base stream and every parser of its   *)
(* NAL units.  That they are enhanced in display order, each with its own  *)
(* enhancement, and that all of them are written, holds for every stream   *)
(* whose counts the loop can follow: see Followed.                         *)
(***************************************************************************)
EXTENDS FileEncoder, BaseStreamProofs

-----------------------------------------------------------------------------
(* The order of the access units in the file.                              *)

(* What the queue holds of access units aus. *)
Units(aus) == [au : aus, enh : Int, coded : Nat]

(* The queue holds, last first, the access units that were read behind     *)
(* those written.                                                          *)
CodingInv(aus) ==
  /\ GopInv
  /\ display_frame \in Nat
  /\ pending \in Seq(Units(aus))
  /\ written \in Seq(Units(aus))
  /\ Len(written) + Len(pending) = PicturesRead
  /\ \A i \in 1 .. Len(written) : written[i].coded = i - 1
  /\ \A i \in 1 .. Len(pending) : pending[i].coded = PicturesRead - i

LEMMA InitCoding == Init => CodingInv({})
  <1> SUFFICES ASSUME Init PROVE CodingInv({})
    OBVIOUS
  <1>1. GopInv /\ PicturesRead = 0
    BY InitGop DEF Init, StreamInit
  <1> QED
    BY <1>1 DEF Init, CodingInv

LEMMA LargerUnits ==
  ASSUME NEW A, NEW B, A \subseteq B, NEW s \in Seq(A)
  PROVE  s \in Seq(B)
  <1>1. s \in [1 .. Len(s) -> A]
    OBVIOUS
  <1>2. s \in [1 .. Len(s) -> B]
    BY <1>1
  <1> QED
    BY <1>2

LEMMA AllButTheLast ==
  ASSUME NEW A, NEW s \in Seq(A), s # <<>>, NEW t, t = SubSeq(s, 1, Len(s) - 1)
  PROVE  /\ t \in Seq(A) /\ Len(t) = Len(s) - 1
         /\ \A i \in 1 .. Len(t) : t[i] = s[i]
  <1>1. Len(s) \in Nat /\ Len(s) # 0
    OBVIOUS
  <1>2. /\ Len(s) - 1 \in Nat
        /\ \A i \in 1 .. Len(s) - 1 : i \in 1 .. Len(s) /\ s[i] \in A
    BY <1>1
  <1> DEFINE n == Len(s) - 1
  <1>3. t = [i \in 1 .. n |-> s[i]]
    BY <1>2
  <1>4. PICK m \in Nat : m = n
    BY <1>2
  <1>5. t \in [1 .. m -> A]
    BY <1>2, <1>3, <1>4
  <1>6. t \in Seq(A) /\ Len(t) = m
    BY <1>5
  <1> QED
    BY <1>3, <1>4, <1>6

LEMMA ReadKeepsCoding ==
  ASSUME NEW aus, CodingInv(aus), ReadAu
  PROVE  \E more : CodingInv(more)'
  <1> DEFINE Read(next, p) ==
        /\ ReadPicture(next, p)
        /\ pending' = Queued([au    |-> AccessUnit(next, p),
                              enh   |-> NotEnhanced,
                              coded |-> PicturesRead])
  <1>0. PICK next \in ThisOrNextGop : \E p \in {ParsedUnits(NalUnits(next))} : Read(next, p)
    BY DEF ReadAu
  <1>1. PICK p : Read(next, p)
    BY <1>0
  <1>2. PICK a : a = AccessUnit(next, p)
    OBVIOUS
  <1>3. PICK c : c = PicturesRead
    OBVIOUS
  <1>4. /\ GopInv' /\ c \in Nat
        /\ PicturesRead' = c + 1
    <2>1. gop' = next /\ UNCHANGED stream
      BY <1>1 DEF ReadPicture
    <2> QED
      BY <1>3, <2>1, ReadGop, SeenAreNat DEF CodingInv
  <1> DEFINE unit == [au |-> a, enh |-> NotEnhanced, coded |-> c]
             more == aus \cup {a}
  <1>5. pending' = <<unit>> \o pending
    BY <1>1, <1>2, <1>3 DEF Queued
  <1>6. unit \in Units(more) /\ Units(aus) \subseteq Units(more)
    BY <1>4 DEF Units, NotEnhanced
  <1>7. /\ pending \in Seq(Units(more)) /\ written \in Seq(Units(more))
    BY <1>6, LargerUnits DEF CodingInv
  <1> HIDE DEF unit, more
  <1>8. /\ pending' \in Seq(Units(more))
        /\ Len(pending') = Len(pending) + 1
        /\ pending'[1] = unit
        /\ \A i \in 2 .. Len(pending') : pending'[i] = pending[i - 1]
    BY <1>5, <1>6, <1>7
  <1>9. unit.coded = c
    BY DEF unit
  <1>10. \A i \in 1 .. Len(pending') : pending'[i].coded = PicturesRead' - i
    <2> SUFFICES ASSUME NEW i \in 1 .. Len(pending')
                 PROVE  pending'[i].coded = PicturesRead' - i
      OBVIOUS
    <2>1. CASE i = 1
      BY <2>1, <1>4, <1>8, <1>9
    <2>2. CASE i # 1
      <3>1. i \in 2 .. Len(pending') /\ i - 1 \in 1 .. Len(pending)
        BY <2>2, <1>7, <1>8
      <3>2. pending'[i] = pending[i - 1] /\ pending[i - 1].coded = c - (i - 1)
        BY <3>1, <1>3, <1>8 DEF CodingInv
      <3> QED
        BY <3>2, <1>4
    <2> QED
      BY <2>1, <2>2
  <1> QED
    <2>1. UNCHANGED <<display_frame, written>>
      BY DEF ReadAu
    <2>2. Len(written') + Len(pending') = PicturesRead'
      <3>1. /\ Len(written) + Len(pending) = c
            /\ Len(written) \in Nat /\ Len(pending) \in Nat
        BY <1>3, <1>7 DEF CodingInv
      <3>2. Len(written') = Len(written)
        BY <2>1
      <3> QED
        BY <3>1, <3>2, <1>4, <1>8
    <2>3. CodingInv(more)'
      BY <2>1, <2>2, <1>4, <1>7, <1>8, <1>10 DEF CodingInv
    <2> QED
      BY <2>3

(* Enhancement leaves a unit of the queue one.                             *)
LEMMA EnhancedUnit ==
  ASSUME NEW A, NEW u \in Units(A), NEW n \in Int
  PROVE  [u EXCEPT !.enh = n] \in Units(A) /\ [u EXCEPT !.enh = n].coded = u.coded
  <1>1. u.au \in A /\ u.coded \in Nat
    BY DEF Units
  <1>2. [u EXCEPT !.enh = n] = [au |-> u.au, enh |-> n, coded |-> u.coded]
    BY DEF Units
  <1> QED
    BY <1>1, <1>2 DEF Units

(* Of the queue, Enhance changes no more than the enhancement of a unit. *)
LEMMA EnhanceKeepsCoding ==
  ASSUME NEW aus, CodingInv(aus), Enhance
  PROVE  CodingInv(aus)'
  <1>1. /\ UNCHANGED <<gop, stream, written>>
        /\ display_frame' = display_frame + 1
        /\ display_frame \in Nat /\ pending \in Seq(Units(aus))
    BY DEF Enhance, streamVars, CodingInv
  <1>2. PICK m : pending' = [pending EXCEPT ![m].enh = display_frame]
    BY DEF Enhance
  <1>3. /\ pending' \in Seq(Units(aus)) /\ Len(pending') = Len(pending)
        /\ \A i \in 1 .. Len(pending) : pending'[i].coded = pending[i].coded
    <2>1. CASE m \in 1 .. Len(pending)
      <3>0. PICK u \in Units(aus) : u = pending[m]
        BY <1>1, <2>1
      <3>1. PICK new : new = [u EXCEPT !.enh = display_frame]
        OBVIOUS
      <3>2. new \in Units(aus) /\ new.coded = u.coded
        BY <1>1, <3>1, EnhancedUnit
      <3>3. pending' = [pending EXCEPT ![m] = new]
        BY <1>2, <3>0, <3>1
      <3> QED
        BY <1>1, <2>1, <3>0, <3>2, <3>3
    <2>2. CASE m \notin 1 .. Len(pending)
      <3>1. pending' = pending
        BY <1>1, <1>2, <2>2
      <3> QED
        BY <1>1, <3>1
    <2> QED
      BY <2>1, <2>2
  <1> QED
    BY <1>1, <1>3 DEF CodingInv, GopInv, PicturesRead, S

(* The last of the queue is the next in coding order. *)
LEMMA WriteKeepsCoding ==
  ASSUME NEW aus, CodingInv(aus), WriteAu
  PROVE  CodingInv(aus)'
  <1>1. /\ UNCHANGED <<gop, stream, display_frame>>
        /\ written' = Append(written, pending[Len(pending)])
        /\ pending' = SubSeq(pending, 1, Len(pending) - 1)
        /\ pending # <<>>
    BY DEF WriteAu, WriteReady, AfterWrite, Last, Front, streamVars
  <1>2. /\ pending \in Seq(Units(aus)) /\ written \in Seq(Units(aus))
        /\ Len(pending) \in Nat \ {0}
    BY <1>1 DEF CodingInv
  <1>3. PicturesRead' = PicturesRead
    BY <1>1 DEF PicturesRead
  <1>4. /\ pending' \in Seq(Units(aus)) /\ Len(pending') = Len(pending) - 1
        /\ \A i \in 1 .. Len(pending') : pending'[i] = pending[i]
    BY <1>1, <1>2, AllButTheLast
  <1>5. pending[Len(pending)].coded = Len(written)
    BY <1>2 DEF CodingInv
  <1>6. /\ written' \in Seq(Units(aus)) /\ Len(written') = Len(written) + 1
        /\ \A i \in 1 .. Len(written) : written'[i] = written[i]
        /\ written'[Len(written) + 1] = pending[Len(pending)]
    BY <1>1, <1>2
  <1>7. \A i \in 1 .. Len(written') : written'[i].coded = i - 1
    <2> SUFFICES ASSUME NEW i \in 1 .. Len(written')
                 PROVE  written'[i].coded = i - 1
      OBVIOUS
    <2>1. CASE i = Len(written) + 1
      BY <2>1, <1>2, <1>5, <1>6
    <2>2. CASE i # Len(written) + 1
      <3>1. i \in 1 .. Len(written)
        BY <2>2, <1>2, <1>6
      <3> QED
        BY <3>1, <1>6 DEF CodingInv
    <2> QED
      BY <2>1, <2>2
  <1>8. \A i \in 1 .. Len(pending') : pending'[i].coded = PicturesRead' - i
    BY <1>2, <1>3, <1>4 DEF CodingInv
  <1>9. Len(written') + Len(pending') = PicturesRead'
    BY <1>2, <1>3, <1>4, <1>6 DEF CodingInv
  <1> QED
    BY <1>1, <1>4, <1>6, <1>7, <1>8, <1>9 DEF CodingInv, GopInv, S

LEMMA StepKeepsCoding ==
  ASSUME NEW aus, CodingInv(aus), [Next]_vars
  PROVE  \E more : CodingInv(more)'
  <1>1. CASE ReadAu
    BY <1>1, ReadKeepsCoding
  <1>2. CASE Enhance
    BY <1>2, EnhanceKeepsCoding
  <1>3. CASE WriteAu
    BY <1>3, WriteKeepsCoding
  <1>4. CASE UNCHANGED <<gop, stream, display_frame, pending, written>>
    <2>1. CodingInv(aus)'
      BY <1>4 DEF CodingInv, GopInv, PicturesRead, S
    <2> QED
      BY <2>1
  <1>5. Start \/ ReadEnd \/ Done \/ NothingToEnhance \/ NothingToWrite \/ UNCHANGED vars
          => UNCHANGED <<gop, stream, display_frame, pending, written>>
    BY DEF Start, ReadEnd, Done, NothingToEnhance, NothingToWrite, vars, streamVars
  <1> QED
    BY <1>1, <1>2, <1>3, <1>4, <1>5 DEF Next

(* The output file holds the access units of the base stream in coding     *)
(* order, none missing and none twice: the loop takes from the back of the *)
(* queue what it put in at the front, however the counts of the pictures   *)
(* make it wait.                                                           *)
THEOREM CodingOrder == Spec => []WrittenInCodingOrder
  <1> DEFINE Inv == \E aus : CodingInv(aus)
  <1>1. Init => Inv
    BY InitCoding
  <1>2. Inv /\ [Next]_vars => Inv'
    BY StepKeepsCoding
  <1>3. Inv => WrittenInCodingOrder
    <2> SUFFICES ASSUME NEW aus, CodingInv(aus) PROVE WrittenInCodingOrder
      OBVIOUS
    <2>1. DOMAIN written = 1 .. Len(written)
      BY DEF CodingInv
    <2> QED
      BY <2>1 DEF CodingInv, WrittenInCodingOrder
  <1> QED
    BY <1>1, <1>2, <1>3, PTL DEF Spec

-----------------------------------------------------------------------------
(* The streams whose counts the loop can follow: every AVC group is at the *)
(* next count where it ends, and no stream is cut off at its start.        *)
Followed == GroupsCounted /\ \A s \in DOMAIN Streams : Streams[s].start = 0

LEMMA CountsAreDue ==
  ASSUME GopInv, Followed
  PROVE  /\ PocStep \in {1, 2}
         /\ \A id \in Nat : CountDue(id) = PocStep * id
  <1>1. CASE Codec = "AVC"
    BY <1>1 DEF PocStep, CountDue
  <1>2. CASE Codec # "AVC"
    <2>1. Codec = "HEVC" /\ S.start = 0
      BY <1>2, StreamsAssumption DEF GopInv, Followed, Codec, S
    <2>2. HevcStart = 0
      BY <2>1, HevcStream
    <2> QED
      BY <1>2, <2>2 DEF PocStep, CountDue
  <1> QED
    BY <1>1, <1>2

(* Of a group that was read to its end every picture was seen.             *)
LEMMA WholeSeen ==
  ASSUME GopInv, gop.done = Len(gop.order)
  PROVE  SeenIds = 0 .. PicturesRead - 1
  <1>1. gop.first \in Nat /\ gop.order \in Seq(Nat)
    BY DEF GopInv, Gops
  <1>2. PICK first \in Nat, n \in Nat : first = gop.first /\ n = Len(gop.order)
    BY <1>1
  <1>3. {gop.order[k] : k \in 1 .. n} = 0 .. n - 1
    <2>1. CASE gop.groups = 0
      <3>1. n = 0
        BY <1>2, <2>1 DEF GopInv
      <3> QED
        BY <3>1
    <2>2. CASE gop.groups # 0
      <3>1. {gop.order[k] : k \in DOMAIN gop.order} = 0 .. Len(gop.order) - 1
        BY <2>2, StreamsAssumption DEF GopInv, S
      <3>2. DOMAIN gop.order = 1 .. n
        BY <1>1, <1>2
      <3> QED
        BY <1>2, <3>1, <3>2
    <2> QED
      BY <2>1, <2>2
  <1>4. {first + gop.order[k] : k \in 1 .. n} = first .. first + n - 1
    <2>1. ASSUME NEW k \in 1 .. n PROVE first + gop.order[k] \in first .. first + n - 1
      <3>1. PICK place \in 0 .. n - 1 : place = gop.order[k]
        BY <1>3
      <3> QED
        BY <3>1
    <2>2. ASSUME NEW x \in first .. first + n - 1 PROVE \E k \in 1 .. n : x = first + gop.order[k]
      <3>1. x - first \in 0 .. n - 1
        OBVIOUS
      <3>2. PICK k \in 1 .. n : gop.order[k] = x - first
        BY <1>3, <3>1
      <3> QED
        BY <3>2
    <2> QED
      BY <2>1, <2>2
  <1>5. SeenIds = (0 .. first - 1) \cup (first .. first + n - 1)
    BY <1>2, <1>4 DEF SeenIds
  <1> QED
    BY <1>2, <1>5 DEF PicturesRead

LEMMA SeenBefore ==
  ASSUME GopInv, PlaceInv, NEW next \in ThisOrNextGop
  PROVE  Before(next) = SeenIds
  <1>1. CASE GoesOn(next)
    <2>1. gop.done \in Nat
      BY DEF GopInv, Gops
    <2>2. next.first = gop.first /\ next.order = gop.order /\ next.done - 1 = gop.done
      BY <1>1, <2>1 DEF GoesOn
    <2> QED
      BY <2>2 DEF Before, SeenIds
  <1>2. CASE StartsGroup(next)
    <2>1. SeenIds = 0 .. PicturesRead - 1
      BY <1>2, WholeSeen DEF StartsGroup
    <2>2. next.first = PicturesRead /\ next.done = 1
      BY <1>2 DEF StartsGroup, PicturesRead
    <2>3. Before(next) = 0 .. next.first - 1
      BY <2>2 DEF Before
    <2> QED
      BY <2>1, <2>2, <2>3
  <1> QED
    BY <1>1, <1>2, NextPlace

LEMMA SeenBelow ==
  ASSUME GopInv, PlaceInv
  PROVE  SeenIds \subseteq 0 .. MaxPictures - 1
  <1>1. gop.first \in Nat /\ gop.order \in Seq(Nat) /\ gop.done \in Nat /\ gop.done <= Len(gop.order)
    BY DEF GopInv, Gops
  <1>2. PICK first \in Nat, n \in Nat : first = gop.first /\ n = Len(gop.order)
    BY <1>1
  <1>3. first + n <= MaxPictures /\ MaxPictures \in Nat
    BY <1>2, BoundsAssumption DEF PlaceInv
  <1>4. ASSUME NEW k \in 1 .. gop.done PROVE first + gop.order[k] \in 0 .. MaxPictures - 1
    <2>1. k \in 1 .. n
      BY <1>1, <1>2
    <2>2. gop.groups # 0
      BY <1>2, <2>1 DEF GopInv
    <2>3. gop.order[k] \in 0 .. n - 1
      BY <1>2, <2>1, <2>2, OrdersHoldPlacesOnce DEF GopInv, S
    <2>4. PICK place \in 0 .. n - 1 : place = gop.order[k]
      BY <2>3
    <2> QED
      BY <1>3, <2>4
  <1>5. 0 .. first - 1 \subseteq 0 .. MaxPictures - 1
    BY <1>3
  <1> QED
    BY <1>2, <1>4, <1>5 DEF SeenIds

-----------------------------------------------------------------------------
(* The frames.                                                             *)

(* What is read, enhanced and written. *)
UnitsInv ==
  /\ display_frame \in Nat /\ 0 .. display_frame - 1 \subseteq SeenIds
  /\ pending \in Seq(QueuedUnits) /\ written \in Seq(QueuedUnits)
  /\ \A i \in 1 .. Len(pending) :
       /\ pending[i].au.id \in SeenIds
       /\ pending[i].au.poc = PocStep * pending[i].au.id
       /\ pending[i].enh = IF pending[i].au.id < display_frame THEN pending[i].au.id
                                                               ELSE NotEnhanced
  /\ \A i, j \in 1 .. Len(pending) : pending[i].au.id = pending[j].au.id => i = j
  /\ \A x \in SeenIds : x >= display_frame => \E i \in 1 .. Len(pending) : pending[i].au.id = x
  /\ \A i \in 1 .. Len(written) : written[i].enh = written[i].au.id

(* What the encoder was given, and the window of source frames. *)
SourceInv ==
  /\ src \in Seq(Nat) /\ Len(src) \in 1 .. 2
  /\ display_frame = 0 => Len(src) = 1 /\ src[1] = 0
  /\ display_frame # 0 /\ display_frame < SourceLength => Len(src) = 2 /\ src[2] = display_frame
  /\ encoded \in Seq([frame : Nat, source : Nat, picture : Nat, coded : Nat])
  /\ Len(encoded) = display_frame
  /\ \A i \in 1 .. Len(encoded) :
       encoded[i].frame = i - 1 /\ encoded[i].source = i - 1 /\ encoded[i].picture = i - 1

(* What each of the inner loops has done when it ends. *)
LoopInv ==
  /\ pc \in {"start", "failed", "read", "enhance", "write", "done"}
  /\ end_of_es \in BOOLEAN
  /\ pc # "enhance" => display_frame \notin SeenIds
  /\ pc \notin {"enhance", "write"} => ~WriteReady
  /\ pc = "done" => ~LoopOn
  /\ end_of_es => gop.done = Len(gop.order)

FramesInv == CountsInv /\ UnitsInv /\ SourceInv /\ LoopInv

LEMMA InitFrames == Init => FramesInv
  <1> SUFFICES ASSUME Init PROVE FramesInv
    OBVIOUS
  <1>1. /\ StreamInit /\ pc = "start" /\ pending = <<>> /\ display_frame = 0
        /\ written = <<>> /\ end_of_es = FALSE /\ src = <<0>> /\ encoded = <<>>
    BY DEF Init
  <1>2. SeenIds = {}
    BY <1>1, InitGop DEF StreamInit
  <1>3. UnitsInv
    BY <1>1, <1>2 DEF UnitsInv
  <1>4. SourceInv
    BY <1>1 DEF SourceInv
  <1>5. LoopInv
    BY <1>1, <1>2 DEF LoopInv, WriteReady
  <1> QED
    BY <1>1, <1>3, <1>4, <1>5, InitCounts DEF FramesInv

(* CountsInv is about the stream only. *)
LEMMA SameStream ==
  ASSUME UNCHANGED streamVars
  PROVE  /\ CountsInv => CountsInv'
         /\ UNCHANGED <<stream, gop, es, parser, S, Codec, PocStep, SeenIds, PicturesRead>>
  <1>1. UNCHANGED <<stream, gop, es, parser>>
    BY DEF streamVars
  <1>2. UNCHANGED <<S, Codec, HevcStart, PocStep, SeenIds, PicturesRead>>
    BY <1>1 DEF S, Codec, HevcStart, PocStep, SeenIds, PicturesRead
  <1>3. AvcAt(gop, parser)' <=> AvcAt(gop, parser)
    BY <1>1, <1>2 DEF AvcAt
  <1>4. HevcAt(gop, parser)' <=> HevcAt(gop, parser)
    BY <1>1, <1>2 DEF HevcAt
  <1>5. CountsInv => CountsInv'
    BY <1>1, <1>2, <1>3, <1>4 DEF CountsInv, GopInv, PlaceInv, ParserInv, OffsetInv
  <1> QED
    BY <1>1, <1>2, <1>5

(* A unit more at the front of the queue. *)
LEMMA PushedFront ==
  ASSUME NEW A, NEW q \in Seq(A), NEW u \in A, NEW t, t = <<u>> \o q
  PROVE  /\ t \in Seq(A) /\ Len(q) \in Nat /\ Len(t) = Len(q) + 1 /\ t[1] = u
         /\ 1 \in 1 .. Len(t)
         /\ \A i \in 1 .. Len(t) : i = 1 \/ (i - 1 \in 1 .. Len(q) /\ t[i] = q[i - 1])
         /\ \A i \in 1 .. Len(q) : i + 1 \in 1 .. Len(t) /\ t[i + 1] = q[i]
  <1>1. PICK n \in Nat : n = Len(q)
    OBVIOUS
  <1>2. /\ t \in Seq(A) /\ Len(t) = n + 1 /\ t[1] = u
        /\ \A i \in 2 .. n + 1 : t[i] = q[i - 1]
    BY <1>1
  <1>3. \A i \in 1 .. n : i + 1 \in 2 .. n + 1 /\ i + 1 - 1 = i
    OBVIOUS
  <1>4. \A i \in 1 .. n : t[i + 1] = q[i]
    BY <1>2, <1>3
  <1> QED
    BY <1>1, <1>2, <1>4

LEMMA ReadKeepsFrames ==
  ASSUME Followed, FramesInv, ReadAu
  PROVE  FramesInv'
  <1>1. PICK next \in ThisOrNextGop : \E p \in {ParsedUnits(NalUnits(next))} :
          /\ ReadPicture(next, p)
          /\ pending' = Queued([au    |-> AccessUnit(next, p),
                                enh   |-> NotEnhanced,
                                coded |-> PicturesRead])
    BY DEF ReadAu
  <1>2. PICK p : /\ p = ParsedUnits(NalUnits(next))
                 /\ ReadPicture(next, p)
                 /\ pending' = Queued([au    |-> AccessUnit(next, p),
                                       enh   |-> NotEnhanced,
                                       coded |-> PicturesRead])
    BY <1>1
  <1>3. CountsInv /\ GopInv /\ PlaceInv /\ GroupsCounted /\ ~p.thrown
        /\ gop' = next /\ UNCHANGED stream
    BY <1>2 DEF FramesInv, CountsInv, Followed, ReadPicture
  <1>4. PICK au : au = AccessUnit(next, p)
    OBVIOUS
  <1>5. /\ au.id = DisplayIndex(next) /\ au.poc = CountDue(DisplayIndex(next))
        /\ au.type \in {"IDR", "I", "P", "B"}
        /\ CountsInv'
    BY <1>2, <1>3, <1>4, UnitRead
  <1>6. /\ au.id \in Nat \ SeenIds
        /\ SeenIds' = SeenIds \cup {au.id}
    BY <1>3, <1>5, ReadGop, SeenBefore
  <1>7. PocStep' = PocStep /\ au.poc = PocStep * au.id /\ au.poc \in Nat
    <2>1. PocStep' = PocStep
      BY <1>3 DEF PocStep, Codec, S
    <2>2. PocStep \in {1, 2} /\ au.poc = PocStep * au.id
      BY <1>3, <1>5, <1>6, CountsAreDue
    <2>3. PICK id \in Nat : id = au.id
      BY <1>6
    <2> QED
      BY <2>1, <2>2, <2>3
  <1>8. PICK unit : unit = [au |-> au, enh |-> NotEnhanced, coded |-> PicturesRead]
    OBVIOUS
  <1>9. unit.au = au /\ unit.enh = NotEnhanced /\ unit \in QueuedUnits
    <2>1. au = [id |-> au.id, poc |-> au.poc, type |-> au.type]
      BY <1>4 DEF AccessUnit
    <2>2. au \in [id : Nat, poc : Nat, type : {"IDR", "I", "P", "B"}]
      BY <1>5, <1>6, <1>7, <2>1
    <2>3. PicturesRead \in Nat
      BY <1>3, SeenAreNat
    <2> QED
      BY <1>8, <2>2, <2>3 DEF QueuedUnits
  <1>10. pending' = <<unit>> \o pending
    BY <1>2, <1>4, <1>8 DEF Queued
  <1>11. PICK n \in Nat : n = Len(pending)
    BY DEF FramesInv, UnitsInv
  <1>12. /\ pending' \in Seq(QueuedUnits) /\ Len(pending') = n + 1 /\ pending'[1] = unit
         /\ 1 \in 1 .. n + 1
         /\ \A i \in 1 .. n + 1 : i = 1 \/ (i - 1 \in 1 .. n /\ pending'[i] = pending[i - 1])
         /\ \A i \in 1 .. n : i + 1 \in 1 .. n + 1 /\ pending'[i + 1] = pending[i]
    BY <1>9, <1>10, <1>11, PushedFront DEF FramesInv, UnitsInv
  <1>13. /\ UNCHANGED <<display_frame, written, end_of_es, src, encoded>>
         /\ pc = "read" /\ LoopOn /\ pc' = "enhance"
    BY DEF ReadAu
  <1>14. UnitsInv'
    <2>1. PICK d \in Nat : d = display_frame /\ 0 .. d - 1 \subseteq SeenIds
      BY DEF FramesInv, UnitsInv
    <2>2. ~(au.id < d)
      BY <1>6, <2>1
    <2>3. \A i \in 1 .. n :
            /\ pending[i].au.id \in SeenIds
            /\ pending[i].au.poc = PocStep * pending[i].au.id
            /\ pending[i].enh = IF pending[i].au.id < d THEN pending[i].au.id ELSE NotEnhanced
      BY <1>11, <2>1 DEF FramesInv, UnitsInv
    <2>4. ASSUME NEW i \in 1 .. n + 1
          PROVE  /\ pending'[i].au.id \in SeenIds'
                 /\ pending'[i].au.poc = PocStep' * pending'[i].au.id
                 /\ pending'[i].enh = IF pending'[i].au.id < d THEN pending'[i].au.id ELSE NotEnhanced
      <3>1. CASE i = 1
        <4>1. pending'[i] = unit
          BY <1>12, <3>1
        <4> QED
          BY <1>6, <1>7, <1>9, <2>2, <4>1
      <3>2. CASE i # 1
        <4>1. i - 1 \in 1 .. n /\ pending'[i] = pending[i - 1]
          BY <1>12, <3>2
        <4> QED
          BY <1>6, <1>7, <2>3, <4>1
      <3> QED
        BY <3>1, <3>2
    <2>5. ASSUME NEW i \in 1 .. n + 1, NEW j \in 1 .. n + 1, pending'[i].au.id = pending'[j].au.id
          PROVE  i = j
      <3>1. \A k \in 1 .. n : pending[k].au.id # au.id
        BY <1>6, <2>3
      <3>2. CASE i = 1 /\ j = 1
        BY <3>2
      <3>3. CASE i = 1 /\ j # 1
        BY <1>9, <1>12, <2>5, <3>1, <3>3
      <3>4. CASE i # 1 /\ j = 1
        BY <1>9, <1>12, <2>5, <3>1, <3>4
      <3>5. CASE i # 1 /\ j # 1
        <4>1. /\ i - 1 \in 1 .. n /\ pending'[i] = pending[i - 1]
              /\ j - 1 \in 1 .. n /\ pending'[j] = pending[j - 1]
          BY <1>12, <3>5
        <4>2. i - 1 = j - 1
          BY <1>11, <2>5, <4>1 DEF FramesInv, UnitsInv
        <4> QED
          BY <4>2
      <3> QED
        BY <3>2, <3>3, <3>4, <3>5
    <2>6. ASSUME NEW x \in SeenIds', x >= d PROVE \E i \in 1 .. n + 1 : pending'[i].au.id = x
      <3>1. CASE x = au.id
        BY <1>9, <1>12, <3>1
      <3>2. CASE x # au.id
        <4>1. x \in SeenIds
          BY <1>6, <3>2
        <4>2. PICK i \in 1 .. n : pending[i].au.id = x
          BY <1>11, <2>1, <2>6, <4>1 DEF FramesInv, UnitsInv
        <4> QED
          BY <1>12, <4>2
      <3> QED
        BY <3>1, <3>2
    <2>7. /\ display_frame' = d /\ d \in Nat /\ Len(pending') = n + 1
          /\ 0 .. d - 1 \subseteq SeenIds' /\ pending' \in Seq(QueuedUnits)
      BY <1>6, <1>12, <1>13, <2>1
    <2>8. /\ written' \in Seq(QueuedUnits)
          /\ \A i \in 1 .. Len(written') : written'[i].enh = written'[i].au.id
      BY <1>13 DEF FramesInv, UnitsInv
    <2> QED
      BY <2>4, <2>5, <2>6, <2>7, <2>8 DEF UnitsInv
  <1>15. SourceInv'
    BY <1>13 DEF FramesInv, SourceInv
  <1>16. LoopInv'
    <2>1. end_of_es = FALSE
      BY <1>13 DEF LoopOn, FramesInv, LoopInv
    <2> QED
      BY <1>13, <2>1 DEF LoopInv
  <1> QED
    BY <1>5, <1>14, <1>15, <1>16 DEF FramesInv

(* The picture that is enhanced is the one whose turn it is. *)
LEMMA TheMatch ==
  ASSUME Followed, FramesInv, Enhance
  PROVE  \E i \in 1 .. Len(pending) :
           /\ pending[i].au.id = display_frame
           /\ src' = SlideSource(src)
           /\ pending' = [pending EXCEPT ![i].enh = display_frame]
           /\ encoded' = Append(encoded, [frame |-> display_frame, source |-> src'[1],
                                          picture |-> pending[i].au.id,
                                          coded |-> pending[i].coded])
  <1> DEFINE i == CHOOSE m \in Matches : \A n \in Matches : m <= n
  <1>1. /\ Matches # {}
        /\ src' = SlideSource(src)
        /\ pending' = [pending EXCEPT ![i].enh = display_frame]
        /\ encoded' = Append(encoded, [frame |-> display_frame, source |-> src'[1],
                                       picture |-> pending[i].au.id,
                                       coded |-> pending[i].coded])
    BY DEF Enhance
  <1>2. PICK n \in Nat : n = Len(pending) /\ DOMAIN pending = 1 .. n
    BY DEF FramesInv, UnitsInv
  <1>3. Matches \subseteq 1 .. n
    BY <1>2 DEF Matches
  <1>4. ASSUME NEW m \in Matches PROVE pending[m].au.id = display_frame
    <2>1. PICK id \in Nat, d \in Nat, step \in {1, 2} :
            id = pending[m].au.id /\ d = display_frame /\ step = PocStep
      <3>1. PocStep \in {1, 2}
        BY CountsAreDue DEF FramesInv, CountsInv
      <3>2. pending[m].au.id \in Nat
        BY <1>2, <1>3, <1>4, SeenAreNat DEF FramesInv, UnitsInv, CountsInv
      <3> QED
        BY <3>1, <3>2 DEF FramesInv, UnitsInv
    <2>2. pending[m].au.poc = step * id
      BY <1>2, <1>3, <1>4, <2>1 DEF FramesInv, UnitsInv
    <2>3. pending[m].au.poc = step * d
      BY <1>4, <2>1 DEF Matches, EnhancePoc
    <2>4. id = d
      BY <2>2, <2>3
    <2> QED
      BY <2>1, <2>4
  <1>5. \A m, k \in Matches : m = k
    BY <1>2, <1>3, <1>4 DEF FramesInv, UnitsInv
  <1>6. \E m \in Matches : \A k \in Matches : m <= k
    <2>1. PICK m \in Matches : TRUE
      BY <1>1
    <2>2. \A k \in Matches : m = k
      BY <1>5
    <2>3. m <= m
      BY <1>3
    <2> QED
      BY <2>2, <2>3
  <1>7. i \in Matches
    BY <1>6
  <1> HIDE DEF i
  <1> QED
    BY <1>1, <1>2, <1>3, <1>4, <1>7

(* The window of source frames slides with the pictures. *)
LEMMA SlidSource ==
  ASSUME NEW d \in Nat, NEW held \in Seq(Nat), display_frame = d, d < SourceLength,
         d = 0 => Len(held) = 1 /\ held[1] = 0,
         d # 0 => Len(held) = 2 /\ held[2] = d
  PROVE  /\ SlideSource(held) \in Seq(Nat) /\ SlideSource(held)[1] = d
         /\ Len(SlideSource(held)) \in 1 .. 2
         /\ d + 1 < SourceLength => Len(SlideSource(held)) = 2 /\ SlideSource(held)[2] = d + 1
  <1> DEFINE rest == IF d # 0 THEN Tail(held) ELSE held
             more == Append(rest, d + 1)
  <1>1. rest \in Seq(Nat) /\ Len(rest) = 1 /\ rest[1] = d
    <2>1. CASE d = 0
      <3>1. rest = held
        BY <2>1
      <3> HIDE DEF rest
      <3> QED
        BY <2>1, <3>1
    <2>2. CASE d # 0
      <3>1. rest = Tail(held)
        BY <2>2
      <3>2. Len(held) = 2 /\ held[2] = d
        BY <2>2
      <3>3. held # <<>>
        BY <3>2
      <3> HIDE DEF rest
      <3>4. PICK n \in Nat : n = Len(rest)
        BY <3>1, <3>3, TailOf
      <3>5. rest \in Seq(Nat) /\ n = 1
        BY <3>1, <3>2, <3>3, <3>4, TailOf
      <3>6. 1 \in 1 .. Len(rest)
        BY <3>4, <3>5
      <3>7. rest[1] = held[1 + 1]
        BY <3>1, <3>3, <3>6, TailOf
      <3> QED
        BY <3>2, <3>4, <3>5, <3>7
    <2> QED
      BY <2>1, <2>2
  <1>2. SlideSource(held) = IF d + 1 < SourceLength THEN more ELSE rest
    <2>1. Len(rest) < 2
      <3> HIDE DEF rest
      <3> QED
        BY <1>1
    <2> QED
      BY <2>1 DEF SlideSource
  <1> HIDE DEF rest
  <1>3. more \in Seq(Nat) /\ Len(more) = 2 /\ more[1] = d /\ more[2] = d + 1
    <2>1. d + 1 \in Nat
      OBVIOUS
    <2>2. PICK e \in Nat : e = d + 1
      BY <2>1
    <2>3. more = Append(rest, e)
      BY <2>2
    <2> HIDE DEF more
    <2>4. /\ more \in Seq(Nat) /\ Len(more) = Len(rest) + 1
          /\ \A i \in 1 .. Len(rest) : more[i] = rest[i]
          /\ more[Len(rest) + 1] = e
      BY SMTT(20), <1>1, <2>2, <2>3, Appended
    <2> QED
      BY <1>1, <2>2, <2>4
  <1> HIDE DEF more
  <1> QED
    BY <1>1, <1>2, <1>3

LEMMA EnhancedQueued ==
  ASSUME NEW u \in QueuedUnits, NEW n \in Nat
  PROVE  /\ [u EXCEPT !.enh = n] \in QueuedUnits
         /\ [u EXCEPT !.enh = n].au = u.au
         /\ [u EXCEPT !.enh = n].enh = n
  BY DEF QueuedUnits

LEMMA EnhanceKeepsFrames ==
  ASSUME Followed, FramesInv, Enhance
  PROVE  FramesInv'
  <1>1. PICK i \in 1 .. Len(pending) :
          /\ pending[i].au.id = display_frame
          /\ src' = SlideSource(src)
          /\ pending' = [pending EXCEPT ![i].enh = display_frame]
          /\ encoded' = Append(encoded, [frame |-> display_frame, source |-> src'[1],
                                         picture |-> pending[i].au.id,
                                         coded |-> pending[i].coded])
    BY TheMatch
  <1>2. /\ pc = "enhance" /\ display_frame' = display_frame + 1
        /\ UNCHANGED <<streamVars, pc, written, end_of_es>>
    BY DEF Enhance
  <1>3. PICK d \in Nat : d = display_frame
    BY DEF FramesInv, UnitsInv
  <1>4. /\ CountsInv' /\ UNCHANGED <<stream, gop, S, PocStep, SeenIds, PicturesRead>>
    BY <1>2, SameStream DEF FramesInv
  <1>5. d \in SeenIds
    BY <1>1, <1>3 DEF FramesInv, UnitsInv
  <1>6. d < SourceLength
    <2>1. d \in 0 .. MaxPictures - 1
      BY <1>5, SeenBelow DEF FramesInv, CountsInv
    <2> QED
      BY <2>1, SourceAssumption, BoundsAssumption
  <1>7. PICK n \in Nat : n = Len(pending) /\ pending \in Seq(QueuedUnits)
    BY DEF FramesInv, UnitsInv
  <1>8. PICK u \in QueuedUnits : u = pending[i]
    BY <1>1, <1>7
  <1>9. PICK new : new = [u EXCEPT !.enh = d]
    OBVIOUS
  <1>10. new \in QueuedUnits /\ new.au = u.au /\ new.enh = d
    BY <1>9, EnhancedQueued
  <1>11. pending' = [pending EXCEPT ![i] = new]
    BY <1>1, <1>3, <1>8, <1>9
  <1>12. /\ pending' \in Seq(QueuedUnits) /\ Len(pending') = n
         /\ pending'[i] = new
         /\ \A j \in 1 .. n : j # i => pending'[j] = pending[j]
         /\ \A j \in 1 .. n : pending'[j].au = pending[j].au
    <2>1. /\ pending' \in Seq(QueuedUnits) /\ Len(pending') = n /\ pending'[i] = new
          /\ \A j \in 1 .. n : j # i => pending'[j] = pending[j]
      BY SMTT(20), <1>1, <1>7, <1>10, <1>11
    <2> QED
      BY <1>8, <1>10, <2>1
  <1>13. UnitsInv'
    <2>1. \A j \in 1 .. n :
            /\ pending[j].au.id \in SeenIds
            /\ pending[j].au.poc = PocStep * pending[j].au.id
            /\ pending[j].enh = IF pending[j].au.id < d THEN pending[j].au.id ELSE NotEnhanced
      BY <1>3, <1>7 DEF FramesInv, UnitsInv
    <2>2. \A j, k \in 1 .. n : pending[j].au.id = pending[k].au.id => j = k
      BY <1>7 DEF FramesInv, UnitsInv
    <2>3. ASSUME NEW j \in 1 .. n
          PROVE  pending'[j].enh = IF pending'[j].au.id < d + 1 THEN pending'[j].au.id ELSE NotEnhanced
      <3>1. CASE j = i
        BY <1>1, <1>3, <1>8, <1>10, <1>12, <3>1
      <3>2. CASE j # i
        <4>1. pending[j].au.id # d
          BY <1>1, <1>3, <1>7, <2>2, <3>2
        <4>2. pending[j].au.id \in Nat
          BY <2>1, SeenAreNat DEF FramesInv, CountsInv
        <4>3. pending[j].au.id < d + 1 <=> pending[j].au.id < d
          BY <4>1, <4>2
        <4> QED
          BY <1>12, <2>1, <3>2, <4>3
      <3> QED
        BY <3>1, <3>2
    <2>4. 0 .. d + 1 - 1 \subseteq SeenIds'
      <3>1. 0 .. d - 1 \subseteq SeenIds
        BY <1>3 DEF FramesInv, UnitsInv
      <3>2. \A x \in 0 .. d + 1 - 1 : x = d \/ x \in 0 .. d - 1
        OBVIOUS
      <3> QED
        BY <1>4, <1>5, <3>1, <3>2
    <2>5. ASSUME NEW x \in SeenIds', x >= d + 1 PROVE \E j \in 1 .. n : pending'[j].au.id = x
      <3>1. x \in SeenIds /\ x \in Nat
        BY <1>4, SeenAreNat DEF FramesInv, CountsInv
      <3>2. x >= d
        BY <2>5, <3>1
      <3>3. PICK j \in 1 .. n : pending[j].au.id = x
        BY <1>3, <1>7, <3>1, <3>2 DEF FramesInv, UnitsInv
      <3> QED
        BY <1>12, <3>3
    <2>6. \A j \in 1 .. n : /\ pending'[j].au.id \in SeenIds'
                            /\ pending'[j].au.poc = PocStep' * pending'[j].au.id
      BY <1>4, <1>12, <2>1
    <2>7. \A j, k \in 1 .. n : pending'[j].au.id = pending'[k].au.id => j = k
      BY <1>12, <2>2
    <2>8. /\ written' \in Seq(QueuedUnits)
          /\ \A j \in 1 .. Len(written') : written'[j].enh = written'[j].au.id
      BY <1>2 DEF FramesInv, UnitsInv
    <2>9. display_frame' = d + 1 /\ d + 1 \in Nat
      BY <1>2, <1>3
    <2> QED
      BY <1>12, <2>3, <2>4, <2>5, <2>6, <2>7, <2>8, <2>9 DEF UnitsInv
  <1>14. SourceInv'
    <2>1. /\ src' \in Seq(Nat) /\ Len(src') \in 1 .. 2 /\ src'[1] = d
          /\ d + 1 < SourceLength => Len(src') = 2 /\ src'[2] = d + 1
      BY <1>1, <1>3, <1>6, SlidSource DEF FramesInv, SourceInv
    <2>2. d + 1 # 0 /\ display_frame' = d + 1
      BY <1>2, <1>3
    <2>4. PICK call : call = [frame |-> d, source |-> d, picture |-> d, coded |-> u.coded]
      OBVIOUS
    <2>5. /\ encoded' = Append(encoded, call)
          /\ call \in [frame : Nat, source : Nat, picture : Nat, coded : Nat]
          /\ call.frame = d /\ call.source = d /\ call.picture = d
      <3>1. u.coded \in Nat
        BY DEF QueuedUnits
      <3> QED
        BY <1>1, <1>3, <1>8, <2>1, <2>4, <3>1
    <2>6. /\ encoded \in Seq([frame : Nat, source : Nat, picture : Nat, coded : Nat])
          /\ Len(encoded) = d
      BY <1>3 DEF FramesInv, SourceInv
    <2>7. /\ encoded' \in Seq([frame : Nat, source : Nat, picture : Nat, coded : Nat])
          /\ Len(encoded') = d + 1
          /\ \A j \in 1 .. d : encoded'[j] = encoded[j]
          /\ encoded'[d + 1] = call
          /\ \A j \in 1 .. d + 1 : j = d + 1 \/ j \in 1 .. d
      BY <2>5, <2>6
    <2>8. ASSUME NEW j \in 1 .. d + 1
          PROVE  encoded'[j].frame = j - 1 /\ encoded'[j].source = j - 1 /\ encoded'[j].picture = j - 1
      <3>1. CASE j = d + 1
        BY <2>5, <2>7, <3>1
      <3>2. CASE j # d + 1
        <4>1. j \in 1 .. Len(encoded) /\ encoded'[j] = encoded[j]
          BY <2>6, <2>7, <3>2
        <4> QED
          BY <4>1 DEF FramesInv, SourceInv
      <3> QED
        BY <3>1, <3>2
    <2> QED
      BY <2>1, <2>2, <2>7, <2>8 DEF SourceInv
  <1>15. LoopInv'
    BY <1>2, <1>4 DEF FramesInv, LoopInv
  <1> QED
    BY <1>4, <1>13, <1>14, <1>15 DEF FramesInv

(* The last of the queue leaves it, and has been enhanced. *)
LEMMA WriteKeepsFrames ==
  ASSUME Followed, FramesInv, WriteAu
  PROVE  FramesInv'
  <1>1. /\ pc = "write"
        /\ pending # <<>> /\ pending[Len(pending)].au.poc < PocStep * display_frame
        /\ written' = Append(written, pending[Len(pending)])
        /\ pending' = SubSeq(pending, 1, Len(pending) - 1)
        /\ UNCHANGED <<streamVars, pc, display_frame, end_of_es, src, encoded>>
    BY DEF WriteAu, WriteReady, MayWrite, EnhancePoc, AfterWrite, Last, Front
  <1>2. CountsInv' /\ UNCHANGED <<gop, S, PocStep, SeenIds, PicturesRead>>
    BY <1>1, SameStream DEF FramesInv
  <1>3. PICK n \in Nat \ {0} : n = Len(pending)
    BY <1>1 DEF FramesInv, UnitsInv
  <1>4. PICK m \in Nat : m = n - 1
    BY <1>3
  <1>5. /\ pending' \in Seq(QueuedUnits) /\ Len(pending') = m
        /\ \A i \in 1 .. m : pending'[i] = pending[i] /\ i \in 1 .. n
    BY <1>1, <1>3, <1>4, AllButTheLast DEF FramesInv, UnitsInv
  <1>6. \A i \in 1 .. n :
          /\ pending[i].au.id \in SeenIds
          /\ pending[i].au.poc = PocStep * pending[i].au.id
          /\ pending[i].enh = IF pending[i].au.id < display_frame THEN pending[i].au.id
                                                                  ELSE NotEnhanced
    BY <1>3 DEF FramesInv, UnitsInv
  <1>7. PICK last \in QueuedUnits : last = pending[n]
    BY <1>3, ElementOf DEF FramesInv, UnitsInv
  <1>8. last.au.id < display_frame
    <2>1. PICK id \in Nat, d \in Nat, step \in {1, 2} :
            id = last.au.id /\ d = display_frame /\ step = PocStep
      <3>1. PocStep \in {1, 2}
        BY CountsAreDue DEF FramesInv, CountsInv
      <3>2. last.au.id \in Nat
        BY <1>6, <1>7, SeenAreNat DEF FramesInv, CountsInv
      <3> QED
        BY <3>1, <3>2 DEF FramesInv, UnitsInv
    <2>2. step * id < step * d
      BY <1>1, <1>3, <1>6, <1>7, <2>1
    <2>3. id < d
      BY <2>2
    <2> QED
      BY <2>1, <2>3
  <1>9. last.enh = last.au.id
    BY <1>6, <1>7, <1>8
  <1>10. UnitsInv'
    <2>1. \A i \in 1 .. m :
            /\ pending'[i].au.id \in SeenIds'
            /\ pending'[i].au.poc = PocStep' * pending'[i].au.id
            /\ pending'[i].enh = IF pending'[i].au.id < display_frame' THEN pending'[i].au.id
                                                                       ELSE NotEnhanced
      BY <1>1, <1>2, <1>5, <1>6
    <2>2. \A i, j \in 1 .. m : pending'[i].au.id = pending'[j].au.id => i = j
      BY <1>3, <1>5 DEF FramesInv, UnitsInv
    <2>3. ASSUME NEW x \in SeenIds', x >= display_frame'
          PROVE  \E i \in 1 .. m : pending'[i].au.id = x
      <3>1. PICK i \in 1 .. n : pending[i].au.id = x
        BY <1>1, <1>2, <1>3, <2>3 DEF FramesInv, UnitsInv
      <3>2. i # n
        <4>1. x \in Nat /\ display_frame \in Nat
          BY <1>2, SeenAreNat DEF FramesInv, UnitsInv, CountsInv
        <4> QED
          BY <1>1, <1>7, <1>8, <2>3, <3>1, <4>1
      <3>3. i \in 1 .. m
        BY <1>4, <3>2
      <3> QED
        BY <1>5, <3>1, <3>3
    <2>4. PICK k \in Nat : k = Len(written) /\ written \in Seq(QueuedUnits)
      BY DEF FramesInv, UnitsInv
    <2>5. /\ written' \in Seq(QueuedUnits) /\ Len(written') = k + 1
          /\ \A i \in 1 .. k : written'[i] = written[i]
          /\ written'[k + 1] = last
          /\ \A i \in 1 .. k + 1 : i = k + 1 \/ i \in 1 .. k
      BY <1>1, <1>3, <1>7, <2>4
    <2>6. \A i \in 1 .. k + 1 : written'[i].enh = written'[i].au.id
      <3>1. \A i \in 1 .. k : written[i].enh = written[i].au.id
        BY <2>4 DEF FramesInv, UnitsInv
      <3> QED
        BY <1>9, <2>5, <3>1
    <2>7. display_frame' \in Nat /\ 0 .. display_frame' - 1 \subseteq SeenIds'
      BY <1>1, <1>2 DEF FramesInv, UnitsInv
    <2> QED
      BY <1>5, <2>1, <2>2, <2>3, <2>5, <2>6, <2>7 DEF UnitsInv
  <1>11. SourceInv' /\ LoopInv'
    BY <1>1, <1>2 DEF FramesInv, SourceInv, LoopInv
  <1> QED
    BY <1>2, <1>10, <1>11 DEF FramesInv

(* The other steps move nothing: they say where the loop is. *)
LEMMA LoopKeepsFrames ==
  ASSUME FramesInv, LoopInv', UNCHANGED <<streamVars, pending, display_frame, written, src, encoded>>
  PROVE  FramesInv'
  <1>1. CountsInv' /\ UNCHANGED <<PocStep, SeenIds>>
    BY SameStream DEF FramesInv
  <1>2. UnitsInv' /\ SourceInv'
    BY <1>1 DEF FramesInv, UnitsInv, SourceInv
  <1> QED
    BY <1>1, <1>2 DEF FramesInv

LEMMA SameReady ==
  ASSUME UNCHANGED <<streamVars, pending, display_frame, written>>
  PROVE  UNCHANGED <<WriteReady, SeenIds, gop>> /\ (end_of_es' = end_of_es => UNCHANGED LoopOn)
  <1>1. UNCHANGED <<PocStep, SeenIds, gop>>
    BY SameStream
  <1> QED
    BY <1>1 DEF WriteReady, MayWrite, EnhancePoc, LoopOn

(* A stream that cannot be read on has been read to the end of a group. *)
LEMMA EndKeepsFrames ==
  ASSUME Followed, FramesInv, ReadEnd
  PROVE  FramesInv'
  <1>1. /\ pc = "read" /\ NoAccessUnit /\ end_of_es' = TRUE /\ pc' = "enhance"
        /\ UNCHANGED <<streamVars, pending, display_frame, written, src, encoded>>
    BY DEF ReadEnd
  <1>2. gop.done = Len(gop.order)
    <2>1. CASE WholeGroups
      BY <2>1 DEF WholeGroups
    <2>2. CASE Unreadable
      <3>1. PICK next \in ThisOrNextGop : ParsedUnits(NalUnits(next)).thrown
        BY <2>2 DEF Unreadable
      <3>2. PICK p : p = ParsedUnits(NalUnits(next)) /\ p.thrown
        BY <3>1
      <3>3. StartsGroup(next)
        BY <3>2, UnitRead DEF FramesInv, Followed
      <3> QED
        BY <3>3 DEF StartsGroup
    <2> QED
      BY <1>1, <2>1, <2>2 DEF NoAccessUnit
  <1>3. LoopInv'
    BY <1>1, <1>2, SameReady DEF LoopInv
  <1> QED
    BY <1>1, <1>3, LoopKeepsFrames

(* When no unit of the queue is next in display order, the next picture    *)
(* has not been read.                                                      *)
LEMMA NothingToEnhanceKeepsFrames ==
  ASSUME Followed, FramesInv, NothingToEnhance
  PROVE  FramesInv'
  <1>1. /\ pc = "enhance" /\ Matches = {} /\ pc' = "write"
        /\ UNCHANGED <<streamVars, pending, display_frame, written, end_of_es, src, encoded>>
    BY DEF NothingToEnhance
  <1>2. display_frame \notin SeenIds
    <2>1. SUFFICES ASSUME display_frame \in SeenIds PROVE FALSE
      OBVIOUS
    <2>2. display_frame >= display_frame /\ DOMAIN pending = 1 .. Len(pending)
      BY DEF FramesInv, UnitsInv
    <2>3. PICK i \in DOMAIN pending : pending[i].au.id = display_frame
      BY <2>1, <2>2 DEF FramesInv, UnitsInv
    <2>4. pending[i].au.poc = PocStep * display_frame
      BY <2>2, <2>3 DEF FramesInv, UnitsInv
    <2>5. i \in Matches
      BY <2>3, <2>4 DEF Matches, EnhancePoc
    <2> QED
      BY <1>1, <2>5
  <1>3. LoopInv'
    BY <1>1, <1>2, SameReady DEF FramesInv, LoopInv
  <1> QED
    BY <1>1, <1>3, LoopKeepsFrames

LEMMA StepKeepsFrames ==
  ASSUME Followed, FramesInv, [Next]_vars
  PROVE  FramesInv'
  <1>1. CASE Start
    <2>1. LoopInv'
      BY <1>1, SameReady DEF Start, FramesInv, LoopInv
    <2> QED
      BY <1>1, <2>1, LoopKeepsFrames DEF Start
  <1>2. CASE ReadAu
    BY <1>2, ReadKeepsFrames
  <1>3. CASE ReadEnd
    BY <1>3, EndKeepsFrames
  <1>4. CASE Done
    <2>1. LoopInv'
      BY <1>4, SameReady DEF Done, FramesInv, LoopInv
    <2> QED
      BY <1>4, <2>1, LoopKeepsFrames DEF Done
  <1>5. CASE Enhance
    BY <1>5, EnhanceKeepsFrames
  <1>6. CASE NothingToEnhance
    BY <1>6, NothingToEnhanceKeepsFrames
  <1>7. CASE WriteAu
    BY <1>7, WriteKeepsFrames
  <1>8. CASE NothingToWrite
    <2>1. LoopInv'
      BY <1>8, SameReady DEF NothingToWrite, FramesInv, LoopInv
    <2> QED
      BY <1>8, <2>1, LoopKeepsFrames DEF NothingToWrite
  <1>9. CASE UNCHANGED vars
    <2>1. UNCHANGED <<streamVars, pc, pending, display_frame, written, end_of_es, src, encoded>>
      BY <1>9 DEF vars
    <2>2. LoopInv'
      BY <2>1, SameReady DEF FramesInv, LoopInv
    <2> QED
      BY <2>1, <2>2, LoopKeepsFrames
  <1> QED
    BY <1>1, <1>2, <1>3, <1>4, <1>5, <1>6, <1>7, <1>8, <1>9 DEF Next

(* The encoder is called once for every picture in display order, with the *)
(* source frame and the reconstruction of that picture, whatever the       *)
(* coding order of the base: the count that the loop waits for is the one  *)
(* that the parser finds.                                                  *)
THEOREM DisplayOrder ==
  ASSUME Followed
  PROVE  Spec => []EncodedInDisplayOrder
  <1>1. Init => FramesInv
    BY InitFrames
  <1>2. FramesInv /\ [Next]_vars => FramesInv'
    BY StepKeepsFrames
  <1>3. FramesInv => EncodedInDisplayOrder
    <2> SUFFICES ASSUME FramesInv PROVE EncodedInDisplayOrder
      OBVIOUS
    <2>1. DOMAIN encoded = 1 .. Len(encoded)
      BY DEF FramesInv, SourceInv
    <2> QED
      BY <2>1 DEF FramesInv, SourceInv, EncodedInDisplayOrder
  <1> QED
    BY <1>1, <1>2, <1>3, PTL DEF Spec

(* No access unit is written before it is enhanced, and what it carries    *)
(* was made for its own picture.                                           *)
THEOREM OwnEnhancement ==
  ASSUME Followed
  PROVE  Spec => []WrittenWithOwnEnhancement
  <1>1. Init => FramesInv
    BY InitFrames
  <1>2. FramesInv /\ [Next]_vars => FramesInv'
    BY StepKeepsFrames
  <1>3. FramesInv => WrittenWithOwnEnhancement
    <2> SUFFICES ASSUME FramesInv PROVE WrittenWithOwnEnhancement
      OBVIOUS
    <2>1. DOMAIN written = 1 .. Len(written)
      BY DEF FramesInv, UnitsInv
    <2> QED
      BY <2>1 DEF FramesInv, UnitsInv, WrittenWithOwnEnhancement
  <1> QED
    BY <1>1, <1>2, <1>3, PTL DEF Spec

(* At the end of the stream all of it has been enhanced, so that the last  *)
(* of the queue never keeps the others from being written.                 *)
LEMMA AllWritten == FramesInv /\ (\E aus : CodingInv(aus)) => NothingLeftBehind
  <1> SUFFICES ASSUME FramesInv, NEW aus, CodingInv(aus), pc = "done", Len(written) < Limit
               PROVE  pending = <<>> /\ Len(written) = PicturesRead
    BY DEF NothingLeftBehind
  <1>1. end_of_es = TRUE
    BY DEF FramesInv, LoopInv, LoopOn
  <1>2. SeenIds = 0 .. PicturesRead - 1
    BY <1>1, WholeSeen DEF FramesInv, CountsInv, LoopInv
  <1>3. PICK d \in Nat : d = display_frame
    BY DEF FramesInv, UnitsInv
  <1>4. PicturesRead \in Nat
    BY SeenAreNat DEF FramesInv, CountsInv
  <1>5. d >= PicturesRead
    <2>1. d \notin 0 .. PicturesRead - 1
      BY <1>2, <1>3 DEF FramesInv, LoopInv
    <2> QED
      BY <1>4, <2>1
  <1>6. PICK n \in Nat : n = Len(pending) /\ pending \in Seq(QueuedUnits)
    BY DEF FramesInv, UnitsInv
  <1>7. n = 0
    <2>1. SUFFICES ASSUME n # 0 PROVE FALSE
      OBVIOUS
    <2>2. n \in 1 .. n
      BY <2>1
    <2>3. /\ pending[n].au.id \in 0 .. PicturesRead - 1
          /\ pending[n].au.poc = PocStep * pending[n].au.id
      BY <1>2, <1>6, <2>2 DEF FramesInv, UnitsInv
    <2>4. pending # <<>> /\ Last(pending) = pending[n]
      BY <1>6, <2>1 DEF Last
    <2>5. ~(pending[n].au.poc < PocStep * d)
      BY <1>3, <2>4 DEF FramesInv, LoopInv, WriteReady, MayWrite, EnhancePoc
    <2>6. PICK id \in Nat, step \in {1, 2} : id = pending[n].au.id /\ step = PocStep
      <3>1. PocStep \in {1, 2}
        BY DEF PocStep
      <3> QED
        BY <2>3, <3>1
    <2>7. id < d
      BY <1>4, <1>5, <2>3, <2>6
    <2>8. step * id < step * d
      BY <2>7
    <2> QED
      BY <2>3, <2>5, <2>6, <2>8
  <1>8. Len(written) + Len(pending) = PicturesRead /\ Len(written) \in Nat
    BY DEF CodingInv
  <1>9. pending = <<>>
    <2>1. SUFFICES ASSUME pending # <<>> PROVE FALSE
      OBVIOUS
    <2>2. Len(pending) \in Nat \ {0}
      BY <1>6, <2>1, TailOf
    <2> QED
      BY <1>6, <1>7, <2>2
  <1>10. Len(written) = PicturesRead
    BY <1>6, <1>7, <1>8
  <1> QED
    BY <1>9, <1>10

(* When the whole base stream was read, all of it is written.              *)
THEOREM NothingLost ==
  ASSUME Followed
  PROVE  Spec => []NothingLeftBehind
  <1> DEFINE Kept == FramesInv /\ \E aus : CodingInv(aus)
  <1>1. Init => Kept
    BY InitFrames, InitCoding
  <1>2. Kept /\ [Next]_vars => Kept'
    BY StepKeepsFrames, StepKeepsCoding
  <1>3. Kept => NothingLeftBehind
    BY AllWritten
  <1> QED
    BY <1>1, <1>2, <1>3, PTL DEF Spec

-----------------------------------------------------------------------------
(* Types.                                                                  *)

CountsTyped == es \in [highest : Nat, offset : Nat]

LEMMA ReadKeepsTypes ==
  ASSUME Followed, FramesInv, CountsTyped, ReadAu
  PROVE  CountsTyped'
  <1>1. PICK next \in ThisOrNextGop : \E p \in {ParsedUnits(NalUnits(next))} : ReadPicture(next, p)
    BY DEF ReadAu
  <1>2. PICK p : p = ParsedUnits(NalUnits(next)) /\ ReadPicture(next, p)
    BY <1>1
  <1>3. es' = [highest |-> HighestAfter(p.poc + OffsetFor(p)), offset |-> OffsetFor(p)] /\ ~p.thrown
    BY <1>2 DEF ReadPicture
  <1>4. PICK a : a = AccessUnit(next, p)
    OBVIOUS
  <1>5. a.poc = CountDue(DisplayIndex(next)) /\ a.poc = p.poc + OffsetFor(p)
    <2>1. a.poc = CountDue(DisplayIndex(next))
      BY <1>2, <1>3, <1>4, UnitRead DEF FramesInv, Followed
    <2>2. a.poc = p.poc + OffsetFor(p)
      BY <1>4 DEF AccessUnit
    <2> QED
      BY <2>1, <2>2
  <1>6. PICK id \in Nat, step \in {1, 2} : id = DisplayIndex(next) /\ step = PocStep /\ a.poc = step * id
    <2>1. DisplayIndex(next) \in Nat
      BY <1>2, ReadGop DEF FramesInv, CountsInv, ReadPicture
    <2>2. PocStep \in {1, 2} /\ CountDue(DisplayIndex(next)) = PocStep * DisplayIndex(next)
      BY <2>1, CountsAreDue DEF FramesInv, CountsInv
    <2> QED
      BY <1>5, <2>1, <2>2
  <1>7. es.highest \in Nat /\ es.offset \in Nat
    BY DEF CountsTyped
  <1>8. OffsetFor(p) \in Nat
    BY <1>7 DEF OffsetFor
  <1>9. PICK c \in Nat : c = step * id
    OBVIOUS
  <1>10. HighestAfter(c) \in Nat
    <2>1. c + step \in Nat
      OBVIOUS
    <2>2. c + PocStep \in Nat
      BY <1>6, <2>1
    <2> QED
      BY <1>7, <2>2 DEF HighestAfter
  <1>11. HighestAfter(p.poc + OffsetFor(p)) \in Nat
    BY <1>5, <1>6, <1>9, <1>10
  <1> QED
    BY <1>3, <1>8, <1>11 DEF CountsTyped

LEMMA TypesFromFrames == FramesInv /\ CountsTyped /\ (\E aus : CodingInv(aus)) => TypeOK
  <1> SUFFICES ASSUME FramesInv, CountsTyped, NEW aus, CodingInv(aus) PROVE TypeOK
    OBVIOUS
  <1>1. gop.order \in S.orders \cup {<<>>} /\ gop.done \in 0 .. Len(gop.order)
    BY DEF FramesInv, CountsInv, GopInv, Gops
  <1>2. gop.first \in 0 .. MaxPictures
    <2>1. gop.first \in Nat /\ Len(gop.order) \in Nat /\ gop.first + Len(gop.order) <= MaxPictures
      BY DEF FramesInv, CountsInv, GopInv, PlaceInv, Gops
    <2> QED
      BY <2>1, BoundsAssumption
  <1>3. parser \in AVC!Parsers \cup HEVC!Parsers
    BY AvcNewTyped, HevcNewTyped DEF FramesInv, CountsInv, ParserInv, AvcAt, HevcAt
  <1>4. Range(pending) \cup Range(written) \subseteq QueuedUnits
    <2>1. pending \in Seq(QueuedUnits) /\ written \in Seq(QueuedUnits)
      BY DEF FramesInv, UnitsInv
    <2>2. \A i \in DOMAIN pending : pending[i] \in QueuedUnits
      BY <2>1
    <2>3. \A i \in DOMAIN written : written[i] \in QueuedUnits
      BY <2>1
    <2> QED
      BY <2>2, <2>3 DEF Range
  <1>5. Len(pending) + Len(written) = PicturesRead
    <2>1. Len(pending) \in Nat /\ Len(written) \in Nat /\ Len(written) + Len(pending) = PicturesRead
      BY DEF CodingInv
    <2> QED
      BY <2>1
  <1>6. /\ pc \in {"start", "failed", "read", "enhance", "write", "done"}
        /\ display_frame \in Nat /\ end_of_es \in BOOLEAN /\ Len(src) \in 1 .. 2
    BY DEF FramesInv, UnitsInv, LoopInv, SourceInv
  <1> QED
    BY <1>1, <1>2, <1>3, <1>4, <1>5, <1>6 DEF CountsTyped, TypeOK

(* Every picture read is in the queue or written, the counts never become  *)
(* negative, and the window holds one source frame or two.                 *)
THEOREM TypeCorrect ==
  ASSUME Followed
  PROVE  Spec => []TypeOK
  <1> DEFINE Kept == FramesInv /\ CountsTyped /\ \E aus : CodingInv(aus)
  <1>1. Init => Kept
    <2>1. Init => CountsTyped
      BY DEF Init, StreamInit, CountsTyped
    <2> QED
      BY <2>1, InitFrames, InitCoding
  <1>2. Kept /\ [Next]_vars => Kept'
    <2> SUFFICES ASSUME Kept, [Next]_vars PROVE Kept'
      OBVIOUS
    <2>1. CountsTyped'
      <3>1. CASE ReadAu
        BY <3>1, ReadKeepsTypes
      <3>2. CASE UNCHANGED es
        BY <3>2 DEF CountsTyped
      <3>3. ~ReadAu => UNCHANGED es
        BY DEF Next, Start, ReadEnd, Done, Enhance, NothingToEnhance, WriteAu, NothingToWrite,
               vars, streamVars
      <3> QED
        BY <3>1, <3>2, <3>3
    <2> QED
      BY <2>1, StepKeepsFrames, StepKeepsCoding
  <1>3. Kept => TypeOK
    BY TypesFromFrames
  <1> QED
    BY <1>1, <1>2, <1>3, PTL DEF Spec
=============================================================================
