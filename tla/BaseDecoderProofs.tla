------------------------- MODULE BaseDecoderProofs -------------------------
(***************************************************************************)
(* For every base stream of HEVC that keeps its own limit on reordering,   *)
(* for every limit on pictures and every capacity of the ring: the         *)
(* pictures come in display order, one enhancement for each, and none is   *)
(* left over.  For that it does not matter what the parser makes of the    *)
(* NAL units.  That each picture comes with its own enhancement rests on   *)
(* the parser's counts as well.                                            *)
(***************************************************************************)
EXTENDS BaseDecoder, BaseStreamProofs

-----------------------------------------------------------------------------
(* Where the pictures are.                                                 *)

Pushing == main \in {"pushing", "exited"}

(* The pictures that the decoder thread has not decoded, in coding order.  *)
Coming == IF Pushing THEN PassOn(buffer) ELSE base_bitstream

(* The null picture is in the ring. *)
NullIn == thread = "finished" /\ main = "pulling"
Nulls == IF NullIn THEN 1 ELSE 0

Pictures(start) == {p \in [id : Nat, poc : Nat, idr : BOOLEAN] : p.poc = start + p.id}

ControlInv ==
  /\ main \in {"pushing", "pulling", "joining", "done", "exited"}
  /\ thread \in {"none", "decode", "bump", "flush", "end", "finished"}
  /\ Pushing <=> thread = "none"
  /\ thread = "none" => decoded_images = <<>> /\ pic_list = {}
  /\ thread \in {"end", "finished"} => base_bitstream = <<>> /\ pic_list = {}
  /\ main \in {"joining", "done"} => thread = "finished" /\ decoded_images = <<>>

(* The null picture is the last of the ring. *)
RingInv ==
  /\ decoded_images \in Seq([id : Nat] \cup {NoPicture})
  /\ \A i \in 1 .. Len(decoded_images) :
       decoded_images[i] = NoPicture <=> NullIn /\ i = Len(decoded_images)
  /\ NullIn => decoded_images # <<>>

(* No picture is in two places. *)
PicturesInv ==
  /\ buffer \in Pictures(S.start) \cup {NoBuffer}
  /\ base_bitstream \in Seq(Pictures(S.start))
  /\ IsFiniteSet(pic_list) /\ pic_list \subseteq Pictures(S.start)
  /\ \A i \in 1 .. Len(Coming) : Coming[i].id \in SeenIds
  /\ \A i, j \in 1 .. Len(Coming) : Coming[i].id = Coming[j].id => i = j
  /\ \A i \in 1 .. Len(Coming) : \A p \in pic_list : p.id # Coming[i].id
  /\ \A p, q \in pic_list : p.id = q.id => p = q

EnhancementInv ==
  /\ delivered \in Seq([picture : Nat, enhancement : Nat])
  /\ IsFiniteSet(enhancement_queue)
  /\ \A e \in enhancement_queue : e.id \in SeenIds
  /\ Cardinality(enhancement_queue) + Len(delivered) = PicturesRead

CountInv ==
  Len(Coming) + Cardinality(pic_list) + Len(decoded_images) - Nulls + Len(delivered)
    = PicturesRead

Inv == GopInv /\ ControlInv /\ RingInv /\ PicturesInv /\ EnhancementInv /\ CountInv

LEMMA InitInv == Init => Inv
  <1> SUFFICES ASSUME Init PROVE Inv
    OBVIOUS
  <1>1. GopInv /\ PicturesRead = 0
    BY InitGop DEF Init, StreamInit
  <1>2. /\ main = "pushing" /\ buffer = NoBuffer /\ enhancement_queue = {}
        /\ base_bitstream = <<>> /\ decoded_images = <<>> /\ thread = "none"
        /\ pic_list = {} /\ delivered = <<>>
    BY DEF Init
  <1>3. Coming = <<>> /\ ~NullIn /\ Nulls = 0 /\ Pushing
    BY <1>2 DEF Coming, Pushing, PassOn, NullIn, Nulls
  <1>4. IsFiniteSet({}) /\ Cardinality({}) = 0
    BY FS_EmptySet
  <1>5. ControlInv /\ RingInv
    BY <1>2, <1>3 DEF ControlInv, RingInv
  <1>6. PicturesInv
    BY <1>2, <1>3, <1>4 DEF PicturesInv
  <1>7. EnhancementInv /\ CountInv
    BY <1>1, <1>2, <1>3, <1>4 DEF EnhancementInv, CountInv
  <1> QED
    BY <1>1, <1>5, <1>6, <1>7 DEF Inv

LEMMA ComingPictures == PicturesInv => Coming \in Seq(Pictures(S.start))
  <1> SUFFICES ASSUME PicturesInv PROVE Coming \in Seq(Pictures(S.start))
    OBVIOUS
  <1>1. base_bitstream \in Seq(Pictures(S.start)) /\ buffer \in Pictures(S.start) \cup {NoBuffer}
    BY DEF PicturesInv
  <1>2. PassOn(buffer) \in Seq(Pictures(S.start))
    <2>1. CASE buffer = NoBuffer
      BY <1>1, <2>1 DEF PassOn
    <2>2. CASE buffer # NoBuffer
      <3>1. PassOn(buffer) = Append(base_bitstream, buffer) /\ buffer \in Pictures(S.start)
        BY <1>1, <2>2 DEF PassOn
      <3> QED
        BY <1>1, <3>1
    <2> QED
      BY <2>1, <2>2
  <1> QED
    BY <1>1, <1>2 DEF Coming

(* PushAu puts a new picture behind those to come, and its enhancement,    *)
(* which no other is like, into the queue.                                 *)
LEMMA PushAuEffect ==
  ASSUME Inv, PushAu
  PROVE  \E next \in ThisOrNextGop, new \in Pictures(S.start) :
           /\ gop' = next
           /\ UNCHANGED <<stream, main, decoded_images, threadVars, delivered>>
           /\ new.id = DisplayIndex(next)
           /\ new.idr = HEVC!isIdr(HevcType(next))
           /\ buffer' = new
           /\ base_bitstream' = Coming
           /\ Coming' = Append(Coming, new)
           /\ \E ts : enhancement_queue' = enhancement_queue \cup {[ts |-> ts, id |-> new.id]}
           /\ GopInv' /\ PicturesRead' = PicturesRead + 1
           /\ SeenIds' = Before(next) \cup {new.id}
           /\ SeenIds \subseteq SeenIds'
           /\ new.id \in Nat \ SeenIds
  <1>1. PICK next \in ThisOrNextGop : \E p \in {ParsedUnits(NalUnits(next))} :
          /\ ReadPicture(next, p)
          /\ \E au \in {AccessUnit(next, p)} :
               enhancement_queue' = enhancement_queue \cup {[ts |-> Pts(au), id |-> au.id]}
          /\ buffer' = [id |-> DisplayIndex(next), poc |-> HevcCount(next),
                        idr |-> HEVC!isIdr(HevcType(next))]
    BY DEF PushAu
  <1>2. PICK p : /\ ReadPicture(next, p)
                 /\ \E au \in {AccessUnit(next, p)} :
                      enhancement_queue' = enhancement_queue \cup {[ts |-> Pts(au), id |-> au.id]}
    BY <1>1
  <1>3. PICK au : /\ au = AccessUnit(next, p)
                  /\ enhancement_queue' = enhancement_queue \cup {[ts |-> Pts(au), id |-> au.id]}
    BY <1>2
  <1>4. au.id = DisplayIndex(next)
    BY <1>3 DEF AccessUnit
  <1>5. gop' = next /\ UNCHANGED stream
    BY <1>2 DEF ReadPicture
  <1>6. /\ GopInv' /\ PicturesRead' = PicturesRead + 1
        /\ SeenIds' = Before(next) \cup {DisplayIndex(next)}
        /\ DisplayIndex(next) \in Nat \ SeenIds
        /\ SeenIds \subseteq SeenIds'
    BY <1>5, ReadGop, NextGop DEF Inv
  <1> DEFINE new == [id |-> DisplayIndex(next), poc |-> HevcCount(next),
                     idr |-> HEVC!isIdr(HevcType(next))]
  <1>7. new \in Pictures(S.start) /\ new.id = DisplayIndex(next) /\ new.idr = HEVC!isIdr(HevcType(next))
    <2>1. S.start \in Nat
      BY StreamsAssumption DEF Inv, GopInv, S
    <2>2. HEVC!isIdr(HevcType(next)) \in BOOLEAN
      BY DEF HEVC!isIdr
    <2> QED
      BY <1>6, <2>1, <2>2 DEF Pictures, HevcCount
  <1>8. /\ main = "pushing" /\ base_bitstream' = PassOn(buffer)
        /\ UNCHANGED <<main, decoded_images, threadVars, delivered>>
    BY DEF PushAu
  <1>9. buffer' = new /\ new # NoBuffer
    <2>1. new.id # NoBuffer.id
      BY <1>6, <1>7 DEF NoBuffer
    <2> QED
      BY <1>1, <2>1
  <1>10. base_bitstream' = Coming /\ Coming' = Append(Coming, new)
    BY <1>8, <1>9 DEF Coming, Pushing, PassOn
  <1> HIDE DEF new
  <1> QED
    BY <1>3, <1>4, <1>5, <1>6, <1>7, <1>8, <1>9, <1>10

LEMMA PushAuKeepsInv ==
  ASSUME Inv, PushAu
  PROVE  Inv'
  <1>1. PICK next \in ThisOrNextGop, new \in Pictures(S.start) :
           /\ gop' = next
           /\ UNCHANGED <<stream, main, decoded_images, threadVars, delivered>>
           /\ buffer' = new
           /\ base_bitstream' = Coming
           /\ Coming' = Append(Coming, new)
           /\ \E ts : enhancement_queue' = enhancement_queue \cup {[ts |-> ts, id |-> new.id]}
           /\ GopInv' /\ PicturesRead' = PicturesRead + 1
           /\ SeenIds' = Before(next) \cup {new.id}
           /\ SeenIds \subseteq SeenIds'
           /\ new.id \in Nat \ SeenIds
    BY PushAuEffect
  <1>2. main = "pushing" /\ Pushing /\ thread = "none" /\ decoded_images = <<>> /\ pic_list = {}
    BY DEF PushAu, Inv, ControlInv, Pushing
  <1>3. UNCHANGED <<thread, pic_list, S>>
    BY <1>1 DEF threadVars, S
  <1>4. Coming \in Seq(Pictures(S.start)) /\ Len(Coming) \in Nat
    BY ComingPictures DEF Inv
  <1>5. /\ Len(Coming') = Len(Coming) + 1
        /\ \A i \in 1 .. Len(Coming) : Coming'[i] = Coming[i]
        /\ Coming'[Len(Coming) + 1] = new
    BY <1>1, <1>4
  <1>6. ControlInv' /\ RingInv'
    BY <1>1, <1>2, <1>3 DEF Inv, ControlInv, RingInv, Pushing, NullIn
  <1>7. PicturesInv'
    <2>1. /\ buffer' \in Pictures(S'.start) \cup {NoBuffer}
          /\ base_bitstream' \in Seq(Pictures(S'.start))
          /\ IsFiniteSet(pic_list') /\ pic_list' = {}
      BY <1>1, <1>2, <1>3, <1>4, FS_EmptySet
    <2>2. \A i \in 1 .. Len(Coming) : Coming[i].id \in SeenIds
      BY DEF Inv, PicturesInv
    <2>3. \A i \in 1 .. Len(Coming') : Coming'[i].id \in SeenIds'
      BY <1>1, <1>4, <1>5, <2>2
    <2>4. \A i, j \in 1 .. Len(Coming') : Coming'[i].id = Coming'[j].id => i = j
      <3>1. \A i, j \in 1 .. Len(Coming) : Coming[i].id = Coming[j].id => i = j
        BY DEF Inv, PicturesInv
      <3>2. \A i \in 1 .. Len(Coming) : Coming[i].id # new.id
        BY <1>1, <2>2
      <3>3. \A i \in 1 .. Len(Coming') : i # Len(Coming) + 1 => i \in 1 .. Len(Coming)
        BY <1>4, <1>5
      <3> QED
        BY <1>5, <3>1, <3>2, <3>3
    <2> QED
      BY <2>1, <2>3, <2>4 DEF PicturesInv
  <1>8. EnhancementInv'
    <2>0. PICK ts : enhancement_queue' = enhancement_queue \cup {[ts |-> ts, id |-> new.id]}
      BY <1>1
    <2> DEFINE e == [ts |-> ts, id |-> new.id]
    <2>1. e \notin enhancement_queue
      BY <1>1 DEF Inv, EnhancementInv
    <2>2. /\ IsFiniteSet(enhancement_queue') /\ enhancement_queue' = enhancement_queue \cup {e}
          /\ Cardinality(enhancement_queue') = Cardinality(enhancement_queue) + 1
      <3>1. IsFiniteSet(enhancement_queue)
        BY DEF Inv, EnhancementInv
      <3>2. enhancement_queue' = enhancement_queue \cup {e}
        BY <2>0
      <3> HIDE DEF e
      <3>3. /\ IsFiniteSet(enhancement_queue \cup {e})
            /\ Cardinality(enhancement_queue \cup {e}) = Cardinality(enhancement_queue) + 1
        BY <2>1, <3>1, FS_AddElement
      <3> QED
        BY <3>2, <3>3
    <2>3. \A f \in enhancement_queue' : f.id \in SeenIds'
      BY <1>1, <2>2 DEF Inv, EnhancementInv
    <2>4. Cardinality(enhancement_queue) \in Nat
      BY FS_CardinalityType DEF Inv, EnhancementInv
    <2>5. Len(delivered) \in Nat /\ PicturesRead \in Nat
      BY SeenAreNat DEF Inv, EnhancementInv
    <2> QED
      BY <1>1, <2>2, <2>3, <2>4, <2>5 DEF Inv, EnhancementInv
  <1>9. CountInv'
    <2>1. Nulls = 0 /\ Nulls' = 0
      BY <1>1, <1>2, <1>3 DEF Nulls, NullIn
    <2>2. Len(delivered) \in Nat /\ PicturesRead \in Nat
      BY SeenAreNat DEF Inv, EnhancementInv
    <2>3. Cardinality(pic_list) = 0 /\ Cardinality(pic_list') = 0
      BY <1>2, <1>3, FS_EmptySet
    <2> QED
      BY <1>1, <1>2, <1>3, <1>4, <1>5, <2>1, <2>2, <2>3 DEF Inv, CountInv
  <1> QED
    BY <1>1, <1>6, <1>7, <1>8, <1>9 DEF Inv

(* Of a step that moves no datum only the threads' places matter. *)
LEMMA NothingMoves ==
  ASSUME Inv, ControlInv',
         UNCHANGED <<stream, gop, buffer, enhancement_queue, decoded_images, pic_list, delivered>>,
         Coming' = Coming, NullIn' = NullIn, base_bitstream' \in Seq(Pictures(S.start))
  PROVE  Inv'
  <1>1. UNCHANGED <<S, SeenIds, PicturesRead, Nulls>>
    BY DEF S, SeenIds, PicturesRead, Nulls
  <1>2. GopInv'
    BY <1>1 DEF Inv, GopInv
  <1>3. RingInv'
    BY DEF Inv, RingInv
  <1>4. PicturesInv'
    BY <1>1 DEF Inv, PicturesInv
  <1>5. EnhancementInv' /\ CountInv'
    BY <1>1 DEF Inv, EnhancementInv, CountInv
  <1> QED
    BY <1>2, <1>3, <1>4, <1>5 DEF Inv

LEMMA ReadErrorMovesNothing ==
  ASSUME Inv, ReadError
  PROVE  Inv' /\ UNCHANGED <<stream, delivered, decoded_images, pic_list, poc_last_display, thread>>
              /\ Coming' = Coming
  <1>1. /\ main = "pushing" /\ main' = "exited"
        /\ UNCHANGED <<stream, gop, buffer, enhancement_queue, delivered, base_bitstream,
                       decoded_images, thread, pic_list, poc_last_display>>
    BY DEF ReadError, streamVars, threadVars
  <1>2. Coming' = Coming /\ NullIn' = NullIn
    BY <1>1 DEF Coming, Pushing, PassOn, NullIn
  <1>3. ControlInv' /\ base_bitstream' \in Seq(Pictures(S.start))
    BY <1>1 DEF Inv, ControlInv, Pushing, PicturesInv
  <1> QED
    BY <1>1, <1>2, <1>3, NothingMoves

LEMMA PushEndMovesNothing ==
  ASSUME Inv, PushEnd
  PROVE  Inv' /\ UNCHANGED <<stream, delivered, decoded_images, pic_list, poc_last_display>>
              /\ Coming' = Coming /\ thread = "none" /\ thread' = "decode"
  <1>1. /\ main = "pushing" /\ main' = "pulling" /\ thread' = "decode"
        /\ base_bitstream' = PassOn(buffer)
        /\ UNCHANGED <<stream, gop, buffer, enhancement_queue, delivered,
                       decoded_images, pic_list, poc_last_display>>
    BY DEF PushEnd, PushedLast, streamVars
  <1>2. thread = "none"
    BY <1>1 DEF Inv, ControlInv, Pushing
  <1>3. Coming' = Coming /\ NullIn' = NullIn /\ base_bitstream' = Coming
    BY <1>1, <1>2 DEF Coming, Pushing, NullIn
  <1>4. ControlInv'
    BY <1>1, <1>2 DEF Inv, ControlInv, Pushing
  <1>5. base_bitstream' \in Seq(Pictures(S.start))
    BY <1>3, ComingPictures DEF Inv
  <1> QED
    BY <1>1, <1>2, <1>3, <1>4, <1>5, NothingMoves

LEMMA JoinMovesNothing ==
  ASSUME Inv, Join
  PROVE  Inv' /\ UNCHANGED <<stream, delivered, decoded_images, pic_list, poc_last_display, thread>>
              /\ Coming' = Coming
  <1>1. /\ main = "joining" /\ main' = "done" /\ thread = "finished"
        /\ UNCHANGED <<stream, gop, buffer, enhancement_queue, delivered, base_bitstream,
                       decoded_images, thread, pic_list, poc_last_display>>
    BY DEF Join, streamVars, threadVars
  <1>2. Coming' = Coming /\ NullIn' = NullIn
    BY <1>1 DEF Coming, Pushing, NullIn
  <1>3. ControlInv' /\ base_bitstream' \in Seq(Pictures(S.start))
    BY <1>1 DEF Inv, ControlInv, Pushing, PicturesInv
  <1> QED
    BY <1>1, <1>2, <1>3, NothingMoves

LEMMA WriteOutputDoneMovesNothing ==
  ASSUME Inv, WriteOutputDone
  PROVE  Inv' /\ UNCHANGED <<stream, delivered, decoded_images, pic_list, poc_last_display>>
              /\ Coming' = Coming /\ Coming = base_bitstream
              /\ thread = "bump" /\ thread' = BeforeNext(Coming)
  <1>1. /\ thread = "bump" /\ thread' = BeforeNext(base_bitstream)
        /\ UNCHANGED <<stream, gop, main, buffer, enhancement_queue, delivered, base_bitstream,
                       decoded_images, pic_list, poc_last_display>>
    BY DEF WriteOutputDone, streamVars, mainVars
  <1>2. thread' \in {"flush", "decode"} /\ ~Pushing
    BY <1>1 DEF BeforeNext, Inv, ControlInv
  <1>3. Coming' = Coming /\ NullIn' = NullIn /\ Coming = base_bitstream
    BY <1>1, <1>2 DEF Coming, Pushing, NullIn
  <1>4. ControlInv' /\ base_bitstream' \in Seq(Pictures(S.start))
    BY <1>1, <1>2 DEF Inv, ControlInv, Pushing, PicturesInv
  <1> QED
    BY <1>1, <1>3, <1>4, NothingMoves

LEMMA FlushOutputDoneMovesNothing ==
  ASSUME Inv, FlushOutputDone
  PROVE  Inv' /\ UNCHANGED <<stream, delivered, decoded_images, pic_list>>
              /\ Coming' = Coming /\ poc_last_display' = NeverDisplayed
              /\ thread = "flush" /\ thread' = IF Coming = <<>> THEN "end" ELSE "decode"
  <1>1. /\ thread = "flush" /\ pic_list = {}
        /\ thread' = IF base_bitstream = <<>> THEN "end" ELSE "decode"
        /\ poc_last_display' = NeverDisplayed
        /\ UNCHANGED <<stream, gop, main, buffer, enhancement_queue, delivered, base_bitstream,
                       decoded_images, pic_list>>
    BY DEF FlushOutputDone, streamVars, mainVars
  <1>2. ~Pushing
    BY <1>1 DEF Inv, ControlInv
  <1>3. Coming' = Coming /\ NullIn' = NullIn /\ Coming = base_bitstream
    BY <1>1, <1>2 DEF Coming, Pushing, NullIn
  <1>4. ControlInv' /\ base_bitstream' \in Seq(Pictures(S.start))
    BY <1>1, <1>2 DEF Inv, ControlInv, Pushing, PicturesInv
  <1> QED
    BY <1>1, <1>3, <1>4, NothingMoves

LEMMA DecodeEffect ==
  ASSUME Inv, Decode
  PROVE  /\ UNCHANGED <<stream, gop, mainVars, decoded_images, poc_last_display>>
         /\ ~Pushing /\ ~Pushing'
         /\ thread = "decode" /\ thread' = "bump"
         /\ Coming = base_bitstream /\ Coming' = base_bitstream'
         /\ Coming \in Seq(Pictures(S.start)) /\ Coming # <<>>
         /\ pic_list' = pic_list \cup {Coming[1]}
         /\ Coming' = Tail(Coming)
  <1>1. /\ thread = "decode" /\ base_bitstream # <<>>
        /\ pic_list' = pic_list \cup {Head(base_bitstream)}
        /\ base_bitstream' = Tail(base_bitstream)
        /\ thread' = "bump"
        /\ UNCHANGED <<stream, gop, mainVars, decoded_images, poc_last_display>>
    BY DEF Decode, streamVars
  <1>2. ~Pushing /\ UNCHANGED main
    BY <1>1 DEF Inv, ControlInv, mainVars
  <1>3. ~Pushing' /\ Coming = base_bitstream /\ Coming' = base_bitstream'
    BY <1>2 DEF Coming, Pushing
  <1>4. Coming \in Seq(Pictures(S.start))
    BY ComingPictures DEF Inv
  <1>5. Head(Coming) = Coming[1]
    BY <1>1, <1>3, <1>4, TailOf
  <1> QED
    BY <1>1, <1>2, <1>3, <1>4, <1>5

LEMMA DecodeKeepsInv ==
  ASSUME Inv, Decode
  PROVE  Inv'
  <1>1. /\ UNCHANGED <<stream, gop, mainVars, decoded_images>>
        /\ ~Pushing /\ ~Pushing'
        /\ thread = "decode" /\ thread' = "bump"
        /\ Coming = base_bitstream /\ Coming' = base_bitstream'
        /\ Coming \in Seq(Pictures(S.start)) /\ Coming # <<>>
        /\ pic_list' = pic_list \cup {Coming[1]}
        /\ Coming' = Tail(Coming)
    BY DecodeEffect
  <1>2. /\ Coming[1] \in Pictures(S.start) /\ Len(Coming) \in Nat \ {0}
        /\ Coming' \in Seq(Pictures(S.start)) /\ Len(Coming') = Len(Coming) - 1
        /\ \A i \in 1 .. Len(Coming') : Coming'[i] = Coming[i + 1] /\ i + 1 \in 1 .. Len(Coming)
    BY <1>1, TailOf
  <1>3. /\ UNCHANGED <<S, SeenIds, PicturesRead>> /\ ~NullIn /\ ~NullIn'
        /\ Nulls = 0 /\ Nulls' = 0
    BY <1>1 DEF S, SeenIds, PicturesRead, NullIn, Nulls
  <1>4. UNCHANGED <<main, buffer, enhancement_queue, delivered>>
    BY <1>1 DEF mainVars
  <1>5. GopInv' /\ ControlInv' /\ RingInv' /\ EnhancementInv'
    BY <1>1, <1>3, <1>4 DEF Inv, GopInv, ControlInv, RingInv, EnhancementInv
  <1>6. /\ IsFiniteSet(pic_list') /\ Cardinality(pic_list') = Cardinality(pic_list) + 1
        /\ Cardinality(pic_list) \in Nat
    <2>1. Coming[1] \notin pic_list
      BY <1>2 DEF Inv, PicturesInv
    <2>2. IsFiniteSet(pic_list)
      BY DEF Inv, PicturesInv
    <2> QED
      BY <1>1, <2>1, <2>2, FS_AddElement, FS_CardinalityType
  <1>7. PicturesInv'
    <2>1. /\ buffer' \in Pictures(S'.start) \cup {NoBuffer}
          /\ base_bitstream' \in Seq(Pictures(S'.start))
          /\ pic_list' \subseteq Pictures(S'.start)
      BY <1>1, <1>2, <1>3, <1>4 DEF Inv, PicturesInv
    <2>2. /\ \A i \in 1 .. Len(Coming) : Coming[i].id \in SeenIds
          /\ \A i, j \in 1 .. Len(Coming) : Coming[i].id = Coming[j].id => i = j
          /\ \A i \in 1 .. Len(Coming) : \A p \in pic_list : p.id # Coming[i].id
          /\ \A p, q \in pic_list : p.id = q.id => p = q
      BY DEF Inv, PicturesInv
    <2>3. \A i \in 1 .. Len(Coming') : Coming'[i].id \in SeenIds'
      BY <1>2, <1>3, <2>2
    <2>4. \A i, j \in 1 .. Len(Coming') : Coming'[i].id = Coming'[j].id => i = j
      BY <1>2, <2>2
    <2>5. \A i \in 1 .. Len(Coming') : \A p \in pic_list' : p.id # Coming'[i].id
      <3>1. 1 \in 1 .. Len(Coming)
        BY <1>2
      <3>2. ASSUME NEW i \in 1 .. Len(Coming'), NEW p \in pic_list', p.id = Coming'[i].id
            PROVE  FALSE
        <4>1. Coming'[i] = Coming[i + 1] /\ i + 1 \in 1 .. Len(Coming) /\ i + 1 # 1
          BY <1>2
        <4> QED
          BY <1>1, <2>2, <3>1, <3>2, <4>1
      <3> QED
        BY <3>2
    <2>6. \A p, q \in pic_list' : p.id = q.id => p = q
      BY <1>1, <1>2, <2>2
    <2> QED
      BY <1>6, <2>1, <2>3, <2>4, <2>5, <2>6 DEF PicturesInv
  <1>8. CountInv'
    BY <1>1, <1>2, <1>3, <1>4, <1>6 DEF Inv, CountInv, RingInv, EnhancementInv
  <1> QED
    BY <1>5, <1>7, <1>8 DEF Inv

(* The list has a first picture. *)
LEMMA FirstIsInList ==
  ASSUME NEW start, NEW pics \in SUBSET Pictures(start), pics # {}
  PROVE  /\ FirstInList(pics) \in pics
         /\ \A q \in pics : FirstInList(pics).poc <= q.poc
  <1> DEFINE counts == {p.poc : p \in pics}
  <1>1. counts \subseteq Nat /\ counts # {}
    BY DEF Pictures
  <1>2. PICK c \in counts : \A d \in counts : ~(<<d, c>> \in OpToRel(<, Nat))
    <2> HIDE DEF counts
    <2> QED
      BY <1>1, WFMin, NatLessThanWellFounded
  <1>3. \A d \in counts : c <= d
    <2> SUFFICES ASSUME NEW d \in counts PROVE c <= d
      OBVIOUS
    <2>1. c \in Nat /\ d \in Nat
      BY <1>1
    <2>2. ~(d < c)
      BY <1>2, <2>1 DEF OpToRel
    <2> QED
      BY <2>1, <2>2
  <1>4. \E p \in pics : \A q \in pics : p.poc <= q.poc
    BY <1>3
  <1> QED
    BY <1>4 DEF FirstInList

(* WriteOutput and FlushOutput put a picture of the list into the ring.    *)
WriteEffect(p) ==
  /\ UNCHANGED <<stream, gop, main, buffer, enhancement_queue, delivered, base_bitstream>>
  /\ thread \in {"bump", "flush"} /\ thread' = thread
  /\ p \in pic_list /\ pic_list' = pic_list \ {p}
  /\ decoded_images' = Append(decoded_images, [id |-> p.id])
  /\ poc_last_display' = p.poc

LEMMA WriteOutputEffect ==
  ASSUME Inv, WriteOutput
  PROVE  /\ thread = "bump"
         /\ \E p : /\ WriteEffect(p) /\ p \in NotYetDisplayed
                   /\ \A q \in NotYetDisplayed : p.poc <= q.poc
         /\ TooMany(NotYetDisplayed) \/ MayBeFull(NotYetDisplayed)
  <1>1. NotYetDisplayed # {}
    <2>1. CASE TooMany(NotYetDisplayed)
      BY <2>1, NumReorderAssumption, FS_EmptySet DEF TooMany
    <2>2. CASE MayBeFull(NotYetDisplayed)
      BY <2>2 DEF MayBeFull
    <2> QED
      BY <2>1, <2>2 DEF WriteOutput
  <1>2. NotYetDisplayed \in SUBSET Pictures(S.start) /\ NotYetDisplayed \subseteq pic_list
    BY DEF Inv, PicturesInv, NotYetDisplayed
  <1>3. PICK p \in NotYetDisplayed : /\ p = FirstInList(NotYetDisplayed)
                                     /\ \A q \in NotYetDisplayed : p.poc <= q.poc
    BY <1>1, <1>2, FirstIsInList
  <1>4. WriteEffect(p)
    BY <1>2, <1>3 DEF WriteOutput, WritePicture, Unmarked, WriteEffect, streamVars, mainVars, Ring!Put
  <1> QED
    BY <1>3, <1>4 DEF WriteOutput

LEMMA FlushOutputEffect ==
  ASSUME Inv, FlushOutput
  PROVE  /\ thread = "flush"
         /\ \E p : WriteEffect(p) /\ \A q \in pic_list : p.poc <= q.poc
  <1>1. pic_list \in SUBSET Pictures(S.start) /\ pic_list # {}
    BY DEF Inv, PicturesInv, FlushOutput
  <1>2. PICK p \in pic_list : p = FirstInList(pic_list) /\ \A q \in pic_list : p.poc <= q.poc
    BY <1>1, FirstIsInList
  <1>3. WriteEffect(p)
    BY <1>2 DEF FlushOutput, WritePicture, Unmarked, WriteEffect, streamVars, mainVars, Ring!Put
  <1> QED
    BY <1>2, <1>3 DEF FlushOutput

LEMMA WriteKeepsInv ==
  ASSUME Inv, NEW p, WriteEffect(p)
  PROVE  Inv' /\ Coming' = Coming /\ Coming = base_bitstream /\ ~NullIn /\ ~NullIn'
  <1>1. /\ UNCHANGED <<stream, gop, main, buffer, enhancement_queue, delivered, base_bitstream>>
        /\ thread \in {"bump", "flush"} /\ thread' = thread
        /\ p \in pic_list /\ pic_list' = pic_list \ {p}
        /\ decoded_images' = Append(decoded_images, [id |-> p.id])
    BY DEF WriteEffect
  <1>2. ~Pushing /\ ~Pushing' /\ main = "pulling"
    BY <1>1 DEF Inv, ControlInv, Pushing
  <1>3. Coming' = Coming /\ Coming = base_bitstream
    BY <1>1, <1>2 DEF Coming
  <1>4. /\ UNCHANGED <<S, SeenIds, PicturesRead>> /\ ~NullIn /\ ~NullIn'
        /\ Nulls = 0 /\ Nulls' = 0
    BY <1>1 DEF S, SeenIds, PicturesRead, NullIn, Nulls
  <1>5. GopInv' /\ ControlInv' /\ EnhancementInv'
    BY <1>1, <1>2, <1>4 DEF Inv, GopInv, ControlInv, EnhancementInv
  <1>6. p.id \in Nat
    BY <1>1 DEF Inv, PicturesInv, Pictures
  <1> DEFINE ids == [id : Nat] \cup {NoPicture}
  <1>7. /\ decoded_images \in Seq(ids) /\ Len(decoded_images) \in Nat
        /\ [id |-> p.id] \in ids /\ [id |-> p.id] # NoPicture
    BY <1>6 DEF Inv, RingInv, NoPicture
  <1>8. /\ decoded_images' \in Seq(ids) /\ Len(decoded_images') = Len(decoded_images) + 1
        /\ \A i \in 1 .. Len(decoded_images) : decoded_images'[i] = decoded_images[i]
        /\ decoded_images'[Len(decoded_images) + 1] = [id |-> p.id]
    <2> HIDE DEF ids
    <2> QED
      BY <1>1, <1>7
  <1>9. RingInv'
    <2>1. \A i \in 1 .. Len(decoded_images) : decoded_images[i] # NoPicture
      BY <1>4 DEF Inv, RingInv
    <2>2. \A i \in 1 .. Len(decoded_images') : decoded_images'[i] # NoPicture
      BY <1>7, <1>8, <2>1
    <2> QED
      BY <1>4, <1>8, <2>2 DEF RingInv
  <1>10. PicturesInv'
    <2>1. IsFiniteSet(pic_list') /\ pic_list' \subseteq pic_list
      BY <1>1, FS_RemoveElement DEF Inv, PicturesInv
    <2> QED
      BY <1>1, <1>3, <1>4, <2>1 DEF Inv, PicturesInv
  <1>11. CountInv'
    <2>1. Cardinality(pic_list') = Cardinality(pic_list) - 1 /\ Cardinality(pic_list) \in Nat
      BY <1>1, FS_RemoveElement, FS_CardinalityType DEF Inv, PicturesInv
    <2>2. Len(Coming) \in Nat /\ Len(delivered) \in Nat
      BY ComingPictures DEF Inv, EnhancementInv
    <2>3. /\ Len(Coming') = Len(Coming) /\ Len(delivered') = Len(delivered)
          /\ PicturesRead' = PicturesRead
      BY <1>1, <1>3, <1>4
    <2>4. Len(Coming) + Cardinality(pic_list) + Len(decoded_images) + Len(delivered) = PicturesRead
      BY <1>4, <1>7, <2>1, <2>2 DEF Inv, CountInv
    <2>5. /\ Len(decoded_images') = Len(decoded_images) + 1
          /\ Cardinality(pic_list') = Cardinality(pic_list) - 1
          /\ Len(decoded_images) \in Nat /\ Nulls' = 0
      BY <1>4, <1>7, <1>8, <2>1
    <2>6. Len(Coming') + Cardinality(pic_list') + Len(decoded_images') - Nulls' + Len(delivered')
            = PicturesRead'
      BY <2>1, <2>2, <2>3, <2>4, <2>5
    <2> QED
      BY <2>6 DEF CountInv
  <1> QED
    BY <1>3, <1>4, <1>5, <1>9, <1>10, <1>11 DEF Inv

LEMMA PushNullEffect ==
  ASSUME Inv, PushNull
  PROVE  /\ UNCHANGED <<stream, gop, main, buffer, enhancement_queue, delivered, base_bitstream,
                        pic_list, poc_last_display>>
         /\ main = "pulling" /\ Coming' = Coming
         /\ thread = "end" /\ thread' = "finished"
         /\ decoded_images' = Append(decoded_images, NoPicture)
  <1>1. /\ UNCHANGED <<stream, gop, main, buffer, enhancement_queue, delivered, base_bitstream,
                       pic_list, poc_last_display>>
        /\ thread = "end" /\ thread' = "finished"
        /\ decoded_images' = Append(decoded_images, NoPicture)
    BY DEF PushNull, streamVars, mainVars, Ring!Put
  <1>2. main = "pulling"
    BY <1>1 DEF Inv, ControlInv, Pushing
  <1> QED
    BY <1>1, <1>2 DEF Coming, Pushing

LEMMA PushNullKeepsInv ==
  ASSUME Inv, PushNull
  PROVE  Inv'
  <1>1. /\ UNCHANGED <<stream, gop, main, buffer, enhancement_queue, delivered, base_bitstream,
                       pic_list>>
        /\ main = "pulling" /\ Coming' = Coming
        /\ thread = "end" /\ thread' = "finished"
        /\ decoded_images' = Append(decoded_images, NoPicture)
    BY PushNullEffect
  <1>2. /\ UNCHANGED <<S, SeenIds, PicturesRead>> /\ ~NullIn /\ NullIn'
        /\ Nulls = 0 /\ Nulls' = 1
    BY <1>1 DEF S, SeenIds, PicturesRead, NullIn, Nulls
  <1>3. GopInv' /\ ControlInv' /\ EnhancementInv' /\ PicturesInv'
    BY <1>1, <1>2 DEF Inv, GopInv, ControlInv, EnhancementInv, PicturesInv, Pushing
  <1> DEFINE ids == [id : Nat] \cup {NoPicture}
  <1>4. /\ decoded_images \in Seq(ids) /\ Len(decoded_images) \in Nat /\ NoPicture \in ids
        /\ \A i \in 1 .. Len(decoded_images) : decoded_images[i] # NoPicture
    BY <1>2 DEF Inv, RingInv
  <1> HIDE DEF ids
  <1>5. /\ decoded_images' \in Seq(ids) /\ Len(decoded_images') = Len(decoded_images) + 1
        /\ \A i \in 1 .. Len(decoded_images) : decoded_images'[i] = decoded_images[i]
        /\ decoded_images'[Len(decoded_images) + 1] = NoPicture
    BY <1>1, <1>4
  <1>6. RingInv'
    <2>1. \A i \in 1 .. Len(decoded_images') :
            decoded_images'[i] = NoPicture <=> i = Len(decoded_images')
      BY <1>4, <1>5
    <2> QED
      BY <1>2, <1>4, <1>5, <2>1 DEF RingInv, ids
  <1>7. CountInv'
    <2>1. Cardinality(pic_list) \in Nat
      BY FS_CardinalityType DEF Inv, PicturesInv
    <2>2. Len(Coming) \in Nat /\ Len(delivered) \in Nat
      BY ComingPictures DEF Inv, EnhancementInv
    <2>3. /\ Len(Coming') = Len(Coming) /\ Cardinality(pic_list') = Cardinality(pic_list)
          /\ Len(delivered') = Len(delivered) /\ PicturesRead' = PicturesRead
      BY <1>1, <1>2
    <2>4. Len(Coming) + Cardinality(pic_list) + Len(decoded_images) + Len(delivered) = PicturesRead
      BY <1>2, <1>4, <2>1, <2>2 DEF Inv, CountInv
    <2> QED
      BY <1>2, <1>4, <1>5, <2>1, <2>2, <2>3, <2>4 DEF CountInv
  <1> QED
    BY <1>3, <1>6, <1>7 DEF Inv

(* A picture that is pulled finds an enhancement: there are as many of     *)
(* them as pictures not delivered.                                         *)
LEMMA PullImageEffect ==
  ASSUME Inv, PullImage
  PROVE  /\ UNCHANGED <<stream, gop, main, buffer, base_bitstream, threadVars>>
         /\ main = "pulling"
         /\ decoded_images # <<>> /\ decoded_images' = Tail(decoded_images)
         /\ decoded_images[1] \in [id : Nat]
         /\ decoded_images[1] # NoPicture
         /\ \E pss \in enhancement_queue :
              /\ enhancement_queue' = enhancement_queue \ {pss}
              /\ delivered' = Append(delivered, [picture     |-> decoded_images[1].id,
                                                 enhancement |-> pss.id])
  <1>1. /\ UNCHANGED <<stream, gop, buffer, base_bitstream, threadVars>>
        /\ main = "pulling"
        /\ decoded_images # <<>> /\ decoded_images' = Tail(decoded_images)
        /\ Head(decoded_images) # NoPicture
        /\ main' = IF enhancement_queue = {} THEN "failed" ELSE main
    BY DEF PullImage, streamVars, Ring!Take
  <1>2. decoded_images \in Seq([id : Nat] \cup {NoPicture})
    BY DEF Inv, RingInv
  <1>3. /\ Head(decoded_images) = decoded_images[1]
        /\ decoded_images[1] \in [id : Nat] \cup {NoPicture}
        /\ Len(decoded_images) \in Nat \ {0}
    BY <1>1, <1>2, TailOf
  <1>4. Len(decoded_images) - Nulls \in Nat \ {0}
    <2>1. CASE NullIn
      <3>1. Len(decoded_images) # 1
        BY <1>1, <1>3, <2>1 DEF Inv, RingInv
      <3> QED
        BY <1>3, <2>1, <3>1 DEF Nulls
    <2>2. CASE ~NullIn
      BY <1>3, <2>2 DEF Nulls
    <2> QED
      BY <2>1, <2>2
  <1>5. enhancement_queue # {}
    <2>1. /\ Len(Coming) \in Nat /\ Len(delivered) \in Nat
          /\ Cardinality(pic_list) \in Nat /\ Cardinality(enhancement_queue) \in Nat
      BY ComingPictures, FS_CardinalityType DEF Inv, EnhancementInv, PicturesInv
    <2>2. PICK n \in Nat \ {0} : n = Len(decoded_images) - Nulls
      BY <1>4
    <2>3. Len(Coming) + Cardinality(pic_list) + n + Len(delivered) = PicturesRead
      <3>1. Nulls \in Nat
        BY DEF Nulls
      <3> QED
        BY <1>3, <2>1, <2>2, <3>1 DEF Inv, CountInv
    <2>4. Cardinality(enhancement_queue) + Len(delivered) = PicturesRead
      BY DEF Inv, EnhancementInv
    <2>5. Cardinality(enhancement_queue) # 0
      BY <2>1, <2>3, <2>4
    <2> QED
      BY <2>5, FS_EmptySet
  <1>6. PICK pss \in Earliest(enhancement_queue) :
          /\ enhancement_queue' = enhancement_queue \ {pss}
          /\ delivered' = Append(delivered, [picture     |-> Head(decoded_images).id,
                                             enhancement |-> pss.id])
    BY <1>5 DEF PullImage
  <1>7. pss \in enhancement_queue
    BY DEF Earliest
  <1> QED
    BY <1>1, <1>3, <1>5, <1>6, <1>7

LEMMA PullImageKeepsInv ==
  ASSUME Inv, PullImage
  PROVE  Inv'
  <1>1. /\ UNCHANGED <<stream, gop, main, buffer, base_bitstream, threadVars>>
        /\ main = "pulling"
        /\ decoded_images # <<>> /\ decoded_images' = Tail(decoded_images)
        /\ decoded_images[1] \in [id : Nat]
        /\ decoded_images[1] # NoPicture
    BY PullImageEffect
  <1>2. PICK pss \in enhancement_queue :
              /\ enhancement_queue' = enhancement_queue \ {pss}
              /\ delivered' = Append(delivered, [picture     |-> decoded_images[1].id,
                                                 enhancement |-> pss.id])
    BY PullImageEffect
  <1>3. UNCHANGED <<S, SeenIds, PicturesRead, Coming, NullIn, Nulls, thread, pic_list, Pushing>>
    BY <1>1 DEF S, SeenIds, PicturesRead, Coming, NullIn, Nulls, threadVars, Pushing, PassOn
  <1>4. /\ Len(decoded_images) \in Nat \ {0}
        /\ decoded_images' \in Seq([id : Nat] \cup {NoPicture})
        /\ Len(decoded_images') = Len(decoded_images) - 1
        /\ \A i \in 1 .. Len(decoded_images') :
             decoded_images'[i] = decoded_images[i + 1] /\ i + 1 \in 1 .. Len(decoded_images)
    <2>1. decoded_images \in Seq([id : Nat] \cup {NoPicture})
      BY DEF Inv, RingInv
    <2> QED
      BY <1>1, <2>1, TailOf
  <1>5. thread # "none"
    BY <1>1 DEF Inv, ControlInv, Pushing
  <1>6. GopInv' /\ PicturesInv' /\ ControlInv'
    BY <1>1, <1>3, <1>5 DEF Inv, GopInv, PicturesInv, ControlInv
  <1>7. RingInv'
    <2>1. \A i \in 1 .. Len(decoded_images) :
            decoded_images[i] = NoPicture <=> NullIn /\ i = Len(decoded_images)
      BY DEF Inv, RingInv
    <2>2. \A i \in 1 .. Len(decoded_images') :
            decoded_images'[i] = NoPicture <=> NullIn' /\ i = Len(decoded_images')
      BY <1>3, <1>4, <2>1
    <2>3. NullIn => Len(decoded_images) # 1
      <3>1. 1 \in 1 .. Len(decoded_images)
        BY <1>4
      <3> QED
        BY <1>1, <2>1, <3>1
    <2>4. NullIn' => decoded_images' # <<>>
      BY <1>3, <1>4, <2>3
    <2> QED
      BY <1>4, <2>2, <2>4 DEF RingInv
  <1>8. /\ delivered' \in Seq([picture : Nat, enhancement : Nat])
        /\ Len(delivered') = Len(delivered) + 1 /\ Len(delivered) \in Nat
    <2>1. pss.id \in Nat
      BY SeenAreNat DEF Inv, EnhancementInv
    <2>2. [picture |-> decoded_images[1].id, enhancement |-> pss.id] \in [picture : Nat, enhancement : Nat]
      BY <1>1, <2>1
    <2>3. delivered \in Seq([picture : Nat, enhancement : Nat])
      BY DEF Inv, EnhancementInv
    <2> QED
      BY <1>2, <2>2, <2>3
  <1>9. EnhancementInv'
    <2>1. /\ IsFiniteSet(enhancement_queue')
          /\ Cardinality(enhancement_queue') = Cardinality(enhancement_queue) - 1
          /\ Cardinality(enhancement_queue) \in Nat
      BY <1>2, FS_RemoveElement, FS_CardinalityType DEF Inv, EnhancementInv
    <2>2. \A e \in enhancement_queue' : e.id \in SeenIds'
      BY <1>2, <1>3 DEF Inv, EnhancementInv
    <2>3. Cardinality(enhancement_queue') + Len(delivered') = PicturesRead'
      BY <1>3, <1>8, <2>1 DEF Inv, EnhancementInv
    <2> QED
      BY <1>8, <2>1, <2>2, <2>3 DEF EnhancementInv
  <1>10. CountInv'
    <2>1. /\ Len(Coming) \in Nat /\ Cardinality(pic_list) \in Nat /\ Nulls \in Nat
      BY ComingPictures, FS_CardinalityType DEF Inv, PicturesInv, Nulls
    <2>2. /\ Len(Coming') = Len(Coming) /\ Cardinality(pic_list') = Cardinality(pic_list)
          /\ Nulls' = Nulls /\ PicturesRead' = PicturesRead
      BY <1>3
    <2> QED
      BY <1>4, <1>8, <2>1, <2>2 DEF Inv, CountInv
  <1> QED
    BY <1>6, <1>7, <1>9, <1>10 DEF Inv

LEMMA PullEndEffect ==
  ASSUME Inv, PullEnd
  PROVE  /\ UNCHANGED <<stream, gop, buffer, enhancement_queue, delivered, base_bitstream, threadVars>>
         /\ main = "pulling" /\ main' = "joining" /\ thread = "finished"
         /\ Len(decoded_images) = 1 /\ Nulls = 1 /\ decoded_images' = <<>>
         /\ Coming' = Coming
  <1>1. /\ UNCHANGED <<stream, gop, buffer, enhancement_queue, delivered, base_bitstream, threadVars>>
        /\ main = "pulling" /\ main' = "joining"
        /\ decoded_images # <<>> /\ decoded_images' = Tail(decoded_images)
        /\ Head(decoded_images) = NoPicture
    BY DEF PullEnd, streamVars, Ring!Take
  <1>2. decoded_images \in Seq([id : Nat] \cup {NoPicture})
    BY DEF Inv, RingInv
  <1>3. /\ Head(decoded_images) = decoded_images[1]
        /\ Len(decoded_images) \in Nat \ {0}
        /\ Tail(decoded_images) \in Seq([id : Nat] \cup {NoPicture})
        /\ Len(Tail(decoded_images)) = Len(decoded_images) - 1
    BY <1>1, <1>2, TailOf
  <1>4. NullIn /\ Len(decoded_images) = 1
    <2>1. \A i \in 1 .. Len(decoded_images) :
            decoded_images[i] = NoPicture <=> NullIn /\ i = Len(decoded_images)
      BY DEF Inv, RingInv
    <2>2. 1 \in 1 .. Len(decoded_images) /\ decoded_images[1] = NoPicture
      BY <1>1, <1>3
    <2> QED
      BY <2>1, <2>2
  <1>5. decoded_images' = <<>>
    BY <1>1, <1>3, <1>4
  <1>6. Coming' = Coming
    BY <1>1 DEF Coming, Pushing
  <1> QED
    BY <1>1, <1>4, <1>5, <1>6 DEF NullIn, Nulls

LEMMA PullEndKeepsInv ==
  ASSUME Inv, PullEnd
  PROVE  Inv'
  <1>1. /\ UNCHANGED <<stream, gop, buffer, enhancement_queue, delivered, base_bitstream, threadVars>>
        /\ main = "pulling" /\ main' = "joining" /\ thread = "finished"
        /\ Len(decoded_images) = 1 /\ Nulls = 1 /\ decoded_images' = <<>>
        /\ Coming' = Coming
    BY PullEndEffect
  <1>2. UNCHANGED <<S, SeenIds, PicturesRead, thread, pic_list>> /\ ~NullIn' /\ Nulls' = 0
    BY <1>1 DEF S, SeenIds, PicturesRead, NullIn, Nulls, threadVars
  <1>3. GopInv' /\ ControlInv' /\ RingInv' /\ PicturesInv' /\ EnhancementInv'
    BY <1>1, <1>2 DEF Inv, GopInv, ControlInv, RingInv, PicturesInv, EnhancementInv, Pushing
  <1>4. CountInv'
    <2>1. /\ Len(Coming) \in Nat /\ Cardinality(pic_list) \in Nat /\ Len(delivered) \in Nat
      BY ComingPictures, FS_CardinalityType DEF Inv, PicturesInv, EnhancementInv
    <2>2. /\ Len(Coming') = Len(Coming) /\ Cardinality(pic_list') = Cardinality(pic_list)
          /\ Len(delivered') = Len(delivered) /\ PicturesRead' = PicturesRead
          /\ Len(decoded_images') = 0
      BY <1>1, <1>2
    <2> QED
      BY <1>1, <1>2, <2>1, <2>2 DEF Inv, CountInv
  <1> QED
    BY <1>3, <1>4 DEF Inv

LEMMA StutterKeepsInv == Inv /\ UNCHANGED vars => Inv' /\ Coming' = Coming
  <1> SUFFICES ASSUME Inv, UNCHANGED vars PROVE Inv' /\ Coming' = Coming
    OBVIOUS
  <1>1. UNCHANGED <<stream, gop, main, buffer, enhancement_queue, delivered, base_bitstream,
                    decoded_images, thread, pic_list>>
    BY DEF vars, streamVars, mainVars, threadVars
  <1>2. Coming' = Coming /\ NullIn' = NullIn
    BY <1>1 DEF Coming, Pushing, PassOn, NullIn
  <1>3. ControlInv' /\ base_bitstream' \in Seq(Pictures(S.start))
    BY <1>1 DEF Inv, ControlInv, Pushing, PicturesInv
  <1> QED
    BY <1>1, <1>2, <1>3, NothingMoves

LEMMA StepKeepsInv == Inv /\ [Next]_vars => Inv'
  <1> SUFFICES ASSUME Inv, [Next]_vars PROVE Inv'
    OBVIOUS
  <1>1. CASE PushAu
    BY <1>1, PushAuKeepsInv
  <1>2. CASE ReadError
    BY <1>2, ReadErrorMovesNothing
  <1>3. CASE PushEnd
    BY <1>3, PushEndMovesNothing
  <1>4. CASE PullImage
    BY <1>4, PullImageKeepsInv
  <1>5. CASE PullEnd
    BY <1>5, PullEndKeepsInv
  <1>6. CASE Join
    BY <1>6, JoinMovesNothing
  <1>7. CASE Decode
    BY <1>7, DecodeKeepsInv
  <1>8. CASE WriteOutput
    BY <1>8, WriteOutputEffect, WriteKeepsInv
  <1>9. CASE WriteOutputDone
    BY <1>9, WriteOutputDoneMovesNothing
  <1>10. CASE FlushOutput
    BY <1>10, FlushOutputEffect, WriteKeepsInv
  <1>11. CASE FlushOutputDone
    BY <1>11, FlushOutputDoneMovesNothing
  <1>12. CASE PushNull
    BY <1>12, PushNullKeepsInv
  <1>13. CASE UNCHANGED vars
    BY <1>13, StutterKeepsInv
  <1> QED
    BY <1>1, <1>2, <1>3, <1>4, <1>5, <1>6, <1>7, <1>8, <1>9, <1>10, <1>11, <1>12, <1>13
       DEF Next, Main, Thread

(* CHECK(!enhancement_queue_.empty()) of push_es never fires, whatever     *)
(* counts the parser gives the access units: the queue holds one           *)
(* enhancement for each picture that has not been delivered.               *)
THEOREM NoCheckFails == Spec => []EnhancementAtHand
  <1>1. Inv => EnhancementAtHand
    BY DEF Inv, ControlInv, EnhancementAtHand
  <1> QED
    BY <1>1, InitInv, StepKeepsInv, PTL DEF Spec

(* When the program is done, every access unit that it read has been       *)
(* delivered, with one enhancement each, and nothing is held back: not in  *)
(* the buffer of the last access unit, in the collected stream, in the     *)
(* picture list, in the ring or in the queue of enhancement data.          *)
THEOREM EverythingDelivered == Spec => []AllDelivered
  <1>1. Inv => AllDelivered
    <2> SUFFICES ASSUME Inv, main = "done" PROVE AllDelivered
      BY DEF AllDelivered
    <2>1. thread = "finished" /\ decoded_images = <<>> /\ base_bitstream = <<>> /\ pic_list = {}
      BY DEF Inv, ControlInv
    <2>2. Coming = <<>> /\ Nulls = 0
      BY <2>1 DEF Coming, Pushing, Nulls, NullIn
    <2>3. Len(delivered) = PicturesRead /\ Len(delivered) \in Nat
      BY <2>1, <2>2, FS_EmptySet DEF Inv, CountInv, EnhancementInv
    <2>4. Cardinality(enhancement_queue) = 0
      BY <2>3, FS_CardinalityType DEF Inv, EnhancementInv
    <2>5. enhancement_queue = {}
      BY <2>4, FS_EmptySet DEF Inv, EnhancementInv
    <2> QED
      BY <2>1, <2>3, <2>5 DEF AllDelivered
  <1> QED
    BY <1>1, InitInv, StepKeepsInv, PTL DEF Spec

-----------------------------------------------------------------------------
(* The order of the pictures.                                              *)

(* The pictures coded before the i-th to come that are not displayed yet,  *)
(* and are displayed after it.                                             *)
Ahead(i) == {q \in pic_list \cup {Coming[j] : j \in 1 .. i - 1} : q.id > Coming[i].id}

(* All that is out, delivered or in the ring, is in order and no later     *)
(* than h.                                                                 *)
OutInv(h) ==
  /\ h \in Int /\ h >= -1
  /\ poc_last_display \in Int /\ poc_last_display <= S.start + h
  /\ \A i \in 1 .. Len(delivered) : delivered[i].picture <= h
  /\ \A i, j \in 1 .. Len(delivered) : i < j => delivered[i].picture < delivered[j].picture
  /\ \A i \in 1 .. Len(decoded_images) :
       decoded_images[i] # NoPicture =>
         /\ decoded_images[i].id <= h
         /\ \A j \in 1 .. i - 1 : decoded_images[j].id < decoded_images[i].id
         /\ \A j \in 1 .. Len(delivered) : delivered[j].picture < decoded_images[i].id

(* All that is not out is later than h, and never waits for more than the  *)
(* stream reorders.                                                        *)
ToComeInv(h) ==
  /\ thread = "none" => h = -1
  /\ \A p \in pic_list : p.id > h
  /\ \A i \in 1 .. Len(Coming) : Coming[i].id > h
  /\ \A i \in 1 .. Len(Coming) : IsFiniteSet(Ahead(i)) /\ Cardinality(Ahead(i)) <= NumReorder
  /\ \A i \in 1 .. Len(Coming) : Coming[i].idr => i = 1 /\ thread \in {"none", "decode"}
  /\ thread = "flush" => Coming = <<>>

DisplayInv(h) == OutInv(h) /\ ToComeInv(h)

LEMMA InitDisplay == Init => DisplayInv(-1)
  <1> SUFFICES ASSUME Init PROVE DisplayInv(-1)
    OBVIOUS
  <1>1. /\ main = "pushing" /\ buffer = NoBuffer /\ base_bitstream = <<>>
        /\ decoded_images = <<>> /\ thread = "none" /\ pic_list = {} /\ delivered = <<>>
        /\ poc_last_display = NeverDisplayed
    BY DEF Init
  <1>2. S.start \in Nat
    BY StreamsAssumption DEF Init, StreamInit, CoderInit, S
  <1>3. Coming = <<>>
    BY <1>1 DEF Coming, Pushing, PassOn
  <1> QED
    BY <1>1, <1>2, <1>3 DEF DisplayInv, OutInv, ToComeInv, NeverDisplayed

LEMMA StartIsNat == Inv => S.start \in Nat
  BY StreamsAssumption DEF Inv, GopInv, S

(* The new picture finds no more ahead of it than the stream reorders: all *)
(* of them are of its own group.                                           *)
LEMMA FewAhead ==
  ASSUME GopInv, NEW next \in ThisOrNextGop, NEW A,
         \A q \in A : q.id \in SeenIds /\ q.id > DisplayIndex(next),
         \A q, r \in A : q.id = r.id => q = r
  PROVE  IsFiniteSet(A) /\ Cardinality(A) <= NumReorder
  <1>1. /\ next \in Gops /\ next.order \in S.orders
        /\ next.done \in 1 .. Len(next.order)
        /\ SeenIds \subseteq Before(next)
    BY NextGop
  <1>2. PICK o, k : o = next.order /\ k = next.done
    OBVIOUS
  <1>3. /\ o \in Seq(Nat) /\ k \in 1 .. Len(o) /\ k \in Nat /\ o \in S.orders
        /\ next.first \in Nat
    BY <1>1, <1>2 DEF Gops
  <1> DEFINE P == {j \in 1 .. k : o[j] > o[k]}
  <1>4. IsFiniteSet(P) /\ Cardinality(P) <= NumReorder /\ Cardinality(P) \in Nat
    <2>1. stream \in DOMAIN Streams /\ k \in DOMAIN o
      BY <1>3 DEF GopInv
    <2>2. Cardinality(P) <= NumReorder
      BY <1>3, <2>1, NumReorderAssumption DEF S
    <2>3. IsFiniteSet(1 .. k)
      BY <1>3, FS_Interval
    <2>4. IsFiniteSet(P)
      BY <2>3, FS_Subset
    <2> QED
      BY <2>2, <2>4, FS_CardinalityType
  <1>5. \A q \in A : \E m \in P : q.id = next.first + o[m]
    <2> SUFFICES ASSUME NEW q \in A PROVE \E m \in P : q.id = next.first + o[m]
      OBVIOUS
    <2>1. o[k] \in Nat /\ DisplayIndex(next) = next.first + o[k]
      BY <1>2, <1>3 DEF DisplayIndex, Place
    <2>2. q.id \in Before(next) /\ q.id > next.first + o[k]
      BY <1>1, <2>1
    <2>3. q.id \notin 0 .. next.first - 1
      BY <1>3, <2>1, <2>2
    <2>4. PICK m \in 1 .. k - 1 : q.id = next.first + o[m]
      BY <1>2, <2>2, <2>3 DEF Before
    <2>5. m \in 1 .. k /\ o[m] \in Nat
      BY <1>3
    <2>6. o[m] > o[k]
      BY <1>3, <2>1, <2>2, <2>4, <2>5
    <2> QED
      BY <2>4, <2>5, <2>6
  <1> HIDE DEF P
  <1> DEFINE f == [q \in A |-> CHOOSE m \in P : q.id = next.first + o[m]]
  <1>6. \A q \in A : f[q] \in P /\ q.id = next.first + o[f[q]]
    BY <1>5
  <1>7. f \in [A -> P] /\ DOMAIN f = A
    BY <1>6
  <1>8. \A q, r \in A : f[q] = f[r] => q = r
    BY <1>6
  <1> HIDE DEF f
  <1>9. f \in Injection(A, P)
    BY <1>7, <1>8 DEF Injection, IsInjective
  <1>10. IsFiniteSet(A) /\ Cardinality(A) <= Cardinality(P)
    BY <1>4, <1>9, FS_Injection
  <1>11. Cardinality(A) \in Nat
    BY <1>10, FS_CardinalityType
  <1> QED
    BY <1>4, <1>10, <1>11, NumReorderAssumption

(* Only the first picture of the stream is an IDR. *)
LEMMA IdrIsFirst ==
  ASSUME GopInv, NEW next \in ThisOrNextGop, HEVC!isIdr(HevcType(next))
  PROVE  PicturesRead = 0
  <1>1. next.done = 1 /\ next.groups = 1
    BY DEF HEVC!isIdr, HevcType, HEVC!CRA, HEVC!IDR_W_RADL
  <1> QED
    BY <1>1, NextGop

LEMMA PushAuKeepsDisplay ==
  ASSUME Inv, NEW h, DisplayInv(h), PushAu
  PROVE  DisplayInv(h)'
  <1>1. PICK next \in ThisOrNextGop, new \in Pictures(S.start) :
           /\ gop' = next
           /\ UNCHANGED <<stream, main, decoded_images, threadVars, delivered>>
           /\ new.id = DisplayIndex(next)
           /\ new.idr = HEVC!isIdr(HevcType(next))
           /\ Coming' = Append(Coming, new)
           /\ new.id \in Nat \ SeenIds
    BY PushAuEffect
  <1>2. thread = "none" /\ pic_list = {} /\ decoded_images = <<>> /\ main = "pushing"
    BY DEF PushAu, Inv, ControlInv, Pushing
  <1>3. UNCHANGED <<thread, pic_list, poc_last_display, S>>
    BY <1>1 DEF threadVars, S
  <1>4. Coming \in Seq(Pictures(S.start)) /\ Len(Coming) \in Nat
    BY ComingPictures DEF Inv
  <1>0. PICK n \in Nat : n = Len(Coming)
    BY <1>4
  <1>5. /\ Len(Coming') = n + 1
        /\ \A i \in 1 .. n : Coming'[i] = Coming[i]
        /\ Coming'[n + 1] = new
        /\ \A i \in 1 .. n + 1 : i = n + 1 \/ i \in 1 .. n
    BY <1>0, <1>1, <1>4
  <1>6. OutInv(h)'
    BY <1>1, <1>3 DEF DisplayInv, OutInv
  <1>7. h = -1
    BY <1>2 DEF DisplayInv, ToComeInv
  <1>8. \A i \in 1 .. Len(Coming') : Coming'[i].id > h
    BY <1>0, <1>1, <1>5, <1>7 DEF DisplayInv, ToComeInv
  <1>9. \A i \in 1 .. Len(Coming') : Coming'[i].idr => i = 1
    <2>1. new.idr => n = 0
      <3>1. Cardinality(pic_list) = 0 /\ Nulls = 0 /\ Len(decoded_images) = 0
        BY <1>2, FS_EmptySet DEF Nulls, NullIn
      <3>2. n + Len(delivered) = PicturesRead /\ Len(delivered) \in Nat
        BY <1>0, <1>4, <3>1 DEF Inv, CountInv, EnhancementInv
      <3>3. new.idr => PicturesRead = 0
        BY <1>1, IdrIsFirst DEF Inv
      <3> QED
        BY <1>0, <3>2, <3>3
    <2> QED
      BY <1>0, <1>5, <2>1 DEF DisplayInv, ToComeInv
  <1>10. \A i \in 1 .. Len(Coming') : IsFiniteSet(Ahead(i)') /\ Cardinality(Ahead(i)') <= NumReorder
    <2>1. ASSUME NEW i \in 1 .. n
          PROVE  Ahead(i)' = Ahead(i)
      <3>1. {Coming'[j] : j \in 1 .. i - 1} = {Coming[j] : j \in 1 .. i - 1}
        BY <1>0, <1>5
      <3> QED
        BY <1>3, <1>5, <3>1 DEF Ahead
    <2>2. IsFiniteSet(Ahead(n + 1)') /\ Cardinality(Ahead(n + 1)') <= NumReorder
      <3>1. Ahead(n + 1)' = {q \in {Coming[j] : j \in 1 .. n} : q.id > new.id}
        <4>1. {Coming'[j] : j \in 1 .. n + 1 - 1} = {Coming[j] : j \in 1 .. n}
          BY <1>0, <1>5
        <4> QED
          BY <1>2, <1>3, <1>5, <4>1 DEF Ahead
      <3> DEFINE A == {q \in {Coming[j] : j \in 1 .. n} : q.id > new.id}
      <3>2. \A q \in A : q.id \in SeenIds /\ q.id > DisplayIndex(next)
        BY <1>0, <1>1 DEF Inv, PicturesInv
      <3>3. \A q, r \in A : q.id = r.id => q = r
        BY <1>0 DEF Inv, PicturesInv
      <3>4. GopInv
        BY DEF Inv
      <3> HIDE DEF A
      <3>5. IsFiniteSet(A) /\ Cardinality(A) <= NumReorder
        BY <3>2, <3>3, <3>4, FewAhead
      <3> QED
        BY <3>1, <3>5 DEF A
    <2>3. \A i \in 1 .. n : IsFiniteSet(Ahead(i)) /\ Cardinality(Ahead(i)) <= NumReorder
      BY <1>0 DEF DisplayInv, ToComeInv
    <2> QED
      BY <1>0, <1>5, <2>1, <2>2, <2>3
  <1>11. ToComeInv(h)'
    BY <1>2, <1>3, <1>7, <1>8, <1>9, <1>10 DEF ToComeInv
  <1> QED
    BY <1>6, <1>11 DEF DisplayInv

LEMMA DecodeKeepsDisplay ==
  ASSUME Inv, NEW h, DisplayInv(h), Decode
  PROVE  DisplayInv(h)'
  <1>1. /\ UNCHANGED <<stream, gop, mainVars, decoded_images, poc_last_display>>
        /\ thread = "decode" /\ thread' = "bump"
        /\ Coming \in Seq(Pictures(S.start)) /\ Coming # <<>>
        /\ pic_list' = pic_list \cup {Coming[1]}
        /\ Coming' = Tail(Coming)
    BY DecodeEffect
  <1>2. /\ Len(Coming) \in Nat \ {0} /\ Len(Coming') = Len(Coming) - 1
        /\ \A i \in 1 .. Len(Coming') : Coming'[i] = Coming[i + 1] /\ i + 1 \in 1 .. Len(Coming)
        /\ 1 \in 1 .. Len(Coming)
    BY <1>1, TailOf
  <1>3. OutInv(h)'
    BY <1>1 DEF DisplayInv, OutInv, S, mainVars
  <1>4. ASSUME NEW i \in 1 .. Len(Coming')
        PROVE  Ahead(i)' = Ahead(i + 1)
    <2>1. i \in Nat \ {0} /\ i - 1 \in Nat /\ i + 1 - 1 = i /\ i <= Len(Coming')
      BY <1>2
    <2>2. {Coming'[j] : j \in 1 .. i - 1} = {Coming[j] : j \in 2 .. i}
      <3>1. \A j \in 1 .. i - 1 : Coming'[j] = Coming[j + 1] /\ j + 1 \in 2 .. i
        BY <1>2, <2>1
      <3>2. \A j \in 2 .. i : j - 1 \in 1 .. i - 1 /\ Coming[j] = Coming'[j - 1]
        BY <1>2, <2>1
      <3>3. {Coming'[j] : j \in 1 .. i - 1} \subseteq {Coming[j] : j \in 2 .. i}
        BY <3>1
      <3>4. {Coming[j] : j \in 2 .. i} \subseteq {Coming'[j] : j \in 1 .. i - 1}
        BY <3>2
      <3> QED
        BY <3>3, <3>4
    <2>3. {Coming[j] : j \in 1 .. i + 1 - 1} = {Coming[1]} \cup {Coming[j] : j \in 2 .. i}
      BY <2>1
    <2>4. Coming'[i] = Coming[i + 1]
      BY <1>2
    <2> QED
      BY <1>1, <2>2, <2>3, <2>4 DEF Ahead
  <1>5. \A i \in 1 .. Len(Coming') : IsFiniteSet(Ahead(i)') /\ Cardinality(Ahead(i)') <= NumReorder
    BY <1>2, <1>4 DEF DisplayInv, ToComeInv
  <1>6. /\ \A p \in pic_list' : p.id > h
        /\ \A i \in 1 .. Len(Coming') : Coming'[i].id > h
    BY <1>1, <1>2 DEF DisplayInv, ToComeInv
  <1>7. \A i \in 1 .. Len(Coming') : ~Coming'[i].idr
    <2>1. \A i \in 1 .. Len(Coming) : Coming[i].idr => i = 1
      BY DEF DisplayInv, ToComeInv
    <2>2. \A i \in 1 .. Len(Coming') : i + 1 # 1
      BY <1>2
    <2> QED
      BY <1>2, <2>1, <2>2
  <1>8. ToComeInv(h)'
    BY <1>1, <1>5, <1>6, <1>7 DEF ToComeInv
  <1> QED
    BY <1>3, <1>8 DEF DisplayInv

(* What goes out must be before all that is to come and all that stays. *)
LEMMA WriteKeepsDisplay ==
  ASSUME Inv, NEW h, DisplayInv(h), NEW p, WriteEffect(p),
         \A q \in pic_list : q # p => p.id < q.id,
         \A i \in 1 .. Len(Coming) : p.id < Coming[i].id
  PROVE  DisplayInv(p.id)'
  <1>1. /\ UNCHANGED <<stream, gop, main, buffer, delivered, base_bitstream, thread>>
        /\ thread \in {"bump", "flush"}
        /\ p \in pic_list /\ pic_list' = pic_list \ {p}
        /\ decoded_images' = Append(decoded_images, [id |-> p.id])
        /\ poc_last_display' = p.poc
    BY DEF WriteEffect
  <1>2. Coming' = Coming /\ ~NullIn
    BY WriteKeepsInv
  <1>3. /\ p.id \in Nat /\ p.poc = S.start + p.id /\ S.start \in Nat /\ S' = S
    BY <1>1, StartIsNat DEF Inv, PicturesInv, Pictures, S
  <1>4. PICK r \in Nat : r = p.id
    BY <1>3
  <1>5. h \in Int /\ h < r
    BY <1>1, <1>4 DEF DisplayInv, OutInv, ToComeInv
  <1>6. delivered \in Seq([picture : Nat, enhancement : Nat])
    BY DEF Inv, EnhancementInv
  <1>7. PICK n \in Nat : n = Len(decoded_images)
    BY DEF Inv, RingInv
  <1>8. /\ Len(decoded_images') = n + 1
        /\ \A i \in 1 .. n : decoded_images'[i] = decoded_images[i]
        /\ decoded_images'[n + 1] = [id |-> r]
        /\ \A i \in 1 .. n + 1 : i = n + 1 \/ i \in 1 .. n
    <2>1. decoded_images \in Seq([id : Nat] \cup {NoPicture})
      BY DEF Inv, RingInv
    <2> QED
      BY <1>1, <1>4, <1>7, <2>1
  <1>9. \A i \in 1 .. n : decoded_images[i].id \in Nat /\ decoded_images[i].id < r
    <2> SUFFICES ASSUME NEW i \in 1 .. n
                 PROVE  decoded_images[i].id \in Nat /\ decoded_images[i].id < r
      OBVIOUS
    <2>1. decoded_images[i] \in [id : Nat] /\ decoded_images[i] # NoPicture
      BY <1>2, <1>7 DEF Inv, RingInv
    <2>2. decoded_images[i].id <= h
      BY <1>7, <2>1 DEF DisplayInv, OutInv
    <2> QED
      BY <1>5, <2>1, <2>2
  <1>10. \A i \in 1 .. Len(delivered) : delivered[i].picture \in Nat /\ delivered[i].picture < r
    <2> SUFFICES ASSUME NEW i \in 1 .. Len(delivered)
                 PROVE  delivered[i].picture \in Nat /\ delivered[i].picture < r
      OBVIOUS
    <2>1. delivered[i].picture \in Nat
      <3>1. delivered[i] \in [picture : Nat, enhancement : Nat]
        BY <1>6, ElementOf
      <3> QED
        BY <3>1
    <2>2. delivered[i].picture <= h
      BY DEF DisplayInv, OutInv
    <2> QED
      BY <1>5, <2>1, <2>2
  <1>11. OutInv(r)'
    <2>1. r \in Int /\ r >= -1
      OBVIOUS
    <2>2. poc_last_display' \in Int /\ poc_last_display' <= S'.start + r
      BY <1>1, <1>3, <1>4
    <2>3. /\ \A i \in 1 .. Len(delivered') : delivered'[i].picture <= r
          /\ \A i, j \in 1 .. Len(delivered') :
               i < j => delivered'[i].picture < delivered'[j].picture
      BY <1>1, <1>10 DEF DisplayInv, OutInv
    <2>4. ASSUME NEW i \in 1 .. Len(decoded_images'), decoded_images'[i] # NoPicture
          PROVE  /\ decoded_images'[i].id <= r
                 /\ \A j \in 1 .. i - 1 : decoded_images'[j].id < decoded_images'[i].id
                 /\ \A j \in 1 .. Len(delivered') : delivered'[j].picture < decoded_images'[i].id
      <3>1. CASE i = n + 1
        <4>1. decoded_images'[i].id = r
          BY <1>8, <3>1
        <4>2. \A j \in 1 .. i - 1 : j \in 1 .. n
          BY <3>1
        <4> QED
          BY <1>1, <1>8, <1>9, <1>10, <4>1, <4>2
      <3>2. CASE i # n + 1
        <4>1. i \in 1 .. n /\ decoded_images'[i] = decoded_images[i]
          BY <1>8, <3>2
        <4>2. \A j \in 1 .. i - 1 : j \in 1 .. n /\ decoded_images'[j] = decoded_images[j]
          BY <1>8, <4>1
        <4>3. /\ \A j \in 1 .. i - 1 : decoded_images[j].id < decoded_images[i].id
              /\ \A j \in 1 .. Len(delivered) : delivered[j].picture < decoded_images[i].id
          BY <1>7, <2>4, <4>1 DEF DisplayInv, OutInv
        <4> QED
          BY <1>1, <1>9, <4>1, <4>2, <4>3
      <3> QED
        BY <3>1, <3>2
    <2> QED
      BY <2>1, <2>2, <2>3, <2>4 DEF OutInv
  <1>12. ToComeInv(r)'
    <2>1. \A q \in pic_list' : q.id > r
      BY <1>1, <1>4 DEF Inv, PicturesInv, Pictures
    <2>2. \A i \in 1 .. Len(Coming') : Coming'[i].id > r
      <3>1. \A i \in 1 .. Len(Coming) : Coming[i].id \in Nat
        BY ComingPictures DEF Inv, Pictures
      <3> QED
        BY <1>2, <1>4, <3>1
    <2>3. ASSUME NEW i \in 1 .. Len(Coming')
          PROVE  IsFiniteSet(Ahead(i)') /\ Cardinality(Ahead(i)') <= NumReorder
      <3>1. Ahead(i)' \subseteq Ahead(i)
        BY <1>1, <1>2 DEF Ahead
      <3>2. IsFiniteSet(Ahead(i)) /\ Cardinality(Ahead(i)) <= NumReorder
        BY <1>2 DEF DisplayInv, ToComeInv
      <3>3. /\ IsFiniteSet(Ahead(i)') /\ Cardinality(Ahead(i)') <= Cardinality(Ahead(i))
            /\ Cardinality(Ahead(i)) \in Nat
        BY <3>1, <3>2, FS_Subset, FS_CardinalityType
      <3>4. Cardinality(Ahead(i)') \in Nat
        BY <3>3, FS_CardinalityType
      <3> QED
        BY <3>2, <3>3, <3>4, NumReorderAssumption
    <2> QED
      BY <1>1, <1>2, <2>1, <2>2, <2>3 DEF DisplayInv, ToComeInv
  <1> QED
    BY <1>4, <1>11, <1>12 DEF DisplayInv

(* No picture to come is before the first of more than the stream          *)
(* reorders, nor before the first of a full buffer.                        *)
LEMMA WriteOutputKeepsDisplay ==
  ASSUME Inv, NEW h, DisplayInv(h), WriteOutput
  PROVE  \E k : DisplayInv(k)'
  <1>1. PICK p : /\ WriteEffect(p) /\ p \in NotYetDisplayed
                 /\ \A q \in NotYetDisplayed : p.poc <= q.poc
    BY WriteOutputEffect
  <1>2. thread = "bump" /\ (TooMany(NotYetDisplayed) \/ MayBeFull(NotYetDisplayed))
    BY WriteOutputEffect
  <1>3. Coming \in Seq(Pictures(S.start)) /\ pic_list \subseteq Pictures(S.start) /\ S.start \in Nat
    BY ComingPictures, StartIsNat DEF Inv, PicturesInv
  <1>4. NotYetDisplayed = pic_list
    <2>1. \A q \in pic_list : q.poc > poc_last_display
      <3> SUFFICES ASSUME NEW q \in pic_list PROVE q.poc > poc_last_display
        OBVIOUS
      <3>1. q.id \in Nat /\ q.poc = S.start + q.id
        BY <1>3 DEF Pictures
      <3>2. q.id > h /\ h \in Int /\ poc_last_display \in Int /\ poc_last_display <= S.start + h
        BY DEF DisplayInv, OutInv, ToComeInv
      <3> QED
        BY <1>3, <3>1, <3>2
    <2> QED
      BY <2>1 DEF NotYetDisplayed
  <1>5. p \in pic_list /\ p.id \in Nat /\ p.poc = S.start + p.id
    BY <1>1, <1>3, <1>4 DEF Pictures
  <1>6. \A q \in pic_list : p.id <= q.id
    <2> SUFFICES ASSUME NEW q \in pic_list PROVE p.id <= q.id
      OBVIOUS
    <2>1. q.id \in Nat /\ q.poc = S.start + q.id
      BY <1>3 DEF Pictures
    <2> QED
      BY <1>1, <1>3, <1>4, <1>5, <2>1
  <1>7. \A q \in pic_list : q # p => p.id < q.id
    <2> SUFFICES ASSUME NEW q \in pic_list, q # p PROVE p.id < q.id
      OBVIOUS
    <2>1. q.id \in Nat /\ q.id # p.id
      BY <1>3, <1>5 DEF Pictures, Inv, PicturesInv
    <2> QED
      BY <1>5, <1>6, <2>1
  <1>8. ASSUME NEW i \in 1 .. Len(Coming) PROVE p.id < Coming[i].id
    <2>1. Coming[i] \in Pictures(S.start) /\ Coming[i].id \in Nat
          /\ Coming[i].poc = S.start + Coming[i].id
      BY <1>3 DEF Pictures
    <2>2. CASE TooMany(NotYetDisplayed)
      <3>1. SUFFICES ASSUME ~(p.id < Coming[i].id) PROVE FALSE
        OBVIOUS
      <3>2. p.id > Coming[i].id
        <4>1. p.id # Coming[i].id
          BY <1>5 DEF Inv, PicturesInv
        <4> QED
          BY <1>5, <2>1, <3>1, <4>1
      <3>3. pic_list \subseteq Ahead(i)
        <4> SUFFICES ASSUME NEW q \in pic_list PROVE q \in Ahead(i)
          OBVIOUS
        <4>1. q.id \in Nat
          BY <1>3 DEF Pictures
        <4>2. q.id > Coming[i].id
          BY <1>5, <1>6, <2>1, <3>2, <4>1
        <4> QED
          BY <4>2 DEF Ahead
      <3>4. IsFiniteSet(Ahead(i)) /\ Cardinality(Ahead(i)) <= NumReorder
        BY DEF DisplayInv, ToComeInv
      <3>5. Cardinality(pic_list) <= Cardinality(Ahead(i))
        BY <3>3, <3>4, FS_Subset
      <3>6. Cardinality(pic_list) \in Nat /\ Cardinality(Ahead(i)) \in Nat
        BY <3>4, FS_CardinalityType DEF Inv, PicturesInv
      <3>7. Cardinality(pic_list) > NumReorder
        BY <1>4, <2>2 DEF TooMany
      <3> QED
        BY <3>4, <3>5, <3>6, <3>7, NumReorderAssumption
    <2>3. CASE MayBeFull(NotYetDisplayed)
      <3>1. Coming = base_bitstream
        BY <1>1, WriteKeepsInv
      <3>2. \A j \in 1 .. i : j \in 1 .. Len(Coming) /\ ~Coming[j].idr
        <4>1. \A j \in 1 .. i : j \in 1 .. Len(Coming)
          BY <1>3
        <4> QED
          BY <1>2, <4>1 DEF DisplayInv, ToComeInv
      <3>3. i \in DOMAIN base_bitstream
        BY <1>3, <3>1
      <3>4. Coming[i].poc > FirstInList(pic_list).poc
        BY <1>4, <2>3, <3>1, <3>2, <3>3 DEF MayBeFull
      <3>5. FirstInList(pic_list) \in pic_list
        BY <1>3, <1>5, FirstIsInList
      <3>6. PICK q \in pic_list : q = FirstInList(pic_list)
        BY <3>5
      <3>7. q.id \in Nat /\ q.poc = S.start + q.id /\ Coming[i].poc > q.poc
        BY <1>3, <3>4, <3>6 DEF Pictures
      <3>8. p.id <= q.id
        BY <1>6
      <3> QED
        BY <1>3, <1>5, <2>1, <3>7, <3>8
    <2> QED
      BY <1>2, <2>2, <2>3
  <1> QED
    BY <1>1, <1>7, <1>8, WriteKeepsDisplay

(* The list is flushed only when nothing is to come. *)
LEMMA FlushOutputKeepsDisplay ==
  ASSUME Inv, NEW h, DisplayInv(h), FlushOutput
  PROVE  \E k : DisplayInv(k)'
  <1>1. PICK p : WriteEffect(p) /\ \A q \in pic_list : p.poc <= q.poc
    BY FlushOutputEffect
  <1>2. Coming = <<>>
    BY FlushOutputEffect DEF DisplayInv, ToComeInv
  <1>3. p \in pic_list /\ pic_list \subseteq Pictures(S.start) /\ S.start \in Nat
    BY <1>1, StartIsNat DEF Inv, PicturesInv, WriteEffect
  <1>4. \A q \in pic_list : q # p => p.id < q.id
    <2> SUFFICES ASSUME NEW q \in pic_list, q # p PROVE p.id < q.id
      OBVIOUS
    <2>1. /\ q.id \in Nat /\ q.poc = S.start + q.id
          /\ p.id \in Nat /\ p.poc = S.start + p.id
      BY <1>3 DEF Pictures
    <2>2. q.id # p.id
      BY <1>3 DEF Inv, PicturesInv
    <2> QED
      BY <1>1, <1>3, <2>1, <2>2
  <1>5. \A i \in 1 .. Len(Coming) : p.id < Coming[i].id
    BY <1>2
  <1> QED
    BY <1>1, <1>4, <1>5, WriteKeepsDisplay

LEMMA PushNullKeepsDisplay ==
  ASSUME Inv, NEW h, DisplayInv(h), PushNull
  PROVE  DisplayInv(h)'
  <1>1. /\ UNCHANGED <<stream, delivered, pic_list, poc_last_display>>
        /\ Coming' = Coming
        /\ thread = "end" /\ thread' = "finished"
        /\ decoded_images' = Append(decoded_images, NoPicture)
    BY PushNullEffect
  <1>2. PICK n \in Nat : n = Len(decoded_images)
    BY DEF Inv, RingInv
  <1>3. /\ Len(decoded_images') = n + 1
        /\ \A i \in 1 .. n : decoded_images'[i] = decoded_images[i]
        /\ decoded_images'[n + 1] = NoPicture
        /\ \A i \in 1 .. n + 1 : i = n + 1 \/ i \in 1 .. n
    <2>1. decoded_images \in Seq([id : Nat] \cup {NoPicture})
      BY DEF Inv, RingInv
    <2> QED
      BY <1>1, <1>2, <2>1
  <1>4. ASSUME NEW i \in 1 .. Len(decoded_images'), decoded_images'[i] # NoPicture
        PROVE  /\ decoded_images'[i].id <= h
               /\ \A j \in 1 .. i - 1 : decoded_images'[j].id < decoded_images'[i].id
               /\ \A j \in 1 .. Len(delivered') : delivered'[j].picture < decoded_images'[i].id
    <2>1. i \in 1 .. n /\ decoded_images'[i] = decoded_images[i]
      BY <1>3, <1>4
    <2>2. \A j \in 1 .. i - 1 : decoded_images'[j] = decoded_images[j]
      BY <1>3, <2>1
    <2> QED
      BY <1>1, <1>2, <1>4, <2>1, <2>2 DEF DisplayInv, OutInv
  <1>5. OutInv(h)'
    BY <1>1, <1>4 DEF DisplayInv, OutInv, S
  <1>6. ToComeInv(h)'
    BY <1>1 DEF DisplayInv, ToComeInv, Ahead
  <1> QED
    BY <1>5, <1>6 DEF DisplayInv

LEMMA PullImageKeepsDisplay ==
  ASSUME Inv, NEW h, DisplayInv(h), PullImage
  PROVE  DisplayInv(h)'
  <1>1. /\ UNCHANGED <<stream, main, buffer, base_bitstream, threadVars>>
        /\ decoded_images # <<>> /\ decoded_images' = Tail(decoded_images)
        /\ decoded_images[1] \in [id : Nat]
        /\ decoded_images[1] # NoPicture
    BY PullImageEffect
  <1>2. PICK e : delivered' = Append(delivered, [picture     |-> decoded_images[1].id,
                                                 enhancement |-> e])
    BY PullImageEffect
  <1>3. UNCHANGED <<S, Coming, thread, pic_list, poc_last_display>>
    BY <1>1 DEF S, Coming, Pushing, PassOn, threadVars
  <1>4. /\ Len(decoded_images) \in Nat \ {0}
        /\ \A i \in 1 .. Len(decoded_images') :
             decoded_images'[i] = decoded_images[i + 1] /\ i + 1 \in 1 .. Len(decoded_images)
        /\ 1 \in 1 .. Len(decoded_images)
    <2>1. decoded_images \in Seq([id : Nat] \cup {NoPicture})
      BY DEF Inv, RingInv
    <2> QED
      BY <1>1, <2>1, TailOf
  <1>5. PICK first \in Nat : first = decoded_images[1].id
    BY <1>1
  <1>6. PICK n \in Nat : n = Len(delivered)
    BY DEF Inv, EnhancementInv
  <1>7. /\ Len(delivered') = n + 1
        /\ \A i \in 1 .. n : delivered'[i] = delivered[i]
        /\ delivered'[n + 1].picture = first
        /\ \A i \in 1 .. n + 1 : i = n + 1 \/ i \in 1 .. n
    <2>1. delivered \in Seq([picture : Nat, enhancement : Nat])
      BY DEF Inv, EnhancementInv
    <2>2. PICK d : d = [picture |-> first, enhancement |-> e]
      OBVIOUS
    <2>3. delivered' = Append(delivered, d) /\ d.picture = first
      BY <1>2, <1>5, <2>2
    <2> QED
      BY <1>6, <2>1, <2>3
  <1>8. /\ first <= h
        /\ \A j \in 1 .. n : delivered[j].picture < first
    BY <1>1, <1>4, <1>5, <1>6 DEF DisplayInv, OutInv
  <1>9. \A i \in 1 .. Len(delivered') : delivered'[i].picture <= h
    BY <1>6, <1>7, <1>8 DEF DisplayInv, OutInv
  <1>10. \A i, j \in 1 .. Len(delivered') : i < j => delivered'[i].picture < delivered'[j].picture
    <2> SUFFICES ASSUME NEW i \in 1 .. Len(delivered'), NEW j \in 1 .. Len(delivered'), i < j
                 PROVE  delivered'[i].picture < delivered'[j].picture
      OBVIOUS
    <2>1. i \in 1 .. n
      BY <1>7
    <2>2. CASE j = n + 1
      BY <1>7, <1>8, <2>1, <2>2
    <2>3. CASE j # n + 1
      <3>1. j \in 1 .. n
        BY <1>7, <2>3
      <3>2. delivered[i].picture < delivered[j].picture
        BY <1>6, <2>1, <3>1 DEF DisplayInv, OutInv
      <3> QED
        BY <1>7, <2>1, <3>1, <3>2
    <2> QED
      BY <2>2, <2>3
  <1>11. ASSUME NEW i \in 1 .. Len(decoded_images'), decoded_images'[i] # NoPicture
         PROVE  /\ decoded_images'[i].id <= h
                /\ \A j \in 1 .. i - 1 : decoded_images'[j].id < decoded_images'[i].id
                /\ \A j \in 1 .. Len(delivered') : delivered'[j].picture < decoded_images'[i].id
    <2>1. PICK k \in 1 .. Len(decoded_images) : k = i + 1
      BY <1>4
    <2>2. decoded_images'[i] = decoded_images[k] /\ k \in Nat
      BY <1>4, <2>1
    <2>3. /\ decoded_images[k].id <= h
          /\ \A j \in 1 .. k - 1 : decoded_images[j].id < decoded_images[k].id
          /\ \A j \in 1 .. n : delivered[j].picture < decoded_images[k].id
      BY <1>6, <1>11, <2>1, <2>2 DEF DisplayInv, OutInv
    <2>4. first < decoded_images[k].id
      <3>1. 1 \in 1 .. k - 1
        BY <2>1, <2>2
      <3> QED
        BY <1>5, <2>3, <3>1
    <2>5. \A j \in 1 .. i - 1 : decoded_images'[j].id < decoded_images[k].id
      <3> SUFFICES ASSUME NEW j \in 1 .. i - 1
                   PROVE  decoded_images'[j].id < decoded_images[k].id
        OBVIOUS
      <3>1. j \in 1 .. Len(decoded_images') /\ j + 1 \in 1 .. k - 1
        BY <2>1, <2>2
      <3> QED
        BY <1>4, <2>3, <3>1
    <2>6. \A j \in 1 .. Len(delivered') : delivered'[j].picture < decoded_images[k].id
      BY <1>7, <2>3, <2>4
    <2> QED
      BY <2>2, <2>3, <2>5, <2>6
  <1>12. OutInv(h)'
    BY <1>3, <1>9, <1>10, <1>11 DEF DisplayInv, OutInv
  <1>13. ToComeInv(h)'
    BY <1>3 DEF DisplayInv, ToComeInv, Ahead
  <1> QED
    BY <1>12, <1>13 DEF DisplayInv

LEMMA OthersKeepDisplay ==
  ASSUME Inv, NEW h, DisplayInv(h),
         UNCHANGED <<stream, delivered, pic_list, Coming>>,
         decoded_images' \in {decoded_images, <<>>},
         poc_last_display' \in {poc_last_display, NeverDisplayed},
         thread' = "none" => thread = "none",
         thread' = "flush" => Coming = <<>>,
         \/ thread' \in {"none", "decode"}
         \/ \A i \in 1 .. Len(Coming) : ~Coming[i].idr
  PROVE  DisplayInv(h)'
  <1>1. poc_last_display' \in Int /\ poc_last_display' <= S.start + h
    <2>1. h \in Int /\ h >= -1 /\ poc_last_display \in Int /\ poc_last_display <= S.start + h
      BY DEF DisplayInv, OutInv
    <2>2. S.start \in Nat
      BY StartIsNat
    <2> QED
      BY <2>1, <2>2 DEF NeverDisplayed
  <1>2. OutInv(h)'
    BY <1>1 DEF DisplayInv, OutInv, S
  <1>3. \A i : Ahead(i)' = Ahead(i)
    BY DEF Ahead
  <1>4. \A i \in 1 .. Len(Coming) : Coming[i].idr => i = 1 /\ thread' \in {"none", "decode"}
    BY DEF DisplayInv, ToComeInv
  <1>5. /\ thread' = "none" => h = -1
        /\ \A p \in pic_list : p.id > h
        /\ \A i \in 1 .. Len(Coming) : Coming[i].id > h
        /\ \A i \in 1 .. Len(Coming) : IsFiniteSet(Ahead(i)) /\ Cardinality(Ahead(i)) <= NumReorder
    BY DEF DisplayInv, ToComeInv
  <1>6. ToComeInv(h)'
    BY <1>3, <1>4, <1>5 DEF ToComeInv
  <1> QED
    BY <1>2, <1>6 DEF DisplayInv

LEMMA StepKeepsDisplay ==
  ASSUME Inv, NEW h, DisplayInv(h), [Next]_vars
  PROVE  \E k : DisplayInv(k)'
  <1>0. /\ \A i \in 1 .. Len(Coming) : Coming[i].idr => i = 1 /\ thread \in {"none", "decode"}
        /\ thread = "flush" => Coming = <<>>
    BY DEF DisplayInv, ToComeInv
  <1>1. CASE PushAu
    BY <1>1, PushAuKeepsDisplay
  <1>2. CASE ReadError
    BY <1>0, <1>2, ReadErrorMovesNothing, OthersKeepDisplay
  <1>3. CASE PushEnd
    BY <1>0, <1>3, PushEndMovesNothing, OthersKeepDisplay
  <1>4. CASE PullImage
    BY <1>4, PullImageKeepsDisplay
  <1>5. CASE PullEnd
    <2>1. UNCHANGED <<stream, delivered, pic_list, poc_last_display, thread, Coming>> /\ decoded_images' = <<>>
      BY <1>5, PullEndEffect DEF threadVars
    <2> QED
      BY <1>0, <2>1, OthersKeepDisplay
  <1>6. CASE Join
    BY <1>0, <1>6, JoinMovesNothing, OthersKeepDisplay
  <1>7. CASE Decode
    BY <1>7, DecodeKeepsDisplay
  <1>8. CASE WriteOutput
    BY <1>8, WriteOutputKeepsDisplay
  <1>9. CASE WriteOutputDone
    <2>1. /\ UNCHANGED <<stream, delivered, decoded_images, pic_list, poc_last_display, Coming>>
          /\ thread = "bump" /\ thread' = BeforeNext(Coming)
      BY <1>9, WriteOutputDoneMovesNothing
    <2>2. \A i \in 1 .. Len(Coming) : ~Coming[i].idr
      BY <1>0, <2>1
    <2>3. thread' = "flush" => Coming = <<>>
      <3>1. Coming # <<>> => Head(Coming) = Coming[1] /\ 1 \in 1 .. Len(Coming)
        BY ComingPictures DEF Inv
      <3> QED
        BY <2>1, <2>2, <3>1 DEF BeforeNext
    <2>4. thread' # "none"
      BY <2>1 DEF BeforeNext
    <2> QED
      BY <2>1, <2>2, <2>3, <2>4, OthersKeepDisplay
  <1>10. CASE FlushOutput
    BY <1>10, FlushOutputKeepsDisplay
  <1>11. CASE FlushOutputDone
    BY <1>0, <1>11, FlushOutputDoneMovesNothing, OthersKeepDisplay
  <1>12. CASE PushNull
    BY <1>12, PushNullKeepsDisplay
  <1>13. CASE UNCHANGED vars
    <2>1. UNCHANGED <<stream, delivered, decoded_images, pic_list, poc_last_display, thread, Coming>>
      BY <1>13, StutterKeepsInv DEF vars, streamVars, mainVars, threadVars
    <2> QED
      BY <1>0, <2>1, OthersKeepDisplay
  <1> QED
    BY <1>1, <1>2, <1>3, <1>4, <1>5, <1>6, <1>7, <1>8, <1>9, <1>10, <1>11, <1>12, <1>13
       DEF Next, Main, Thread

(* The enhancement decoder gets the pictures in display order, for every   *)
(* stream that keeps its own limit on reordering, however full the buffer  *)
(* of the base decoder is and wherever the stream is cut off.              *)
THEOREM DisplayOrder == Spec => []DeliveredInDisplayOrder
  <1> DEFINE Ordered == Inv /\ \E h : DisplayInv(h)
  <1>1. Init => Ordered
    BY InitInv, InitDisplay
  <1>2. Ordered /\ [Next]_vars => Ordered'
    BY StepKeepsInv, StepKeepsDisplay
  <1>3. Ordered => DeliveredInDisplayOrder
    <2> SUFFICES ASSUME Inv, NEW h, DisplayInv(h) PROVE DeliveredInDisplayOrder
      OBVIOUS
    <2>1. DOMAIN delivered = 1 .. Len(delivered)
      BY DEF Inv, EnhancementInv
    <2> QED
      BY <2>1 DEF DisplayInv, OutInv, DeliveredInDisplayOrder
  <1> QED
    BY <1>1, <1>2, <1>3, PTL DEF Spec

-----------------------------------------------------------------------------
(* The queue of enhancement data.                                          *)

(* The pictures read and not delivered. *)
ComingIds == {Coming[i].id : i \in 1 .. Len(Coming)}
ListIds == {p.id : p \in pic_list}
RingIds == {decoded_images[i].id : i \in {j \in 1 .. Len(decoded_images) : decoded_images[j] # NoPicture}}
Undelivered == ComingIds \cup ListIds \cup RingIds

(* The enhancement of a picture, with the timestamp of its access unit. *)
Enhancement(id) == [ts |-> HevcStart + id + 1000, id |-> id]

(* What is queued is the enhancement of the pictures not delivered, and    *)
(* each has a timestamp in display order.                                  *)
PairInv ==
  /\ CountsInv
  /\ enhancement_queue = {Enhancement(id) : id \in Undelivered}
  /\ PairedWithOwnEnhancement

LEMMA StartTyped == GopInv => Codec = "HEVC" /\ HevcStart \in Nat /\ GroupsCounted
  <1> SUFFICES ASSUME GopInv PROVE Codec = "HEVC" /\ HevcStart \in Nat /\ GroupsCounted
    OBVIOUS
  <1>1. Codec = "HEVC"
    BY CodecAssumption DEF GopInv, Codec, S
  <1>2. GroupsCounted
    BY CodecAssumption DEF GroupsCounted
  <1> QED
    BY <1>1, <1>2, HevcStream

LEMMA InitPair == Init => PairInv
  <1> SUFFICES ASSUME Init PROVE PairInv
    OBVIOUS
  <1>1. /\ main = "pushing" /\ buffer = NoBuffer /\ enhancement_queue = {}
        /\ base_bitstream = <<>> /\ decoded_images = <<>>
        /\ pic_list = {} /\ delivered = <<>> /\ StreamInit
    BY DEF Init
  <1>2. Coming = <<>>
    BY <1>1 DEF Coming, Pushing, PassOn
  <1>3. Undelivered = {}
    BY <1>1, <1>2 DEF Undelivered, ComingIds, ListIds, RingIds
  <1>4. CountsInv
    BY <1>1, InitCounts
  <1>5. PairedWithOwnEnhancement
    BY <1>1 DEF PairedWithOwnEnhancement
  <1> QED
    BY <1>1, <1>3, <1>4, <1>5 DEF PairInv

(* A step that reads nothing and delivers nothing. *)
LEMMA NothingPaired ==
  ASSUME PairInv, UNCHANGED <<streamVars, enhancement_queue, delivered>>,
         Undelivered' = Undelivered
  PROVE  PairInv'
  <1>1. UNCHANGED <<stream, gop, es, parser>>
    BY DEF streamVars
  <1>2. UNCHANGED <<S, Codec, HevcStart>>
    BY <1>1 DEF S, Codec, HevcStart
  <1>3. CountsInv'
    <2>1. AvcAt(gop, parser)' <=> AvcAt(gop, parser)
      BY <1>1, <1>2 DEF AvcAt
    <2>2. HevcAt(gop, parser)' <=> HevcAt(gop, parser)
      BY <1>1, <1>2 DEF HevcAt
    <2> QED
      BY <1>1, <1>2, <2>1, <2>2 DEF PairInv, CountsInv, GopInv, PlaceInv, ParserInv, OffsetInv
  <1>4. \A id : Enhancement(id)' = Enhancement(id)
    BY <1>2 DEF Enhancement
  <1>5. enhancement_queue' = {Enhancement(id)' : id \in Undelivered'}
    BY <1>4 DEF PairInv
  <1>6. PairedWithOwnEnhancement'
    BY DEF PairInv, PairedWithOwnEnhancement
  <1> QED
    BY <1>3, <1>5, <1>6 DEF PairInv

LEMMA PushAuPairs ==
  ASSUME Inv, PairInv, PushAu
  PROVE  PairInv'
  <1>1. PICK next \in ThisOrNextGop : \E p \in {ParsedUnits(NalUnits(next))} :
          /\ ReadPicture(next, p)
          /\ \E au \in {AccessUnit(next, p)} :
               enhancement_queue' = enhancement_queue \cup {[ts |-> Pts(au), id |-> au.id]}
          /\ buffer' = [id |-> DisplayIndex(next), poc |-> HevcCount(next),
                        idr |-> HEVC!isIdr(HevcType(next))]
    BY DEF PushAu
  <1>2. PICK p : /\ p = ParsedUnits(NalUnits(next))
                 /\ ReadPicture(next, p)
                 /\ \E au \in {AccessUnit(next, p)} :
                      enhancement_queue' = enhancement_queue \cup {[ts |-> Pts(au), id |-> au.id]}
                 /\ buffer' = [id |-> DisplayIndex(next), poc |-> HevcCount(next),
                               idr |-> HEVC!isIdr(HevcType(next))]
    BY <1>1
  <1>3. PICK au : /\ au = AccessUnit(next, p)
                  /\ enhancement_queue' = enhancement_queue \cup {[ts |-> Pts(au), id |-> au.id]}
    BY <1>2
  <1>4. Codec = "HEVC" /\ HevcStart \in Nat /\ GroupsCounted
    BY StartTyped DEF Inv
  <1>5. ~p.thrown /\ UNCHANGED stream
    BY <1>2 DEF ReadPicture
  <1>6. /\ au.id = DisplayIndex(next) /\ au.poc = CountDue(DisplayIndex(next))
        /\ CountsInv'
    BY <1>2, <1>3, <1>4, <1>5, UnitRead DEF PairInv
  <1>7. [ts |-> Pts(au), id |-> au.id] = Enhancement(DisplayIndex(next))
    BY <1>4, <1>6 DEF Pts, CountDue, Enhancement
  <1>8. Undelivered' = Undelivered \cup {DisplayIndex(next)}
    <2>1. /\ main = "pushing" /\ base_bitstream' = PassOn(buffer)
          /\ UNCHANGED <<main, decoded_images, pic_list, delivered>>
      BY DEF PushAu, threadVars
    <2>2. PICK new : new = buffer' /\ new.id = DisplayIndex(next)
      BY <1>2
    <2>3. new # NoBuffer
      <3>1. DisplayIndex(next) \in Nat
        BY <1>2, ReadGop DEF Inv, ReadPicture
      <3> QED
        BY <2>2, <3>1 DEF NoBuffer
    <2>4. Coming' = Append(Coming, new)
      BY <2>1, <2>2, <2>3 DEF Coming, Pushing, PassOn
    <2>5. PICK n \in Nat : n = Len(Coming)
      BY ComingPictures DEF Inv
    <2>6. /\ Len(Coming') = n + 1 /\ \A i \in 1 .. n : Coming'[i] = Coming[i]
          /\ Coming'[n + 1] = new
          /\ \A i \in 1 .. n + 1 : i = n + 1 \/ i \in 1 .. n
          /\ \A i \in 1 .. n : i \in 1 .. n + 1
          /\ n + 1 \in 1 .. n + 1
      BY <2>4, <2>5, ComingPictures DEF Inv
    <2>7. ComingIds' = ComingIds \cup {new.id}
      BY <2>5, <2>6 DEF ComingIds
    <2>8. ListIds' = ListIds /\ RingIds' = RingIds
      BY <2>1 DEF ListIds, RingIds
    <2> QED
      BY <2>2, <2>7, <2>8 DEF Undelivered
  <1>9. \A id : Enhancement(id)' = Enhancement(id)
    BY <1>5 DEF Enhancement, HevcStart, S
  <1>10. enhancement_queue' = {Enhancement(id)' : id \in Undelivered'}
    <2>1. enhancement_queue' = enhancement_queue \cup {Enhancement(DisplayIndex(next))}
      BY <1>3, <1>7
    <2>2. enhancement_queue = {Enhancement(id) : id \in Undelivered}
      BY DEF PairInv
    <2> QED
      BY <1>8, <1>9, <2>1, <2>2
  <1>11. PairedWithOwnEnhancement'
    BY DEF PushAu, PairInv, PairedWithOwnEnhancement
  <1> QED
    BY <1>6, <1>10, <1>11 DEF PairInv

(* The first of the ring is the first of all pictures not delivered, and   *)
(* its enhancement the earliest in the queue.                              *)
LEMMA PullImagePairs ==
  ASSUME Inv, PairInv, NEW h, DisplayInv(h), PullImage
  PROVE  PairInv'
  <1>1. /\ UNCHANGED <<streamVars, buffer, base_bitstream, threadVars>>
        /\ main = "pulling"
        /\ decoded_images # <<>> /\ decoded_images' = Tail(decoded_images)
    BY DEF PullImage, Ring!Take
  <1>2. /\ UNCHANGED main
        /\ decoded_images[1] \in [id : Nat] /\ decoded_images[1] # NoPicture
        /\ enhancement_queue # {}
    BY PullImageEffect
  <1>3. decoded_images \in Seq([id : Nat] \cup {NoPicture})
    BY DEF Inv, RingInv
  <1>4. /\ Head(decoded_images) = decoded_images[1]
        /\ Len(decoded_images) \in Nat \ {0} /\ 1 \in 1 .. Len(decoded_images)
        /\ Len(decoded_images') = Len(decoded_images) - 1
        /\ \A i \in 1 .. Len(decoded_images') :
             decoded_images'[i] = decoded_images[i + 1] /\ i + 1 \in 1 .. Len(decoded_images)
    BY <1>1, <1>3, TailOf
  <1>5. PICK pss \in Earliest(enhancement_queue) :
          /\ enhancement_queue' = enhancement_queue \ {pss}
          /\ delivered' = Append(delivered, [picture     |-> Head(decoded_images).id,
                                             enhancement |-> pss.id])
    BY <1>2 DEF PullImage
  <1>6. PICK first \in Nat : first = decoded_images[1].id
    BY <1>2
  <1>7. HevcStart \in Nat
    BY StartTyped DEF Inv
  <1>8. /\ first \in Undelivered
        /\ \A id \in Undelivered : id \in Nat /\ (id = first \/ first < id)
    <2>1. first \in RingIds
      BY <1>2, <1>4, <1>6 DEF RingIds
    <2>2. first <= h /\ h \in Int
      BY <1>2, <1>4, <1>6 DEF DisplayInv, OutInv
    <2>3. ASSUME NEW id \in RingIds PROVE id \in Nat /\ (id = first \/ first < id)
      <3>1. PICK i \in 1 .. Len(decoded_images) : decoded_images[i] # NoPicture /\ id = decoded_images[i].id
        BY <2>3 DEF RingIds
      <3>2. decoded_images[i] \in [id : Nat]
        BY <1>3, <3>1, ElementOf
      <3>3. CASE i = 1
        BY <1>6, <3>1, <3>3
      <3>4. CASE i # 1
        <4>1. 1 \in 1 .. i - 1
          BY <1>4, <3>4
        <4>2. decoded_images[1].id < decoded_images[i].id
          BY <3>1, <4>1 DEF DisplayInv, OutInv
        <4> QED
          BY <1>6, <3>1, <3>2, <4>2
      <3> QED
        BY <3>3, <3>4
    <2>4. ASSUME NEW id \in ListIds PROVE id \in Nat /\ first < id
      <3>1. PICK p \in pic_list : id = p.id
        BY <2>4 DEF ListIds
      <3>2. id \in Nat /\ id > h
        BY <3>1 DEF Inv, PicturesInv, Pictures, DisplayInv, ToComeInv
      <3> QED
        BY <2>2, <3>2
    <2>5. ASSUME NEW id \in ComingIds PROVE id \in Nat /\ first < id
      <3>1. PICK i \in 1 .. Len(Coming) : id = Coming[i].id
        BY <2>5 DEF ComingIds
      <3>2. id \in Nat
        BY <3>1, SeenAreNat DEF Inv, PicturesInv
      <3>3. id > h
        BY <3>1 DEF DisplayInv, ToComeInv
      <3> QED
        BY <2>2, <3>2, <3>3
    <2> QED
      BY <2>1, <2>3, <2>4, <2>5 DEF Undelivered
  <1>9. pss = Enhancement(first)
    <2>1. enhancement_queue = {Enhancement(id) : id \in Undelivered}
      BY DEF PairInv
    <2>2. PICK id \in Undelivered : pss = Enhancement(id)
      BY <2>1 DEF Earliest
    <2>3. Enhancement(first) \in enhancement_queue
      BY <1>8, <2>1
    <2>4. pss.ts <= Enhancement(first).ts
      BY <2>3 DEF Earliest
    <2>5. HevcStart + id + 1000 <= HevcStart + first + 1000
      BY <2>2, <2>4 DEF Enhancement
    <2>6. id \in Nat /\ (id = first \/ first < id)
      BY <1>8
    <2>7. id = first
      BY <1>7, <2>5, <2>6
    <2> QED
      BY <2>2, <2>7
  <1>10. Undelivered' = Undelivered \ {first}
    <2>1. Coming' = Coming /\ pic_list' = pic_list
      BY <1>1, <1>2 DEF Coming, Pushing, PassOn, threadVars
    <2>2. ComingIds' = ComingIds /\ ListIds' = ListIds
      BY <2>1 DEF ComingIds, ListIds
    <2>3. first \notin ComingIds /\ first \notin ListIds
      <3>1. first <= h /\ h \in Int
        BY <1>2, <1>4, <1>6 DEF DisplayInv, OutInv
      <3>2. ASSUME NEW p \in pic_list PROVE p.id # first
        <4>1. p.id \in Nat /\ p.id > h
          BY DEF Inv, PicturesInv, Pictures, DisplayInv, ToComeInv
        <4> QED
          BY <3>1, <4>1
      <3>3. ASSUME NEW i \in 1 .. Len(Coming) PROVE Coming[i].id # first
        <4>1. Coming[i].id \in Nat /\ Coming[i].id > h
          BY SeenAreNat DEF Inv, PicturesInv, DisplayInv, ToComeInv
        <4> QED
          BY <3>1, <4>1
      <3> QED
        BY <3>2, <3>3 DEF ComingIds, ListIds
    <2>4. RingIds' = RingIds \ {first}
      <3>1. ASSUME NEW i \in 1 .. Len(decoded_images'), decoded_images'[i] # NoPicture
            PROVE  decoded_images'[i].id \in RingIds \ {first}
        <4>1. PICK k \in 1 .. Len(decoded_images) : k = i + 1 /\ decoded_images'[i] = decoded_images[k]
          BY <1>4
        <4>2. decoded_images[k].id \in RingIds
          BY <3>1, <4>1 DEF RingIds
        <4>3. 1 \in 1 .. k - 1
          BY <4>1
        <4>4. decoded_images[1].id < decoded_images[k].id
          BY <3>1, <4>1, <4>3 DEF DisplayInv, OutInv
        <4>5. decoded_images[k].id \in Nat
          <5>1. decoded_images[k] \in [id : Nat]
            BY <1>3, <3>1, <4>1, ElementOf
          <5> QED
            BY <5>1
        <4> QED
          BY <1>6, <4>1, <4>2, <4>4, <4>5
      <3>2. ASSUME NEW i \in 1 .. Len(decoded_images), decoded_images[i] # NoPicture,
                   decoded_images[i].id # first
            PROVE  decoded_images[i].id \in RingIds'
        <4>1. i # 1
          BY <1>6, <3>2
        <4>2. PICK k \in 1 .. Len(decoded_images') : k + 1 = i
          <5>1. i - 1 \in 1 .. Len(decoded_images') /\ i - 1 + 1 = i
            BY <1>4, <4>1
          <5> QED
            BY <5>1
        <4>3. decoded_images'[k] = decoded_images[i]
          BY <1>4, <4>2
        <4> QED
          BY <3>2, <4>3 DEF RingIds
      <3> QED
        BY <3>1, <3>2 DEF RingIds
    <2> QED
      BY <2>2, <2>3, <2>4 DEF Undelivered
  <1>11. UNCHANGED <<stream, gop, es, parser, S, Codec, HevcStart>>
    BY <1>1 DEF streamVars, S, Codec, HevcStart
  <1>12. CountsInv'
    <2>1. AvcAt(gop, parser)' <=> AvcAt(gop, parser)
      BY <1>11 DEF AvcAt
    <2>2. HevcAt(gop, parser)' <=> HevcAt(gop, parser)
      BY <1>11 DEF HevcAt
    <2> QED
      BY <1>11, <2>1, <2>2 DEF PairInv, CountsInv, GopInv, PlaceInv, ParserInv, OffsetInv
  <1>13. enhancement_queue' = {Enhancement(id)' : id \in Undelivered'}
    <2>1. \A id : Enhancement(id)' = Enhancement(id)
      BY <1>11 DEF Enhancement
    <2>2. \A id, j : Enhancement(id) = Enhancement(j) => id = j
      <3>1. \A id : Enhancement(id).id = id
        BY DEF Enhancement
      <3> QED
        BY <3>1
    <2>3. {Enhancement(id) : id \in Undelivered} \ {Enhancement(first)}
            = {Enhancement(id) : id \in Undelivered \ {first}}
      BY <2>2
    <2>4. {Enhancement(id)' : id \in Undelivered'} = {Enhancement(id) : id \in Undelivered'}
      BY <2>1
    <2> QED
      BY <1>5, <1>9, <1>10, <2>3, <2>4 DEF PairInv
  <1>14. PairedWithOwnEnhancement'
    <2>1. PICK d : d = [picture |-> first, enhancement |-> first]
      OBVIOUS
    <2>2. delivered' = Append(delivered, d) /\ d.picture = d.enhancement
      BY <1>4, <1>5, <1>6, <1>9, <2>1 DEF Enhancement
    <2>3. delivered \in Seq([picture : Nat, enhancement : Nat]) /\ d \in [picture : Nat, enhancement : Nat]
      BY <1>6, <2>1 DEF Inv, EnhancementInv
    <2>4. PICK n \in Nat : n = Len(delivered)
      BY <2>3
    <2>5. /\ DOMAIN delivered = 1 .. n /\ DOMAIN delivered' = 1 .. n + 1
          /\ \A i \in 1 .. n : delivered'[i] = delivered[i]
          /\ delivered'[n + 1] = d
          /\ \A i \in 1 .. n + 1 : i = n + 1 \/ i \in 1 .. n
      BY <2>2, <2>3, <2>4
    <2> QED
      BY <2>2, <2>5 DEF PairInv, PairedWithOwnEnhancement
  <1> QED
    BY <1>12, <1>13, <1>14 DEF PairInv

-----------------------------------------------------------------------------
(* The decoder thread moves pictures from place to place. *)

LEMMA OldRing ==
  ASSUME NEW x, decoded_images' = Append(decoded_images, x), Inv
  PROVE  /\ Len(decoded_images) \in Nat /\ Len(decoded_images') = Len(decoded_images) + 1
         /\ \A i \in 1 .. Len(decoded_images) : decoded_images'[i] = decoded_images[i]
         /\ decoded_images'[Len(decoded_images) + 1] = x
         /\ \A i \in 1 .. Len(decoded_images') :
              i = Len(decoded_images) + 1 \/ i \in 1 .. Len(decoded_images)
         /\ \A i \in 1 .. Len(decoded_images) : i \in 1 .. Len(decoded_images')
         /\ Len(decoded_images) + 1 \in 1 .. Len(decoded_images')
  <1>1. decoded_images \in Seq([id : Nat] \cup {NoPicture})
    BY DEF Inv, RingInv
  <1>2. PICK n \in Nat : n = Len(decoded_images)
    BY <1>1
  <1>3. /\ Len(decoded_images') = n + 1
        /\ \A i \in 1 .. n : decoded_images'[i] = decoded_images[i]
        /\ decoded_images'[n + 1] = x
    BY <1>1, <1>2
  <1> QED
    BY <1>2, <1>3

LEMMA WriteMoves ==
  ASSUME Inv, NEW p, WriteEffect(p)
  PROVE  Undelivered' = Undelivered
  <1>1. Coming' = Coming
    BY WriteKeepsInv
  <1>2. /\ p \in pic_list /\ pic_list' = pic_list \ {p}
        /\ decoded_images' = Append(decoded_images, [id |-> p.id])
    BY DEF WriteEffect
  <1>3. p.id \in Nat /\ [id |-> p.id] # NoPicture
    <2>1. p.id \in Nat
      BY <1>2 DEF Inv, PicturesInv, Pictures
    <2> QED
      BY <2>1 DEF NoPicture
  <1>4. PICK x : x = [id |-> p.id] /\ x # NoPicture /\ x.id = p.id
    <2>1. [id |-> p.id].id = p.id
      OBVIOUS
    <2> QED
      BY <1>3, <2>1
  <1>5. PICK n \in Nat : n = Len(decoded_images)
    BY <1>2, OldRing
  <1>6. /\ Len(decoded_images') = n + 1
        /\ \A i \in 1 .. n : decoded_images'[i] = decoded_images[i] /\ i \in 1 .. n + 1
        /\ decoded_images'[n + 1] = x
        /\ n + 1 \in 1 .. n + 1
        /\ \A i \in 1 .. n + 1 : i = n + 1 \/ i \in 1 .. n
    BY <1>2, <1>4, <1>5, OldRing
  <1>7. RingIds' = RingIds \cup {p.id}
    BY <1>4, <1>5, <1>6 DEF RingIds
  <1>8. ListIds' = ListIds \ {p.id}
    BY <1>2 DEF ListIds, Inv, PicturesInv
  <1>9. p.id \in ListIds
    BY <1>2 DEF ListIds
  <1>10. ComingIds' = ComingIds
    BY <1>1 DEF ComingIds
  <1> QED
    BY <1>7, <1>8, <1>9, <1>10 DEF Undelivered

LEMMA DecodeMoves ==
  ASSUME Inv, Decode
  PROVE  Undelivered' = Undelivered
  <1>1. /\ UNCHANGED decoded_images
        /\ Coming \in Seq(Pictures(S.start)) /\ Coming # <<>>
        /\ pic_list' = pic_list \cup {Coming[1]}
        /\ Coming' = Tail(Coming)
    BY DecodeEffect
  <1>2. PICK n \in Nat \ {0} : n = Len(Coming)
    BY <1>1, TailOf
  <1>3. /\ Len(Coming') = n - 1
        /\ \A i \in 1 .. n - 1 : Coming'[i] = Coming[i + 1] /\ i + 1 \in 1 .. n
    BY <1>1, <1>2, TailOf
  <1>4. \A i \in 1 .. n : i = 1 \/ (i - 1 \in 1 .. n - 1 /\ Coming'[i - 1] = Coming[i])
    BY <1>3
  <1>5. 1 \in 1 .. n
    BY <1>2
  <1>6. ComingIds = ComingIds' \cup {Coming[1].id}
    <2>1. ASSUME NEW x \in ComingIds PROVE x \in ComingIds' \cup {Coming[1].id}
      <3>1. PICK i \in 1 .. n : x = Coming[i].id
        BY <1>2, <2>1 DEF ComingIds
      <3>2. CASE i = 1
        BY <3>1, <3>2
      <3>3. CASE i # 1
        <4>1. i - 1 \in 1 .. Len(Coming') /\ Coming'[i - 1].id = x
          BY <1>3, <1>4, <3>1, <3>3
        <4> QED
          BY <4>1 DEF ComingIds
      <3> QED
        BY <3>2, <3>3
    <2>2. ASSUME NEW x \in ComingIds' PROVE x \in ComingIds
      <3>1. PICK i \in 1 .. n - 1 : x = Coming'[i].id
        BY <1>3, <2>2 DEF ComingIds
      <3>2. i + 1 \in 1 .. Len(Coming) /\ Coming[i + 1].id = x
        BY <1>2, <1>3, <3>1
      <3> QED
        BY <3>2 DEF ComingIds
    <2>3. Coming[1].id \in ComingIds
      BY <1>2, <1>5 DEF ComingIds
    <2> QED
      BY <2>1, <2>2, <2>3
  <1>7. ListIds' = ListIds \cup {Coming[1].id}
    BY <1>1 DEF ListIds
  <1>8. RingIds' = RingIds
    BY <1>1 DEF RingIds
  <1> QED
    BY <1>6, <1>7, <1>8 DEF Undelivered

LEMMA PushNullMoves ==
  ASSUME Inv, PushNull
  PROVE  Undelivered' = Undelivered
  <1>1. /\ UNCHANGED pic_list /\ Coming' = Coming
        /\ decoded_images' = Append(decoded_images, NoPicture)
    BY PushNullEffect
  <1>2. PICK n \in Nat : n = Len(decoded_images)
    BY <1>1, OldRing
  <1>3. /\ Len(decoded_images') = n + 1
        /\ \A i \in 1 .. n : decoded_images'[i] = decoded_images[i] /\ i \in 1 .. n + 1
        /\ decoded_images'[n + 1] = NoPicture
        /\ \A i \in 1 .. n + 1 : i = n + 1 \/ i \in 1 .. n
    BY <1>1, <1>2, OldRing
  <1>4. {j \in 1 .. Len(decoded_images') : decoded_images'[j] # NoPicture}
          = {j \in 1 .. Len(decoded_images) : decoded_images[j] # NoPicture}
    BY <1>2, <1>3
  <1>5. RingIds' = RingIds
    BY <1>2, <1>3, <1>4 DEF RingIds
  <1> QED
    BY <1>1, <1>5 DEF Undelivered, ComingIds, ListIds

LEMMA PullEndMoves ==
  ASSUME Inv, PullEnd
  PROVE  Undelivered' = Undelivered
  <1>1. /\ UNCHANGED <<threadVars, Coming>> /\ decoded_images' = <<>>
    BY PullEndEffect
  <1>2. RingIds = {}
    <2>1. /\ decoded_images # <<>> /\ Head(decoded_images) = NoPicture
      BY DEF PullEnd, Ring!Take
    <2>2. decoded_images \in Seq([id : Nat] \cup {NoPicture})
      BY DEF Inv, RingInv
    <2>3. 1 \in 1 .. Len(decoded_images) /\ decoded_images[1] = NoPicture
      BY <2>1, <2>2, TailOf
    <2>4. 1 = Len(decoded_images)
      BY <2>3 DEF Inv, RingInv
    <2> QED
      BY <2>3, <2>4 DEF RingIds
  <1>3. RingIds' = {}
    BY <1>1 DEF RingIds
  <1> QED
    BY <1>1, <1>2, <1>3 DEF Undelivered, ComingIds, ListIds, threadVars

LEMMA StepKeepsPair ==
  ASSUME Inv, PairInv, NEW h, DisplayInv(h), [Next]_vars
  PROVE  PairInv'
  <1>0. ASSUME UNCHANGED <<Coming, pic_list, decoded_images>> PROVE Undelivered' = Undelivered
    BY <1>0 DEF Undelivered, ComingIds, ListIds, RingIds
  <1>1. CASE PushAu
    BY <1>1, PushAuPairs
  <1>2. CASE ReadError
    <2>1. Undelivered' = Undelivered
      BY <1>0, <1>2, ReadErrorMovesNothing
    <2> QED
      BY <1>2, <2>1, NothingPaired DEF ReadError
  <1>3. CASE PushEnd
    <2>1. Undelivered' = Undelivered
      BY <1>0, <1>3, PushEndMovesNothing
    <2> QED
      BY <1>3, <2>1, NothingPaired DEF PushEnd
  <1>4. CASE PullImage
    BY <1>4, PullImagePairs
  <1>5. CASE PullEnd
    BY <1>5, PullEndMoves, NothingPaired DEF PullEnd
  <1>6. CASE Join
    <2>1. Undelivered' = Undelivered
      BY <1>0, <1>6, JoinMovesNothing
    <2> QED
      BY <1>6, <2>1, NothingPaired DEF Join
  <1>7. CASE Decode
    BY <1>7, DecodeMoves, NothingPaired DEF Decode, mainVars
  <1>8. CASE WriteOutput
    <2>1. Undelivered' = Undelivered
      BY <1>8, WriteOutputEffect, WriteMoves
    <2> QED
      BY <1>8, <2>1, NothingPaired DEF WriteOutput, mainVars
  <1>9. CASE WriteOutputDone
    <2>1. Undelivered' = Undelivered
      BY <1>0, <1>9, WriteOutputDoneMovesNothing
    <2> QED
      BY <1>9, <2>1, NothingPaired DEF WriteOutputDone, mainVars
  <1>10. CASE FlushOutput
    <2>1. Undelivered' = Undelivered
      BY <1>10, FlushOutputEffect, WriteMoves
    <2> QED
      BY <1>10, <2>1, NothingPaired DEF FlushOutput, mainVars
  <1>11. CASE FlushOutputDone
    <2>1. Undelivered' = Undelivered
      BY <1>0, <1>11, FlushOutputDoneMovesNothing
    <2> QED
      BY <1>11, <2>1, NothingPaired DEF FlushOutputDone, mainVars
  <1>12. CASE PushNull
    BY <1>12, PushNullMoves, NothingPaired DEF PushNull, mainVars
  <1>13. CASE UNCHANGED vars
    <2>1. UNCHANGED <<streamVars, enhancement_queue, delivered, decoded_images, pic_list>>
      BY <1>13 DEF vars, mainVars, threadVars
    <2>2. Undelivered' = Undelivered
      BY <1>0, <1>13, <2>1, StutterKeepsInv
    <2> QED
      BY <2>1, <2>2, NothingPaired
  <1> QED
    BY <1>1, <1>2, <1>3, <1>4, <1>5, <1>6, <1>7, <1>8, <1>9, <1>10, <1>11, <1>12, <1>13
       DEF Next, Main, Thread

(* Each picture leaves with the enhancement from its own access unit, for  *)
(* every HEVC stream whose counts the parser can follow, although only the *)
(* order relates the queue of enhancement data and the base decoder's      *)
(* output: a picture dropped or doubled on either side, or a count that    *)
(* the parser gets wrong, would shift all those behind it.                 *)
THEOREM Paired == Spec => []PairedWithOwnEnhancement
  <1> DEFINE Kept == Inv /\ PairInv /\ \E h : DisplayInv(h)
  <1>1. Init => Kept
    BY InitInv, InitPair, InitDisplay
  <1>2. Kept /\ [Next]_vars => Kept'
    BY StepKeepsInv, StepKeepsPair, StepKeepsDisplay
  <1>3. Kept => PairedWithOwnEnhancement
    BY DEF PairInv
  <1> QED
    BY <1>1, <1>2, <1>3, PTL DEF Spec

-----------------------------------------------------------------------------
(* Types.                                                                  *)

(* The ring holds what it has room for. *)
RoomInv == Len(decoded_images) <= RingCapacity /\ poc_last_display \in Int

LEMMA StepKeepsRoom ==
  ASSUME Inv, RoomInv, [Next]_vars
  PROVE  RoomInv'
  <1>1. /\ Len(decoded_images) \in Nat /\ RingCapacity \in Nat
        /\ decoded_images \in Seq([id : Nat] \cup {NoPicture})
    BY RingAssumption DEF Inv, RingInv
  <1>2. CASE UNCHANGED <<decoded_images, poc_last_display>>
    BY <1>2 DEF RoomInv
  <1>3. CASE PullImage \/ PullEnd
    <2>1. decoded_images # <<>> /\ decoded_images' = Tail(decoded_images) /\ UNCHANGED poc_last_display
      BY <1>3 DEF PullImage, PullEnd, Ring!Take, threadVars
    <2>2. Len(decoded_images') = Len(decoded_images) - 1
      BY <1>1, <2>1, TailOf
    <2> QED
      BY <1>1, <2>1, <2>2 DEF RoomInv
  <1>4. ASSUME NEW x, Ring!Put(x) PROVE Len(decoded_images') <= RingCapacity
    <2>1. Len(decoded_images) < RingCapacity /\ decoded_images' = Append(decoded_images, x)
      BY <1>4 DEF Ring!Put
    <2>2. Len(decoded_images') = Len(decoded_images) + 1
      BY <2>1, OldRing
    <2> QED
      BY <1>1, <2>1, <2>2
  <1>5. ASSUME NEW p, WriteEffect(p) PROVE poc_last_display' \in Int
    <2>1. p.poc \in Nat
      BY <1>5 DEF WriteEffect, Inv, PicturesInv, Pictures
    <2> QED
      BY <1>5, <2>1 DEF WriteEffect
  <1>6. CASE WriteOutput
    <2>1. Len(decoded_images') <= RingCapacity
      BY <1>4, <1>6 DEF WriteOutput, WritePicture
    <2> QED
      BY <1>5, <1>6, <2>1, WriteOutputEffect DEF RoomInv
  <1>7. CASE FlushOutput
    <2>1. Len(decoded_images') <= RingCapacity
      BY <1>4, <1>7 DEF FlushOutput, WritePicture
    <2> QED
      BY <1>5, <1>7, <2>1, FlushOutputEffect DEF RoomInv
  <1>8. CASE PushNull
    <2>1. Len(decoded_images') <= RingCapacity
      BY <1>4, <1>8 DEF PushNull
    <2> QED
      BY <1>8, <2>1 DEF PushNull, RoomInv
  <1>9. CASE FlushOutputDone
    BY <1>9 DEF FlushOutputDone, NeverDisplayed, RoomInv
  <1>10. CASE PushAu \/ ReadError \/ PushEnd \/ Join \/ Decode \/ WriteOutputDone \/ UNCHANGED vars
    BY <1>2, <1>10 DEF PushAu, ReadError, PushEnd, Join, Decode, WriteOutputDone, threadVars, vars
  <1> QED
    BY <1>3, <1>6, <1>7, <1>8, <1>9, <1>10 DEF Next, Main, Thread

(* The null picture is only ever the last of the ring, the ring never      *)
(* holds more than it has room for, and the thread is there exactly from   *)
(* the end of the stream on.                                               *)
THEOREM TypeCorrect == Spec => []TypeOK
  <1> DEFINE Kept == Inv /\ PairInv /\ RoomInv /\ \E h : DisplayInv(h)
  <1>1. Init => Kept
    <2>1. Init => RoomInv
      BY RingAssumption DEF Init, RoomInv, NeverDisplayed
    <2> QED
      BY <2>1, InitInv, InitPair, InitDisplay
  <1>2. Kept /\ [Next]_vars => Kept'
    BY StepKeepsInv, StepKeepsPair, StepKeepsRoom, StepKeepsDisplay
  <1>3. Kept => TypeOK
    <2> SUFFICES ASSUME Inv, PairInv, RoomInv PROVE TypeOK
      OBVIOUS
    <2>1. /\ main \in {"pushing", "pulling", "joining", "done", "failed", "exited"}
          /\ thread \in {"none", "decode", "bump", "flush", "end", "finished"}
          /\ (main \in {"pushing", "exited"}) <=> (thread = "none")
          /\ thread = "none" => decoded_images = <<>> /\ pic_list = {}
      BY DEF Inv, ControlInv, Pushing
    <2>2. \A i \in DOMAIN decoded_images :
            decoded_images[i] = NoPicture => i = Len(decoded_images) /\ thread = "finished"
      BY DEF Inv, RingInv, NullIn
    <2>3. \A e \in enhancement_queue : e.ts \in Nat
      <3> SUFFICES ASSUME NEW e \in enhancement_queue PROVE e.ts \in Nat
        OBVIOUS
      <3>1. PICK id \in Undelivered : e = Enhancement(id)
        BY DEF PairInv
      <3>2. HevcStart \in Nat
        BY StartTyped DEF Inv
      <3>3. e.id = id /\ e.ts = HevcStart + id + 1000
        BY <3>1 DEF Enhancement
      <3>4. e.id \in SeenIds /\ SeenIds \subseteq Nat
        BY SeenAreNat DEF Inv, EnhancementInv
      <3>5. PICK n \in Nat : n = id
        BY ZenonT(30), <3>3, <3>4
      <3>6. PICK m \in Nat : m = HevcStart
        BY <3>2
      <3>7. m + n + 1000 \in Nat
        OBVIOUS
      <3> QED
        BY <3>3, <3>5, <3>6, <3>7
    <2> QED
      BY <2>1, <2>2, <2>3 DEF RoomInv, TypeOK
  <1> QED
    BY <1>1, <1>2, <1>3, PTL DEF Spec
=============================================================================
