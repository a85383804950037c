---------------------------- MODULE BaseDecoder ----------------------------
(***************************************************************************)
(* The path from the elementary stream to the enhancement decoder, with    *)
(* the HEVC plug-in as base decoder.  Two threads take part:               *)
(*                                                                         *)
(*   main     reads access units, strips the enhancement out of each into  *)
(*            a queue ordered by timestamp and hands the rest to the       *)
(*            plug-in (src/ModelDecoderApp.cpp,                            *)
(*            decoder/src/BaseVideoDecoderCodecApi.cpp).  At the end of    *)
(*            the stream it pulls the decoded pictures and pairs each      *)
(*            with the enhancement at the head of that queue;              *)
(*   decoder  started by the first pull after the end of the stream,       *)
(*            decodes the whole stream and emits its pictures through a    *)
(*            shallow ring buffer (deps/base_hevc/src/codec_api.cpp).      *)
(*                                                                         *)
(* Nothing but the order ties a picture to its enhancement: the plug-in    *)
(* is given no timestamp and returns none.                                 *)
(***************************************************************************)
EXTENDS BaseStream

CONSTANTS Limit,        \* the limit on access units given by the user
          NumReorder,   \* getNumReorderPics() of the highest sub-layer
          RingCapacity  \* 2: "shallow ring buffer used to move pictures"

(* A conforming stream: no picture waits for more than NumReorder pictures *)
(* coded before it and displayed after it.                                 *)
ASSUME NumReorderAssumption ==
  /\ NumReorder \in Nat
  /\ \A s \in DOMAIN Streams : \A o \in Streams[s].orders : \A i \in DOMAIN o :
       Cardinality({j \in 1 .. i : o[j] > o[i]}) <= NumReorder

ASSUME RingAssumption == RingCapacity \in Nat \ {0}

(* The plug-in is that of HEVC. *)
ASSUME CodecAssumption == \A s \in DOMAIN Streams : Streams[s].codec = "HEVC"

NoPicture == [id |-> -1]   \* the null pointer pushed behind the last picture
NoBuffer == [id |-> -2]    \* buffer_ before the first access unit
NeverDisplayed == -1000    \* -MAX_INT

VARIABLES
  main,               \* pushing, pulling, joining or done; failed when a CHECK fires,
                      \* exited when the stream cannot be read
  buffer,             \* buffer_: the last access unit, not passed on yet
  enhancement_queue,  \* priority_queue by timestamp
  base_bitstream,     \* the stream the plug-in collects, then consumes
  decoded_images,     \* RingBuffer<shared_ptr<DecodedImage>>
  thread,             \* none, decode, bump, flush, end or finished
  pic_list,           \* pcListPic: the pictures waiting to be displayed
  poc_last_display,   \* m_iPOCLastDisplay
  delivered           \* history: the calls of push_base_enhancement

mainVars == <<main, buffer, enhancement_queue, delivered>>
threadVars == <<thread, pic_list, poc_last_display>>
vars == <<streamVars, mainVars, base_bitstream, decoded_images, threadVars>>

Ring == INSTANCE BoundedFifo
          WITH Data <- {}, Capacity <- RingCapacity, queue <- decoded_images

Init ==
  /\ StreamInit
  /\ main = "pushing"
  /\ buffer = NoBuffer
  /\ enhancement_queue = {}
  /\ base_bitstream = <<>>
  /\ decoded_images = <<>>
  /\ thread = "none"
  /\ pic_list = {}
  /\ poc_last_display = NeverDisplayed
  /\ delivered = <<>>

-----------------------------------------------------------------------------
(* Main thread.                                                            *)

(* push_es of buffer_, when there is one: push_packet appends it. *)
PassOn(b) == IF b = NoBuffer THEN base_bitstream ELSE Append(base_bitstream, b)

(* Faulty variant of PushedLast: only the next access unit moves one out. *)
KeptBack(b) == base_bitstream

PushedLast(b) == PassOn(b)

(* The timestamp of an access unit and of the enhancement found in it. *)
Pts(au) == au.poc + 1000

(* push_au of an access unit: scan_enhancement moves its enhancement to    *)
(* the queue, the one before it goes to the plug-in.  pull_image returns   *)
(* nothing yet.  The plug-in derives the picture's count itself.           *)
PushAu ==
  /\ main = "pushing"
  /\ PicturesRead < Limit
  /\ \E next \in ThisOrNextGop : \E p \in {ParsedUnits(NalUnits(next))} :
       /\ ReadPicture(next, p)
       /\ \E au \in {AccessUnit(next, p)} :
            enhancement_queue' = enhancement_queue \cup {[ts |-> Pts(au), id |-> au.id]}
       /\ buffer' = [id |-> DisplayIndex(next), poc |-> HevcCount(next),
                     idr |-> HEVC!isIdr(HevcType(next))]
  /\ base_bitstream' = PassOn(buffer)
  /\ UNCHANGED <<main, decoded_images, threadVars, delivered>>

(* The parser throws, and the program gives up. *)
ReadError ==
  /\ main = "pushing"
  /\ PicturesRead < Limit
  /\ Unreadable
  /\ main' = "exited"
  /\ UNCHANGED <<streamVars, buffer, enhancement_queue, delivered, base_bitstream,
                 decoded_images, threadVars>>

(* push_au without data: the buffered access unit goes to the plug-in, the *)
(* end of the stream changes its state, and pull_image starts the thread.  *)
PushEnd ==
  /\ main = "pushing"
  /\ PicturesRead = Limit \/ WholeGroups
  /\ base_bitstream' = PushedLast(buffer)
  /\ main' = "pulling"
  /\ thread' = "decode"
  /\ UNCHANGED <<streamVars, buffer, enhancement_queue, decoded_images, pic_list,
                 poc_last_display, delivered>>

(* What enhancement_queue_.top() may return; ties go either way. *)
Earliest(queue) == {e \in queue : \A f \in queue : e.ts <= f.ts}

(* pull_image returns a picture and push_es pairs it, unless               *)
(* CHECK(!enhancement_queue_.empty()) stops the program.                   *)
PullImage ==
  /\ main = "pulling"
  /\ Ring!Take
  /\ Head(decoded_images) # NoPicture
  /\ main' = IF enhancement_queue = {} THEN "failed" ELSE main
  /\ \E pss \in IF enhancement_queue = {} THEN {NoBuffer} ELSE Earliest(enhancement_queue) :
       /\ enhancement_queue' = enhancement_queue \ {pss}
       /\ delivered' = IF enhancement_queue = {} THEN delivered
                       ELSE Append(delivered, [picture     |-> Head(decoded_images).id,
                                               enhancement |-> pss.id])
  /\ UNCHANGED <<streamVars, buffer, base_bitstream, threadVars>>

(* The null picture ends the pulling. *)
PullEnd ==
  /\ main = "pulling"
  /\ Ring!Take
  /\ Head(decoded_images) = NoPicture
  /\ main' = "joining"
  /\ UNCHANGED <<streamVars, buffer, enhancement_queue, delivered, base_bitstream, threadVars>>

(* decoder_thread_.join() *)
Join ==
  /\ main = "joining"
  /\ thread = "finished"
  /\ main' = "done"
  /\ UNCHANGED <<streamVars, buffer, enhancement_queue, delivered, base_bitstream,
                 decoded_images, threadVars>>

Main ==
  PushAu \/ ReadError \/ PushEnd \/ PullImage \/ PullEnd \/ Join

-----------------------------------------------------------------------------
(* Decoder thread: Context::flush.                                         *)

(* The next picture is decoded and its reconstruction finished; HM keeps   *)
(* the list in the order of the counts.                                    *)
Decode ==
  /\ thread = "decode"
  /\ base_bitstream # <<>>
  /\ pic_list' = pic_list \cup {Head(base_bitstream)}
  /\ base_bitstream' = Tail(base_bitstream)
  /\ thread' = "bump"
  /\ UNCHANGED <<streamVars, mainVars, decoded_images, poc_last_display>>

(* numPicsNotYetDisplayed *)
NotYetDisplayed == {p \in pic_list : p.poc > poc_last_display}

(* Faulty variant of TooMany: a picture is let go one too early. *)
AsManyAsReordered(pics) == Cardinality(pics) >= NumReorder

TooMany(pics) == Cardinality(pics) > NumReorder

FirstInList(pics) == CHOOSE p \in pics : \A q \in pics : p.poc <= q.poc

(* dpbFullness > maxDecPicBuffering lets a picture go earlier.  Which      *)
(* pictures are referenced is left open; in a conforming stream the buffer *)
(* is not so full while a picture that is displayed before all of those    *)
(* that wait is still to come.                                             *)
MayBeFull(pics) ==
  /\ pics # {}
  /\ \A i \in DOMAIN base_bitstream :
       \/ \E j \in 1 .. i : base_bitstream[j].idr
       \/ base_bitstream[i].poc > FirstInList(pics).poc

(* Faulty variant of Unmarked: the output mark stays. *)
LeftMarked(p) == pic_list

(* setOutputMark(false) *)
Unmarked(p) == pic_list \ {p}

(* m_cTVideoIOYuvRecon.write of a picture: picture_end puts it into the    *)
(* ring, and it is not marked for output any more.                         *)
WritePicture(p) ==
  /\ Ring!Put([id |-> p.id])
  /\ pic_list' = Unmarked(p)
  /\ poc_last_display' = p.poc

(* WriteOutput: while more pictures wait than the stream reorders, or the  *)
(* buffer is full.                                                         *)
WriteOutput ==
  /\ thread = "bump"
  /\ TooMany(NotYetDisplayed) \/ MayBeFull(NotYetDisplayed)
  /\ WritePicture(FirstInList(NotYetDisplayed))
  /\ UNCHANGED <<streamVars, mainVars, base_bitstream, thread>>

(* What comes after WriteOutput: an IDR or the end of the stream makes     *)
(* FlushOutput empty the list first.                                       *)
BeforeNext(rest) == IF rest = <<>> \/ Head(rest).idr THEN "flush" ELSE "decode"

WriteOutputDone ==
  /\ thread = "bump"
  /\ ~TooMany(NotYetDisplayed)
  /\ thread' = BeforeNext(base_bitstream)
  /\ UNCHANGED <<streamVars, mainVars, base_bitstream, decoded_images, pic_list, poc_last_display>>

(* FlushOutput: all that is marked for output, in the order of the list. *)
FlushOutput ==
  /\ thread = "flush"
  /\ pic_list # {}
  /\ WritePicture(FirstInList(pic_list))
  /\ UNCHANGED <<streamVars, mainVars, base_bitstream, thread>>

FlushOutputDone ==
  /\ thread = "flush"
  /\ pic_list = {}
  /\ poc_last_display' = NeverDisplayed
  /\ thread' = IF base_bitstream = <<>> THEN "end" ELSE "decode"
  /\ UNCHANGED <<streamVars, mainVars, base_bitstream, decoded_images, pic_list>>

(* Faulty variants of PushNull: the thread ends without a word, and it     *)
(* goes on after the null picture.                                         *)
EndSilently ==
  /\ thread = "end"
  /\ thread' = "finished"
  /\ UNCHANGED <<streamVars, mainVars, base_bitstream, decoded_images, pic_list, poc_last_display>>

PushNullAgain ==
  /\ thread = "end"
  /\ Ring!Put(NoPicture)
  /\ UNCHANGED <<streamVars, mainVars, base_bitstream, threadVars>>

(* decoded_images_.push(nullptr) *)
PushNull ==
  /\ thread = "end"
  /\ Ring!Put(NoPicture)
  /\ thread' = "finished"
  /\ UNCHANGED <<streamVars, mainVars, base_bitstream, pic_list, poc_last_display>>

Thread ==
  Decode \/ WriteOutput \/ WriteOutputDone \/ FlushOutput \/ FlushOutputDone \/ PushNull

Next == Main \/ Thread

Spec == Init /\ [][Next]_vars

(* Either thread runs unless it waits on the ring; RingBuffer's runs show  *)
(* that such a wait ends when the other thread takes or puts a datum.      *)
FairSpec == Spec /\ WF_vars(Main) /\ WF_vars(Thread)

-----------------------------------------------------------------------------
(* The thread and the pictures it holds exist only once the main thread    *)
(* pulls; the ring never holds more than its capacity, and the null        *)
(* picture only as its last.                                               *)
TypeOK ==
  /\ main \in {"pushing", "pulling", "joining", "done", "failed", "exited"}
  /\ thread \in {"none", "decode", "bump", "flush", "end", "finished"}
  /\ (main \in {"pushing", "exited"}) <=> (thread = "none")
  /\ thread = "none" => decoded_images = <<>> /\ pic_list = {}
  /\ Len(decoded_images) <= RingCapacity
  /\ \A i \in DOMAIN decoded_images :
       decoded_images[i] = NoPicture => i = Len(decoded_images) /\ thread = "finished"
  /\ \A e \in enhancement_queue : e.ts \in Nat
  /\ poc_last_display \in Int

(* The enhancement decoder gets the pictures in display order: temporal    *)
(* prediction of the enhancement depends on it.                            *)
DeliveredInDisplayOrder ==
  \A i, j \in DOMAIN delivered : i < j => delivered[i].picture < delivered[j].picture

(* Each picture comes with the enhancement from its own access unit,       *)
(* although only the order relates the two queues.                         *)
PairedWithOwnEnhancement ==
  \A i \in DOMAIN delivered : delivered[i].picture = delivered[i].enhancement

(* CHECK(!enhancement_queue_.empty()) never fires. *)
EnhancementAtHand == main # "failed"

(* At the end every access unit read was delivered and neither queue holds *)
(* anything back.                                                          *)
AllDelivered ==
  main = "done" =>
    /\ Len(delivered) = PicturesRead
    /\ enhancement_queue = {} /\ base_bitstream = <<>> /\ decoded_images = <<>>

(* The stream is decoded to the end, if it can be read: neither thread is left waiting on the *)
(* ring or on the other.                                                   *)
Terminates == <>(main \in {"done", "exited"})
=============================================================================
