---------------------------- MODULE FileEncoder ----------------------------
(***************************************************************************)
(* FileEncoderImpl::encode in encoder/src/FileEncoder.cpp: it reads the    *)
(* access units of the base stream in coding order, encodes the            *)
(* enhancement of each picture in display order (temporal prediction runs  *)
(* in that order), puts the enhancement into the access unit, and writes   *)
(* the access units in coding order again.                                 *)
(***************************************************************************)
EXTENDS BaseStream

CONSTANTS SourceLength,  \* src_file.length()
          Limit          \* the limit on frames given by the user

(* There is a source frame for every picture of the base. *)
ASSUME SourceAssumption == SourceLength \in Nat /\ MaxPictures <= SourceLength

NotEnhanced == -1

VARIABLES pc,             \* where the loop is: read, enhance, write or done; before it start
                          \* or, when a CHECK fails, failed
          pending,        \* access units not written yet, front() first
          display_frame,  \* the next picture to enhance, in display order
          written,        \* the output file: access units in the order written
          end_of_es,
          src,            \* the source frames held, src[0] first
          encoded         \* history: what each call of Encoder::encode was given

vars == <<streamVars, pc, pending, display_frame, written, end_of_es, src, encoded>>

Init ==
  /\ StreamInit
  /\ pc = "start"
  /\ pending = <<>>
  /\ display_frame = 0
  /\ written = <<>>
  /\ end_of_es = FALSE
  /\ src = <<0>>
  /\ encoded = <<>>

(* probe_es_file: the size that the first access unit gives.  When its     *)
(* depth is 0, as it stays in AVC profiles that do not send it, those of   *)
(* all others are too.                                                     *)
SizeKnown(size) == size.width # 0 /\ size.height # 0 /\ size.depth # 0

(* encode_file_with_decoder and encode_file_with_base: CHECK the size of   *)
(* the base against the one that the enhancement is configured for.        *)
Start ==
  /\ pc = "start"
  /\ \E next \in ThisOrNextGop :
       \E size \in {SizeOf(ParsedUnits(NalUnits(next)))} :
         pc' = IF SizeKnown(size) /\ size # S.size THEN "failed" ELSE "read"
  /\ UNCHANGED <<streamVars, pending, display_frame, written, end_of_es, src, encoded>>

(* The count that the access unit of the next picture must have. *)
EnhancePoc == PocStep * display_frame

(* while (written_count < limit && !end_of_es) *)
LoopOn == Len(written) < Limit /\ ~end_of_es

(* Faulty variant of Queued: the new access unit goes to the other end. *)
QueuedLast(unit) == Append(pending, unit)

(* push_front *)
Queued(unit) == <<unit>> \o pending

(* read_au: a new access unit goes to the front of the queue. *)
ReadAu ==
  /\ pc = "read" /\ LoopOn
  /\ \E next \in ThisOrNextGop : \E p \in {ParsedUnits(NalUnits(next))} :
       /\ ReadPicture(next, p)
       /\ pending' = Queued([au    |-> AccessUnit(next, p),
                             enh   |-> NotEnhanced,
                             coded |-> PicturesRead])
  /\ pc' = "enhance"
  /\ UNCHANGED <<display_frame, written, end_of_es, src, encoded>>

(* Faulty variant of ReadEnd: end_of_es is not set. *)
ReadEndAgain ==
  /\ pc = "read" /\ LoopOn
  /\ NoAccessUnit
  /\ pc' = "enhance"
  /\ UNCHANGED <<streamVars, pending, display_frame, written, end_of_es, src, encoded>>

(* read_au fails: the end of the stream, or NAL units that the parser does *)
(* not support.                                                            *)
ReadEnd ==
  /\ pc = "read" /\ LoopOn
  /\ NoAccessUnit
  /\ end_of_es' = TRUE
  /\ pc' = "enhance"
  /\ UNCHANGED <<streamVars, pending, display_frame, written, src, encoded>>

Done ==
  /\ pc = "read" /\ ~LoopOn
  /\ pc' = "done"
  /\ UNCHANGED <<streamVars, pending, display_frame, written, end_of_es, src, encoded>>

(* The places in the queue that hold the next picture to enhance. *)
Matches == {i \in DOMAIN pending : pending[i].au.poc = EnhancePoc}

(* Faulty variant of SlideSource: the window does not move on. *)
KeepSource(held) ==
  IF Len(held) < 2 /\ display_frame + 1 < SourceLength
    THEN Append(held, display_frame + 1) ELSE held

(* Slide the window of source frames and read one frame ahead. *)
SlideSource(held) ==
  LET rest == IF display_frame # 0 THEN Tail(held) ELSE held
  IN  IF Len(rest) < 2 /\ display_frame + 1 < SourceLength
        THEN Append(rest, display_frame + 1) ELSE rest

(* The first match from the front is enhanced, with the source frame at    *)
(* the head of the window and the reconstruction of display_frame.         *)
Enhance ==
  /\ pc = "enhance"
  /\ Matches # {}
  /\ LET i == CHOOSE m \in Matches : \A n \in Matches : m <= n
     IN  /\ src' = SlideSource(src)
         /\ pending' = [pending EXCEPT ![i].enh = display_frame]
         /\ encoded' = Append(encoded, [frame |-> display_frame, source |-> src'[1],
                                        picture |-> pending[i].au.id,
                                        coded |-> pending[i].coded])
  /\ display_frame' = display_frame + 1
  /\ UNCHANGED <<streamVars, pc, written, end_of_es>>

NothingToEnhance ==
  /\ pc = "enhance"
  /\ Matches = {}
  /\ pc' = "write"
  /\ UNCHANGED <<streamVars, pending, display_frame, written, end_of_es, src, encoded>>

(* Faulty variant of MayWrite: a picture may leave before it is enhanced. *)
MayWriteAny(au) == TRUE

(* pending.back().m_poc < write_poc *)
MayWrite(au) == au.poc < EnhancePoc

WriteReady == pending # <<>> /\ MayWrite(Last(pending).au)

(* Faulty variant of AfterWrite: pop_back is missing. *)
StillQueued(queue) == queue

(* pop_back *)
AfterWrite(queue) == Front(queue)

(* Write the last of the queue; the inner loop has no test of the limit. *)
WriteAu ==
  /\ pc = "write"
  /\ WriteReady
  /\ written' = Append(written, Last(pending))
  /\ pending' = AfterWrite(pending)
  /\ UNCHANGED <<streamVars, pc, display_frame, end_of_es, src, encoded>>

NothingToWrite ==
  /\ pc = "write"
  /\ ~WriteReady
  /\ pc' = "read"
  /\ UNCHANGED <<streamVars, pending, display_frame, written, end_of_es, src, encoded>>

Next ==
  \/ Start \/ ReadAu \/ ReadEnd \/ Done
  \/ Enhance \/ NothingToEnhance
  \/ WriteAu \/ NothingToWrite

Spec == Init /\ [][Next]_vars

(* One thread that never waits for anything. *)
FairSpec == Spec /\ WF_vars(Next)

-----------------------------------------------------------------------------
QueuedUnits ==
  [au : [id : Nat, poc : Nat, type : {"IDR", "I", "P", "B"}], enh : Nat \cup {NotEnhanced}, coded : Nat]

(* Every picture read is in the queue or written; the window holds the     *)
(* next source frame whenever there is one.                                *)
TypeOK ==
  /\ gop.order \in S.orders \cup {<<>>} /\ gop.done \in 0 .. Len(gop.order)
  /\ gop.first \in 0 .. MaxPictures
  /\ parser \in AVC!Parsers \cup HEVC!Parsers
  /\ es \in [highest : Nat, offset : Nat]
  /\ pc \in {"start", "failed", "read", "enhance", "write", "done"}
  /\ Range(pending) \cup Range(written) \subseteq QueuedUnits
  /\ Len(pending) + Len(written) = PicturesRead
  /\ display_frame \in Nat
  /\ end_of_es \in BOOLEAN
  /\ Len(src) \in 1 .. 2

(* The output holds the access units of the base stream in coding order,   *)
(* none missing and none twice.                                            *)
WrittenInCodingOrder == \A i \in DOMAIN written : written[i].coded = i - 1

(* No access unit is written without its enhancement, and the enhancement  *)
(* it carries is the one made for its own picture.                         *)
WrittenWithOwnEnhancement ==
  \A i \in DOMAIN written : written[i].enh = written[i].au.id

(* The encoder is called once for every picture in display order, with the *)
(* source frame and the reconstruction of that picture.                    *)
EncodedInDisplayOrder ==
  \A i \in DOMAIN encoded :
    encoded[i].frame = i - 1 /\ encoded[i].picture = i - 1 /\ encoded[i].source = i - 1

(* When the whole base stream was read, all of it was written. *)
NothingLeftBehind == pc = "done" /\ Len(written) < Limit => pending = <<>> /\ Len(written) = PicturesRead

(* The encoder comes to an end, whatever the coding order. *)
Terminates == <>(pc = "done")

(* "Create a POC that always increases across IDR" (uESFile.cpp): the      *)
(* counts given to the pictures of the stream are in their display order.  *)
PocIncreasesAcrossIdr ==
  \A a, b \in Range(pending) \cup Range(written) :
    a.au.id < b.au.id => a.au.poc < b.au.poc
=============================================================================
