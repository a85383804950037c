-------------------------- MODULE RingBufferProofs --------------------------
(***************************************************************************)
(* Theorems about RingBuffer for every set of threads, every capacity and  *)
(* every choice of the operations the threads call.  The first part is     *)
(* about the ring primitives alone: what they do to Contents.              *)
(***************************************************************************)
EXTENDS RingBuffer, TLAPS, SequenceTheorems, FiniteSetTheorems

(* The slots that hold data are exactly the occupied ones. *)
BufOK(b) ==
  /\ b \in [ring : [Slots -> Data \cup {NoData}], front : Slots, size : 0 .. Capacity]
  /\ \A i \in Slots : b.ring[i] # NoData <=> i \in Occupied(b)

(* A slot is occupied iff its distance from the front is below the size. *)
LEMMA OccupiedSlots ==
  ASSUME NEW b, b.front \in Slots, b.size \in 0 .. Capacity, NEW i \in Slots
  PROVE  i \in Occupied(b) <=>
           IF i >= b.front THEN i - b.front < b.size
                           ELSE i + Capacity - b.front < b.size
<1>1. ASSUME i \in Occupied(b)
      PROVE  IF i >= b.front THEN i - b.front < b.size
                             ELSE i + Capacity - b.front < b.size
  <2>1. PICK k \in 0 .. b.size - 1 : i = Wrap(b.front + k)
    BY <1>1 DEF Occupied
  <2> QED BY <2>1, CapacityAssumption DEF Wrap, Slots
<1>2. ASSUME i >= b.front, i - b.front < b.size
      PROVE  i \in Occupied(b)
  <2>1. i - b.front \in 0 .. b.size - 1
    BY <1>2, CapacityAssumption DEF Slots
  <2>2. Wrap(b.front + (i - b.front)) = i
    BY <1>2, CapacityAssumption DEF Slots, Wrap
  <2> QED BY <2>1, <2>2 DEF Occupied
<1>3. ASSUME i < b.front, i + Capacity - b.front < b.size
      PROVE  i \in Occupied(b)
  <2>1. i + Capacity - b.front \in 0 .. b.size - 1
    BY <1>3, CapacityAssumption DEF Slots
  <2>2. Wrap(b.front + (i + Capacity - b.front)) = i
    BY <1>3, CapacityAssumption DEF Slots, Wrap
  <2> QED BY <2>1, <2>2 DEF Occupied
<1> QED BY <1>1, <1>2, <1>3, CapacityAssumption DEF Slots

LEMMA ContentsType ==
  ASSUME NEW b, BufOK(b)
  PROVE  /\ Contents(b) \in Seq(Data)
         /\ Len(Contents(b)) = b.size
         /\ \A i \in 1 .. b.size : Contents(b)[i] = b.ring[Wrap(b.front + i - 1)]
<1>1. \A i \in 1 .. b.size : b.ring[Wrap(b.front + i - 1)] \in Data
  <2> SUFFICES ASSUME NEW i \in 1 .. b.size
               PROVE  b.ring[Wrap(b.front + i - 1)] \in Data
    OBVIOUS
  <2>1. i - 1 \in 0 .. b.size - 1 /\ b.front + (i - 1) = b.front + i - 1
    BY CapacityAssumption DEF BufOK, Slots
  <2>2. Wrap(b.front + i - 1) \in Slots
    BY CapacityAssumption DEF BufOK, Slots, Wrap
  <2>3. Wrap(b.front + i - 1) \in Occupied(b)
    BY <2>1 DEF Occupied
  <2> QED BY <2>2, <2>3 DEF BufOK
<1>2. b.size \in Nat
  BY CapacityAssumption DEF BufOK
<1>3. Contents(b) \in [1 .. b.size -> Data]
  BY <1>1 DEF Contents
<1>4. Contents(b) \in Seq(Data) /\ Len(Contents(b)) = b.size
  BY <1>2, <1>3
<1> QED BY <1>4 DEF Contents

(* ring_pop_front leaves a well formed ring that holds the rest. *)
LEMMA PopFrontContents ==
  ASSUME NEW b, BufOK(b), ~Empty(b)
  PROVE  /\ BufOK(PopFront(b))
         /\ FrontDatum(b) \in Data
         /\ FrontDatum(b) = Head(Contents(b))
         /\ Contents(PopFront(b)) = Tail(Contents(b))
         /\ Contents(b) # <<>>
<1> DEFINE p == PopFront(b)
<1>1. /\ p.front \in Slots
      /\ p.size \in 0 .. Capacity
      /\ p.ring \in [Slots -> Data \cup {NoData}]
      /\ p \in [ring : [Slots -> Data \cup {NoData}], front : Slots, size : 0 .. Capacity]
  BY CapacityAssumption DEF PopFront, BufOK, Slots, Wrap, Empty
<1>2. b.front \in Slots /\ b.size \in 1 .. Capacity
  BY CapacityAssumption DEF BufOK, Empty
<1>3. ASSUME NEW i \in Slots
      PROVE  p.ring[i] # NoData <=> i \in Occupied(p)
  <2>1. i \in Occupied(p) <=> i \in Occupied(b) /\ i # b.front
    <3>1. i \in Occupied(b) <=> IF i >= b.front THEN i - b.front < b.size
                                ELSE i + Capacity - b.front < b.size
      BY <1>2, OccupiedSlots
    <3>2. i \in Occupied(p) <=> IF i >= p.front THEN i - p.front < p.size
                                ELSE i + Capacity - p.front < p.size
      BY <1>1, OccupiedSlots
    <3>3. p.front = Wrap(b.front + 1) /\ p.size = b.size - 1
      BY DEF PopFront
    <3> QED BY <3>1, <3>2, <3>3, <1>2, CapacityAssumption DEF Slots, Wrap
  <2>2. p.ring[i] = IF i = b.front THEN NoData ELSE b.ring[i]
    BY DEF PopFront, BufOK
  <2> QED BY <2>1, <2>2 DEF BufOK
<1>4. BufOK(p)
  BY <1>1, <1>3 DEF BufOK
<1>5. Wrap(b.front + 1 - 1) = b.front
  BY <1>2, CapacityAssumption DEF Slots, Wrap
<1>6. FrontDatum(b) = Contents(b)[1] /\ Contents(b) \in Seq(Data) /\ Len(Contents(b)) = b.size
  BY <1>2, <1>5, ContentsType DEF FrontDatum
<1>7. FrontDatum(b) \in Data /\ FrontDatum(b) = Head(Contents(b)) /\ Contents(b) # <<>>
  BY <1>2, <1>6
<1>8. Contents(p) = Tail(Contents(b))
  <2>1. Contents(p) \in Seq(Data) /\ Len(Contents(p)) = b.size - 1
    BY <1>4, ContentsType DEF PopFront
  <2>2. Tail(Contents(b)) \in Seq(Data) /\ Len(Tail(Contents(b))) = b.size - 1
    BY <1>6, <1>7
  <2>3. ASSUME NEW i \in 1 .. b.size - 1
        PROVE  Contents(p)[i] = Tail(Contents(b))[i]
    <3>1. Contents(p)[i] = p.ring[Wrap(p.front + i - 1)]
      BY <1>4, ContentsType DEF PopFront
    <3>2. Tail(Contents(b))[i] = Contents(b)[i + 1]
      BY <1>6, <1>7, <2>2, HeadTailProperties
    <3>3. Contents(b)[i + 1] = b.ring[Wrap(b.front + (i + 1) - 1)]
      BY <1>2, ContentsType
    <3>4. /\ Wrap(p.front + i - 1) = Wrap(b.front + (i + 1) - 1)
          /\ Wrap(p.front + i - 1) \in Slots \ {b.front}
      BY <1>2, CapacityAssumption DEF PopFront, Slots, Wrap
    <3>5. p.ring[Wrap(p.front + i - 1)] = b.ring[Wrap(p.front + i - 1)]
      BY <3>4 DEF PopFront, BufOK
    <3> QED BY <3>1, <3>2, <3>3, <3>4, <3>5
  <2> QED BY <2>1, <2>2, <2>3, SeqEqual
<1> QED BY <1>4, <1>7, <1>8

(* ring_push_back leaves a well formed ring with the datum at its end. *)
LEMMA PushBackContents ==
  ASSUME NEW b, BufOK(b), ~Full(b), NEW d \in Data
  PROVE  /\ BufOK(PushBack(b, d))
         /\ Contents(PushBack(b, d)) = Append(Contents(b), d)
<1>1. PICK s : s = Wrap(b.front + b.size)
  OBVIOUS
<1>2. PICK p : p = PushBack(b, d)
  OBVIOUS
<1>3. b.front \in Slots /\ b.size \in 0 .. Capacity - 1
  BY CapacityAssumption DEF BufOK, Full
<1>4. /\ s = IF b.front + b.size >= Capacity THEN b.front + b.size - Capacity
                                              ELSE b.front + b.size
      /\ s \in Slots
  BY <1>1, <1>3, CapacityAssumption DEF Slots, Wrap
<1>5. p.front = b.front /\ p.size = b.size + 1 /\ p.ring = [b.ring EXCEPT ![s] = d]
  BY <1>1, <1>2 DEF PushBack
<1>6. p \in [ring : [Slots -> Data \cup {NoData}], front : Slots, size : 0 .. Capacity]
  BY <1>1, <1>2, <1>3, <1>4, CapacityAssumption DEF PushBack, BufOK
<1>7. ASSUME NEW i \in Slots
      PROVE  p.ring[i] # NoData <=> i \in Occupied(p)
  <2>1. i \in Occupied(p) <=> i \in Occupied(b) \/ i = s
    <3>1. i \in Occupied(b) <=> IF i >= b.front THEN i - b.front < b.size
                                ELSE i + Capacity - b.front < b.size
      BY <1>3, CapacityAssumption, OccupiedSlots
    <3>2. i \in Occupied(p) <=> IF i >= b.front THEN i - b.front < b.size + 1
                                ELSE i + Capacity - b.front < b.size + 1
      BY <1>3, <1>5, CapacityAssumption, OccupiedSlots
    <3> QED BY <3>1, <3>2, <1>3, <1>4, CapacityAssumption DEF Slots
  <2>2. p.ring[i] = IF i = s THEN d ELSE b.ring[i]
    BY <1>5 DEF BufOK
  <2> QED BY <2>1, <2>2, DataAssumption DEF BufOK
<1>8. BufOK(p)
  BY <1>6, <1>7 DEF BufOK
<1>9. Contents(b) \in Seq(Data) /\ Len(Contents(b)) = b.size
  BY ContentsType
<1>10. /\ Contents(p) \in Seq(Data)
       /\ Len(Contents(p)) = b.size + 1
       /\ \A i \in 1 .. b.size + 1 : Contents(p)[i] = p.ring[Wrap(b.front + i - 1)]
  <2>1. p.front = b.front /\ p.size = b.size + 1
    BY <1>5
  <2>2. /\ Contents(p) \in Seq(Data)
        /\ Len(Contents(p)) = p.size
        /\ \A i \in 1 .. p.size : Contents(p)[i] = p.ring[Wrap(p.front + i - 1)]
    BY <1>8, ContentsType
  <2> QED BY <2>1, <2>2
<1>11. /\ Append(Contents(b), d) \in Seq(Data)
       /\ Len(Append(Contents(b), d)) = b.size + 1
  BY <1>9
<1>12. ASSUME NEW i \in 1 .. b.size + 1
       PROVE  Contents(p)[i] = Append(Contents(b), d)[i]
  <2>1. Contents(p)[i] = p.ring[Wrap(b.front + i - 1)]
    BY <1>10
  <2>2. Wrap(b.front + i - 1) \in Slots
    BY <1>3, CapacityAssumption DEF Slots, Wrap
  <2>3. CASE i = b.size + 1
    <3>1. b.front + i - 1 = b.front + b.size
      BY <1>3, <2>3, CapacityAssumption DEF Slots
    <3>2. p.ring[s] = d
      BY <1>4, <1>5 DEF BufOK
    <3>3. Append(Contents(b), d)[i] = d
      BY <1>9, <2>3, AppendProperties
    <3> QED BY <1>1, <2>1, <3>1, <3>2, <3>3
  <2>4. CASE i \in 1 .. b.size
    <3>1. Wrap(b.front + i - 1) # s
      BY <1>3, <1>4, <2>4, CapacityAssumption DEF Slots, Wrap
    <3>2. p.ring[Wrap(b.front + i - 1)] = b.ring[Wrap(b.front + i - 1)]
      BY <1>5, <2>2, <3>1 DEF BufOK
    <3>3. Contents(b)[i] = b.ring[Wrap(b.front + i - 1)]
      BY <2>4, ContentsType
    <3>4. Append(Contents(b), d)[i] = Contents(b)[i]
      BY <1>9, <2>4, AppendProperties
    <3> QED BY <2>1, <3>2, <3>3, <3>4
  <2>5. i = b.size + 1 \/ i \in 1 .. b.size
    <3>1. b.size \in Nat
      BY <1>3, CapacityAssumption
    <3> QED BY <3>1
  <2> QED BY <2>3, <2>4, <2>5
<1>13. Contents(p) = Append(Contents(b), d)
  BY <1>10, <1>11, <1>12, SeqEqual
<1> QED BY <1>2, <1>8, <1>13

(* ring_clear leaves a well formed empty ring. *)
LEMMA ClearedContents ==
  ASSUME NEW b, BufOK(b)
  PROVE  BufOK(Cleared(b)) /\ Contents(Cleared(b)) = <<>>
<1> DEFINE p == Cleared(b)
<1>1. /\ p \in [ring : [Slots -> Data \cup {NoData}], front : Slots, size : 0 .. Capacity]
      /\ p.size = 0
  BY CapacityAssumption DEF BufOK, Cleared, Slots, Wrap
<1>2. Occupied(p) = {}
  BY <1>1 DEF Occupied
<1>3. \A i \in Slots : p.ring[i] = NoData
  BY DEF Cleared, BufOK
<1>4. BufOK(p)
  BY <1>1, <1>2, <1>3 DEF BufOK
<1>5. Contents(p) \in Seq(Data) /\ Len(Contents(p)) = 0
  BY <1>1, <1>4, ContentsType
<1> QED BY <1>4, <1>5

-----------------------------------------------------------------------------
(* The second part: steps of the specification.                            *)

(* The ring and its history. *)
RingOK ==
  /\ BufOK(buf)
  /\ accepted \in Seq(Data)
  /\ removed \in Seq(Data)
  /\ NothingLostOrReordered

(* Where each thread is. *)
ThreadsOK ==
  /\ pc \in [Threads -> {"out", "called", "not_empty", "not_full", "woken",
                         "timed_out", "notify"}]
  /\ call \in [Threads -> Calls]
  /\ \A t \in Threads :
       /\ call[t].op = "none" <=> pc[t] = "out"
       /\ call[t].op \in PushOps <=> call[t].datum \in Data
       /\ pc[t] = "not_full" => call[t].op \in PushOps
       /\ pc[t] = "not_empty" => call[t].op \in PopOps \cup {"peek"}
       /\ pc[t] = "timed_out" => call[t].op \in TimedOps
       /\ pc[t] = "notify" => call[t].op \in PushOps \cup PopOps
  /\ failed \in BOOLEAN

LEMMA NoCallFacts ==
  /\ NoCall \in Calls /\ NoCall.op = "none"
  /\ NoCall.op \notin PushOps /\ NoCall.datum \notin Data
  BY DataAssumption DEF NoCall, Calls, PushOps

LEMMA ThreadsOKInit == Init => ThreadsOK
<1> SUFFICES ASSUME Init PROVE ThreadsOK
  OBVIOUS
<1>1. pc = [t \in Threads |-> "out"] /\ call = [t \in Threads |-> NoCall] /\ failed = FALSE
  BY DEF Init
<1> QED BY <1>1, NoCallFacts DEF ThreadsOK

LEMMA ThreadsOKStep == ThreadsOK /\ [Next]_vars => ThreadsOK'
<1> SUFFICES ASSUME ThreadsOK, [Next]_vars PROVE ThreadsOK'
  OBVIOUS
<1> USE DEF ThreadsOK
<1>1. CASE UNCHANGED vars
  BY <1>1 DEF vars
<1>2. ASSUME NEW t \in Threads, Call(t) PROVE ThreadsOK'
  <2>1. PICK op \in Ops[t], d \in Data \cup {NoData}, usec \in {0, 1} :
          /\ (op \in PushOps) <=> (d # NoData)
          /\ call' = [call EXCEPT ![t] = [op |-> op, datum |-> d, usec |-> usec]]
    BY <1>2 DEF Call
  <2>2. op \in AllOps
    BY OpsAssumption
  <2>3. op # "none"
    BY <2>2 DEF AllOps, PushOps, PopOps, IfOps
  <2>4. [op |-> op, datum |-> d, usec |-> usec] \in Calls
    BY <2>2 DEF Calls
  <2>5. pc' = [pc EXCEPT ![t] = "called"] /\ failed' = failed
    BY <1>2 DEF Call
  <2>6. op \in PushOps <=> d \in Data
    BY <2>1, DataAssumption
  <2> QED BY <2>1, <2>3, <2>4, <2>5, <2>6
<1>3. ASSUME NEW t \in Threads, NEW where \in {"not_full", "not_empty", "woken", "timed_out", "notify"},
             Goto(t, where), failed' = failed, pc[t] # "out",
             where = "not_full" => call[t].op \in PushOps,
             where = "not_empty" => call[t].op \in PopOps \cup {"peek"},
             where = "timed_out" => call[t].op \in TimedOps,
             where = "notify" => call[t].op \in PushOps \cup PopOps
      PROVE  ThreadsOK'
  BY <1>3 DEF Goto
<1>4. ASSUME NEW t \in Threads,
             pc' \in [Threads -> {"out", "called", "not_empty", "not_full", "woken",
                                  "timed_out", "notify"}],
             pc'[t] = "out",
             \A u \in Threads \ {t} :
               pc'[u] = pc[u] \/ (pc[u] \in {"not_full", "not_empty"} /\ pc'[u] = "woken"),
             call' = [call EXCEPT ![t] = NoCall], failed' = failed
      PROVE  ThreadsOK'
  BY <1>4, NoCallFacts
<1>5. ASSUME NEW t \in Threads, Runs(t) PROVE ThreadsOK'
  <2>1. CASE Push(t)
    BY <2>1, <1>3 DEF Push, Tests
  <2>2. CASE Overflow(t)
    BY <2>2, <1>3 DEF Overflow, Overflows, Tests, TimedOut, PushOps
  <2>3. CASE Pop(t)
    BY <2>3, <1>3 DEF Pop, Tests
  <2>4. CASE WaitNotFull(t) \/ WaitNotEmpty(t)
    BY <2>4, <1>3 DEF WaitNotFull, WaitNotEmpty, Tests
  <2>5. CASE OverflowOfEmpty(t)
    BY <2>5 DEF OverflowOfEmpty
  <2>6. CASE Peek(t) \/ GiveUp(t)
    BY <2>6, <1>4 DEF Peek, GiveUp, Return
  <2>7. CASE Clear(t)
    <3>1. pc' = [u \in Threads |-> IF u = t THEN "out"
                                   ELSE IF pc[u] = "not_full" THEN "woken" ELSE pc[u]]
      BY <2>7 DEF Clear
    <3>2. call' = [call EXCEPT ![t] = NoCall] /\ failed' = failed
      BY <2>7 DEF Clear
    <3>3. pc' \in [Threads -> {"out", "called", "not_empty", "not_full", "woken",
                               "timed_out", "notify"}]
      BY <3>1
    <3>4. /\ pc'[t] = "out"
          /\ \A u \in Threads \ {t} :
               pc'[u] = pc[u] \/ (pc[u] \in {"not_full", "not_empty"} /\ pc'[u] = "woken")
      BY <3>1
    <3> QED BY <3>2, <3>3, <3>4, <1>4
  <2>8. CASE NotifyAll(t)
    <3>1. pc' = [u \in Threads |-> IF u = t THEN "out"
                                   ELSE IF pc[u] = "not_empty" THEN "woken" ELSE pc[u]]
      BY <2>8 DEF NotifyAll
    <3>2. call' = [call EXCEPT ![t] = NoCall] /\ failed' = failed
      BY <2>8 DEF NotifyAll
    <3>3. pc' \in [Threads -> {"out", "called", "not_empty", "not_full", "woken",
                               "timed_out", "notify"}]
      BY <3>1
    <3>4. /\ pc'[t] = "out"
          /\ \A u \in Threads \ {t} :
               pc'[u] = pc[u] \/ (pc[u] \in {"not_full", "not_empty"} /\ pc'[u] = "woken")
      BY <3>1
    <3> QED BY <3>2, <3>3, <3>4, <1>4
  <2>9. CASE NotifyOne(t)
    <3>1. CASE pc' = [pc EXCEPT ![t] = "out"]
      BY <2>9, <3>1, <1>4 DEF NotifyOne
    <3>2. ASSUME NEW u \in Threads, pc[u] = "not_full",
                 pc' = [pc EXCEPT ![t] = "out", ![u] = "woken"]
          PROVE  ThreadsOK'
      <4>1. u # t
        BY <2>9, <3>2 DEF NotifyOne
      <4> QED BY <2>9, <3>2, <4>1, <1>4 DEF NotifyOne
    <3> QED BY <2>9, <3>1, <3>2 DEF NotifyOne
  <2> QED BY <1>5, <2>1, <2>2, <2>3, <2>4, <2>5, <2>6, <2>7, <2>8, <2>9 DEF Runs
<1>6. ASSUME NEW t \in Threads, TimeOut(t) \/ SpuriousWakeup(t) PROVE ThreadsOK'
  BY <1>3, <1>6 DEF TimeOut, SpuriousWakeup
<1> QED BY <1>1, <1>2, <1>5, <1>6 DEF Next

(* The four ways in which a step changes the ring.                         *)
Puts(d) ==
  /\ ~Full(buf) /\ buf' = PushBack(buf, d)
  /\ accepted' = Append(accepted, d) /\ removed' = removed
Replaces(d) ==
  /\ ~Empty(buf) /\ buf' = PushBack(PopFront(buf), d)
  /\ accepted' = Append(accepted, d) /\ removed' = Append(removed, FrontDatum(buf))
Takes ==
  /\ ~Empty(buf) /\ buf' = PopFront(buf)
  /\ accepted' = accepted /\ removed' = Append(removed, FrontDatum(buf))
Clears ==
  /\ buf' = Cleared(buf)
  /\ accepted' = accepted /\ removed' = removed \o Contents(buf)

LEMMA StepKinds ==
  ASSUME ThreadsOK, [Next]_vars
  PROVE  \/ UNCHANGED <<buf, accepted, removed>>
         \/ \E d \in Data : Puts(d) \/ Replaces(d)
         \/ Takes
         \/ Clears
<1>1. CASE UNCHANGED vars
  BY <1>1 DEF vars
<1>2. ASSUME NEW t \in Threads, Push(t) PROVE \E d \in Data : Puts(d)
  BY <1>2 DEF Push, Tests, ThreadsOK, Puts
<1>3. ASSUME NEW t \in Threads, Overflow(t) PROVE \E d \in Data : Replaces(d)
  BY <1>3 DEF Overflow, Overflows, Tests, TimedOut, ThreadsOK, Replaces, PushOps
<1>4. ASSUME NEW t \in Threads, Pop(t) PROVE Takes
  BY <1>4 DEF Pop, CanTake, Takes
<1>5. ASSUME NEW t \in Threads, Clear(t) PROVE Clears
  BY <1>5 DEF Clear, Clears
<1>6. ASSUME NEW t \in Threads,
             \/ Call(t) \/ WaitNotFull(t) \/ OverflowOfEmpty(t) \/ Peek(t)
             \/ WaitNotEmpty(t) \/ GiveUp(t) \/ NotifyAll(t) \/ NotifyOne(t)
             \/ TimeOut(t) \/ SpuriousWakeup(t)
      PROVE  UNCHANGED <<buf, accepted, removed>>
  BY <1>6 DEF Call, WaitNotFull, OverflowOfEmpty, Peek, WaitNotEmpty, GiveUp, NotifyAll,
              NotifyOne, TimeOut, SpuriousWakeup
<1> QED BY <1>1, <1>2, <1>3, <1>4, <1>5, <1>6 DEF Next, Runs

(* Sequences: history and contents change together. *)
LEMMA HistoryPut ==
  ASSUME NEW r \in Seq(Data), NEW c \in Seq(Data), NEW d \in Data
  PROVE  Append(r \o c, d) = r \o Append(c, d)
<1>1. Append(r \o c, d) = (r \o c) \o <<d>> /\ Append(c, d) = c \o <<d>>
  BY AppendIsConcat, ConcatProperties
<1> QED BY <1>1, ConcatAssociative

LEMMA HistoryTake ==
  ASSUME NEW r \in Seq(Data), NEW c \in Seq(Data), c # <<>>
  PROVE  r \o c = Append(r, Head(c)) \o Tail(c)
<1>1. Head(c) \in Data /\ Tail(c) \in Seq(Data)
  BY HeadTailProperties
<1>2. c = <<Head(c)>> \o Tail(c)
  BY <1>1
<1>3. Append(r, Head(c)) = r \o <<Head(c)>> /\ <<Head(c)>> \in Seq(Data)
  BY <1>1, AppendIsConcat
<1> QED BY <1>1, <1>2, <1>3, ConcatAssociative

LEMMA RingOKInit == Init => RingOK /\ Contents(buf) = <<>>
<1> SUFFICES ASSUME Init PROVE RingOK /\ Contents(buf) = <<>>
  OBVIOUS
<1>1. /\ buf = [ring |-> [i \in Slots |-> NoData], front |-> 0, size |-> 0]
      /\ accepted = <<>> /\ removed = <<>>
  BY DEF Init
<1>2. Occupied(buf) = {}
  BY <1>1 DEF Occupied
<1>3. BufOK(buf)
  BY <1>1, <1>2, CapacityAssumption DEF BufOK, Slots
<1>4. Contents(buf) \in Seq(Data) /\ Len(Contents(buf)) = 0
  BY <1>1, <1>3, ContentsType
<1>5. Contents(buf) = <<>> /\ <<>> \o <<>> = <<>>
  BY <1>4, ConcatEmptySeq
<1> QED BY <1>1, <1>3, <1>5 DEF RingOK, NothingLostOrReordered

(* Each way of changing the ring, seen on its contents. *)
LEMMA RingOKStep ==
  ASSUME RingOK, ThreadsOK, [Next]_vars
  PROVE  /\ RingOK'
         /\ [Fifo!Next]_(Contents(buf))
<1> DEFINE c == Contents(buf)
<1>1. /\ c \in Seq(Data) /\ Len(c) = buf.size /\ buf.size \in 0 .. Capacity
      /\ accepted = removed \o c
  BY ContentsType DEF RingOK, NothingLostOrReordered, BufOK
<1>2. CASE UNCHANGED <<buf, accepted, removed>>
  <2>1. Contents(buf)' = Contents(buf)
    BY <1>2 DEF Contents, Wrap
  <2> QED BY <1>2, <2>1 DEF RingOK, NothingLostOrReordered, BufOK, Occupied, Slots, Wrap
<1>3. ASSUME NEW d \in Data, Puts(d)
      PROVE  RingOK' /\ Fifo!Next
  <2>1. BufOK(buf') /\ Contents(buf') = Append(c, d)
    BY <1>3, PushBackContents DEF RingOK, Puts
  <2>2. accepted' = removed' \o Contents(buf')
    BY <1>1, <1>3, <2>1, HistoryPut DEF Puts, RingOK
  <2>3. Len(c) < Capacity
    BY <1>1, <1>3, CapacityAssumption DEF Puts, Full
  <2>4. Fifo!Next
    BY <2>1, <2>3 DEF Fifo!Next, Fifo!Put
  <2> QED BY <1>3, <2>1, <2>2, <2>4 DEF RingOK, Puts, NothingLostOrReordered
<1>4. ASSUME NEW d \in Data, Replaces(d)
      PROVE  RingOK' /\ Fifo!Next
  <2>1. /\ BufOK(PopFront(buf)) /\ Contents(PopFront(buf)) = Tail(c)
        /\ FrontDatum(buf) = Head(c) /\ Head(c) \in Data /\ c # <<>>
    BY <1>4, PopFrontContents DEF RingOK, Replaces
  <2>2. ~Full(PopFront(buf))
    BY <1>1, CapacityAssumption DEF Full, PopFront
  <2>3. BufOK(buf') /\ Contents(buf') = Append(Tail(c), d)
    BY <1>4, <2>1, <2>2, PushBackContents DEF Replaces
  <2>4. /\ Append(removed, Head(c)) \in Seq(Data) /\ Tail(c) \in Seq(Data)
        /\ accepted = Append(removed, Head(c)) \o Tail(c)
    BY <1>1, <2>1, HistoryTake, HeadTailProperties DEF RingOK
  <2>5. accepted' = removed' \o Contents(buf')
    BY <1>4, <2>1, <2>3, <2>4, HistoryPut DEF Replaces
  <2>6. Fifo!Next
    BY <2>1, <2>3 DEF Fifo!Next, Fifo!PutDroppingOldest
  <2>7. accepted' \in Seq(Data) /\ removed' \in Seq(Data)
    BY <1>4, <2>1, <2>4 DEF RingOK, Replaces
  <2> QED BY <2>3, <2>5, <2>6, <2>7 DEF RingOK, NothingLostOrReordered
<1>5. CASE Takes
  <2>1. /\ BufOK(buf') /\ Contents(buf') = Tail(c)
        /\ FrontDatum(buf) = Head(c) /\ Head(c) \in Data /\ c # <<>>
    BY <1>5, PopFrontContents DEF RingOK, Takes
  <2>2. accepted' = removed' \o Contents(buf')
    BY <1>1, <1>5, <2>1, HistoryTake DEF Takes, RingOK
  <2>3. Fifo!Next
    BY <2>1 DEF Fifo!Next, Fifo!Take
  <2> QED BY <1>5, <2>1, <2>2, <2>3 DEF RingOK, Takes, NothingLostOrReordered
<1>6. CASE Clears
  <2>1. BufOK(buf') /\ Contents(buf') = <<>>
    BY <1>6, ClearedContents DEF RingOK, Clears
  <2>2. removed \o c \in Seq(Data) /\ (removed \o c) \o <<>> = removed \o c
    BY <1>1, ConcatProperties, ConcatEmptySeq DEF RingOK
  <2>3. Fifo!Next
    BY <2>1 DEF Fifo!Next, Fifo!TakeAll
  <2> QED BY <1>1, <1>6, <2>1, <2>2, <2>3 DEF RingOK, Clears, NothingLostOrReordered
<1> QED BY <1>2, <1>3, <1>4, <1>5, <1>6, StepKinds

-----------------------------------------------------------------------------
(* Theorems.                                                               *)

LEMMA Invariants == Spec => [](RingOK /\ ThreadsOK)
<1>1. Init => RingOK /\ ThreadsOK
  BY RingOKInit, ThreadsOKInit
<1>2. RingOK /\ ThreadsOK /\ [Next]_vars => (RingOK /\ ThreadsOK)'
  BY RingOKStep, ThreadsOKStep
<1> QED BY <1>1, <1>2, PTL DEF Spec

(* Types: the indices stay in the ring, and every thread is where its      *)
(* operation can be.                                                       *)
THEOREM TypeCorrect == Spec => []TypeOK
<1>1. RingOK /\ ThreadsOK => TypeOK
  BY DEF RingOK, BufOK, ThreadsOK, TypeOK
<1> QED BY <1>1, Invariants, PTL

(* No slot keeps a datum that was taken, and no datum sits in a free slot. *)
THEOREM SlotsReleased == Spec => []FreeSlotsReleased
<1>1. RingOK => FreeSlotsReleased
  BY DEF RingOK, BufOK, FreeSlotsReleased
<1> QED BY <1>1, Invariants, PTL

(* However many threads call whatever operations, what was pushed comes    *)
(* out once and in order.                                                  *)
THEOREM FirstInFirstOut == Spec => []NothingLostOrReordered
<1>1. RingOK => NothingLostOrReordered
  BY DEF RingOK
<1> QED BY <1>1, Invariants, PTL

(* The ring with its locks and waits implements the bounded queue. *)
THEOREM RefinesBoundedFifo == Spec => ImplementsBoundedFifo
<1>1. Init => Fifo!Init
  BY RingOKInit DEF Fifo!Init
<1>2. RingOK /\ ThreadsOK /\ [Next]_vars => [Fifo!Next]_(Contents(buf))
  BY RingOKStep
<1> QED BY <1>1, <1>2, Invariants, PTL DEF Spec, Fifo!Spec, ImplementsBoundedFifo

(* No datum waits for a pop that waits for it. *)
LEMMA DataWakeupStep ==
  ASSUME ThreadsOK, ThreadsOK', RingOK, NoLostDataWakeup, [Next]_vars
  PROVE  NoLostDataWakeup'
<1> SUFFICES ASSUME NEW w \in Threads, pc'[w] = "not_empty", call'[w].op \notin IfOps,
                    ~Empty(buf')
             PROVE  \E t \in Threads : pc'[t] = "notify" /\ call'[t].op \in PushOps
  BY DEF NoLostDataWakeup, Waiters, PendingNotifyAll
<1>1. ASSUME pc[w] = "not_empty", call[w].op \notin IfOps, ~Empty(buf)
      PROVE  \E t \in Threads : pc[t] = "notify" /\ call[t].op \in PushOps
  BY <1>1 DEF NoLostDataWakeup, Waiters, PendingNotifyAll
<1>2. CASE UNCHANGED vars
  BY <1>1, <1>2 DEF vars, Empty
<1>3. ASSUME NEW t \in Threads, Push(t) \/ Overflow(t)
      PROVE  pc'[t] = "notify" /\ call'[t].op \in PushOps
  BY <1>3 DEF Push, Overflow, Overflows, Tests, TimedOut, Goto, ThreadsOK, PushOps
<1>4. ASSUME NEW t \in Threads, Pop(t)
      PROVE  \E u \in Threads : pc'[u] = "notify" /\ call'[u].op \in PushOps
  <2>1. pc[w] = "not_empty" /\ call[w].op \notin IfOps /\ ~Empty(buf)
    BY <1>4 DEF Pop, Goto, CanTake, ThreadsOK
  <2>2. PICK u \in Threads : pc[u] = "notify" /\ call[u].op \in PushOps
    BY <1>1, <2>1
  <2>3. u # t
    BY <1>4, <2>2 DEF Pop, Tests
  <2> QED BY <1>4, <2>2, <2>3 DEF Pop, Goto, ThreadsOK
<1>5. ASSUME NEW t \in Threads, WaitNotEmpty(t)
      PROVE  \E u \in Threads : pc'[u] = "notify" /\ call'[u].op \in PushOps
  <2>1. w # t
    BY <1>5 DEF WaitNotEmpty, CanTake, Goto, ThreadsOK
  <2>2. PICK u \in Threads : pc[u] = "notify" /\ call[u].op \in PushOps
    BY <1>1, <1>5, <2>1 DEF WaitNotEmpty, Goto, ThreadsOK
  <2>3. u # t
    BY <1>5, <2>2 DEF WaitNotEmpty, Tests
  <2> QED BY <1>5, <2>2, <2>3 DEF WaitNotEmpty, Goto, ThreadsOK
<1>6. ASSUME NEW t \in Threads, Clear(t) PROVE FALSE
  BY <1>6, CapacityAssumption DEF Clear, Cleared, Empty
<1>7. ASSUME NEW t \in Threads, NotifyAll(t) PROVE FALSE
  BY <1>7 DEF NotifyAll, ThreadsOK
<1>8. ASSUME NEW t \in Threads,
             \/ Call(t) \/ WaitNotFull(t) \/ OverflowOfEmpty(t) \/ Peek(t)
             \/ GiveUp(t) \/ NotifyOne(t) \/ TimeOut(t) \/ SpuriousWakeup(t)
      PROVE  \E u \in Threads : pc'[u] = "notify" /\ call'[u].op \in PushOps
  <2>1. /\ buf' = buf
        /\ pc[t] # "notify" \/ call[t].op \notin PushOps
        /\ \A u \in Threads \ {t} : call'[u] = call[u]
        /\ \A u \in Threads \ {t} : pc[u] = "notify" => pc'[u] = "notify"
        /\ \A u \in Threads : pc'[u] = "not_empty" => u # t /\ pc[u] = "not_empty"
    <3>1. CASE Call(t)
      BY <3>1 DEF Call, ThreadsOK
    <3>2. CASE WaitNotFull(t)
      BY <3>2 DEF WaitNotFull, Goto, Tests, ThreadsOK
    <3>3. CASE OverflowOfEmpty(t)
      BY <3>3 DEF OverflowOfEmpty, Overflows, Tests, TimedOut, ThreadsOK, PushOps, PopOps
    <3>4. CASE Peek(t)
      BY <3>4 DEF Peek, Return, Tests, ThreadsOK
    <3>5. CASE GiveUp(t)
      BY <3>5 DEF GiveUp, Return, Tests, TimedOut, ThreadsOK
    <3>6. CASE NotifyOne(t)
      BY <3>6 DEF NotifyOne, ThreadsOK, PushOps, PopOps, IfOps
    <3>7. CASE TimeOut(t)
      BY <3>7 DEF TimeOut, Goto, ThreadsOK
    <3>8. CASE SpuriousWakeup(t)
      BY <3>8 DEF SpuriousWakeup, Goto, ThreadsOK
    <3> QED BY <1>8, <3>1, <3>2, <3>3, <3>4, <3>5, <3>6, <3>7, <3>8
  <2>2. PICK u \in Threads : pc[u] = "notify" /\ call[u].op \in PushOps
    BY <1>1, <2>1
  <2> QED BY <2>1, <2>2
<1> QED BY <1>2, <1>3, <1>4, <1>5, <1>6, <1>7, <1>8 DEF Next, Runs

THEOREM NoDataWakeupLost == Spec => []NoLostDataWakeup
<1>1. Init => NoLostDataWakeup
  BY DEF Init, NoLostDataWakeup, Waiters
<1>2. (RingOK /\ ThreadsOK) /\ (RingOK /\ ThreadsOK)' /\ NoLostDataWakeup /\ [Next]_vars
        => NoLostDataWakeup'
  BY DataWakeupStep
<1> QED BY <1>1, <1>2, Invariants, PTL DEF Spec

(* The same for room and pushes.  It needs the threads to be finitely many *)
(* and none of them to call push_timeout, as in this code base: a          *)
(* push_timeout that was woken and then reports a timeout uses up a        *)
(* notification without taking the free slot it was for.                   *)
NoTimedPush ==
  /\ IsFiniteSet(Threads)
  /\ \A t \in Threads : "push_timeout" \notin Ops[t]

CallsOwnOps == \A t \in Threads : call[t].op \in Ops[t] \cup {"none"}

LEMMA CallsOwnOpsStep ==
  ASSUME ThreadsOK, CallsOwnOps, [Next]_vars
  PROVE  CallsOwnOps'
<1>1. ASSUME NEW t \in Threads, Call(t)
      PROVE  \E op \in Ops[t] : call'[t].op = op /\ \A u \in Threads \ {t} : call'[u] = call[u]
  <2>1. PICK op \in Ops[t], d \in Data \cup {NoData}, usec \in {0, 1} :
          call' = [call EXCEPT ![t] = [op |-> op, datum |-> d, usec |-> usec]]
    BY <1>1 DEF Call
  <2> QED BY <2>1 DEF ThreadsOK
<1>2. ASSUME NEW t \in Threads, Runs(t) \/ TimeOut(t) \/ SpuriousWakeup(t)
      PROVE  call' = call \/ call' = [call EXCEPT ![t] = NoCall]
  BY <1>2 DEF Runs, Push, WaitNotFull, Overflow, OverflowOfEmpty, Pop, Peek, WaitNotEmpty,
              GiveUp, Clear, NotifyAll, NotifyOne, TimeOut, SpuriousWakeup, Goto, Return
<1>3. NoCall.op = "none"
  BY DEF NoCall
<1>4. CASE UNCHANGED vars
  BY <1>4 DEF vars, CallsOwnOps
<1>5. ASSUME NEW t \in Threads, Call(t) PROVE CallsOwnOps'
  BY <1>1, <1>5 DEF CallsOwnOps
<1>6. ASSUME NEW t \in Threads, Runs(t) \/ TimeOut(t) \/ SpuriousWakeup(t) PROVE CallsOwnOps'
  BY <1>2, <1>3, <1>6 DEF CallsOwnOps, ThreadsOK
<1> QED BY <1>4, <1>5, <1>6 DEF Next

(* What a step may do to the balance of free slots and wakeups.            *)
LEMMA WakeupBalance ==
  ASSUME NEW n, NEW w, NEW nn, NEW ww, IsFiniteSet(n), IsFiniteSet(w),
         IsFiniteSet(nn), IsFiniteSet(ww), NEW k \in Nat, NEW kk \in Nat,
         k <= Cardinality(n) + Cardinality(w),
         \/ kk <= k /\ n \subseteq nn /\ w \subseteq ww
         \/ \E t : kk = k - 1 /\ n \subseteq nn /\ w \ {t} \subseteq ww
         \/ \E t : kk = k + 1 /\ t \notin n /\ n \cup {t} \subseteq nn /\ w \subseteq ww
         \/ \E t, u : kk = k /\ u \notin w /\ n \ {t} \subseteq nn /\ w \cup {u} \subseteq ww
  PROVE  kk <= Cardinality(nn) + Cardinality(ww)
<1>1. /\ Cardinality(n) \in Nat /\ Cardinality(w) \in Nat
      /\ Cardinality(nn) \in Nat /\ Cardinality(ww) \in Nat
  BY FS_CardinalityType
<1>2. CASE kk <= k /\ n \subseteq nn /\ w \subseteq ww
  <2>1. Cardinality(n) <= Cardinality(nn) /\ Cardinality(w) <= Cardinality(ww)
    BY <1>2, FS_Subset
  <2> QED BY <1>1, <1>2, <2>1
<1>3. ASSUME NEW t, kk = k - 1, n \subseteq nn, w \ {t} \subseteq ww
      PROVE  kk <= Cardinality(nn) + Cardinality(ww)
  <2>1. /\ IsFiniteSet(w \ {t})
        /\ Cardinality(w \ {t}) = IF t \in w THEN Cardinality(w) - 1 ELSE Cardinality(w)
    BY FS_RemoveElement
  <2>2. Cardinality(n) <= Cardinality(nn) /\ Cardinality(w \ {t}) <= Cardinality(ww)
    BY <1>3, <2>1, FS_Subset
  <2> QED BY <1>1, <1>3, <2>1, <2>2
<1>4. ASSUME NEW t, kk = k + 1, t \notin n, n \cup {t} \subseteq nn, w \subseteq ww
      PROVE  kk <= Cardinality(nn) + Cardinality(ww)
  <2>1. IsFiniteSet(n \cup {t}) /\ Cardinality(n \cup {t}) = Cardinality(n) + 1
    BY <1>4, FS_AddElement
  <2>2. Cardinality(n \cup {t}) <= Cardinality(nn) /\ Cardinality(w) <= Cardinality(ww)
    BY <1>4, <2>1, FS_Subset
  <2> QED BY <1>1, <1>4, <2>1, <2>2
<1>5. ASSUME NEW t, NEW u, kk = k, u \notin w, n \ {t} \subseteq nn, w \cup {u} \subseteq ww
      PROVE  kk <= Cardinality(nn) + Cardinality(ww)
  <2>1. /\ IsFiniteSet(n \ {t})
        /\ Cardinality(n \ {t}) = IF t \in n THEN Cardinality(n) - 1 ELSE Cardinality(n)
    BY FS_RemoveElement
  <2>2. IsFiniteSet(w \cup {u}) /\ Cardinality(w \cup {u}) = Cardinality(w) + 1
    BY <1>5, FS_AddElement
  <2>3. Cardinality(n \ {t}) <= Cardinality(nn) /\ Cardinality(w \cup {u}) <= Cardinality(ww)
    BY <1>5, <2>1, <2>2, FS_Subset
  <2> QED BY <1>1, <1>5, <2>1, <2>2, <2>3
<1> QED BY <1>2, <1>3, <1>4, <1>5

LEMMA SpaceWakeupStep ==
  ASSUME NoTimedPush, RingOK, RingOK', ThreadsOK, ThreadsOK', CallsOwnOps,
         NoLostSpaceWakeup, [Next]_vars
  PROVE  NoLostSpaceWakeup'
<1> DEFINE n  == PendingNotifyOne
           w  == WokenPushes
           nn == PendingNotifyOne'
           ww == WokenPushes'
           k  == Capacity - buf.size
           kk == Capacity - buf'.size
<1> SUFFICES ASSUME Waiters("not_full")' # {}
             PROVE  kk <= Cardinality(nn) + Cardinality(ww)
  BY DEF NoLostSpaceWakeup
<1>1. /\ IsFiniteSet(n) /\ IsFiniteSet(w) /\ IsFiniteSet(nn) /\ IsFiniteSet(ww)
      /\ k \in Nat /\ kk \in Nat
  <2>1. n \in SUBSET Threads /\ w \in SUBSET Threads /\ nn \in SUBSET Threads /\ ww \in SUBSET Threads
    BY DEF PendingNotifyOne, WokenPushes
  <2>2. buf.size \in 0 .. Capacity /\ buf'.size \in 0 .. Capacity
    BY DEF RingOK, BufOK
  <2> QED BY <2>1, <2>2, FS_Subset, CapacityAssumption DEF NoTimedPush
<1>2. ASSUME Waiters("not_full") # {}
      PROVE  k <= Cardinality(n) + Cardinality(w)
  BY <1>2 DEF NoLostSpaceWakeup
<1>3. \A t \in Threads : call[t].op # "push_timeout"
  BY DEF CallsOwnOps, NoTimedPush
<1>4. PushOps \cap PopOps = {} /\ "peek" \notin PushOps /\ "clear" \notin PushOps /\ "none" \notin PushOps
  BY DEF PushOps, PopOps, IfOps
<1> HIDE DEF n, w, nn, ww, k, kk
(* Steps that leave the balance as it is, or better. *)
<1>5. ASSUME Waiters("not_full") # {}, kk <= k, n \subseteq nn, w \subseteq ww
      PROVE  kk <= Cardinality(nn) + Cardinality(ww)
  BY <1>1, <1>2, <1>5, WakeupBalance
<1>6. CASE UNCHANGED vars
  <2>1. nn = n /\ ww = w /\ kk = k /\ Waiters("not_full")' = Waiters("not_full")
    BY <1>6 DEF vars, nn, ww, n, w, kk, k, PendingNotifyOne, WokenPushes, Waiters
  <2> QED BY <1>1, <1>5, <2>1
<1>7. ASSUME NEW t \in Threads,
             \/ Call(t) \/ OverflowOfEmpty(t) \/ Peek(t) \/ WaitNotEmpty(t) \/ GiveUp(t)
             \/ NotifyAll(t) \/ TimeOut(t) \/ SpuriousWakeup(t)
      PROVE  kk <= Cardinality(nn) + Cardinality(ww)
  <2>1. /\ buf' = buf
        /\ \A u \in Threads : pc'[u] = "not_full" => pc[u] = "not_full"
        /\ \A u \in Threads : pc[u] = "notify" /\ call[u].op \in PopOps
                                => pc'[u] = "notify" /\ call'[u].op \in PopOps
        /\ \A u \in Threads : pc[u] = "woken" /\ call[u].op \in PushOps
                                => pc'[u] = "woken" /\ call'[u].op \in PushOps
    <3>1. CASE Call(t)
      BY <3>1 DEF Call, ThreadsOK
    <3>2. CASE OverflowOfEmpty(t)
      BY <3>2 DEF OverflowOfEmpty
    <3>3. CASE Peek(t)
      BY <3>3, <1>4 DEF Peek, Return, Tests, ThreadsOK
    <3>4. CASE WaitNotEmpty(t)
      BY <3>4, <1>4 DEF WaitNotEmpty, Goto, Tests, ThreadsOK
    <3>5. CASE GiveUp(t)
      BY <3>5, <1>4 DEF GiveUp, Return, Tests, TimedOut, ThreadsOK
    <3>6. CASE NotifyAll(t)
      BY <3>6, <1>4 DEF NotifyAll, ThreadsOK
    <3>7. CASE TimeOut(t)
      <4>1. call[t].op \notin PushOps
        BY <3>7, <1>3 DEF TimeOut, TimedOps, PushOps
      <4> QED BY <3>7, <4>1 DEF TimeOut, Goto, ThreadsOK
    <3>8. CASE SpuriousWakeup(t)
      BY <3>8 DEF SpuriousWakeup, Goto, ThreadsOK
    <3> QED BY <1>7, <3>1, <3>2, <3>3, <3>4, <3>5, <3>6, <3>7, <3>8
  <2>2. Waiters("not_full") # {}
    BY <2>1 DEF Waiters
  <2>3. n \subseteq nn /\ w \subseteq ww /\ kk = k
    BY <2>1 DEF n, nn, w, ww, k, kk, PendingNotifyOne, WokenPushes
  <2> QED BY <1>1, <1>5, <2>2, <2>3
<1>8. ASSUME NEW t \in Threads, Push(t)
      PROVE  kk <= Cardinality(nn) + Cardinality(ww)
  <2>1. Waiters("not_full") # {}
    BY <1>8 DEF Push, Goto, Waiters, ThreadsOK
  <2>2. /\ pc' = [pc EXCEPT ![t] = "notify"] /\ call' = call
        /\ call[t].op \in PushOps /\ pc[t] # "notify"
    BY <1>8 DEF Push, Goto, Tests
  <2>3. n \subseteq nn /\ w \ {t} \subseteq ww
    BY <2>2, <1>4 DEF n, nn, w, ww, PendingNotifyOne, WokenPushes, ThreadsOK
  <2>4. kk = k - 1
    <3>1. buf'.size = buf.size + 1 /\ buf.size \in 0 .. Capacity
      BY <1>8 DEF Push, PushBack, RingOK, BufOK
    <3> QED BY <3>1, CapacityAssumption DEF k, kk
  <2>5. \E x : kk = k - 1 /\ n \subseteq nn /\ w \ {x} \subseteq ww
    BY <2>3, <2>4
  <2>6. k <= Cardinality(n) + Cardinality(w)
    BY <1>2, <2>1
  <2> QED BY <1>1, <2>5, <2>6, WakeupBalance
<1>9. ASSUME NEW t \in Threads, WaitNotFull(t)
      PROVE  kk <= Cardinality(nn) + Cardinality(ww)
  <2>1. kk = 0
    BY <1>9, CapacityAssumption DEF WaitNotFull, Full, kk
  <2>2. Cardinality(nn) \in Nat /\ Cardinality(ww) \in Nat
    BY <1>1, FS_CardinalityType
  <2> QED BY <2>1, <2>2
<1>10. ASSUME NEW t \in Threads, Overflow(t) PROVE FALSE
  BY <1>3, <1>10 DEF Overflow, Overflows, Tests, TimedOut
<1>11. ASSUME NEW t \in Threads, Pop(t)
       PROVE  kk <= Cardinality(nn) + Cardinality(ww)
  <2>1. /\ pc' = [pc EXCEPT ![t] = "notify"] /\ call' = call
        /\ call[t].op \in PopOps /\ pc[t] # "notify"
    BY <1>11 DEF Pop, Goto, Tests
  <2>2. Waiters("not_full") # {}
    BY <2>1 DEF Waiters, ThreadsOK
  <2>3. t \notin n /\ n \cup {t} \subseteq nn /\ w \subseteq ww
    BY <2>1, <1>4 DEF n, nn, w, ww, PendingNotifyOne, WokenPushes, ThreadsOK
  <2>4. kk = k + 1
    <3>1. buf'.size = buf.size - 1 /\ buf.size \in 0 .. Capacity
      BY <1>11 DEF Pop, PopFront, RingOK, BufOK
    <3> QED BY <3>1, CapacityAssumption DEF k, kk
  <2> QED BY <1>1, <1>2, <2>2, <2>3, <2>4, WakeupBalance
<1>12. ASSUME NEW t \in Threads, Clear(t) PROVE FALSE
  BY <1>12 DEF Clear, Waiters
<1>13. ASSUME NEW t \in Threads, NotifyOne(t)
       PROVE  kk <= Cardinality(nn) + Cardinality(ww)
  <2>1. /\ call' = [call EXCEPT ![t] = NoCall] /\ buf' = buf
        /\ pc[t] = "notify" /\ call[t].op \in PopOps
    BY <1>13 DEF NotifyOne
  <2>2. ASSUME NEW u \in Threads, pc[u] = "not_full",
               pc' = [pc EXCEPT ![t] = "out", ![u] = "woken"]
        PROVE  kk <= Cardinality(nn) + Cardinality(ww)
    <3>1. Waiters("not_full") # {} /\ u # t /\ call[u].op \in PushOps
      BY <2>1, <2>2 DEF Waiters, ThreadsOK
    <3>2. u \notin w /\ n \ {t} \subseteq nn /\ w \cup {u} \subseteq ww
      BY <2>1, <2>2, <3>1, <1>4 DEF n, nn, w, ww, PendingNotifyOne, WokenPushes, ThreadsOK
    <3>3. kk = k
      BY <2>1 DEF k, kk
    <3>4. \E x, y : kk = k /\ y \notin w /\ n \ {x} \subseteq nn /\ w \cup {y} \subseteq ww
      BY <3>2, <3>3
    <3>5. k <= Cardinality(n) + Cardinality(w)
      BY <1>2, <3>1
    <3> QED BY <1>1, <3>4, <3>5, WakeupBalance
  <2>3. ASSUME \A u \in Threads : pc[u] # "not_full", pc' = [pc EXCEPT ![t] = "out"]
        PROVE  FALSE
    BY <2>3 DEF Waiters, ThreadsOK
  <2>4. \/ (\A u \in Threads : pc[u] # "not_full") /\ pc' = [pc EXCEPT ![t] = "out"]
        \/ \E u \in Threads : pc[u] = "not_full" /\ pc' = [pc EXCEPT ![t] = "out", ![u] = "woken"]
    BY <1>13 DEF NotifyOne
  <2> QED BY <2>2, <2>3, <2>4
<1> QED BY <1>6, <1>7, <1>8, <1>9, <1>10, <1>11, <1>12, <1>13 DEF Next, Runs

THEOREM NoSpaceWakeupLost ==
  ASSUME NoTimedPush
  PROVE  Spec => []NoLostSpaceWakeup
<1>1. Init => CallsOwnOps /\ NoLostSpaceWakeup
  BY NoCallFacts DEF Init, CallsOwnOps, NoLostSpaceWakeup, Waiters
<1>2. ThreadsOK /\ CallsOwnOps /\ [Next]_vars => CallsOwnOps'
  BY CallsOwnOpsStep
<1>3. (RingOK /\ ThreadsOK) /\ (RingOK /\ ThreadsOK)' /\ CallsOwnOps
        /\ NoLostSpaceWakeup /\ [Next]_vars => NoLostSpaceWakeup'
  BY SpaceWakeupStep
<1> QED BY <1>1, <1>2, <1>3, Invariants, PTL DEF Spec
=============================================================================
