----------------------------- MODULE RingBuffer -----------------------------
(***************************************************************************)
(* util/include/RingBuffer.hpp: the fixed-size queue through which the     *)
(* decoder thread of every base codec hands pictures to the thread that    *)
(* pulls them.  One mutex guards the ring, and two condition variables     *)
(* (not_empty_, not_full_) hold the threads that wait.                     *)
(*                                                                         *)
(* Everything between taking mutex_ and releasing it (by unlock, by the    *)
(* destructor of the lock or by waiting) is one step.  The notification    *)
(* of push and of the pops comes after lock.unlock(), so it is a step of   *)
(* its own, and other threads run in between.                              *)
(***************************************************************************)
EXTENDS Naturals, Sequences, FiniteSets

CONSTANTS Threads,    \* the threads that share the ring
          Capacity,   \* capacity_
          Data,       \* what can be pushed
          NoData,     \* a default-constructed T: the content of a free slot
          Ops,        \* Ops[t]: the member functions thread t calls
          Wanted,     \* Wanted[t]: what the predicate of t's pop_if accepts
          MaxPushes   \* bound: no push is called once this many were accepted

PushOps   == {"push", "push_timeout"}
IfOps     == {"pop_if", "pop_if_timeout"}
PopOps    == {"pop", "pop_timeout"} \cup IfOps
TimedOps  == {"push_timeout", "pop_timeout", "pop_if_timeout"}
AllOps    == PushOps \cup PopOps \cup {"peek", "clear"}

ASSUME CapacityAssumption == Capacity \in Nat \ {0}
ASSUME DataAssumption == NoData \notin Data
ASSUME OpsAssumption == Ops \in [Threads -> SUBSET AllOps]
ASSUME WantedAssumption == Wanted \in [Threads -> SUBSET Data]

VARIABLES buf,       \* [ring, front, size]: ring_, front_ and size_
          pc,        \* where each thread is in its call
          call,      \* the operation, argument and patience of that call
          accepted,  \* history: all data stored in the ring, in order
          removed,   \* history: all data taken out of the ring, in order
          failed     \* an assert of the ring primitives has failed

vars == <<buf, pc, call, accepted, removed, failed>>

Slots == 0 .. Capacity - 1

NoCall == [op |-> "none", datum |-> NoData, usec |-> 0]

-----------------------------------------------------------------------------
(* The ring primitives.                                                    *)

(* Faulty variant of Full: the ring takes one datum too many. *)
FullTooLate(b) == b.size > Capacity

Full(b) == b.size = Capacity

Empty(b) == b.size = 0

(* Faulty variant of Wrap: the index one past the end is left as it is. *)
WrapTooLate(i) == IF i > Capacity THEN i - Capacity ELSE i

(* An index that has run past the end wraps by subtracting the capacity. *)
Wrap(i) == IF i >= Capacity THEN i - Capacity ELSE i

FrontDatum(b) == b.ring[b.front]

(* Faulty variant of PopFront: the slot keeps its datum. *)
PopFrontKeepingDatum(b) ==
  [b EXCEPT !.front = Wrap(b.front + 1), !.size = b.size - 1]

PopFront(b) ==
  [ring  |-> [b.ring EXCEPT ![b.front] = NoData],
   front |-> Wrap(b.front + 1),
   size  |-> b.size - 1]

(* Faulty variant of PushBack: the back slot is counted from slot 0. *)
PushBackFromZero(b, d) ==
  [b EXCEPT !.ring[b.size] = d, !.size = b.size + 1]

PushBack(b, d) ==
  [ring  |-> [b.ring EXCEPT ![Wrap(b.front + b.size)] = d],
   front |-> b.front,
   size  |-> b.size + 1]

(* ring_clear pops until the ring is empty. *)
Occupied(b) == {Wrap(b.front + i) : i \in 0 .. b.size - 1}
Cleared(b) ==
  [ring  |-> [i \in Slots |-> IF i \in Occupied(b) THEN NoData ELSE b.ring[i]],
   front |-> Wrap(b.front + b.size),
   size  |-> 0]

(* The data in the ring, the oldest first. *)
Contents(b) == [i \in 1 .. b.size |-> b.ring[Wrap(b.front + i - 1)]]

-----------------------------------------------------------------------------
Init ==
  /\ buf = [ring |-> [i \in Slots |-> NoData], front |-> 0, size |-> 0]
  /\ pc = [t \in Threads |-> "out"]
  /\ call = [t \in Threads |-> NoCall]
  /\ accepted = <<>>
  /\ removed = <<>>
  /\ failed = FALSE

(* A thread about to hold mutex_ and to test its condition: it has just    *)
(* called the operation, or it was woken from a wait.                      *)
Tests(t, ops) ==
  /\ ~failed
  /\ pc[t] \in {"called", "woken"}
  /\ call[t].op \in ops

(* wait_for has reported a timeout and the thread holds mutex_ again. *)
TimedOut(t, ops) ==
  /\ ~failed
  /\ pc[t] = "timed_out"
  /\ call[t].op \in ops

(* Whether an unmet condition makes the caller wait: a timed operation     *)
(* called with usec = 0 never does.                                        *)
MayWait(t) == call[t].op \in TimedOps => call[t].usec > 0

CanTake(t) ==
  /\ ~Empty(buf)
  /\ call[t].op \in IfOps => FrontDatum(buf) \in Wanted[t]

Goto(t, where) == pc' = [pc EXCEPT ![t] = where] /\ UNCHANGED call
Return(t) ==
  /\ pc' = [pc EXCEPT ![t] = "out"]
  /\ call' = [call EXCEPT ![t] = NoCall]

(* A thread calls a member function. *)
Call(t) ==
  /\ ~failed
  /\ pc[t] = "out"
  /\ \E op \in Ops[t], d \in Data \cup {NoData}, usec \in {0, 1} :
       /\ (op \in PushOps) <=> (d # NoData)
       /\ op \notin TimedOps => usec = 0
       /\ op \in PushOps => Len(accepted) < MaxPushes
       /\ call' = [call EXCEPT ![t] = [op |-> op, datum |-> d, usec |-> usec]]
  /\ pc' = [pc EXCEPT ![t] = "called"]
  /\ UNCHANGED <<buf, accepted, removed, failed>>

(* push and push_timeout find room. *)
Push(t) ==
  /\ Tests(t, PushOps)
  /\ ~Full(buf)
  /\ buf' = PushBack(buf, call[t].datum)
  /\ accepted' = Append(accepted, call[t].datum)
  /\ Goto(t, "notify")
  /\ UNCHANGED <<removed, failed>>

WaitNotFull(t) ==
  /\ Tests(t, PushOps)
  /\ Full(buf)
  /\ MayWait(t)
  /\ Goto(t, "not_full")
  /\ UNCHANGED <<buf, accepted, removed, failed>>

(* push_timeout drops the front: at once when usec = 0 and the ring is     *)
(* full, and after a timeout whatever the ring holds by then, because the  *)
(* loop is left without another test of ring_full().                       *)
Overflows(t) ==
  \/ Tests(t, {"push_timeout"}) /\ Full(buf) /\ ~MayWait(t)
  \/ TimedOut(t, {"push_timeout"})

Overflow(t) ==
  /\ Overflows(t)
  /\ ~Empty(buf)
  /\ buf' = PushBack(PopFront(buf), call[t].datum)
  /\ removed' = Append(removed, FrontDatum(buf))
  /\ accepted' = Append(accepted, call[t].datum)
  /\ Goto(t, "notify")
  /\ UNCHANGED failed

(* ring_front() and ring_pop_front() assert(size_ > 0). *)
OverflowOfEmpty(t) ==
  /\ Overflows(t)
  /\ Empty(buf)
  /\ failed' = TRUE
  /\ UNCHANGED <<buf, pc, call, accepted, removed>>

(* The four pops take the front. *)
Pop(t) ==
  /\ Tests(t, PopOps)
  /\ CanTake(t)
  /\ buf' = PopFront(buf)
  /\ removed' = Append(removed, FrontDatum(buf))
  /\ Goto(t, "notify")
  /\ UNCHANGED <<accepted, failed>>

Peek(t) ==
  /\ Tests(t, {"peek"})
  /\ ~Empty(buf)
  /\ Return(t)
  /\ UNCHANGED <<buf, accepted, removed, failed>>

WaitNotEmpty(t) ==
  /\ Tests(t, PopOps \cup {"peek"})
  /\ ~CanTake(t)
  /\ MayWait(t)
  /\ Goto(t, "not_empty")
  /\ UNCHANGED <<buf, accepted, removed, failed>>

(* A timed pop returns false: at once when usec = 0, or on a timeout. *)
GiveUp(t) ==
  /\ \/ Tests(t, PopOps) /\ ~CanTake(t) /\ ~MayWait(t)
     \/ TimedOut(t, PopOps)
  /\ Return(t)
  /\ UNCHANGED <<buf, accepted, removed, failed>>

(* Faulty variant of Clear: the waiting pushes are not told of the room. *)
ClearSilently(t) ==
  /\ Tests(t, {"clear"})
  /\ buf' = Cleared(buf)
  /\ removed' = removed \o Contents(buf)
  /\ Return(t)
  /\ UNCHANGED <<accepted, failed>>

(* clear wakes the waiting pushes while it still holds mutex_. *)
Clear(t) ==
  /\ Tests(t, {"clear"})
  /\ buf' = Cleared(buf)
  /\ removed' = removed \o Contents(buf)
  /\ pc' = [u \in Threads |-> IF u = t THEN "out"
                              ELSE IF pc[u] = "not_full" THEN "woken" ELSE pc[u]]
  /\ call' = [call EXCEPT ![t] = NoCall]
  /\ UNCHANGED <<accepted, failed>>

(* Faulty variant of NotifyAll: a push wakes one waiter only. *)
NotifyOneReader(t) ==
  /\ ~failed
  /\ pc[t] = "notify" /\ call[t].op \in PushOps
  /\ LET waiting == {u \in Threads : pc[u] = "not_empty"}
     IN  \/ /\ waiting = {}
            /\ pc' = [pc EXCEPT ![t] = "out"]
         \/ \E u \in waiting : pc' = [pc EXCEPT ![t] = "out", ![u] = "woken"]
  /\ call' = [call EXCEPT ![t] = NoCall]
  /\ UNCHANGED <<buf, accepted, removed, failed>>

(* not_empty_.notify_all() after a push. *)
NotifyAll(t) ==
  /\ ~failed
  /\ pc[t] = "notify" /\ call[t].op \in PushOps
  /\ pc' = [u \in Threads |-> IF u = t THEN "out"
                              ELSE IF pc[u] = "not_empty" THEN "woken" ELSE pc[u]]
  /\ call' = [call EXCEPT ![t] = NoCall]
  /\ UNCHANGED <<buf, accepted, removed, failed>>

(* Faulty variant of NotifyOne: a pop tells nobody. *)
NotifyNobody(t) ==
  /\ ~failed
  /\ pc[t] = "notify" /\ call[t].op \in PopOps
  /\ Return(t)
  /\ UNCHANGED <<buf, accepted, removed, failed>>

(* not_full_.notify_one() after a pop: one waiter, if there is any. *)
NotifyOne(t) ==
  /\ ~failed
  /\ pc[t] = "notify" /\ call[t].op \in PopOps
  /\ LET waiting == {u \in Threads : pc[u] = "not_full"}
     IN  \/ /\ waiting = {}
            /\ pc' = [pc EXCEPT ![t] = "out"]
         \/ \E u \in waiting : pc' = [pc EXCEPT ![t] = "out", ![u] = "woken"]
  /\ call' = [call EXCEPT ![t] = NoCall]
  /\ UNCHANGED <<buf, accepted, removed, failed>>

(* wait_for reports a timeout whenever its time is over, also to a thread  *)
(* that a notification has woken.                                          *)
TimeOut(t) ==
  /\ ~failed
  /\ pc[t] \in {"not_empty", "not_full", "woken"}
  /\ call[t].op \in TimedOps
  /\ Goto(t, "timed_out")
  /\ UNCHANGED <<buf, accepted, removed, failed>>

(* A condition variable may wake a waiter that nobody notified. *)
SpuriousWakeup(t) ==
  /\ ~failed
  /\ pc[t] \in {"not_empty", "not_full"}
  /\ Goto(t, "woken")
  /\ UNCHANGED <<buf, accepted, removed, failed>>

(* The steps a thread takes by itself once it is in a call. *)
Runs(t) ==
  \/ Push(t) \/ WaitNotFull(t) \/ Overflow(t) \/ OverflowOfEmpty(t)
  \/ Pop(t) \/ Peek(t) \/ WaitNotEmpty(t) \/ GiveUp(t) \/ Clear(t)
  \/ NotifyAll(t) \/ NotifyOne(t)

Next == \E t \in Threads : Call(t) \/ Runs(t) \/ TimeOut(t) \/ SpuriousWakeup(t)

Spec == Init /\ [][Next]_vars

(* The scheduler runs every thread that is not waiting; nothing makes a    *)
(* thread call an operation, and nothing makes a wait end by itself.       *)
FairSpec == Spec /\ \A t \in Threads : WF_vars(Runs(t))

-----------------------------------------------------------------------------
Calls == [op : AllOps \cup {"none"}, datum : Data \cup {NoData}, usec : {0, 1}]

(* The ring is well indexed, and each thread is where its operation can    *)
(* be: waiting on the condition variable its operation waits on.           *)
TypeOK ==
  /\ buf \in [ring : [Slots -> Data \cup {NoData}], front : Slots, size : 0 .. Capacity]
  /\ pc \in [Threads -> {"out", "called", "not_empty", "not_full", "woken",
                         "timed_out", "notify"}]
  /\ call \in [Threads -> Calls]
  /\ \A t \in Threads :
       /\ call[t].op = "none" <=> pc[t] = "out"
       /\ call[t].op \in PushOps <=> call[t].datum \in Data
       /\ pc[t] = "not_full" => call[t].op \in PushOps
       /\ pc[t] = "not_empty" => call[t].op \in PopOps \cup {"peek"}
       /\ pc[t] = "timed_out" => call[t].op \in TimedOps
       /\ pc[t] = "notify" => call[t].op \in PushOps \cup PopOps
  /\ accepted \in Seq(Data)
  /\ removed \in Seq(Data)
  /\ failed \in BOOLEAN

(* Every free slot is default-constructed: no datum (a shared pointer to a *)
(* picture, in the codecs) is kept alive by a slot that was popped.        *)
FreeSlotsReleased ==
  \A i \in Slots : buf.ring[i] # NoData <=> i \in Occupied(buf)

(* Nothing that was pushed is lost, duplicated or reordered, however the   *)
(* calls interleave: what left the ring, then what is in it, is exactly    *)
(* what entered it, in that order.                                         *)
NothingLostOrReordered == accepted = removed \o Contents(buf)

Waiters(cv) == {t \in Threads : pc[t] = cv}
PendingNotifyAll == {t \in Threads : pc[t] = "notify" /\ call[t].op \in PushOps}
PendingNotifyOne == {t \in Threads : pc[t] = "notify" /\ call[t].op \in PopOps}
WokenPushes == {t \in Threads : pc[t] = "woken" /\ call[t].op \in PushOps}

(* A waiting push is never forgotten: while one waits, every free slot is  *)
(* matched by a pop that has still to notify or by a push already woken    *)
(* that will take it.                                                      *)
NoLostSpaceWakeup ==
  Waiters("not_full") # {} =>
    Capacity - buf.size <= Cardinality(PendingNotifyOne) + Cardinality(WokenPushes)

(* A pop or a peek never waits on a ring that has a datum unless a push    *)
(* has still to notify it.                                                 *)
NoLostDataWakeup ==
  (\E t \in Waiters("not_empty") : call[t].op \notin IfOps) /\ ~Empty(buf)
    => PendingNotifyAll # {}

(* The ring's slots and indices are a bounded queue.                       *)
Fifo == INSTANCE BoundedFifo WITH queue <- Contents(buf)
ImplementsBoundedFifo == Fifo!Spec

(* A push that waits although there is room goes on, or the room is taken. *)
SpaceReachesPush ==
  \A t \in Threads :
    (pc[t] = "not_full" /\ ~Full(buf)) ~> (pc[t] # "not_full" \/ Full(buf))

(* A pop that waits although there is a datum goes on, or it is taken. *)
DataReachesPop ==
  \A t \in Threads :
    (pc[t] = "not_empty" /\ call[t].op \notin IfOps /\ ~Empty(buf))
      ~> (pc[t] # "not_empty" \/ Empty(buf))

(* The same promise to pop_if: a waiting pop_if whose predicate holds for  *)
(* the front goes on, or the front changes.                                *)
DataReachesPopIf ==
  \A t \in Threads :
    (pc[t] = "not_empty" /\ call[t].op \in IfOps /\ CanTake(t))
      ~> ~(pc[t] = "not_empty" /\ CanTake(t))

(* assert(size_ > 0) in ring_front and ring_pop_front. *)
AssertionsHold == ~failed
=============================================================================
