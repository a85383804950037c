---------------------------- MODULE BoundedFifo ----------------------------
(***************************************************************************)
(* What util/include/RingBuffer.hpp promises its users: a first-in         *)
(* first-out queue of at most Capacity data that threads fill and empty    *)
(* one datum at a time.  There is no ring, no lock and no waiting here; a  *)
(* call that waits is a step that has not been taken yet.                  *)
(***************************************************************************)
EXTENDS Naturals, Sequences

CONSTANTS Data,      \* what can be queued
          Capacity   \* the capacity given to the constructor

VARIABLE queue       \* the queued data, the oldest first

(* The constructor: an empty ring of the given capacity. *)
Init == queue = <<>>

(* push, and the common case of push_timeout. *)
Put(d) ==
  /\ Len(queue) < Capacity
  /\ queue' = Append(queue, d)

(* push_timeout that gives up its oldest datum to make room for the new one. *)
PutDroppingOldest(d) ==
  /\ queue # <<>>
  /\ queue' = Append(Tail(queue), d)

(* pop, pop_timeout, pop_if and pop_if_timeout when they return a datum. *)
Take ==
  /\ queue # <<>>
  /\ queue' = Tail(queue)

(* clear. *)
TakeAll == queue' = <<>>

Next ==
  \/ \E d \in Data : Put(d) \/ PutDroppingOldest(d)
  \/ Take
  \/ TakeAll

Spec == Init /\ [][Next]_queue
=============================================================================
