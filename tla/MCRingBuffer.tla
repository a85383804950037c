---------------------------- MODULE MCRingBuffer ----------------------------
(* Small instances of RingBuffer for TLC. *)
EXTENDS RingBuffer, TLC

CONSTANTS p1, p2, c1, c2, d1, d2

(* Two pushing threads that can both wait, against a consumer that pops    *)
(* and one that pops conditionally or clears.                              *)
Mixed ==
  [t \in {p1, p2} |-> {"push"}] @@ (c1 :> {"pop_if", "clear"}) @@ (c2 :> {"pop"})

(* Every operation, from any thread. *)
Everything == [t \in {p1, p2, c1} |-> AllOps]

(* One producer with the timed push, and a consumer. *)
TimedPushAndPop == (p1 :> {"push", "push_timeout"}) @@ (c1 :> {"pop"})

(* Two consumers, one that waits for a certain datum. *)
PopIfAndPop == (p1 :> {"push"}) @@ (c1 :> {"pop_if"}) @@ (c2 :> {"pop"})

WantsFirst == [t \in Threads |-> {d1}]
=============================================================================
