--------------------------- MODULE MCBaseDecoder ---------------------------
(* Small instances of BaseDecoder for TLC. *)
EXTENDS BaseDecoder

Reordering(n) ==
  {o \in UNION {SetToSeqs(0 .. k - 1) : k \in 1 .. n} :
     \A i \in DOMAIN o : Cardinality({j \in 1 .. i : o[j] > o[i]}) <= 2}

Hevc(start, orders) ==
  [codec |-> "HEVC", start |-> start, orders |-> orders,
   sps |-> [chroma |-> 1, separate |-> FALSE, width |-> 32, height |-> 32, depth |-> 10,
            log2MaxLsb |-> 4, cropping |-> FALSE, crop |-> <<>>],
   pps |-> [tiles |-> FALSE, dependentSlices |-> FALSE],
   size |-> [width |-> 32, height |-> 32, depth |-> 10, chroma |-> 1],
   unreadable |-> start # 0, bReferences |-> start = 0]

(* Up to three pictures in any order, a pyramid I P B b b and one whose    *)
(* random access point is displayed third; and a stream that was cut out   *)
(* of a longer one, in which the low part of the count wraps.              *)
TwoStreams ==
  <<Hevc(0, Reordering(3) \cup {<<0, 4, 2, 1, 3>>, <<2, 0, 1, 4, 3>>}),
    Hevc(10, {<<0>>, <<0, 4, 2, 1, 3>>, <<2, 1, 0, 3>>})>>
=============================================================================
