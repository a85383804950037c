------------------------------ MODULE BaseNal ------------------------------
(***************************************************************************)
(* What the parsers of base NAL units share (src/uBaseDecoder.h/.cpp).     *)
(* The bits of a NAL unit are not modelled: it is a record of its header   *)
(* and its syntax elements, and "to read" an element is to take it from    *)
(* the record, under the conditions under which the parser reads it.  What *)
(* the parser does not read keeps the value it had before.                 *)
(***************************************************************************)
EXTENDS Integers, Sequences

CONSTANTS MaxSPSCount, MaxPPSCount,  \* the parameter sets that a parser has room for
          Word                       \* 2^32, the range of uint32_t

NoSPS == -1   \* m_activeSPS before the first

SliceTypes == {"I", "P", "B", "Unknown"}

Wrapped(n) == n % Word

(* A parser that throws; ESFile gives up the stream and its state with it. *)
Thrown(parser) == [parser EXCEPT !.thrown = TRUE]

(* The high part of a picture order count, of which the stream holds only  *)
(* the remainder by max: the one that brings it nearest to the previous.   *)
PicOrderCntMsb(lsb, prev, max) ==
  IF lsb < prev.lsb /\ prev.lsb - lsb >= max \div 2 THEN Wrapped(prev.msb + max)
  ELSE IF lsb > prev.lsb /\ lsb - prev.lsb > max \div 2 THEN Wrapped(prev.msb - max)
  ELSE prev.msb
=============================================================================
