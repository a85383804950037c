----------------------------- MODULE Bitstream -----------------------------
(***************************************************************************)
(* The bit strings that util/src/BitstreamPacker.cpp writes and            *)
(* util/src/BitstreamUnpacker.cpp reads: fields of so many bits, the most  *)
(* significant bit first, and numbers of several bytes.  A packet is a     *)
(* sequence of bits whose length is a multiple of eight.                   *)
(*                                                                         *)
(* A reader is a record of the bits, of how many of them were read, of the *)
(* value read last and of whether every CHECK held so far.                 *)
(***************************************************************************)
EXTENDS Integers, Sequences, SequencesExt

BitsPerByte == 8

(* BitstreamPacker::u, which cuts the value to the width. *)
Bits(n, value) == [i \in 1 .. n |-> (value \div 2 ^ (n - i)) % 2]

(* BitstreamPacker::finish and the alignment loops: zeros up to a byte. *)
Padding(n) == (BitsPerByte - (n % BitsPerByte)) % BitsPerByte

Aligned(bits) == bits \o Bits(Padding(Len(bits)), 0)

Bytes(bytes) == FlattenSeq([i \in DOMAIN bytes |-> Bits(BitsPerByte, bytes[i])])

SizeInBytes(bits) == Len(bits) \div BitsPerByte

(* write_multibyte: groups of seven bits, all but the last marked "more". *)
Multibyte(value) ==
  LET Groups[v \in Nat, more \in 0 .. 1] ==
        (IF v > 127 THEN Groups[v \div 128, 1] ELSE <<>>) \o Bits(1, more) \o Bits(7, v)
  IN  Groups[value, 0]

-----------------------------------------------------------------------------
Reader(bits) == [bits |-> bits, at |-> 0, value |-> 0, ok |-> TRUE]

HasMore(r) == r.ok /\ r.at < Len(r.bits)

(* A CHECK of the reader's code. *)
Check(r, holds) == [r EXCEPT !.ok = @ /\ holds]

(* BitstreamUnpacker::u.  To read beyond the end is an assertion. *)
Read(r, n) ==
  LET ValueOf[i \in 0 .. n] == IF i = 0 THEN 0 ELSE 2 * ValueOf[i - 1] + r.bits[r.at + i]
  IN  IF r.at + n > Len(r.bits) THEN Check(r, FALSE)
      ELSE [r EXCEPT !.at = @ + n, !.value = ValueOf[n]]

(* read_multibyte *)
RECURSIVE ReadGroups(_, _)
ReadGroups(r, result) ==
  LET g   == Read(r, BitsPerByte)
      sum == 128 * result + (g.value % 128)
  IN  IF g.ok /\ g.value > 127 THEN ReadGroups(g, sum) ELSE [g EXCEPT !.value = sum]

ReadMultibyte(r) == ReadGroups(r, 0)

(* The loop "while (b.bit_offset() % 8 != 0) CHECK(b.u(1) == 0)". *)
ReadAlignment(r) ==
  LET a == Read(r, Padding(r.at))
  IN  IF Padding(r.at) = 0 THEN r ELSE Check(a, a.value = 0)

(* BitstreamUnpacker::bytes: the bits of the next so many bytes, and what  *)
(* is left of the reader.                                                  *)
NextBytes(r, n) == SubSeq(r.bits, r.at + 1, r.at + BitsPerByte * n)
AfterBytes(r, n) ==
  Check([r EXCEPT !.at = @ + BitsPerByte * n], r.at + BitsPerByte * n <= Len(r.bits))
=============================================================================
