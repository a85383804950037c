------------------------------ MODULE Huffman ------------------------------
(***************************************************************************)
(* The prefix codes of a chunk's symbols (encoder/src/HuffmanEncoder.cpp,  *)
(* decoder/src/HuffmanDecoder.cpp).  The encoder sends which symbols it    *)
(* uses and how long their codes are; both sides derive the codes from     *)
(* this.  A table is a sequence of codes, shorter ones first.  Bits are    *)
(* sequences of 0 and 1, and a position is that of the next bit to read.   *)
(***************************************************************************)
EXTENDS Integers, Sequences, FiniteSets

CONSTANTS SymbolBits,   \* 8: the bits of a symbol, which are a byte when written raw
          LengthBits,   \* 5: the bits of a code length, and of the number of codes
          MaxListed     \* 31: longer tables are written as bitmaps

ASSUME HuffmanAssumption ==
  /\ SymbolBits \in Nat \ {0}
  /\ LengthBits \in 1 .. 5 /\ LengthBits <= SymbolBits
  /\ MaxListed \in 1 .. 2^LengthBits - 1

MAX_SYMBOL == 2^SymbolBits
NoLength == 2^LengthBits - 1

(* What is used of powers. *)
ASSUME PowersOfTwo ==
  /\ NoLength \in Nat /\ 2^0 = 1
  /\ \A n \in 0 .. SymbolBits + NoLength : 2^n \in Nat \ {0} /\ 2^(n + 1) = 2 * 2^n

(* BitstreamPacker::u and BitstreamUnpacker::u: n bits, the highest first. *)
Unsigned(n, v) == [i \in 1 .. n |-> (v \div 2^(n - i)) % 2]

ValueAt(bits, p, n) ==
  LET Value[i \in 0 .. n] == IF i = 0 THEN 0 ELSE 2 * Value[i - 1] + bits[p + i - 1]
  IN  Value[n]

(* Part(first) \o ... \o Part(last) *)
Joined(first, last, Part(_)) ==
  LET Join[i \in (first - 1) .. last] == IF i < first THEN <<>> ELSE Join[i - 1] \o Part(i)
  IN  Join[last]

-----------------------------------------------------------------------------
(* HuffmanEncoderBuilder.  A loop is a recursive function of its state.    *)

Symbols == 0 .. MAX_SYMBOL - 1

Nodes == [number : Nat, count : Nat, lengths : SUBSET [symbol : Symbols, bits : Nat]]

(* The symbols that have been counted (add_symbol).  A node has the        *)
(* symbols of the leaves under it, and how far down they are.              *)
Leaves(counts) ==
  {[number |-> s, count |-> counts[s], lengths |-> {[symbol |-> s, bits |-> 0]}] :
     s \in {r \in Symbols : counts[r] > 0}}

(* The top of the heap: among the rarest nodes the one with the highest    *)
(* number, so that of two a node made later is taken earlier.              *)
Top(heap) ==
  CHOOSE n \in heap : \A m \in heap : n.count < m.count \/ (n.count = m.count /\ n.number >= m.number)

Combined(heap, l, r) ==
  [number |-> 3 * MAX_SYMBOL - Cardinality(heap), count |-> l.count + r.count,
   lengths |-> {[symbol |-> c.symbol, bits |-> c.bits + 1] : c \in l.lengths \cup r.lengths}]

(* "While there is more than 1 pending node: take 2 smallest by frequency  *)
(* and combine them to make a new internal node".                          *)
Merged[heap \in SUBSET Nodes] ==
  IF Cardinality(heap) <= 1 THEN heap
  ELSE LET l == Top(heap)
           r == Top(heap \ {l})
       IN  (heap \ {l, r}) \cup {Combined(heap, l, r)}

CodeLengths(counts) ==
  LET number == Cardinality(Leaves(counts))
      Heap[k \in 0 .. number] == IF k = 0 THEN Leaves(counts) ELSE Merged[Heap[k - 1]]
  IN  UNION {n.lengths : n \in Heap[number]}

-----------------------------------------------------------------------------
(* Canonical codes: "Sort leaf nodes by (decending coded length, ascending *)
(* symbol)" and number them in this order, from the back of the table.     *)

Lengths == [symbol : Symbols, bits : 0 .. NoLength]
Codes == [symbol : Symbols, bits : 0 .. NoLength, value : Nat]

Longest(lengths) ==
  CHOOSE c \in lengths : \A d \in lengths : c.bits > d.bits \/ (c.bits = d.bits /\ c.symbol <= d.symbol)

(* Faulty variant of NextValue: nothing is shifted out when codes get shorter. *)
NextValueUnshifted(table, bits) == IF table = <<>> THEN 0 ELSE Head(table).value + 1

NextValue(table, bits) ==
  IF table = <<>> THEN 0 ELSE (Head(table).value + 1) \div 2^(Head(table).bits - bits)

(* What is left of the leaves, and the table so far. *)
Numberings == [left : SUBSET Lengths, table : Seq(Codes)]

(* The longest of the codes that are left is the next one. *)
WithNext[t \in Numberings] ==
  LET c == Longest(t.left)
  IN  [left |-> t.left \ {c},
       table |-> <<[symbol |-> c.symbol, bits |-> c.bits, value |-> NextValue(t.table, c.bits)]>> \o t.table]

Canonical(lengths) ==
  LET number == Cardinality(lengths)
      Numbered[k \in 0 .. number] ==
        IF k = 0 THEN [left |-> lengths, table |-> <<>>] ELSE WithNext[Numbered[k - 1]]
  IN  Numbered[number].table

(* HuffmanEncoderBuilder::finish *)
EncoderTable(counts) == Canonical(CodeLengths(counts))

-----------------------------------------------------------------------------
(* HuffmanEncoder.                                                         *)

bit_width(n) ==
  IF n < 2 THEN 1 ELSE IF n < 4 THEN 2 ELSE IF n < 8 THEN 3 ELSE IF n < 16 THEN 4 ELSE 5

CodeOf(table, s) == CHOOSE c \in {table[k] : k \in DOMAIN table} : c.symbol = s

WrittenBitmap(table, min, width) ==
  Joined(1, MAX_SYMBOL, LAMBDA i :
    IF \E k \in DOMAIN table : table[k].symbol = i - 1
      THEN <<1>> \o Unsigned(width, CodeOf(table, i - 1).bits - min)
      ELSE <<0>>)

WrittenList(table, min, width) ==
  Unsigned(LengthBits, Len(table))
    \o Joined(1, Len(table), LAMBDA k :
         Unsigned(SymbolBits, table[k].symbol) \o Unsigned(width, table[k].bits - min))

write_codes(table) ==
  IF table = <<>> THEN Unsigned(LengthBits, NoLength) \o Unsigned(LengthBits, NoLength)
  ELSE IF Len(table) = 1
    THEN Unsigned(LengthBits, 0) \o Unsigned(LengthBits, 0) \o Unsigned(SymbolBits, table[1].symbol)
  ELSE LET min == table[1].bits
           max == table[Len(table)].bits
       IN  Unsigned(LengthBits, min) \o Unsigned(LengthBits, max)
             \o (IF Len(table) > MaxListed
                   THEN <<1>> \o WrittenBitmap(table, min, bit_width(max - min))
                   ELSE <<0>> \o WrittenList(table, min, bit_width(max - min)))

write_symbol(table, symbol) == Unsigned(CodeOf(table, symbol).bits, CodeOf(table, symbol).value)

-----------------------------------------------------------------------------
(* HuffmanDecoder.  A state with no codes has one symbol.                  *)

Tree(lengths, single, next) ==
  [codes |-> Canonical(lengths), single_symbol |-> single, next |-> next]

(* A bit for every symbol, and behind it the length of those present.      *)
ReadBitmap(bits, p, min, width) ==
  LET Behind[q \in Nat] == q + (IF bits[q] = 1 THEN 1 + width ELSE 1)
      At[s \in 0 .. MAX_SYMBOL] == IF s = 0 THEN p ELSE Behind[At[s - 1]]
  IN  Tree({[symbol |-> s, bits |-> min + ValueAt(bits, At[s] + 1, width)] :
              s \in {r \in Symbols : bits[At[r]] = 1}}, 0, At[MAX_SYMBOL])

ReadList(bits, p, min, width) ==
  LET count == ValueAt(bits, p, LengthBits)
      At(i) == p + LengthBits + i * (SymbolBits + width)
  IN  Tree({[symbol |-> ValueAt(bits, At(i), SymbolBits),
             bits |-> min + ValueAt(bits, At(i) + SymbolBits, width)] : i \in 0 .. count - 1},
           0, At(count))

read_codes(bits, p) ==
  LET min == ValueAt(bits, p, LengthBits)
      max == ValueAt(bits, p + LengthBits, LengthBits)
      q == p + 2 * LengthBits
  IN  CASE min = NoLength /\ max = NoLength -> Tree({}, 0, q)
        [] min = 0 /\ max = 0 -> Tree({}, ValueAt(bits, q, SymbolBits), q + SymbolBits)
        [] OTHER -> IF bits[q] = 1 THEN ReadBitmap(bits, q + 1, min, bit_width(max - min))
                                   ELSE ReadList(bits, q + 1, min, bit_width(max - min))

(* Codes are tried in turn, shorter ones first.  There is nothing to get   *)
(* if none matches: CHECK(0), or the assertion of the unpacker, fails.     *)
decode_symbol(table, bits, p) ==
  LET codes == table.codes
      Matches(k) == /\ p + codes[k].bits <= Len(bits) + 1
                    /\ ValueAt(bits, p, codes[k].bits) = codes[k].value
  IN  IF codes = <<>> THEN {[symbol |-> table.single_symbol, next |-> p]}
      ELSE {[symbol |-> codes[k].symbol, next |-> p + codes[k].bits] :
              k \in {j \in DOMAIN codes : Matches(j) /\ \A i \in 1 .. j - 1 : ~Matches(i)}}
=============================================================================
