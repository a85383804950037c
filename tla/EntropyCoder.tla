---------------------------- MODULE EntropyCoder ----------------------------
(***************************************************************************)
(* The run-length coders of LCEVC's encoded data, one chunk at a time: the *)
(* encoders of encoder/src/EntropyEncoder.cpp scan a surface and make a    *)
(* chunk of symbols, the decoders of decoder/src/EntropyDecoder.cpp read   *)
(* the chunk and make a surface.                                           *)
(*                                                                         *)
(* The chunk has no structure of its own: the decoder knows what a symbol  *)
(* means, and with which tree (Huffman) it is coded, only from the symbols *)
(* it has read before, and where a surface ends from its size.             *)
(*                                                                         *)
(* The shape of a surface is left out: its elements are numbered in the    *)
(* order of the scan, which is the same on both sides.                     *)
(***************************************************************************)
EXTENDS Huffman

CONSTANT Inputs    \* surfaces to code, and how: see InputTypes

(* 128: a symbol has 7 bits, and an 8th that says what follows.            *)
Base == 2^(SymbolBits - 1)

ASSUME BaseAssumption == Base % 4 = 0

(* Element 0 of a mask is TEMPORAL_PRED, 1 is TEMPORAL_INTR; element i     *)
(* begins a tile if i \in starts.  A size is coded if i \in enabled.       *)
(* A whole layer is sent in the smaller form; for a tile the other tiles   *)
(* of its layer may decide.                                                *)
RunCoders == {"residuals", "temporal", "flags"}
SizeCoders == {"prefix", "prefix on diff"}
Forms == {"smaller", "raw", "prefix"}
InputTypes(data) ==
  [coder : RunCoders \cup SizeCoders, data : {data}, reduced : BOOLEAN, form : Forms,
   starts : SUBSET (1 .. Len(data)), enabled : SUBSET (1 .. Len(data))]

ASSUME InputsAssumption ==
  \A i \in Inputs : i.data \in Seq(Int) /\ i.data # <<>> /\ i \in InputTypes(i.data)

VARIABLES
  input,     \* the surface
  phase,     \* "encoding", "sent", "decoding" or, when a CHECK has failed, "aborted"
  scan,      \* the encoder's position, run and whether the tile is intra
  symbols,   \* rle_symbols_: the symbols and their trees
  chunk,     \* the data that are sent: none, or bits
  source,    \* the decoder's next bit and its trees; the number of symbols taken
  dec,       \* the tree of the next symbol, and what has been read of a run
  out        \* the decoded elements

vars == <<input, phase, scan, symbols, chunk, source, dec, out>>

Size == Len(input.data)

(* Ranges of a residual and of a size in one symbol and in two.            *)
Offset == (Base * Base) \div 2
Short(r) == -(Base \div 4) <= r /\ r < Base \div 4
Uint16(v) == v % (4 * Base * Base)

FirstTree(coder) == IF coder \in {"temporal", "flags"} THEN "BYTE" ELSE "LSB"

FirstScan == [pos |-> 1, value |-> 0, count |-> 0, intra |-> FALSE]

FirstRead(coder) ==
  [tree |-> FirstTree(coder), lsb |-> 0, value |-> 0, run |-> 0, intra |-> FALSE]

NoChunk == [enabled |-> FALSE, rle_only |-> FALSE, bits |-> <<>>]
NoSource == [next |-> 1, trees |-> <<>>, taken |-> 0]

Ready ==
  /\ scan = FirstScan
  /\ symbols = <<>>
  /\ chunk = NoChunk
  /\ source = NoSource
  /\ dec = FirstRead(input.coder)
  /\ out = <<>>

Init == input \in Inputs /\ phase = "encoding" /\ Ready

(* Both sides begin another surface, or the first one.                     *)
NoInput ==
  [coder |-> "residuals", data |-> <<>>, reduced |-> FALSE, form |-> "smaller",
   starts |-> {}, enabled |-> {}]

Idle == input = NoInput /\ phase = "decoding" /\ Ready

Code(surface) ==
  /\ phase = "decoding" /\ Len(out) = Len(input.data)
  /\ input' = surface
  /\ phase' = "encoding"
  /\ scan' = FirstScan
  /\ symbols' = <<>>
  /\ chunk' = NoChunk
  /\ source' = NoSource
  /\ dec' = FirstRead(surface.coder)
  /\ out' = <<>>

-----------------------------------------------------------------------------
(* Symbols.                                                                *)

Symbol(tree, symbol) == [tree |-> tree, symbol |-> symbol]

Digits[n \in Nat] == IF n < Base THEN <<n>> ELSE Append(Digits[n \div Base], n % Base)

(* A count: digits from the highest on, all but the last one marked.       *)
CountSymbols(tree, n) ==
  LET d == Digits[n]
  IN  [k \in 1 .. Len(d) |-> Symbol(tree, d[k] + (IF k < Len(d) THEN Base ELSE 0))]

(* EntropyModelResiduals::encode_run: a residual, then the zeros after it. *)
ResidualRun(residual, zeros) ==
  LET flag == IF zeros > 0 THEN Base ELSE 0
      raised == residual + Offset
      clamped == IF raised < 0 THEN 0 ELSE IF raised < Base * Base THEN raised ELSE Base * Base - 1
      value == IF Short(residual)
                 THEN <<Symbol("LSB", 2 * residual + (Base \div 2) + flag)>>
                 ELSE <<Symbol("LSB", 2 * (clamped % Base) + 1),
                        Symbol("MSB", (clamped \div Base) + flag)>>
  IN  value \o (IF zeros > 0 THEN CountSymbols("ZERO", zeros) ELSE <<>>)

RunTree(flag) == IF flag = 1 THEN "ONE_RUN" ELSE "ZERO_RUN"

Run(value, count) ==
  IF input.coder = "residuals" THEN ResidualRun(value, count)
                               ELSE CountSymbols(RunTree(value), count)

-----------------------------------------------------------------------------
(* finish(): "Code symbols both ways: raw vs. prefix".                     *)

States(coder) ==
  CASE coder = "residuals" -> <<"LSB", "MSB", "ZERO">>
    [] coder \in {"temporal", "flags"} -> <<"ZERO_RUN", "ONE_RUN">>
    [] coder \in SizeCoders -> <<"LSB", "MSB">>

(* add_symbol, of all the symbols of a tree. *)
Counts(all, tree) ==
  [s \in Symbols |-> Cardinality({k \in DOMAIN all : all[k] = Symbol(tree, s)})]

(* A mask begins with the value of its first run.                          *)
StartByte ==
  IF input.coder \in {"temporal", "flags"} THEN <<Symbol("BYTE", input.data[1])>> ELSE <<>>

Byte(s) == Unsigned(SymbolBits, s.symbol)

Raw(all) == Joined(1, Len(all), LAMBDA k : Byte(all[k]))

(* Packets have whole bytes. *)
Padded(bits) == bits \o [i \in 1 .. (-Len(bits)) % SymbolBits |-> 0]

Tables(all) ==
  Joined(1, Len(States(input.coder)),
         LAMBDA i : <<EncoderTable(Counts(all, States(input.coder)[i]))>>)

StateOf(tree) == CHOOSE i \in DOMAIN States(input.coder) : States(input.coder)[i] = tree

(* The first value of a mask is no symbol of a tree. *)
SymbolCode(tables, s) ==
  IF s.tree = "BYTE" THEN Byte(s) ELSE write_symbol(tables[StateOf(s.tree)], s.symbol)

Prefix(all, tables) ==
  Joined(1, Len(tables), LAMBDA i : write_codes(tables[i]))
    \o Joined(1, Len(all), LAMBDA k : SymbolCode(tables, all[k]))

(* Flags are sent raw, sizes with prefix codes.                            *)
IsRaw(prefix, raw) ==
  \/ input.coder = "flags"
  \/ /\ input.coder \in {"residuals", "temporal"}
     /\ input.form = "raw" \/ (input.form = "smaller" /\ Len(prefix) > Len(raw))

Sent(all) ==
  \E tables \in {Tables(all)} :
    \E prefix \in {Padded(Prefix(all, tables))}, raw \in {Raw(all)} :
      chunk' = [enabled |-> TRUE, rle_only |-> IsRaw(prefix, raw),
                bits |-> IF IsRaw(prefix, raw) THEN raw ELSE prefix]

-----------------------------------------------------------------------------
(* Encoders of residuals and of masks.                                     *)

Current == input.data[scan.pos]
Scanning == phase = "encoding" /\ scan.pos <= Size

(* Reduced signalling: an intra tile is said by its first transform.       *)
IntraTile(i, value, intra) ==
  IF i \in input.starts THEN input.reduced /\ value = 1 ELSE intra
Skipped(i, intra) == i \notin input.starts /\ intra

(* The elements counted along with the one that starts a run.              *)
FirstCount == IF input.coder = "residuals" THEN 0 ELSE 1
Extends == Current = (IF input.coder = "residuals" THEN 0 ELSE scan.value)

StartRun ==
  scan' = [pos |-> scan.pos + 1, value |-> Current, count |-> FirstCount,
           intra |-> IntraTile(scan.pos, Current, scan.intra)]

(* The first element is recorded, even if it is zero.                      *)
EncodeFirst ==
  /\ Scanning /\ input.coder \in RunCoders
  /\ scan.pos = 1
  /\ StartRun
  /\ UNCHANGED <<input, phase, symbols, chunk, source, dec, out>>

EncodeSkipped ==
  /\ Scanning /\ input.coder \in RunCoders
  /\ scan.pos > 1 /\ Skipped(scan.pos, scan.intra)
  /\ scan' = [scan EXCEPT !.pos = @ + 1]
  /\ UNCHANGED <<input, phase, symbols, chunk, source, dec, out>>

ExtendRun ==
  /\ Scanning /\ input.coder \in RunCoders
  /\ scan.pos > 1 /\ ~Skipped(scan.pos, scan.intra)
  /\ Extends
  /\ scan' = [scan EXCEPT !.pos = @ + 1, !.count = @ + 1,
                          !.intra = IntraTile(scan.pos, Current, @)]
  /\ UNCHANGED <<input, phase, symbols, chunk, source, dec, out>>

EmitRun ==
  /\ Scanning /\ input.coder \in RunCoders
  /\ scan.pos > 1 /\ ~Skipped(scan.pos, scan.intra)
  /\ ~Extends
  /\ symbols' = symbols \o Run(scan.value, scan.count)
  /\ StartRun
  /\ UNCHANGED <<input, phase, chunk, source, dec, out>>

(* Faulty variant of HasEntropy: no exception for the flags. *)
HasNonzero == \E i \in 1 .. Size : input.data[i] # 0

(* A surface of zeros has no chunk, except for the flags.                  *)
HasEntropy == input.coder = "flags" \/ \E i \in 1 .. Size : input.data[i] # 0

(* The last run, and then finish(). *)
FinishRuns ==
  /\ phase = "encoding" /\ scan.pos > Size /\ input.coder \in RunCoders
  /\ \E all \in {StartByte \o (symbols \o Run(scan.value, scan.count))} :
       IF HasEntropy
         THEN symbols' = all /\ Sent(all)
         ELSE symbols' = <<>> /\ chunk' = NoChunk
  /\ phase' = "sent"
  /\ UNCHANGED <<input, scan, source, dec, out>>

-----------------------------------------------------------------------------
(* Encoder of the sizes of tiles.                                          *)

(* The serializer passes a size in 16 bits.                                *)
CurrentSize == Uint16(Current)

CodedSize == IF input.coder = "prefix" THEN CurrentSize ELSE CurrentSize - scan.value

(* The CHECKs of encode_size, encode_size_delta and process.               *)
SizeAccepted ==
  /\ CurrentSize # 0
  /\ IF input.coder = "prefix" THEN CodedSize < 2 * Base * Base
     ELSE -(Base * Base) <= CodedSize /\ CodedSize < Base * Base

OneSymbol(v) ==
  IF input.coder = "prefix" THEN v < Base ELSE -(Base \div 2) <= v /\ v < Base \div 2

SizeSymbols(v) ==
  IF OneSymbol(v) THEN <<Symbol("LSB", 2 * (v % Base))>>
  ELSE <<Symbol("LSB", 2 * (v % Base) + 1), Symbol("MSB", (v \div Base) % (2 * Base))>>

ScanningSizes == Scanning /\ input.coder \in SizeCoders

EncodeSize ==
  /\ ScanningSizes
  /\ scan.pos \in input.enabled => SizeAccepted
  /\ IF scan.pos \in input.enabled
       THEN /\ symbols' = symbols \o SizeSymbols(CodedSize)
            /\ scan' = [scan EXCEPT !.pos = @ + 1, !.value = CurrentSize]
       ELSE /\ UNCHANGED symbols
            /\ scan' = [scan EXCEPT !.pos = @ + 1]
  /\ UNCHANGED <<input, phase, chunk, source, dec, out>>

AbortSize ==
  /\ ScanningSizes
  /\ scan.pos \in input.enabled /\ ~SizeAccepted
  /\ phase' = "aborted"
  /\ UNCHANGED <<input, scan, symbols, chunk, source, dec, out>>

FinishSizes ==
  /\ phase = "encoding" /\ scan.pos > Size /\ input.coder \in SizeCoders
  /\ Sent(symbols)
  /\ phase' = "sent"
  /\ UNCHANGED <<input, scan, symbols, source, dec, out>>

-----------------------------------------------------------------------------
(* Decoders.  One symbol is read at a time.                                *)

(* SymbolSourceHuffman::start: the trees of all the states, in order.      *)
ReadTrees(bits, number) ==
  LET Some == [next : Nat, trees : Seq([codes : Seq(Codes), single_symbol : Symbols, next : Nat])]
      With[r \in Some] ==
        LET tree == read_codes(bits, r.next)
        IN  [next |-> tree.next, trees |-> Append(r.trees, tree)]
      Read[i \in 0 .. number] == IF i = 0 THEN [next |-> 1, trees |-> <<>>] ELSE With[Read[i - 1]]
  IN  Read[number]

(* create_symbol_source and start(): only a prefix coded chunk has trees.  *)
StartSource ==
  /\ phase = "sent"
  /\ IF chunk.enabled /\ ~chunk.rle_only
       THEN \E trees \in {ReadTrees(chunk.bits, Len(States(input.coder)))} :
              source' = [source EXCEPT !.next = trees.next, !.trees = trees.trees]
       ELSE UNCHANGED source
  /\ phase' = "decoding"
  /\ UNCHANGED <<input, scan, symbols, chunk, dec, out>>

Element == Len(out) + 1
Decoding == phase = "decoding" /\ Element <= Size

Reading(coders, tree) ==
  /\ Decoding /\ input.coder \in coders
  /\ dec.tree = tree /\ dec.run = 0 /\ chunk.enabled
Low(symbol) == symbol % Base
More(symbol) == symbol >= Base

(* SymbolSource::get and get_byte *)
GetByte ==
  IF source.next + SymbolBits > Len(chunk.bits) + 1 THEN {}
  ELSE {[symbol |-> ValueAt(chunk.bits, source.next, SymbolBits), next |-> source.next + SymbolBits]}

Got ==
  IF chunk.rle_only \/ dec.tree = "BYTE" THEN GetByte
  ELSE decode_symbol(source.trees[StateOf(dec.tree)], chunk.bits, source.next)

Take(got) == source' = [source EXCEPT !.next = got.next, !.taken = @ + 1]

(* entropy_enabled is not set: symbols are constant, or PRED is filled in. *)
DecodeConstant ==
  /\ Decoding /\ input.coder \in {"residuals", "temporal"}
  /\ ~chunk.enabled
  /\ out' = Append(out, 0)
  /\ UNCHANGED <<input, phase, scan, symbols, chunk, source, dec>>

(* EntropyDecoderResidualsBase::decode_pel.  The element is written when   *)
(* the count of the zeros after it has been read.                          *)
DecodePel(symbol, pel) ==
  IF More(symbol)
    THEN dec' = [dec EXCEPT !.tree = "ZERO", !.value = pel] /\ UNCHANGED out
    ELSE dec' = [dec EXCEPT !.tree = "LSB"] /\ out' = Append(out, pel)

ReadPelLsb ==
  /\ Reading({"residuals"}, "LSB")
  /\ \E got \in Got :
       /\ Take(got)
       /\ IF got.symbol % 2 = 1
            THEN dec' = [dec EXCEPT !.tree = "MSB", !.lsb = got.symbol] /\ UNCHANGED out
            ELSE DecodePel(got.symbol, (Low(got.symbol) - (Base \div 2)) \div 2)
  /\ UNCHANGED <<input, phase, scan, symbols, chunk>>

ReadPelMsb ==
  /\ Reading({"residuals"}, "MSB")
  /\ \E got \in Got :
       /\ Take(got)
       /\ DecodePel(got.symbol, Low(got.symbol) * Base + (dec.lsb \div 2) - Offset)
  /\ UNCHANGED <<input, phase, scan, symbols, chunk>>

ReadZeros ==
  /\ Decoding /\ dec.tree = "ZERO"
  /\ \E got \in Got :
       /\ Take(got)
       /\ dec' = [dec EXCEPT !.run = @ * Base + Low(got.symbol),
                             !.tree = IF More(got.symbol) THEN "ZERO" ELSE "LSB"]
       /\ out' = IF More(got.symbol) THEN out ELSE Append(out, dec.value)
  /\ UNCHANGED <<input, phase, scan, symbols, chunk>>

(* Faulty variant of WriteZero: a run is over one zero too late.           *)
WriteZeroTooOften ==
  /\ Decoding /\ dec.tree = "LSB" /\ dec.run >= 0
  /\ out' = Append(out, 0)
  /\ dec' = [dec EXCEPT !.run = @ - 1]
  /\ UNCHANGED <<input, phase, scan, symbols, chunk, source>>

WriteZero ==
  /\ Decoding /\ dec.tree = "LSB" /\ dec.run > 0
  /\ out' = Append(out, 0)
  /\ dec' = [dec EXCEPT !.run = @ - 1]
  /\ UNCHANGED <<input, phase, scan, symbols, chunk, source>>

(* EntropyDecoderTemporal, EntropyDecoderFlags.  Between two runs the      *)
(* decoder asks for none.                                                  *)
ReadStart ==
  /\ Reading({"temporal", "flags"}, "BYTE")
  /\ \E got \in Got :
       /\ Take(got)
       /\ dec' = [dec EXCEPT !.value = got.symbol, !.tree = RunTree(got.symbol)]
  /\ UNCHANGED <<input, phase, scan, symbols, chunk, out>>

ReadCount ==
  /\ Decoding /\ chunk.enabled /\ dec.tree = RunTree(dec.value)
  /\ \E got \in Got :
       /\ Take(got)
       /\ dec' = [dec EXCEPT !.run = @ * Base + Low(got.symbol),
                             !.tree = IF More(got.symbol) THEN @ ELSE "NONE"]
  /\ UNCHANGED <<input, phase, scan, symbols, chunk, out>>

(* Faulty variant of FlipRun: the count is still read with the tree of the last run. *)
FlipRunSameTree ==
  /\ Decoding /\ dec.tree = "NONE" /\ dec.run = 0
  /\ ~Skipped(Element, dec.intra)
  /\ dec' = [dec EXCEPT !.value = 1 - @, !.tree = RunTree(dec.value)]
  /\ UNCHANGED <<input, phase, scan, symbols, chunk, source, out>>

FlipRun ==
  /\ Decoding /\ dec.tree = "NONE" /\ dec.run = 0
  /\ ~Skipped(Element, dec.intra)
  /\ dec' = [dec EXCEPT !.value = 1 - @, !.tree = RunTree(1 - dec.value)]
  /\ UNCHANGED <<input, phase, scan, symbols, chunk, source, out>>

(* Faulty variant of WriteFlag: a tile stays intra until another is intra. *)
WriteFlagNoReset ==
  /\ Decoding /\ dec.tree = "NONE" /\ dec.run > 0
  /\ ~Skipped(Element, dec.intra)
  /\ out' = Append(out, dec.value)
  /\ dec' = [dec EXCEPT !.run = @ - 1,
                        !.intra = @ \/ IntraTile(Element, dec.value, @)]
  /\ UNCHANGED <<input, phase, scan, symbols, chunk, source>>

WriteFlag ==
  /\ Decoding /\ dec.tree = "NONE" /\ dec.run > 0
  /\ ~Skipped(Element, dec.intra)
  /\ out' = Append(out, dec.value)
  /\ dec' = [dec EXCEPT !.run = @ - 1, !.intra = IntraTile(Element, dec.value, @)]
  /\ UNCHANGED <<input, phase, scan, symbols, chunk, source>>

WriteIntra ==
  /\ Decoding /\ dec.tree = "NONE"
  /\ Skipped(Element, dec.intra)
  /\ out' = Append(out, 1)
  /\ UNCHANGED <<input, phase, scan, symbols, chunk, source, dec>>

(* EntropyDecoderSizes; a difference has its sign extended.                *)
SignExtended(r, range) == IF r < range \div 2 THEN r ELSE r - range

WriteSize(r, range) ==
  LET size == IF input.coder = "prefix" THEN r
              ELSE Uint16(dec.value + SignExtended(r, range))
  IN  /\ out' = Append(out, size)
      /\ dec' = [dec EXCEPT !.tree = "LSB", !.value = size]

ReadSizeLsb ==
  /\ Reading(SizeCoders, "LSB")
  /\ Element \in input.enabled
  /\ \E got \in Got :
       /\ Take(got)
       /\ IF got.symbol % 2 = 1
            THEN dec' = [dec EXCEPT !.tree = "MSB", !.lsb = got.symbol] /\ UNCHANGED out
            ELSE WriteSize(got.symbol \div 2, Base)
  /\ UNCHANGED <<input, phase, scan, symbols, chunk>>

ReadSizeMsb ==
  /\ Reading(SizeCoders, "MSB")
  /\ \E got \in Got :
       /\ Take(got)
       /\ WriteSize((dec.lsb \div 2) + got.symbol * Base, 2 * Base * Base)
  /\ UNCHANGED <<input, phase, scan, symbols, chunk>>

WriteNoSize ==
  /\ Decoding /\ input.coder \in SizeCoders
  /\ Element \notin input.enabled
  /\ out' = Append(out, 0)
  /\ UNCHANGED <<input, phase, scan, symbols, chunk, source, dec>>

Next ==
  \/ EncodeFirst \/ EncodeSkipped \/ ExtendRun \/ EmitRun \/ FinishRuns
  \/ EncodeSize \/ AbortSize \/ FinishSizes
  \/ StartSource \/ DecodeConstant
  \/ ReadPelLsb \/ ReadPelMsb \/ ReadZeros \/ WriteZero
  \/ ReadStart \/ ReadCount \/ FlipRun \/ WriteFlag \/ WriteIntra
  \/ ReadSizeLsb \/ ReadSizeMsb \/ WriteNoSize

(* Both sides are loops of one thread, which goes on while it can.         *)
Spec == Init /\ [][Next]_vars /\ WF_vars(Next)

-----------------------------------------------------------------------------
Trees == {"LSB", "MSB", "ZERO", "BYTE", "ZERO_RUN", "ONE_RUN"}

(* Every symbol fits into the byte that it is written as.                  *)
TypeOK ==
  /\ input \in InputTypes(input.data) /\ input.data \in Seq(Int)
  /\ phase \in {"encoding", "sent", "decoding", "aborted"}
  /\ scan \in [pos : 1 .. Size + 1, value : Int, count : 0 .. Size, intra : BOOLEAN]
  /\ symbols \in Seq([tree : Trees, symbol : 0 .. MAX_SYMBOL - 1])
  /\ chunk \in [enabled : BOOLEAN, rle_only : BOOLEAN, bits : Seq({0, 1})]
  /\ source.next \in 1 .. Len(chunk.bits) + 1 /\ source.taken \in 0 .. Len(symbols)
  /\ dec \in [tree : Trees \cup {"NONE"}, lsb : 0 .. MAX_SYMBOL - 1, value : Int,
              run : Nat, intra : BOOLEAN]
  /\ out \in Seq(Int) /\ Len(out) <= Size

(* Whatever the decoder has written is what the encoder was given: runs of *)
(* any number of digits, values on both sides of the limit of one symbol,  *)
(* skipped transforms of intra tiles and tiles without data included, raw  *)
(* or with any shape of trees.                                             *)
RoundTrip == \A i \in 1 .. Len(out) : out[i] = input.data[i]

(* The decoder reads each symbol with the Huffman tree of its encoder.     *)
TreesAgree ==
  phase = "decoding" /\ Len(out) < Size /\ source.taken < Len(symbols) /\ dec.tree # "NONE"
    /\ (dec.tree = "LSB" => dec.run = 0)
    => dec.tree = symbols[source.taken + 1].tree

(* When the surface is complete no symbol is left over, and no more bits   *)
(* than fill the last byte.                                                *)
SymbolsUsedUp ==
  phase = "decoding" /\ Len(out) = Size =>
    /\ source.taken = Len(symbols)
    /\ Len(chunk.bits) - (source.next - 1) < SymbolBits

(* The decoder never runs out of symbols: again and again the surface that *)
(* is coded is completed, unless its encoder has refused it.               *)
AllDecoded == []<>(phase = "aborted" \/ Len(out) = Size)

(* CHECK(value <= 32767) in encode_size: a larger tile is refused.         *)
LargeSizeRefused ==
  phase = "decoding" /\ input.coder = "prefix" =>
    \A i \in input.enabled : input.data[i] < 2 * Base * Base
=============================================================================
