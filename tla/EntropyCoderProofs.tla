------------------------- MODULE EntropyCoderProofs -------------------------
(***************************************************************************)
(* The run-length coders undo each other, for every width of a symbol,     *)
(* every surface and every length of a run, raw or with prefix codes of    *)
(* fewer than NoLength bits; and so do the coders of the sizes of tiles.   *)
(*                                                                         *)
(* The first half is about a state's prefix code.  Merging the rarest      *)
(* nodes keeps a full tree, which Balanced counts from its deepest level   *)
(* up; so the numbers that Canonical gives fit into their lengths, and no  *)
(* code is the beginning of another (TableOf).  The lengths come back from *)
(* a list or a bitmap (CodesComeBack), and a symbol from its code          *)
(* (SymbolComesBack).  What a decoder needs of a chunk, raw or not, is     *)
(* that at known places it reads the symbols in their order (Readable).    *)
(*                                                                         *)
(* The invariant follows a chunk from the encoder to the decoder.  While   *)
(* it is made, it is a log of runs (Log): where each starts, that all of   *)
(* it is alike, and which symbols it became.  The last run completes the   *)
(* log (Laid), and from then on the decoder is at one of six places in it  *)
(* (DecoderAt): before the first symbol of a run, within a residual, in a  *)
(* count of which some digits are read, or within a run of which some      *)
(* elements are written.  That out is what was coded so far (RoundTrip)    *)
(* is not inductive: it says nothing of a run that was read and not        *)
(* written yet.                                                            *)
(*                                                                         *)
(* Sizes have a log of their own (SizesLog): how many symbols those of the *)
(* first tiles take, and which size the next difference is taken from.     *)
(***************************************************************************)
EXTENDS EntropyCoder, DataLemmas

-----------------------------------------------------------------------------
(* Bits.                                                                   *)

LEMMA Ranges ==
  /\ SymbolBits \in Nat \ {0} /\ NoLength \in Nat
  /\ Base \in Nat \ {0} /\ Base % 4 = 0 /\ MAX_SYMBOL = 2 * Base
  <1>1. SymbolBits \in Nat \ {0} /\ NoLength \in Nat
    BY HuffmanAssumption, PowersOfTwo
  <1>2. SymbolBits - 1 \in 0 .. SymbolBits + NoLength /\ (SymbolBits - 1) + 1 = SymbolBits
    BY <1>1
  <1> QED
    BY <1>1, <1>2, PowersOfTwo, BaseAssumption DEF Base, MAX_SYMBOL

(* Halving. *)
LEMMA DivTwice ==
  ASSUME NEW v \in Nat, NEW m \in Nat \ {0}
  PROVE  v \div m = 2 * (v \div (2 * m)) + ((v \div m) % 2)
  <1>1. PICK w \in Nat, x \in Nat : w = v \div m /\ x = v % m /\ v = m * w + x /\ x < m
    BY DivMod
  <1>2. PICK h \in Nat, b \in {0, 1} : h = w \div 2 /\ b = w % 2 /\ w = 2 * h + b
    OBVIOUS
  <1>3. v = (2 * m) * h + (m * b + x)
    <2>1. m * w = (2 * m) * h + m * b
      BY <1>2
    <2> QED
      BY <1>1, <2>1
  <1>4. m * b + x \in 0 .. 2 * m - 1
    <2>1. CASE b = 0
      BY <1>1, <2>1
    <2>2. CASE b = 1
      BY <1>1, <2>2
    <2> QED
      BY <2>1, <2>2
  <1>5. v \div (2 * m) = h
    <2>1. PICK d \in Nat \ {0} : d = 2 * m
      OBVIOUS
    <2>2. PICK g \in Nat, y \in Nat : g = v \div d /\ v = d * g + y /\ y < d
      BY DivMod
    <2>3. PICK z \in 0 .. d - 1 : z = m * b + x
      BY <1>4, <2>1
    <2>4. d * h + z = d * g + y
      BY <1>3, <2>1, <2>2, <2>3
    <2>5. ~(g < h) /\ ~(h < g)
      <3>1. g < h => d * g + d <= d * h
        BY Apart
      <3>2. h < g => d * h + d <= d * g
        BY Apart
      <3>3. d * h \in Nat /\ d * g \in Nat
        OBVIOUS
      <3> QED
        BY <2>2, <2>3, <2>4, <3>1, <3>2, <3>3
    <2>6. g = h
      BY <2>5
    <2> QED
      BY <2>1, <2>2, <2>6
  <1> QED
    BY <1>1, <1>2, <1>5

(* Loops that go on alike stay alike. *)
LEMMA SameLoop ==
  ASSUME NEW f, NEW g, NEW n \in Nat, f[0] = g[0],
         \A i \in 1 .. n : f[i - 1] = g[i - 1] => f[i] = g[i]
  PROVE  \A i \in 0 .. n : f[i] = g[i]
  <1> DEFINE T == {i \in Nat : i <= n /\ f[i] # g[i]}
  <1> SUFFICES ASSUME T # {} PROVE FALSE
    OBVIOUS
  <1>1. PICK k \in T : k = 0 \/ (k - 1 \in Nat /\ k - 1 \notin T)
    <2>1. T \in SUBSET Nat
      OBVIOUS
    <2> HIDE DEF T
    <2> QED
      BY <2>1, LeastOf
  <1> QED
    BY <1>1

(* The first bits of a number are its highest ones. *)
LEMMA HighestBits ==
  ASSUME NEW n \in 0 .. SymbolBits + NoLength, NEW v \in 0 .. 2^n - 1, NEW bits, NEW p \in Nat,
         NEW m \in 0 .. n,
         \A i \in 1 .. m : bits[p + i - 1] = Unsigned(n, v)[i]
  PROVE  ValueAt(bits, p, m) = v \div 2^(n - m)
  <1>1. PICK P : P = [k \in 0 .. n |-> 2^k]
    OBVIOUS
  <1>2. /\ P[0] = 1 /\ P[n] = 2^n
        /\ \A k \in 0 .. n : P[k] \in Nat \ {0} /\ (k # n => P[k + 1] = 2 * P[k])
    <2>1. \A k \in 0 .. n : k \in 0 .. SymbolBits + NoLength
      BY Ranges
    <2>2. \A k \in 0 .. n : P[k] = 2^k /\ 2^k \in Nat \ {0} /\ 2^(k + 1) = 2 * 2^k
      BY <1>1, <2>1, PowersOfTwo
    <2>3. n \in Nat /\ \A k \in 0 .. n : k # n => k + 1 \in 0 .. n
      BY Ranges
    <2>4. P[0] = 1
      <3>1. 0 \in 0 .. n
        BY <2>3
      <3>2. P[0] = 2^0
        BY <2>2, <3>1
      <3>3. 2^0 = 1
        BY PowersOfTwo
      <3> QED
        BY <3>2, <3>3
    <2>5. ASSUME NEW k \in 0 .. n, k # n PROVE P[k + 1] = 2 * P[k]
      <3>1. P[k + 1] = 2^(k + 1) /\ P[k] = 2^k /\ 2^(k + 1) = 2 * 2^k
        BY <2>2, <2>3, <2>5
      <3> QED
        BY <3>1
    <2> QED
      BY <2>2, <2>3, <2>4, <2>5
  <1> DEFINE Loop(f) == f = [i \in 0 .. m |-> IF i = 0 THEN 0 ELSE 2 * f[i - 1] + bits[p + i - 1]]
             F == CHOOSE f : Loop(f)
             G == [i \in 0 .. m |-> v \div P[n - i]]
  <1>3. v \in 0 .. P[n] - 1 /\ P[n] \in Nat \ {0} /\ n \in Nat /\ m \in Nat /\ m <= n
    BY <1>2, Ranges
  <1>4. G[0] = 0
    <2>1. G[0] = v \div P[n]
      BY <1>3
    <2> QED
      BY <1>3, <2>1
  <1>5. ASSUME NEW i \in 1 .. m PROVE G[i] = 2 * G[i - 1] + bits[p + i - 1]
    <2>1. PICK k \in 0 .. n - 1 : k = n - i
      BY <1>3
    <2>2. k + 1 = n - (i - 1) /\ k \in 0 .. n /\ k # n /\ i - 1 \in 0 .. m /\ i \in 0 .. m
      BY <1>3, <2>1
    <2>3. PICK q \in Nat \ {0} : q = P[k] /\ P[k + 1] = 2 * q
      BY <1>2, <2>2
    <2>4. bits[p + i - 1] = (v \div q) % 2
      <3>1. i \in 1 .. n /\ P[k] = 2^k
        BY <1>1, <1>3, <2>2
      <3>2. Unsigned(n, v)[i] = (v \div 2^(n - i)) % 2
        BY <3>1 DEF Unsigned
      <3> QED
        BY <2>1, <2>3, <3>1, <3>2
    <2>5. G[i] = v \div q /\ G[i - 1] = v \div (2 * q)
      BY <2>1, <2>2, <2>3
    <2>6. v \in Nat
      BY <1>3
    <2> QED
      BY <2>4, <2>5, <2>6, DivTwice
  <1>6. G[m] = v \div P[n - m]
    BY <1>3
  <1>7. \E f : Loop(f)
    <2>1. \A i \in 0 .. m : G[i] = IF i = 0 THEN 0 ELSE 2 * G[i - 1] + bits[p + i - 1]
      <3>1. \A i \in 0 .. m : i = 0 \/ i \in 1 .. m
        BY <1>3
      <3> HIDE DEF G
      <3> QED
        BY <1>4, <1>5, <3>1
    <2>2. G = [i \in 0 .. m |-> G[i]]
      OBVIOUS
    <2> HIDE DEF G
    <2> QED
      BY <2>1, <2>2
  <1>8. Loop(F)
    BY <1>7
  <1>9. ValueAt(bits, p, m) = F[m]
    BY DEF ValueAt
  <1>10. F[0] = 0 /\ \A i \in 1 .. m : F[i] = 2 * F[i - 1] + bits[p + i - 1]
    <2> HIDE DEF F
    <2> QED
      BY <1>8, <1>3
  <1> HIDE DEF F, G
  <1>11. \A i \in 0 .. m : F[i] = G[i]
    BY <1>3, <1>4, <1>5, <1>10, SameLoop
  <1>12. P[n - m] = 2^(n - m)
    BY <1>1, <1>3
  <1> QED
    BY <1>3, <1>6, <1>9, <1>11, <1>12

(* A number comes back from its bits. *)
LEMMA ValueOf ==
  ASSUME NEW n \in 0 .. SymbolBits + NoLength, NEW v \in 0 .. 2^n - 1, NEW bits, NEW p \in Nat,
         \A i \in 1 .. n : bits[p + i - 1] = Unsigned(n, v)[i]
  PROVE  ValueAt(bits, p, n) = v
  <1>1. n \in Nat /\ n - n = 0 /\ n \in 0 .. n
    BY Ranges
  <1>2. ValueAt(bits, p, n) = v \div 2^(n - n)
    <2>1. PICK m \in 0 .. n : m = n
      BY <1>1
    <2>2. ValueAt(bits, p, m) = v \div 2^(n - m)
      <3>1. \A i \in 1 .. m : bits[p + i - 1] = Unsigned(n, v)[i]
        BY <2>1
      <3> QED
        BY <3>1, HighestBits
    <2> QED
      BY <2>1, <2>2
  <1>3. 2^n \in Nat \ {0} /\ 2^0 = 1
    BY PowersOfTwo
  <1>4. v \in Nat /\ v \div 1 = v
    BY <1>3
  <1> QED
    BY <1>1, <1>2, <1>3, <1>4

(* A number is written in as many bits as are asked for. *)
LEMMA UnsignedBits ==
  ASSUME NEW n \in 0 .. SymbolBits + NoLength, NEW v \in Nat
  PROVE  /\ Unsigned(n, v) \in Seq({0, 1}) /\ Len(Unsigned(n, v)) = n
  <1>1. SymbolBits \in Nat /\ NoLength \in Nat
    BY Ranges
  <1>2. ASSUME NEW i \in 1 .. n PROVE (v \div 2^(n - i)) % 2 \in {0, 1}
    <2>1. PICK m \in Nat \ {0} : m = 2^(n - i)
      BY <1>1, PowersOfTwo
    <2>2. PICK w \in Nat : w = v \div m
      BY DivMod
    <2> QED
      BY <2>1, <2>2
  <1>3. Unsigned(n, v) \in [1 .. n -> {0, 1}]
    BY <1>2 DEF Unsigned
  <1> QED
    BY <1>3

-----------------------------------------------------------------------------
(* Trees.                                                                  *)

(* The image of a set has as many elements if none of them is met twice. *)
LEMMA ImageOf ==
  ASSUME NEW S, IsFiniteSet(S), NEW f, DOMAIN f = S, \A x, y \in S : f[x] = f[y] => x = y,
         NEW T, T = {f[x] : x \in S}
  PROVE  IsFiniteSet(T) /\ Cardinality(T) = Cardinality(S)
  <1> DEFINE g == [x \in S |-> f[x]]
  <1>1. g \in Bijection(S, T)
    <2>1. g \in [S -> T]
      OBVIOUS
    <2>2. \A x, y \in S : g[x] = g[y] => x = y
      OBVIOUS
    <2>3. \A t \in T : \E x \in S : g[x] = t
      OBVIOUS
    <2> HIDE DEF g
    <2> QED
      BY <2>1, <2>2, <2>3 DEF Bijection, Injection, Surjection, IsInjective
  <1>2. ExistsBijection(S, T)
    BY <1>1 DEF ExistsBijection
  <1> QED
    BY <1>2, FS_Bijection

(* Two sets without a common member. *)
LEMMA DisjointUnion ==
  ASSUME NEW S, NEW T, IsFiniteSet(S), IsFiniteSet(T), S \cap T = {}
  PROVE  /\ IsFiniteSet(S \cup T) /\ Cardinality(S \cup T) = Cardinality(S) + Cardinality(T)
         /\ Cardinality(S) \in Nat /\ Cardinality(T) \in Nat
  <1>1. Cardinality(S \cap T) = 0
    BY FS_EmptySet
  <1>2. Cardinality(S) \in Nat /\ Cardinality(T) \in Nat
    BY FS_CardinalityType
  <1>3. IsFiniteSet(S \cup T) /\ Cardinality(S \cup T) = Cardinality(S) + Cardinality(T) - Cardinality(S \cap T)
    BY FS_Union
  <1> QED
    BY <1>1, <1>2, <1>3

(* Lengths before they are limited to what their field holds. *)
AnyLengths == [symbol : Symbols, bits : Nat]

AtDepth(lengths, k) == {c \in lengths : c.bits = k}

(* The leaves of a tree with inner[k] inner nodes at depth k. *)
Balanced(lengths, inner) ==
  /\ IsFiniteSet(lengths) /\ lengths # {} /\ lengths \in SUBSET AnyLengths
  /\ \A c, d \in lengths : c.symbol = d.symbol => c = d
  /\ inner \in [Nat -> Nat]
  /\ inner[0] + Cardinality(AtDepth(lengths, 0)) = 1
  /\ \A k \in Nat : inner[k + 1] + Cardinality(AtDepth(lengths, k + 1)) = 2 * inner[k]
  /\ \A k \in Nat : inner[k] > 0 => \E c \in lengths : c.bits > k

(* The leaves of a full tree: every inner node has two children. *)
IsTree(lengths) == \E inner : Balanced(lengths, inner)

(* What Leaves makes of a symbol. *)
LEMMA LeafIsTree ==
  ASSUME NEW s \in Symbols
  PROVE  IsTree({[symbol |-> s, bits |-> 0]})
  <1>1. PICK c : c = [symbol |-> s, bits |-> 0]
    OBVIOUS
  <1>2. PICK inner : inner = [k \in Nat |-> 0]
    OBVIOUS
  <1>3. AtDepth({c}, 0) = {c} /\ \A k \in Nat : AtDepth({c}, k + 1) = {}
    <2>1. c.bits = 0 /\ \A k \in Nat : k + 1 # 0
      BY <1>1
    <2> QED
      BY <2>1 DEF AtDepth
  <1>4. IsFiniteSet({c}) /\ Cardinality({c}) = 1 /\ Cardinality({}) = 0
    BY FS_EmptySet, FS_Singleton
  <1>5. inner \in [Nat -> Nat] /\ \A k \in Nat : inner[k] = 0
    BY <1>2
  <1>6. c \in AnyLengths
    BY <1>1 DEF AnyLengths
  <1>7. Balanced({c}, inner)
    <2>1. ASSUME NEW k \in Nat PROVE inner[k + 1] + Cardinality(AtDepth({c}, k + 1)) = 2 * inner[k]
      <3>1. Cardinality(AtDepth({c}, k + 1)) = 0
        BY <1>3, <1>4
      <3>2. inner[k + 1] = 0 /\ inner[k] = 0
        BY <1>5
      <3> QED
        BY <3>1, <3>2
    <2>2. \A k \in Nat : ~(inner[k] > 0)
      BY <1>5
    <2>3. inner[0] + Cardinality(AtDepth({c}, 0)) = 1
      <3>1. Cardinality(AtDepth({c}, 0)) = 1
        BY <1>3, <1>4
      <3>2. inner[0] = 0
        BY <1>5
      <3> QED
        BY <3>1, <3>2
    <2> QED
      BY <1>4, <1>5, <1>6, <2>1, <2>2, <2>3 DEF Balanced
  <1> QED
    BY <1>1, <1>7 DEF IsTree

(* Two trees with no symbol in common, and the tree of both, one level down. *)
Apart2(l, r) == \A c \in l, d \in r : c.symbol # d.symbol

Deeper(l, r) == {[symbol |-> c.symbol, bits |-> c.bits + 1] : c \in l \cup r}

(* Combined joins two full trees to one. *)
LEMMA JoinedIsTree ==
  ASSUME NEW l, NEW r, IsTree(l), IsTree(r), Apart2(l, r)
  PROVE  IsTree(Deeper(l, r))
  <1>1. PICK il, ir : Balanced(l, il) /\ Balanced(r, ir)
    BY DEF IsTree
  <1>2. PICK both, all : both = l \cup r /\ all = Deeper(l, r)
    OBVIOUS
  <1>3. PICK f : f = [c \in both |-> [symbol |-> c.symbol, bits |-> c.bits + 1]]
    OBVIOUS
  <1>4. /\ \A c \in both : f[c].symbol = c.symbol /\ f[c].bits = c.bits + 1 /\ c.bits \in Nat
                           /\ c \in AnyLengths /\ f[c] \in AnyLengths
        /\ DOMAIN f = both /\ all = {f[c] : c \in both}
    <2>1. both \in SUBSET AnyLengths
      BY <1>1, <1>2 DEF Balanced
    <2>2. ASSUME NEW c \in both
          PROVE  f[c].symbol = c.symbol /\ f[c].bits = c.bits + 1 /\ c.bits \in Nat
                 /\ c \in AnyLengths /\ f[c] \in AnyLengths
      BY <1>3, <2>1 DEF AnyLengths
    <2>3. all = {f[c] : c \in both}
      BY <1>2, <1>3 DEF Deeper
    <2> QED
      BY <1>3, <2>2, <2>3
  <1>5. \A c, d \in both : c.symbol = d.symbol => c = d
    BY <1>1, <1>2 DEF Balanced, Apart2
  <1>6. \A c, d \in both : f[c] = f[d] => c = d
    BY <1>4, <1>5
  <1>7. \A c, d \in all : c.symbol = d.symbol => c = d
    BY <1>4, <1>5
  <1>8. IsFiniteSet(both) /\ IsFiniteSet(all)
    <2>1. IsFiniteSet(both)
      BY <1>1, <1>2, FS_Union DEF Balanced
    <2> QED
      BY <1>4, <1>6, <2>1, ImageOf
  <1>9. ASSUME NEW k \in Nat
        PROVE  /\ Cardinality(AtDepth(all, k + 1)) = Cardinality(AtDepth(l, k)) + Cardinality(AtDepth(r, k))
               /\ Cardinality(AtDepth(l, k)) \in Nat /\ Cardinality(AtDepth(r, k)) \in Nat
    <2>1. PICK S, T, L, R : S = AtDepth(both, k) /\ T = AtDepth(all, k + 1) /\ L = AtDepth(l, k) /\ R = AtDepth(r, k)
      OBVIOUS
    <2>2. IsFiniteSet(L) /\ IsFiniteSet(R) /\ S = L \cup R /\ L \cap R = {}
      <3>1. IsFiniteSet(l) /\ IsFiniteSet(r)
        BY <1>1 DEF Balanced
      <3>2. L \in SUBSET l /\ R \in SUBSET r
        BY <2>1 DEF AtDepth
      <3>3. IsFiniteSet(L) /\ IsFiniteSet(R)
        BY <3>1, <3>2, FS_Subset
      <3>4. S = L \cup R
        BY <1>2, <2>1 DEF AtDepth
      <3>5. L \cap R = {}
        BY <3>2 DEF Apart2
      <3> QED
        BY <3>3, <3>4, <3>5
    <2>3. Cardinality(S) = Cardinality(L) + Cardinality(R) /\ Cardinality(L) \in Nat /\ Cardinality(R) \in Nat
          /\ IsFiniteSet(S)
      BY <2>2, DisjointUnion
    <2>4. PICK h : h = [c \in S |-> f[c]]
      OBVIOUS
    <2>5. S \in SUBSET both
      BY <2>1 DEF AtDepth
    <2>6. T = {h[c] : c \in S}
      <3>1. \A c \in both : f[c].bits = k + 1 <=> c.bits = k
        BY <1>4
      <3>2. T = {c \in all : c.bits = k + 1} /\ S = {c \in both : c.bits = k}
        BY <2>1 DEF AtDepth
      <3>3. ASSUME NEW t \in T PROVE \E c \in S : h[c] = t
        <4>1. t \in all /\ t.bits = k + 1
          BY <3>2
        <4>2. PICK c \in both : t = f[c]
          BY <1>4, <4>1
        <4> QED
          BY <2>4, <3>1, <3>2, <4>1, <4>2
      <3>4. ASSUME NEW c \in S PROVE h[c] \in T
        <4>1. c \in both /\ c.bits = k
          BY <3>2
        <4>2. h[c] = f[c] /\ f[c] \in all
          BY <1>4, <2>4, <4>1
        <4> QED
          BY <3>1, <3>2, <4>1, <4>2
      <3> QED
        BY <3>3, <3>4
    <2>7. \A c, d \in S : h[c] = h[d] => c = d
      BY <1>6, <2>4, <2>5
    <2>8. Cardinality(T) = Cardinality(S)
      <3>1. DOMAIN h = S
        BY <2>4
      <3> QED
        BY <2>3, <2>6, <2>7, <3>1, ImageOf
    <2> QED
      BY <2>1, <2>3, <2>8
  <1>10. PICK inner : inner = [k \in Nat |-> IF k = 0 THEN 1 ELSE il[k - 1] + ir[k - 1]]
    OBVIOUS
  <1>11. il \in [Nat -> Nat] /\ ir \in [Nat -> Nat]
    BY <1>1 DEF Balanced
  <1>12. /\ inner \in [Nat -> Nat] /\ inner[0] = 1
         /\ \A k \in Nat : inner[k + 1] = il[k] + ir[k]
    <2>1. ASSUME NEW k \in Nat PROVE inner[k] \in Nat
      <3>1. k # 0 => k - 1 \in Nat
        OBVIOUS
      <3> QED
        BY <1>10, <1>11, <3>1
    <2>2. ASSUME NEW k \in Nat PROVE inner[k + 1] = il[k] + ir[k]
      <3>1. k + 1 \in Nat /\ k + 1 # 0 /\ (k + 1) - 1 = k
        OBVIOUS
      <3> QED
        BY <1>10, <3>1
    <2>3. inner[0] = 1 /\ inner = [k \in Nat |-> inner[k]]
      BY <1>10
    <2> QED
      BY <2>1, <2>2, <2>3
  <1>13. Cardinality(AtDepth(all, 0)) = 0
    <2>1. AtDepth(all, 0) = {}
      <3>1. \A c \in both : f[c].bits # 0
        BY <1>4
      <3> QED
        BY <1>4, <3>1 DEF AtDepth
    <2> QED
      BY <2>1, FS_EmptySet
  <1>14. ASSUME NEW k \in Nat
         PROVE  inner[k + 1] + Cardinality(AtDepth(all, k + 1)) = 2 * inner[k]
    <2>1. PICK a \in Nat, b \in Nat, x \in Nat, y \in Nat :
               a = Cardinality(AtDepth(l, k)) /\ b = Cardinality(AtDepth(r, k)) /\ x = il[k] /\ y = ir[k]
      BY <1>9, <1>11
    <2>2. inner[k + 1] = x + y /\ Cardinality(AtDepth(all, k + 1)) = a + b
      BY <1>9, <1>12, <2>1
    <2>3. CASE k = 0
      <3>1. x + a = 1 /\ y + b = 1 /\ inner[k] = 1
        BY <1>1, <1>12, <2>1, <2>3 DEF Balanced
      <3> QED
        BY <2>2, <3>1
    <2>4. CASE k # 0
      <3>1. PICK j \in Nat : j = k - 1 /\ k = j + 1
        BY <2>4
      <3>2. PICK u \in Nat, v \in Nat : u = il[j] /\ v = ir[j]
        BY <1>11
      <3>3. x + a = 2 * u /\ y + b = 2 * v
        BY <1>1, <2>1, <3>1, <3>2 DEF Balanced
      <3>4. inner[k] = u + v
        BY <1>12, <3>1, <3>2
      <3> QED
        BY <2>2, <3>3, <3>4
    <2> QED
      BY <2>3, <2>4
  <1>15. ASSUME NEW k \in Nat, inner[k] > 0 PROVE \E c \in all : c.bits > k
    <2>1. CASE k = 0
      <3>1. PICK c : c \in l
        BY <1>1 DEF Balanced
      <3>2. c \in both /\ f[c] \in all /\ f[c].bits = c.bits + 1 /\ c.bits \in Nat
        BY <1>2, <1>4, <3>1
      <3> QED
        BY <2>1, <3>2
    <2>2. CASE k # 0
      <3>1. PICK j \in Nat : j = k - 1 /\ k = j + 1
        BY <2>2
      <3>2. il[j] \in Nat /\ ir[j] \in Nat /\ il[j] + ir[j] > 0
        BY <1>11, <1>12, <1>15, <3>1
      <3>3. il[j] > 0 \/ ir[j] > 0
        BY <3>2
      <3>4. PICK c \in both : c.bits > j
        BY <1>1, <1>2, <3>3 DEF Balanced
      <3>5. f[c] \in all /\ f[c].bits = c.bits + 1 /\ c.bits \in Nat
        BY <1>4
      <3>6. f[c].bits > k
        BY <3>1, <3>4, <3>5
      <3> QED
        BY <3>5, <3>6
    <2> QED
      BY <2>1, <2>2
  <1>16. all # {} /\ all \in SUBSET AnyLengths
    <2>1. both # {}
      BY <1>1, <1>2 DEF Balanced
    <2> QED
      BY <1>4, <2>1
  <1>17. Balanced(all, inner)
    <2>1. inner[0] + Cardinality(AtDepth(all, 0)) = 1
      BY <1>12, <1>13
    <2> QED
      BY <1>7, <1>8, <1>12, <1>14, <1>15, <1>16, <2>1 DEF Balanced
  <1> QED
    BY <1>2, <1>17 DEF IsTree

-----------------------------------------------------------------------------
(* Merging the rarest nodes.                                               *)

(* The symbols that occur, and a heap of trees which has each of them once. *)
Used(counts) == {s \in Symbols : counts[s] > 0}

Forest(heap, used) ==
  /\ heap \in SUBSET Nodes /\ IsFiniteSet(heap)
  /\ \A n \in heap : IsTree(n.lengths) /\ n.number <= 3 * MAX_SYMBOL
  /\ \A n, m \in heap : n # m => Apart2(n.lengths, m.lengths)
  /\ \A s \in Symbols : s \in used <=> \E n \in heap : \E c \in n.lengths : c.symbol = s

(* There is a rarest node, and of the rarest there is a last one. *)
LEMMA TopIsIn ==
  ASSUME NEW heap \in SUBSET Nodes, heap # {}, \A n \in heap : n.number <= 3 * MAX_SYMBOL
  PROVE  Top(heap) \in heap
  <1>1. PICK B \in Nat : B = 3 * MAX_SYMBOL
    BY Ranges
  <1>2. \A n \in heap : n.count \in Nat /\ n.number \in Nat /\ n.number <= B
    BY <1>1 DEF Nodes
  <1>3. PICK T : T = {n.count : n \in heap}
    OBVIOUS
  <1>4. PICK k \in T : \A d \in Nat : d < k => d \notin T
    <2>1. T \in SUBSET Nat /\ T # {}
      BY <1>2, <1>3
    <2> QED
      BY <2>1, LeastMember
  <1>5. PICK R : R = {n \in heap : n.count = k}
    OBVIOUS
  <1>6. PICK N : N = {B - n.number : n \in R}
    OBVIOUS
  <1>7. PICK j \in N : \A d \in Nat : d < j => d \notin N
    <2>1. \A n \in heap : B - n.number \in Nat
      BY <1>2
    <2>2. N \in SUBSET Nat
      BY <1>5, <1>6, <2>1
    <2>3. N # {}
      BY <1>3, <1>4, <1>5, <1>6
    <2> QED
      BY <2>2, <2>3, LeastMember
  <1>8. PICK n \in R : j = B - n.number
    BY <1>6, <1>7
  <1>9. ASSUME NEW m \in heap
        PROVE  n.count < m.count \/ (n.count = m.count /\ n.number >= m.number)
    <2>1. n.count = k /\ n \in heap
      BY <1>5
    <2>2. m.count \in T /\ m.count \in Nat /\ k \in Nat
      BY <1>2, <1>3, <1>4
    <2>3. ~(m.count < k)
      BY <1>4, <2>2
    <2>4. CASE m.count = k
      <3>1. B - m.number \in N
        BY <1>5, <1>6, <2>4
      <3>2. B - m.number \in Nat /\ ~(B - m.number < j)
        BY <1>2, <1>7, <3>1
      <3>3. n.number >= m.number
        BY <1>2, <1>8, <2>1, <3>2
      <3> QED
        BY <2>1, <2>4, <3>3
    <2>5. CASE m.count # k
      BY <2>1, <2>2, <2>3, <2>5
    <2> QED
      BY <2>4, <2>5
  <1>10. n \in heap
    BY <1>5
  <1> QED
    BY <1>9, <1>10 DEF Top

LEMMA SymbolsFinite ==
  ASSUME NEW S \in SUBSET Symbols
  PROVE  IsFiniteSet(S) /\ Cardinality(S) \in Nat /\ Cardinality(S) <= MAX_SYMBOL
  <1>1. PICK m \in Nat \ {0} : m = MAX_SYMBOL
    BY Ranges
  <1>2. IsFiniteSet(0 .. m - 1) /\ Cardinality(0 .. m - 1) = m
    <2>1. 0 \in Int /\ m - 1 \in Int /\ ~(0 > m - 1) /\ (m - 1) - 0 + 1 = m
      BY <1>1
    <2> QED
      BY <2>1, FS_Interval
  <1>3. S \in SUBSET (0 .. m - 1)
    BY <1>1 DEF Symbols
  <1> QED
    BY <1>1, <1>2, <1>3, FS_Subset, FS_CardinalityType

LEMMA LeavesAreForest ==
  ASSUME NEW counts \in [Symbols -> Nat]
  PROVE  /\ Forest(Leaves(counts), Used(counts))
         /\ Cardinality(Leaves(counts)) = Cardinality(Used(counts))
  <1>1. PICK U, H : U = Used(counts) /\ H = Leaves(counts)
    OBVIOUS
  <1>2. PICK f : f = [s \in U |-> [number |-> s, count |-> counts[s],
                                   lengths |-> {[symbol |-> s, bits |-> 0]}]]
    OBVIOUS
  <1>3. U \in SUBSET Symbols /\ IsFiniteSet(U)
    <2>1. U \in SUBSET Symbols
      BY <1>1 DEF Used
    <2> QED
      BY <2>1, SymbolsFinite
  <1>4. DOMAIN f = U /\ H = {f[s] : s \in U}
    BY <1>1, <1>2 DEF Leaves, Used
  <1>5. ASSUME NEW s \in U
        PROVE  /\ f[s] \in Nodes /\ f[s].number = s /\ f[s].lengths = {[symbol |-> s, bits |-> 0]}
               /\ s \in Symbols /\ s \in Nat /\ s <= 3 * MAX_SYMBOL
    <2>1. PICK m \in Nat \ {0} : m = MAX_SYMBOL
      BY Ranges
    <2>2. s \in Symbols /\ s \in Nat /\ s <= 3 * m
      BY <1>3, <2>1 DEF Symbols
    <2>3. counts[s] \in Nat
      BY <2>2
    <2>4. {[symbol |-> s, bits |-> 0]} \in SUBSET [symbol : Symbols, bits : Nat]
      BY <2>2
    <2> QED
      BY <1>2, <2>1, <2>2, <2>3, <2>4 DEF Nodes
  <1>6. \A s, t \in U : f[s] = f[t] => s = t
    BY <1>5
  <1>7. IsFiniteSet(H) /\ Cardinality(H) = Cardinality(U)
    BY <1>3, <1>4, <1>6, ImageOf
  <1>8. \A n \in H : IsTree(n.lengths) /\ n.number <= 3 * MAX_SYMBOL /\ n \in Nodes
    BY <1>4, <1>5, LeafIsTree
  <1>9. ASSUME NEW n \in H, NEW m \in H, n # m PROVE Apart2(n.lengths, m.lengths)
    <2>1. PICK s \in U, t \in U : n = f[s] /\ m = f[t]
      BY <1>4
    <2>2. s # t
      BY <1>9, <2>1
    <2> QED
      BY <1>5, <2>1, <2>2 DEF Apart2
  <1>10. ASSUME NEW s \in Symbols
         PROVE  s \in U <=> \E n \in H : \E c \in n.lengths : c.symbol = s
    <2>1. ASSUME s \in U PROVE \E n \in H : \E c \in n.lengths : c.symbol = s
      <3>1. PICK c : c = [symbol |-> s, bits |-> 0]
        OBVIOUS
      <3>2. f[s] \in H /\ c \in f[s].lengths /\ c.symbol = s
        BY <1>4, <1>5, <2>1, <3>1
      <3> QED
        BY <3>2
    <2>2. ASSUME NEW n \in H, NEW c \in n.lengths, c.symbol = s PROVE s \in U
      <3>1. PICK t \in U : n = f[t]
        BY <1>4
      <3>2. c = [symbol |-> t, bits |-> 0]
        BY <1>5, <3>1
      <3>3. t = s
        BY <2>2, <3>2
      <3> QED
        BY <3>3
    <2> QED
      BY <2>1, <2>2
  <1> QED
    BY <1>1, <1>7, <1>8, <1>9, <1>10 DEF Forest

LEMMA MergedOf ==
  ASSUME NEW heap \in SUBSET Nodes
  PROVE  /\ Cardinality(heap) <= 1 => Merged[heap] = heap
         /\ ~(Cardinality(heap) <= 1) =>
              \E l, r : /\ l = Top(heap) /\ r = Top(heap \ {l})
                        /\ Merged[heap] = (heap \ {l, r}) \cup {Combined(heap, l, r)}
  BY DEF Merged

(* One turn of the loop of HuffmanEncoderBuilder::finish leaves one tree less. *)
LEMMA MergedIsForest ==
  ASSUME NEW heap, NEW used, Forest(heap, used), Cardinality(heap) > 1, Cardinality(heap) <= 3 * MAX_SYMBOL
  PROVE  Forest(Merged[heap], used) /\ Cardinality(Merged[heap]) = Cardinality(heap) - 1
  <1>1. PICK n \in Nat : n = Cardinality(heap) /\ n > 1 /\ n <= 3 * MAX_SYMBOL
    BY FS_CardinalityType DEF Forest
  <1>2. PICK l, r : /\ l = Top(heap) /\ r = Top(heap \ {l})
                    /\ Merged[heap] = (heap \ {l, r}) \cup {Combined(heap, l, r)}
    <2>1. ~(Cardinality(heap) <= 1) /\ heap \in SUBSET Nodes
      BY <1>1 DEF Forest
    <2> QED
      BY <2>1, MergedOf
  <1>3. l \in heap
    <2>1. heap # {}
      BY <1>1, FS_EmptySet
    <2> QED
      BY <1>2, <2>1, TopIsIn DEF Forest
  <1>4. IsFiniteSet(heap \ {l}) /\ Cardinality(heap \ {l}) = n - 1
    BY <1>1, <1>3, FS_RemoveElement DEF Forest
  <1>5. r \in heap \ {l}
    <2>1. heap \ {l} # {}
      BY <1>1, <1>4, FS_EmptySet
    <2>2. heap \ {l} \in SUBSET Nodes /\ \A m \in heap \ {l} : m.number <= 3 * MAX_SYMBOL
      BY DEF Forest
    <2> QED
      BY <1>2, <2>1, <2>2, TopIsIn
  <1>6. PICK rest : rest = heap \ {l, r} /\ IsFiniteSet(rest) /\ Cardinality(rest) = n - 2
    <2>1. IsFiniteSet((heap \ {l}) \ {r}) /\ Cardinality((heap \ {l}) \ {r}) = (n - 1) - 1
      BY <1>4, <1>5, FS_RemoveElement
    <2>2. (heap \ {l}) \ {r} = heap \ {l, r} /\ (n - 1) - 1 = n - 2
      BY <1>1
    <2> QED
      BY <2>1, <2>2
  <1>7. PICK x : x = Combined(heap, l, r)
    OBVIOUS
  <1>8. /\ x.lengths = Deeper(l.lengths, r.lengths)
        /\ x.number = 3 * MAX_SYMBOL - n /\ x.count = l.count + r.count
    BY <1>1, <1>7 DEF Combined, Deeper
  <1>9. l \in Nodes /\ r \in Nodes /\ IsTree(l.lengths) /\ IsTree(r.lengths) /\ Apart2(l.lengths, r.lengths)
    BY <1>3, <1>5 DEF Forest
  <1>10. IsTree(x.lengths)
    BY <1>8, <1>9, JoinedIsTree
  <1>11. PICK B \in Nat : B = 3 * MAX_SYMBOL
    BY Ranges
  <1>12. x \in Nodes /\ x.number <= 3 * MAX_SYMBOL
    <2>1. x.lengths \in SUBSET AnyLengths
      BY <1>10 DEF IsTree, Balanced
    <2>2. B - n \in Nat /\ B - n <= B
      BY <1>1, <1>11
    <2>3. l.count + r.count \in Nat
      BY <1>9 DEF Nodes
    <2>4. x = [number |-> B - n, count |-> l.count + r.count, lengths |-> x.lengths]
      BY <1>1, <1>7, <1>11 DEF Combined
    <2> QED
      BY <1>8, <1>11, <2>1, <2>2, <2>3, <2>4 DEF Nodes, AnyLengths
  <1>13. \A s : (\E c \in x.lengths : c.symbol = s) <=> (\E c \in l.lengths \cup r.lengths : c.symbol = s)
    <2>1. ASSUME NEW c \in x.lengths PROVE \E d \in l.lengths \cup r.lengths : d.symbol = c.symbol
      <3>1. PICK d \in l.lengths \cup r.lengths : c = [symbol |-> d.symbol, bits |-> d.bits + 1]
        BY <1>8 DEF Deeper
      <3> QED
        BY <3>1
    <2>2. ASSUME NEW d \in l.lengths \cup r.lengths PROVE \E c \in x.lengths : c.symbol = d.symbol
      <3>1. PICK c : c = [symbol |-> d.symbol, bits |-> d.bits + 1]
        OBVIOUS
      <3>2. c \in x.lengths /\ c.symbol = d.symbol
        BY <1>8, <3>1 DEF Deeper
      <3> QED
        BY <3>2
    <2> QED
      BY <2>1, <2>2
  <1>14. ASSUME NEW m \in rest PROVE Apart2(m.lengths, x.lengths) /\ Apart2(x.lengths, m.lengths) /\ m # x
    <2>1. m \in heap /\ m # l /\ m # r
      BY <1>6
    <2>2. Apart2(m.lengths, l.lengths) /\ Apart2(m.lengths, r.lengths)
      BY <1>3, <1>5, <2>1 DEF Forest
    <2>3. \A c \in m.lengths, d \in x.lengths : c.symbol # d.symbol
      <3> SUFFICES ASSUME NEW c \in m.lengths, NEW d \in x.lengths, c.symbol = d.symbol PROVE FALSE
        OBVIOUS
      <3>1. PICK e \in l.lengths \cup r.lengths : e.symbol = d.symbol
        BY <1>13
      <3> QED
        BY <2>2, <3>1 DEF Apart2
    <2>4. PICK d : d \in x.lengths
      BY <1>10 DEF IsTree, Balanced
    <2> QED
      BY <2>3, <2>4 DEF Apart2
  <1>15. PICK next : next = Merged[heap] /\ next = rest \cup {x}
    BY <1>2, <1>6, <1>7
  <1>16. IsFiniteSet(next) /\ Cardinality(next) = n - 1
    <2>1. x \notin rest
      BY <1>14
    <2>2. Cardinality(rest \cup {x}) = (n - 2) + 1 /\ IsFiniteSet(rest \cup {x})
      BY <1>6, <2>1, FS_AddElement
    <2> QED
      BY <1>1, <1>15, <2>2
  <1>17. \A m \in rest : m \in Nodes /\ IsTree(m.lengths) /\ m.number <= 3 * MAX_SYMBOL
    BY <1>6 DEF Forest
  <1>18. \A m, k \in next : m # k => Apart2(m.lengths, k.lengths)
    <2>1. \A m, k \in rest : m # k => Apart2(m.lengths, k.lengths)
      BY <1>6 DEF Forest
    <2> QED
      BY <1>14, <1>15, <2>1
  <1>19. ASSUME NEW s \in Symbols
         PROVE  s \in used <=> \E m \in next : \E c \in m.lengths : c.symbol = s
    <2>1. s \in used <=> \E m \in heap : \E c \in m.lengths : c.symbol = s
      BY DEF Forest
    <2>2. (\E m \in next : \E c \in m.lengths : c.symbol = s)
          <=> (\E m \in rest : \E c \in m.lengths : c.symbol = s) \/ (\E c \in x.lengths : c.symbol = s)
      BY <1>15
    <2>3. (\E m \in heap : \E c \in m.lengths : c.symbol = s)
          <=> (\E m \in rest : \E c \in m.lengths : c.symbol = s) \/ (\E c \in l.lengths \cup r.lengths : c.symbol = s)
      BY <1>3, <1>5, <1>6
    <2> QED
      BY <1>13, <2>1, <2>2, <2>3
  <1>20. Forest(next, used)
    BY <1>12, <1>10, <1>15, <1>16, <1>17, <1>18, <1>19 DEF Forest
  <1> QED
    BY <1>1, <1>15, <1>16, <1>20

(* The lengths are those of the leaves of one tree, of every symbol used.  *)
LEMMA LengthsAreTree ==
  ASSUME NEW counts \in [Symbols -> Nat], NEW lengths, lengths = CodeLengths(counts)
  PROVE  /\ Used(counts) = {} => lengths = {}
         /\ Used(counts) # {} => IsTree(lengths)
         /\ \A s \in Symbols : counts[s] > 0 <=> \E c \in lengths : c.symbol = s
  <1>0. /\ Cardinality(Leaves(counts)) = Cardinality(Used(counts))
        /\ Cardinality(Used(counts)) \in Nat /\ Cardinality(Used(counts)) <= MAX_SYMBOL
        /\ IsFiniteSet(Used(counts))
    <2>1. Used(counts) \in SUBSET Symbols
      BY DEF Used
    <2> QED
      BY <2>1, LeavesAreForest, SymbolsFinite
  <1>1a. PICK n \in Nat : n = Cardinality(Used(counts))
    BY <1>0
  <1>1. PICK L, U : /\ L = Leaves(counts) /\ U = Used(counts) /\ n = Cardinality(L) /\ n = Cardinality(U)
                    /\ n <= MAX_SYMBOL /\ IsFiniteSet(U)
    BY <1>0, <1>1a
  <1> DEFINE Loop(f) == f = [k \in 0 .. n |-> IF k = 0 THEN L ELSE Merged[f[k - 1]]]
             F == CHOOSE f : Loop(f)
  <1>2. \E f : Loop(f)
    <2>1. PICK step : step = [k \in 1 .. n |-> Merged]
      OBVIOUS
    <2>2. PICK f : Carried(f, step, L, n)
      BY LoopExists
    <2>3. \A k \in 0 .. n : k # 0 => step[k] = Merged
      BY <2>1
    <2>4. f = [k \in 0 .. n |-> IF k = 0 THEN L ELSE Merged[f[k - 1]]]
      BY <2>2, <2>3 DEF Carried
    <2> QED
      BY <2>4
  <1>3. Loop(F)
    BY <1>2
  <1>4. lengths = UNION {m.lengths : m \in F[n]}
    BY <1>1 DEF CodeLengths
  <1>5. F[0] = L /\ \A k \in 0 .. n : k # 0 => F[k] = Merged[F[k - 1]]
    <2> HIDE DEF F
    <2>1. 0 \in 0 .. n
      BY <1>1
    <2> QED
      BY <1>3, <2>1
  <1> HIDE DEF F
  <1> DEFINE Good(k) == Forest(F[k], U) /\ Cardinality(F[k]) = IF k < n THEN n - k ELSE IF n = 0 THEN 0 ELSE 1
             Bad == {k \in Nat : k <= n /\ ~Good(k)}
  <1>6. Bad = {}
    <2> SUFFICES ASSUME Bad # {} PROVE FALSE
      OBVIOUS
    <2>1. PICK k \in Bad : k = 0 \/ (k - 1 \in Nat /\ k - 1 \notin Bad)
      <3>1. Bad \in SUBSET Nat
        OBVIOUS
      <3> HIDE DEF Bad
      <3> QED
        BY <3>1, LeastOf
    <2>2. k \in 0 .. n /\ ~Good(k)
      OBVIOUS
    <2>3. CASE k = 0
      <3>1. Forest(F[0], U) /\ Cardinality(F[0]) = n
        BY <1>1, <1>5, LeavesAreForest
      <3> QED
        BY <2>2, <2>3, <3>1
    <2>4. CASE k # 0
      <3>1. k - 1 \in Nat /\ k - 1 < n /\ Good(k - 1)
        BY <2>1, <2>2, <2>4
      <3>2. PICK H : H = F[k - 1] /\ F[k] = Merged[H] /\ Forest(H, U) /\ Cardinality(H) = n - (k - 1)
        BY <1>5, <2>2, <2>4, <3>1
      <3>3. CASE k = n
        <4>1. Cardinality(H) = 1
          BY <2>2, <3>2, <3>3
        <4>2. Merged[H] = H
          BY <3>2, <4>1, MergedOf DEF Forest
        <4> QED
          BY <2>2, <2>4, <3>2, <3>3, <4>1, <4>2
      <3>4. CASE k # n
        <4>1. PICK c \in Nat : c = Cardinality(H) /\ c > 1 /\ c <= n /\ c - 1 = n - k
          BY <2>2, <2>4, <3>2, <3>4
        <4>2. PICK m \in Nat : m = MAX_SYMBOL
          BY Ranges
        <4>3. c <= 3 * MAX_SYMBOL
          BY <1>1, <4>1, <4>2
        <4>4. Forest(Merged[H], U) /\ Cardinality(Merged[H]) = c - 1
          BY <3>2, <4>1, <4>3, MergedIsForest
        <4> QED
          BY <2>2, <3>2, <3>4, <4>1, <4>4
      <3> QED
        BY <3>3, <3>4
    <2> QED
      BY <2>3, <2>4
  <1>7. PICK H : H = F[n] /\ Forest(H, U) /\ Cardinality(H) = IF n = 0 THEN 0 ELSE 1
    <2>1. Good(n)
      BY <1>6
    <2> QED
      BY <2>1
  <1>8. IsFiniteSet(H)
    BY <1>7 DEF Forest
  <1>9. n = 0 <=> U = {}
    BY <1>1, FS_EmptySet
  <1>10. lengths = UNION {m.lengths : m \in H}
    BY <1>4, <1>7
  <1>11. ASSUME NEW s \in Symbols PROVE counts[s] > 0 <=> \E c \in lengths : c.symbol = s
    <2>1. s \in U <=> \E m \in H : \E c \in m.lengths : c.symbol = s
      BY <1>7 DEF Forest
    <2>2. s \in U <=> counts[s] > 0
      BY <1>1 DEF Used
    <2> QED
      BY <1>10, <2>1, <2>2
  <1>12. CASE U = {}
    <2>1. H = {}
      BY <1>7, <1>8, <1>9, <1>12, FS_EmptySet
    <2>2. lengths = {}
      BY <1>10, <2>1
    <2> QED
      BY <1>1, <1>11, <1>12, <2>2
  <1>13. CASE U # {}
    <2>1. Cardinality(H) = 1
      BY <1>7, <1>9, <1>13
    <2>2. PICK m : H = {m}
      BY <1>8, <2>1, FS_Singleton
    <2>3. IsTree(m.lengths) /\ lengths = m.lengths
      BY <1>7, <1>10, <2>2 DEF Forest
    <2> QED
      BY <1>1, <1>11, <1>13, <2>3
  <1> QED
    BY <1>12, <1>13

-----------------------------------------------------------------------------
(* Canonical codes.                                                        *)

(* Powers of two, as far as a symbol and a code can go. *)
LEMMA Powers ==
  ASSUME NEW j \in Nat, j <= SymbolBits + NoLength
  PROVE  2^j \in Nat \ {0} /\ 2^0 = 1 /\ (j # 0 => 2^j = 2 * 2^(j - 1) /\ 2^(j - 1) \in Nat \ {0})
  <1>1. SymbolBits \in Nat /\ NoLength \in Nat
    BY Ranges
  <1>2. j \in 0 .. SymbolBits + NoLength
    BY <1>1
  <1>3. CASE j # 0
    <2>1. PICK i : i = j - 1
      OBVIOUS
    <2>2. i \in 0 .. SymbolBits + NoLength /\ i + 1 = j
      BY <1>1, <1>3, <2>1
    <2>3. 2^(i + 1) = 2 * 2^i /\ 2^i \in Nat \ {0}
      BY <2>2, PowersOfTwo
    <2> QED
      BY <1>2, <2>1, <2>2, <2>3, PowersOfTwo
  <1> QED
    BY <1>2, <1>3, PowersOfTwo

(* The numbers of nodes at a depth, and at the next one. *)
LEMMA LevelTyped ==
  ASSUME NEW lengths, NEW inner, Balanced(lengths, inner), NEW k \in Nat
  PROVE  /\ inner[k] \in Nat /\ Cardinality(AtDepth(lengths, k)) \in Nat /\ IsFiniteSet(AtDepth(lengths, k))
         /\ inner[k + 1] + Cardinality(AtDepth(lengths, k + 1)) = 2 * inner[k]
  <1>1. AtDepth(lengths, k) \in SUBSET lengths
    BY DEF AtDepth
  <1>2. IsFiniteSet(lengths) /\ inner \in [Nat -> Nat]
        /\ inner[k + 1] + Cardinality(AtDepth(lengths, k + 1)) = 2 * inner[k]
    BY DEF Balanced
  <1> QED
    BY <1>1, <1>2, FS_Subset, FS_CardinalityType

(* Each inner node has two nodes below it. *)
LEMMA Levels ==
  ASSUME NEW lengths, NEW inner, Balanced(lengths, inner), NEW m \in Nat,
         NEW j \in Nat, j <= SymbolBits + NoLength
  PROVE  /\ inner[m + j] <= 2^j * inner[m]
         /\ (\A c \in lengths : ~(m < c.bits /\ c.bits <= m + j)) => inner[m + j] = 2^j * inner[m]
  <1> DEFINE Gap == \A c \in lengths : ~(m < c.bits /\ c.bits <= m + j)
             Good(i) == inner[m + i] <= 2^i * inner[m] /\ (Gap => inner[m + i] = 2^i * inner[m])
             Bad == {i \in Nat : i <= j /\ ~Good(i)}
  <1>1. SUFFICES Bad = {}
    <2>1. Good(j)
      BY <1>1
    <2> QED
      BY <2>1
  <1>2. SUFFICES ASSUME Bad # {} PROVE FALSE
    OBVIOUS
  <1>3. PICK k \in Bad : k = 0 \/ (k - 1 \in Nat /\ k - 1 \notin Bad)
    <2>1. Bad \in SUBSET Nat
      OBVIOUS
    <2> HIDE DEF Bad
    <2> QED
      BY <1>2, <2>1, LeastOf
  <1>4. PICK a \in Nat : a = inner[m]
    BY LevelTyped
  <1>5. k \in Nat /\ k <= j /\ ~Good(k)
    OBVIOUS
  <1>6. k <= SymbolBits + NoLength
    BY <1>5, Ranges
  <1>7. CASE k = 0
    <2>1. m + k = m /\ 2^k = 1 /\ 1 * a = a
      BY <1>5, <1>6, <1>7, Powers
    <2>2. inner[m + k] = 2^k * inner[m]
      BY <1>4, <2>1
    <2> QED
      BY <1>4, <1>5, <2>1, <2>2
  <1>8. CASE k # 0
    <2>1. PICK i \in Nat : i = k - 1 /\ i + 1 = k /\ i < j
      BY <1>5, <1>8
    <2>2. Good(i)
      <3>1. i \notin Bad /\ i <= j
        BY <1>3, <1>8, <2>1
      <3> QED
        BY <3>1
    <2>3. PICK P \in Nat \ {0} : P = 2^i /\ 2^k = 2 * P
      BY <1>5, <1>6, <1>8, <2>1, Powers
    <2>4. PICK x \in Nat, y \in Nat, d \in Nat :
              x = inner[m + i] /\ y = inner[m + k] /\ d = Cardinality(AtDepth(lengths, m + k)) /\ y + d = 2 * x
      <3>1. PICK g \in Nat, h \in Nat : g = m + i /\ h = m + k /\ g + 1 = h
        BY <2>1
      <3>2. /\ inner[g] \in Nat /\ inner[h] \in Nat /\ Cardinality(AtDepth(lengths, h)) \in Nat
            /\ inner[g + 1] + Cardinality(AtDepth(lengths, g + 1)) = 2 * inner[g]
        BY LevelTyped
      <3> QED
        BY <3>1, <3>2
    <2>5. PICK q \in Nat : q = P * a /\ (2 * P) * a = 2 * q
      OBVIOUS
    <2>6. x <= q /\ (Gap => x = q)
      BY <1>4, <2>2, <2>3, <2>4, <2>5
    <2>7. Gap => d = 0
      <3> SUFFICES ASSUME Gap PROVE d = 0
        OBVIOUS
      <3>1. AtDepth(lengths, m + k) = {}
        <4> SUFFICES ASSUME NEW c \in AtDepth(lengths, m + k) PROVE FALSE
          OBVIOUS
        <4>1. c \in lengths /\ c.bits = m + k
          BY DEF AtDepth
        <4>2. m < m + k /\ m + k <= m + j
          BY <1>5, <1>8
        <4> QED
          BY <4>1, <4>2
      <3> QED
        BY <2>4, <3>1, FS_EmptySet
    <2>8. y <= 2 * q /\ (Gap => y = 2 * q)
      BY <2>4, <2>6, <2>7
    <2> HIDE DEF Gap
    <2>9. 2^k * inner[m] = 2 * q
      BY <1>4, <2>3, <2>5
    <2> QED
      BY <1>5, <2>4, <2>8, <2>9
  <1> QED
    BY <1>7, <1>8

(* All the nodes of a level. *)
LEMMA LevelFull ==
  ASSUME NEW lengths, NEW inner, Balanced(lengths, inner), NEW m \in Nat,
         NEW j \in Nat \ {0}, j <= SymbolBits + NoLength
  PROVE  /\ inner[m + j] + Cardinality(AtDepth(lengths, m + j)) <= 2^j * inner[m]
         /\ (\A c \in lengths : ~(m < c.bits /\ c.bits < m + j)) =>
              inner[m + j] + Cardinality(AtDepth(lengths, m + j)) = 2^j * inner[m]
  <1>1. PICK i \in Nat : i = j - 1 /\ i + 1 = j /\ i <= SymbolBits + NoLength
    BY Ranges
  <1>2. PICK P \in Nat \ {0} : P = 2^i /\ 2^j = 2 * P
    BY <1>1, Powers
  <1>3. PICK x \in Nat, y \in Nat, d \in Nat, a \in Nat :
            /\ x = inner[m + i] /\ y = inner[m + j] /\ d = Cardinality(AtDepth(lengths, m + j))
            /\ a = inner[m] /\ y + d = 2 * x
    <2>1. PICK g \in Nat, h \in Nat : g = m + i /\ h = m + j /\ g + 1 = h
      BY <1>1
    <2>2. /\ inner[g] \in Nat /\ inner[h] \in Nat /\ Cardinality(AtDepth(lengths, h)) \in Nat
          /\ inner[g + 1] + Cardinality(AtDepth(lengths, g + 1)) = 2 * inner[g] /\ inner[m] \in Nat
      BY LevelTyped
    <2> QED
      BY <2>1, <2>2
  <1>4. PICK q \in Nat : q = P * a /\ (2 * P) * a = 2 * q
    OBVIOUS
  <1>5. x <= q
    BY <1>1, <1>2, <1>3, <1>4, Levels
  <1>6. ASSUME \A c \in lengths : ~(m < c.bits /\ c.bits < m + j) PROVE x = q
    <2>1. \A c \in lengths : ~(m < c.bits /\ c.bits <= m + i)
      <3> SUFFICES ASSUME NEW c \in lengths, m < c.bits, c.bits <= m + i PROVE FALSE
        OBVIOUS
      <3>1. c.bits \in Nat
        BY DEF Balanced, AnyLengths
      <3>2. c.bits < m + j
        BY <1>1, <3>1
      <3> QED
        BY <1>6, <3>2
    <2> QED
      BY <1>1, <1>2, <1>3, <1>4, <2>1, Levels
  <1>7. inner[m + j] + Cardinality(AtDepth(lengths, m + j)) = 2 * x /\ 2^j * inner[m] = 2 * q
    BY <1>2, <1>3, <1>4
  <1> QED
    BY <1>5, <1>6, <1>7

(* The value of a canonical code: the inner nodes of its level come first. *)
Lower(lengths, c) == {d \in AtDepth(lengths, c.bits) : d.symbol < c.symbol}
ValueIn(lengths, inner, c) == inner[c.bits] + Cardinality(Lower(lengths, c))

(* What the value of a code is made of. *)
LEMMA LowerTyped ==
  ASSUME NEW lengths, NEW inner, Balanced(lengths, inner), NEW c \in lengths
  PROVE  /\ c.bits \in Nat /\ c.symbol \in Symbols /\ c.symbol \in Nat
         /\ inner[c.bits] \in Nat
         /\ IsFiniteSet(Lower(lengths, c)) /\ Cardinality(Lower(lengths, c)) \in Nat
         /\ c \notin Lower(lengths, c)
         /\ Cardinality(Lower(lengths, c) \cup {c}) = Cardinality(Lower(lengths, c)) + 1
         /\ ValueIn(lengths, inner, c) = inner[c.bits] + Cardinality(Lower(lengths, c))
         /\ ValueIn(lengths, inner, c) \in Nat
  <1>1. c.bits \in Nat /\ c.symbol \in Symbols
    BY DEF Balanced, AnyLengths
  <1>2. c.symbol \in Nat
    <2>1. \A s \in 0 .. MAX_SYMBOL - 1 : s \in Nat
      BY Ranges
    <2> QED
      BY <1>1, <2>1 DEF Symbols
  <1>3. Lower(lengths, c) \in SUBSET AtDepth(lengths, c.bits) /\ IsFiniteSet(AtDepth(lengths, c.bits))
    BY <1>1, LevelTyped DEF Lower
  <1>4. IsFiniteSet(Lower(lengths, c))
    BY <1>3, FS_Subset
  <1>5. c \notin Lower(lengths, c)
    BY <1>2 DEF Lower
  <1>6. inner[c.bits] \in Nat
    BY <1>1, LevelTyped
  <1>7. Cardinality(Lower(lengths, c)) \in Nat
    BY <1>4, FS_CardinalityType
  <1>8. Cardinality(Lower(lengths, c) \cup {c}) = Cardinality(Lower(lengths, c)) + 1
    BY <1>4, <1>5, FS_AddElement
  <1>9. inner[c.bits] + Cardinality(Lower(lengths, c)) \in Nat
    BY <1>6, <1>7
  <1> QED
    BY <1>1, <1>2, <1>4, <1>5, <1>6, <1>7, <1>8, <1>9 DEF ValueIn

(* The leaves of a level have the numbers behind those of its inner nodes. *)
LEMMA ValueRange ==
  ASSUME NEW lengths, NEW inner, Balanced(lengths, inner), NEW c \in lengths
  PROVE  /\ inner[c.bits] <= ValueIn(lengths, inner, c)
         /\ ValueIn(lengths, inner, c) + 1 <= inner[c.bits] + Cardinality(AtDepth(lengths, c.bits))
         /\ (\A d \in AtDepth(lengths, c.bits) : d.symbol <= c.symbol) =>
              ValueIn(lengths, inner, c) + 1 = inner[c.bits] + Cardinality(AtDepth(lengths, c.bits))
         /\ (\A d \in AtDepth(lengths, c.bits) : d.symbol >= c.symbol) =>
              ValueIn(lengths, inner, c) = inner[c.bits]
  <1>1. PICK B, A : B = Lower(lengths, c) /\ A = AtDepth(lengths, c.bits)
    OBVIOUS
  <1>2. PICK b \in Nat, a \in Nat, i \in Nat :
           /\ b = Cardinality(B) /\ a = Cardinality(A) /\ i = inner[c.bits]
           /\ Cardinality(B \cup {c}) = b + 1 /\ ValueIn(lengths, inner, c) = i + b
           /\ IsFiniteSet(A) /\ IsFiniteSet(B)
    <2>1. c.bits \in Nat
      BY LowerTyped
    <2> QED
      BY <1>1, <2>1, LowerTyped, LevelTyped
  <1>3. B \cup {c} \in SUBSET A
    BY <1>1 DEF Lower, AtDepth
  <1>4. b + 1 <= a
    BY <1>2, <1>3, FS_Subset
  <1>5. ASSUME \A d \in A : d.symbol <= c.symbol PROVE a = b + 1
    <2>1. A \in SUBSET (B \cup {c})
      <3> SUFFICES ASSUME NEW d \in A, d # c PROVE d \in B
        OBVIOUS
      <3>1. d \in lengths
        BY <1>1 DEF AtDepth
      <3>2. d.symbol # c.symbol
        BY <3>1 DEF Balanced
      <3>3. d.symbol \in Nat /\ c.symbol \in Nat
        BY <3>1, LowerTyped
      <3>4. d.symbol < c.symbol
        BY <1>5, <3>2, <3>3
      <3> QED
        BY <1>1, <3>4 DEF Lower
    <2>2. A = B \cup {c}
      BY <1>3, <2>1
    <2> QED
      BY <1>2, <2>2
  <1>6. ASSUME \A d \in A : d.symbol >= c.symbol PROVE b = 0
    <2>1. B = {}
      <3> SUFFICES ASSUME NEW d \in B PROVE FALSE
        OBVIOUS
      <3>1. d \in A /\ d.symbol < c.symbol /\ d \in lengths
        BY <1>1 DEF Lower, AtDepth
      <3>2. d.symbol \in Nat /\ c.symbol \in Nat
        BY <3>1, LowerTyped
      <3> QED
        BY <1>6, <3>1, <3>2
    <2> QED
      BY <1>2, <2>1, FS_EmptySet
  <1> QED
    BY <1>1, <1>2, <1>4, <1>5, <1>6

(* The value of a code fits into its length. *)
LEMMA ValueFits ==
  ASSUME NEW lengths, NEW inner, Balanced(lengths, inner), NEW c \in lengths, c.bits <= NoLength
  PROVE  ValueIn(lengths, inner, c) \in 0 .. 2^c.bits - 1
  <1>1. PICK b \in Nat, v \in Nat : b = c.bits /\ v = ValueIn(lengths, inner, c) /\ b <= SymbolBits + NoLength
    <2>1. c.bits \in Nat /\ ValueIn(lengths, inner, c) \in Nat
      BY LowerTyped
    <2>2. c.bits <= SymbolBits + NoLength
      BY <2>1, Ranges
    <2> QED
      BY <2>1, <2>2
  <1>2. PICK n \in Nat : n = inner[b] + Cardinality(AtDepth(lengths, b))
    BY LevelTyped
  <1>3. v + 1 <= n
    BY <1>1, <1>2, ValueRange
  <1>4. PICK P \in Nat \ {0} : P = 2^b
    BY <1>1, Powers
  <1>5. n <= P
    <2>1. CASE b = 0
      <3>1. n = 1
        BY <1>2, <2>1 DEF Balanced
      <3> QED
        BY <1>4, <3>1
    <2>2. CASE b # 0
      <3>1. PICK z \in Nat, d \in Nat : z = inner[0] /\ d = Cardinality(AtDepth(lengths, 0)) /\ z + d = 1
        <4>1. inner[0] \in Nat /\ Cardinality(AtDepth(lengths, 0)) \in Nat
          BY LevelTyped
        <4> QED
          BY <4>1 DEF Balanced
      <3>2. inner[0 + b] + Cardinality(AtDepth(lengths, 0 + b)) <= 2^b * inner[0]
        BY <1>1, <2>2, LevelFull
      <3>3. 0 + b = b
        OBVIOUS
      <3>4. n <= P * z
        BY <1>2, <1>4, <3>1, <3>2, <3>3
      <3>5. z = 0 \/ z = 1
        BY <3>1
      <3>6. P * z <= P
        BY <3>5
      <3>7. P * z \in Nat
        OBVIOUS
      <3> QED
        BY <3>4, <3>6, <3>7
    <2> QED
      BY <2>1, <2>2
  <1> QED
    BY <1>1, <1>3, <1>4, <1>5

(* Codes of one length are numbered in the order of their symbols.         *)
LEMMA SameDepth ==
  ASSUME NEW lengths, NEW inner, Balanced(lengths, inner), NEW c \in lengths, NEW d \in lengths,
         c.bits = d.bits, c.symbol < d.symbol
  PROVE  /\ ValueIn(lengths, inner, c) + 1 <= ValueIn(lengths, inner, d)
         /\ (\A e \in AtDepth(lengths, c.bits) : ~(c.symbol < e.symbol /\ e.symbol < d.symbol)) =>
              ValueIn(lengths, inner, d) = ValueIn(lengths, inner, c) + 1
  <1>1. PICK C, D : C = Lower(lengths, c) /\ D = Lower(lengths, d)
    OBVIOUS
  <1>2. PICK x \in Nat, y \in Nat, i \in Nat :
           /\ x = Cardinality(C) /\ y = Cardinality(D) /\ i = inner[c.bits] /\ i = inner[d.bits]
           /\ Cardinality(C \cup {c}) = x + 1
           /\ ValueIn(lengths, inner, c) = i + x /\ ValueIn(lengths, inner, d) = i + y
           /\ IsFiniteSet(D)
    <2>1. /\ Cardinality(Lower(lengths, c)) \in Nat /\ inner[c.bits] \in Nat
          /\ Cardinality(Lower(lengths, c) \cup {c}) = Cardinality(Lower(lengths, c)) + 1
          /\ ValueIn(lengths, inner, c) = inner[c.bits] + Cardinality(Lower(lengths, c))
      BY LowerTyped
    <2>2. /\ Cardinality(Lower(lengths, d)) \in Nat /\ IsFiniteSet(Lower(lengths, d))
          /\ ValueIn(lengths, inner, d) = inner[d.bits] + Cardinality(Lower(lengths, d))
      BY LowerTyped
    <2> QED
      BY <1>1, <2>1, <2>2
  <1>3. \A e \in lengths : e.symbol \in Nat
    BY LowerTyped
  <1>4. C \cup {c} \in SUBSET D
    <2>1. c \in D
      BY <1>1 DEF Lower, AtDepth
    <2>2. ASSUME NEW e \in C PROVE e \in D
      <3>1. e \in lengths /\ e.bits = c.bits /\ e.symbol < c.symbol
        BY <1>1 DEF Lower, AtDepth
      <3>2. e.symbol < d.symbol
        BY <1>3, <3>1
      <3> QED
        BY <1>1, <3>1, <3>2 DEF Lower, AtDepth
    <2> QED
      BY <2>1, <2>2
  <1>5. x + 1 <= y
    BY <1>2, <1>4, FS_Subset
  <1>6. ASSUME \A e \in AtDepth(lengths, c.bits) : ~(c.symbol < e.symbol /\ e.symbol < d.symbol)
        PROVE  y = x + 1
    <2>1. D \in SUBSET (C \cup {c})
      <3> SUFFICES ASSUME NEW e \in D, e # c PROVE e \in C
        OBVIOUS
      <3>1. e \in lengths /\ e.bits = c.bits /\ e.symbol < d.symbol /\ e \in AtDepth(lengths, c.bits)
        BY <1>1 DEF Lower, AtDepth
      <3>2. e.symbol # c.symbol
        BY <3>1 DEF Balanced
      <3>3. e.symbol < c.symbol
        BY <1>3, <1>6, <3>1, <3>2
      <3> QED
        BY <1>1, <3>1, <3>3 DEF Lower
    <2>2. D = C \cup {c}
      BY <1>4, <2>1
    <2> QED
      BY <1>2, <2>2
  <1> QED
    BY <1>2, <1>5, <1>6

(* Shifting out twice is shifting out at once. *)
LEMMA QuotientBounds ==
  ASSUME NEW q \in Nat \ {0}, NEW a \in Nat, NEW v \in Nat
  PROVE  /\ v < q * a => v \div q < a
         /\ v = q * a => v \div q = a
  <1>1. PICK w \in Nat, x \in Nat : w = v \div q /\ v = q * w + x /\ x < q
    BY DivMod
  <1>2. q * w \in Nat /\ q * a \in Nat
    OBVIOUS
  <1>3. w < a => q * w + q <= q * a
    BY Apart
  <1>4. a < w => q * a + q <= q * w
    BY Apart
  <1>5. v < q * a => w # a /\ ~(a < w)
    BY <1>1, <1>2, <1>4
  <1>6. v = q * a => ~(w < a) /\ ~(a < w)
    BY <1>1, <1>2, <1>3, <1>4
  <1> QED
    BY <1>1, <1>5, <1>6

(* No code is the beginning of another one.                                *)
LEMMA ValuesApart ==
  ASSUME NEW lengths, NEW inner, Balanced(lengths, inner), NEW c \in lengths, NEW d \in lengths,
         c # d, d.bits <= c.bits, c.bits <= NoLength
  PROVE  ValueIn(lengths, inner, c) \div 2^(c.bits - d.bits) # ValueIn(lengths, inner, d)
  <1>1. PICK v \in Nat, w \in Nat : v = ValueIn(lengths, inner, c) /\ w = ValueIn(lengths, inner, d)
    BY LowerTyped
  <1>2. PICK m \in Nat, j \in Nat : m = d.bits /\ j = c.bits - d.bits /\ m + j = c.bits /\ j <= SymbolBits + NoLength
    <2>1. c.bits \in Nat /\ d.bits \in Nat
      BY LowerTyped
    <2> QED
      BY <2>1, Ranges
  <1>3. CASE j = 0
    <2>0. 2^j = 1 /\ v \div 1 = v
      BY <1>3, Powers
    <2>1. c.bits = d.bits
      BY <1>2, <1>3
    <2>2. c.symbol # d.symbol /\ c.symbol \in Nat /\ d.symbol \in Nat
      <3>1. c.symbol # d.symbol
        BY DEF Balanced
      <3> QED
        BY <3>1, LowerTyped
    <2>3. CASE c.symbol < d.symbol
      <3>1. v + 1 <= w
        BY <1>1, <2>1, <2>3, SameDepth
      <3>2. v # w
        BY <3>1
      <3> QED
        BY <1>1, <1>2, <2>0, <3>2
    <2>4. CASE d.symbol < c.symbol
      <3>1. w + 1 <= v
        BY <1>1, <2>1, <2>4, SameDepth
      <3>2. v # w
        BY <3>1
      <3> QED
        BY <1>1, <1>2, <2>0, <3>2
    <2> QED
      BY <2>2, <2>3, <2>4
  <1>4. CASE j # 0
    <2>1. PICK q \in Nat \ {0} : q = 2^j
      BY <1>2, Powers
    <2>2. PICK a \in Nat, n \in Nat : a = inner[m] /\ n = inner[m + j] + Cardinality(AtDepth(lengths, m + j))
      <3>1. m + j \in Nat
        BY <1>2
      <3>2. inner[m] \in Nat /\ inner[m + j] \in Nat /\ Cardinality(AtDepth(lengths, m + j)) \in Nat
        BY <1>1, <3>1, LevelTyped
      <3>3. PICK x \in Nat, y \in Nat : x = inner[m + j] /\ y = Cardinality(AtDepth(lengths, m + j))
        BY <3>2
      <3>4. x + y \in Nat
        OBVIOUS
      <3> QED
        BY <3>2, <3>3, <3>4
    <2>3. v + 1 <= n
      BY <1>1, <1>2, <2>2, ValueRange
    <2>4. n <= q * a
      BY <1>2, <1>4, <2>1, <2>2, LevelFull
    <2>5. v < q * a
      <3>1. q * a \in Nat
        OBVIOUS
      <3> QED
        BY <2>3, <2>4, <3>1
    <2>6. v \div q < a
      BY <2>5, QuotientBounds
    <2>7. a <= w
      BY <1>1, <1>2, <2>2, ValueRange
    <2>8. v \div q \in Nat
      BY DivMod
    <2>9. v \div q # w
      BY <2>6, <2>7, <2>8
    <2> QED
      BY <1>1, <1>2, <2>1, <2>9
  <1> QED
    BY <1>3, <1>4

(* The value that is computed when codes get shorter.                      *)
LEMMA NextShorter ==
  ASSUME NEW lengths, NEW inner, Balanced(lengths, inner), NEW c \in lengths, NEW d \in lengths,
         d.bits < c.bits, c.bits <= NoLength,
         \A e \in lengths : ~(d.bits < e.bits /\ e.bits < c.bits),
         \A e \in AtDepth(lengths, c.bits) : e.symbol <= c.symbol,
         \A e \in AtDepth(lengths, d.bits) : e.symbol >= d.symbol
  PROVE  (ValueIn(lengths, inner, c) + 1) \div 2^(c.bits - d.bits) = ValueIn(lengths, inner, d)
  <1>1. PICK m \in Nat, j \in Nat \ {0} :
            m = d.bits /\ j = c.bits - d.bits /\ m + j = c.bits /\ j <= SymbolBits + NoLength
    <2>1. c.bits \in Nat /\ d.bits \in Nat
      BY LowerTyped
    <2> QED
      BY <2>1, Ranges
  <1>2. PICK q \in Nat \ {0} : q = 2^j
    BY <1>1, Powers
  <1>3. PICK a \in Nat : a = inner[m] /\ ValueIn(lengths, inner, d) = a
    BY <1>1, LevelTyped, ValueRange
  <1>4. PICK v \in Nat : v = ValueIn(lengths, inner, c) + 1
    <2>1. ValueIn(lengths, inner, c) \in Nat
      BY LowerTyped
    <2> QED
      BY <2>1
  <1>5. v = inner[m + j] + Cardinality(AtDepth(lengths, m + j))
    BY <1>1, <1>4, ValueRange
  <1>6. v = q * a
    <2>1. \A e \in lengths : ~(m < e.bits /\ e.bits < m + j)
      BY <1>1
    <2>2. inner[m + j] + Cardinality(AtDepth(lengths, m + j)) = 2^j * inner[m]
      BY <1>1, <2>1, LevelFull
    <2> QED
      BY <1>2, <1>3, <1>5, <2>2
  <1>7. v \div q = a
    BY <1>6, QuotientBounds
  <1> QED
    BY <1>1, <1>2, <1>3, <1>4, <1>7

-----------------------------------------------------------------------------
(* The numbers of the codes.                                               *)

(* What is numbered earlier: longer codes, and those of lower symbols. *)
Earlier(c, d) == c.bits > d.bits \/ (c.bits = d.bits /\ c.symbol < d.symbol)

(* Of the codes that are left one comes first. *)
LEMMA LongestIs ==
  ASSUME NEW left \in SUBSET Lengths, left # {}, \A c, d \in left : c.symbol = d.symbol => c = d
  PROVE  Longest(left) \in left /\ \A d \in left : d # Longest(left) => Earlier(Longest(left), d)
  <1>1. PICK B \in Nat : B = NoLength
    BY Ranges
  <1>2. \A c \in left : c.bits \in Nat /\ c.bits <= B /\ c.symbol \in Nat
    <2>1. \A s \in 0 .. MAX_SYMBOL - 1 : s \in Nat
      BY Ranges
    <2> QED
      BY <1>1, <2>1 DEF Lengths, Symbols
  <1>3. PICK T : T = {B - c.bits : c \in left}
    OBVIOUS
  <1>4. PICK k \in T : \A d \in Nat : d < k => d \notin T
    <2>1. T \in SUBSET Nat /\ T # {}
      BY <1>2, <1>3
    <2> QED
      BY <2>1, LeastMember
  <1>5. PICK R : R = {c \in left : B - c.bits = k}
    OBVIOUS
  <1>6. PICK N : N = {c.symbol : c \in R}
    OBVIOUS
  <1>7. PICK j \in N : \A d \in Nat : d < j => d \notin N
    <2>1. N \in SUBSET Nat
      BY <1>2, <1>5, <1>6
    <2>2. N # {}
      BY <1>3, <1>4, <1>5, <1>6
    <2> QED
      BY <2>1, <2>2, LeastMember
  <1>8. PICK c \in R : j = c.symbol
    BY <1>6, <1>7
  <1>9. c \in left /\ B - c.bits = k
    BY <1>5, <1>8
  <1>10. ASSUME NEW d \in left PROVE c.bits > d.bits \/ (c.bits = d.bits /\ c.symbol <= d.symbol)
    <2>1. B - d.bits \in T /\ B - d.bits \in Nat
      BY <1>2, <1>3
    <2>2. ~(B - d.bits < k)
      BY <1>4, <2>1
    <2>3. c.bits \in Nat /\ d.bits \in Nat /\ c.symbol \in Nat /\ d.symbol \in Nat
      BY <1>2, <1>9
    <2>4. c.bits >= d.bits
      BY <1>9, <2>2, <2>3
    <2>5. CASE c.bits = d.bits
      <3>1. d \in R
        BY <1>5, <1>9, <2>5
      <3>2. d.symbol \in N
        BY <1>6, <3>1
      <3>3. ~(d.symbol < j)
        BY <1>7, <2>3, <3>2
      <3> QED
        BY <1>8, <2>3, <2>5, <3>3
    <2> QED
      BY <2>3, <2>4, <2>5
  <1>11. PICK l : l = Longest(left)
    OBVIOUS
  <1>12. l \in left /\ \A d \in left : l.bits > d.bits \/ (l.bits = d.bits /\ l.symbol <= d.symbol)
    BY <1>9, <1>10, <1>11 DEF Longest
  <1>13. ASSUME NEW d \in left, d # l PROVE Earlier(l, d)
    <2>1. l.symbol # d.symbol /\ l.symbol \in Nat /\ d.symbol \in Nat
      BY <1>2, <1>12, <1>13
    <2> QED
      BY <1>12, <2>1 DEF Earlier
  <1> QED
    BY <1>11, <1>12, <1>13

(* The lengths fit into their field; NoLength says that there are none. *)
IsShort(lengths) == \A c \in lengths : c.bits < NoLength

(* A code without its value. *)
Entry(c) == [symbol |-> c.symbol, bits |-> c.bits]

(* What has been numbered of a tree, and what is left. *)
Numbering(lengths, inner, left, table) ==
  /\ left \in SUBSET lengths
  /\ table \in Seq(Codes)
  /\ Cardinality(left) + Len(table) = Cardinality(lengths)
  /\ \A d \in lengths \ left : \A c \in left : Earlier(d, c)
  /\ \A i \in 1 .. Len(table) :
       /\ Entry(table[i]) \in lengths \ left
       /\ table[i].value = ValueIn(lengths, inner, Entry(table[i]))
       /\ \A j \in 1 .. i - 1 : Earlier(table[i], table[j])
  /\ \A c \in lengths \ left : \E i \in 1 .. Len(table) : Entry(table[i]) = c

(* The lengths of a tree are lengths of codes. *)
LEMMA TreeTyped ==
  ASSUME NEW lengths, NEW inner, Balanced(lengths, inner), IsShort(lengths)
  PROVE  /\ lengths \in SUBSET Lengths
         /\ \A c \in lengths : /\ c.bits \in Nat /\ c.symbol \in Nat /\ c.bits < NoLength
                               /\ c = Entry(c) /\ c \in Lengths
  <1>1. ASSUME NEW c \in lengths
        PROVE  c.bits \in Nat /\ c.symbol \in Nat /\ c.bits < NoLength /\ c = Entry(c) /\ c \in Lengths
    <2>1. c \in AnyLengths
      BY DEF Balanced
    <2>2. c.bits \in Nat /\ c.symbol \in Nat /\ c.bits < NoLength /\ c.symbol \in Symbols
      BY LowerTyped DEF IsShort
    <2>3. c = Entry(c)
      BY <2>1 DEF Entry, AnyLengths
    <2>4. c.bits \in 0 .. NoLength
      BY <2>2, Ranges
    <2> QED
      BY <2>2, <2>3, <2>4 DEF Lengths, Entry
  <1> QED
    BY <1>1

(* The first and each next value. *)
LEMMA NextValueIs ==
  ASSUME NEW lengths, NEW inner, Balanced(lengths, inner), IsShort(lengths),
         NEW left, NEW table, Numbering(lengths, inner, left, table),
         NEW c \in left, \A d \in left : d # c => Earlier(c, d)
  PROVE  NextValue(table, c.bits) = ValueIn(lengths, inner, c)
  <1>1. c \in lengths /\ c.bits \in Nat /\ c.symbol \in Nat /\ c.bits < NoLength
    BY TreeTyped DEF Numbering
  <1>2. \A e \in lengths : e.bits \in Nat /\ e.symbol \in Nat /\ e.bits < NoLength /\ e = Entry(e)
    BY TreeTyped
  <1>3. table \in Seq(Codes) /\ left \in SUBSET lengths /\ c.bits <= NoLength
    BY <1>1, Ranges DEF Numbering
  <1>4. CASE table = <<>>
    <2>1. left = lengths
      BY <1>4 DEF Numbering
    <2>2. \A d \in AtDepth(lengths, c.bits) : d.symbol >= c.symbol
      <3> SUFFICES ASSUME NEW d \in AtDepth(lengths, c.bits) PROVE d.symbol >= c.symbol
        OBVIOUS
      <3>1. d \in lengths /\ d.bits = c.bits /\ d.bits \in Nat /\ d.symbol \in Nat
        BY <1>2 DEF AtDepth
      <3>2. d = c \/ Earlier(c, d)
        BY <2>1, <3>1
      <3> QED
        BY <1>1, <3>1, <3>2 DEF Earlier
    <2>3. ValueIn(lengths, inner, c) = inner[c.bits]
      BY <1>1, <2>2, ValueRange
    <2>4. ~\E d \in lengths : d.bits > c.bits
      <3> SUFFICES ASSUME NEW d \in lengths, d.bits > c.bits PROVE FALSE
        OBVIOUS
      <3>1. d.bits \in Nat
        BY <1>2
      <3>2. d # c
        BY <1>1
      <3> QED
        BY <1>1, <2>1, <3>1, <3>2 DEF Earlier
    <2>5. inner[c.bits] \in Nat /\ ~(inner[c.bits] > 0)
      BY <1>1, <2>4, LevelTyped DEF Balanced
    <2> QED
      BY <1>4, <2>3, <2>5 DEF NextValue
  <1>5. CASE table # <<>>
    <2>1. Len(table) \in Nat \ {0} /\ Head(table) = table[1] /\ table[1] \in Codes /\ 1 \in 1 .. Len(table)
      BY <1>3, <1>5
    <2>2. PICK p : p = Entry(table[1])
      OBVIOUS
    <2>3. /\ p \in lengths /\ p \notin left /\ p.bits = table[1].bits /\ p.symbol = table[1].symbol
          /\ table[1].value = ValueIn(lengths, inner, p) /\ Earlier(p, c)
      <3>1. p \in lengths \ left /\ table[1].value = ValueIn(lengths, inner, p)
        BY <2>1, <2>2 DEF Numbering
      <3>2. p.bits = table[1].bits /\ p.symbol = table[1].symbol
        BY <2>2 DEF Entry
      <3> QED
        BY <3>1, <3>2 DEF Numbering
    <2>4. p.bits \in Nat /\ p.symbol \in Nat /\ p.bits <= NoLength
      BY <1>2, <2>3, Ranges
    <2>5. ASSUME NEW e \in lengths
          PROVE  \/ e = p \/ e = c
                 \/ e \notin left /\ Earlier(e, p)
                 \/ e \in left /\ Earlier(c, e)
      <3>1. CASE e \in left
        BY <3>1
      <3>2. CASE e \notin left
        <4>1. PICK i \in 1 .. Len(table) : Entry(table[i]) = e
          BY <3>2 DEF Numbering
        <4>2. CASE i = 1
          BY <2>2, <4>1, <4>2
        <4>3. CASE i # 1
          <5>1. 1 \in 1 .. i - 1
            BY <2>1, <4>3
          <5>2. Earlier(table[i], table[1])
            BY <5>1 DEF Numbering
          <5>3. Earlier(e, p)
            BY <2>2, <4>1, <5>2 DEF Earlier, Entry
          <5> QED
            BY <3>2, <5>3
        <4> QED
          BY <4>2, <4>3
      <3> QED
        BY <3>1, <3>2
    <2>6. NextValue(table, c.bits) = (ValueIn(lengths, inner, p) + 1) \div 2^(p.bits - c.bits)
      BY <1>5, <2>1, <2>3 DEF NextValue
    <2>7. CASE p.bits = c.bits
      <3>1. p.symbol < c.symbol
        BY <1>1, <2>3, <2>4, <2>7 DEF Earlier
      <3>2. \A e \in AtDepth(lengths, p.bits) : ~(p.symbol < e.symbol /\ e.symbol < c.symbol)
        <4> SUFFICES ASSUME NEW e \in AtDepth(lengths, p.bits), p.symbol < e.symbol, e.symbol < c.symbol PROVE FALSE
          OBVIOUS
        <4>1. e \in lengths /\ e.bits = p.bits /\ e.bits \in Nat /\ e.symbol \in Nat
          BY <1>2 DEF AtDepth
        <4> QED
          BY <1>1, <2>4, <2>5, <2>7, <4>1 DEF Earlier
      <3>3. ValueIn(lengths, inner, c) = ValueIn(lengths, inner, p) + 1
        BY <1>1, <2>3, <2>7, <3>1, <3>2, SameDepth
      <3>4. PICK v \in Nat : v = ValueIn(lengths, inner, c)
        BY <1>1, LowerTyped
      <3>5. 2^(p.bits - c.bits) = 1
        <4>1. p.bits - c.bits = 0
          BY <1>1, <2>7
        <4> QED
          BY <4>1, PowersOfTwo
      <3>6. v \div 1 = v
        OBVIOUS
      <3> QED
        BY <2>6, <3>3, <3>4, <3>5, <3>6
    <2>8. CASE p.bits # c.bits
      <3>1. c.bits < p.bits
        BY <1>1, <2>3, <2>4, <2>8 DEF Earlier
      <3>2. \A e \in lengths : ~(c.bits < e.bits /\ e.bits < p.bits)
        <4> SUFFICES ASSUME NEW e \in lengths, c.bits < e.bits, e.bits < p.bits PROVE FALSE
          OBVIOUS
        <4>1. e.bits \in Nat
          BY <1>2
        <4> QED
          BY <1>1, <2>4, <2>5, <4>1 DEF Earlier
      <3>3. \A e \in AtDepth(lengths, p.bits) : e.symbol <= p.symbol
        <4> SUFFICES ASSUME NEW e \in AtDepth(lengths, p.bits) PROVE e.symbol <= p.symbol
          OBVIOUS
        <4>1. e \in lengths /\ e.bits = p.bits /\ e.bits \in Nat /\ e.symbol \in Nat
          BY <1>2 DEF AtDepth
        <4> QED
          BY <1>1, <2>4, <2>5, <3>1, <4>1 DEF Earlier
      <3>4. \A e \in AtDepth(lengths, c.bits) : e.symbol >= c.symbol
        <4> SUFFICES ASSUME NEW e \in AtDepth(lengths, c.bits) PROVE e.symbol >= c.symbol
          OBVIOUS
        <4>1. e \in lengths /\ e.bits = c.bits /\ e.bits \in Nat /\ e.symbol \in Nat
          BY <1>2 DEF AtDepth
        <4> QED
          BY <1>1, <2>4, <2>5, <3>1, <4>1 DEF Earlier
      <3>5. (ValueIn(lengths, inner, p) + 1) \div 2^(p.bits - c.bits) = ValueIn(lengths, inner, c)
        BY <1>1, <2>3, <2>4, <3>1, <3>2, <3>3, <3>4, NextShorter
      <3> QED
        BY <2>6, <3>5
    <2> QED
      BY <2>7, <2>8
  <1> QED
    BY <1>4, <1>5

(* One turn of the loop that numbers the codes. *)
LEMMA NumberedStep ==
  ASSUME NEW lengths, NEW inner, Balanced(lengths, inner), IsShort(lengths),
         NEW t, t = [left |-> t.left, table |-> t.table],
         Numbering(lengths, inner, t.left, t.table), t.left # {}
  PROVE  LET u == WithNext[t]
         IN  /\ u = [left |-> u.left, table |-> u.table]
             /\ Numbering(lengths, inner, u.left, u.table)
             /\ Len(u.table) = Len(t.table) + 1
  <1>1. PICK left, table : left = t.left /\ table = t.table /\ t = [left |-> left, table |-> table]
    OBVIOUS
  <1>2. Numbering(lengths, inner, left, table) /\ left # {} /\ table \in Seq(Codes) /\ left \in SUBSET lengths
    BY <1>1 DEF Numbering
  <1>3. left \in SUBSET Lengths
    BY <1>2, TreeTyped
  <1>4. PICK c : /\ c = Longest(left) /\ c \in left /\ c \in lengths /\ c \in Lengths
                 /\ \A d \in left : d # c => Earlier(c, d)
    <2>1. \A a, b \in left : a.symbol = b.symbol => a = b
      BY <1>2 DEF Balanced
    <2>2. Longest(left) \in left /\ \A d \in left : d # Longest(left) => Earlier(Longest(left), d)
      BY <1>2, <1>3, <2>1, LongestIs
    <2> QED
      BY <1>2, <1>3, <2>2
  <1>5. PICK v \in Nat : v = NextValue(table, c.bits) /\ v = ValueIn(lengths, inner, c)
    <2>1. ValueIn(lengths, inner, c) \in Nat
      BY <1>4, LowerTyped
    <2>2. NextValue(table, c.bits) = ValueIn(lengths, inner, c)
      BY <1>2, <1>4, NextValueIs
    <2> QED
      BY <2>1, <2>2
  <1>6. PICK x : x = [symbol |-> c.symbol, bits |-> c.bits, value |-> v]
    OBVIOUS
  <1>7. x \in Codes /\ Entry(x) = c
    <2>1. Entry(x) = Entry(c) /\ c = Entry(c)
      BY <1>4, <1>6, TreeTyped DEF Entry
    <2> QED
      BY <1>4, <1>6, <2>1 DEF Codes, Lengths
  <1>8. PICK rest, more : rest = left \ {c} /\ more = <<x>> \o table
    OBVIOUS
  <1>9. WithNext[t] = [left |-> rest, table |-> more]
    <2>1. t \in [left : SUBSET Lengths, table : Seq(Codes)]
      BY <1>1, <1>2, <1>3
    <2>2. WithNext[t] = [left |-> left \ {c},
             table |-> <<[symbol |-> c.symbol, bits |-> c.bits, value |-> NextValue(table, c.bits)]>> \o table]
      BY <1>1, <1>4, <2>1 DEF WithNext, Numberings
    <2> QED
      BY <1>5, <1>6, <1>8, <2>2
  <1>10. PICK n \in Nat : n = Len(table)
    BY <1>2
  <1>11. /\ more \in Seq(Codes) /\ Len(more) = n + 1 /\ more[1] = x
         /\ \A i \in 1 .. n : more[i + 1] = table[i]
    <2>1. <<x>> \in Seq(Codes) /\ Len(<<x>>) = 1 /\ <<x>>[1] = x
      BY <1>7
    <2>2. /\ <<x>> \o table \in Seq(Codes) /\ Len(<<x>> \o table) = 1 + n
          /\ \A i \in 1 .. 1 : (<<x>> \o table)[i] = <<x>>[i]
          /\ \A i \in 1 .. n : (<<x>> \o table)[1 + i] = table[i]
      BY <1>2, <1>10, <2>1, Concatenated
    <2>3. \A i \in 1 .. n : 1 + i = i + 1
      OBVIOUS
    <2> QED
      BY <1>8, <1>10, <2>1, <2>2, <2>3
  <1>12. Cardinality(rest) + (n + 1) = Cardinality(lengths)
    <2>1. IsFiniteSet(left)
      BY <1>2, FS_Subset DEF Balanced
    <2>2. Cardinality(rest) = Cardinality(left) - 1 /\ Cardinality(left) \in Nat
      BY <1>4, <1>8, <2>1, FS_RemoveElement, FS_CardinalityType
    <2>3. Cardinality(left) + n = Cardinality(lengths)
      BY <1>2, <1>10 DEF Numbering
    <2> QED
      BY <2>2, <2>3
  <1>13. ASSUME NEW d \in lengths \ rest, NEW e \in rest PROVE Earlier(d, e)
    <2>1. CASE d = c
      BY <1>4, <1>8, <2>1
    <2>2. CASE d # c
      <3>1. d \in lengths \ left /\ e \in left
        BY <1>8, <2>2
      <3> QED
        BY <1>2, <3>1 DEF Numbering
    <2> QED
      BY <2>1, <2>2
  <1>14. ASSUME NEW i \in 1 .. n + 1
         PROVE  /\ Entry(more[i]) \in lengths \ rest
                /\ more[i].value = ValueIn(lengths, inner, Entry(more[i]))
    <2>1. CASE i = 1
      BY <1>4, <1>5, <1>6, <1>7, <1>8, <1>11, <2>1
    <2>2. CASE i # 1
      <3>1. PICK k \in 1 .. n : i = k + 1
        <4>1. i - 1 \in 1 .. n /\ i = (i - 1) + 1
          BY <1>10, <2>2
        <4> QED
          BY <4>1
      <3>2. Entry(table[k]) \in lengths \ left /\ table[k].value = ValueIn(lengths, inner, Entry(table[k]))
        BY <1>2, <1>10 DEF Numbering
      <3> QED
        BY <1>8, <1>11, <3>1, <3>2
    <2> QED
      BY <2>1, <2>2
  <1>15. ASSUME NEW i \in 1 .. n + 1, NEW j \in 1 .. i - 1 PROVE Earlier(more[i], more[j])
    <2>1. PICK k \in 1 .. n : i = k + 1
      <3>1. i - 1 \in 1 .. n /\ i = (i - 1) + 1
        BY <1>10
      <3> QED
        BY <3>1
    <2>2. CASE j = 1
      <3>1. Entry(table[k]) \in lengths \ left
        BY <1>2, <1>10 DEF Numbering
      <3>2. Earlier(Entry(table[k]), c)
        BY <1>2, <1>4, <3>1 DEF Numbering
      <3>3. Earlier(table[k], x)
        BY <1>6, <3>2 DEF Earlier, Entry
      <3> QED
        BY <1>11, <2>1, <2>2, <3>3
    <2>3. CASE j # 1
      <3>1. PICK l \in 1 .. k - 1 : j = l + 1 /\ l \in 1 .. n
        <4>1. j - 1 \in 1 .. k - 1 /\ j = (j - 1) + 1 /\ j - 1 \in 1 .. n
          BY <1>10, <2>1, <2>3
        <4> QED
          BY <4>1
      <3>2. Earlier(table[k], table[l])
        BY <1>2, <1>10, <3>1 DEF Numbering
      <3> QED
        BY <1>11, <2>1, <3>1, <3>2
    <2> QED
      BY <2>2, <2>3
  <1>16. ASSUME NEW d \in lengths \ rest PROVE \E i \in 1 .. n + 1 : Entry(more[i]) = d
    <2>1. CASE d = c
      <3>1. 1 \in 1 .. n + 1
        BY <1>10
      <3> QED
        BY <1>7, <1>11, <2>1, <3>1
    <2>2. CASE d # c
      <3>1. d \in lengths \ left
        BY <1>8, <2>2
      <3>2. PICK k \in 1 .. n : Entry(table[k]) = d
        BY <1>2, <1>10, <3>1 DEF Numbering
      <3>3. k + 1 \in 1 .. n + 1
        BY <1>10
      <3> QED
        BY <1>11, <3>2, <3>3
    <2> QED
      BY <2>1, <2>2
  <1>17. Numbering(lengths, inner, rest, more)
    <2>1. rest \in SUBSET lengths
      BY <1>2, <1>8
    <2> QED
      BY <1>11, <1>12, <1>13, <1>14, <1>15, <1>16, <2>1 DEF Numbering
  <1> QED
    BY <1>1, <1>9, <1>10, <1>11, <1>17

(* The table of a tree has all its codes. *)
LEMMA CanonicalOf ==
  ASSUME NEW lengths, NEW inner, Balanced(lengths, inner), IsShort(lengths)
  PROVE  Numbering(lengths, inner, {}, Canonical(lengths))
  <1>1. PICK n \in Nat : n = Cardinality(lengths) /\ IsFiniteSet(lengths)
    <2>1. IsFiniteSet(lengths)
      BY DEF Balanced
    <2> QED
      BY <2>1, FS_CardinalityType
  <1>2. PICK first : first = [left |-> lengths, table |-> <<>>]
    OBVIOUS
  <1> DEFINE Loop(f) == f = [k \in 0 .. n |-> IF k = 0 THEN first ELSE WithNext[f[k - 1]]]
             F == CHOOSE f : Loop(f)
  <1>3. \E f : Loop(f)
    <2>1. PICK step : step = [k \in 1 .. n |-> WithNext]
      OBVIOUS
    <2>2. PICK f : Carried(f, step, first, n)
      BY LoopExists
    <2>3. \A k \in 0 .. n : k # 0 => step[k] = WithNext
      BY <2>1
    <2>4. f = [k \in 0 .. n |-> IF k = 0 THEN first ELSE WithNext[f[k - 1]]]
      BY <2>2, <2>3 DEF Carried
    <2> QED
      BY <2>4
  <1>4. Loop(F)
    BY <1>3
  <1>5. Canonical(lengths) = F[n].table
    BY <1>1, <1>2 DEF Canonical
  <1>6. F[0] = first /\ \A k \in 0 .. n : k # 0 => F[k] = WithNext[F[k - 1]]
    <2> HIDE DEF F
    <2>1. 0 \in 0 .. n
      OBVIOUS
    <2> QED
      BY <1>4, <2>1
  <1> HIDE DEF F
  <1> DEFINE Good(k) == /\ F[k] = [left |-> F[k].left, table |-> F[k].table]
                        /\ Numbering(lengths, inner, F[k].left, F[k].table)
                        /\ Len(F[k].table) = k
             Bad == {k \in Nat : k <= n /\ ~Good(k)}
  <1>7. Bad = {}
    <2> SUFFICES ASSUME Bad # {} PROVE FALSE
      OBVIOUS
    <2>1. PICK k \in Bad : k = 0 \/ (k - 1 \in Nat /\ k - 1 \notin Bad)
      <3>1. Bad \in SUBSET Nat
        OBVIOUS
      <3> HIDE DEF Bad
      <3> QED
        BY <3>1, LeastOf
    <2>2. k \in 0 .. n /\ ~Good(k)
      OBVIOUS
    <2>3. CASE k = 0
      <3>1. F[0].left = lengths /\ F[0].table = <<>> /\ F[0] = [left |-> F[0].left, table |-> F[0].table]
        BY <1>2, <1>6
      <3>2. <<>> \in Seq(Codes) /\ Len(<<>>) = 0 /\ n + 0 = n
        OBVIOUS
      <3>3. Numbering(lengths, inner, lengths, <<>>)
        <4>1. \A i : ~(i \in 1 .. Len(<<>>))
          OBVIOUS
        <4> QED
          BY <1>1, <3>2, <4>1 DEF Numbering
      <3> QED
        BY <2>2, <2>3, <3>1, <3>2, <3>3
    <2>4. CASE k # 0
      <3>1. k - 1 \in Nat /\ k - 1 < n /\ Good(k - 1)
        BY <2>1, <2>2, <2>4
      <3>2. PICK t : t = F[k - 1] /\ F[k] = WithNext[t]
        BY <1>6, <2>2, <2>4
      <3>3. t = [left |-> t.left, table |-> t.table] /\ Numbering(lengths, inner, t.left, t.table) /\ Len(t.table) = k - 1
        BY <3>1, <3>2
      <3>4. t.left # {}
        <4>1. Cardinality(t.left) + (k - 1) = n
          BY <1>1, <3>3 DEF Numbering
        <4>2. Cardinality(t.left) = 0 => FALSE
          BY <3>1, <4>1
        <4> QED
          BY <4>2, FS_EmptySet
      <3>5. /\ F[k] = [left |-> F[k].left, table |-> F[k].table]
            /\ Numbering(lengths, inner, F[k].left, F[k].table)
            /\ Len(F[k].table) = Len(t.table) + 1
        BY <3>2, <3>3, <3>4, NumberedStep
      <3>6. Len(F[k].table) = k
        BY <3>1, <3>3, <3>5
      <3> QED
        BY <2>2, <3>5, <3>6
    <2> QED
      BY <2>3, <2>4
  <1>8. Good(n)
    BY <1>7, SMTT(20)
  <1>9. F[n].left = {}
    <2>1. PICK L, t : L = F[n].left /\ t = F[n].table
      OBVIOUS
    <2>2. Cardinality(L) + n = n /\ L \in SUBSET lengths
      BY <1>1, <1>8, <2>1 DEF Numbering
    <2>3. IsFiniteSet(L) /\ Cardinality(L) \in Nat
      BY <1>1, <2>2, FS_Subset, FS_CardinalityType
    <2>4. Cardinality(L) = 0
      BY <2>2, <2>3
    <2> QED
      BY <2>1, <2>3, <2>4, FS_EmptySet
  <1> QED
    BY <1>5, <1>8, <1>9

-----------------------------------------------------------------------------
(* A table, and what is read with it.                                      *)

(* A table of which no code is the beginning of another one. *)
TableOf(lengths, table) ==
  /\ table \in Seq(Codes) /\ Len(table) \in Nat \ {0}
  /\ \A k \in 1 .. Len(table) :
       /\ Entry(table[k]) \in lengths
       /\ table[k].symbol \in Symbols /\ table[k].bits \in Nat /\ table[k].bits < NoLength
       /\ table[k].value \in 0 .. 2^table[k].bits - 1
       /\ \A j \in 1 .. k - 1 :
            /\ table[j].bits <= table[k].bits /\ table[j].symbol # table[k].symbol
            /\ table[k].value \div 2^(table[k].bits - table[j].bits) # table[j].value
  /\ \A c \in lengths : \E k \in 1 .. Len(table) : Entry(table[k]) = c
  /\ Len(table) = 1 => table[1].bits = 0
  /\ Len(table) # 1 => table[Len(table)].bits # 0

(* Canonical numbers a tree so that no code is the beginning of another. *)
LEMMA TableFacts ==
  ASSUME NEW lengths, IsTree(lengths), IsShort(lengths), NEW table, table = Canonical(lengths)
  PROVE  TableOf(lengths, table)
  <1>1. PICK inner : Balanced(lengths, inner)
    BY DEF IsTree
  <1>2. Numbering(lengths, inner, {}, table)
    BY <1>1, CanonicalOf
  <1>3. lengths \ {} = lengths
    OBVIOUS
  <1>4. PICK n \in Nat : n = Len(table) /\ n = Cardinality(lengths) /\ IsFiniteSet(lengths) /\ table \in Seq(Codes)
    <2>1. IsFiniteSet(lengths) /\ table \in Seq(Codes) /\ Cardinality({}) + Len(table) = Cardinality(lengths)
      BY <1>1, <1>2 DEF Balanced, Numbering
    <2>2. Cardinality({}) = 0 /\ Len(table) \in Nat
      BY <2>1, FS_EmptySet
    <2> QED
      BY <2>1, <2>2
  <1>5. n # 0
    BY <1>1, <1>4, FS_EmptySet DEF Balanced
  <1>6. \A k \in 1 .. n : /\ Entry(table[k]) \in lengths
                          /\ table[k].value = ValueIn(lengths, inner, Entry(table[k]))
                          /\ \A j \in 1 .. k - 1 : Earlier(table[k], table[j])
    BY <1>2, <1>3, <1>4 DEF Numbering
  <1>7. \A c : Entry(c).symbol = c.symbol /\ Entry(c).bits = c.bits
    BY DEF Entry
  <1>8. ASSUME NEW k \in 1 .. n
        PROVE  /\ table[k].symbol \in Symbols /\ table[k].bits \in Nat /\ table[k].bits < NoLength
               /\ table[k].symbol \in Nat
               /\ table[k].value \in 0 .. 2^table[k].bits - 1
    <2>1. PICK c : c = Entry(table[k]) /\ c \in lengths /\ c.symbol = table[k].symbol /\ c.bits = table[k].bits
      BY <1>6, <1>7
    <2>2. c.bits \in Nat /\ c.symbol \in Nat /\ c.bits < NoLength /\ c.symbol \in Symbols
      BY <1>1, <2>1, TreeTyped, LowerTyped
    <2>3. c.bits <= NoLength
      BY <2>2, Ranges
    <2>4. ValueIn(lengths, inner, c) \in 0 .. 2^c.bits - 1
      BY <1>1, <2>1, <2>3, ValueFits
    <2> QED
      BY <1>6, <2>1, <2>2, <2>4
  <1>9. ASSUME NEW k \in 1 .. n, NEW j \in 1 .. k - 1
        PROVE  /\ table[j].bits <= table[k].bits /\ table[j].symbol # table[k].symbol
               /\ table[k].value \div 2^(table[k].bits - table[j].bits) # table[j].value
    <2>0. j \in 1 .. n
      BY <1>4
    <2>1. PICK c, d : /\ c = Entry(table[k]) /\ c \in lengths /\ c.symbol = table[k].symbol /\ c.bits = table[k].bits
                      /\ d = Entry(table[j]) /\ d \in lengths /\ d.symbol = table[j].symbol /\ d.bits = table[j].bits
      BY <1>6, <1>7, <2>0
    <2>2. Earlier(c, d)
      BY <1>6, <2>1 DEF Earlier
    <2>3. c.bits \in Nat /\ d.bits \in Nat /\ c.symbol \in Nat /\ d.symbol \in Nat /\ c.bits <= NoLength
      BY <1>8, <2>0, <2>1, Ranges
    <2>4. c # d
      BY <2>2, <2>3 DEF Earlier
    <2>5. d.bits <= c.bits
      BY <2>2, <2>3 DEF Earlier
    <2>6. c.symbol # d.symbol
      BY <1>1, <2>1, <2>4 DEF Balanced
    <2>7. ValueIn(lengths, inner, c) \div 2^(c.bits - d.bits) # ValueIn(lengths, inner, d)
      BY <1>1, <2>1, <2>3, <2>4, <2>5, ValuesApart
    <2>8. table[k].value = ValueIn(lengths, inner, c) /\ table[j].value = ValueIn(lengths, inner, d)
      BY <1>6, <2>0, <2>1
    <2> QED
      BY <2>1, <2>5, <2>6, <2>7, <2>8
  <1>10. \A c \in lengths : \E k \in 1 .. n : Entry(table[k]) = c
    BY <1>2, <1>3, <1>4 DEF Numbering
  <1>11. ASSUME n = 1 PROVE table[1].bits = 0
    <2>1. PICK c : c = Entry(table[1]) /\ c \in lengths /\ c.bits = table[1].bits
      BY <1>6, <1>7, <1>11
    <2>2. \A d \in lengths : d = c
      BY <1>10, <1>11, <2>1
    <2>3. PICK b \in Nat : b = c.bits
      BY <1>1, <2>1, LowerTyped
    <2> SUFFICES ASSUME b # 0 PROVE FALSE
      BY <2>1, <2>3
    <2>4. PICK a \in Nat : b = a + 1
      <3>1. b - 1 \in Nat /\ b = (b - 1) + 1
        OBVIOUS
      <3> QED
        BY <3>1
    <2>5. inner[b] = 0
      <3>1. \A d \in lengths : ~(d.bits > b)
        BY <2>2, <2>3
      <3>2. inner[b] \in Nat /\ ~(inner[b] > 0)
        BY <1>1, <3>1, LevelTyped DEF Balanced
      <3> QED
        BY <3>2
    <2>6. Cardinality(AtDepth(lengths, b)) = 1
      <3>1. AtDepth(lengths, b) = {c}
        BY <2>1, <2>2, <2>3 DEF AtDepth
      <3> QED
        BY <3>1, FS_Singleton
    <2>7. inner[a] \in Nat /\ inner[b] + Cardinality(AtDepth(lengths, b)) = 2 * inner[a]
      BY <1>1, <2>4, LevelTyped
    <2> QED
      BY <2>5, <2>6, <2>7
  <1>12. ASSUME n # 1 PROVE table[n].bits # 0
    <2> SUFFICES ASSUME table[n].bits = 0 PROVE FALSE
      OBVIOUS
    <2>1. n \in 1 .. n /\ 1 \in 1 .. n - 1 /\ 1 \in 1 .. n
      BY <1>5, <1>12
    <2>2. table[1].bits = 0
      BY <1>8, <1>9, <2>1
    <2>3. PICK c, d : c = Entry(table[n]) /\ d = Entry(table[1]) /\ c \in AtDepth(lengths, 0) /\ d \in AtDepth(lengths, 0)
                      /\ c # d
      <3>1. Entry(table[n]) \in lengths /\ Entry(table[1]) \in lengths
        BY <1>6, <2>1
      <3>2. table[1].symbol # table[n].symbol
        BY <1>9, <2>1
      <3> QED
        BY <1>7, <2>2, <3>1, <3>2 DEF AtDepth
    <2>4. PICK a \in Nat : a = Cardinality(AtDepth(lengths, 0)) /\ a <= 1 /\ IsFiniteSet(AtDepth(lengths, 0))
      <3>1. inner[0] \in Nat /\ Cardinality(AtDepth(lengths, 0)) \in Nat /\ IsFiniteSet(AtDepth(lengths, 0))
        BY <1>1, LevelTyped
      <3>2. inner[0] + Cardinality(AtDepth(lengths, 0)) = 1
        BY <1>1 DEF Balanced
      <3> QED
        BY <3>1, <3>2
    <2>5. a = 0 \/ a = 1
      BY <2>4
    <2>6. a # 0
      BY <2>3, <2>4, FS_EmptySet
    <2>7. a = 1 => \E e : AtDepth(lengths, 0) = {e}
      BY <2>4, FS_Singleton
    <2> QED
      BY <2>3, <2>5, <2>6, <2>7
  <1> QED
    BY <1>4, <1>5, <1>6, <1>8, <1>9, <1>10, <1>11, <1>12 DEF TableOf

-----------------------------------------------------------------------------
(* Words in a sequence of bits.                                            *)

(* A word stands in the bits from p on. *)
Bits == {0, 1}
Placed(bits, p, word) == \A i \in 1 .. Len(word) : bits[p + i - 1] = word[i]

(* A word of two, and a number. *)
LEMMA PlacedParts ==
  ASSUME NEW bits, NEW p \in Nat, NEW a \in Seq(Bits), NEW b \in Seq(Bits), Placed(bits, p, a \o b)
  PROVE  /\ Placed(bits, p, a) /\ Placed(bits, p + Len(a), b)
         /\ a \o b \in Seq(Bits) /\ Len(a \o b) = Len(a) + Len(b)
  <1>1. PICK m \in Nat, n \in Nat : m = Len(a) /\ n = Len(b)
    OBVIOUS
  <1>2. /\ a \o b \in Seq(Bits) /\ Len(a \o b) = m + n
        /\ \A i \in 1 .. m : (a \o b)[i] = a[i]
        /\ \A i \in 1 .. n : (a \o b)[m + i] = b[i]
    BY <1>1, Concatenated
  <1>3. ASSUME NEW i \in 1 .. m PROVE bits[p + i - 1] = a[i]
    <2>1. i \in 1 .. Len(a \o b)
      BY <1>2
    <2> QED
      BY <1>2, <2>1 DEF Placed
  <1>4. ASSUME NEW i \in 1 .. n PROVE bits[(p + m) + i - 1] = b[i]
    <2>1. PICK j \in 1 .. Len(a \o b) : j = m + i /\ p + j - 1 = (p + m) + i - 1
      BY <1>2
    <2> QED
      BY <1>2, <2>1 DEF Placed
  <1> QED
    BY <1>1, <1>2, <1>3, <1>4 DEF Placed

LEMMA PlacedNumber ==
  ASSUME NEW bits, NEW p \in Nat, NEW n \in 0 .. SymbolBits + NoLength, NEW v \in 0 .. 2^n - 1,
         Placed(bits, p, Unsigned(n, v))
  PROVE  ValueAt(bits, p, n) = v
  <1>1. v \in Nat
    BY PowersOfTwo
  <1>2. Len(Unsigned(n, v)) = n
    BY <1>1, UnsignedBits
  <1> QED
    BY <1>2, ValueOf DEF Placed

(* Words that are joined stand one behind the other. *)
InPlace(bits, p, n, piece, f) ==
  /\ f[0] = <<>> /\ \A i \in 0 .. n : f[i] \in Seq(Bits)
  /\ \A i \in 1 .. n : Len(f[i]) = Len(f[i - 1]) + Len(piece[i])
  /\ Placed(bits, p, f[n]) => \A i \in 1 .. n : Placed(bits, p + Len(f[i - 1]), piece[i])

LEMMA PlacedPieces ==
  ASSUME NEW bits, NEW p \in Nat, NEW n \in Nat, NEW piece, NEW f,
         \A i \in 1 .. n : piece[i] \in Seq(Bits),
         Gathered(f, piece, n)
  PROVE  InPlace(bits, p, n, piece, f)
  <1> SUFFICES /\ f[0] = <<>> /\ \A i \in 0 .. n : f[i] \in Seq(Bits)
               /\ \A i \in 1 .. n : Len(f[i]) = Len(f[i - 1]) + Len(piece[i])
               /\ Placed(bits, p, f[n]) => \A i \in 1 .. n : Placed(bits, p + Len(f[i - 1]), piece[i])
    BY DEF InPlace
  <1>1. Pieced(f, piece, n, Bits)
    BY GatheredPieces
  <1>2. /\ f[0] = <<>> /\ \A i \in 0 .. n : f[i] \in Seq(Bits)
        /\ \A i \in 1 .. n : Len(f[i]) = Len(f[i - 1]) + Len(piece[i])
        /\ \A i \in 1 .. n : \A x \in 1 .. Len(piece[i]) : f[n][Len(f[i - 1]) + x] = piece[i][x]
    BY <1>1 DEF Pieced
  <1>3. \A i \in 0 .. n : Len(f[i]) \in Nat
    BY <1>2
  <1>4. ASSUME NEW i \in Nat, i <= n PROVE Len(f[i]) <= Len(f[n])
    <2> DEFINE Bad == {k \in Nat : k <= n /\ i <= k /\ ~(Len(f[i]) <= Len(f[k]))}
    <2>1. Bad = {}
      <3> SUFFICES ASSUME Bad # {} PROVE FALSE
        OBVIOUS
      <3>1. PICK k \in Bad : k = 0 \/ (k - 1 \in Nat /\ k - 1 \notin Bad)
        <4>1. Bad \in SUBSET Nat
          OBVIOUS
        <4> HIDE DEF Bad
        <4> QED
          BY <4>1, LeastOf
      <3>2. k \in 0 .. n /\ i \in 0 .. n /\ i <= k /\ ~(Len(f[i]) <= Len(f[k]))
        BY <1>4
      <3>3. CASE k = i
        <4>1. PICK z \in Nat : z = Len(f[i])
          BY <1>3, <3>2
        <4>2. Len(f[i]) <= Len(f[k])
          BY <3>3, <4>1
        <4> QED
          BY <3>2, <4>2
      <3>4. CASE k # i
        <4>1. k \in 1 .. n /\ k - 1 \in 0 .. n /\ Len(f[i]) <= Len(f[k - 1])
          BY <3>1, <3>2, <3>4
        <4>2. piece[k] \in Seq(Bits)
          BY <4>1
        <4>3. PICK x \in Nat, y \in Nat, z \in Nat, w \in Nat :
                  x = Len(f[k - 1]) /\ y = Len(f[k]) /\ z = Len(f[i]) /\ w = Len(piece[k])
          BY <1>3, <3>2, <4>1, <4>2
        <4>4. y = x + w
          BY <1>2, <4>1, <4>3
        <4>5. z <= x /\ ~(z <= y)
          BY <3>2, <4>1, <4>3
        <4> QED
          BY <4>4, <4>5
      <3> QED
        BY <3>3, <3>4
    <2>2. n \notin Bad
      BY <2>1
    <2> QED
      BY <1>4, <2>2
  <1>5. ASSUME Placed(bits, p, f[n]), NEW i \in 1 .. n, NEW x \in 1 .. Len(piece[i])
        PROVE  bits[(p + Len(f[i - 1])) + x - 1] = piece[i][x]
    <2>1. PICK a \in Nat, b \in Nat, c \in Nat, d \in Nat :
              a = Len(f[i - 1]) /\ b = Len(piece[i]) /\ c = Len(f[i]) /\ d = Len(f[n])
      <3>1. i - 1 \in 0 .. n /\ i \in 0 .. n /\ n \in 0 .. n /\ piece[i] \in Seq(Bits)
        OBVIOUS
      <3> QED
        BY <1>3, <3>1
    <2>2. c = a + b /\ c <= d
      <3>1. i \in Nat /\ i <= n
        OBVIOUS
      <3> QED
        BY <1>2, <1>4, <2>1, <3>1
    <2>3. PICK j \in 1 .. d : j = a + x /\ p + j - 1 = (p + a) + x - 1
      <3>1. x \in 1 .. b
        BY <2>1
      <3>2. a + x \in 1 .. d /\ p + (a + x) - 1 = (p + a) + x - 1
        BY <2>2, <3>1
      <3> QED
        BY <3>2
    <2>4. bits[p + j - 1] = f[n][j]
      BY <1>5, <2>1, <2>3 DEF Placed
    <2>5. f[n][j] = piece[i][x]
      BY <1>2, <2>1, <2>3
    <2> QED
      BY <2>1, <2>3, <2>4, <2>5
  <1> QED
    BY <1>2, <1>5 DEF Placed

-----------------------------------------------------------------------------
(* A symbol comes back from its code.                                      *)

(* The first code that matches is the one that was written. *)
LEMMA SymbolDecoded ==
  ASSUME NEW lengths, IsTree(lengths), IsShort(lengths), NEW tree, tree.codes = Canonical(lengths),
         NEW k \in 1 .. Len(tree.codes), NEW bits, NEW p \in Nat,
         Len(bits) \in Nat, p + tree.codes[k].bits <= Len(bits) + 1,
         Placed(bits, p, Unsigned(tree.codes[k].bits, tree.codes[k].value))
  PROVE  decode_symbol(tree, bits, p) =
           {[symbol |-> tree.codes[k].symbol, next |-> p + tree.codes[k].bits]}
  <1>1. PICK T : T = tree.codes
    OBVIOUS
  <1>2. /\ T \in Seq(Codes) /\ Len(T) \in Nat \ {0}
        /\ \A i \in 1 .. Len(T) :
              /\ T[i].bits \in Nat /\ T[i].bits < NoLength
              /\ T[i].value \in 0 .. 2^T[i].bits - 1
              /\ \A j \in 1 .. i - 1 :
                   /\ T[j].bits <= T[i].bits
                   /\ T[i].value \div 2^(T[i].bits - T[j].bits) # T[j].value
    <2>1. T = Canonical(lengths)
      BY <1>1
    <2>2. TableOf(lengths, T)
      BY <2>1, TableFacts
    <2> QED
      BY <2>2 DEF TableOf
  <1>3. PICK n \in Nat, v, e \in Nat : n = T[k].bits /\ v = T[k].value /\ e = Len(bits)
    BY <1>1, <1>2
  <1>4. n \in 0 .. SymbolBits + NoLength /\ v \in 0 .. 2^n - 1
    BY <1>1, <1>2, <1>3, Ranges
  <1>5. v \in Nat /\ Len(Unsigned(n, v)) = n
    <2>1. v \in Nat
      BY <1>4, PowersOfTwo
    <2> QED
      BY <1>4, <2>1, UnsignedBits
  <1>6. \A i \in 1 .. n : bits[p + i - 1] = Unsigned(n, v)[i]
    BY <1>1, <1>3, <1>5 DEF Placed
  <1> DEFINE Match(i) == p + T[i].bits <= e + 1 /\ ValueAt(bits, p, T[i].bits) = T[i].value
  <1>7. Match(k)
    <2>1. ValueAt(bits, p, n) = v
      BY <1>4, <1>6, ValueOf
    <2> QED
      BY <1>1, <1>3, <2>1
  <1>8. ASSUME NEW i \in 1 .. k - 1 PROVE ~Match(i)
    <2>1. PICK m \in Nat : m = T[i].bits /\ m <= n /\ v \div 2^(n - m) # T[i].value
      <3>1. i \in 1 .. Len(T)
        BY <1>1, <1>2
      <3> QED
        BY <1>1, <1>2, <1>3, <3>1
    <2>2. m \in 0 .. n /\ \A x \in 1 .. m : bits[p + x - 1] = Unsigned(n, v)[x]
      <3>1. m \in 0 .. n /\ \A x \in 1 .. m : x \in 1 .. n
        BY <2>1
      <3> HIDE DEF Match
      <3> QED
        BY <1>6, <3>1
    <2>3. ValueAt(bits, p, m) = v \div 2^(n - m)
      BY <1>4, <2>2, HighestBits
    <2> QED
      BY <2>1, <2>3
  <1>9. \A j \in 1 .. Len(T) : (Match(j) /\ \A i \in 1 .. j - 1 : ~Match(i)) <=> j = k
    <2> HIDE DEF Match
    <2>1. ASSUME NEW j \in 1 .. Len(T), Match(j), \A i \in 1 .. j - 1 : ~Match(i) PROVE j = k
      <3>1. k < j => k \in 1 .. j - 1
        BY <1>1, <1>2
      <3>2. j < k => j \in 1 .. k - 1
        BY <1>1, <1>2
      <3>3. ~(k < j) /\ ~(j < k)
        BY <1>7, <1>8, <2>1, <3>1, <3>2
      <3> QED
        BY <1>1, <1>2, <3>3
    <2> QED
      BY <1>7, <1>8, <2>1
  <1>10. T # <<>> /\ DOMAIN T = 1 .. Len(T)
    BY <1>2
  <1>11. decode_symbol(tree, bits, p) =
           {[symbol |-> T[j].symbol, next |-> p + T[j].bits] :
              j \in {x \in DOMAIN T : Match(x) /\ \A i \in 1 .. x - 1 : ~Match(i)}}
    BY <1>1, <1>3, <1>10 DEF decode_symbol
  <1>12. {x \in DOMAIN T : Match(x) /\ \A i \in 1 .. x - 1 : ~Match(i)} = {k}
    <2> HIDE DEF Match
    <2> QED
      BY <1>1, <1>9, <1>10
  <1> HIDE DEF Match
  <1> QED
    BY <1>1, <1>11, <1>12

-----------------------------------------------------------------------------
(* The lengths come back as they were sent.                                *)

LEMMA SmallPowers ==
  /\ 2^0 = 1 /\ 2^1 = 2 /\ 2^2 = 4
  /\ LengthBits >= 3 => 2^3 = 8
  /\ LengthBits >= 4 => 2^4 = 16
  /\ LengthBits >= 5 => 2^5 = 32
  /\ LengthBits \in 1 .. 5 /\ LengthBits \in 0 .. SymbolBits + NoLength
  /\ NoLength \in Nat \ {0} /\ NoLength = 2^LengthBits - 1 /\ SymbolBits \in 0 .. SymbolBits + NoLength
  <1>1. PICK n, l \in Nat, s \in Nat \ {0} : n = NoLength /\ n \in Nat /\ l = LengthBits /\ s = SymbolBits /\ l \in 1 .. 5 /\ l <= s
    BY HuffmanAssumption, PowersOfTwo
  <1>2. \A i \in 0 .. s + n : 2^(i + 1) = 2 * 2^i
    BY <1>1, PowersOfTwo
  <1>3. 2^0 = 1
    BY PowersOfTwo
  <1>4. 2^1 = 2
    <2>1. 0 \in 0 .. s + n /\ 0 + 1 = 1
      BY <1>1
    <2> QED
      BY <1>2, <1>3, <2>1
  <1>5. 2^2 = 4
    <2>1. 1 \in 0 .. s + n /\ 1 + 1 = 2
      BY <1>1
    <2>2. 2^(1 + 1) = 2 * 2^1
      BY <1>2, <2>1
    <2> QED
      BY <1>4, <2>1, <2>2
  <1>6. l >= 3 => 2^3 = 8
    <2>1. l >= 3 => 2 \in 0 .. s + n /\ 2 + 1 = 3
      BY <1>1
    <2>2. l >= 3 => 2^(2 + 1) = 2 * 2^2
      BY <1>2, <2>1
    <2>3. 2 + 1 = 3
      OBVIOUS
    <2> QED
      BY <1>5, <2>2, <2>3
  <1>7. l >= 4 => 2^4 = 16
    <2>1. l >= 4 => l >= 3 /\ 3 \in 0 .. s + n
      BY <1>1
    <2>2. l >= 4 => 2^(3 + 1) = 2 * 2^3
      BY <1>2, <2>1
    <2>3. 3 + 1 = 4
      OBVIOUS
    <2> QED
      BY <1>6, <2>1, <2>2, <2>3
  <1>8. l >= 5 => 2^5 = 32
    <2>1. l >= 5 => l >= 4 /\ 4 \in 0 .. s + n
      BY <1>1
    <2>2. l >= 5 => 2^(4 + 1) = 2 * 2^4
      BY <1>2, <2>1
    <2>3. 4 + 1 = 5
      OBVIOUS
    <2> QED
      BY <1>7, <2>1, <2>2, <2>3
  <1>9. l \in 0 .. s + n /\ s \in 0 .. s + n
    BY <1>1
  <1>10. PICK q : q = 2^l
    OBVIOUS
  <1>11. n = q - 1
    BY <1>1, <1>10 DEF NoLength
  <1>12. n # 0
    <2>1. l = 1 \/ l = 2 \/ l = 3 \/ l = 4 \/ l = 5
      BY <1>1
    <2>3. l = 1 => q = 2
      BY <1>4, <1>10
    <2>4. l = 2 => q = 4
      BY <1>5, <1>10
    <2>5. l = 3 => q = 8
      BY <1>6, <1>10
    <2>6. l = 4 => q = 16
      BY <1>7, <1>10
    <2>7. l = 5 => q = 32
      BY <1>8, <1>10
    <2>2. q = 2 \/ q = 4 \/ q = 8 \/ q = 16 \/ q = 32
      BY <2>1, <2>3, <2>4, <2>5, <2>6, <2>7
    <2> QED
      BY <1>11, <2>2
  <1> QED
    BY <1>1, <1>3, <1>4, <1>5, <1>6, <1>7, <1>8, <1>9, <1>10, <1>11, <1>12

(* bit_width: what is left of a length fits into its field. *)
LEMMA WidthFits ==
  ASSUME NEW d \in 0 .. NoLength
  PROVE  bit_width(d) \in 0 .. SymbolBits + NoLength /\ d \in 0 .. 2^bit_width(d) - 1
  <1>1. PICK l \in Nat, n \in Nat : l = LengthBits /\ n = NoLength /\ l \in 1 .. 5 /\ n = 2^l - 1
    BY SmallPowers
  <1>2. d \in Nat /\ d <= n
    BY <1>1
  <1>3. /\ l = 1 => n = 1
        /\ l = 2 => n = 3
        /\ l = 3 => n = 7
        /\ l = 4 => n = 15
        /\ l = 5 => n = 31
    <2>1. 2^1 = 2 /\ 2^2 = 4 /\ (l = 3 => 2^3 = 8) /\ (l = 4 => 2^4 = 16) /\ (l = 5 => 2^5 = 32)
      BY <1>1, SmallPowers
    <2>2. l = 1 => n = 1
      BY <1>1, <2>1
    <2>3. l = 2 => n = 3
      BY <1>1, <2>1
    <2>4. l = 3 => n = 7
      BY <1>1, <2>1
    <2>5. l = 4 => n = 15
      BY <1>1, <2>1
    <2>6. l = 5 => n = 31
      BY <1>1, <2>1
    <2> QED
      BY <2>2, <2>3, <2>4, <2>5, <2>6
  <1>4. \A i \in 0 .. l : i \in 0 .. SymbolBits + NoLength
    BY <1>1, SmallPowers, Ranges
  <1>5. PICK w \in Nat : w = bit_width(d) /\ w <= l /\ d \in 0 .. 2^w - 1
    <2>1. CASE d < 2
      <3>1. bit_width(d) = 1 /\ 2^1 = 2
        BY <2>1, SmallPowers DEF bit_width
      <3>2. 2^bit_width(d) = 2 /\ 1 <= l /\ d \in 0 .. 2 - 1
        BY <1>1, <1>2, <2>1, <3>1
      <3> QED
        BY <3>1, <3>2
    <2>2. CASE ~(d < 2) /\ d < 4
      <3>1. bit_width(d) = 2 /\ 2^2 = 4
        BY <2>2, SmallPowers DEF bit_width
      <3>2. l >= 2
        BY <1>1, <1>2, <1>3, <2>2
      <3>3. 2^bit_width(d) = 4 /\ d \in 0 .. 4 - 1
        BY <1>2, <2>2, <3>1
      <3> QED
        BY <3>1, <3>2, <3>3
    <2>3. CASE ~(d < 4) /\ d < 8
      <3>0. ~(d < 2)
        BY <1>2, <2>3
      <3>1. bit_width(d) = 3
        BY <2>3, <3>0 DEF bit_width
      <3>2. l >= 3
        BY <1>1, <1>2, <1>3, <2>3
      <3>3. 2^3 = 8
        BY <1>1, <3>2, SmallPowers
      <3>4. 2^bit_width(d) = 8 /\ d \in 0 .. 8 - 1
        BY <1>2, <2>3, <3>1, <3>3
      <3>5. 3 <= l
        BY <1>1, <3>2
      <3> QED
        BY <3>1, <3>4, <3>5
    <2>4. CASE ~(d < 8) /\ d < 16
      <3>0. ~(d < 2) /\ ~(d < 4)
        BY <1>2, <2>4
      <3>1. bit_width(d) = 4
        BY <2>4, <3>0 DEF bit_width
      <3>2. l >= 4
        BY <1>1, <1>2, <1>3, <2>4
      <3>3. 2^4 = 16
        BY <1>1, <3>2, SmallPowers
      <3>4. 2^bit_width(d) = 16 /\ d \in 0 .. 16 - 1
        BY <1>2, <2>4, <3>1, <3>3
      <3>5. 4 <= l
        BY <1>1, <3>2
      <3> QED
        BY <3>1, <3>4, <3>5
    <2>5. CASE ~(d < 16)
      <3>0. ~(d < 2) /\ ~(d < 4) /\ ~(d < 8)
        BY <1>2, <2>5
      <3>1. bit_width(d) = 5
        BY <2>5, <3>0 DEF bit_width
      <3>2. l = 5
        BY <1>1, <1>2, <1>3, <2>5
      <3>3. 2^5 = 32 /\ n = 31
        BY <1>1, <1>3, <3>2, SmallPowers
      <3>4. 2^bit_width(d) = 32 /\ d \in 0 .. 32 - 1
        BY <1>1, <1>2, <3>1, <3>3
      <3>5. 5 <= l
        BY <3>2
      <3> QED
        BY <3>1, <3>4, <3>5
    <2> QED
      BY <1>2, <2>1, <2>2, <2>3, <2>4, <2>5
  <1>6. w \in 0 .. SymbolBits + NoLength
    <2>1. w \in 0 .. l
      BY <1>1, <1>5
    <2> QED
      BY <1>4, <2>1
  <1> QED
    BY <1>5, <1>6

(* A state without symbols has no table. *)
LEMMA NoCodes == Canonical({}) = <<>>
  <1> DEFINE first == [left |-> {}, table |-> <<>>]
             Loop(f, n) == f = [k \in 0 .. n |-> IF k = 0 THEN first ELSE WithNext[f[k - 1]]]
             F == CHOOSE f : Loop(f, Cardinality({}))
  <1>1. Cardinality({}) = 0
    BY FS_EmptySet
  <1>2. \E f : Loop(f, 0)
    <2>1. PICK f : f = [k \in 0 .. 0 |-> first]
      OBVIOUS
    <2>2. f = [k \in 0 .. 0 |-> IF k = 0 THEN first ELSE WithNext[f[k - 1]]]
      <3>1. \A k \in 0 .. 0 : k = 0
        OBVIOUS
      <3> QED
        BY <2>1, <3>1
    <2> QED
      BY <2>2
  <1>3. Loop(F, 0)
    BY <1>1, <1>2
  <1>4. Canonical({}) = F[0].table
    BY <1>1 DEF Canonical
  <1>5. F[0] = first
    <2> HIDE DEF F
    <2>1. 0 \in 0 .. 0
      OBVIOUS
    <2> QED
      BY <1>3, <2>1
  <1> QED
    BY <1>4, <1>5

(* A symbol has one code. *)
LEMMA CodeOfIs ==
  ASSUME NEW lengths, NEW table, TableOf(lengths, table), NEW k \in 1 .. Len(table)
  PROVE  CodeOf(table, table[k].symbol) = table[k]
  <1>1. DOMAIN table = 1 .. Len(table) /\ Len(table) \in Nat
    BY DEF TableOf
  <1>2. PICK S : S = {table[i] : i \in DOMAIN table}
    OBVIOUS
  <1>3. ASSUME NEW i \in 1 .. Len(table), table[i].symbol = table[k].symbol PROVE i = k
    <2>1. i < k => i \in 1 .. k - 1
      BY <1>1
    <2>2. k < i => k \in 1 .. i - 1
      BY <1>1
    <2>3. ~(i < k) /\ ~(k < i)
      BY <1>3, <2>1, <2>2 DEF TableOf
    <2> QED
      BY <1>1, <2>3
  <1>4. table[k] \in S /\ \A c \in S : c.symbol = table[k].symbol => c = table[k]
    BY <1>1, <1>2, <1>3
  <1>5. CodeOf(table, table[k].symbol) = CHOOSE c \in S : c.symbol = table[k].symbol
    BY <1>2 DEF CodeOf
  <1> QED
    BY <1>4, <1>5

(* The lengths as they are written: relative to the shortest. *)
Shifted(table, min, width) ==
  /\ width \in 0 .. SymbolBits + NoLength /\ min \in Nat
  /\ \A k \in 1 .. Len(table) : table[k].bits >= min /\ table[k].bits - min \in 0 .. 2^width - 1

(* ReadList undoes WrittenList: the table, numbered again, is the same. *)
LEMMA ListComesBack ==
  ASSUME NEW lengths, NEW table, TableOf(lengths, table), Len(table) <= NoLength,
         NEW min, NEW width, Shifted(table, min, width),
         NEW word, word = WrittenList(table, min, width)
  PROVE  /\ word \in Seq(Bits)
         /\ \A bits : \A p \in Nat :
              Placed(bits, p, word) => ReadList(bits, p, min, width) = Tree(lengths, 0, p + Len(word))
  <1>1. PICK n \in Nat : n = Len(table) /\ n \in 0 .. NoLength
    BY Ranges DEF TableOf
  <1>2. /\ LengthBits \in 0 .. SymbolBits + NoLength /\ SymbolBits \in 0 .. SymbolBits + NoLength
        /\ n \in 0 .. 2^LengthBits - 1 /\ LengthBits \in Nat /\ SymbolBits \in Nat
        /\ width \in 0 .. SymbolBits + NoLength /\ width \in Nat /\ min \in Nat
    <2>1. /\ LengthBits \in 0 .. SymbolBits + NoLength /\ SymbolBits \in 0 .. SymbolBits + NoLength
          /\ NoLength = 2^LengthBits - 1 /\ LengthBits \in Nat /\ SymbolBits \in Nat
      BY SmallPowers, Ranges
    <2>2. width \in 0 .. SymbolBits + NoLength /\ width \in Nat /\ min \in Nat
      BY Ranges DEF Shifted
    <2>3. n \in 0 .. 2^LengthBits - 1
      BY <1>1, <2>1
    <2> QED
      BY <2>1, <2>2, <2>3
  <1>3. ASSUME NEW i \in 1 .. n
        PROVE  /\ table[i].symbol \in 0 .. 2^SymbolBits - 1 /\ table[i].symbol \in Nat
               /\ table[i].bits - min \in 0 .. 2^width - 1 /\ table[i].bits - min \in Nat
               /\ table[i].bits \in Nat
    <2>1. table[i].symbol \in Symbols /\ table[i].bits \in Nat
      BY <1>1 DEF TableOf
    <2>2. table[i].bits - min \in 0 .. 2^width - 1
      BY <1>1 DEF Shifted
    <2>3. 2^SymbolBits \in Nat /\ 2^width \in Nat
      BY <1>2, PowersOfTwo
    <2> QED
      BY <2>1, <2>2, <2>3 DEF Symbols, MAX_SYMBOL
  <1> DEFINE A(i) == Unsigned(SymbolBits, table[i].symbol)
             B(i) == Unsigned(width, table[i].bits - min)
             piece == [i \in 1 .. n |-> A(i) \o B(i)]
  <1>4. ASSUME NEW i \in 1 .. n
        PROVE  /\ A(i) \in Seq(Bits) /\ Len(A(i)) = SymbolBits
               /\ B(i) \in Seq(Bits) /\ Len(B(i)) = width
               /\ piece[i] = A(i) \o B(i)
               /\ piece[i] \in Seq(Bits) /\ Len(piece[i]) = SymbolBits + width
    <2>1. A(i) \in Seq(Bits) /\ Len(A(i)) = SymbolBits /\ B(i) \in Seq(Bits) /\ Len(B(i)) = width
      BY <1>2, <1>3, UnsignedBits DEF Bits
    <2>2. piece[i] = A(i) \o B(i)
      OBVIOUS
    <2> HIDE DEF A, B, piece
    <2> QED
      BY <2>1, <2>2, Concatenated
  <1> DEFINE Loop(f) == f = [i \in (1 - 1) .. Len(table) |-> IF i < 1 THEN <<>> ELSE f[i - 1] \o (A(i) \o B(i))]
             F == CHOOSE f : Loop(f)
  <1>5. \A i \in (1 - 1) .. n : ~(i < 1) => piece[i] = A(i) \o B(i)
    BY <1>4
  <1>6. \E f : Loop(f)
    <2> HIDE DEF A, B, piece
    <2>1. PICK f : Gathered(f, piece, n)
      BY <1>4, GatheredExists
    <2>2. f = [i \in (1 - 1) .. n |-> IF i < 1 THEN <<>> ELSE f[i - 1] \o piece[i]]
      BY <2>1 DEF Gathered
    <2>3. Loop(f)
      BY <1>1, <1>5, <2>2
    <2> QED
      BY <2>3
  <1>7. Loop(F)
    BY <1>6
  <1>8. word = Unsigned(LengthBits, n) \o F[n]
    BY <1>1 DEF WrittenList, Joined
  <1> HIDE DEF F, A, B, piece
  <1>9. Gathered(F, piece, n)
    BY <1>1, <1>5, <1>7 DEF Gathered
  <1>10. /\ F[0] = <<>> /\ \A i \in 0 .. n : F[i] \in Seq(Bits)
         /\ \A i \in 1 .. n : Len(F[i]) = Len(F[i - 1]) + Len(piece[i])
    BY <1>4, <1>9, PlacedPieces, ZenonT(60) DEF InPlace
  <1>11. ASSUME NEW i \in 0 .. n PROVE Len(F[i]) = i * (SymbolBits + width)
    <2>0. PICK s \in Nat : s = SymbolBits + width
      BY <1>2
    <2> DEFINE g == [j \in 0 .. n |-> Len(F[j])]
               h == [j \in 0 .. n |-> j * s]
    <2>1. g[0] = h[0]
      BY <1>10
    <2>2. ASSUME NEW j \in 1 .. n, g[j - 1] = h[j - 1] PROVE g[j] = h[j]
      <3>1. Len(F[j]) = Len(F[j - 1]) + s
        BY <1>4, <1>10, <2>0
      <3>2. (j - 1) * s + s = j * s
        OBVIOUS
      <3>3. g[j] = Len(F[j]) /\ g[j - 1] = Len(F[j - 1]) /\ h[j] = j * s /\ h[j - 1] = (j - 1) * s
        OBVIOUS
      <3> HIDE DEF g, h
      <3> QED
        BY <2>2, <3>1, <3>2, <3>3
    <2>3. \A j \in 0 .. n : g[j] = Len(F[j]) /\ h[j] = j * s
      OBVIOUS
    <2> HIDE DEF g, h
    <2>4. g[i] = h[i]
      BY <2>1, <2>2, SameLoop
    <2> QED
      BY <2>0, <2>3, <2>4
  <1>12. Unsigned(LengthBits, n) \in Seq(Bits) /\ Len(Unsigned(LengthBits, n)) = LengthBits
    BY <1>2, UnsignedBits DEF Bits
  <1>13. word \in Seq(Bits) /\ Len(word) = LengthBits + n * (SymbolBits + width)
    <2>1. F[n] \in Seq(Bits) /\ Len(F[n]) = n * (SymbolBits + width)
      BY <1>10, <1>11
    <2>2. PICK u \in Seq(Bits), v \in Seq(Bits) : u = Unsigned(LengthBits, n) /\ v = F[n]
      BY <1>12, <2>1
    <2>3. u \o v \in Seq(Bits) /\ Len(u \o v) = Len(u) + Len(v)
      BY Concatenated
    <2> QED
      BY <1>8, <1>12, <2>1, <2>2, <2>3
  <1>14. ASSUME NEW bits, NEW p \in Nat, Placed(bits, p, word)
         PROVE  ReadList(bits, p, min, width) = Tree(lengths, 0, p + Len(word))
    <2>1. Placed(bits, p, Unsigned(LengthBits, n)) /\ Placed(bits, p + LengthBits, F[n])
      <3>1. F[n] \in Seq(Bits)
        BY <1>10
      <3>2. PICK u \in Seq(Bits), v \in Seq(Bits) : u = Unsigned(LengthBits, n) /\ v = F[n]
        BY <1>12, <3>1
      <3>3. Placed(bits, p, u \o v)
        BY <1>8, <1>14, <3>2
      <3>4. Placed(bits, p, u) /\ Placed(bits, p + Len(u), v)
        BY <3>3, PlacedParts
      <3> QED
        BY <1>12, <3>2, <3>4
    <2>2. ValueAt(bits, p, LengthBits) = n
      BY <1>2, <2>1, PlacedNumber
    <2>3. PICK q \in Nat : q = p + LengthBits
      BY <1>2
    <2>4. \A i \in 1 .. n : Placed(bits, q + Len(F[i - 1]), piece[i])
      BY <1>4, <1>9, <2>1, <2>3, PlacedPieces DEF InPlace
    <2> DEFINE At(i) == p + LengthBits + i * (SymbolBits + width)
               Read(i) == [symbol |-> ValueAt(bits, At(i), SymbolBits),
                           bits |-> min + ValueAt(bits, At(i) + SymbolBits, width)]
    <2>5. ASSUME NEW i \in 1 .. n
          PROVE  Read(i - 1) = Entry(table[i])
      <3>1. PICK at \in Nat : at = At(i - 1) /\ at = q + Len(F[i - 1])
        <4>1. i - 1 \in 0 .. n /\ i - 1 \in Nat
          OBVIOUS
        <4>2. (i - 1) * (SymbolBits + width) \in Nat
          BY <1>2, <4>1
        <4>3. PICK x \in Nat : x = (i - 1) * (SymbolBits + width) /\ Len(F[i - 1]) = x
          BY <1>11, <4>1, <4>2
        <4>4. At(i - 1) = (p + LengthBits) + x
          BY <4>3
        <4>5. At(i - 1) = q + x
          BY <2>3, <4>4
        <4> QED
          BY <4>3, <4>5
      <3>2. Placed(bits, at, A(i) \o B(i))
        BY <1>4, <2>4, <3>1
      <3>3. Placed(bits, at, A(i)) /\ Placed(bits, at + SymbolBits, B(i))
        <4>1. PICK u \in Seq(Bits), v \in Seq(Bits) : u = A(i) /\ v = B(i) /\ Len(u) = SymbolBits
          BY <1>4
        <4>2. Placed(bits, at, u \o v)
          BY <3>2, <4>1
        <4>3. Placed(bits, at, u) /\ Placed(bits, at + Len(u), v)
          BY <4>2, PlacedParts
        <4> QED
          BY <4>1, <4>3
      <3>4. ValueAt(bits, at, SymbolBits) = table[i].symbol
        BY <1>2, <1>3, <3>3, PlacedNumber DEF A
      <3>5. ValueAt(bits, at + SymbolBits, width) = table[i].bits - min
        <4>1. at + SymbolBits \in Nat
          BY <1>2
        <4> QED
          BY <1>2, <1>3, <3>3, <4>1, PlacedNumber DEF B
      <3>6. min + (table[i].bits - min) = table[i].bits
        <4>1. PICK x \in Nat, y \in Nat : x = min /\ y = table[i].bits
          BY <1>2, <1>3
        <4> QED
          BY <4>1
      <3> QED
        BY <3>1, <3>4, <3>5, <3>6 DEF Entry
    <2>6. {Read(i) : i \in 0 .. n - 1} = lengths
      <3>1. ASSUME NEW i \in 0 .. n - 1 PROVE Read(i) \in lengths
        <4>1. PICK k \in 1 .. n : k = i + 1 /\ k - 1 = i
          OBVIOUS
        <4>2. Read(i) = Entry(table[k])
          <5>1. Read(k - 1) = Entry(table[k])
            BY <2>5
          <5> QED
            BY <4>1, <5>1
        <4>3. Entry(table[k]) \in lengths
          BY <1>1 DEF TableOf
        <4> QED
          BY <4>2, <4>3
      <3>2. ASSUME NEW c \in lengths PROVE \E i \in 0 .. n - 1 : Read(i) = c
        <4>1. PICK k \in 1 .. n : Entry(table[k]) = c
          BY <1>1 DEF TableOf
        <4>2. k - 1 \in 0 .. n - 1
          OBVIOUS
        <4> QED
          BY <2>5, <4>1, <4>2
      <3> HIDE DEF Read
      <3> QED
        BY <3>1, <3>2
    <2>7. ReadList(bits, p, min, width) = Tree({Read(i) : i \in 0 .. n - 1}, 0, At(n))
      BY <2>2 DEF ReadList
    <2>8. At(n) = p + Len(word)
      <3>1. n * (SymbolBits + width) \in Nat
        BY <1>2
      <3> QED
        BY <1>2, <1>13, <3>1
    <2> HIDE DEF At, Read
    <2> QED
      BY <2>6, <2>7, <2>8
  <1> QED
    BY <1>13, <1>14

-----------------------------------------------------------------------------
(* The lengths in a bitmap.                                                *)

(* ReadBitmap undoes WrittenBitmap. *)
LEMMA BitmapComesBack ==
  ASSUME NEW lengths, NEW table, TableOf(lengths, table),
         NEW min, NEW width, Shifted(table, min, width),
         NEW word, word = WrittenBitmap(table, min, width)
  PROVE  /\ word \in Seq(Bits)
         /\ \A bits : \A p \in Nat :
              Placed(bits, p, word) => ReadBitmap(bits, p, min, width) = Tree(lengths, 0, p + Len(word))
  <1>1. PICK n \in Nat \ {0} : n = MAX_SYMBOL
    BY Ranges
  <1>0. <<1>> \in Seq(Bits) /\ Len(<<1>>) = 1 /\ <<1>>[1] = 1
    BY DEF Bits
  <1>2. width \in 0 .. SymbolBits + NoLength /\ width \in Nat /\ min \in Nat /\ DOMAIN table = 1 .. Len(table)
    BY Ranges DEF Shifted, TableOf
  <1> DEFINE There(i) == \E k \in DOMAIN table : table[k].symbol = i - 1
             B(i) == Unsigned(width, CodeOf(table, i - 1).bits - min)
             E(i) == IF There(i) THEN <<1>> \o B(i) ELSE <<0>>
             piece == [i \in 1 .. n |-> E(i)]
  <1>3. ASSUME NEW i \in 1 .. n, NEW k \in 1 .. Len(table), table[k].symbol = i - 1
        PROVE  /\ There(i) /\ B(i) = Unsigned(width, table[k].bits - min)
               /\ table[k].bits - min \in 0 .. 2^width - 1
               /\ B(i) \in Seq(Bits) /\ Len(B(i)) = width
               /\ min + (table[k].bits - min) = table[k].bits
    <2>1. CodeOf(table, i - 1) = table[k]
      BY <1>3, CodeOfIs
    <2>2. table[k].bits - min \in 0 .. 2^width - 1 /\ table[k].bits \in Nat
      BY DEF Shifted, TableOf
    <2>3. table[k].bits - min \in Nat
      <3>1. 2^width \in Nat
        BY <1>2, PowersOfTwo
      <3> QED
        BY <2>2, <3>1
    <2>4. B(i) = Unsigned(width, table[k].bits - min)
      BY <2>1
    <2>5. B(i) \in Seq(Bits) /\ Len(B(i)) = width
      <3> HIDE DEF B
      <3> QED
        BY <1>2, <2>3, <2>4, UnsignedBits DEF Bits
    <2>6. min + (table[k].bits - min) = table[k].bits
      BY <1>2, <2>2
    <2> QED
      BY <1>2, <1>3, <2>2, <2>4, <2>5, <2>6
  <1>4. ASSUME NEW i \in 1 .. n
        PROVE  /\ piece[i] = E(i) /\ piece[i] \in Seq(Bits)
               /\ There(i) => Len(piece[i]) = 1 + width /\ piece[i][1] = 1 /\ piece[i] = <<1>> \o B(i)
               /\ ~There(i) => Len(piece[i]) = 1 /\ piece[i][1] = 0
               /\ 1 \in 1 .. Len(piece[i])
    <2>1. piece[i] = E(i)
      OBVIOUS
    <2>2. CASE There(i)
      <3>1. PICK k \in 1 .. Len(table) : table[k].symbol = i - 1
        BY <1>2, <2>2
      <3>2. B(i) \in Seq(Bits) /\ Len(B(i)) = width
        BY <1>3, <3>1
      <3>3. E(i) = <<1>> \o B(i)
        BY <2>2
      <3>4. PICK u \in Seq(Bits), v \in Seq(Bits) : u = <<1>> /\ v = B(i) /\ Len(u) = 1 /\ u[1] = 1 /\ Len(v) = width
        <4> HIDE DEF B
        <4> QED
          BY <1>0, <3>2
      <3>5. u \o v \in Seq(Bits) /\ Len(u \o v) = 1 + width /\ (u \o v)[1] = 1
        <4>1. /\ u \o v \in Seq(Bits) /\ Len(u \o v) = Len(u) + Len(v)
              /\ \A x \in 1 .. Len(u) : (u \o v)[x] = u[x]
          BY Concatenated
        <4>2. 1 \in 1 .. Len(u)
          BY <3>4
        <4> QED
          BY <3>4, <4>1, <4>2
      <3>6. piece[i] = u \o v
        BY <2>1, <3>3, <3>4
      <3>7. 1 \in 1 .. 1 + width
        BY <1>2
      <3> HIDE DEF piece, E, B, There
      <3> QED
        BY <2>1, <2>2, <3>3, <3>5, <3>6, <3>7
    <2>3. CASE ~There(i)
      <3>1. E(i) = <<0>>
        BY <2>3
      <3>2. <<0>> \in Seq(Bits) /\ Len(<<0>>) = 1 /\ <<0>>[1] = 0
        BY DEF Bits
      <3> HIDE DEF piece, E, B, There
      <3> QED
        BY <2>1, <2>3, <3>1, <3>2
    <2> QED
      BY <2>2, <2>3
  <1> DEFINE Loop(f) == f = [i \in (1 - 1) .. MAX_SYMBOL |->
               IF i < 1 THEN <<>>
               ELSE f[i - 1] \o (IF \E k \in DOMAIN table : table[k].symbol = i - 1
                                   THEN <<1>> \o Unsigned(width, CodeOf(table, i - 1).bits - min)
                                   ELSE <<0>>)]
             F == CHOOSE f : Loop(f)
  <1>5. \A i \in (1 - 1) .. n : ~(i < 1) =>
          piece[i] = (IF \E k \in DOMAIN table : table[k].symbol = i - 1
                        THEN <<1>> \o Unsigned(width, CodeOf(table, i - 1).bits - min)
                        ELSE <<0>>)
    BY <1>4
  <1>6. \E f : Loop(f)
    <2> HIDE DEF piece, E, B, There
    <2>1. PICK f : Gathered(f, piece, n)
      BY <1>4, GatheredExists
    <2>2. f = [i \in (1 - 1) .. n |-> IF i < 1 THEN <<>> ELSE f[i - 1] \o piece[i]]
      BY <2>1 DEF Gathered
    <2>3. Loop(f)
      BY <1>1, <1>5, <2>2
    <2> QED
      BY <2>3
  <1>7. Loop(F)
    BY <1>6
  <1>8. word = F[n]
    BY <1>1 DEF WrittenBitmap, Joined
  <1> HIDE DEF F, E, B, There, piece
  <1>9. Gathered(F, piece, n)
    BY <1>1, <1>5, <1>7 DEF Gathered
  <1>10. /\ F[0] = <<>> /\ \A i \in 0 .. n : F[i] \in Seq(Bits)
         /\ \A i \in 1 .. n : Len(F[i]) = Len(F[i - 1]) + Len(piece[i])
    <2>1. \A i \in 1 .. n : piece[i] \in Seq(Bits)
      BY <1>4
    <2>2. n \in Nat
      OBVIOUS
    <2>3. Pieced(F, piece, n, Bits)
      BY <1>9, <2>1, <2>2, GatheredPieces
    <2> QED
      BY <2>3 DEF Pieced
  <1>11. word \in Seq(Bits)
    BY <1>8, <1>10
  <1>12. ASSUME NEW bits, NEW p \in Nat, Placed(bits, p, word)
         PROVE  ReadBitmap(bits, p, min, width) = Tree(lengths, 0, p + Len(word))
    <2>1. \A i \in 1 .. n : Placed(bits, p + Len(F[i - 1]), piece[i])
      BY <1>4, <1>8, <1>9, <1>12, PlacedPieces DEF InPlace
    <2> DEFINE Behind == [q \in Nat |-> q + (IF bits[q] = 1 THEN 1 + width ELSE 1)]
               Walk(f) == f = [s \in 0 .. MAX_SYMBOL |-> IF s = 0 THEN p ELSE Behind[f[s - 1]]]
               At == CHOOSE f : Walk(f)
    <2>2. \E f : Walk(f)
      <3>1. PICK step : step = [k \in 1 .. n |-> Behind]
        OBVIOUS
      <3>2. \A k \in 0 .. n : k # 0 => step[k] = Behind
        BY <3>1
      <3> HIDE DEF Behind
      <3>3. PICK f : Carried(f, step, p, n)
        BY LoopExists
      <3>4. f = [k \in 0 .. n |-> IF k = 0 THEN p ELSE Behind[f[k - 1]]]
        BY <3>2, <3>3 DEF Carried
      <3>5. Walk(f)
        BY <1>1, <3>4
      <3> QED
        BY <3>5
    <2>3. Walk(At)
      <3> HIDE DEF Behind
      <3> QED
        BY <2>2
    <2>4. ReadBitmap(bits, p, min, width) =
            Tree({[symbol |-> s, bits |-> min + ValueAt(bits, At[s] + 1, width)] :
                    s \in {r \in Symbols : bits[At[r]] = 1}}, 0, At[MAX_SYMBOL])
      BY DEF ReadBitmap
    <2> HIDE DEF At
    <2>5. At[0] = p /\ \A s \in 1 .. n : At[s] = Behind[At[s - 1]]
      <3> HIDE DEF Behind
      <3>1. 0 \in 0 .. n
        BY <1>1
      <3> QED
        BY <1>1, <2>3, <3>1
    <2>6. ASSUME NEW i \in 1 .. n, NEW at \in Nat, at = p + Len(F[i - 1])
          PROVE  /\ bits[at] = piece[i][1]
                 /\ There(i) <=> bits[at] = 1
                 /\ Behind[at] = p + Len(F[i])
                 /\ There(i) => Placed(bits, at + 1, B(i))
      <3>1. Placed(bits, at, piece[i])
        BY <2>1, <2>6
      <3>2. bits[at] = piece[i][1]
        <4>1. bits[at + 1 - 1] = piece[i][1] /\ at + 1 - 1 = at
          BY <1>4, <3>1 DEF Placed
        <4> QED
          BY <4>1
      <3>3. There(i) <=> bits[at] = 1
        BY <1>4, <3>2
      <3>4. PICK l \in Nat, m \in Nat : l = Len(F[i - 1]) /\ m = Len(piece[i]) /\ Len(F[i]) = l + m
        <4>1. i - 1 \in 0 .. n /\ piece[i] \in Seq(Bits)
          BY <1>4
        <4>2. F[i - 1] \in Seq(Bits)
          BY <1>10, <4>1
        <4>3. Len(F[i - 1]) \in Nat /\ Len(piece[i]) \in Nat
          BY <4>1, <4>2
        <4>4. Len(F[i]) = Len(F[i - 1]) + Len(piece[i])
          BY <1>10
        <4> QED
          BY <4>3, <4>4
      <3>5. m = IF bits[at] = 1 THEN 1 + width ELSE 1
        BY <1>4, <3>3, <3>4
      <3>6. Behind[at] = at + m
        BY <3>5
      <3>7. Behind[at] = p + Len(F[i])
        <4> HIDE DEF Behind
        <4>1. at = p + l /\ Len(F[i]) = l + m
          BY <2>6, <3>4
        <4>2. at + m = p + (l + m)
          BY <4>1
        <4> QED
          BY <3>6, <4>1, <4>2
      <3>8. ASSUME There(i) PROVE Placed(bits, at + 1, B(i))
        <4>1. PICK k \in 1 .. Len(table) : table[k].symbol = i - 1
          BY <1>2, <3>8 DEF There
        <4>2. B(i) \in Seq(Bits)
          BY <1>3, <4>1
        <4>3. PICK u \in Seq(Bits), v \in Seq(Bits) : u = <<1>> /\ v = B(i) /\ Len(u) = 1
          BY <1>0, <4>2
        <4>4. Placed(bits, at, u \o v)
          BY <1>4, <3>1, <3>8, <4>3
        <4>5. Placed(bits, at + Len(u), v)
          BY <4>4, PlacedParts
        <4> QED
          BY <4>3, <4>5
      <3> QED
        BY <3>2, <3>3, <3>7, <3>8
    <2> HIDE DEF Behind
    <2>7. ASSUME NEW s \in 0 .. n PROVE At[s] = p + Len(F[s]) /\ At[s] \in Nat
      <3> DEFINE g == [j \in 0 .. n |-> At[j]]
                 h == [j \in 0 .. n |-> p + Len(F[j])]
      <3>1. g[0] = h[0]
        <4>1. Len(F[0]) = 0 /\ p + 0 = p
          BY <1>10
        <4> QED
          BY <2>5, <4>1
      <3>2. ASSUME NEW j \in 1 .. n, g[j - 1] = h[j - 1] PROVE g[j] = h[j]
        <4>1. g[j - 1] = At[j - 1] /\ h[j - 1] = p + Len(F[j - 1]) /\ g[j] = At[j] /\ h[j] = p + Len(F[j])
          OBVIOUS
        <4> HIDE DEF g, h
        <4>2. PICK at \in Nat : at = p + Len(F[j - 1])
          <5>1. F[j - 1] \in Seq(Bits)
            BY <1>10
          <5>2. Len(F[j - 1]) \in Nat
            BY <5>1
          <5> QED
            BY <5>2
        <4>3. Behind[at] = p + Len(F[j])
          BY <2>6, <4>2
        <4> QED
          BY <2>5, <3>2, <4>1, <4>2, <4>3
      <3>3. \A j \in 0 .. n : g[j] = At[j] /\ h[j] = p + Len(F[j])
        OBVIOUS
      <3> HIDE DEF g, h
      <3>4. g[s] = h[s]
        BY <3>1, <3>2, SameLoop
      <3>5. F[s] \in Seq(Bits)
        BY <1>10
      <3>6. Len(F[s]) \in Nat
        BY <3>5
      <3> QED
        BY <3>3, <3>4, <3>6
    <2> DEFINE Read(s) == [symbol |-> s, bits |-> min + ValueAt(bits, At[s] + 1, width)]
    <2>8. ASSUME NEW s \in 0 .. n - 1
          PROVE  /\ bits[At[s]] = 1 <=> \E k \in 1 .. Len(table) : table[k].symbol = s
                 /\ \A k \in 1 .. Len(table) : table[k].symbol = s => Read(s) = Entry(table[k])
      <3>1. PICK i \in 1 .. n : i = s + 1 /\ i - 1 = s
        OBVIOUS
      <3>2. PICK at \in Nat : at = At[s] /\ at = p + Len(F[i - 1])
        <4>1. s \in 0 .. n
          OBVIOUS
        <4> QED
          BY <2>7, <3>1, <4>1
      <3>3. There(i) <=> bits[at] = 1
        BY <2>6, <3>2
      <3>4. There(i) <=> \E k \in 1 .. Len(table) : table[k].symbol = s
        BY <1>2, <3>1 DEF There
      <3>5. ASSUME NEW k \in 1 .. Len(table), table[k].symbol = s PROVE Read(s) = Entry(table[k])
        <4>1. Placed(bits, at + 1, B(i))
          BY <2>6, <3>2, <3>4, <3>5
        <4>2. /\ B(i) = Unsigned(width, table[k].bits - min)
              /\ table[k].bits - min \in 0 .. 2^width - 1
              /\ min + (table[k].bits - min) = table[k].bits
          BY <1>3, <3>1, <3>5
        <4>3. PICK b : b = table[k].bits - min
          OBVIOUS
        <4>4. Placed(bits, at + 1, Unsigned(width, b)) /\ b \in 0 .. 2^width - 1 /\ at + 1 \in Nat
          BY <4>1, <4>2, <4>3
        <4>5. ValueAt(bits, at + 1, width) = b
          BY <1>2, <4>4, PlacedNumber
        <4> QED
          BY <3>2, <3>5, <4>2, <4>3, <4>5 DEF Entry
      <3> QED
        BY <3>2, <3>3, <3>4, <3>5
    <2> HIDE DEF Read
    <2>9. {Read(s) : s \in {r \in Symbols : bits[At[r]] = 1}} = lengths
      <3>0. Symbols = 0 .. n - 1
        BY <1>1 DEF Symbols
      <3>1. ASSUME NEW s \in Symbols, bits[At[s]] = 1 PROVE Read(s) \in lengths
        <4>1. PICK k \in 1 .. Len(table) : table[k].symbol = s
          BY <2>8, <3>0, <3>1
        <4>2. Read(s) = Entry(table[k]) /\ Entry(table[k]) \in lengths
          BY <2>8, <3>0, <4>1 DEF TableOf
        <4> QED
          BY <4>2
      <3>2. ASSUME NEW c \in lengths PROVE \E s \in Symbols : bits[At[s]] = 1 /\ Read(s) = c
        <4>1. PICK k \in 1 .. Len(table) : Entry(table[k]) = c
          BY DEF TableOf
        <4>2. PICK s \in Symbols : s = table[k].symbol
          BY DEF TableOf
        <4>3. bits[At[s]] = 1 /\ Read(s) = Entry(table[k])
          BY <2>8, <3>0, <4>2
        <4> QED
          BY <4>1, <4>3
      <3> QED
        BY <3>1, <3>2
    <2>10. At[MAX_SYMBOL] = p + Len(word)
      <3>1. n \in 0 .. n
        OBVIOUS
      <3> QED
        BY <1>1, <1>8, <2>7, <3>1
    <2>11. ReadBitmap(bits, p, min, width) =
             Tree({Read(s) : s \in {r \in Symbols : bits[At[r]] = 1}}, 0, At[MAX_SYMBOL])
      BY <2>4 DEF Read
    <2> QED
      BY <2>9, <2>10, <2>11
  <1> QED
    BY <1>11, <1>12

-----------------------------------------------------------------------------
(* The lengths of a state.                                                 *)

(* Three words, one after the other. *)
LEMMA PlacedThree ==
  ASSUME NEW a \in Seq(Bits), NEW b \in Seq(Bits), NEW c \in Seq(Bits), NEW word, word = a \o b \o c
  PROVE  /\ word \in Seq(Bits) /\ Len(word) = Len(a) + Len(b) + Len(c)
         /\ \A bits : \A p \in Nat :
              Placed(bits, p, word) =>
                Placed(bits, p, a) /\ Placed(bits, p + Len(a), b) /\ Placed(bits, p + Len(a) + Len(b), c)
  <1>1. PICK ab \in Seq(Bits) : ab = a \o b /\ Len(ab) = Len(a) + Len(b)
    BY Concatenated
  <1>2. word = ab \o c /\ word \in Seq(Bits) /\ Len(word) = Len(ab) + Len(c)
    BY <1>1, Concatenated
  <1>3. ASSUME NEW bits, NEW p \in Nat, Placed(bits, p, word)
        PROVE  Placed(bits, p, a) /\ Placed(bits, p + Len(a), b) /\ Placed(bits, p + Len(a) + Len(b), c)
    <2>1. Placed(bits, p, ab) /\ Placed(bits, p + Len(ab), c)
      BY <1>2, <1>3, PlacedParts
    <2>2. Placed(bits, p, a) /\ Placed(bits, p + Len(a), b)
      BY <1>1, <2>1, PlacedParts
    <2>3. p + Len(ab) = p + Len(a) + Len(b)
      <3>1. PICK x \in Nat, y \in Nat : x = Len(a) /\ y = Len(b)
        OBVIOUS
      <3> QED
        BY <1>1, <3>1
    <2> QED
      BY <2>1, <2>2, <2>3
  <1> QED
    BY <1>1, <1>2, <1>3

(* The first code of a table is the shortest, the last one the longest. *)
LEMMA FromShortest ==
  ASSUME NEW lengths, NEW table, TableOf(lengths, table), Len(table) # 1,
         NEW min, NEW max, min = table[1].bits, max = table[Len(table)].bits
  PROVE  /\ min \in Nat /\ max \in Nat /\ min < NoLength /\ max < NoLength /\ max # 0 /\ max - min \in 0 .. NoLength
         /\ Shifted(table, min, bit_width(max - min))
  <1>1. PICK n \in Nat \ {0} : n = Len(table)
    BY DEF TableOf
  <1>2. \A k \in 1 .. n : /\ table[k].bits \in Nat /\ table[k].bits < NoLength
                          /\ \A j \in 1 .. k - 1 : table[j].bits <= table[k].bits
    BY <1>1 DEF TableOf
  <1>3. 1 \in 1 .. n /\ n \in 1 .. n
    OBVIOUS
  <1>4. min \in Nat /\ max \in Nat /\ min < NoLength /\ max < NoLength /\ max # 0
    BY <1>1, <1>2, <1>3 DEF TableOf
  <1>5. ASSUME NEW k \in 1 .. n PROVE table[k].bits \in Nat /\ min <= table[k].bits /\ table[k].bits <= max
    <2>1. PICK b \in Nat : b = table[k].bits
      BY <1>2
    <2>2. min <= b
      <3>1. CASE k = 1
        BY <1>4, <2>1, <3>1
      <3>2. CASE k # 1
        <4>1. 1 \in 1 .. k - 1
          BY <3>2
        <4> QED
          BY <1>2, <2>1, <4>1
      <3> QED
        BY <3>1, <3>2
    <2>3. b <= max
      <3>1. CASE k = n
        BY <1>1, <1>4, <2>1, <3>1
      <3>2. CASE k # n
        <4>1. k \in 1 .. n - 1
          BY <3>2
        <4> QED
          BY <1>1, <1>2, <1>3, <2>1, <4>1
      <3> QED
        BY <3>1, <3>2
    <2> QED
      BY <2>1, <2>2, <2>3
  <1>6. PICK d \in Nat : d = max - min /\ d \in 0 .. NoLength
    <2>1. min <= max
      BY <1>1, <1>3, <1>5
    <2> QED
      BY <1>4, <2>1, Ranges
  <1>7. PICK w : w = bit_width(d) /\ w \in 0 .. SymbolBits + NoLength /\ d \in 0 .. 2^w - 1
    BY <1>6, WidthFits
  <1>8. PICK q \in Nat : q = 2^w /\ d < q
    <2>1. 2^w \in Nat
      BY <1>7, PowersOfTwo
    <2> QED
      BY <1>7, <2>1
  <1>9. ASSUME NEW k \in 1 .. n PROVE table[k].bits >= min /\ table[k].bits - min \in 0 .. 2^w - 1
    <2>1. PICK b \in Nat : b = table[k].bits /\ min <= b /\ b <= max
      BY <1>5
    <2>2. b >= min /\ b - min \in 0 .. q - 1
      <3>1. PICK x \in Nat, y \in Nat : x = min /\ y = max
        BY <1>4
      <3>2. d = y - x /\ x <= b /\ b <= y /\ d < q
        BY <1>6, <1>8, <2>1, <3>1
      <3>3. b >= x /\ b - x \in 0 .. q - 1
        BY <3>2
      <3> QED
        BY <3>1, <3>3
    <2> QED
      BY <1>8, <2>1, <2>2
  <1> QED
    BY <1>1, <1>4, <1>6, <1>7, <1>9 DEF Shifted

(* What a tree says of a table. *)
TreeOf(tree, table) ==
  /\ Len(table) # 1 => tree.codes = table /\ tree.single_symbol = 0
  /\ Len(table) = 1 => tree.codes = <<>> /\ tree.single_symbol = table[1].symbol

(* HuffmanDecoder::read_codes undoes HuffmanEncoder::write_codes. *)
LEMMA CodesComeBack ==
  ASSUME NEW lengths, lengths = {} \/ (IsTree(lengths) /\ IsShort(lengths)),
         NEW table, table = Canonical(lengths), NEW word, word = write_codes(table)
  PROVE  /\ word \in Seq(Bits)
         /\ \A bits : \A p \in Nat :
              Placed(bits, p, word) =>
                /\ TreeOf(read_codes(bits, p), table)
                /\ read_codes(bits, p).next = p + Len(word)
                /\ read_codes(bits, p) \in [codes : Seq(Codes), single_symbol : Symbols, next : Nat]
  <1>1. PICK L \in Nat : /\ L = LengthBits /\ L \in 0 .. SymbolBits + NoLength /\ NoLength = 2^L - 1
                         /\ NoLength \in Nat \ {0} /\ SymbolBits \in 0 .. SymbolBits + NoLength
                         /\ SymbolBits \in Nat /\ 2^L \in Nat
    <2>1. LengthBits \in Nat /\ 2^LengthBits \in Nat
      BY SmallPowers, PowersOfTwo
    <2> QED
      BY <2>1, SmallPowers, Ranges
  <1>2. 0 \in 0 .. 2^L - 1 /\ NoLength \in 0 .. 2^L - 1
    BY <1>1
  <1>3. \A v \in 0 .. 2^L - 1 : /\ v \in Nat /\ Unsigned(L, v) \in Seq(Bits) /\ Len(Unsigned(L, v)) = L
    BY <1>1, UnsignedBits DEF Bits
  <1>4. 0 \in Symbols
    BY Ranges DEF Symbols
  <1>5. CASE lengths = {}
    <2>1. table = <<>> /\ Len(table) = 0 /\ Len(table) # 1
      BY <1>5, NoCodes
    <2>2. PICK u \in Seq(Bits) : u = Unsigned(L, NoLength) /\ Len(u) = L
      BY <1>2, <1>3
    <2>3. word = u \o u
      BY <1>1, <2>1, <2>2 DEF write_codes
    <2>4. word \in Seq(Bits) /\ Len(word) = L + L
      BY <2>2, <2>3, Concatenated
    <2>5. ASSUME NEW bits, NEW p \in Nat, Placed(bits, p, word)
          PROVE  read_codes(bits, p) = [codes |-> <<>>, single_symbol |-> 0, next |-> p + (L + L)]
      <3>1. Placed(bits, p, u) /\ Placed(bits, p + L, u)
        BY <2>2, <2>3, <2>5, PlacedParts
      <3>2. ValueAt(bits, p, L) = NoLength
        BY <1>1, <1>2, <2>2, <3>1, PlacedNumber
      <3>3. ValueAt(bits, p + L, L) = NoLength
        <4>1. p + L \in Nat
          OBVIOUS
        <4> QED
          BY <1>1, <1>2, <2>2, <3>1, <4>1, PlacedNumber
      <3>4. read_codes(bits, p) = Tree({}, 0, p + 2 * L)
        BY <1>1, <3>2, <3>3 DEF read_codes
      <3>5. p + 2 * L = p + (L + L)
        OBVIOUS
      <3> QED
        BY <3>4, <3>5, NoCodes DEF Tree
    <2>6. <<>> \in Seq(Codes) /\ \A p \in Nat : p + (L + L) \in Nat
      OBVIOUS
    <2>7. ASSUME NEW bits, NEW p \in Nat, Placed(bits, p, word)
          PROVE  /\ TreeOf(read_codes(bits, p), table)
                 /\ read_codes(bits, p).next = p + Len(word)
                 /\ read_codes(bits, p) \in [codes : Seq(Codes), single_symbol : Symbols, next : Nat]
      <3>1. PICK tree : tree = read_codes(bits, p) /\ tree = [codes |-> <<>>, single_symbol |-> 0, next |-> p + (L + L)]
        BY <2>5, <2>7
      <3>2. TreeOf(tree, table)
        BY <2>1, <3>1 DEF TreeOf
      <3>3. tree.next = p + Len(word) /\ tree \in [codes : Seq(Codes), single_symbol : Symbols, next : Nat]
        BY <1>4, <2>4, <2>6, <3>1
      <3> QED
        BY <3>1, <3>2, <3>3
    <2> QED
      BY <2>4, <2>7
  <1>6. CASE lengths # {}
    <2>1. TableOf(lengths, table) /\ lengths \in SUBSET AnyLengths
      <3>1. IsTree(lengths) /\ IsShort(lengths)
        BY <1>6
      <3> QED
        BY <3>1, TableFacts DEF IsTree, Balanced
    <2>2. PICK n \in Nat \ {0} : n = Len(table) /\ table # <<>> /\ table \in Seq(Codes)
      BY <2>1 DEF TableOf
    <2>3. CASE n = 1
      <3>1. PICK s \in Symbols : s = table[1].symbol /\ s \in 0 .. 2^SymbolBits - 1 /\ s \in Nat
        <4>1. table[1].symbol \in Symbols
          BY <2>1, <2>2, <2>3 DEF TableOf
        <4>2. \A x \in 0 .. MAX_SYMBOL - 1 : x \in Nat
          BY Ranges
        <4> QED
          BY <4>1, <4>2 DEF Symbols, MAX_SYMBOL
      <3>2. PICK u \in Seq(Bits), v \in Seq(Bits) :
               u = Unsigned(L, 0) /\ Len(u) = L /\ v = Unsigned(SymbolBits, s) /\ Len(v) = SymbolBits
        <4>1. Unsigned(SymbolBits, s) \in Seq(Bits) /\ Len(Unsigned(SymbolBits, s)) = SymbolBits
          BY <1>1, <3>1, UnsignedBits DEF Bits
        <4> QED
          BY <1>2, <1>3, <4>1
      <3>3. word = u \o u \o v
        BY <1>1, <2>2, <2>3, <3>1, <3>2 DEF write_codes
      <3>4. word \in Seq(Bits) /\ Len(word) = L + L + SymbolBits
        <4>1. u \o u \o v \in Seq(Bits) /\ Len(u \o u \o v) = Len(u) + Len(u) + Len(v)
          BY PlacedThree
        <4> QED
          BY <3>2, <3>3, <4>1
      <3>5. ASSUME NEW bits, NEW p \in Nat, Placed(bits, p, word)
            PROVE  read_codes(bits, p) = [codes |-> <<>>, single_symbol |-> s, next |-> p + (L + L + SymbolBits)]
        <4>1. Placed(bits, p, u) /\ Placed(bits, p + L, u) /\ Placed(bits, p + L + L, v)
          BY <3>2, <3>3, <3>5, PlacedThree, ZenonT(60)
        <4>2. ValueAt(bits, p, L) = 0
          BY <1>1, <1>2, <3>2, <4>1, PlacedNumber
        <4>3. ValueAt(bits, p + L, L) = 0
          <5>1. p + L \in Nat
            OBVIOUS
          <5> QED
            BY <1>1, <1>2, <3>2, <4>1, <5>1, PlacedNumber
        <4>4. PICK q \in Nat : q = p + L + L /\ q = p + 2 * L /\ q + SymbolBits = p + (L + L + SymbolBits)
          BY <1>1
        <4>5. ValueAt(bits, q, SymbolBits) = s
          BY <1>1, <3>1, <3>2, <4>1, <4>4, PlacedNumber
        <4>6. NoLength # 0
          BY <1>1
        <4>7. read_codes(bits, p) = Tree({}, ValueAt(bits, p + 2 * L, SymbolBits), p + 2 * L + SymbolBits)
          BY <1>1, <4>2, <4>3, <4>6 DEF read_codes
        <4> QED
          BY <4>4, <4>5, <4>7, NoCodes DEF Tree
      <3>6. <<>> \in Seq(Codes) /\ \A p \in Nat : p + (L + L + SymbolBits) \in Nat
        BY <1>1
      <3>7. ASSUME NEW bits, NEW p \in Nat, Placed(bits, p, word)
            PROVE  /\ TreeOf(read_codes(bits, p), table)
                   /\ read_codes(bits, p).next = p + Len(word)
                   /\ read_codes(bits, p) \in [codes : Seq(Codes), single_symbol : Symbols, next : Nat]
        <4>1. PICK tree : /\ tree = read_codes(bits, p)
                          /\ tree = [codes |-> <<>>, single_symbol |-> s, next |-> p + (L + L + SymbolBits)]
          BY <3>5, <3>7
        <4>2. TreeOf(tree, table)
          BY <2>2, <2>3, <3>1, <4>1 DEF TreeOf
        <4>3. tree.next = p + Len(word) /\ tree \in [codes : Seq(Codes), single_symbol : Symbols, next : Nat]
          BY <3>4, <3>6, <4>1
        <4> QED
          BY <4>1, <4>2, <4>3
      <3> QED
        BY <3>4, <3>7
    <2>4. CASE n # 1
      <3>1. PICK min, max, w : min = table[1].bits /\ max = table[Len(table)].bits /\ w = bit_width(max - min)
        OBVIOUS
      <3>2. /\ min \in Nat /\ max \in Nat /\ min < NoLength /\ max < NoLength /\ max # 0
            /\ Shifted(table, min, w)
        BY <2>1, <2>2, <2>4, <3>1, FromShortest
      <3>3. min \in 0 .. 2^L - 1 /\ max \in 0 .. 2^L - 1
        BY <1>1, <3>2
      <3>4. PICK rest : rest = IF n > MaxListed THEN <<1>> \o WrittenBitmap(table, min, w)
                                               ELSE <<0>> \o WrittenList(table, min, w)
        OBVIOUS
      <3>5. PICK u \in Seq(Bits), v \in Seq(Bits) :
               u = Unsigned(L, min) /\ Len(u) = L /\ v = Unsigned(L, max) /\ Len(v) = L
        BY <1>3, <3>3
      <3>6. word = u \o v \o rest
        BY <1>1, <2>2, <2>4, <3>1, <3>4, <3>5 DEF write_codes
      <3>7. /\ rest \in Seq(Bits)
            /\ \A bits : \A p \in Nat :
                 Placed(bits, p, rest) =>
                   (IF bits[p] = 1 THEN ReadBitmap(bits, p + 1, min, w) ELSE ReadList(bits, p + 1, min, w))
                     = Tree(lengths, 0, p + Len(rest))
        <4>1. CASE n > MaxListed
          <5>1. PICK m : m = WrittenBitmap(table, min, w)
            OBVIOUS
          <5>2. /\ m \in Seq(Bits)
                /\ \A bits : \A p \in Nat : Placed(bits, p, m) =>
                     ReadBitmap(bits, p, min, w) = Tree(lengths, 0, p + Len(m))
            BY <2>1, <3>2, <5>1, BitmapComesBack
          <5>3. PICK one \in Seq(Bits) : one = <<1>> /\ Len(one) = 1 /\ one[1] = 1
            <6>1. <<1>> \in Seq(Bits) /\ Len(<<1>>) = 1 /\ <<1>>[1] = 1
              BY DEF Bits
            <6> QED
              BY <6>1
          <5>4. rest = one \o m /\ rest \in Seq(Bits) /\ Len(rest) = 1 + Len(m) /\ Len(m) \in Nat
            BY <3>4, <4>1, <5>1, <5>2, <5>3, Concatenated
          <5>5. ASSUME NEW bits, NEW p \in Nat, Placed(bits, p, rest)
                PROVE  bits[p] = 1 /\ ReadBitmap(bits, p + 1, min, w) = Tree(lengths, 0, p + Len(rest))
            <6>1. Placed(bits, p, one) /\ Placed(bits, p + 1, m)
              BY <5>2, <5>3, <5>4, <5>5, PlacedParts, ZenonT(60)
            <6>2. bits[p] = 1
              <7>1. 1 \in 1 .. Len(one) /\ p + 1 - 1 = p
                BY <5>3
              <7>2. bits[p + 1 - 1] = one[1]
                BY <6>1, <7>1 DEF Placed
              <7> QED
                BY <5>3, <7>1, <7>2
            <6>3. p + 1 \in Nat /\ (p + 1) + Len(m) = p + Len(rest)
              BY <5>4
            <6> QED
              BY <5>2, <6>1, <6>2, <6>3
          <5> QED
            BY <5>4, <5>5
        <4>2. CASE ~(n > MaxListed)
          <5>1. PICK m : m = WrittenList(table, min, w)
            OBVIOUS
          <5>0. Len(table) <= NoLength
            <6>1. MaxListed \in 1 .. NoLength
              BY HuffmanAssumption DEF NoLength
            <6> QED
              BY <1>1, <2>2, <4>2, <6>1
          <5>2. /\ m \in Seq(Bits)
                /\ \A bits : \A p \in Nat : Placed(bits, p, m) =>
                     ReadList(bits, p, min, w) = Tree(lengths, 0, p + Len(m))
            BY <2>1, <3>2, <5>0, <5>1, ListComesBack
          <5>3. PICK zero \in Seq(Bits) : zero = <<0>> /\ Len(zero) = 1 /\ zero[1] = 0
            <6>1. <<0>> \in Seq(Bits) /\ Len(<<0>>) = 1 /\ <<0>>[1] = 0
              BY DEF Bits
            <6> QED
              BY <6>1
          <5>4. rest = zero \o m /\ rest \in Seq(Bits) /\ Len(rest) = 1 + Len(m) /\ Len(m) \in Nat
            BY <3>4, <4>2, <5>1, <5>2, <5>3, Concatenated
          <5>5. ASSUME NEW bits, NEW p \in Nat, Placed(bits, p, rest)
                PROVE  bits[p] # 1 /\ ReadList(bits, p + 1, min, w) = Tree(lengths, 0, p + Len(rest))
            <6>1. Placed(bits, p, zero) /\ Placed(bits, p + 1, m)
              BY <5>2, <5>3, <5>4, <5>5, PlacedParts, ZenonT(60)
            <6>2. bits[p] = 0
              <7>1. 1 \in 1 .. Len(zero) /\ p + 1 - 1 = p
                BY <5>3
              <7>2. bits[p + 1 - 1] = zero[1]
                BY <6>1, <7>1 DEF Placed
              <7> QED
                BY <5>3, <7>1, <7>2
            <6>3. p + 1 \in Nat /\ (p + 1) + Len(m) = p + Len(rest)
              BY <5>4
            <6> QED
              BY <5>2, <6>1, <6>2, <6>3
          <5> QED
            BY <5>4, <5>5
        <4> QED
          BY <4>1, <4>2
      <3>8. word \in Seq(Bits) /\ Len(word) = L + L + Len(rest) /\ Len(rest) \in Nat
        <4>1. PICK r \in Seq(Bits) : r = rest
          BY <3>7
        <4>2. u \o v \o r \in Seq(Bits) /\ Len(u \o v \o r) = Len(u) + Len(v) + Len(r)
          BY PlacedThree
        <4>3. Len(r) \in Nat
          OBVIOUS
        <4> QED
          BY <3>5, <3>6, <4>1, <4>2, <4>3
      <3>9. ASSUME NEW bits, NEW p \in Nat, Placed(bits, p, word)
            PROVE  read_codes(bits, p) = [codes |-> table, single_symbol |-> 0, next |-> p + Len(word)]
        <4>1. Placed(bits, p, u) /\ Placed(bits, p + L, v) /\ Placed(bits, p + L + L, rest)
          BY <3>5, <3>6, <3>7, <3>9, PlacedThree, ZenonT(60)
        <4>2. ValueAt(bits, p, L) = min
          BY <1>1, <3>3, <3>5, <4>1, PlacedNumber
        <4>3. ValueAt(bits, p + L, L) = max
          <5>1. p + L \in Nat
            OBVIOUS
          <5> QED
            BY <1>1, <3>3, <3>5, <4>1, <5>1, PlacedNumber
        <4>4. PICK q \in Nat : q = p + L + L /\ q = p + 2 * L /\ q + Len(rest) = p + Len(word)
          BY <3>8
        <4>5. (IF bits[q] = 1 THEN ReadBitmap(bits, q + 1, min, w) ELSE ReadList(bits, q + 1, min, w))
                = Tree(lengths, 0, q + Len(rest))
          BY <3>7, <4>1, <4>4
        <4>6. min # NoLength /\ max # 0
          BY <1>1, <3>2
        <4>7. read_codes(bits, p) =
                IF bits[q] = 1 THEN ReadBitmap(bits, q + 1, min, bit_width(max - min))
                               ELSE ReadList(bits, q + 1, min, bit_width(max - min))
          BY <1>1, <4>2, <4>3, <4>4, <4>6 DEF read_codes
        <4> QED
          BY <3>1, <4>4, <4>5, <4>7 DEF Tree
      <3>10. \A p \in Nat : p + Len(word) \in Nat
        BY <3>8
      <3> QED
        BY <1>4, <2>2, <2>4, <3>8, <3>9, <3>10 DEF TreeOf
    <2> QED
      BY <2>3, <2>4
  <1> QED
    BY <1>5, <1>6

-----------------------------------------------------------------------------
(* A chunk with prefix codes.                                              *)

(* A symbol and its tree. *)
CodedSymbols == [tree : Trees, symbol : 0 .. MAX_SYMBOL - 1]

(* The symbols of a tree, as they are counted. *)
LEMMA CountsTyped ==
  ASSUME NEW all \in Seq(CodedSymbols), NEW tree
  PROVE  /\ Counts(all, tree) \in [Symbols -> Nat]
         /\ \A k \in 1 .. Len(all) : all[k].tree = tree => Counts(all, tree)[all[k].symbol] > 0
  <1>1. PICK n \in Nat : n = Len(all) /\ DOMAIN all = 1 .. n
    OBVIOUS
  <1> DEFINE At(s) == {k \in DOMAIN all : all[k] = Symbol(tree, s)}
  <1>2. IsFiniteSet(1 .. n)
    BY FS_Interval
  <1>3. \A s : IsFiniteSet(At(s)) /\ Cardinality(At(s)) \in Nat
    <2> SUFFICES ASSUME NEW s PROVE IsFiniteSet(At(s)) /\ Cardinality(At(s)) \in Nat
      OBVIOUS
    <2>1. At(s) \subseteq 1 .. n
      BY <1>1
    <2> HIDE DEF At
    <2> QED
      BY <1>2, <2>1, FS_Subset, FS_CardinalityType
  <1>4. \A s \in Symbols : Counts(all, tree)[s] = Cardinality(At(s))
    BY DEF Counts
  <1>5. Counts(all, tree) = [s \in Symbols |-> Cardinality(At(s))]
    BY DEF Counts
  <1>6. Counts(all, tree) \in [Symbols -> Nat]
    <2> HIDE DEF At
    <2> QED
      BY <1>3, <1>5
  <1>7. ASSUME NEW k \in 1 .. Len(all), all[k].tree = tree PROVE Counts(all, tree)[all[k].symbol] > 0
    <2>1. all[k] \in CodedSymbols
      BY ElementOf
    <2>2. PICK s : s = all[k].symbol /\ s \in Symbols /\ all[k] = Symbol(tree, s)
      BY <1>7, <2>1 DEF CodedSymbols, Symbol, Symbols
    <2>3. k \in At(s)
      BY <1>1, <2>2
    <2> HIDE DEF At
    <2>4. PICK c \in Nat : c = Cardinality(At(s))
      BY <1>3
    <2>5. c # 0
      BY <1>3, <2>3, <2>4, FS_EmptySet
    <2>6. Counts(all, tree)[s] = c
      BY <1>4, <2>2, <2>4
    <2>7. c > 0
      BY <2>5
    <2> QED
      BY <2>2, <2>6, <2>7
  <1> QED
    BY <1>6, <1>7

(* Where a word is, a decoder with the tree of a table finds a symbol. *)
ReadsAs(word, table, s) ==
  /\ word \in Seq(Bits)
  /\ \A tree : \A bits : \A p \in Nat :
       /\ TreeOf(tree, table) /\ Placed(bits, p, word)
       /\ Len(bits) \in Nat /\ p + Len(word) <= Len(bits) + 1
       => decode_symbol(tree, bits, p) = {[symbol |-> s, next |-> p + Len(word)]}

(* The word of a symbol that was counted is read as this symbol. *)
LEMMA SymbolComesBack ==
  ASSUME NEW counts \in [Symbols -> Nat], NEW lengths, lengths = CodeLengths(counts), IsShort(lengths),
         NEW table, table = Canonical(lengths), NEW s \in Symbols, counts[s] > 0
  PROVE  ReadsAs(write_symbol(table, s), table, s)
  <1>1. IsTree(lengths) /\ \E c \in lengths : c.symbol = s
    <2>1. s \in Used(counts)
      BY DEF Used
    <2> QED
      BY <2>1, LengthsAreTree
  <1>2. TableOf(lengths, table)
    BY <1>1, TableFacts
  <1>3. PICK k \in 1 .. Len(table) : table[k].symbol = s
    <2>1. PICK c \in lengths : c.symbol = s
      BY <1>1
    <2>2. PICK k \in 1 .. Len(table) : Entry(table[k]) = c
      BY <1>2 DEF TableOf
    <2> QED
      BY <2>1, <2>2 DEF Entry
  <1>4. PICK b, v : /\ b = table[k].bits /\ v = table[k].value
                    /\ b \in Nat /\ b < NoLength /\ v \in 0 .. 2^b - 1
    BY <1>2 DEF TableOf
  <1>5. CodeOf(table, s) = table[k]
    BY <1>2, <1>3, CodeOfIs
  <1>6. write_symbol(table, s) = Unsigned(b, v)
    BY <1>4, <1>5 DEF write_symbol
  <1>7. b \in 0 .. SymbolBits + NoLength /\ v \in Nat
    BY <1>4, Ranges, PowersOfTwo
  <1>8. Unsigned(b, v) \in Seq(Bits) /\ Len(Unsigned(b, v)) = b
    BY <1>7, UnsignedBits DEF Bits
  <1>9. ASSUME NEW tree, NEW bits, NEW p \in Nat, TreeOf(tree, table), Placed(bits, p, Unsigned(b, v)),
               Len(bits) \in Nat, p + b <= Len(bits) + 1
        PROVE  decode_symbol(tree, bits, p) = {[symbol |-> s, next |-> p + b]}
    <2>1. CASE Len(table) = 1
      <3>1. b = 0 /\ k = 1
        BY <1>2, <1>4, <2>1 DEF TableOf
      <3>2. tree.codes = <<>> /\ tree.single_symbol = s
        BY <1>3, <1>9, <2>1, <3>1 DEF TreeOf
      <3>3. p + b = p
        BY <3>1
      <3> QED
        BY <3>2, <3>3 DEF decode_symbol
    <2>2. CASE Len(table) # 1
      <3>1. tree.codes = table
        BY <1>9, <2>2 DEF TreeOf
      <3>2. /\ tree.codes = Canonical(lengths) /\ k \in 1 .. Len(tree.codes)
            /\ tree.codes[k].bits = b /\ tree.codes[k].value = v /\ tree.codes[k].symbol = s
        BY <1>3, <1>4, <3>1
      <3>3. p + tree.codes[k].bits <= Len(bits) + 1
        BY <1>9, <3>2
      <3>4. Placed(bits, p, Unsigned(tree.codes[k].bits, tree.codes[k].value))
        BY <1>9, <3>2
      <3>5. decode_symbol(tree, bits, p) = {[symbol |-> tree.codes[k].symbol, next |-> p + tree.codes[k].bits]}
        BY <1>1, <1>9, <3>2, <3>3, <3>4, SymbolDecoded
      <3> QED
        BY <3>2, <3>5
    <2> QED
      BY <2>1, <2>2
  <1> QED
    BY <1>6, <1>8, <1>9 DEF ReadsAs

(* Trees[i] is what is read of the i-th table. *)
ReadBack(trees, tables, n) == \A i \in 1 .. n : TreeOf(trees[i], tables[i])

(* SymbolSourceHuffman::start reads the tables of all the states. *)
LEMMA TreesComeBack ==
  ASSUME NEW n \in Nat, NEW lengths, NEW tables,
         \A i \in 1 .. n : /\ lengths[i] = {} \/ (IsTree(lengths[i]) /\ IsShort(lengths[i]))
                           /\ tables[i] = Canonical(lengths[i]),
         NEW piece, \A i \in 1 .. n : piece[i] = write_codes(tables[i]),
         NEW f, Gathered(f, piece, n)
  PROVE  /\ \A i \in 1 .. n : piece[i] \in Seq(Bits)
         /\ \A bits : Placed(bits, 1, f[n]) =>
              \E trees : /\ ReadTrees(bits, n) = [next |-> 1 + Len(f[n]), trees |-> trees]
                         /\ ReadBack(trees, tables, n)
  <1>1. ASSUME NEW i \in 1 .. n
        PROVE  /\ piece[i] \in Seq(Bits)
               /\ \A bits : \A p \in Nat :
                    Placed(bits, p, piece[i]) =>
                      /\ TreeOf(read_codes(bits, p), tables[i])
                      /\ read_codes(bits, p).next = p + Len(piece[i])
                      /\ read_codes(bits, p) \in [codes : Seq(Codes), single_symbol : Symbols, next : Nat]
    <2>1. PICK l, t, w : l = lengths[i] /\ t = tables[i] /\ w = piece[i]
      OBVIOUS
    <2>2. l = {} \/ (IsTree(l) /\ IsShort(l))
      BY <2>1
    <2>3. t = Canonical(l) /\ w = write_codes(t)
      BY <2>1
    <2>4. /\ w \in Seq(Bits)
          /\ \A bits : \A p \in Nat :
               Placed(bits, p, w) =>
                 /\ TreeOf(read_codes(bits, p), t)
                 /\ read_codes(bits, p).next = p + Len(w)
                 /\ read_codes(bits, p) \in [codes : Seq(Codes), single_symbol : Symbols, next : Nat]
      BY <2>2, <2>3, CodesComeBack, ZenonT(60)
    <2> QED
      BY <2>1, <2>4
  <1>2. SUFFICES ASSUME NEW bits, Placed(bits, 1, f[n])
                 PROVE  \E trees : /\ ReadTrees(bits, n) = [next |-> 1 + Len(f[n]), trees |-> trees]
                                   /\ ReadBack(trees, tables, n)
    BY <1>1
  <1>3. /\ f[0] = <<>> /\ \A i \in 0 .. n : f[i] \in Seq(Bits)
        /\ \A i \in 1 .. n : Len(f[i]) = Len(f[i - 1]) + Len(piece[i])
        /\ \A i \in 1 .. n : Placed(bits, 1 + Len(f[i - 1]), piece[i])
    <2>1. PICK p \in Nat : p = 1
      OBVIOUS
    <2>2. /\ f[0] = <<>> /\ \A i \in 0 .. n : f[i] \in Seq(Bits)
          /\ \A i \in 1 .. n : Len(f[i]) = Len(f[i - 1]) + Len(piece[i])
          /\ Placed(bits, p, f[n]) => \A i \in 1 .. n : Placed(bits, p + Len(f[i - 1]), piece[i])
      BY <1>1, PlacedPieces DEF InPlace
    <2> QED
      BY <1>2, <2>1, <2>2
  <1> DEFINE One == [codes : Seq(Codes), single_symbol : Symbols, next : Nat]
             Some == [next : Nat, trees : Seq(One)]
             With == [r \in Some |-> LET tree == read_codes(bits, r.next)
                                     IN  [next |-> tree.next, trees |-> Append(r.trees, tree)]]
             first == [next |-> 1, trees |-> <<>>]
             Loop(g) == g = [i \in 0 .. n |-> IF i = 0 THEN first ELSE With[g[i - 1]]]
             R == CHOOSE g : Loop(g)
  <1>4. \E g : Loop(g)
    <2> DEFINE step == [i \in 1 .. n |-> With]
    <2>1. PICK g : Carried(g, step, first, n)
      <3> HIDE DEF step, first
      <3> QED
        BY LoopExists
    <2>2. \A i \in 0 .. n : ~(i = 0) => step[i] = With
      OBVIOUS
    <2> HIDE DEF step, first, With
    <2>3. Loop(g)
      BY <2>1, <2>2 DEF Carried
    <2> QED
      BY <2>3
  <1>5. Loop(R)
    BY <1>4
  <1>6. ReadTrees(bits, n) = R[n]
    BY DEF ReadTrees
  <1>7. R[0] = first /\ \A i \in 1 .. n : R[i] = With[R[i - 1]]
    <2> HIDE DEF R, With, first
    <2>1. \A i \in 1 .. n : i \in 0 .. n /\ i # 0
      OBVIOUS
    <2> QED
      BY <1>5, <2>1
  <1> HIDE DEF R
  <1> DEFINE Right(i) == /\ R[i] \in Some /\ R[i].next = 1 + Len(f[i]) /\ Len(R[i].trees) = i
                         /\ \A j \in 1 .. i : TreeOf(R[i].trees[j], tables[j])
             Bad == {i \in Nat : i <= n /\ ~Right(i)}
  <1>8. Right(0)
    <2>1. Len(f[0]) = 0
      BY <1>3
    <2>2. R[0] = [next |-> 1, trees |-> <<>>]
      BY <1>7
    <2>3. <<>> \in Seq(One) /\ Len(<<>>) = 0
      OBVIOUS
    <2>4. R[0] \in Some
      <3> HIDE DEF One
      <3> QED
        BY <2>2, <2>3
    <2> QED
      BY <2>1, <2>2, <2>3, <2>4
  <1>9. ASSUME NEW i \in 1 .. n, Right(i - 1) PROVE Right(i)
    <2>1. PICK p, old : p = R[i - 1].next /\ old = R[i - 1].trees
      OBVIOUS
    <2>2. PICK tree : tree = read_codes(bits, p)
      OBVIOUS
    <2>3. R[i - 1] \in Some /\ p = 1 + Len(f[i - 1]) /\ p \in Nat /\ old \in Seq(One) /\ Len(old) = i - 1
      BY <1>9, <2>1
    <2>4. Placed(bits, p, piece[i])
      BY <1>3, <2>3
    <2>5. TreeOf(tree, tables[i]) /\ tree.next = p + Len(piece[i]) /\ tree \in One
      BY <1>1, <2>2, <2>3, <2>4
    <2>6. R[i] = [next |-> tree.next, trees |-> Append(old, tree)]
      BY <1>7, <2>1, <2>2, <2>3
    <2>7. PICK new : new = Append(old, tree)
      OBVIOUS
    <2>7a. tree.next \in Nat
      BY <2>5
    <2> HIDE DEF One, With
    <2>8. /\ new \in Seq(One) /\ Len(new) = (i - 1) + 1
          /\ \A j \in 1 .. i - 1 : new[j] = old[j]
          /\ new[(i - 1) + 1] = tree
      <3>1. /\ new \in Seq(One) /\ Len(new) = Len(old) + 1
            /\ \A j \in 1 .. Len(old) : new[j] = old[j]
            /\ new[Len(old) + 1] = tree
        BY <2>3, <2>5, <2>7, Appended
      <3> QED
        BY <2>3, <3>1
    <2>9. R[i] \in Some /\ R[i].next = tree.next /\ R[i].trees = new
      BY <2>6, <2>7, <2>7a, <2>8
    <2>10. tree.next = 1 + Len(f[i])
      <3>1. PICK a \in Nat, b \in Nat : a = Len(f[i - 1]) /\ b = Len(piece[i])
        <4>1. i - 1 \in 0 .. n
          OBVIOUS
        <4> QED
          BY <1>1, <1>3, <4>1
      <3>2. Len(f[i]) = a + b /\ tree.next = (1 + a) + b
        BY <1>3, <2>3, <2>5, <3>1
      <3> QED
        BY <3>2
    <2>11. ASSUME NEW j \in 1 .. i PROVE TreeOf(new[j], tables[j])
      <3>1. CASE j = i
        BY <2>5, <2>8, <3>1
      <3>2. CASE j # i
        <4>1. j \in 1 .. i - 1
          BY <3>2
        <4>2. TreeOf(old[j], tables[j])
          BY <1>9, <2>1, <4>1
        <4> QED
          BY <2>8, <4>1, <4>2
      <3> QED
        BY <3>1, <3>2
    <2> QED
      BY <2>8, <2>9, <2>10, <2>11
  <1> HIDE DEF Right
  <1>10. Bad = {}
    <2> SUFFICES ASSUME Bad # {} PROVE FALSE
      OBVIOUS
    <2>1. PICK i \in Bad : i = 0 \/ (i - 1 \in Nat /\ i - 1 \notin Bad)
      <3>1. Bad \in SUBSET Nat
        OBVIOUS
      <3> HIDE DEF Bad
      <3> QED
        BY <3>1, LeastOf
    <2>2. i # 0
      BY <1>8, <2>1
    <2>3. i \in 1 .. n /\ Right(i - 1)
      BY <2>1, <2>2
    <2> QED
      BY <1>9, <2>1, <2>3
  <1>11. Right(n)
    BY <1>10
  <1>12. R[n] = [next |-> 1 + Len(f[n]), trees |-> R[n].trees] /\ ReadBack(R[n].trees, tables, n)
    <2> HIDE DEF One
    <2> QED
      BY <1>11 DEF Right, ReadBack
  <1> QED
    BY <1>6, <1>12

-----------------------------------------------------------------------------
(* What a decoder reads.                                                   *)

(* The states of the coders. *)
LEMMA StatesAre ==
  ASSUME input.coder \in RunCoders \cup SizeCoders
  PROVE  /\ Len(States(input.coder)) \in Nat /\ DOMAIN States(input.coder) = 1 .. Len(States(input.coder))
         /\ input.coder = "residuals" =>
              \A tree \in {"LSB", "MSB", "ZERO"} : \E i \in 1 .. Len(States(input.coder)) : States(input.coder)[i] = tree
         /\ input.coder \in {"temporal", "flags"} =>
              \A tree \in {"ZERO_RUN", "ONE_RUN"} : \E i \in 1 .. Len(States(input.coder)) : States(input.coder)[i] = tree
         /\ input.coder \in SizeCoders =>
              \A tree \in {"LSB", "MSB"} : \E i \in 1 .. Len(States(input.coder)) : States(input.coder)[i] = tree
  <1>1. CASE input.coder = "residuals"
    <2>1. PICK s : s = States(input.coder) /\ s = <<"LSB", "MSB", "ZERO">>
      BY <1>1 DEF States, SizeCoders
    <2>2. Len(s) = 3 /\ DOMAIN s = 1 .. 3 /\ s[1] = "LSB" /\ s[2] = "MSB" /\ s[3] = "ZERO"
      BY <2>1
    <2>3. 1 \in 1 .. 3 /\ 2 \in 1 .. 3 /\ 3 \in 1 .. 3
      OBVIOUS
    <2> QED
      BY <1>1, <2>1, <2>2, <2>3 DEF SizeCoders
  <1>2. CASE input.coder \in {"temporal", "flags"}
    <2>1. PICK s : s = States(input.coder) /\ s = <<"ZERO_RUN", "ONE_RUN">>
      BY <1>2 DEF States, SizeCoders
    <2>2. Len(s) = 2 /\ DOMAIN s = 1 .. 2 /\ s[1] = "ZERO_RUN" /\ s[2] = "ONE_RUN"
      BY <2>1
    <2>3. 1 \in 1 .. 2 /\ 2 \in 1 .. 2
      OBVIOUS
    <2> QED
      <3>1. \A tree \in {"ZERO_RUN", "ONE_RUN"} : \E i \in 1 .. 2 : s[i] = tree
        BY <2>2, <2>3
      <3>2. input.coder # "residuals" /\ input.coder \notin SizeCoders
        BY <1>2 DEF SizeCoders
      <3> QED
        BY <2>1, <2>2, <3>1, <3>2
  <1>3. CASE input.coder \in SizeCoders
    <2>1. PICK s : s = States(input.coder) /\ s = <<"LSB", "MSB">>
      BY <1>3 DEF States, SizeCoders
    <2>2. Len(s) = 2 /\ DOMAIN s = 1 .. 2 /\ s[1] = "LSB" /\ s[2] = "MSB"
      BY <2>1
    <2>3. 1 \in 1 .. 2 /\ 2 \in 1 .. 2
      OBVIOUS
    <2> QED
      <3>1. \A tree \in {"LSB", "MSB"} : \E i \in 1 .. 2 : s[i] = tree
        BY <2>2, <2>3
      <3>2. input.coder # "residuals" /\ input.coder \notin {"temporal", "flags"}
        BY <1>3 DEF SizeCoders
      <3> QED
        BY <2>1, <2>2, <3>1, <3>2
  <1>4. input.coder = "residuals" \/ input.coder \in {"temporal", "flags"} \/ input.coder \in SizeCoders
    BY DEF RunCoders
  <1> QED
    BY <1>1, <1>2, <1>3, <1>4

(* Each state has its table. *)
LEMMA TablesAre ==
  ASSUME NEW all, NEW n \in Nat, n = Len(States(input.coder))
  PROVE  /\ Len(Tables(all)) = n
         /\ \A i \in 1 .. n : Tables(all)[i] = EncoderTable(Counts(all, States(input.coder)[i]))
  <1> DEFINE T(i) == EncoderTable(Counts(all, States(input.coder)[i]))
             piece == [i \in 1 .. n |-> <<T(i)>>]
             A == {T(i) : i \in 1 .. n}
  <1>1. \A i \in 1 .. n : piece[i] = <<T(i)>> /\ T(i) \in A
    OBVIOUS
  <1> DEFINE Loop(f) == f = [i \in (1 - 1) .. Len(States(input.coder)) |-> IF i < 1 THEN <<>> ELSE f[i - 1] \o <<T(i)>>]
             F == CHOOSE f : Loop(f)
  <1>2. \A i \in (1 - 1) .. n : ~(i < 1) => piece[i] = <<T(i)>>
    BY <1>1
  <1>3. \A i \in 1 .. n : piece[i] \in Seq(A) /\ Len(piece[i]) = 1 /\ piece[i][1] = T(i)
    <2> SUFFICES ASSUME NEW i \in 1 .. n
                 PROVE  piece[i] \in Seq(A) /\ Len(piece[i]) = 1 /\ piece[i][1] = T(i)
      OBVIOUS
    <2>1. PICK t, w : t = T(i) /\ w = piece[i] /\ w = <<t>> /\ t \in A
      BY <1>1
    <2> HIDE DEF T, piece, A
    <2>2. <<t>> \in Seq(A) /\ Len(<<t>>) = 1 /\ <<t>>[1] = t
      BY <2>1
    <2> QED
      BY <2>1, <2>2
  <1>4. \E f : Loop(f)
    <2> HIDE DEF T, piece, A
    <2>1. PICK f : Gathered(f, piece, n)
      BY <1>3, GatheredExists
    <2>2. f = [i \in (1 - 1) .. n |-> IF i < 1 THEN <<>> ELSE f[i - 1] \o piece[i]]
      BY <2>1 DEF Gathered
    <2>3. Loop(f)
      BY <1>2, <2>2
    <2> QED
      BY <2>3
  <1>5. Loop(F)
    BY <1>4
  <1>6. Tables(all) = F[n]
    BY DEF Tables, Joined
  <1> HIDE DEF F, T, piece, A
  <1>7. Gathered(F, piece, n)
    BY <1>2, <1>5 DEF Gathered
  <1>8. /\ F[0] = <<>> /\ \A i \in 0 .. n : F[i] \in Seq(A)
        /\ \A i \in 1 .. n : Len(F[i]) = Len(F[i - 1]) + Len(piece[i])
        /\ \A i \in 1 .. n : \A x \in 1 .. Len(piece[i]) : F[n][Len(F[i - 1]) + x] = piece[i][x]
    <2>1. Pieced(F, piece, n, A)
      BY <1>3, <1>7, GatheredPieces
    <2> QED
      BY <2>1 DEF Pieced
  <1>9. ASSUME NEW i \in 0 .. n PROVE Len(F[i]) = i
    <2> DEFINE g == [j \in 0 .. n |-> Len(F[j])]
               h == [j \in 0 .. n |-> j]
    <2>1. g[0] = h[0]
      BY <1>8
    <2>2. ASSUME NEW j \in 1 .. n, g[j - 1] = h[j - 1] PROVE g[j] = h[j]
      <3>1. Len(F[j]) = Len(F[j - 1]) + 1
        BY <1>3, <1>8
      <3> QED
        BY <2>2, <3>1
    <2>3. \A j \in 0 .. n : g[j] = Len(F[j]) /\ h[j] = j
      OBVIOUS
    <2> HIDE DEF g, h
    <2>4. g[i] = h[i]
      BY <2>1, <2>2, SameLoop
    <2> QED
      BY <2>3, <2>4
  <1>10. ASSUME NEW i \in 1 .. n PROVE F[n][i] = T(i)
    <2>1. i - 1 \in 0 .. n /\ 1 \in 1 .. Len(piece[i])
      BY <1>3
    <2>2. F[n][Len(F[i - 1]) + 1] = T(i)
      BY <1>3, <1>8, <2>1
    <2>3. Len(F[i - 1]) + 1 = i
      BY <1>9, <2>1
    <2> QED
      BY <2>2, <2>3
  <1>11. Len(F[n]) = n
    BY <1>9
  <1> QED
    BY <1>6, <1>10, <1>11 DEF T

(* What a decoder gets at place p if it asks for a symbol of a tree. *)
ReadAt(sent, tree, trees, p) ==
  IF sent.rle_only \/ tree = "BYTE"
    THEN IF p + SymbolBits > Len(sent.bits) + 1 THEN {}
         ELSE {[symbol |-> ValueAt(sent.bits, p, SymbolBits), next |-> p + SymbolBits]}
    ELSE decode_symbol(trees[StateOf(tree)], sent.bits, p)

(* Behind symbol k the decoder is at places[k]: at every one of these the  *)
(* next symbol comes back, and at the last there are no more bits than     *)
(* fill the last byte.                                                     *)
Readable(sent, all, places, trees) ==
  /\ sent \in [enabled : {TRUE}, rle_only : BOOLEAN, bits : Seq(Bits)]
  /\ places \in [0 .. Len(all) -> 1 .. Len(sent.bits) + 1]
  /\ Len(sent.bits) - (places[Len(all)] - 1) < SymbolBits
  /\ sent.rle_only => places[0] = 1 /\ trees = <<>>
  /\ ~sent.rle_only =>
       ReadTrees(sent.bits, Len(States(input.coder))) = [next |-> places[0], trees |-> trees]
  /\ \A k \in 1 .. Len(all) :
       ReadAt(sent, all[k].tree, trees, places[k - 1]) = {[symbol |-> all[k].symbol, next |-> places[k]]}

(* A byte is read as it was written. *)
LEMMA ByteComesBack ==
  ASSUME NEW s \in Symbols, NEW bits, NEW p \in Nat, Placed(bits, p, Unsigned(SymbolBits, s))
  PROVE  ValueAt(bits, p, SymbolBits) = s
  <1>1. SymbolBits \in 0 .. SymbolBits + NoLength
    BY Ranges
  <1>2. s \in 0 .. 2^SymbolBits - 1
    BY DEF Symbols, MAX_SYMBOL
  <1> QED
    BY <1>1, <1>2, PlacedNumber

-----------------------------------------------------------------------------
(* The tables and then the symbols.                                        *)

(* Padding fills the last byte and disturbs nothing. *)
LEMMA PaddedBits ==
  ASSUME NEW word \in Seq(Bits), NEW bits, bits = Padded(word)
  PROVE  /\ bits \in Seq(Bits) /\ Len(bits) - Len(word) \in 0 .. SymbolBits - 1
         /\ Placed(bits, 1, word)
  <1>1. PICK n \in Nat, w \in Nat \ {0} : n = Len(word) /\ w = SymbolBits
    BY Ranges
  <1>2. PICK z \in 0 .. w - 1 : z = (-n) % w
    OBVIOUS
  <1>3. PICK zeros : zeros = [i \in 1 .. z |-> 0] /\ zeros \in Seq(Bits) /\ Len(zeros) = z
    <2>1. 0 \in Bits
      BY DEF Bits
    <2>2. PICK zeros : zeros = [i \in 1 .. z |-> 0]
      OBVIOUS
    <2>3. zeros \in [1 .. z -> Bits]
      BY <2>1, <2>2
    <2>4. zeros \in Seq(Bits) /\ Len(zeros) = z
      BY <2>2, <2>3
    <2> QED
      BY <2>2, <2>4
  <1>4. bits = word \o zeros
    BY <1>1, <1>2, <1>3 DEF Padded
  <1>5. /\ word \o zeros \in Seq(Bits) /\ Len(word \o zeros) = n + z
        /\ \A i \in 1 .. n : (word \o zeros)[i] = word[i]
    BY <1>1, <1>3, Concatenated
  <1>6. Placed(bits, 1, word)
    <2> SUFFICES ASSUME NEW i \in 1 .. n PROVE bits[1 + i - 1] = word[i]
      BY <1>1 DEF Placed
    <2>1. 1 + i - 1 = i
      OBVIOUS
    <2> QED
      BY <1>4, <1>5, <2>1
  <1>7. Len(bits) - Len(word) = z
    BY <1>1, <1>4, <1>5
  <1> QED
    BY <1>1, <1>4, <1>5, <1>6, <1>7

(* The words of a chunk: the tables and then the symbols. *)
WrittenTables(tables, all, head, body) ==
  /\ \A i \in 1 .. Len(tables) : head[i] = write_codes(tables[i]) /\ head[i] \in Seq(Bits)
  /\ \A k \in 1 .. Len(all) : body[k] = SymbolCode(tables, all[k]) /\ body[k] \in Seq(Bits)

(* The tables, one after the other, and then the symbols. *)
LEMMA PrefixIs ==
  ASSUME NEW all, NEW tables, NEW head, NEW body, WrittenTables(tables, all, head, body),
         Len(tables) \in Nat, Len(all) \in Nat
  PROVE  \E f, g : /\ Gathered(f, head, Len(tables)) /\ Gathered(g, body, Len(all))
                   /\ Prefix(all, tables) = f[Len(tables)] \o g[Len(all)]
  <1>0. PICK n \in Nat, m \in Nat : n = Len(tables) /\ m = Len(all)
    OBVIOUS
  <1> DEFINE W(i) == write_codes(tables[i])
             C(k) == SymbolCode(tables, all[k])
             Heads(f) == f = [i \in (1 - 1) .. Len(tables) |-> IF i < 1 THEN <<>> ELSE f[i - 1] \o W(i)]
             Bodies(f) == f = [k \in (1 - 1) .. Len(all) |-> IF k < 1 THEN <<>> ELSE f[k - 1] \o C(k)]
             F == CHOOSE f : Heads(f)
             G == CHOOSE f : Bodies(f)
  <1>1. \A i \in (1 - 1) .. n : ~(i < 1) => head[i] = W(i)
    BY <1>0 DEF WrittenTables
  <1>2. \A k \in (1 - 1) .. m : ~(k < 1) => body[k] = C(k)
    BY <1>0 DEF WrittenTables
  <1>3. \E f : Heads(f)
    <2> HIDE DEF W
    <2>0. \A i \in 1 .. n : head[i] \in Seq(Bits)
      BY <1>0 DEF WrittenTables
    <2>1. PICK f : Gathered(f, head, n)
      BY <2>0, GatheredExists
    <2>2. Heads(f)
      BY <1>0, <1>1, <2>1 DEF Gathered
    <2> QED
      BY <2>2
  <1>4. \E f : Bodies(f)
    <2> HIDE DEF C
    <2>0. \A k \in 1 .. m : body[k] \in Seq(Bits)
      BY <1>0 DEF WrittenTables
    <2>1. PICK f : Gathered(f, body, m)
      BY <2>0, GatheredExists
    <2>2. Bodies(f)
      BY <1>0, <1>2, <2>1 DEF Gathered
    <2> QED
      BY <2>2
  <1>5. Heads(F) /\ Bodies(G)
    BY <1>3, <1>4
  <1>6. Prefix(all, tables) = F[Len(tables)] \o G[Len(all)]
    BY DEF Prefix, Joined
  <1> HIDE DEF F, G, W, C
  <1>7. Gathered(F, head, Len(tables))
    BY <1>0, <1>1, <1>5 DEF Gathered
  <1>8. Gathered(G, body, Len(all))
    BY <1>0, <1>2, <1>5 DEF Gathered
  <1> QED
    BY <1>6, <1>7, <1>8

(* The lengths of the codes of each state fit into their field. *)
ShortCodesOf(all) ==
  \A i \in 1 .. Len(States(input.coder)) : IsShort(CodeLengths(Counts(all, States(input.coder)[i])))

(* Every symbol is the first byte of a mask or one of a state. *)
OfStates(all) ==
  \A k \in 1 .. Len(all) :
    all[k].tree = "BYTE" \/ \E i \in 1 .. Len(States(input.coder)) : States(input.coder)[i] = all[k].tree

(* A decoder that has read the tables reads the word as the symbol. *)
Rereads(word, coded, tables, n) ==
  \A sent, trees : \A p \in Nat :
    /\ ~sent.rle_only /\ ReadBack(trees, tables, n) /\ Placed(sent.bits, p, word)
    /\ Len(sent.bits) \in Nat /\ p + Len(word) <= Len(sent.bits) + 1
    => ReadAt(sent, coded.tree, trees, p) = {[symbol |-> coded.symbol, next |-> p + Len(word)]}

(* The word of a symbol is read as this symbol. *)
LEMMA CodeIsRead ==
  ASSUME NEW all \in Seq(CodedSymbols), ShortCodesOf(all), OfStates(all),
         NEW n \in Nat, n = Len(States(input.coder)), DOMAIN States(input.coder) = 1 .. n,
         NEW tables, tables = Tables(all), NEW k \in 1 .. Len(all), NEW word, word = SymbolCode(tables, all[k])
  PROVE  word \in Seq(Bits) /\ Rereads(word, all[k], tables, n)
  <1>1. PICK s, t : s = all[k].symbol /\ t = all[k].tree /\ s \in Symbols
    <2>1. all[k] \in CodedSymbols
      BY ElementOf
    <2> QED
      BY <2>1 DEF CodedSymbols, Symbols
  <1>2. CASE t = "BYTE"
    <2>1. word = Unsigned(SymbolBits, s)
      BY <1>1, <1>2 DEF SymbolCode, Byte
    <2>2. s \in Nat /\ SymbolBits \in 0 .. SymbolBits + NoLength /\ SymbolBits \in Nat
      BY <1>1, Ranges DEF Symbols
    <2>3. word \in Seq(Bits) /\ Len(word) = SymbolBits
      BY <2>1, <2>2, UnsignedBits DEF Bits
    <2>4. ASSUME NEW sent, NEW trees, NEW p \in Nat, Placed(sent.bits, p, word),
                 Len(sent.bits) \in Nat, p + Len(word) <= Len(sent.bits) + 1
          PROVE  ReadAt(sent, t, trees, p) = {[symbol |-> s, next |-> p + Len(word)]}
      <3>1. ValueAt(sent.bits, p, SymbolBits) = s
        BY <1>1, <2>1, <2>4, ByteComesBack
      <3>2. ~(p + SymbolBits > Len(sent.bits) + 1)
        BY <2>2, <2>3, <2>4
      <3> QED
        BY <1>2, <2>3, <3>1, <3>2 DEF ReadAt
    <2> QED
      BY <1>1, <2>3, <2>4 DEF Rereads
  <1>3. CASE t # "BYTE"
    <2>1. PICK i : i = StateOf(t) /\ i \in 1 .. n /\ States(input.coder)[i] = t
      <3>1. \E j \in DOMAIN States(input.coder) : States(input.coder)[j] = t
        BY <1>1, <1>3 DEF OfStates
      <3> QED
        BY <3>1 DEF StateOf
    <2>2. PICK counts, lengths, table : counts = Counts(all, t) /\ lengths = CodeLengths(counts) /\ table = tables[i]
      OBVIOUS
    <2>3. table = Canonical(lengths)
      BY <2>1, <2>2, TablesAre DEF EncoderTable
    <2>4. counts \in [Symbols -> Nat] /\ counts[s] > 0
      BY <1>1, <2>2, CountsTyped
    <2>5. IsShort(lengths)
      BY <2>1, <2>2 DEF ShortCodesOf
    <2>6. word = write_symbol(table, s)
      BY <1>1, <1>3, <2>1, <2>2 DEF SymbolCode
    <2>7. ReadsAs(word, table, s)
      BY <1>1, <2>2, <2>3, <2>4, <2>5, <2>6, SymbolComesBack
    <2>8. ASSUME NEW sent, NEW trees, NEW p \in Nat, ~sent.rle_only, ReadBack(trees, tables, n),
                 Placed(sent.bits, p, word), Len(sent.bits) \in Nat, p + Len(word) <= Len(sent.bits) + 1
          PROVE  ReadAt(sent, t, trees, p) = {[symbol |-> s, next |-> p + Len(word)]}
      <3>1. PICK tree, bits : tree = trees[i] /\ bits = sent.bits
        OBVIOUS
      <3>2. TreeOf(tree, table)
        BY <2>1, <2>2, <2>8, <3>1 DEF ReadBack
      <3>3. decode_symbol(tree, bits, p) = {[symbol |-> s, next |-> p + Len(word)]}
        BY <2>7, <2>8, <3>1, <3>2 DEF ReadsAs
      <3> QED
        BY <1>3, <2>1, <2>8, <3>1, <3>3 DEF ReadAt
    <2> QED
      BY <1>1, <2>7, <2>8 DEF ReadsAs, Rereads
  <1> QED
    BY <1>2, <1>3

(* Places that grow by the lengths of words which fill the bits up to the *)
(* last byte.                                                             *)
Growing(places, m, L, s, first, e) ==
  /\ places \in [0 .. m -> 1 .. e + 1]
  /\ places[0] = first /\ e - (places[m] - 1) < SymbolBits
  /\ \A k \in 0 .. m : places[k] = first + L[k]
  /\ \A k \in 1 .. m : places[k] = places[k - 1] + s[k]

(* Places computed from the lengths of the words before. *)
LEMMA GrowingPlaces ==
  ASSUME NEW m \in Nat, NEW L \in [0 .. m -> Nat], NEW s \in [1 .. m -> Nat],
         L[0] = 0, \A k \in 1 .. m : L[k] = L[k - 1] + s[k],
         NEW a \in Nat, NEW e \in Nat, NEW b \in Nat, b = L[m], e - (a + b) \in 0 .. SymbolBits - 1,
         NEW places, places = [k \in 0 .. m |-> (1 + a) + L[k]]
  PROVE  Growing(places, m, L, s, 1 + a, e)
  <1>1. ASSUME NEW k \in 1 .. m
        PROVE  k \in 0 .. m /\ k - 1 \in 0 .. m /\ L[k] \in Nat /\ L[k - 1] \in Nat /\ s[k] \in Nat
    <2>1. k \in 0 .. m /\ k - 1 \in 0 .. m
      OBVIOUS
    <2> QED
      BY <2>1
  <1>2. \A k \in 0 .. m : L[k] <= b
    <2> DEFINE Bad == {d \in 0 .. m : ~(L[m - d] <= b)}
    <2>1. Bad = {}
      <3> SUFFICES ASSUME Bad # {} PROVE FALSE
        OBVIOUS
      <3>1. PICK d \in Bad : d = 0 \/ (d - 1 \in Nat /\ d - 1 \notin Bad)
        <4>1. Bad \in SUBSET Nat
          OBVIOUS
        <4> HIDE DEF Bad
        <4> QED
          BY <4>1, LeastOf
      <3>2. d \in 0 .. m /\ ~(L[m - d] <= b)
        OBVIOUS
      <3>3. d # 0
        <4>1. m - 0 = m
          OBVIOUS
        <4> QED
          BY <3>2, <4>1
      <3>4. PICK k \in 1 .. m : k = m - (d - 1) /\ k - 1 = m - d /\ L[k] <= b
        <4>1. d - 1 \in 0 .. m /\ m - (d - 1) \in 1 .. m /\ (m - (d - 1)) - 1 = m - d
          BY <3>2, <3>3
        <4>2. L[m - (d - 1)] <= b
          BY <3>1, <3>3, <4>1
        <4> QED
          BY <4>1, <4>2
      <3> HIDE DEF Bad
      <3>5. PICK x \in Nat, y \in Nat, z \in Nat : x = L[k - 1] /\ y = L[k] /\ z = s[k]
        BY <1>1
      <3>6. y = x + z
        BY <3>5
      <3>7. ~(x <= b) /\ y <= b
        BY <3>2, <3>4, <3>5
      <3> QED
        BY <3>6, <3>7
    <2> SUFFICES ASSUME NEW k \in 0 .. m PROVE L[k] <= b
      OBVIOUS
    <2>2. m - k \in 0 .. m /\ m - (m - k) = k
      OBVIOUS
    <2> QED
      BY <2>1, <2>2
  <1>3. ASSUME NEW k \in 0 .. m PROVE places[k] = (1 + a) + L[k] /\ places[k] \in 1 .. e + 1
    <2>1. PICK x \in Nat : x = L[k] /\ x <= b
      BY <1>2
    <2>2. places[k] = (1 + a) + x
      BY <2>1
    <2>3. a + b <= e
      BY Ranges
    <2>4. (1 + a) + x \in 1 .. e + 1
      BY <2>1, <2>3, SMTT(20)
    <2> QED
      BY <2>1, <2>2, <2>4
  <1>4. places[0] = 1 + a
    BY <1>3
  <1>5. e - (places[m] - 1) < SymbolBits
    <2>1. places[m] = (1 + a) + b
      BY <1>3
    <2> QED
      BY <2>1, Ranges
  <1>6. ASSUME NEW k \in 1 .. m PROVE places[k] = places[k - 1] + s[k]
    <2>1. PICK x \in Nat, y \in Nat, z \in Nat : x = L[k - 1] /\ y = L[k] /\ z = s[k]
      BY <1>1
    <2>2. y = x + z
      BY <2>1
    <2>3. places[k] = (1 + a) + y /\ places[k - 1] = (1 + a) + x
      BY <1>1, <1>3, <2>1
    <2> QED
      BY <2>1, <2>2, <2>3
  <1>7. places \in [0 .. m -> 1 .. e + 1]
    BY <1>3
  <1> QED
    BY <1>3, <1>4, <1>5, <1>6, <1>7 DEF Growing

(* Where the words behind the tables start in the bits of a chunk. *)
Starting(bits, front, body, m, places) ==
  /\ places \in [0 .. m -> 1 .. Len(bits) + 1]
  /\ places[0] = 1 + Len(front) /\ Len(bits) - (places[m] - 1) < SymbolBits
  /\ \A k \in 1 .. m : places[k] = places[k - 1] + Len(body[k]) /\ Placed(bits, places[k - 1], body[k])

(* The words of the symbols start behind the tables. *)
LEMMA WordsStart ==
  ASSUME NEW m \in Nat, NEW body, \A k \in 1 .. m : body[k] \in Seq(Bits),
         NEW g, Gathered(g, body, m), NEW front, front \in Seq(Bits), NEW back, back = g[m],
         NEW bits, bits = Padded(front \o back)
  PROVE  Placed(bits, 1, front) /\ bits \in Seq(Bits) /\ \E places : Starting(bits, front, body, m, places)
  <1>1. back \in Seq(Bits)
    <2>1. Pieced(g, body, m, Bits)
      BY GatheredPieces
    <2> QED
      BY <2>1 DEF Pieced
  <1>2. PICK u \in Seq(Bits), v \in Seq(Bits), word \in Seq(Bits) :
          u = front /\ v = back /\ word = u \o v
    <2>1. PICK u \in Seq(Bits), v \in Seq(Bits) : u = front /\ v = back
      BY <1>1
    <2>2. u \o v \in Seq(Bits)
      BY Concatenated
    <2> QED
      BY <2>1, <2>2
  <1>3. /\ bits \in Seq(Bits) /\ Len(bits) - Len(word) \in 0 .. SymbolBits - 1 /\ Placed(bits, 1, word)
    BY <1>2, PaddedBits
  <1>4. PICK a \in Nat, b \in Nat, e \in Nat : a = Len(u) /\ b = Len(v) /\ e = Len(bits)
    BY <1>3
  <1>5. Placed(bits, 1, u) /\ Placed(bits, 1 + a, v) /\ Len(word) = a + b
    <2>1. PICK p \in Nat : p = 1
      OBVIOUS
    <2>2. Placed(bits, p, u \o v)
      BY <1>2, <1>3, <2>1
    <2>3. Placed(bits, p, u) /\ Placed(bits, p + Len(u), v) /\ Len(u \o v) = Len(u) + Len(v)
      BY <2>2, PlacedParts
    <2> QED
      BY <1>2, <1>4, <2>1, <2>3
  <1>6. e - (a + b) \in 0 .. SymbolBits - 1
    BY <1>3, <1>4, <1>5
  <1>7. /\ g[0] = <<>> /\ \A k \in 0 .. m : g[k] \in Seq(Bits)
        /\ \A k \in 1 .. m : Len(g[k]) = Len(g[k - 1]) + Len(body[k])
        /\ \A k \in 1 .. m : Placed(bits, (1 + a) + Len(g[k - 1]), body[k])
    <2>1. PICK p \in Nat : p = 1 + a
      OBVIOUS
    <2>2. InPlace(bits, p, m, body, g)
      BY PlacedPieces
    <2> QED
      BY <1>2, <1>5, <2>1, <2>2 DEF InPlace
  <1>8. PICK L \in [0 .. m -> Nat], s \in [1 .. m -> Nat] :
          /\ \A k \in 0 .. m : L[k] = Len(g[k])
          /\ \A k \in 1 .. m : s[k] = Len(body[k])
    <2>1. \A k \in 0 .. m : Len(g[k]) \in Nat
      BY <1>7
    <2>2. \A k \in 1 .. m : Len(body[k]) \in Nat
      OBVIOUS
    <2>3. [k \in 0 .. m |-> Len(g[k])] \in [0 .. m -> Nat] /\ [k \in 1 .. m |-> Len(body[k])] \in [1 .. m -> Nat]
      BY <2>1, <2>2
    <2> QED
      BY <2>3
  <1>9. L[0] = 0 /\ L[m] = b /\ \A k \in 1 .. m : L[k] = L[k - 1] + s[k]
    <2>1. 0 \in 0 .. m /\ m \in 0 .. m /\ \A k \in 1 .. m : k \in 0 .. m /\ k - 1 \in 0 .. m
      OBVIOUS
    <2>2. Len(g[0]) = 0 /\ Len(g[m]) = b
      BY <1>2, <1>4, <1>7
    <2>3. L[0] = 0 /\ L[m] = b
      BY <1>8, <2>1, <2>2
    <2>4. ASSUME NEW k \in 1 .. m PROVE L[k] = L[k - 1] + s[k]
      <3>1. L[k] = Len(g[k]) /\ L[k - 1] = Len(g[k - 1]) /\ s[k] = Len(body[k])
        BY <1>8, <2>1
      <3> QED
        BY <1>7, <3>1
    <2> QED
      BY <2>3, <2>4
  <1>10. PICK places : places = [k \in 0 .. m |-> (1 + a) + L[k]]
    OBVIOUS
  <1>11. /\ places \in [0 .. m -> 1 .. e + 1]
         /\ places[0] = 1 + a /\ e - (places[m] - 1) < SymbolBits
         /\ \A k \in 0 .. m : places[k] = (1 + a) + L[k]
         /\ \A k \in 1 .. m : places[k] = places[k - 1] + s[k]
    <2>1. Growing(places, m, L, s, 1 + a, e)
      BY <1>6, <1>9, <1>10, GrowingPlaces
    <2> QED
      BY <2>1 DEF Growing
  <1>12. ASSUME NEW k \in 1 .. m
         PROVE  places[k] = places[k - 1] + Len(body[k]) /\ Placed(bits, places[k - 1], body[k])
    <2>1. k - 1 \in 0 .. m
      OBVIOUS
    <2>2. places[k - 1] = (1 + a) + Len(g[k - 1])
      BY <1>8, <1>11, <2>1
    <2> QED
      BY <1>7, <1>8, <1>11, <2>2
  <1>13. Starting(bits, front, body, m, places)
    BY <1>2, <1>4, <1>11, <1>12 DEF Starting
  <1> QED
    BY <1>2, <1>3, <1>5, <1>13

(* A chunk with prefix codes is read as it was written. *)
PrefixChunk(all) == [enabled |-> TRUE, rle_only |-> FALSE, bits |-> Padded(Prefix(all, Tables(all)))]

LEMMA PrefixReadable ==
  ASSUME NEW all \in Seq(CodedSymbols), ShortCodesOf(all), OfStates(all),
         input.coder \in RunCoders \cup SizeCoders,
         NEW sent, sent = PrefixChunk(all)
  PROVE  \E places, trees : Readable(sent, all, places, trees)
  <1>1. PICK n \in Nat, m \in Nat : n = Len(States(input.coder)) /\ DOMAIN States(input.coder) = 1 .. n /\ m = Len(all)
    BY StatesAre
  <1>2. PICK tables : tables = Tables(all)
    OBVIOUS
  <1>3. Len(tables) = n /\ \A i \in 1 .. n : tables[i] = EncoderTable(Counts(all, States(input.coder)[i]))
    BY <1>1, <1>2, TablesAre
  <1>4. PICK lengths : lengths = [i \in 1 .. n |-> CodeLengths(Counts(all, States(input.coder)[i]))]
    OBVIOUS
  <1>5. ASSUME NEW i \in 1 .. n
        PROVE  /\ lengths[i] = {} \/ (IsTree(lengths[i]) /\ IsShort(lengths[i]))
               /\ tables[i] = Canonical(lengths[i])
    <2>1. PICK counts, l : counts = Counts(all, States(input.coder)[i]) /\ l = CodeLengths(counts) /\ lengths[i] = l
      BY <1>4
    <2>2. IsShort(l)
      BY <1>1, <2>1 DEF ShortCodesOf
    <2>3. counts \in [Symbols -> Nat]
      BY <2>1, CountsTyped
    <2>4. l = {} \/ IsTree(l)
      BY <2>1, <2>3, LengthsAreTree
    <2>5. tables[i] = Canonical(l)
      BY <1>3, <2>1 DEF EncoderTable
    <2> QED
      BY <2>1, <2>2, <2>4, <2>5
  <1>6. PICK head : head = [i \in 1 .. n |-> write_codes(tables[i])]
    OBVIOUS
  <1>7. PICK body : body = [k \in 1 .. m |-> SymbolCode(tables, all[k])]
    OBVIOUS
  <1>8. /\ \A i \in 1 .. n : head[i] = write_codes(tables[i])
        /\ \A k \in 1 .. m : body[k] = SymbolCode(tables, all[k])
    BY <1>6, <1>7
  <1>9. \A i \in 1 .. n : head[i] \in Seq(Bits)
    <2> SUFFICES ASSUME NEW i \in 1 .. n PROVE head[i] \in Seq(Bits)
      OBVIOUS
    <2>1. PICK l, t, w : l = lengths[i] /\ t = tables[i] /\ w = head[i]
      OBVIOUS
    <2>2. (l = {} \/ (IsTree(l) /\ IsShort(l))) /\ t = Canonical(l) /\ w = write_codes(t)
      BY <1>5, <1>8, <2>1
    <2> QED
      BY <2>1, <2>2, CodesComeBack
  <1>10. \A k \in 1 .. m : body[k] \in Seq(Bits)
    BY <1>1, <1>2, <1>8, CodeIsRead
  <1>11. PICK f, g : Gathered(f, head, n) /\ Gathered(g, body, m) /\ Prefix(all, tables) = f[n] \o g[m]
    <2>1. Len(tables) = n /\ Len(all) = m
      BY <1>1, <1>3
    <2>2. WrittenTables(tables, all, head, body)
      BY <1>8, <1>9, <1>10, <2>1 DEF WrittenTables
    <2>3. \E f, g : /\ Gathered(f, head, Len(tables)) /\ Gathered(g, body, Len(all))
                    /\ Prefix(all, tables) = f[Len(tables)] \o g[Len(all)]
      <3>1. Len(tables) \in Nat /\ Len(all) \in Nat
        BY <2>1
      <3> QED
        BY <2>2, <3>1, PrefixIs
    <2> QED
      BY <2>1, <2>3
  <1>12. PICK front, back : front = f[n] /\ back = g[m]
    OBVIOUS
  <1>13. front \in Seq(Bits)
    <2>1. Pieced(f, head, n, Bits)
      BY <1>9, <1>11, GatheredPieces
    <2> QED
      BY <1>12, <2>1 DEF Pieced
  <1>14. PICK bits : bits = Padded(front \o back) /\ sent = [enabled |-> TRUE, rle_only |-> FALSE, bits |-> bits]
    BY <1>2, <1>11, <1>12 DEF PrefixChunk
  <1>15. Placed(bits, 1, front) /\ bits \in Seq(Bits) /\ \E places : Starting(bits, front, body, m, places)
    BY <1>10, <1>11, <1>12, <1>13, <1>14, WordsStart
  <1>16. PICK places : Starting(bits, front, body, m, places)
    BY <1>15
  <1>17. PICK e \in Nat : e = Len(bits)
    BY <1>15
  <1>18. PICK trees : ReadTrees(bits, n) = [next |-> 1 + Len(front), trees |-> trees] /\ ReadBack(trees, tables, n)
    <2>1. /\ \A i \in 1 .. n : head[i] \in Seq(Bits)
          /\ \A c : Placed(c, 1, f[n]) =>
               \E trees : /\ ReadTrees(c, n) = [next |-> 1 + Len(f[n]), trees |-> trees]
                          /\ ReadBack(trees, tables, n)
      BY <1>5, <1>8, <1>11, TreesComeBack
    <2> QED
      BY <1>12, <1>15, <2>1
  <1>19. ASSUME NEW k \in 1 .. m
         PROVE  ReadAt(sent, all[k].tree, trees, places[k - 1]) = {[symbol |-> all[k].symbol, next |-> places[k]]}
    <2>1. k \in 0 .. m /\ k - 1 \in 0 .. m
      OBVIOUS
    <2>2. PICK p \in Nat, q \in Nat : p = places[k - 1] /\ q = places[k] /\ q <= e + 1
      <3>1. places[k - 1] \in 1 .. e + 1 /\ places[k] \in 1 .. e + 1
        BY <1>16, <1>17, <2>1 DEF Starting
      <3> QED
        BY <3>1
    <2>3. PICK word : word = body[k] /\ q = p + Len(word) /\ Placed(bits, p, word)
      BY <1>16, <2>2 DEF Starting
    <2>4. Placed(sent.bits, p, word) /\ ~sent.rle_only /\ Len(sent.bits) \in Nat /\ p + Len(word) <= Len(sent.bits) + 1
      BY <1>14, <1>17, <2>2, <2>3
    <2>5. word = SymbolCode(tables, all[k]) /\ k \in 1 .. Len(all)
      BY <1>1, <1>8, <2>3
    <2>6. ReadAt(sent, all[k].tree, trees, p) = {[symbol |-> all[k].symbol, next |-> p + Len(word)]}
      <3>1. Rereads(word, all[k], tables, n)
        BY <1>1, <1>2, <2>5, CodeIsRead
      <3> QED
        BY <1>18, <2>4, <3>1 DEF Rereads
    <2> QED
      BY <2>2, <2>3, <2>6
  <1>20. /\ sent \in [enabled : {TRUE}, rle_only : BOOLEAN, bits : Seq(Bits)]
         /\ sent.bits = bits /\ sent.rle_only = FALSE
    BY <1>14, <1>15
  <1>21. /\ places \in [0 .. m -> 1 .. Len(bits) + 1] /\ Len(bits) - (places[m] - 1) < SymbolBits
         /\ places[0] = 1 + Len(front)
    BY <1>16 DEF Starting
  <1> QED
    BY <1>1, <1>18, <1>19, <1>20, <1>21, ZenonT(60) DEF Readable

-----------------------------------------------------------------------------
(* Digits and runs.                                                        *)

(* Symbols that are sent raw take a byte each. *)
LEMMA RawBits ==
  ASSUME NEW all \in Seq(CodedSymbols)
  PROVE  /\ Raw(all) \in Seq({0, 1}) /\ Len(Raw(all)) = Len(all) * SymbolBits
         /\ \A k \in 1 .. Len(all) :
              ValueAt(Raw(all), (k - 1) * SymbolBits + 1, SymbolBits) = all[k].symbol
  <1>1. PICK n \in Nat : n = Len(all)
    OBVIOUS
  <1>2. \A i \in 1 .. n : all[i].symbol \in 0 .. 2^SymbolBits - 1
    <2>1. \A i \in 1 .. n : all[i] \in CodedSymbols
      BY <1>1, ElementOf
    <2> QED
      BY <2>1 DEF CodedSymbols, MAX_SYMBOL
  <1> DEFINE piece == [i \in 1 .. n |-> Byte(all[i])]
  <1>3. \A i \in 1 .. n : piece[i] = Byte(all[i])
    OBVIOUS
  <1>4. ASSUME NEW i \in 1 .. n PROVE piece[i] \in Seq({0, 1}) /\ Len(piece[i]) = SymbolBits
    <2>1. SymbolBits \in 0 .. SymbolBits + NoLength /\ all[i].symbol \in Nat
      BY <1>2, Ranges DEF MAX_SYMBOL
    <2> HIDE DEF piece
    <2> QED
      BY <1>3, <2>1, UnsignedBits DEF Byte
  <1> DEFINE Loop(f) == f = [i \in (1 - 1) .. Len(all) |-> IF i < 1 THEN <<>> ELSE f[i - 1] \o Byte(all[i])]
             F == CHOOSE f : Loop(f)
  <1> HIDE DEF piece
  <1>5. \E f : Loop(f)
    <2>1. PICK f : Gathered(f, piece, n)
      BY <1>4, GatheredExists
    <2>2. \A i \in (1 - 1) .. n : ~(i < 1) => piece[i] = Byte(all[i])
      BY <1>3
    <2>3. f = [i \in (1 - 1) .. n |-> IF i < 1 THEN <<>> ELSE f[i - 1] \o piece[i]]
      BY <2>1 DEF Gathered
    <2>4. Loop(f)
      BY <1>1, <2>2, <2>3
    <2> QED
      BY <2>4
  <1>6. Loop(F)
    BY <1>5
  <1>7. Raw(all) = F[n]
    BY <1>1 DEF Raw, Joined
  <1> HIDE DEF F
  <1>8. Gathered(F, piece, n)
    <2>2. \A i \in (1 - 1) .. n : ~(i < 1) => piece[i] = Byte(all[i])
      BY <1>3
    <2> QED
      BY <1>1, <1>6, <2>2 DEF Gathered
  <1>9. /\ F[0] = <<>> /\ \A i \in 0 .. n : F[i] \in Seq({0, 1})
        /\ \A i \in 1 .. n : Len(F[i]) = Len(F[i - 1]) + Len(piece[i])
        /\ \A i \in 1 .. n : \A x \in 1 .. Len(piece[i]) : F[n][Len(F[i - 1]) + x] = piece[i][x]
    <2>1. PICK A : A = {0, 1}
      OBVIOUS
    <2>2. \A i \in 1 .. n : piece[i] \in Seq(A)
      BY <1>4, <2>1
    <2>3. Pieced(F, piece, n, A)
      BY <2>2, <1>8, GatheredPieces
    <2> QED
      BY <2>1, <2>3 DEF Pieced
  <1>10. ASSUME NEW i \in 0 .. n PROVE Len(F[i]) = i * SymbolBits
    <2> DEFINE g == [j \in 0 .. n |-> Len(F[j])]
               h == [j \in 0 .. n |-> j * SymbolBits]
    <2>1. g[0] = h[0]
      BY <1>9, Ranges
    <2>2. ASSUME NEW j \in 1 .. n, g[j - 1] = h[j - 1] PROVE g[j] = h[j]
      <3>1. Len(F[j]) = Len(F[j - 1]) + SymbolBits
        BY <1>4, <1>9
      <3>2. (j - 1) * SymbolBits + SymbolBits = j * SymbolBits
        BY Ranges
      <3> QED
        BY <2>2, <3>1, <3>2
    <2>3. \A j \in 0 .. n : g[j] = Len(F[j]) /\ h[j] = j * SymbolBits
      OBVIOUS
    <2> HIDE DEF g, h
    <2>4. g[i] = h[i]
      BY <2>1, <2>2, SameLoop
    <2> QED
      BY <2>3, <2>4
  <1>11. ASSUME NEW k \in 1 .. n
         PROVE  ValueAt(Raw(all), (k - 1) * SymbolBits + 1, SymbolBits) = all[k].symbol
    <2>1. PICK b \in Nat : b = (k - 1) * SymbolBits /\ b = Len(F[k - 1])
      <3>1. k - 1 \in 0 .. n
        OBVIOUS
      <3>2. Len(F[k - 1]) \in Nat
        BY <1>9, <3>1
      <3> QED
        BY <1>10, <3>1, <3>2
    <2>2. ASSUME NEW i \in 1 .. SymbolBits
          PROVE  Raw(all)[(b + 1) + i - 1] = Unsigned(SymbolBits, all[k].symbol)[i]
      <3>1. (b + 1) + i - 1 = b + i
        OBVIOUS
      <3>2. F[n][b + i] = piece[k][i]
        BY <1>4, <1>9, <2>1
      <3> QED
        BY <1>3, <1>7, <3>1, <3>2 DEF Byte
    <2>3. SymbolBits \in 0 .. SymbolBits + NoLength /\ b + 1 \in Nat
      BY Ranges
    <2>4. ValueAt(Raw(all), b + 1, SymbolBits) = all[k].symbol
      BY <1>2, <2>2, <2>3, ValueOf
    <2> QED
      BY <2>1, <2>4
  <1> QED
    BY <1>1, <1>7, <1>9, <1>10, <1>11

-----------------------------------------------------------------------------
(* Counts.                                                                 *)

LEMMA DivStep ==
  ASSUME NEW n \in Nat, n >= Base
  PROVE  /\ n \div Base \in 0 .. n - 1 /\ n % Base \in 0 .. Base - 1
         /\ n = (n \div Base) * Base + (n % Base)
  <1>1. PICK b \in Nat : b = Base /\ b > 1
    BY Ranges
  <1>2. PICK q \in Nat, r \in Nat : q = n \div b /\ r = n % b /\ n = b * q + r /\ r < b
    BY <1>1, DivMod
  <1>3. q < n
    <2>1. q # 0
      BY <1>1, <1>2
    <2>2. q < q * b
      BY <1>1, <1>2, <2>1
    <2> QED
      BY <1>2, <2>2
  <1> QED
    BY <1>1, <1>2, <1>3

DigitsTo(f, top) ==
  f = [n \in 0 .. top |-> IF n < Base THEN <<n>> ELSE Append(f[n \div Base], n % Base)]

LEMMA DigitsExist ==
  ASSUME NEW top \in Nat
  PROVE  \E f : DigitsTo(f, top)
  <1> DEFINE Bad == {k \in Nat : ~\E f : DigitsTo(f, k)}
  <1> SUFFICES ASSUME Bad # {} PROVE FALSE
    OBVIOUS
  <1>1. PICK k \in Bad : k = 0 \/ (k - 1 \in Nat /\ k - 1 \notin Bad)
    <2>1. Bad \in SUBSET Nat
      OBVIOUS
    <2> HIDE DEF Bad
    <2> QED
      BY <2>1, LeastOf
  <1>2. k \in Nat /\ Base \in Nat \ {0}
    BY Ranges
  <1>3. CASE k = 0
    <2>1. DigitsTo([n \in 0 .. 0 |-> <<n>>], 0)
      BY <1>2 DEF DigitsTo
    <2> QED
      BY <1>1, <1>3, <2>1
  <1>4. CASE k # 0
    <2>1. PICK g : DigitsTo(g, k - 1)
      BY <1>1, <1>4
    <2> DEFINE f == [n \in 0 .. k |->
                       IF n = k THEN (IF k < Base THEN <<k>> ELSE Append(g[k \div Base], k % Base))
                       ELSE g[n]]
    <2>2. ASSUME NEW n \in 0 .. k
          PROVE  f[n] = IF n < Base THEN <<n>> ELSE Append(f[n \div Base], n % Base)
      <3>1. n >= Base => n \div Base \in 0 .. n - 1
        BY DivStep
      <3>2. n >= Base => n \div Base \in 0 .. k - 1
        BY <3>1, <1>2
      <3>3. n >= Base => f[n \div Base] = g[n \div Base]
        BY <3>2, <1>2
      <3>4. CASE n = k
        <4>1. f[n] = IF n < Base THEN <<n>> ELSE Append(g[n \div Base], n % Base)
          BY <3>4, <1>2
        <4>2. n < Base \/ n >= Base
          BY <1>2
        <4> HIDE DEF f
        <4> QED
          BY <3>3, <4>1, <4>2
      <3>5. CASE n # k
        <4>1. n \in 0 .. k - 1 /\ f[n] = g[n]
          BY <3>5, <1>2
        <4>2. g[n] = IF n < Base THEN <<n>> ELSE Append(g[n \div Base], n % Base)
          BY <2>1, <4>1 DEF DigitsTo
        <4> QED
          BY <3>3, <4>1, <4>2, <1>2
      <3> QED
        BY <3>4, <3>5
    <2>3. f = [n \in 0 .. k |-> f[n]]
      OBVIOUS
    <2>4. DigitsTo(f, k)
      <3> HIDE DEF f
      <3> QED
        BY <2>2, <2>3 DEF DigitsTo
    <2> QED
      BY <1>1, <2>4
  <1> QED
    BY <1>3, <1>4

LEMMA DigitsUnique ==
  ASSUME NEW a \in Nat, NEW b \in Nat, NEW f, NEW g, DigitsTo(f, a), DigitsTo(g, b),
         NEW n \in Nat, n <= a, n <= b
  PROVE  f[n] = g[n]
  <1> DEFINE T == {k \in Nat : k <= a /\ k <= b /\ f[k] # g[k]}
  <1> SUFFICES ASSUME T # {} PROVE FALSE
    OBVIOUS
  <1>1. PICK k \in T : \A d \in Nat : d < k => d \notin T
    <2>1. T \in SUBSET Nat
      OBVIOUS
    <2> HIDE DEF T
    <2> QED
      BY <2>1, LeastMember
  <1>2. k \in Nat /\ k <= a /\ k <= b /\ f[k] # g[k]
    BY <1>1
  <1>3. k \in 0 .. a /\ k \in 0 .. b
    BY <1>2
  <1>4. /\ f[k] = IF k < Base THEN <<k>> ELSE Append(f[k \div Base], k % Base)
        /\ g[k] = IF k < Base THEN <<k>> ELSE Append(g[k \div Base], k % Base)
    BY <1>3 DEF DigitsTo
  <1>5. k >= Base
    BY <1>2, <1>4, Ranges
  <1>6. k \div Base \in 0 .. k - 1
    BY <1>2, <1>5, DivStep
  <1>7. PICK q \in Nat : q = k \div Base /\ q < k
    BY <1>2, <1>6
  <1>8. f[q] = g[q]
    BY <1>1, <1>2, <1>7
  <1> QED
    BY <1>2, <1>4, <1>7, <1>8

LEMMA DigitsStep ==
  ASSUME NEW n \in Nat
  PROVE  Digits[n] = IF n < Base THEN <<n>> ELSE Append(Digits[n \div Base], n % Base)
  <1> DEFINE Loop(f) == f = [k \in Nat |-> IF k < Base THEN <<k>> ELSE Append(f[k \div Base], k % Base)]
             upto(k) == CHOOSE f : DigitsTo(f, k)
             F == [k \in Nat |-> upto(k)[k]]
             D == CHOOSE f : Loop(f)
  <1>1. \A k \in Nat : DigitsTo(upto(k), k)
    BY DigitsExist
  <1> HIDE DEF upto
  <1>2. ASSUME NEW k \in Nat
        PROVE  F[k] = IF k < Base THEN <<k>> ELSE Append(F[k \div Base], k % Base)
    <2>1. k \in 0 .. k
      OBVIOUS
    <2>2. F[k] = IF k < Base THEN <<k>> ELSE Append(upto(k)[k \div Base], k % Base)
      BY <1>1, <2>1 DEF DigitsTo
    <2>3. ASSUME k >= Base PROVE upto(k)[k \div Base] = F[k \div Base]
      <3>1. PICK q \in Nat : q = k \div Base /\ q <= k
        BY <2>3, DivStep
      <3>2. upto(k)[q] = upto(q)[q]
        BY <1>1, <3>1, DigitsUnique
      <3> QED
        BY <3>1, <3>2
    <2>4. k < Base \/ k >= Base
      BY Ranges
    <2> QED
      BY <2>2, <2>3, <2>4
  <1>3. F = [k \in Nat |-> F[k]]
    OBVIOUS
  <1>4. Loop(F)
    <2> HIDE DEF F
    <2> QED
      BY <1>2, <1>3
  <1>5. Loop(D)
    <2>1. \E f : Loop(f)
      BY <1>4
    <2> QED
      BY <2>1
  <1>6. Digits = D
    BY DEF Digits
  <1> HIDE DEF D
  <1> QED
    BY <1>5, <1>6

(* The digits d of a count, and the count as far as k of them tell.        *)
DigitsOf(d, v, n) ==
  /\ d \in Seq(0 .. Base - 1) /\ d # <<>>
  /\ v \in [0 .. Len(d) -> Nat] /\ v[0] = 0 /\ v[Len(d)] = n
  /\ \A k \in 1 .. Len(d) : v[k] = v[k - 1] * Base + d[k]

LEMMA DigitsCount ==
  ASSUME NEW n \in Nat
  PROVE  \E v : DigitsOf(Digits[n], v, n)
  <1> DEFINE T == {k \in Nat : ~\E v : DigitsOf(Digits[k], v, k)}
  <1> SUFFICES ASSUME T # {} PROVE FALSE
    OBVIOUS
  <1>1. PICK k \in T : \A d \in Nat : d < k => d \notin T
    <2>1. T \in SUBSET Nat
      OBVIOUS
    <2> HIDE DEF T
    <2> QED
      BY <2>1, LeastMember
  <1>2. k \in Nat /\ ~\E v : DigitsOf(Digits[k], v, k)
    BY <1>1
  <1>3. PICK b \in Nat \ {0} : b = Base
    BY Ranges
  <1>4. CASE k < Base
    <2>1. Digits[k] = <<k>>
      BY <1>2, <1>4, DigitsStep
    <2>2. <<k>> \in Seq(0 .. b - 1) /\ <<k>> # <<>> /\ Len(<<k>>) = 1 /\ <<k>>[1] = k
      BY <1>2, <1>3, <1>4
    <2> DEFINE v == [i \in 0 .. 1 |-> IF i = 0 THEN 0 ELSE k]
    <2>3. v \in [0 .. 1 -> Nat] /\ v[0] = 0 /\ v[1] = k
      BY <1>2
    <2>4. v[1] = v[0] * b + k
      BY <1>2, <2>3
    <2> HIDE DEF v
    <2>5. DigitsOf(<<k>>, v, k)
      BY <1>3, <2>2, <2>3, <2>4 DEF DigitsOf
    <2> QED
      BY <1>2, <2>1, <2>5
  <1>5. CASE k >= Base
    <2>1. PICK q \in Nat, r \in 0 .. b - 1 : q = k \div Base /\ q < k /\ r = k % Base /\ k = q * b + r
      <3>1. /\ k \div Base \in 0 .. k - 1 /\ k % Base \in 0 .. Base - 1
            /\ k = (k \div Base) * Base + (k % Base)
        BY <1>2, <1>5, DivStep
      <3>2. PICK q, r : q = k \div Base /\ r = k % Base
        OBVIOUS
      <3>3. q \in 0 .. k - 1 /\ r \in 0 .. b - 1 /\ k = q * b + r
        BY <1>3, <3>1, <3>2
      <3> QED
        BY <1>2, <3>2, <3>3
    <2>2. PICK v : DigitsOf(Digits[q], v, q)
      BY <1>1, <2>1
    <2>3. PICK d \in Seq(0 .. b - 1) : d = Digits[q] /\ d # <<>>
      BY <1>3, <2>2 DEF DigitsOf
    <2>4. PICK e : e = Append(d, r)
      OBVIOUS
    <2>5. ~(k < Base) /\ Digits[k] = e
      <3>1. ~(k < Base)
        BY <1>2, <1>3, <1>5
      <3>2. Digits[k] = Append(Digits[k \div Base], k % Base)
        BY <1>2, <3>1, DigitsStep
      <3> QED
        BY <2>1, <2>3, <2>4, <3>1, <3>2
    <2>6. /\ e \in Seq(0 .. b - 1) /\ Len(d) \in Nat /\ Len(e) = Len(d) + 1
          /\ \A i \in 1 .. Len(d) : e[i] = d[i]
          /\ e[Len(d) + 1] = r
      BY <2>3, <2>4, Appended
    <2>7. PICK l \in Nat : l = Len(d) /\ Len(e) = l + 1
      BY <2>6
    <2>8. v \in [0 .. l -> Nat] /\ v[0] = 0 /\ v[l] = q /\ \A i \in 1 .. l : v[i] = v[i - 1] * b + d[i]
      BY <1>3, <2>2, <2>3, <2>7 DEF DigitsOf
    <2> DEFINE w == [i \in 0 .. l + 1 |-> IF i = l + 1 THEN k ELSE v[i]]
    <2>9. w \in [0 .. l + 1 -> Nat] /\ w[0] = 0 /\ w[l + 1] = k /\ \A i \in 0 .. l : w[i] = v[i]
      BY <1>2, <2>8
    <2> HIDE DEF w
    <2>10. ASSUME NEW i \in 1 .. l + 1 PROVE w[i] = w[i - 1] * b + e[i]
      <3>1. CASE i = l + 1
        <4>1. w[i - 1] = q /\ w[i] = k /\ e[i] = r
          BY <2>6, <2>7, <2>8, <2>9, <3>1
        <4> QED
          BY <2>1, <4>1
      <3>2. CASE i # l + 1
        <4>1. i \in 1 .. l /\ i - 1 \in 0 .. l /\ i \in 0 .. l
          BY <3>2
        <4> QED
          BY <2>6, <2>7, <2>8, <2>9, <4>1
      <3> QED
        BY <3>1, <3>2
    <2>11. e # <<>>
      BY <2>6, <2>7
    <2>12. DigitsOf(e, w, k)
      BY <1>3, <2>6, <2>7, <2>9, <2>10, <2>11 DEF DigitsOf
    <2> QED
      BY <1>2, <2>5, <2>12
  <1> QED
    BY <1>2, <1>3, <1>4, <1>5

(* The symbols s of a count n in a tree: all but the last are marked. *)
CountOf(s, tree, v, n) ==
  /\ s \in Seq(CodedSymbols) /\ s # <<>>
  /\ v \in [0 .. Len(s) -> Nat] /\ v[0] = 0 /\ v[Len(s)] = n
  /\ \A k \in 1 .. Len(s) :
       /\ s[k].tree = tree
       /\ v[k] = v[k - 1] * Base + Low(s[k].symbol)
       /\ More(s[k].symbol) <=> k < Len(s)

LEMMA CountSymbolsAre ==
  ASSUME NEW n \in Nat, NEW tree \in Trees
  PROVE  \E v : CountOf(CountSymbols(tree, n), tree, v, n)
  <1>1. PICK v : DigitsOf(Digits[n], v, n)
    BY DigitsCount
  <1>2. PICK b \in Nat \ {0} : b = Base /\ MAX_SYMBOL = 2 * b
    BY Ranges
  <1>3. PICK d \in Seq(0 .. b - 1) : d = Digits[n] /\ d # <<>>
    BY <1>1, <1>2 DEF DigitsOf
  <1>4. PICK l \in Nat : l = Len(d)
    BY <1>3
  <1>5. PICK s : s = CountSymbols(tree, n)
    OBVIOUS
  <1>6. s = [k \in 1 .. l |-> Symbol(tree, d[k] + (IF k < l THEN Base ELSE 0))]
    BY <1>3, <1>4, <1>5 DEF CountSymbols
  <1>7. ASSUME NEW k \in 1 .. l
        PROVE  /\ s[k] \in CodedSymbols /\ s[k].tree = tree /\ Low(s[k].symbol) = d[k]
               /\ More(s[k].symbol) <=> k < l
    <2>1. PICK x \in 0 .. b - 1 : x = d[k]
      BY <1>3, <1>4, ElementOf
    <2>2. PICK y \in 0 .. 2 * b - 1 : y = IF k < l THEN x + b ELSE x
      BY <1>2, <2>1
    <2>3. s[k] = [tree |-> tree, symbol |-> y]
      <3>1. s[k] = Symbol(tree, d[k] + (IF k < l THEN Base ELSE 0))
        BY <1>6
      <3>2. d[k] + (IF k < l THEN Base ELSE 0) = y
        BY <1>2, <2>1, <2>2
      <3> QED
        BY <3>1, <3>2 DEF Symbol
    <2>4. s[k].tree = tree /\ s[k].symbol = y
      BY <2>3
    <2>5. s[k] \in CodedSymbols
      BY <1>2, <2>3 DEF CodedSymbols
    <2>6. y % b = x /\ (y >= b <=> k < l)
      <3>1. CASE k < l
        <4>1. y = x + b
          BY <2>2, <3>1
        <4>2. (x + b) % b = x
          OBVIOUS
        <4> QED
          BY <3>1, <4>1, <4>2
      <3>2. CASE ~(k < l)
        BY <2>2, <3>2
      <3> QED
        BY <3>1, <3>2
    <2> QED
      BY <1>2, <2>1, <2>4, <2>5, <2>6 DEF Low, More
  <1>8. s \in [1 .. l -> CodedSymbols]
    BY <1>6, <1>7
  <1>9. s \in Seq(CodedSymbols) /\ Len(s) = l /\ s # <<>>
    <2>1. l # 0
      BY <1>3, <1>4
    <2>2. s \in Seq(CodedSymbols) /\ Len(s) = l
      BY <1>8
    <2> QED
      BY <2>1, <2>2
  <1>10. /\ v \in [0 .. l -> Nat] /\ v[0] = 0 /\ v[l] = n
         /\ \A k \in 1 .. l : v[k] = v[k - 1] * Base + d[k]
    BY <1>1, <1>3, <1>4 DEF DigitsOf
  <1>11. CountOf(s, tree, v, n)
    BY <1>7, <1>9, <1>10 DEF CountOf
  <1> QED
    BY <1>5, <1>11

-----------------------------------------------------------------------------
(* Intra tiles.                                                            *)

(* The tile that element k of input i is in was found intra, and so is     *)
(* skipped from its second element on.                                     *)
IntraIn(i, k) ==
  \E t \in i.starts : t < k /\ i.reduced /\ i.data[t] = 1 /\ \A u \in i.starts : u < k => u <= t

SkippedIn(i, k) == k \notin i.starts /\ IntraIn(i, k)

IntraBefore(k) == IntraIn(input, k)
SkipAt(k) == SkippedIn(input, k)

(* The elements of a .. b - 1 that are not skipped. *)
Unskipped(a, b) == Cardinality({k \in a .. b - 1 : ~SkipAt(k)})

(* A surface that can be coded: of numbers, and not empty.                 *)
Proper(i) == i.data \in Seq(Int) /\ i.data # <<>> /\ i \in InputTypes(i.data)

LEMMA InputTyped ==
  ASSUME NEW i, Proper(i)
  PROVE  /\ i.data \in Seq(Int) /\ Len(i.data) \in Nat \ {0}
         /\ i.coder \in RunCoders \cup SizeCoders /\ i.reduced \in BOOLEAN /\ i.form \in Forms
         /\ i.starts \in SUBSET (1 .. Len(i.data)) /\ i.enabled \in SUBSET (1 .. Len(i.data))
         /\ i \in InputTypes(i.data)
  <1>1. i.data \in Seq(Int) /\ i.data # <<>> /\ i \in InputTypes(i.data)
    BY DEF Proper
  <1>2. Len(i.data) \in Nat \ {0}
    BY <1>1
  <1> QED
    BY <1>1, <1>2 DEF InputTypes

LEMMA IntraNext ==
  ASSUME Proper(input), NEW k \in 1 .. Size, NEW intra \in BOOLEAN, intra <=> IntraBefore(k)
  PROVE  /\ IntraTile(k, input.data[k], intra) \in BOOLEAN
         /\ IntraTile(k, input.data[k], intra) <=> IntraBefore(k + 1)
         /\ SkipAt(k) => (intra <=> IntraBefore(k + 1))
         /\ Skipped(k, intra) <=> SkipAt(k)
  <1>1. input.starts \in SUBSET (1 .. Size) /\ input.reduced \in BOOLEAN /\ Size \in Nat
    BY InputTyped DEF Size
  <1>2. \A t \in input.starts : t \in Nat
    BY <1>1
  <1>3. CASE k \in input.starts
    <2>1. IntraBefore(k + 1) <=> (input.reduced /\ input.data[k] = 1)
      <3>1. ASSUME NEW t \in input.starts, \A u \in input.starts : u < k + 1 => u <= t, t < k + 1
            PROVE  t = k
        BY <1>2, <1>3, <3>1
      <3>2. \A u \in input.starts : u < k + 1 => u <= k
        BY <1>2
      <3>3. k < k + 1
        OBVIOUS
      <3> QED
        BY <1>3, <3>1, <3>2, <3>3 DEF IntraBefore, IntraIn
    <2> QED
      BY <1>1, <1>3, <2>1 DEF IntraTile, SkipAt, SkippedIn, Skipped
  <1>4. CASE k \notin input.starts
    <2>1. \A t \in input.starts : t < k + 1 <=> t < k
      BY <1>2, <1>4
    <2>2. IntraBefore(k + 1) <=> IntraBefore(k)
      BY <2>1 DEF IntraBefore, IntraIn
    <2> QED
      BY <1>4, <2>2 DEF IntraTile, SkipAt, SkippedIn, Skipped, IntraBefore
  <1> QED
    BY <1>3, <1>4

LEMMA NotIntraFirst ==
  ASSUME Proper(input)
  PROVE  ~IntraBefore(1) /\ ~SkipAt(1)
  <1>1. input.starts \in SUBSET (1 .. Size) /\ Size \in Nat
    BY InputTyped DEF Size
  <1> QED
    BY <1>1 DEF IntraBefore, IntraIn, SkipAt, SkippedIn

LEMMA KeptSteps ==
  ASSUME NEW a \in Nat, NEW b \in Nat
  PROVE  /\ Unskipped(a, b) \in Nat
         /\ a = b => Unskipped(a, b) = 0
         /\ a <= b => Unskipped(a, b) <= b - a
         /\ a <= b => Unskipped(a, b + 1) = Unskipped(a, b) + (IF SkipAt(b) THEN 0 ELSE 1)
         /\ a < b => Unskipped(a, b) = Unskipped(a + 1, b) + (IF SkipAt(a) THEN 0 ELSE 1)
  <1> DEFINE K(x, y) == {k \in x .. y - 1 : ~SkipAt(k)}
  <1>1. \A x, y \in Nat : IsFiniteSet(K(x, y)) /\ Cardinality(K(x, y)) \in Nat
    <2> SUFFICES ASSUME NEW x \in Nat, NEW y \in Nat
                 PROVE  IsFiniteSet(K(x, y)) /\ Cardinality(K(x, y)) \in Nat
      OBVIOUS
    <2>1. IsFiniteSet(x .. y - 1)
      BY FS_Interval
    <2>2. K(x, y) \subseteq x .. y - 1
      OBVIOUS
    <2> HIDE DEF K
    <2>3. IsFiniteSet(K(x, y))
      BY <2>1, <2>2, FS_Subset
    <2> QED
      BY <2>3, FS_CardinalityType
  <1>2. \A x, y : Unskipped(x, y) = Cardinality(K(x, y))
    BY DEF Unskipped
  <1>3. a = b => K(a, b) = {}
    OBVIOUS
  <1>6. ASSUME a <= b PROVE Unskipped(a, b) <= b - a
    <2>1. IsFiniteSet(a .. b - 1) /\ Cardinality(a .. b - 1) = b - a
      <3>1. PICK c \in Int : c = b - 1
        OBVIOUS
      <3>2. IsFiniteSet(a .. c) /\ Cardinality(a .. c) = IF a > c THEN 0 ELSE c - a + 1
        BY FS_Interval
      <3> QED
        BY <1>6, <3>1, <3>2
    <2>2. K(a, b) \subseteq a .. b - 1
      OBVIOUS
    <2> HIDE DEF K
    <2>3. Cardinality(K(a, b)) <= Cardinality(a .. b - 1)
      BY <2>1, <2>2, FS_Subset
    <2> QED
      BY <1>2, <2>1, <2>3
  <1>4. ASSUME a <= b PROVE Unskipped(a, b + 1) = Unskipped(a, b) + (IF SkipAt(b) THEN 0 ELSE 1)
    <2>1. CASE SkipAt(b)
      <3>1. K(a, b + 1) = K(a, b)
        BY <1>4, <2>1
      <3> HIDE DEF K
      <3> QED
        BY <1>1, <1>2, <2>1, <3>1
    <2>2. CASE ~SkipAt(b)
      <3>1. K(a, b + 1) = K(a, b) \cup {b} /\ b \notin K(a, b)
        BY <1>4, <2>2
      <3> HIDE DEF K
      <3>2. Cardinality(K(a, b) \cup {b}) = Cardinality(K(a, b)) + 1
        BY <1>1, <3>1, FS_AddElement
      <3> QED
        BY <1>2, <2>2, <3>1, <3>2
    <2> QED
      BY <2>1, <2>2
  <1>5. ASSUME a < b PROVE Unskipped(a, b) = Unskipped(a + 1, b) + (IF SkipAt(a) THEN 0 ELSE 1)
    <2>0. a + 1 \in Nat
      OBVIOUS
    <2>1. CASE SkipAt(a)
      <3>1. K(a, b) = K(a + 1, b)
        BY <1>5, <2>1
      <3> HIDE DEF K
      <3> QED
        BY <1>1, <1>2, <2>0, <2>1, <3>1
    <2>2. CASE ~SkipAt(a)
      <3>1. K(a, b) = K(a + 1, b) \cup {a} /\ a \notin K(a + 1, b)
        BY <1>5, <2>2
      <3> HIDE DEF K
      <3>2. Cardinality(K(a + 1, b) \cup {a}) = Cardinality(K(a + 1, b)) + 1
        BY <1>1, <2>0, <3>1, FS_AddElement
      <3> QED
        BY <1>2, <2>2, <3>1, <3>2
    <2> QED
      BY <2>1, <2>2
  <1> HIDE DEF K
  <1> QED
    BY <1>1, <1>2, <1>3, <1>4, <1>5, <1>6, FS_EmptySet

-----------------------------------------------------------------------------
(* Runs.                                                                   *)

ResidualRange == {r \in Int : -Offset <= r /\ r < Offset}

(* What the coders of runs are made for: residuals in the range of two     *)
(* symbols, masks and flags of 0 and 1, and under reduced signalling       *)
(* nothing but TEMPORAL_INTR where a tile is skipped.                      *)
Codable(i) ==
  /\ i.coder \in RunCoders
  /\ i.coder = "residuals" => \A k \in 1 .. Len(i.data) : i.data[k] \in ResidualRange
  /\ i.coder # "residuals" => \A k \in 1 .. Len(i.data) : i.data[k] \in {0, 1}
  /\ i.reduced => /\ i.coder = "temporal"
                  /\ \A k \in 1 .. Len(i.data) : SkippedIn(i, k) => i.data[k] = 1

(* One or two symbols, and the zeros that follow.                          *)
PelSymbols(s, r, zeros) ==
  /\ s \in Seq(CodedSymbols) /\ Len(s) = IF Short(r) THEN 1 ELSE 2
  /\ s[1].tree = "LSB"
  /\ Short(r) =>
       /\ s[1].symbol % 2 = 0 /\ (Low(s[1].symbol) - (Base \div 2)) \div 2 = r
       /\ More(s[1].symbol) <=> zeros > 0
  /\ ~Short(r) =>
       /\ s[1].symbol % 2 = 1
       /\ s[2].tree = "MSB"
       /\ Low(s[2].symbol) * Base + (s[1].symbol \div 2) - Offset = r
       /\ More(s[2].symbol) <=> zeros > 0

Pel(r, zeros) ==
  LET flag == IF zeros > 0 THEN Base ELSE 0
      raised == r + Offset
      clamped == IF raised < 0 THEN 0 ELSE IF raised < Base * Base THEN raised ELSE Base * Base - 1
  IN  IF Short(r)
        THEN <<Symbol("LSB", 2 * r + (Base \div 2) + flag)>>
        ELSE <<Symbol("LSB", 2 * (clamped % Base) + 1), Symbol("MSB", (clamped \div Base) + flag)>>

LEMMA RunOfResiduals ==
  ASSUME NEW r, NEW zeros
  PROVE  ResidualRun(r, zeros) = Pel(r, zeros) \o (IF zeros > 0 THEN CountSymbols("ZERO", zeros) ELSE <<>>)
  BY DEF ResidualRun, Pel

(* A quarter of the range of a symbol. *)
LEMMA Quarters ==
  \E c \in Nat \ {0} :
    /\ Base = 4 * c /\ Base \div 2 = 2 * c /\ Base \div 4 = c /\ MAX_SYMBOL = 8 * c
    /\ Offset = 8 * (c * c) /\ Base * Base = 16 * (c * c)
  <1>1. PICK b \in Nat \ {0} : b = Base /\ b % 4 = 0 /\ MAX_SYMBOL = 2 * b
    BY Ranges
  <1>2. PICK c \in Nat \ {0} : b = 4 * c
    <2>1. b = 4 * (b \div 4)
      BY <1>1
    <2>2. b \div 4 \in Nat \ {0}
      BY <1>1, <2>1
    <2> QED
      BY <2>1, <2>2
  <1>3. PICK q \in Nat : q = c * c
    OBVIOUS
  <1>4. b * b = 16 * q
    <2>1. (4 * c) * (4 * c) = 16 * (c * c)
      OBVIOUS
    <2> QED
      BY <1>2, <1>3, <2>1
  <1>5. Offset = 8 * q
    <2>1. (16 * q) \div 2 = 8 * q
      OBVIOUS
    <2> QED
      BY <1>1, <1>4, <2>1 DEF Offset
  <1> QED
    BY <1>1, <1>2, <1>3, <1>4, <1>5

LEMMA PelRead ==
  ASSUME NEW r \in ResidualRange, NEW zeros \in Nat
  PROVE  PelSymbols(Pel(r, zeros), r, zeros)
  <1>1. PICK c \in Nat \ {0} : /\ Base = 4 * c /\ Base \div 2 = 2 * c /\ Base \div 4 = c
                               /\ MAX_SYMBOL = 8 * c
                               /\ Offset = 8 * (c * c) /\ Base * Base = 16 * (c * c)
    BY Quarters
  <1>2. PICK q \in Nat : q = c * c
    OBVIOUS
  <1>3. PICK flag \in {0, 4 * c} : flag = (IF zeros > 0 THEN Base ELSE 0) /\ (flag = 4 * c <=> zeros > 0)
    BY <1>1
  <1>4. r \in Int /\ -(8 * q) <= r /\ r < 8 * q
    BY <1>1, <1>2 DEF ResidualRange
  <1>5. CASE Short(r)
    <2>1. -c <= r /\ r < c
      BY <1>1, <1>5 DEF Short
    <2>2. PICK y \in 0 .. 8 * c - 1 : y = (2 * r + 2 * c) + flag
      BY <1>3, <1>4, <2>1
    <2>3. y % 2 = 0
      BY <1>3, <1>4, <2>2
    <2>4. PICK x \in 0 .. 4 * c - 1 : x = 2 * r + 2 * c /\ y = x + flag
      BY <1>4, <2>1, <2>2
    <2>5. y % (4 * c) = x /\ (y >= 4 * c <=> zeros > 0)
      <3>1. PICK b \in Nat \ {0} : b = 4 * c
        OBVIOUS
      <3>2. x \in 0 .. b - 1 /\ x % b = x /\ (x + b) % b = x
        BY <2>4, <3>1
      <3> QED
        BY <1>3, <2>4, <3>1, <3>2
    <2>6. (x - 2 * c) \div 2 = r
      BY <1>4, <2>4
    <2>7. Pel(r, zeros) = <<[tree |-> "LSB", symbol |-> y]>>
      <3>1. 2 * r + (Base \div 2) + (IF zeros > 0 THEN Base ELSE 0) = y
        BY <1>1, <1>3, <1>4, <2>2
      <3> QED
        BY <1>5, <3>1 DEF Pel, Symbol
    <2>8. [tree |-> "LSB", symbol |-> y] \in CodedSymbols
      BY <1>1 DEF CodedSymbols, Trees
    <2>9. PICK s : s = Pel(r, zeros)
      OBVIOUS
    <2>10. s \in Seq(CodedSymbols) /\ Len(s) = 1 /\ s[1].tree = "LSB" /\ s[1].symbol = y
      BY <2>7, <2>8, <2>9
    <2> QED
      BY <1>1, <1>5, <2>3, <2>5, <2>6, <2>9, <2>10 DEF PelSymbols, Low, More
  <1>6. CASE ~Short(r)
    <2>1. PICK raised \in 0 .. 16 * q - 1 : raised = r + 8 * q
      BY <1>4
    <2>2. PICK b \in Nat \ {0} : b = 4 * c /\ b = Base /\ b * b = 16 * q
      BY <1>1, <1>2
    <2>3. PICK h \in Nat, l \in 0 .. b - 1 : h = raised \div b /\ l = raised % b /\ raised = b * h + l
      BY DivMod
    <2>4. h < b
      <3> SUFFICES ASSUME h >= b PROVE FALSE
        BY <2>2
      <3>1. b * h >= b * b
        OBVIOUS
      <3>2. b * h \in Nat /\ b * b \in Nat
        OBVIOUS
      <3> QED
        BY <2>1, <2>2, <2>3, <3>1, <3>2
    <2>5. PICK x \in 0 .. 8 * c - 1 : x = 2 * l + 1 /\ x % 2 = 1 /\ x \div 2 = l
      BY <2>2
    <2>6. PICK y \in 0 .. 8 * c - 1 : y = h + flag /\ y % b = h /\ (y >= b <=> zeros > 0)
      <3>1. h \in 0 .. b - 1 /\ h % b = h /\ (h + b) % b = h
        BY <2>4
      <3> QED
        BY <1>3, <2>2, <3>1
    <2>7. Pel(r, zeros) = <<[tree |-> "LSB", symbol |-> x], [tree |-> "MSB", symbol |-> y]>>
      <3>1. r + Offset = raised /\ ~(raised < 0) /\ raised < Base * Base
        BY <1>1, <1>2, <2>1
      <3> DEFINE clamped == IF r + Offset < 0 THEN 0
                            ELSE IF r + Offset < Base * Base THEN r + Offset ELSE Base * Base - 1
      <3>2. clamped = raised
        BY <3>1
      <3> HIDE DEF clamped
      <3>3. 2 * (clamped % Base) + 1 = x /\ (clamped \div Base) + (IF zeros > 0 THEN Base ELSE 0) = y
        BY <1>3, <2>2, <2>3, <2>5, <2>6, <3>2
      <3> QED
        BY <1>6, <3>3 DEF Pel, Symbol, clamped
    <2>8. [tree |-> "LSB", symbol |-> x] \in CodedSymbols /\ [tree |-> "MSB", symbol |-> y] \in CodedSymbols
      BY <1>1 DEF CodedSymbols, Trees
    <2>9. PICK s : s = Pel(r, zeros)
      OBVIOUS
    <2>10. /\ s \in Seq(CodedSymbols) /\ Len(s) = 2
           /\ s[1].tree = "LSB" /\ s[1].symbol = x
           /\ s[2].tree = "MSB" /\ s[2].symbol = y
      BY <2>7, <2>8, <2>9
    <2>11. h * b + l - Offset = r
      <3>1. PICK z \in Nat : z = b * h
        OBVIOUS
      <3>2. h * b = z /\ Offset = 8 * q
        BY <1>1, <1>2, <3>1
      <3> QED
        BY <1>4, <2>1, <2>3, <3>1, <3>2
    <2> QED
      BY <1>6, <2>2, <2>5, <2>6, <2>9, <2>10, <2>11 DEF PelSymbols, Low, More
  <1> QED
    BY <1>5, <1>6

LEMMA RunTyped ==
  ASSUME Proper(input), Codable(input), NEW k \in 1 .. Size, NEW count \in Nat
  PROVE  Run(input.data[k], count) \in Seq(CodedSymbols)
  <1>1. CASE input.coder = "residuals"
    <2>1. PICK r \in ResidualRange : r = input.data[k]
      <3>1. input.data[k] \in Int
        BY InputTyped, ElementOf DEF Size
      <3> QED
        BY <1>1, <3>1 DEF Codable, Size, ResidualRange
    <2>2. Pel(r, count) \in Seq(CodedSymbols)
      BY <2>1, PelRead DEF PelSymbols
    <2>3. count > 0 => CountSymbols("ZERO", count) \in Seq(CodedSymbols)
      <3>1. "ZERO" \in Trees
        BY DEF Trees
      <3> QED
        BY <3>1, CountSymbolsAre DEF CountOf
    <2>4. <<>> \in Seq(CodedSymbols)
      OBVIOUS
    <2>5. PICK s \in Seq(CodedSymbols) : s = IF count > 0 THEN CountSymbols("ZERO", count) ELSE <<>>
      BY <2>3, <2>4
    <2>6. Run(input.data[k], count) = Pel(r, count) \o s
      BY <1>1, <2>1, <2>5, RunOfResiduals DEF Run
    <2>7. PICK t \in Seq(CodedSymbols) : t = Pel(r, count)
      BY <2>2
    <2>8. t \o s \in Seq(CodedSymbols)
      BY Concatenated
    <2> QED
      BY <2>6, <2>7, <2>8
  <1>2. CASE input.coder # "residuals"
    <2>1. RunTree(input.data[k]) \in Trees
      BY DEF RunTree, Trees
    <2>2. CountSymbols(RunTree(input.data[k]), count) \in Seq(CodedSymbols)
      BY <2>1, CountSymbolsAre DEF CountOf
    <2> QED
      BY <1>2, <2>2 DEF Run
  <1> QED
    BY <1>1, <1>2

-----------------------------------------------------------------------------
(* The encoder of runs.                                                    *)

(* A run of elements a .. b - 1 and the symbols that it becomes.           *)
Filler(a) == IF input.coder = "residuals" THEN 0 ELSE input.data[a]
Uniform(a, b) ==
  /\ ~SkipAt(a)
  /\ \A k \in a + 1 .. b - 1 : ~SkipAt(k) => input.data[k] = Filler(a)
RunCount(a, b) == Unskipped(a, b) - 1 + FirstCount
RunBetween(a, b) == Run(input.data[a], RunCount(a, b))

(* It is what lies between places s and t of all symbols. *)
Coupled(a, b, s, t, all) ==
  /\ a < b /\ Uniform(a, b)
  /\ b <= Size => ~SkipAt(b) /\ input.data[b] # Filler(a)
  /\ t = s + Len(RunBetween(a, b)) /\ t <= Len(all)
  /\ \A x \in 1 .. Len(RunBetween(a, b)) : all[s + x] = RunBetween(a, b)[x]

(* The runs that were emitted start at elements p[1], p[2], ..., and their *)
(* symbols behind places q[1], q[2], ...                                   *)
Log(p, q, all) ==
  /\ all \in Seq(CodedSymbols)
  /\ p \in Seq(1 .. Size + 1) /\ q \in Seq(Nat) /\ Len(p) = Len(q) /\ Len(p) \in Nat \ {0}
  /\ p[1] = 1 /\ q[1] = 0 /\ q[Len(q)] = Len(all)
  /\ \A j \in 1 .. Len(p) - 1 : Coupled(p[j], p[j + 1], q[j], q[j + 1], all)

LEMMA LogStarts ==
  ASSUME Proper(input)
  PROVE  Log(<<1>>, <<0>>, <<>>)
  <1>1. Size \in Nat \ {0}
    BY InputTyped DEF Size
  <1>2. <<1>> \in Seq(1 .. Size + 1) /\ <<0>> \in Seq(Nat) /\ <<>> \in Seq(CodedSymbols)
    BY <1>1
  <1>3. Len(<<1>>) = 1 /\ Len(<<0>>) = 1 /\ Len(<<>>) = 0 /\ <<1>>[1] = 1 /\ <<0>>[1] = 0
    OBVIOUS
  <1> QED
    BY <1>2, <1>3 DEF Log

LEMMA LogGrows ==
  ASSUME NEW p, NEW q, NEW all, Log(p, q, all), Size \in Nat,
         NEW a, a = p[Len(p)], NEW b \in 1 .. Size + 1, a < b, Uniform(a, b),
         b <= Size => ~SkipAt(b) /\ input.data[b] # Filler(a),
         NEW run, run = RunBetween(a, b), run \in Seq(CodedSymbols)
  PROVE  Log(Append(p, b), Append(q, Len(all) + Len(run)), all \o run)
  <1>0. all \in Seq(CodedSymbols)
    BY DEF Log
  <1>1. PICK n \in Nat, l \in Nat, more \in Seq(CodedSymbols) :
             n = Len(all) /\ l = Len(run) /\ more = all \o run
    <2>1. Len(all) \in Nat /\ Len(run) \in Nat /\ all \o run \in Seq(CodedSymbols)
      BY <1>0
    <2> QED
      BY <2>1
  <1>2. /\ Len(more) = n + l
        /\ \A x \in 1 .. n : more[x] = all[x]
        /\ \A x \in 1 .. l : more[n + x] = run[x]
    BY <1>0, <1>1, Concatenated
  <1>3. PICK m \in Nat \ {0} : m = Len(p) /\ m = Len(q)
    BY DEF Log
  <1>4. PICK p2, q2 : p2 = Append(p, b) /\ q2 = Append(q, n + l)
    OBVIOUS
  <1>5. /\ p2 \in Seq(1 .. Size + 1) /\ Len(p2) = m + 1
        /\ \A j \in 1 .. m : p2[j] = p[j]
        /\ p2[m + 1] = b
    <2>1. PICK A : A = 1 .. Size + 1
      OBVIOUS
    <2>2. p \in Seq(A) /\ b \in A
      BY <2>1 DEF Log
    <2>3. p2 \in Seq(A) /\ Len(p2) = Len(p) + 1 /\ (\A i \in 1 .. Len(p) : p2[i] = p[i]) /\ p2[Len(p) + 1] = b
      BY <1>4, <2>2, Appended
    <2> QED
      BY <1>3, <2>1, <2>3
  <1>6. /\ q2 \in Seq(Nat) /\ Len(q2) = m + 1
        /\ \A j \in 1 .. m : q2[j] = q[j]
        /\ q2[m + 1] = n + l
    <2>1. q \in Seq(Nat) /\ n + l \in Nat
      BY DEF Log
    <2>2. q2 \in Seq(Nat) /\ Len(q2) = Len(q) + 1 /\ (\A i \in 1 .. Len(q) : q2[i] = q[i]) /\ q2[Len(q) + 1] = n + l
      BY <1>4, <2>1, Appended
    <2> QED
      BY <1>3, <2>2
  <1>7. ASSUME NEW j \in 1 .. m PROVE Coupled(p2[j], p2[j + 1], q2[j], q2[j + 1], more)
    <2>1. CASE j = m
      <3>1. p2[j] = a /\ p2[j + 1] = b /\ q2[j] = n /\ q2[j + 1] = n + l
        BY <1>1, <1>3, <1>5, <1>6, <2>1 DEF Log
      <3>2. Coupled(a, b, n, n + l, more)
        BY <1>1, <1>2 DEF Coupled
      <3> QED
        BY <3>1, <3>2
    <2>2. CASE j # m
      <3>1. PICK c, d, s, e : s \in Nat /\ e \in Nat /\ c = p[j] /\ d = p[j + 1] /\ s = q[j] /\ e = q[j + 1]
        <4>1. q \in Seq(Nat) /\ j \in 1 .. Len(q) /\ j + 1 \in 1 .. Len(q)
          BY <1>3, <2>2 DEF Log
        <4>2. q[j] \in Nat /\ q[j + 1] \in Nat
          BY <4>1, ElementOf
        <4> QED
          BY <4>2
      <3>2. p2[j] = c /\ p2[j + 1] = d /\ q2[j] = s /\ q2[j + 1] = e
        <4>1. j + 1 \in 1 .. m
          BY <2>2
        <4>2. p2[j] = c /\ p2[j + 1] = d
          BY <1>5, <3>1, <4>1
        <4>3. q2[j] = s /\ q2[j + 1] = e
          BY <1>6, <3>1, <4>1
        <4> QED
          BY <4>2, <4>3
      <3>3. Coupled(c, d, s, e, all)
        <4>1. j \in 1 .. Len(p) - 1
          BY <1>3, <2>2
        <4>2. Coupled(p[j], p[j + 1], q[j], q[j + 1], all)
          BY <4>1 DEF Log
        <4> QED
          BY <3>1, <4>2
      <3>4. e <= n + l /\ e <= n
        <4>1. e <= Len(all)
          BY <3>3 DEF Coupled
        <4> QED
          BY <1>1, <3>1, <4>1
      <3>5. Len(RunBetween(c, d)) \in Int => \A x \in 1 .. Len(RunBetween(c, d)) : more[s + x] = all[s + x]
        <4> SUFFICES ASSUME Len(RunBetween(c, d)) \in Int, NEW x \in 1 .. Len(RunBetween(c, d))
                     PROVE  more[s + x] = all[s + x]
          OBVIOUS
        <4>1. PICK len \in Int : len = Len(RunBetween(c, d))
          BY <3>5
        <4>2. x \in 1 .. len /\ e = s + len
          BY <3>3, <4>1 DEF Coupled
        <4>3. s \in Nat /\ x \in Int /\ 1 <= x /\ x <= len
          BY <3>1, <4>2
        <4>4. s + x \in Int /\ 1 <= s + x /\ s + x <= e
          BY <4>1, <4>2, <4>3
        <4>5. s + x \in 1 .. n
          BY <1>1, <3>1, <3>4, <4>4
        <4> QED
          BY <1>2, <4>5
      <3>6. Len(RunBetween(c, d)) \in Int
        BY <3>3 DEF Coupled
      <3>7. Coupled(c, d, s, e, more)
        BY <1>2, <3>3, <3>4, <3>5, <3>6 DEF Coupled
      <3> QED
        BY <3>2, <3>7
    <2> QED
      BY <2>1, <2>2
  <1>8. p2[1] = 1 /\ q2[1] = 0 /\ q2[Len(q2)] = Len(more)
    BY SMTT(20), <1>2, <1>3, <1>5, <1>6 DEF Log
  <1>9. Log(p2, q2, more)
    BY <1>5, <1>6, <1>7, <1>8 DEF Log
  <1> QED
    BY <1>1, <1>4, <1>9

(* What is said of the input stays true while it is coded. *)
LEMMA InputSame ==
  ASSUME input' = input
  PROVE  /\ Size' = Size /\ FirstCount' = FirstCount
         /\ \A k : IntraBefore(k)' <=> IntraBefore(k)
         /\ \A k : SkipAt(k)' <=> SkipAt(k)
         /\ \A a, b : Unskipped(a, b)' = Unskipped(a, b)
         /\ \A a, b : RunCount(a, b)' = RunCount(a, b)
         /\ \A a, b : Uniform(a, b)' <=> Uniform(a, b)
         /\ \A a, b, s, t, all : Coupled(a, b, s, t, all)' <=> Coupled(a, b, s, t, all)
         /\ \A p, q, all : Log(p, q, all)' <=> Log(p, q, all)
  <1>1. Size' = Size /\ FirstCount' = FirstCount
    BY DEF Size, FirstCount
  <1>2. \A k : IntraBefore(k)' <=> IntraBefore(k)
    BY DEF IntraBefore
  <1>3. \A k : SkipAt(k)' <=> SkipAt(k)
    BY DEF SkipAt
  <1>4. \A a, b : Unskipped(a, b)' = Unskipped(a, b)
    BY <1>3 DEF Unskipped
  <1>5. \A a, b : RunCount(a, b)' = RunCount(a, b)
    BY <1>1, <1>4 DEF RunCount
  <1>6. \A a, b : Uniform(a, b)' <=> Uniform(a, b)
    BY <1>3 DEF Uniform, Filler
  <1>7. \A a, b : RunBetween(a, b)' = RunBetween(a, b)
    BY <1>5 DEF RunBetween, Run
  <1>8. \A a : Filler(a)' = Filler(a)
    BY DEF Filler
  <1>9. \A a, b, s, t, all : Coupled(a, b, s, t, all)' <=> Coupled(a, b, s, t, all)
    BY <1>1, <1>3, <1>6, <1>7, <1>8 DEF Coupled
  <1>10. \A p, q, all : Log(p, q, all)' <=> Log(p, q, all)
    BY <1>1, <1>9 DEF Log
  <1> QED
    BY <1>1, <1>2, <1>3, <1>4, <1>5, <1>6, <1>9, <1>10

(* Before anything is read. *)
Undecoded == source = NoSource /\ dec = FirstRead(input.coder) /\ out = <<>>

(* The run that is counted starts at element a. *)
Open(a) ==
  /\ a \in 1 .. Size /\ a < scan.pos /\ Uniform(a, scan.pos)
  /\ scan.value = input.data[a] /\ scan.count = RunCount(a, scan.pos)

EncoderAt ==
  /\ chunk = NoChunk
  /\ scan.intra <=> IntraBefore(scan.pos)
  /\ scan.pos = 1 => symbols = <<>> /\ scan = FirstScan
  /\ scan.pos # 1 => \E p, q : Log(p, q, symbols) /\ Open(p[Len(p)])

ScanTyped == scan \in [pos : 1 .. Size + 1, value : Int, count : 0 .. Size, intra : BOOLEAN]

Encoding ==
  /\ Proper(input) /\ ScanTyped
  /\ Undecoded /\ EncoderAt

LEMMA CountOfRun ==
  ASSUME Proper(input), NEW a \in 1 .. Size, NEW b \in 1 .. Size + 1, a < b, ~SkipAt(a)
  PROVE  RunCount(a, b) \in 0 .. Size
  <1>1. a \in Nat /\ b \in Nat /\ Size \in Nat
    BY InputTyped DEF Size
  <1>2. a + 1 \in Nat
    BY <1>1
  <1>3. PICK k, l : k = Unskipped(a, b) /\ l = Unskipped(a + 1, b)
    OBVIOUS
  <1>4. k \in Nat /\ l \in Nat /\ k = l + 1 /\ k <= b - a
    BY <1>1, <1>2, <1>3, KeptSteps
  <1>5. FirstCount \in {0, 1}
    BY DEF FirstCount
  <1> QED
    BY <1>1, <1>3, <1>4, <1>5 DEF RunCount

LEMMA OpenRun ==
  ASSUME Proper(input), NEW k \in 1 .. Size, ~SkipAt(k)
  PROVE  Uniform(k, k + 1) /\ RunCount(k, k + 1) = FirstCount
  <1>1. k \in Nat
    OBVIOUS
  <1>2. Unskipped(k, k + 1) = 1
    BY <1>1, KeptSteps
  <1>3. Uniform(k, k + 1)
    BY DEF Uniform
  <1>4. FirstCount \in {0, 1}
    BY DEF FirstCount
  <1> QED
    BY <1>2, <1>3, <1>4 DEF RunCount

LEMMA ElementTyped ==
  ASSUME Proper(input), NEW k \in 1 .. Size
  PROVE  input.data[k] \in Int
  BY InputTyped, ElementOf DEF Size

LEMMA EncodeFirstStep ==
  ASSUME Encoding, EncodeFirst
  PROVE  Encoding'
  <1>0. input' = input /\ Proper(input) /\ Size \in Nat
    BY InputTyped DEF EncodeFirst, Encoding, Size
  <1>1. scan.pos = 1 /\ symbols = <<>> /\ 1 \in 1 .. Size /\ scan = FirstScan
    BY <1>0 DEF EncodeFirst, Encoding, EncoderAt, Scanning
  <1>2. ~SkipAt(1) /\ ~IntraBefore(1)
    BY <1>0, NotIntraFirst
  <1>3. PICK v, w : v = input.data[1] /\ w = IntraTile(1, v, FALSE)
    OBVIOUS
  <1>4. scan' = [pos |-> 2, value |-> v, count |-> FirstCount, intra |-> w]
    <2>1. Current = v /\ scan.intra = FALSE
      BY <1>1, <1>3 DEF Current, FirstScan
    <2>2. scan.pos + 1 = 2
      BY <1>1
    <2>3. StartRun
      BY DEF EncodeFirst
    <2> QED
      BY <1>1, <1>3, <2>1, <2>2, <2>3 DEF StartRun
  <1>5. w \in BOOLEAN /\ (w <=> IntraBefore(2))
    <2>1. FALSE \in BOOLEAN /\ 1 + 1 = 2 /\ (FALSE <=> IntraBefore(1))
      BY <1>2
    <2> QED
      BY <1>0, <1>1, <1>3, <2>1, IntraNext
  <1>6. v \in Int
    BY <1>0, <1>1, <1>3, ElementTyped
  <1>7. ScanTyped'
    <2>1. FirstCount \in 0 .. Size /\ 2 \in 1 .. Size + 1
      BY <1>0, <1>1 DEF FirstCount
    <2> QED
      BY <1>0, <1>4, <1>5, <1>6, <2>1, InputSame DEF ScanTyped
  <1>8. Uniform(1, 2) /\ RunCount(1, 2) = FirstCount
    <2>1. 1 + 1 = 2
      OBVIOUS
    <2> QED
      BY <1>0, <1>1, <1>2, <2>1, OpenRun
  <1>9. Open(1)'
    <2>1. /\ 1 \in 1 .. Size' /\ Uniform(1, 2)' /\ RunCount(1, 2)' = FirstCount
          /\ scan'.pos = 2 /\ scan'.value = v /\ scan'.count = FirstCount
      BY <1>0, <1>1, <1>4, <1>8, InputSame
    <2> QED
      BY <1>0, <1>3, <2>1 DEF Open
  <1>10. \E p, q : Log(p, q, symbols)' /\ Open(p[Len(p)])'
    <2>1. PICK p, q : p = <<1>> /\ q = <<0>>
      OBVIOUS
    <2>2. p[Len(p)] = 1
      BY <2>1
    <2>3. symbols' = symbols
      BY DEF EncodeFirst
    <2>4. Log(p, q, symbols)
      BY <1>0, <1>1, <2>1, LogStarts
    <2>5. Log(p, q, symbols)'
      BY <1>0, <2>3, <2>4, InputSame
    <2>6. Open(p[Len(p)])'
      BY <1>9, <2>2
    <2> QED
      BY <2>5, <2>6
  <1>11. EncoderAt'
    <2>1. chunk' = NoChunk
      BY DEF EncodeFirst, Encoding, EncoderAt
    <2>2. scan'.pos = 2 /\ scan'.intra = w
      BY <1>4
    <2>3. (scan.intra <=> IntraBefore(scan.pos))'
      BY <1>0, <1>5, <2>2, InputSame
    <2> QED
      BY <1>10, <2>1, <2>2, <2>3 DEF EncoderAt
  <1>12. Undecoded'
    BY <1>0 DEF EncodeFirst, Encoding, Undecoded
  <1> QED
    BY <1>0, <1>7, <1>11, <1>12 DEF Encoding

LEMMA KeptMore ==
  ASSUME NEW a \in Nat, NEW b \in Nat, a <= b
  PROVE  /\ Unskipped(a, b) \in Nat
         /\ SkipAt(b) => Unskipped(a, b + 1) = Unskipped(a, b)
         /\ ~SkipAt(b) => Unskipped(a, b + 1) = Unskipped(a, b) + 1
  <1>1. Unskipped(a, b) \in Nat
    BY KeptSteps
  <1>2. Unskipped(a, b + 1) = Unskipped(a, b) + (IF SkipAt(b) THEN 0 ELSE 1)
    BY KeptSteps
  <1> QED
    BY <1>1, <1>2

(* What the encoder knows when it looks at another element. *)
LEMMA ScanningFacts ==
  ASSUME Encoding, Scanning, scan.pos # 1
  PROVE  /\ scan.pos \in 1 .. Size /\ scan.pos + 1 \in 1 .. Size + 1 /\ scan.pos + 1 # 1
         /\ Size \in Nat /\ Current = input.data[scan.pos] /\ Current \in Int
         /\ Skipped(scan.pos, scan.intra) <=> SkipAt(scan.pos)
         /\ IntraTile(scan.pos, Current, scan.intra) \in BOOLEAN
         /\ IntraTile(scan.pos, Current, scan.intra) <=> IntraBefore(scan.pos + 1)
         /\ SkipAt(scan.pos) => (scan.intra <=> IntraBefore(scan.pos + 1))
         /\ scan.intra \in BOOLEAN /\ scan.value \in Int /\ scan.count \in Nat
  <1>1. scan.pos \in 1 .. Size + 1 /\ Size \in Nat /\ Proper(input)
    BY InputTyped DEF Encoding, ScanTyped, Size
  <1>2. scan.pos \in 1 .. Size
    BY <1>1 DEF Scanning
  <1>3. scan.intra \in BOOLEAN /\ scan.value \in Int /\ scan.count \in Nat
    <2>1. scan.count \in 0 .. Size /\ scan.intra \in BOOLEAN /\ scan.value \in Int
      BY DEF Encoding, ScanTyped
    <2> QED
      BY <1>1, <2>1
  <1>4. scan.intra <=> IntraBefore(scan.pos)
    BY DEF Encoding, EncoderAt
  <1>5. PICK k, f : k = scan.pos /\ f = scan.intra
    OBVIOUS
  <1>6. /\ IntraTile(k, input.data[k], f) \in BOOLEAN
        /\ IntraTile(k, input.data[k], f) <=> IntraBefore(k + 1)
        /\ SkipAt(k) => (f <=> IntraBefore(k + 1))
        /\ Skipped(k, f) <=> SkipAt(k)
    BY <1>1, <1>2, <1>3, <1>4, <1>5, IntraNext
  <1>7. input.data[k] \in Int
    BY <1>1, <1>2, <1>5, ElementTyped
  <1> QED
    BY <1>1, <1>2, <1>3, <1>5, <1>6, <1>7 DEF Current

LEMMA EncodeSkippedStep ==
  ASSUME Encoding, EncodeSkipped
  PROVE  Encoding'
  <1>0. input' = input /\ Proper(input) /\ symbols' = symbols
    BY DEF EncodeSkipped, Encoding
  <1>1. Scanning /\ scan.pos # 1 /\ Skipped(scan.pos, scan.intra)
    <2>1. scan.pos \in Nat
      BY DEF Encoding, ScanTyped
    <2> QED
      BY <2>1 DEF EncodeSkipped
  <1>2. PICK k : k = scan.pos /\ k \in 1 .. Size /\ k + 1 \in 1 .. Size + 1 /\ k + 1 # 1 /\ SkipAt(k)
    BY <1>1, ScanningFacts
  <1>3. scan.intra <=> IntraBefore(k + 1)
    BY <1>1, <1>2, ScanningFacts
  <1>4. scan' = [scan EXCEPT !.pos = @ + 1]
    BY DEF EncodeSkipped
  <1>5. scan'.pos = k + 1 /\ scan'.value = scan.value /\ scan'.count = scan.count /\ scan'.intra = scan.intra
        /\ ScanTyped'
    <2>1. scan \in [pos : 1 .. Size + 1, value : Int, count : 0 .. Size, intra : BOOLEAN]
      BY DEF Encoding, ScanTyped
    <2>2. PICK A, B : A = 1 .. Size + 1 /\ B = 0 .. Size
      OBVIOUS
    <2>3. scan \in [pos : A, value : Int, count : B, intra : BOOLEAN] /\ scan.pos + 1 \in A
      BY <1>2, <2>1, <2>2
    <2>4. scan' \in [pos : A, value : Int, count : B, intra : BOOLEAN]
      BY <1>4, <2>3
    <2>5. Size' = Size
      BY <1>0, InputSame
    <2> QED
      BY <1>2, <1>4, <2>2, <2>3, <2>4, <2>5 DEF ScanTyped
  <1>6. PICK p, q : Log(p, q, symbols) /\ Open(p[Len(p)])
    BY <1>1 DEF Encoding, EncoderAt
  <1>7. PICK a : a = p[Len(p)] /\ a \in 1 .. Size /\ a < k /\ Uniform(a, k)
                 /\ scan.value = input.data[a] /\ scan.count = RunCount(a, k)
    BY <1>2, <1>6 DEF Open
  <1>8. Uniform(a, k + 1) /\ RunCount(a, k + 1) = RunCount(a, k) /\ a < k + 1
    <2>1. Unskipped(a, k + 1) = Unskipped(a, k)
      <3>1. a \in Nat /\ k \in Nat /\ a <= k
        BY <1>2, <1>7
      <3> QED
        BY <1>2, <3>1, KeptMore
    <2>2. \A x \in a + 1 .. (k + 1) - 1 : ~SkipAt(x) => x \in a + 1 .. k - 1
      BY <1>2, <1>7
    <2>3. Uniform(a, k + 1)
      BY <1>7, <2>2 DEF Uniform
    <2> QED
      BY <1>2, <1>7, <2>1, <2>3 DEF RunCount
  <1>9. Open(a)'
    <2>1. Size' = Size /\ (Uniform(a, k + 1)' <=> Uniform(a, k + 1)) /\ RunCount(a, k + 1)' = RunCount(a, k + 1)
      BY <1>0, InputSame
    <2>2. scan'.pos = k + 1 /\ scan'.value = input'.data[a] /\ scan'.count = RunCount(a, k + 1)
      BY <1>0, <1>5, <1>7, <1>8
    <2>3. (Uniform(a, scan.pos))' /\ scan'.count = (RunCount(a, scan.pos))'
      BY <1>8, <2>1, <2>2
    <2> QED
      BY <1>7, <1>8, <2>1, <2>2, <2>3 DEF Open
  <1>10. EncoderAt'
    <2>1. Log(p, q, symbols)'
      BY <1>0, <1>6, InputSame
    <2>2. Open(p[Len(p)])'
      BY <1>7, <1>9
    <2>3. (scan.intra <=> IntraBefore(scan.pos))'
      BY <1>0, <1>3, <1>5, InputSame
    <2>4. chunk' = NoChunk /\ scan'.pos # 1
      BY <1>2, <1>5 DEF EncodeSkipped, Encoding, EncoderAt
    <2> QED
      BY <2>1, <2>2, <2>3, <2>4 DEF EncoderAt
  <1>11. Undecoded'
    BY <1>0 DEF EncodeSkipped, Encoding, Undecoded
  <1> QED
    BY <1>0, <1>5, <1>10, <1>11 DEF Encoding

LEMMA ExtendRunStep ==
  ASSUME Encoding, ExtendRun
  PROVE  Encoding'
  <1>0. input' = input /\ Proper(input) /\ symbols' = symbols
    BY DEF ExtendRun, Encoding
  <1>1. Scanning /\ scan.pos # 1 /\ ~Skipped(scan.pos, scan.intra) /\ Extends
    <2>1. scan.pos \in Nat
      BY DEF Encoding, ScanTyped
    <2> QED
      BY <2>1 DEF ExtendRun
  <1>2. PICK k, w : /\ k = scan.pos /\ k \in 1 .. Size /\ k + 1 \in 1 .. Size + 1 /\ k + 1 # 1 /\ ~SkipAt(k)
                    /\ w = IntraTile(k, Current, scan.intra) /\ w \in BOOLEAN
                    /\ w <=> IntraBefore(k + 1)
    BY <1>1, ScanningFacts
  <1>3. scan' = [scan EXCEPT !.pos = @ + 1, !.count = @ + 1, !.intra = IntraTile(scan.pos, Current, @)]
    BY DEF ExtendRun
  <1>4. PICK p, q : Log(p, q, symbols) /\ Open(p[Len(p)])
    BY <1>1 DEF Encoding, EncoderAt
  <1>5. PICK a : a = p[Len(p)] /\ a \in 1 .. Size /\ a < k /\ Uniform(a, k)
                 /\ scan.value = input.data[a] /\ scan.count = RunCount(a, k)
    BY <1>2, <1>4 DEF Open
  <1>6. input.data[k] = Filler(a)
    BY <1>1, <1>2, <1>5 DEF Extends, Current, Filler
  <1>7. Uniform(a, k + 1) /\ a < k + 1
    <2>1. \A x \in a + 1 .. (k + 1) - 1 : x \in a + 1 .. k - 1 \/ x = k
      BY <1>2, <1>5
    <2> QED
      BY <1>2, <1>5, <1>6, <2>1 DEF Uniform
  <1>8. RunCount(a, k + 1) = RunCount(a, k) + 1 /\ RunCount(a, k + 1) \in 0 .. Size
    <2>1. a \in Nat /\ k \in Nat /\ a <= k
      BY <1>2, <1>5
    <2>2. PICK x, y : x = Unskipped(a, k) /\ y = Unskipped(a, k + 1) /\ x \in Nat /\ y = x + 1
      BY <1>2, <2>1, KeptMore
    <2>3. FirstCount \in {0, 1}
      BY DEF FirstCount
    <2>4. RunCount(a, k + 1) = RunCount(a, k) + 1
      BY <2>2, <2>3 DEF RunCount
    <2>5. ~SkipAt(a)
      BY <1>5 DEF Uniform
    <2>6. RunCount(a, k + 1) \in 0 .. Size
      BY <1>0, <1>2, <1>5, <1>7, <2>5, CountOfRun
    <2> QED
      BY <2>4, <2>6
  <1>9. /\ scan'.pos = k + 1 /\ scan'.value = scan.value /\ scan'.count = RunCount(a, k + 1) /\ scan'.intra = w
        /\ ScanTyped'
    <2>1. scan \in [pos : 1 .. Size + 1, value : Int, count : 0 .. Size, intra : BOOLEAN]
      BY DEF Encoding, ScanTyped
    <2>2. PICK A, B : A = 1 .. Size + 1 /\ B = 0 .. Size
      OBVIOUS
    <2>3. scan \in [pos : A, value : Int, count : B, intra : BOOLEAN] /\ k + 1 \in A /\ scan.count + 1 \in B
      BY <1>2, <1>5, <1>8, <2>1, <2>2
    <2>4. scan' = [scan EXCEPT !.pos = k + 1, !.count = scan.count + 1, !.intra = w]
      BY <1>2, <1>3
    <2>5. scan' \in [pos : A, value : Int, count : B, intra : BOOLEAN]
      BY <1>2, <2>3, <2>4
    <2>6. Size' = Size
      BY <1>0, InputSame
    <2>7. ScanTyped'
      BY <2>2, <2>5, <2>6 DEF ScanTyped
    <2>8. scan'.pos = k + 1 /\ scan'.value = scan.value /\ scan'.count = scan.count + 1 /\ scan'.intra = w
      BY <2>3, <2>4
    <2> QED
      BY <1>5, <1>8, <2>7, <2>8
  <1>10. Open(a)'
    <2>1. Size' = Size /\ (Uniform(a, k + 1)' <=> Uniform(a, k + 1)) /\ RunCount(a, k + 1)' = RunCount(a, k + 1)
      BY <1>0, InputSame
    <2>2. scan'.pos = k + 1 /\ scan'.value = input'.data[a] /\ scan'.count = RunCount(a, k + 1)
      BY <1>0, <1>5, <1>9
    <2>3. (Uniform(a, scan.pos))' /\ scan'.count = (RunCount(a, scan.pos))'
      BY <1>7, <2>1, <2>2
    <2> QED
      BY <1>5, <1>7, <2>1, <2>2, <2>3 DEF Open
  <1>11. EncoderAt'
    <2>1. Log(p, q, symbols)'
      BY <1>0, <1>4, InputSame
    <2>2. Open(p[Len(p)])'
      BY <1>5, <1>10
    <2>3. (scan.intra <=> IntraBefore(scan.pos))'
      BY <1>0, <1>2, <1>9, InputSame
    <2>4. chunk' = NoChunk /\ scan'.pos # 1
      BY <1>2, <1>9 DEF ExtendRun, Encoding, EncoderAt
    <2> QED
      BY <2>1, <2>2, <2>3, <2>4 DEF EncoderAt
  <1>12. Undecoded'
    BY <1>0 DEF ExtendRun, Encoding, Undecoded
  <1> QED
    BY <1>0, <1>9, <1>11, <1>12 DEF Encoding

(* The run that ends at b joins the log. *)
LEMMA RunEnds ==
  ASSUME Encoding, Codable(input), NEW p, NEW q, Log(p, q, symbols), Open(p[Len(p)]),
         scan.pos <= Size => ~SkipAt(scan.pos) /\ ~Extends
  PROVE  \E r : /\ Log(Append(p, scan.pos), r, symbols \o Run(scan.value, scan.count))
                /\ Append(p, scan.pos)[Len(Append(p, scan.pos))] = scan.pos
  <1>1. PICK a, b : /\ a = p[Len(p)] /\ b = scan.pos /\ a \in 1 .. Size /\ a < b /\ Uniform(a, b)
                    /\ scan.value = input.data[a] /\ scan.count = RunCount(a, b)
    BY DEF Open
  <1>2. b \in 1 .. Size + 1 /\ Size \in Nat /\ Proper(input)
    BY <1>1, InputTyped DEF Encoding, ScanTyped, Size
  <1>3. PICK run : run = Run(scan.value, scan.count)
    OBVIOUS
  <1>4. run = RunBetween(a, b)
    BY <1>1, <1>3 DEF RunBetween
  <1>5. run \in Seq(CodedSymbols)
    <2>1. ~SkipAt(a)
      BY <1>1 DEF Uniform
    <2>2. RunCount(a, b) \in Nat
      BY <1>1, <1>2, <2>1, CountOfRun
    <2> QED
      BY <1>1, <1>2, <1>3, <2>2, RunTyped
  <1>6. b <= Size => ~SkipAt(b) /\ input.data[b] # Filler(a)
    BY <1>1 DEF Extends, Current, Filler
  <1>7. Log(Append(p, b), Append(q, Len(symbols) + Len(run)), symbols \o run)
    BY <1>1, <1>2, <1>4, <1>5, <1>6, LogGrows
  <1>8. Append(p, b)[Len(Append(p, b))] = b
    <2>1. PICK A : A = 1 .. Size + 1
      OBVIOUS
    <2>2. p \in Seq(A) /\ b \in A
      BY <1>2, <2>1 DEF Log
    <2> QED
      BY <2>2
  <1> QED
    BY <1>1, <1>3, <1>7, <1>8

LEMMA EmitRunStep ==
  ASSUME Encoding, EmitRun, Codable(input)
  PROVE  Encoding'
  <1>0. input' = input /\ Proper(input)
    BY DEF EmitRun, Encoding
  <1>1. Scanning /\ scan.pos # 1 /\ ~Skipped(scan.pos, scan.intra) /\ ~Extends
    <2>1. scan.pos \in Nat
      BY DEF Encoding, ScanTyped
    <2> QED
      BY <2>1 DEF EmitRun
  <1>2. PICK k, v, w : /\ k = scan.pos /\ k \in 1 .. Size /\ k + 1 \in 1 .. Size + 1 /\ k + 1 # 1 /\ ~SkipAt(k)
                       /\ v = Current /\ v = input.data[k] /\ v \in Int
                       /\ w = IntraTile(k, v, scan.intra) /\ w \in BOOLEAN
                       /\ w <=> IntraBefore(k + 1)
    BY <1>1, ScanningFacts
  <1>3. scan' = [pos |-> k + 1, value |-> v, count |-> FirstCount, intra |-> w]
    <2>1. StartRun
      BY DEF EmitRun
    <2> QED
      BY <1>2, <2>1 DEF StartRun
  <1>4. PICK p, q : Log(p, q, symbols) /\ Open(p[Len(p)])
    BY <1>1 DEF Encoding, EncoderAt
  <1>5. PICK r, s : Log(s, r, symbols') /\ s[Len(s)] = k
    <2>1. symbols' = symbols \o Run(scan.value, scan.count)
      BY DEF EmitRun
    <2> QED
      BY <1>1, <1>2, <1>4, <2>1, RunEnds
  <1>6. ScanTyped'
    <2>1. Size \in Nat \ {0}
      BY <1>0, InputTyped DEF Size
    <2>2. FirstCount \in 0 .. Size
      BY <2>1 DEF FirstCount
    <2> QED
      BY <1>0, <1>2, <1>3, <2>2, InputSame DEF ScanTyped
  <1>7. Open(k)'
    <2>1. Uniform(k, k + 1) /\ RunCount(k, k + 1) = FirstCount
      BY <1>0, <1>2, OpenRun
    <2>2. k \in 1 .. Size' /\ Uniform(k, k + 1)' /\ RunCount(k, k + 1)' = FirstCount
      BY <1>0, <1>2, <2>1, InputSame
    <2>3. scan'.pos = k + 1 /\ scan'.value = v /\ scan'.count = FirstCount /\ k < k + 1
      BY <1>2, <1>3
    <2> QED
      BY <1>0, <1>2, <2>2, <2>3 DEF Open
  <1>8. EncoderAt'
    <2>1. Log(s, r, symbols)'
      BY <1>0, <1>5, InputSame
    <2>2. Open(s[Len(s)])'
      BY <1>5, <1>7
    <2>3. (scan.intra <=> IntraBefore(scan.pos))'
      BY <1>0, <1>2, <1>3, InputSame
    <2>4. chunk' = NoChunk /\ scan'.pos # 1
      BY <1>2, <1>3 DEF EmitRun, Encoding, EncoderAt
    <2> QED
      BY <2>1, <2>2, <2>3, <2>4 DEF EncoderAt
  <1>9. Undecoded'
    BY <1>0 DEF EmitRun, Encoding, Undecoded
  <1> QED
    BY <1>0, <1>6, <1>8, <1>9 DEF Encoding

-----------------------------------------------------------------------------
(* What is sent.                                                           *)

(* The symbols before those of the first run. *)
Before == IF input.coder = "residuals" THEN 0 ELSE 1

(* The symbols of the runs from elements p[1], p[2], ... follow each other *)
(* from places g[1], g[2], ... to the end.                                 *)
Laid(p, g, all) ==
  /\ all \in Seq(CodedSymbols)
  /\ p \in Seq(1 .. Size + 1) /\ g \in Seq(Nat) /\ Len(p) = Len(g) /\ Len(p) \in Nat \ {0}
  /\ p[1] = 1 /\ p[Len(p)] = Size + 1
  /\ g[1] = Before /\ g[Len(g)] = Len(all)
  /\ Before = 1 => Len(all) >= 1 /\ all[1] = Symbol("BYTE", input.data[1])
  /\ \A j \in 1 .. Len(p) - 1 : Coupled(p[j], p[j + 1], g[j], g[j + 1], all)

LEMMA SameLaid ==
  ASSUME input' = input
  PROVE  \A p, g, all : Laid(p, g, all)' <=> Laid(p, g, all)
  <1>1. /\ Size' = Size /\ Before' = Before
        /\ \A a, b, s, t, all : Coupled(a, b, s, t, all)' <=> Coupled(a, b, s, t, all)
    BY InputSame DEF Before
  <1> SUFFICES ASSUME NEW p, NEW g, NEW all PROVE Laid(p, g, all)' <=> Laid(p, g, all)
    OBVIOUS
  <1>2. \A j : Coupled(p[j], p[j + 1], g[j], g[j + 1], all)' <=> Coupled(p[j], p[j + 1], g[j], g[j + 1], all)
    BY <1>1
  <1>3. (input.data)' = input.data
    OBVIOUS
  <1> QED
    BY <1>1, <1>2, <1>3 DEF Laid

LEMMA StartByteIs ==
  ASSUME Proper(input), Codable(input)
  PROVE  /\ StartByte \in Seq(CodedSymbols) /\ Len(StartByte) = Before
         /\ Before = 1 => StartByte[1] = Symbol("BYTE", input.data[1])
  <1>1. input.coder \in {"residuals", "temporal", "flags"}
    BY DEF Codable, RunCoders
  <1>2. CASE input.coder = "residuals"
    <2>1. StartByte = <<>> /\ Before = 0
      BY <1>2 DEF StartByte, Before
    <2> QED
      BY <2>1
  <1>3. CASE input.coder # "residuals"
    <2>1. input.data[1] \in {0, 1}
      <3>1. 1 \in 1 .. Len(input.data)
        BY InputTyped
      <3> QED
        BY <1>3, <3>1 DEF Codable
    <2>2. PICK c : c = Symbol("BYTE", input.data[1])
      OBVIOUS
    <2>3. c \in CodedSymbols
      <3>1. input.data[1] \in 0 .. MAX_SYMBOL - 1
        BY <2>1, Quarters
      <3> QED
        BY <2>2, <3>1 DEF Symbol, CodedSymbols, Trees
    <2>4. StartByte = <<c>> /\ Before = 1
      BY <1>1, <1>3, <2>2 DEF StartByte, Before
    <2>5. <<c>> \in Seq(CodedSymbols) /\ Len(<<c>>) = 1 /\ <<c>>[1] = c
      BY <2>3
    <2> QED
      BY <2>2, <2>4, <2>5
  <1> QED
    BY <1>2, <1>3

LEMMA LogLaid ==
  ASSUME Proper(input), Codable(input), NEW p, NEW q, NEW all, Log(p, q, all), p[Len(p)] = Size + 1
  PROVE  \E g : Laid(p, g, StartByte \o all)
  <1>1. PICK o \in Nat : o = Before
    BY DEF Before
  <1>2. PICK n \in Nat : all \in Seq(CodedSymbols) /\ n = Len(all)
    BY DEF Log
  <1>3. PICK sent : sent = StartByte \o all
    OBVIOUS
  <1>4. /\ sent \in Seq(CodedSymbols) /\ Len(sent) = o + n
        /\ \A x \in 1 .. n : sent[o + x] = all[x]
        /\ o = 1 => sent[1] = Symbol("BYTE", input.data[1])
    <2>1. PICK first : first = StartByte
      OBVIOUS
    <2>2. first \in Seq(CodedSymbols) /\ Len(first) = o /\ (o = 1 => first[1] = Symbol("BYTE", input.data[1]))
      BY <1>1, <2>1, StartByteIs
    <2>3. /\ sent \in Seq(CodedSymbols) /\ Len(sent) = o + n
          /\ \A x \in 1 .. o : sent[x] = first[x]
          /\ \A x \in 1 .. n : sent[o + x] = all[x]
      <3>1. sent = first \o all /\ all \in Seq(CodedSymbols) /\ first \in Seq(CodedSymbols)
        BY <1>2, <1>3, <2>1, <2>2
      <3>2. /\ sent \in Seq(CodedSymbols) /\ Len(sent) = Len(first) + Len(all)
            /\ \A x \in 1 .. Len(first) : sent[x] = first[x]
            /\ \A x \in 1 .. Len(all) : sent[Len(first) + x] = all[x]
        BY <3>1, Concatenated
      <3> QED
        BY <1>2, <2>2, <3>2
    <2> QED
      BY <2>2, <2>3
  <1>5. PICK m \in Nat \ {0} : m = Len(p) /\ m = Len(q)
    BY DEF Log
  <1>6. \A j \in 1 .. m : q[j] \in Nat
    BY <1>5, ElementOf DEF Log
  <1>7. PICK g : g = [j \in 1 .. m |-> o + q[j]]
    OBVIOUS
  <1>8. g \in Seq(Nat) /\ Len(g) = m
    <2>1. g \in [1 .. m -> Nat]
      BY <1>6, <1>7
    <2> QED
      BY <2>1
  <1>9. ASSUME NEW j \in 1 .. m - 1 PROVE Coupled(p[j], p[j + 1], g[j], g[j + 1], sent)
    <2>1. PICK a, b, s, t : /\ a = p[j] /\ b = p[j + 1] /\ s = q[j] /\ t = q[j + 1]
                            /\ s \in Nat /\ t \in Nat /\ g[j] = o + s /\ g[j + 1] = o + t
      <3>1. j \in 1 .. m /\ j + 1 \in 1 .. m
        OBVIOUS
      <3>2. q[j] \in Nat /\ q[j + 1] \in Nat /\ g[j] = o + q[j] /\ g[j + 1] = o + q[j + 1]
        BY <1>6, <1>7, <3>1
      <3> QED
        BY <3>2
    <2>2. Coupled(a, b, s, t, all)
      BY <1>5, <2>1 DEF Log
    <2>3. PICK run, l : run = RunBetween(a, b) /\ l = Len(run)
      OBVIOUS
    <2>4. t = s + l /\ t <= n /\ \A x \in 1 .. l : all[s + x] = run[x]
      BY <1>2, <2>2, <2>3 DEF Coupled
    <2>5. CASE l \in Int
      <3>1. o + t = (o + s) + l /\ o + t <= o + n
        BY SMTT(20), <1>2, <2>1, <2>4, <2>5
      <3>2. \A x \in 1 .. l : sent[(o + s) + x] = run[x]
        <4> SUFFICES ASSUME NEW x \in 1 .. l PROVE sent[(o + s) + x] = run[x]
          OBVIOUS
        <4>1. x \in Nat /\ x >= 1 /\ x <= l
          BY <2>5
        <4>2. s + x \in 1 .. n /\ (o + s) + x = o + (s + x)
          <5>1. s \in Nat /\ t \in Nat /\ t = s + l /\ t <= n
            BY <2>1, <2>4
          <5>2. n \in Nat /\ o \in Nat /\ l \in Int
            BY <2>5
          <5> QED
            BY <4>1, <5>1, <5>2
        <4> QED
          BY <1>4, <2>4, <4>2
      <3>3. Coupled(a, b, o + s, o + t, sent)
        BY <1>4, <2>2, <2>3, <3>1, <3>2 DEF Coupled
      <3> QED
        BY <2>1, <3>3
    <2>6. l \in Int
      <3>1. a \in 1 .. Size + 1 /\ b \in 1 .. Size + 1 /\ a < b /\ Size \in Nat
        <4>1. PICK A : A = 1 .. Size + 1
          OBVIOUS
        <4>2. p \in Seq(A) /\ j \in 1 .. Len(p) /\ j + 1 \in 1 .. Len(p)
          BY <1>5, <4>1 DEF Log
        <4>3. a \in A /\ b \in A
          BY <2>1, <4>2, ElementOf
        <4>4. a < b
          BY <2>2 DEF Coupled
        <4> QED
          BY <4>1, <4>3, <4>4, InputTyped DEF Size
      <3>2. a \in 1 .. Size /\ ~SkipAt(a)
        BY <2>2, <3>1 DEF Coupled, Uniform
      <3>3. RunCount(a, b) \in Nat
        BY <3>1, <3>2, CountOfRun
      <3>4. run \in Seq(CodedSymbols)
        BY <2>3, <3>2, <3>3, RunTyped DEF RunBetween
      <3> QED
        BY <2>3, <3>4
    <2> QED
      BY <2>5, <2>6
  <1>10. g[1] = o /\ g[m] = o + n
    <2>1. q[1] = 0 /\ q[m] = n
      BY <1>2, <1>5 DEF Log
    <2> QED
      BY <1>7, <2>1
  <1>11. Laid(p, g, sent)
    <2>1. Before = 1 => Len(sent) >= 1 /\ sent[1] = Symbol("BYTE", input.data[1])
      BY <1>1, <1>4
    <2>2. p \in Seq(1 .. Size + 1) /\ p[1] = 1 /\ p[Len(p)] = Size + 1 /\ Len(p) = m
      BY <1>5 DEF Log
    <2> QED
      BY <1>1, <1>4, <1>8, <1>9, <1>10, <2>1, <2>2 DEF Laid
  <1> QED
    BY <1>3, <1>11

-----------------------------------------------------------------------------
(* The runs as the decoder meets them.                                     *)

(* Elements a .. b - 1 are a run, whose symbols are those from s to t.     *)
RunOf(p, g, a, b, s, t) ==
  \E j \in 1 .. Len(p) - 1 : a = p[j] /\ b = p[j + 1] /\ s = g[j] /\ t = g[j + 1]

(* Before element a, symbol s is the last one of a run. *)
RunStartsAt(p, g, a, s) == \E j \in 1 .. Len(p) : a = p[j] /\ s = g[j]

LEMMA FirstPlace ==
  ASSUME NEW p, NEW g, NEW all, Laid(p, g, all)
  PROVE  RunStartsAt(p, g, 1, Before)
  <1>1. 1 \in 1 .. Len(p) /\ p[1] = 1 /\ g[1] = Before
    BY DEF Laid
  <1> QED
    BY <1>1 DEF RunStartsAt

LEMMA RunFacts ==
  ASSUME Proper(input), Codable(input), NEW p, NEW g, NEW all, Laid(p, g, all),
         NEW a, NEW b, NEW s, NEW t, RunOf(p, g, a, b, s, t)
  PROVE  /\ a \in 1 .. Size /\ b \in 1 .. Size + 1 /\ a < b /\ s \in Nat /\ t \in Nat
         /\ Coupled(a, b, s, t, all) /\ RunStartsAt(p, g, b, t)
         /\ RunCount(a, b) \in Nat /\ RunBetween(a, b) \in Seq(CodedSymbols)
         /\ s <= t /\ t <= Len(all)
  <1>1. PICK m \in Nat \ {0} : m = Len(p) /\ m = Len(g)
    BY DEF Laid
  <1>2. PICK j \in 1 .. m - 1 : a = p[j] /\ b = p[j + 1] /\ s = g[j] /\ t = g[j + 1]
    BY <1>1 DEF RunOf
  <1>3. j \in 1 .. m /\ j + 1 \in 1 .. m
    BY <1>1
  <1>4. s \in Nat /\ t \in Nat
    BY <1>1, <1>2, <1>3, ElementOf DEF Laid
  <1>5. Coupled(a, b, s, t, all) /\ RunStartsAt(p, g, b, t)
    BY <1>1, <1>2, <1>3 DEF Laid, RunStartsAt
  <1>6. Size \in Nat
    BY InputTyped DEF Size
  <1>7. a \in 1 .. Size + 1 /\ b \in 1 .. Size + 1
    <2>1. PICK A : A = 1 .. Size + 1
      OBVIOUS
    <2>2. p \in Seq(A)
      BY <2>1 DEF Laid
    <2> QED
      BY <1>1, <1>2, <1>3, <2>1, <2>2, ElementOf
  <1>8. a < b
    BY <1>5 DEF Coupled
  <1>9. a \in 1 .. Size /\ ~SkipAt(a)
    BY <1>5, <1>6, <1>7, <1>8 DEF Coupled, Uniform
  <1>10. RunCount(a, b) \in Nat
    BY <1>7, <1>8, <1>9, CountOfRun
  <1>11. RunBetween(a, b) \in Seq(CodedSymbols)
    BY <1>9, <1>10, RunTyped DEF RunBetween
  <1>12. s <= t /\ t <= Len(all)
    <2>1. PICK l \in Nat : l = Len(RunBetween(a, b))
      BY <1>11
    <2> QED
      BY <1>4, <1>5, <2>1 DEF Coupled
  <1> QED
    BY <1>4, <1>5, <1>7, <1>8, <1>9, <1>10, <1>11, <1>12

LEMMA PlaceFacts ==
  ASSUME Proper(input), Codable(input), NEW p, NEW g, NEW all, Laid(p, g, all),
         NEW a, NEW s, RunStartsAt(p, g, a, s)
  PROVE  /\ a \in 1 .. Size + 1 /\ s \in 0 .. Len(all)
         /\ a <= Size => \E b, t : RunOf(p, g, a, b, s, t)
         /\ a = Size + 1 => s = Len(all)
  <1>1. PICK m \in Nat \ {0} : m = Len(p) /\ m = Len(g)
    BY DEF Laid
  <1>2. PICK j \in 1 .. m : a = p[j] /\ s = g[j]
    BY <1>1 DEF RunStartsAt
  <1>3. Size \in Nat
    BY InputTyped DEF Size
  <1>4. a \in 1 .. Size + 1 /\ s \in Nat
    <2>1. PICK A : A = 1 .. Size + 1
      OBVIOUS
    <2>2. p \in Seq(A) /\ g \in Seq(Nat)
      BY <2>1 DEF Laid
    <2> QED
      BY <1>1, <1>2, <2>1, <2>2, ElementOf
  <1>5. Len(all) \in Nat
    BY DEF Laid
  <1>6. CASE j = m
    <2>1. a = Size + 1 /\ s = Len(all)
      BY <1>1, <1>2, <1>6 DEF Laid
    <2> QED
      BY <1>3, <1>4, <1>5, <2>1
  <1>7. CASE j # m
    <2>1. j \in 1 .. m - 1
      BY <1>7
    <2>2. PICK b, t : RunOf(p, g, a, b, s, t)
      BY <1>1, <1>2, <2>1 DEF RunOf
    <2>3. a \in 1 .. Size /\ s <= t /\ t <= Len(all) /\ t \in Nat
      BY <2>2, RunFacts
    <2> QED
      BY <1>3, <1>4, <1>5, <2>2, <2>3
  <1> QED
    BY <1>6, <1>7

(* A count, in n symbols behind place s. *)
CountPlaced(s, n, v, tree, count, all) ==
  /\ n \in Nat \ {0} /\ v \in [0 .. n -> Nat] /\ v[0] = 0 /\ v[n] = count
  /\ \A k \in 1 .. n :
       /\ all[s + k].tree = tree
       /\ v[k] = v[k - 1] * Base + Low(all[s + k].symbol)
       /\ More(all[s + k].symbol) <=> k < n

LEMMA CountIsPlaced ==
  ASSUME NEW s \in Nat, NEW tree \in Trees, NEW count \in Nat, NEW all,
         NEW run, run = CountSymbols(tree, count),
         \A x \in 1 .. Len(run) : all[s + x] = run[x]
  PROVE  Len(run) \in Nat /\ \E v : CountPlaced(s, Len(run), v, tree, count, all)
  <1>1. PICK v : CountOf(run, tree, v, count)
    BY CountSymbolsAre
  <1>2. PICK n \in Nat \ {0} : n = Len(run)
    <2>1. run \in Seq(CodedSymbols) /\ run # <<>>
      BY <1>1 DEF CountOf
    <2> QED
      BY <2>1
  <1>3. CountPlaced(s, n, v, tree, count, all)
    BY <1>1, <1>2 DEF CountOf, CountPlaced
  <1> QED
    BY <1>2, <1>3

SymbolsIn(r) == IF Short(r) THEN 1 ELSE 2

PelPlaced(s, r, zeros, all) ==
  /\ all[s + 1].tree = "LSB"
  /\ Short(r) =>
       /\ all[s + 1].symbol % 2 = 0 /\ (Low(all[s + 1].symbol) - (Base \div 2)) \div 2 = r
       /\ More(all[s + 1].symbol) <=> zeros > 0
  /\ ~Short(r) =>
       /\ all[s + 1].symbol % 2 = 1
       /\ all[s + 2].tree = "MSB"
       /\ Low(all[s + 2].symbol) * Base + (all[s + 1].symbol \div 2) - Offset = r
       /\ More(all[s + 2].symbol) <=> zeros > 0

ZerosPlaced(s, t, r, zeros, all) ==
  \E n, v : CountPlaced(s + SymbolsIn(r), n, v, "ZERO", zeros, all) /\ t = s + SymbolsIn(r) + n

ResidualsPlaced(a, b, s, t, all) ==
  /\ PelPlaced(s, input.data[a], b - a - 1, all)
  /\ b = a + 1 => t = s + SymbolsIn(input.data[a])
  /\ b # a + 1 => ZerosPlaced(s, t, input.data[a], b - a - 1, all)
  /\ \A k \in a + 1 .. b - 1 : input.data[k] = 0

(* Residuals have no intra tiles. *)
LEMMA ResidualsKept ==
  ASSUME Proper(input), Codable(input), input.coder = "residuals", NEW a \in Nat, NEW b \in Nat, a <= b
  PROVE  /\ \A k : ~SkipAt(k)
         /\ Unskipped(a, b) = b - a
  <1>1. \A k : ~SkipAt(k)
    BY DEF Codable, SkipAt, SkippedIn, IntraIn
  <1>2. PICK c \in Int : c = b - 1
    OBVIOUS
  <1>3. {k \in a .. b - 1 : ~SkipAt(k)} = a .. c
    BY <1>1, <1>2
  <1>4. Cardinality(a .. c) = IF a > c THEN 0 ELSE c - a + 1
    BY FS_Interval
  <1>5. Cardinality(a .. c) = b - a
    BY <1>2, <1>4
  <1> QED
    BY <1>1, <1>3, <1>5 DEF Unskipped

LEMMA ResidualsArePlaced ==
  ASSUME Proper(input), Codable(input), input.coder = "residuals",
         NEW p, NEW g, NEW all, Laid(p, g, all),
         NEW a, NEW b, NEW s, NEW t, RunOf(p, g, a, b, s, t)
  PROVE  ResidualsPlaced(a, b, s, t, all)
  <1>1. /\ a \in 1 .. Size /\ b \in 1 .. Size + 1 /\ a < b /\ s \in Nat /\ t \in Nat
        /\ Coupled(a, b, s, t, all)
    BY RunFacts
  <1>2. Size \in Nat
    BY InputTyped DEF Size
  <1>3. PICK r, z : r = input.data[a] /\ r \in ResidualRange /\ z = b - a - 1 /\ z \in Nat
    <2>1. input.data[a] \in Int
      BY <1>1, ElementTyped
    <2>2. input.data[a] \in ResidualRange
      BY <1>1, <2>1 DEF Codable, Size, ResidualRange
    <2> QED
      BY <1>1, <1>2, <2>2
  <1>4. RunCount(a, b) = z
    <2>1. a \in Nat /\ b \in Nat /\ a <= b
      BY <1>1, <1>2
    <2>2. Unskipped(a, b) = b - a
      BY <2>1, ResidualsKept
    <2> QED
      BY <1>3, <2>1, <2>2 DEF RunCount, FirstCount
  <1>5. \A k \in a + 1 .. b - 1 : input.data[k] = 0
    BY <1>1, <1>2, ResidualsKept DEF Coupled, Uniform, Filler
  <1>6. PICK pel, zeros : pel = Pel(r, z) /\ zeros = IF z > 0 THEN CountSymbols("ZERO", z) ELSE <<>>
    OBVIOUS
  <1>7. PICK run : run = RunBetween(a, b) /\ run = pel \o zeros
    BY <1>3, <1>4, <1>6, RunOfResiduals DEF RunBetween, Run
  <1>8. PelSymbols(pel, r, z)
    BY <1>3, <1>6, PelRead
  <1>9. PICK w \in {1, 2} : w = SymbolsIn(r) /\ pel \in Seq(CodedSymbols) /\ Len(pel) = w
    BY <1>8 DEF PelSymbols, SymbolsIn
  <1>10. zeros \in Seq(CodedSymbols)
    <2>1. CASE z > 0
      <3>1. "ZERO" \in Trees
        BY DEF Trees
      <3> QED
        BY <1>3, <1>6, <2>1, <3>1, CountSymbolsAre DEF CountOf
    <2>2. CASE ~(z > 0)
      BY <1>6, <2>2
    <2> QED
      BY <2>1, <2>2
  <1>11. PICK n \in Nat : n = Len(zeros)
    BY <1>10
  <1>12. /\ Len(run) = w + n
         /\ \A x \in 1 .. w : run[x] = pel[x]
         /\ \A x \in 1 .. n : run[w + x] = zeros[x]
    <2>1. /\ Len(pel \o zeros) = Len(pel) + Len(zeros)
          /\ \A x \in 1 .. Len(pel) : (pel \o zeros)[x] = pel[x]
          /\ \A x \in 1 .. Len(zeros) : (pel \o zeros)[Len(pel) + x] = zeros[x]
      BY <1>9, <1>10, Concatenated
    <2> QED
      BY <1>7, <1>9, <1>11, <2>1
  <1>13. t = s + (w + n) /\ \A x \in 1 .. w + n : all[s + x] = run[x]
    BY <1>1, <1>7, <1>12 DEF Coupled
  <1>14. \A x \in 1 .. w : all[s + x] = pel[x]
    <2>1. \A x \in 1 .. w : x \in 1 .. w + n
      OBVIOUS
    <2> QED
      BY <1>12, <1>13, <2>1
  <1>15. PelPlaced(s, r, z, all)
    <2>1. all[s + 1] = pel[1] /\ (w = 2 => all[s + 2] = pel[2])
      BY <1>14
    <2>2. ~Short(r) => w = 2
      BY <1>9 DEF SymbolsIn
    <2> QED
      BY <1>8, <2>1, <2>2 DEF PelSymbols, PelPlaced
  <1>16. ASSUME z > 0 PROVE ZerosPlaced(s, t, r, z, all)
    <2>1. PICK u \in Nat : u = s + w
      BY <1>1
    <2>2. \A x \in 1 .. n : all[u + x] = zeros[x]
      <3> SUFFICES ASSUME NEW x \in 1 .. n PROVE all[u + x] = zeros[x]
        OBVIOUS
      <3>1. w + x \in 1 .. w + n /\ s + (w + x) = u + x
        BY <1>1, <2>1
      <3> QED
        BY <1>12, <1>13, <3>1
    <2>3. "ZERO" \in Trees
      BY DEF Trees
    <2>4. PICK v : CountPlaced(u, n, v, "ZERO", z, all)
      BY <1>3, <1>6, <1>11, <1>16, <2>2, <2>3, CountIsPlaced
    <2>5. t = u + n
      BY <1>1, <1>13, <2>1
    <2> QED
      BY <1>9, <2>1, <2>4, <2>5 DEF ZerosPlaced
  <1>17. b = a + 1 => t = s + w
    <2>1. b = a + 1 => z = 0
      BY <1>1, <1>2, <1>3
    <2>2. z = 0 => n = 0
      BY <1>6, <1>11
    <2> QED
      BY <1>1, <1>13, <2>1, <2>2
  <1>18. b # a + 1 => z > 0
    BY <1>1, <1>2, <1>3
  <1> QED
    BY <1>3, <1>5, <1>9, <1>15, <1>16, <1>17, <1>18 DEF ResidualsPlaced

CountsPlaced(a, b, s, t, all) ==
  \E n, v : CountPlaced(s, n, v, RunTree(input.data[a]), Unskipped(a, b), all) /\ t = s + n

LEMMA MasksArePlaced ==
  ASSUME Proper(input), Codable(input), input.coder # "residuals",
         NEW p, NEW g, NEW all, Laid(p, g, all),
         NEW a, NEW b, NEW s, NEW t, RunOf(p, g, a, b, s, t)
  PROVE  CountsPlaced(a, b, s, t, all)
  <1>1. /\ a \in 1 .. Size /\ b \in 1 .. Size + 1 /\ a < b /\ s \in Nat /\ t \in Nat
        /\ Coupled(a, b, s, t, all) /\ RunCount(a, b) \in Nat
    BY RunFacts
  <1>2. RunCount(a, b) = Unskipped(a, b)
    <2>1. a \in Nat /\ b \in Nat
      BY <1>1
    <2>2. Unskipped(a, b) \in Nat
      BY <2>1, KeptSteps
    <2> QED
      BY <2>2 DEF RunCount, FirstCount
  <1>3. PICK tree : tree = RunTree(input.data[a]) /\ tree \in Trees
    BY DEF RunTree, Trees
  <1>4. PICK run : run = RunBetween(a, b) /\ run = CountSymbols(tree, Unskipped(a, b))
    BY <1>2, <1>3 DEF RunBetween, Run
  <1>5. t = s + Len(run) /\ \A x \in 1 .. Len(run) : all[s + x] = run[x]
    BY <1>1, <1>4 DEF Coupled
  <1>6. Len(run) \in Nat /\ \E v : CountPlaced(s, Len(run), v, tree, Unskipped(a, b), all)
    <2>1. PICK c \in Nat : c = Unskipped(a, b)
      BY <1>1, <1>2
    <2>2. run = CountSymbols(tree, c) /\ s \in Nat /\ tree \in Trees
      BY <1>1, <1>3, <1>4, <2>1
    <2>3. Len(run) \in Nat /\ \E v : CountPlaced(s, Len(run), v, tree, c, all)
      BY <1>5, <2>2, CountIsPlaced
    <2> QED
      BY <2>1, <2>3
  <1> QED
    BY <1>3, <1>5, <1>6 DEF CountsPlaced

(* The symbols of a run are of states of its coder. *)
LEMMA CountStates ==
  ASSUME NEW s \in Nat, NEW n, NEW v, NEW tree, NEW count, NEW all, CountPlaced(s, n, v, tree, count, all),
         NEW k \in s + 1 .. s + n
  PROVE  all[k].tree = tree
  <1>1. PICK i \in 1 .. n : k = s + i
    <2>1. n \in Nat
      BY DEF CountPlaced
    <2>2. k - s \in 1 .. n /\ k = s + (k - s)
      BY <2>1
    <2> QED
      BY <2>2
  <1> QED
    BY <1>1 DEF CountPlaced

LEMMA RunStates ==
  ASSUME Proper(input), Codable(input), NEW p, NEW g, NEW all, Laid(p, g, all),
         NEW a, NEW b, NEW s, NEW t, RunOf(p, g, a, b, s, t), NEW k \in s + 1 .. t
  PROVE  all[k].tree \in (IF input.coder = "residuals" THEN {"LSB", "MSB", "ZERO"} ELSE {"ZERO_RUN", "ONE_RUN"})
  <1>1. s \in Nat /\ t \in Nat
    BY RunFacts
  <1>2. CASE input.coder = "residuals"
    <2>1. PICK w \in {1, 2} : w = SymbolsIn(input.data[a])
      BY DEF SymbolsIn
    <2>2. ResidualsPlaced(a, b, s, t, all)
      BY <1>2, ResidualsArePlaced
    <2>3. all[s + 1].tree = "LSB" /\ (w = 2 => all[s + 2].tree = "MSB")
      BY <2>1, <2>2 DEF ResidualsPlaced, PelPlaced, SymbolsIn
    <2>4. CASE k <= s + w
      <3>1. k = s + 1 \/ (w = 2 /\ k = s + 2)
        BY <1>1, <2>4
      <3> QED
        BY <1>2, <2>3, <3>1
    <2>5. CASE k > s + w
      <3>1. b # a + 1
        BY <1>1, <2>1, <2>2, <2>5 DEF ResidualsPlaced
      <3>2. PICK u \in Nat : u = s + w
        BY <1>1
      <3>3. PICK n, v : CountPlaced(u, n, v, "ZERO", b - a - 1, all) /\ t = u + n
        BY <2>1, <2>2, <3>1, <3>2 DEF ResidualsPlaced, ZerosPlaced
      <3>4. k \in u + 1 .. u + n
        BY <1>1, <2>5, <3>2, <3>3
      <3>5. all[k].tree = "ZERO"
        BY <3>3, <3>4, CountStates
      <3> QED
        BY <1>2, <3>5
    <2> QED
      BY <1>1, <2>4, <2>5
  <1>3. CASE input.coder # "residuals"
    <2>1. PICK n, v : CountPlaced(s, n, v, RunTree(input.data[a]), Unskipped(a, b), all) /\ t = s + n
      BY <1>3, MasksArePlaced DEF CountsPlaced
    <2>2. all[k].tree = RunTree(input.data[a])
      BY <1>1, <2>1, CountStates
    <2> QED
      BY <1>3, <2>2 DEF RunTree
  <1> QED
    BY <1>2, <1>3

LEMMA LaidStates ==
  ASSUME Proper(input), Codable(input), NEW p, NEW g, NEW all, Laid(p, g, all)
  PROVE  OfStates(all)
  <1> SUFFICES ASSUME NEW k \in 1 .. Len(all)
               PROVE  \/ all[k].tree = "BYTE"
                      \/ \E i \in 1 .. Len(States(input.coder)) : States(input.coder)[i] = all[k].tree
    BY DEF OfStates
  <1>1. PICK m \in Nat \ {0} : m = Len(p) /\ m = Len(g)
    BY DEF Laid
  <1>2. \A j \in 1 .. m : g[j] \in Nat
    BY <1>1, ElementOf DEF Laid
  <1>3. g[1] = Before /\ g[m] = Len(all) /\ Before \in {0, 1}
    BY <1>1 DEF Laid, Before
  <1>4. k \in Nat \ {0} /\ k <= g[m]
    BY <1>3
  <1>5. CASE k <= Before
    <2>1. Before = 1 /\ k = 1
      BY <1>3, <1>4, <1>5
    <2> QED
      BY <2>1 DEF Laid, Symbol
  <1>6. CASE ~(k <= Before)
    <2>1. PICK j \in 1 .. m - 1 : g[j] < k /\ k <= g[j + 1]
      <3> DEFINE Past == {d \in 1 .. m : k <= g[d]}
      <3>1. PICK d \in Past : d = 0 \/ (d - 1 \in Nat /\ d - 1 \notin Past)
        <4>1. Past \in SUBSET Nat /\ Past # {}
          BY <1>4
        <4> HIDE DEF Past
        <4> QED
          BY <4>1, LeastOf
      <3>2. d \in 1 .. m /\ k <= g[d] /\ d # 1
        BY <1>3, <1>6
      <3>3. d - 1 \in 1 .. m - 1 /\ d - 1 \in 1 .. m /\ (d - 1) + 1 = d
        BY <3>2
      <3>4. ~(k <= g[d - 1])
        BY <3>1, <3>2, <3>3
      <3> HIDE DEF Past
      <3>5. g[d - 1] < k
        BY <1>2, <1>4, <3>3, <3>4
      <3> QED
        BY <3>2, <3>3, <3>5
    <2>2. PICK a, b, s, t : a = p[j] /\ b = p[j + 1] /\ s = g[j] /\ t = g[j + 1]
      OBVIOUS
    <2>3. RunOf(p, g, a, b, s, t)
      BY <1>1, <2>2 DEF RunOf
    <2>4. k \in s + 1 .. t
      <3>1. j \in 1 .. m /\ j + 1 \in 1 .. m
        OBVIOUS
      <3> QED
        BY <1>2, <1>4, <2>1, <2>2, <3>1
    <2>5. all[k].tree \in (IF input.coder = "residuals" THEN {"LSB", "MSB", "ZERO"} ELSE {"ZERO_RUN", "ONE_RUN"})
      BY <2>3, <2>4, RunStates
    <2>6. input.coder \in RunCoders \cup SizeCoders /\ (input.coder = "residuals" \/ input.coder \in {"temporal", "flags"})
      BY DEF Codable, RunCoders
    <2>7. CASE input.coder = "residuals"
      BY <2>5, <2>6, <2>7, StatesAre
    <2>8. CASE input.coder \in {"temporal", "flags"}
      <3>1. input.coder # "residuals"
        BY <2>8
      <3> QED
        BY <2>5, <2>6, <2>8, <3>1, StatesAre
    <2> QED
      BY <2>6, <2>7, <2>8
  <1> QED
    BY <1>5, <1>6

-----------------------------------------------------------------------------
(* What is sent.                                                           *)

(* Symbols that are sent raw are read one byte at a time. *)
LEMMA RawReadable ==
  ASSUME NEW all \in Seq(CodedSymbols), NEW sent, sent = [enabled |-> TRUE, rle_only |-> TRUE, bits |-> Raw(all)]
  PROVE  \E places, trees : Readable(sent, all, places, trees)
  <1>1. PICK bits : bits = Raw(all) /\ sent = [enabled |-> TRUE, rle_only |-> TRUE, bits |-> bits]
    OBVIOUS
  <1>2. /\ bits \in Seq(Bits) /\ Len(bits) = Len(all) * SymbolBits
        /\ \A k \in 1 .. Len(all) : ValueAt(bits, (k - 1) * SymbolBits + 1, SymbolBits) = all[k].symbol
    BY <1>1, RawBits DEF Bits
  <1>3. PICK m \in Nat, w \in Nat \ {0} : m = Len(all) /\ w = SymbolBits
    BY Ranges
  <1>4. PICK e \in Nat : e = Len(bits) /\ e = m * w
    BY <1>2, <1>3
  <1>5. PICK places : places = [k \in 0 .. m |-> k * w + 1]
    OBVIOUS
  <1>6. ASSUME NEW k \in 0 .. m PROVE places[k] = k * w + 1 /\ places[k] \in 1 .. e + 1
    <2>1. PICK x \in Nat, y \in Nat : x = k * w /\ y = (m - k) * w /\ x + y = e
      <3>1. k * w \in Nat /\ (m - k) * w \in Nat /\ k * w + (m - k) * w = m * w
        OBVIOUS
      <3> QED
        BY <1>4, <3>1
    <2>2. places[k] = x + 1
      BY <1>5, <2>1
    <2> QED
      BY <2>1, <2>2
  <1>7. ASSUME NEW k \in 1 .. m
        PROVE  ReadAt(sent, all[k].tree, <<>>, places[k - 1]) = {[symbol |-> all[k].symbol, next |-> places[k]]}
    <2>1. PICK p \in Nat, q \in Nat : p = places[k - 1] /\ q = places[k] /\ p = (k - 1) * w + 1 /\ q = p + w /\ q <= e + 1
      <3>1. k \in 0 .. m /\ k - 1 \in 0 .. m
        OBVIOUS
      <3>2. k * w = (k - 1) * w + w /\ (k - 1) * w \in Nat
        OBVIOUS
      <3> QED
        BY <1>6, <3>1, <3>2
    <2>2. ValueAt(bits, p, w) = all[k].symbol
      BY <1>2, <1>3, <2>1
    <2>3. ~(p + w > Len(sent.bits) + 1) /\ sent.bits = bits /\ sent.rle_only
      <3>1. sent.bits = bits /\ sent.rle_only = TRUE
        BY <1>1
      <3>2. Len(sent.bits) = e
        BY <1>4, <3>1
      <3> QED
        BY <2>1, <3>1, <3>2
    <2>4. ReadAt(sent, all[k].tree, <<>>, p) = {[symbol |-> ValueAt(bits, p, w), next |-> p + w]}
      BY <1>3, <2>3 DEF ReadAt
    <2> QED
      BY <2>1, <2>2, <2>4
  <1>8. places \in [0 .. m -> 1 .. e + 1]
    BY <1>5, <1>6
  <1>9. places[0] = 1 /\ e - (places[m] - 1) < w
    <2>1. 0 \in 0 .. m /\ m \in 0 .. m /\ 0 * w = 0
      OBVIOUS
    <2>2. places[0] = 1 /\ places[m] = e + 1
      BY <1>4, <1>6, <2>1
    <2> QED
      BY <2>2
  <1>10. /\ sent \in [enabled : {TRUE}, rle_only : BOOLEAN, bits : Seq(Bits)]
         /\ sent.bits = bits /\ sent.rle_only = TRUE
    <2>1. PICK A : A = Seq(Bits)
      OBVIOUS
    <2>2. bits \in A
      BY <1>2, <2>1
    <2> QED
      BY <1>1, <2>1, <2>2
  <1> QED
    BY <1>3, <1>4, <1>7, <1>8, <1>9, <1>10 DEF Readable

(* It depends on nothing but the coder what a decoder reads. *)
LEMMA SameReadable ==
  ASSUME input' = input
  PROVE  \A sent, all, places, trees : Readable(sent, all, places, trees)' <=> Readable(sent, all, places, trees)
  <1>1. \A tree : StateOf(tree)' = StateOf(tree)
    BY DEF StateOf
  <1>2. \A sent, tree, trees, p : ReadAt(sent, tree, trees, p)' = ReadAt(sent, tree, trees, p)
    BY <1>1 DEF ReadAt
  <1> SUFFICES ASSUME NEW sent, NEW all, NEW places, NEW trees
               PROVE  Readable(sent, all, places, trees)' <=> Readable(sent, all, places, trees)
    OBVIOUS
  <1>3. \A k : ReadAt(sent, all[k].tree, trees, places[k - 1])' = ReadAt(sent, all[k].tree, trees, places[k - 1])
    BY <1>2
  <1>4. Len(States(input.coder))' = Len(States(input.coder))
    OBVIOUS
  <1> QED
    BY <1>3, <1>4 DEF Readable

(* The chunk, if it is prefix coded, has codes of less than NoLength bits. *)
ShortCodes == chunk.enabled /\ ~chunk.rle_only => ShortCodesOf(symbols)

(* A surface of zeros has no chunk; any other can be read. *)
NothingSent ==
  /\ chunk = NoChunk /\ symbols = <<>> /\ input.coder \in {"residuals", "temporal"}
  /\ \A k \in 1 .. Size : input.data[k] = 0

RunsSent ==
  /\ \E places, trees : Readable(chunk, symbols, places, trees)
  /\ \E p, g : Laid(p, g, symbols)

Delivered == NothingSent \/ RunsSent

LEMMA FinishRunsStep ==
  ASSUME Encoding, FinishRuns, Codable(input), ShortCodes'
  PROVE  (Proper(input) /\ ScanTyped /\ Undecoded /\ Delivered)' /\ phase' = "sent"
  <1>0. input' = input /\ Proper(input) /\ scan' = scan /\ Size \in Nat \ {0}
    BY InputTyped DEF FinishRuns, Encoding, Size
  <1>1. scan.pos = Size + 1 /\ scan.pos # 1
    <2>1. scan.pos \in 1 .. Size + 1 /\ scan.pos > Size
      BY DEF FinishRuns, Encoding, ScanTyped
    <2> QED
      BY <1>0, <2>1
  <1>2. PICK p, q : Log(p, q, symbols) /\ Open(p[Len(p)])
    BY <1>1 DEF Encoding, EncoderAt
  <1>3. PICK runs : runs = symbols \o Run(scan.value, scan.count)
    OBVIOUS
  <1>4. PICK r, s : Log(s, r, runs) /\ s[Len(s)] = Size + 1
    <2>1. ~(scan.pos <= Size)
      BY <1>0, <1>1
    <2> QED
      BY <1>1, <1>2, <1>3, <2>1, RunEnds
  <1>5. PICK all : all = StartByte \o runs
    OBVIOUS
  <1>6. PICK g : Laid(s, g, all)
    BY <1>0, <1>4, <1>5, LogLaid
  <1>7. CASE HasEntropy
    <2>1. symbols' = all /\ Sent(all)
      BY <1>3, <1>5, <1>7 DEF FinishRuns
    <2>2. PICK prefix, raw : /\ raw = Raw(all) /\ prefix = Padded(Prefix(all, Tables(all)))
                             /\ chunk' = [enabled |-> TRUE, rle_only |-> IsRaw(prefix, raw),
                                          bits |-> IF IsRaw(prefix, raw) THEN raw ELSE prefix]
      BY <2>1 DEF Sent
    <2>3. all \in Seq(CodedSymbols)
      BY <1>6 DEF Laid
    <2>4. PICK c : c = chunk'
      OBVIOUS
    <2>5. \E places, trees : Readable(c, all, places, trees)
      <3>1. CASE IsRaw(prefix, raw) = TRUE
        <4>1. c = [enabled |-> TRUE, rle_only |-> TRUE, bits |-> Raw(all)]
          BY <2>2, <2>4, <3>1
        <4> QED
          BY <2>3, <4>1, RawReadable
      <3>2. CASE IsRaw(prefix, raw) = FALSE
        <4>1. c = [enabled |-> TRUE, rle_only |-> FALSE, bits |-> Padded(Prefix(all, Tables(all)))]
          BY <2>2, <2>4, <3>2
        <4>2. ShortCodesOf(all)
          <5>1. (chunk').enabled = TRUE /\ (chunk').rle_only = FALSE
            BY <2>4, <4>1
          <5>2. ShortCodesOf(symbols)'
            BY <5>1 DEF ShortCodes
          <5> QED
            BY <1>0, <2>1, <5>2 DEF ShortCodesOf
        <4>3. OfStates(all)
          BY <1>0, <1>6, LaidStates
        <4>4. input.coder \in RunCoders /\ c = PrefixChunk(all)
          BY <4>1 DEF Codable, PrefixChunk
        <4> QED
          BY <2>3, <4>2, <4>3, <4>4, PrefixReadable
      <3> QED
        BY <3>1, <3>2 DEF IsRaw
    <2>6. PICK places, trees : Readable(c, all, places, trees)
      BY <2>5
    <2>7. Readable(c, all, places, trees)'
      BY <1>0, <2>6, SameReadable
    <2>8. Laid(s, g, all)'
      BY <1>0, <1>6, SameLaid
    <2>9. Delivered'
      BY <2>1, <2>4, <2>7, <2>8 DEF Delivered, RunsSent
    <2> QED
      BY <1>0, <2>9, InputSame DEF FinishRuns, Encoding, ScanTyped, Undecoded
  <1>8. CASE ~HasEntropy
    <2>1. symbols' = <<>> /\ chunk' = NoChunk
      BY <1>8 DEF FinishRuns
    <2>2. input.coder \in {"residuals", "temporal"}
      BY <1>8 DEF HasEntropy, Codable, RunCoders
    <2>3. \A k \in 1 .. Size : input.data[k] = 0
      BY <1>8 DEF HasEntropy
    <2>4. Size' = Size
      BY <1>0, InputSame
    <2>5. Delivered'
      BY <1>0, <2>1, <2>2, <2>3, <2>4 DEF Delivered, NothingSent
    <2> QED
      BY <1>0, <2>5, InputSame DEF FinishRuns, Encoding, ScanTyped, Undecoded
  <1> QED
    BY <1>7, <1>8

-----------------------------------------------------------------------------
(* The decoder's next symbol.                                              *)

(* K symbols have been taken. *)
SourceAt(k) ==
  \E places, trees : /\ Readable(chunk, symbols, places, trees)
                     /\ source = [next |-> places[k], trees |-> trees, taken |-> k]

LEMMA SourceStays ==
  ASSUME NEW k, SourceAt(k), input' = input, symbols' = symbols, chunk' = chunk, source' = source
  PROVE  SourceAt(k)'
  <1>1. PICK places, trees : Readable(chunk, symbols, places, trees)
                             /\ source = [next |-> places[k], trees |-> trees, taken |-> k]
    BY DEF SourceAt
  <1>2. PICK c, s : c = chunk /\ s = symbols
    OBVIOUS
  <1>3. Readable(c, s, places, trees)'
    BY <1>1, <1>2, SameReadable
  <1> QED
    BY <1>1, <1>2, <1>3 DEF SourceAt

(* Got has one element, the symbol that comes next. *)
LEMMA TakeNext ==
  ASSUME symbols \in Seq(CodedSymbols), NEW k \in 0 .. Len(symbols), SourceAt(k),
         k < Len(symbols), dec.tree = symbols[k + 1].tree, NEW got \in Got, Take(got),
         input' = input, symbols' = symbols, chunk' = chunk
  PROVE  k + 1 \in 1 .. Len(symbols) /\ got.symbol = symbols[k + 1].symbol /\ SourceAt(k + 1)'
  <1>1. PICK places, trees : Readable(chunk, symbols, places, trees)
                             /\ source = [next |-> places[k], trees |-> trees, taken |-> k]
    BY DEF SourceAt
  <1>2. PICK i \in 1 .. Len(symbols) : i = k + 1 /\ i - 1 = k
    OBVIOUS
  <1>3. ReadAt(chunk, symbols[i].tree, trees, places[k]) = {[symbol |-> symbols[i].symbol, next |-> places[i]]}
    BY <1>1, <1>2 DEF Readable
  <1>4. Got = ReadAt(chunk, dec.tree, trees, places[k])
    <2>1. source.next = places[k] /\ source.trees = trees
      BY <1>1
    <2> QED
      BY <2>1 DEF Got, GetByte, ReadAt
  <1>5. got = [symbol |-> symbols[i].symbol, next |-> places[i]]
    BY <1>2, <1>3, <1>4
  <1>6. source' = [next |-> places[i], trees |-> trees, taken |-> i]
    <2>1. source' = [source EXCEPT !.next = got.next, !.taken = @ + 1]
      BY DEF Take
    <2> QED
      BY <1>1, <1>2, <1>5, <2>1
  <1>7. PICK c, s : c = chunk /\ s = symbols
    OBVIOUS
  <1>8. Readable(c, s, places, trees)'
    BY <1>1, <1>7, SameReadable
  <1>9. SourceAt(i)'
    BY <1>6, <1>7, <1>8 DEF SourceAt
  <1> QED
    BY <1>2, <1>5, <1>9

-----------------------------------------------------------------------------
(* Where the decoder is: at element e, with k symbols taken of all.        *)

LsbAt(p, g, e, d, k) ==
  /\ d.tree = "LSB"
  /\ \E b : /\ RunStartsAt(p, g, b, k) /\ e + d.run = b
            /\ \A x \in e .. b - 1 : input.data[x] = 0

MsbAt(p, g, e, d, k, all) ==
  /\ d.tree = "MSB" /\ d.run = 0
  /\ \E b, s, t : /\ RunOf(p, g, e, b, s, t) /\ ~Short(input.data[e])
                  /\ k = s + 1 /\ d.lsb = all[s + 1].symbol

ZerosAt(p, g, e, d, k, all) ==
  /\ d.tree = "ZERO" /\ d.value = input.data[e]
  /\ \E b, s, t, n, v, i, z :
       /\ RunOf(p, g, e, b, s, t) /\ b # e + 1 /\ z = b - e - 1
       /\ CountPlaced(s + SymbolsIn(input.data[e]), n, v, "ZERO", z, all)
       /\ t = s + SymbolsIn(input.data[e]) + n
       /\ i \in 0 .. n - 1 /\ k = s + SymbolsIn(input.data[e]) + i /\ d.run = v[i]

ByteAt(e, d, k) == d.tree = "BYTE" /\ d.run = 0 /\ d.intra = FALSE /\ e = 1 /\ k = 0

CountAt(p, g, e, d, k, all) ==
  /\ d.tree = RunTree(input.data[e]) /\ d.value = input.data[e]
  /\ d.intra <=> IntraBefore(e)
  /\ \E b, s, t, n, v, i :
       /\ RunOf(p, g, e, b, s, t)
       /\ CountPlaced(s, n, v, RunTree(input.data[e]), Unskipped(e, b), all)
       /\ t = s + n
       /\ i \in 0 .. n - 1 /\ k = s + i /\ d.run = v[i]

FlagAt(p, g, e, d, k) ==
  /\ d.tree = "NONE"
  /\ d.intra <=> IntraBefore(e)
  /\ \E a, b, s : /\ RunOf(p, g, a, b, s, k) /\ a <= e /\ e <= b
                  /\ d.value = input.data[a] /\ d.run = Unskipped(e, b)

DecoderAt(p, g, e, d, k, all) ==
  IF input.coder = "residuals"
    THEN LsbAt(p, g, e, d, k) \/ MsbAt(p, g, e, d, k, all) \/ ZerosAt(p, g, e, d, k, all)
    ELSE ByteAt(e, d, k) \/ CountAt(p, g, e, d, k, all) \/ FlagAt(p, g, e, d, k)

LEMMA SameAt ==
  ASSUME input' = input
  PROVE  \A p, g, e, d, k, all : DecoderAt(p, g, e, d, k, all)' <=> DecoderAt(p, g, e, d, k, all)
  <1>1. \A p, g, e, d, k : LsbAt(p, g, e, d, k)' <=> LsbAt(p, g, e, d, k)
    BY DEF LsbAt
  <1>2. \A p, g, e, d, k, all : MsbAt(p, g, e, d, k, all)' <=> MsbAt(p, g, e, d, k, all)
    BY DEF MsbAt
  <1>3. \A p, g, e, d, k, all : ZerosAt(p, g, e, d, k, all)' <=> ZerosAt(p, g, e, d, k, all)
    BY DEF ZerosAt
  <1>4. \A p, g, e, d, k, all : CountAt(p, g, e, d, k, all)' <=> CountAt(p, g, e, d, k, all)
    BY InputSame DEF CountAt
  <1>5. \A p, g, e, d, k : FlagAt(p, g, e, d, k)' <=> FlagAt(p, g, e, d, k)
    BY InputSame DEF FlagAt
  <1> QED
    BY <1>1, <1>2, <1>3, <1>4, <1>5 DEF DecoderAt

-----------------------------------------------------------------------------
(* The decoder of residuals.                                               *)

DecTyped(d) ==
  d \in [tree : Trees \cup {"NONE"}, lsb : 0 .. MAX_SYMBOL - 1, value : Int, run : Nat, intra : BOOLEAN]

Written == out \in Seq(Int) /\ Len(out) <= Size /\ RoundTrip

LEMMA NothingWritten ==
  ASSUME Written, input' = input, out' = out
  PROVE  Written' /\ Element' = Element
  BY InputSame DEF Written, RoundTrip, Element

LEMMA ElementWritten ==
  ASSUME Proper(input), Written, Decoding, input' = input,
         NEW x, x = input.data[Element], out' = Append(out, x)
  PROVE  Written' /\ Element' = Element + 1 /\ Element + 1 <= Size + 1
  <1>1. PICK e \in Nat \ {0} : e = Len(out) + 1 /\ e = Element /\ e <= Size
    BY DEF Written, Element, Decoding
  <1>2. Size \in Nat
    BY InputTyped DEF Size
  <1>3. x \in Int
    <2>1. e \in 1 .. Size
      BY <1>1, <1>2
    <2> QED
      BY <1>1, <2>1, ElementTyped
  <1>4. PICK s, t : s = out /\ t = out' /\ s \in Seq(Int) /\ t = Append(s, x) /\ Len(s) = e - 1
    BY <1>1 DEF Written
  <1>5. t \in Seq(Int) /\ Len(t) = e /\ (\A i \in 1 .. e - 1 : t[i] = s[i]) /\ t[e] = x
    <2>1. /\ t \in Seq(Int) /\ Len(s) \in Nat /\ Len(t) = Len(s) + 1
          /\ \A i \in 1 .. Len(s) : t[i] = s[i]
          /\ t[Len(s) + 1] = x
      BY <1>3, <1>4, Appended
    <2> QED
      BY <1>1, <1>4, <2>1
  <1>6. \A i \in 1 .. e : t[i] = input.data[i]
    <2> SUFFICES ASSUME NEW i \in 1 .. e PROVE t[i] = input.data[i]
      OBVIOUS
    <2>1. CASE i = e
      BY <1>1, <1>5, <2>1
    <2>2. CASE i # e
      <3>1. i \in 1 .. e - 1
        BY <2>2
      <3>2. \A j \in 1 .. e - 1 : s[j] = input.data[j]
        BY <1>4 DEF Written, RoundTrip
      <3> QED
        BY <1>5, <3>1, <3>2
    <2> QED
      BY <2>1, <2>2
  <1>7. Size' = Size
    BY InputSame
  <1> QED
    BY <1>1, <1>2, <1>4, <1>5, <1>6, <1>7 DEF Written, RoundTrip, Element

(* What the decoder knows before it reads or writes: k symbols are taken. *)
Known(p, g, k) ==
  /\ Proper(input) /\ Codable(input)
  /\ symbols \in Seq(CodedSymbols) /\ Laid(p, g, symbols)
  /\ k \in 0 .. Len(symbols) /\ SourceAt(k)
  /\ Written /\ DecTyped(dec)
  /\ DecoderAt(p, g, Element, dec, k, symbols)

(* The same afterwards. *)
KnownNext(p, g) ==
  /\ Written' /\ DecTyped(dec')
  /\ \E k \in 0 .. Len(symbols) : SourceAt(k)' /\ DecoderAt(p, g, Element', dec', k, symbols)

LEMMA ElementRange ==
  ASSUME Proper(input), Written, Decoding
  PROVE  Element \in 1 .. Size /\ Element \in Nat /\ Size \in Nat
  <1>1. Size \in Nat
    BY InputTyped DEF Size
  <1> QED
    BY <1>1 DEF Written, Decoding, Element

(* A run of residuals has one symbol or two, and those of its zeros. *)
LEMMA RunHasSymbols ==
  ASSUME Proper(input), Codable(input), input.coder = "residuals",
         NEW p, NEW g, NEW all, Laid(p, g, all),
         NEW a, NEW b, NEW s, NEW t, RunOf(p, g, a, b, s, t)
  PROVE  s < t /\ s + SymbolsIn(input.data[a]) <= t
  <1>1. PICK w \in {1, 2} : w = SymbolsIn(input.data[a])
    BY DEF SymbolsIn
  <1>2. s \in Nat /\ t \in Nat /\ ResidualsPlaced(a, b, s, t, all)
    BY RunFacts, ResidualsArePlaced
  <1>3. CASE b = a + 1
    BY <1>1, <1>2, <1>3 DEF ResidualsPlaced
  <1>4. CASE b # a + 1
    <2>1. PICK n, v : CountPlaced(s + w, n, v, "ZERO", b - a - 1, all) /\ t = s + w + n
      BY <1>1, <1>2, <1>4 DEF ResidualsPlaced, ZerosPlaced
    <2>2. n \in Nat
      BY <2>1 DEF CountPlaced
    <2> QED
      BY <1>1, <1>2, <2>1, <2>2
  <1> QED
    BY <1>3, <1>4

(* When the decoder reads a chunk: where it is in the runs, and what of    *)
(* the properties follows from this.                                       *)
LEMMA WhileReading ==
  ASSUME Proper(input), Codable(input), Written, DecTyped(dec), symbols \in Seq(CodedSymbols),
         NEW p, NEW g, Laid(p, g, symbols),
         NEW k \in 0 .. Len(symbols), DecoderAt(p, g, Element, dec, k, symbols)
  PROVE  /\ Len(out) = Size => k = Len(symbols)
         /\ /\ Len(out) < Size /\ dec.tree # "NONE"
            /\ dec.tree = "LSB" => dec.run = 0
            => k < Len(symbols) /\ dec.tree = symbols[k + 1].tree
  <1>1. PICK e \in Nat \ {0} : e = Element /\ e = Len(out) + 1
    BY DEF Element, Written
  <1>2. Size \in Nat
    BY InputTyped DEF Size
  <1>3. e \in 1 .. Size + 1
    BY <1>1, <1>2 DEF Written
  <1>4. CASE LsbAt(p, g, e, dec, k) /\ input.coder = "residuals"
    <2>1. PICK b : RunStartsAt(p, g, b, k) /\ e + dec.run = b
      BY <1>4 DEF LsbAt
    <2>2. b \in 1 .. Size + 1 /\ (b = Size + 1 => k = Len(symbols))
          /\ (b <= Size => \E c, t : RunOf(p, g, b, c, k, t))
      BY <2>1, PlaceFacts
    <2>3. dec.run \in Nat /\ dec.tree = "LSB"
      BY <1>4 DEF DecTyped, LsbAt
    <2>4. Len(out) = Size => k = Len(symbols)
      <3>1. Len(out) = Size => b = Size + 1
        BY <1>1, <1>2, <2>1, <2>2, <2>3
      <3> QED
        BY <2>2, <3>1
    <2>5. ASSUME Len(out) < Size, dec.run = 0 PROVE k < Len(symbols) /\ symbols[k + 1].tree = "LSB"
      <3>1. b = e /\ e \in 1 .. Size
        BY <1>1, <1>2, <1>3, <2>1, <2>5
      <3>2. PICK c, t : RunOf(p, g, e, c, k, t)
        BY <1>2, <2>2, <3>1
      <3>3. k \in Nat /\ t \in Nat /\ t <= Len(symbols)
        BY <3>2, RunFacts
      <3>4. k < t
        BY <1>4, <3>2, <3>3, RunHasSymbols
      <3> QED
        BY <1>4, <3>2, <3>3, <3>4, ResidualsArePlaced DEF ResidualsPlaced, PelPlaced
    <2> QED
      BY <2>3, <2>4, <2>5
  <1>5. CASE MsbAt(p, g, e, dec, k, symbols) /\ input.coder = "residuals"
    <2>1. PICK b, s, t : /\ RunOf(p, g, e, b, s, t) /\ ~Short(input.data[e])
                         /\ k = s + 1 /\ dec.tree = "MSB"
      BY <1>5 DEF MsbAt
    <2>2. e \in 1 .. Size /\ s \in Nat
      BY <2>1, RunFacts
    <2>3. symbols[s + 2].tree = "MSB"
      BY <1>5, <2>1, ResidualsArePlaced DEF ResidualsPlaced, PelPlaced
    <2>4. k + 1 = s + 2 /\ Len(out) # Size
      BY <1>1, <1>2, <2>1, <2>2
    <2>5. t \in Nat /\ t <= Len(symbols)
      BY <2>1, RunFacts
    <2>6. SymbolsIn(input.data[e]) = 2
      BY <2>1 DEF SymbolsIn
    <2>7. s + 2 <= t
      BY <1>5, <2>1, <2>6, RunHasSymbols
    <2>8. k < Len(symbols)
      BY <2>1, <2>2, <2>5, <2>7
    <2> QED
      BY <2>1, <2>3, <2>4, <2>8
  <1>6. CASE ZerosAt(p, g, e, dec, k, symbols) /\ input.coder = "residuals"
    <2>1. PICK w \in {1, 2} : w = SymbolsIn(input.data[e])
      BY DEF SymbolsIn
    <2>2. PICK b, s, t, n, v, i, z :
            /\ RunOf(p, g, e, b, s, t)
            /\ CountPlaced(s + SymbolsIn(input.data[e]), n, v, "ZERO", z, symbols)
            /\ t = s + SymbolsIn(input.data[e]) + n
            /\ i \in 0 .. n - 1 /\ k = s + SymbolsIn(input.data[e]) + i
      BY <1>6 DEF ZerosAt
    <2>3. e \in 1 .. Size /\ s \in Nat /\ t <= Len(symbols)
      BY <2>2, RunFacts
    <2>4. PICK u \in Nat : u = s + w
      BY <2>3
    <2>5. CountPlaced(u, n, v, "ZERO", z, symbols) /\ k = u + i /\ t = u + n
      BY <2>1, <2>2, <2>4
    <2>6. i + 1 \in 1 .. n /\ k + 1 = u + (i + 1)
      BY <2>2, <2>4, <2>5 DEF CountPlaced
    <2>7. symbols[k + 1].tree = "ZERO" /\ dec.tree = "ZERO"
      BY <1>6, <2>5, <2>6 DEF CountPlaced, ZerosAt
    <2>8. Len(out) # Size
      BY <1>1, <1>2, <2>3
    <2>9. k < Len(symbols)
      <3>1. n \in Nat /\ i \in Nat /\ i < n
        BY <2>2 DEF CountPlaced
      <3> QED
        BY <2>3, <2>4, <2>5, <3>1
    <2> QED
      BY <2>7, <2>8, <2>9
  <1>7. CASE ByteAt(e, dec, k) /\ input.coder # "residuals"
    <2>1. e = 1 /\ k = 0 /\ dec.tree = "BYTE" /\ Before = 1 /\ k + 1 = 1
      BY <1>7 DEF ByteAt, Before
    <2>2. symbols[1].tree = "BYTE" /\ Len(symbols) >= 1
      BY <2>1 DEF Laid, Symbol
    <2>3. Size \in Nat \ {0}
      BY InputTyped DEF Size
    <2>4. Len(out) # Size
      BY <1>1, <2>1, <2>3
    <2> QED
      BY <2>1, <2>2, <2>4
  <1>8. CASE CountAt(p, g, e, dec, k, symbols) /\ input.coder # "residuals"
    <2>1. PICK tree : tree = RunTree(input.data[e]) /\ tree = dec.tree
      BY <1>8 DEF CountAt
    <2>2. PICK b, s, t, n, v, i :
            /\ RunOf(p, g, e, b, s, t) /\ CountPlaced(s, n, v, tree, Unskipped(e, b), symbols)
            /\ t = s + n
            /\ i \in 0 .. n - 1 /\ k = s + i
      BY <1>8, <2>1 DEF CountAt
    <2>3. e \in 1 .. Size /\ s \in Nat /\ t <= Len(symbols)
      BY <2>2, RunFacts
    <2>4. i + 1 \in 1 .. n /\ k + 1 = s + (i + 1)
      BY <2>2, <2>3 DEF CountPlaced
    <2>5. symbols[k + 1].tree = tree
      BY <2>2, <2>4 DEF CountPlaced
    <2>6. Len(out) # Size
      BY <1>1, <1>2, <2>3
    <2>7. k < Len(symbols)
      <3>1. n \in Nat /\ i \in Nat /\ i < n
        BY <2>2 DEF CountPlaced
      <3> QED
        BY <2>2, <2>3, <3>1
    <2> QED
      BY <2>1, <2>5, <2>6, <2>7
  <1>9. CASE FlagAt(p, g, e, dec, k) /\ input.coder # "residuals"
    <2>1. PICK a, b, s : RunOf(p, g, a, b, s, k) /\ e <= b
      BY <1>9 DEF FlagAt
    <2>2. b \in 1 .. Size + 1 /\ RunStartsAt(p, g, b, k)
      BY <2>1, RunFacts
    <2>3. b = Size + 1 => k = Len(symbols)
      BY <2>2, PlaceFacts
    <2>4. Len(out) = Size => b = Size + 1
      BY <1>1, <1>2, <2>1, <2>2
    <2>5. dec.tree = "NONE"
      BY <1>9 DEF FlagAt
    <2> QED
      BY <2>3, <2>4, <2>5
  <1> QED
    BY <1>1, <1>4, <1>5, <1>6, <1>7, <1>8, <1>9 DEF DecoderAt
(* What is taken next, when k symbols have been. *)
LEMMA TakenNext ==
  ASSUME NEW p, NEW g, NEW k, Known(p, g, k), Decoding, dec.tree # "NONE", dec.tree = "LSB" => dec.run = 0,
         NEW got \in Got, Take(got), input' = input, symbols' = symbols, chunk' = chunk
  PROVE  /\ k \in Nat /\ k + 1 \in 0 .. Len(symbols) /\ SourceAt(k + 1)'
         /\ got.symbol = symbols[k + 1].symbol /\ got.symbol \in 0 .. MAX_SYMBOL - 1
  <1>1. k \in 0 .. Len(symbols) /\ symbols \in Seq(CodedSymbols) /\ SourceAt(k)
    BY DEF Known
  <1>2. Len(out) < Size
    <2>1. Size \in Nat
      BY InputTyped DEF Known, Size
    <2> QED
      BY <2>1 DEF Known, Written, Decoding, Element
  <1>3. k < Len(symbols) /\ dec.tree = symbols[k + 1].tree
    BY <1>1, <1>2, WhileReading DEF Known
  <1>4. k + 1 \in 1 .. Len(symbols) /\ got.symbol = symbols[k + 1].symbol /\ SourceAt(k + 1)'
    BY <1>1, <1>3, TakeNext
  <1>5. symbols[k + 1] \in CodedSymbols
    BY <1>1, <1>4, ElementOf
  <1>6. symbols[k + 1].symbol \in 0 .. MAX_SYMBOL - 1
    BY <1>5 DEF CodedSymbols
  <1> QED
    BY <1>1, <1>4, <1>6

LEMMA PelDone ==
  ASSUME Proper(input), Codable(input), input.coder = "residuals", Decoding, Written, DecTyped(dec),
         NEW p, NEW g, Laid(p, g, symbols),
         NEW b, NEW s, NEW t, RunOf(p, g, Element, b, s, t),
         dec.run = 0, input' = input,
         NEW symbol, More(symbol) <=> b - Element - 1 > 0, DecodePel(symbol, input.data[Element])
  PROVE  /\ Written' /\ DecTyped(dec')
         /\ DecoderAt(p, g, Element', dec', s + SymbolsIn(input.data[Element]), symbols)
  <1>1. PICK e : e = Element /\ e \in 1 .. Size /\ e \in Nat /\ Size \in Nat
    BY ElementRange
  <1>2. PICK r : r = input.data[e] /\ r \in Int
    BY <1>1, ElementTyped
  <1>3. b \in 1 .. Size + 1 /\ e < b /\ s \in Nat /\ t \in Nat /\ RunStartsAt(p, g, b, t)
    BY <1>1, RunFacts
  <1>4. PICK w \in {1, 2} : w = SymbolsIn(r)
    BY DEF SymbolsIn
  <1>5. /\ b = e + 1 => t = s + w
        /\ b # e + 1 => ZerosPlaced(s, t, r, b - e - 1, symbols)
    BY <1>1, <1>2, <1>4, ResidualsArePlaced DEF ResidualsPlaced
  <1>6. CASE More(symbol)
    <2>1. out' = out /\ dec' = [dec EXCEPT !.tree = "ZERO", !.value = r]
      BY <1>1, <1>2, <1>6 DEF DecodePel
    <2>2. DecTyped(dec') /\ dec'.tree = "ZERO" /\ dec'.value = r /\ dec'.run = 0
      BY <1>2, <2>1 DEF DecTyped, Trees
    <2>3. b # e + 1
      BY <1>1, <1>3, <1>6
    <2>4. PICK n, v : CountPlaced(s + w, n, v, "ZERO", b - e - 1, symbols) /\ t = s + w + n
      BY <1>4, <1>5, <2>3 DEF ZerosPlaced
    <2>5. 0 \in 0 .. n - 1 /\ v[0] = 0
      BY <2>4 DEF CountPlaced
    <2>6. s + w = s + w + 0
      BY <1>3
    <2>7. PICK d, k, i, z : d = dec' /\ k = s + w /\ i = 0 /\ z = b - e - 1
      OBVIOUS
    <2>8. ZerosAt(p, g, e, d, k, symbols)
      <3>1. d.tree = "ZERO" /\ d.value = input.data[e]
        BY <1>2, <2>2, <2>7
      <3>2. /\ RunOf(p, g, e, b, s, t) /\ b # e + 1 /\ z = b - e - 1
            /\ CountPlaced(s + SymbolsIn(input.data[e]), n, v, "ZERO", z, symbols)
            /\ t = s + SymbolsIn(input.data[e]) + n
            /\ i \in 0 .. n - 1 /\ k = s + SymbolsIn(input.data[e]) + i /\ d.run = v[i]
        BY <1>1, <1>2, <1>4, <2>2, <2>3, <2>4, <2>5, <2>6, <2>7
      <3> QED
        BY <3>1, <3>2 DEF ZerosAt
    <2>9. Written' /\ Element' = e
      BY <1>1, <2>1, NothingWritten
    <2> QED
      BY <1>1, <1>2, <1>4, <2>2, <2>7, <2>8, <2>9 DEF DecoderAt
  <1>7. CASE ~More(symbol)
    <2>1. out' = Append(out, r) /\ dec' = [dec EXCEPT !.tree = "LSB"]
      BY <1>1, <1>2, <1>7 DEF DecodePel
    <2>2. DecTyped(dec') /\ dec'.tree = "LSB" /\ dec'.run = 0
      BY <2>1 DEF DecTyped, Trees
    <2>3. Written' /\ Element' = e + 1
      BY <1>1, <1>2, <2>1, ElementWritten
    <2>4. b = e + 1 /\ t = s + w
      BY <1>1, <1>3, <1>5, <1>7
    <2>5. PICK d, k, f : d = dec' /\ k = s + w /\ f = e + 1
      OBVIOUS
    <2>6. LsbAt(p, g, f, d, k)
      <3>1. RunStartsAt(p, g, f, k) /\ f + d.run = f /\ \A x \in f .. f - 1 : input.data[x] = 0
        BY <1>1, <1>3, <2>2, <2>4, <2>5
      <3> QED
        BY <2>2, <2>5, <3>1 DEF LsbAt
    <2> QED
      BY <1>1, <1>2, <1>4, <2>2, <2>3, <2>5, <2>6 DEF DecoderAt
  <1> QED
    BY <1>6, <1>7

LEMMA ReadPelLsbStep ==
  ASSUME NEW p, NEW g, NEW k, Known(p, g, k), ReadPelLsb
  PROVE  KnownNext(p, g)
  <1>1. /\ input.coder = "residuals" /\ dec.tree = "LSB" /\ dec.run = 0 /\ Decoding
        /\ input' = input /\ symbols' = symbols /\ chunk' = chunk
    BY DEF ReadPelLsb, Reading
  <1>2. Proper(input) /\ Codable(input) /\ Written /\ DecTyped(dec) /\ Laid(p, g, symbols)
    BY DEF Known
  <1>3. PICK e : e = Element /\ e \in 1 .. Size /\ e \in Nat /\ Size \in Nat
    BY <1>1, <1>2, ElementRange
  <1>4. LsbAt(p, g, e, dec, k)
    BY <1>1, <1>3 DEF Known, DecoderAt, MsbAt, ZerosAt
  <1>5. RunStartsAt(p, g, e, k)
    <2>1. PICK b : RunStartsAt(p, g, b, k) /\ e + dec.run = b
      BY <1>4 DEF LsbAt
    <2>2. b = e
      BY <1>1, <1>3, <2>1
    <2> QED
      BY <2>1, <2>2
  <1>6. PICK b, t : RunOf(p, g, e, b, k, t)
    BY <1>2, <1>3, <1>5, PlaceFacts
  <1>7. PICK r : r = input.data[e] /\ r \in Int
    BY <1>2, <1>3, ElementTyped
  <1>8. PelPlaced(k, r, b - e - 1, symbols)
    BY <1>1, <1>2, <1>6, <1>7, ResidualsArePlaced DEF ResidualsPlaced
  <1>9. PICK got \in Got :
          /\ Take(got)
          /\ IF got.symbol % 2 = 1
               THEN dec' = [dec EXCEPT !.tree = "MSB", !.lsb = got.symbol] /\ UNCHANGED out
               ELSE DecodePel(got.symbol, (Low(got.symbol) - (Base \div 2)) \div 2)
    BY DEF ReadPelLsb
  <1>10. PICK y, k2 : /\ y = symbols[k + 1].symbol /\ y = got.symbol /\ y \in 0 .. MAX_SYMBOL - 1
                      /\ k2 = k + 1 /\ k2 \in 0 .. Len(symbols) /\ SourceAt(k2)'
    <2>1. /\ k + 1 \in 0 .. Len(symbols) /\ SourceAt(k + 1)'
          /\ got.symbol = symbols[k + 1].symbol /\ got.symbol \in 0 .. MAX_SYMBOL - 1
      BY <1>1, <1>9, TakenNext
    <2> QED
      BY <2>1
  <1>11. CASE Short(r)
    <2>1. y % 2 = 0 /\ (Low(y) - (Base \div 2)) \div 2 = r /\ (More(y) <=> b - e - 1 > 0)
      BY <1>8, <1>10, <1>11 DEF PelPlaced
    <2>2. DecodePel(y, r)
      BY <1>9, <1>10, <2>1
    <2>3. Written' /\ DecTyped(dec') /\ DecoderAt(p, g, Element', dec', k + SymbolsIn(r), symbols)
      BY <1>1, <1>2, <1>3, <1>6, <1>7, <2>1, <2>2, PelDone
    <2>4. k + SymbolsIn(r) = k2
      BY <1>10, <1>11 DEF SymbolsIn
    <2> QED
      BY <1>10, <2>3, <2>4 DEF KnownNext
  <1>12. CASE ~Short(r)
    <2>1. y % 2 = 1
      BY <1>8, <1>10, <1>12 DEF PelPlaced
    <2>2. dec' = [dec EXCEPT !.tree = "MSB", !.lsb = y] /\ out' = out
      BY <1>9, <1>10, <2>1
    <2>3. DecTyped(dec') /\ dec'.tree = "MSB" /\ dec'.lsb = y /\ dec'.run = 0
      BY <1>1, <1>2, <1>10, <2>2 DEF DecTyped, Trees
    <2>4. Written' /\ Element' = e
      BY <1>1, <1>2, <1>3, <2>2, NothingWritten
    <2>5. PICK d : d = dec'
      OBVIOUS
    <2>6. MsbAt(p, g, e, d, k2, symbols)
      BY <1>6, <1>7, <1>10, <1>12, <2>3, <2>5 DEF MsbAt
    <2> QED
      BY <1>1, <1>10, <2>3, <2>4, <2>5, <2>6 DEF KnownNext, DecoderAt
  <1> QED
    BY <1>11, <1>12

LEMMA ReadPelMsbStep ==
  ASSUME NEW p, NEW g, NEW k, Known(p, g, k), ReadPelMsb
  PROVE  KnownNext(p, g)
  <1>1. /\ input.coder = "residuals" /\ dec.tree = "MSB" /\ dec.run = 0 /\ Decoding
        /\ input' = input /\ symbols' = symbols /\ chunk' = chunk
    BY DEF ReadPelMsb, Reading
  <1>2. Proper(input) /\ Codable(input) /\ Written /\ DecTyped(dec) /\ Laid(p, g, symbols)
    BY DEF Known
  <1>3. PICK e : e = Element /\ e \in 1 .. Size /\ e \in Nat /\ Size \in Nat
    BY <1>1, <1>2, ElementRange
  <1>4. MsbAt(p, g, e, dec, k, symbols)
    BY <1>1, <1>3 DEF Known, DecoderAt, LsbAt, ZerosAt
  <1>5. PICK b, s, t : /\ RunOf(p, g, e, b, s, t) /\ ~Short(input.data[e])
                       /\ k = s + 1 /\ dec.lsb = symbols[s + 1].symbol
    BY <1>4 DEF MsbAt
  <1>6. PICK r : r = input.data[e] /\ r \in Int
    BY <1>2, <1>3, ElementTyped
  <1>7. PelPlaced(s, r, b - e - 1, symbols) /\ s \in Nat
    BY <1>1, <1>2, <1>5, <1>6, ResidualsArePlaced, RunFacts DEF ResidualsPlaced
  <1>8. PICK got \in Got :
          Take(got) /\ DecodePel(got.symbol, Low(got.symbol) * Base + (dec.lsb \div 2) - Offset)
    BY DEF ReadPelMsb
  <1>9. PICK y, k2 : /\ y = symbols[s + 2].symbol /\ y = got.symbol
                     /\ k2 = s + 2 /\ k2 \in 0 .. Len(symbols) /\ SourceAt(k2)'
    <2>1. k + 1 \in 0 .. Len(symbols) /\ SourceAt(k + 1)' /\ got.symbol = symbols[k + 1].symbol
      BY <1>1, <1>8, TakenNext
    <2>2. k + 1 = s + 2
      BY <1>5, <1>7
    <2> QED
      BY <2>1, <2>2
  <1>10. Low(y) * Base + (dec.lsb \div 2) - Offset = r /\ (More(y) <=> b - e - 1 > 0)
    BY <1>5, <1>6, <1>7, <1>9 DEF PelPlaced
  <1>11. DecodePel(y, r)
    BY <1>8, <1>9, <1>10
  <1>12. Written' /\ DecTyped(dec') /\ DecoderAt(p, g, Element', dec', s + SymbolsIn(r), symbols)
    BY <1>1, <1>2, <1>3, <1>5, <1>6, <1>10, <1>11, PelDone
  <1>13. s + SymbolsIn(r) = k2
    BY <1>5, <1>6, <1>9 DEF SymbolsIn
  <1> QED
    BY <1>9, <1>12, <1>13 DEF KnownNext

(* One more symbol of a count. *)
LEMMA CountGoesOn ==
  ASSUME NEW s \in Nat, NEW n, NEW v, NEW tree, NEW count, NEW all, CountPlaced(s, n, v, tree, count, all),
         NEW i \in 0 .. n - 1, NEW y, y = all[s + (i + 1)].symbol
  PROVE  /\ v[i] * Base + Low(y) = v[i + 1] /\ v[i + 1] \in Nat
         /\ More(y) => i + 1 \in 0 .. n - 1
         /\ ~More(y) => i + 1 = n /\ v[i + 1] = count
  <1>1. n \in Nat \ {0} /\ v \in [0 .. n -> Nat] /\ v[n] = count
    BY DEF CountPlaced
  <1>2. i + 1 \in 1 .. n /\ (i + 1) - 1 = i
    BY <1>1
  <1>3. v[i + 1] = v[(i + 1) - 1] * Base + Low(all[s + (i + 1)].symbol)
    BY <1>2 DEF CountPlaced
  <1>4. More(all[s + (i + 1)].symbol) <=> i + 1 < n
    BY <1>2 DEF CountPlaced
  <1> QED
    BY <1>1, <1>2, <1>3, <1>4

LEMMA ReadZerosStep ==
  ASSUME NEW p, NEW g, NEW k, Known(p, g, k), ReadZeros
  PROVE  KnownNext(p, g)
  <1>1. dec.tree = "ZERO" /\ Decoding /\ input' = input /\ symbols' = symbols /\ chunk' = chunk
    BY DEF ReadZeros
  <1>2. Proper(input) /\ Codable(input) /\ Written /\ DecTyped(dec) /\ Laid(p, g, symbols)
    BY DEF Known
  <1>3. PICK e : e = Element /\ e \in 1 .. Size /\ e \in Nat /\ Size \in Nat
    BY <1>1, <1>2, ElementRange
  <1>4. input.coder = "residuals" /\ ZerosAt(p, g, e, dec, k, symbols)
    BY <1>1, <1>3 DEF Known, DecoderAt, LsbAt, MsbAt, ByteAt, CountAt, FlagAt, RunTree
  <1>5. PICK w \in {1, 2} : w = SymbolsIn(input.data[e])
    BY DEF SymbolsIn
  <1>6. PICK b, s, t, n, v, i, z :
          /\ RunOf(p, g, e, b, s, t) /\ b # e + 1 /\ z = b - e - 1
          /\ CountPlaced(s + w, n, v, "ZERO", z, symbols)
          /\ t = s + w + n
          /\ i \in 0 .. n - 1 /\ k = s + w + i /\ dec.run = v[i]
    <2>1. PICK b, s, t, n, v, i, z :
            /\ RunOf(p, g, e, b, s, t) /\ b # e + 1 /\ z = b - e - 1
            /\ CountPlaced(s + SymbolsIn(input.data[e]), n, v, "ZERO", z, symbols)
            /\ t = s + SymbolsIn(input.data[e]) + n
            /\ i \in 0 .. n - 1 /\ k = s + SymbolsIn(input.data[e]) + i /\ dec.run = v[i]
      <3> HIDE <1>5
      <3> QED
        BY <1>4 DEF ZerosAt
    <2> QED
      BY <1>5, <2>1
  <1>7. /\ b \in 1 .. Size + 1 /\ e < b /\ s \in Nat /\ t \in Nat /\ RunStartsAt(p, g, b, t)
        /\ \A x \in e + 1 .. b - 1 : input.data[x] = 0
    BY <1>1, <1>2, <1>4, <1>6, RunFacts, ResidualsArePlaced DEF ResidualsPlaced
  <1>8. PICK u \in Nat : u = s + w
    BY <1>7
  <1>9. n \in Nat /\ i \in Nat
    BY <1>6 DEF CountPlaced
  <1>10. PICK got \in Got :
           /\ Take(got)
           /\ dec' = [dec EXCEPT !.run = @ * Base + Low(got.symbol),
                                 !.tree = IF More(got.symbol) THEN "ZERO" ELSE "LSB"]
           /\ out' = IF More(got.symbol) THEN out ELSE Append(out, dec.value)
    BY DEF ReadZeros
  <1>11. PICK y, k2 : /\ y = got.symbol /\ y = symbols[u + (i + 1)].symbol
                      /\ k2 = u + (i + 1) /\ k2 \in 0 .. Len(symbols) /\ SourceAt(k2)'
    <2>1. k + 1 \in 0 .. Len(symbols) /\ SourceAt(k + 1)' /\ got.symbol = symbols[k + 1].symbol
      BY <1>1, <1>10, TakenNext
    <2>2. k + 1 = u + (i + 1)
      BY <1>6, <1>7, <1>8, <1>9
    <2> QED
      BY <2>1, <2>2
  <1>12. /\ v[i] * Base + Low(y) = v[i + 1] /\ v[i + 1] \in Nat
         /\ More(y) => i + 1 \in 0 .. n - 1
         /\ ~More(y) => i + 1 = n /\ v[i + 1] = z
    BY <1>6, <1>8, <1>11, CountGoesOn, SMTT(30)
  <1>13. dec' = [dec EXCEPT !.run = v[i + 1], !.tree = IF More(y) THEN "ZERO" ELSE "LSB"]
    BY <1>6, <1>10, <1>11, <1>12
  <1>14. /\ DecTyped(dec') /\ dec'.run = v[i + 1] /\ dec'.value = dec.value
         /\ dec'.tree = IF More(y) THEN "ZERO" ELSE "LSB"
    BY <1>2, <1>12, <1>13 DEF DecTyped, Trees
  <1>15. PICK d : d = dec'
    OBVIOUS
  <1>16. CASE More(y)
    <2>1. Written' /\ Element' = e
      BY <1>1, <1>2, <1>3, <1>10, <1>11, <1>16, NothingWritten
    <2>2. ZerosAt(p, g, e, d, k2, symbols)
      <3>1. d.tree = "ZERO" /\ d.value = input.data[e]
        BY <1>4, <1>14, <1>15, <1>16 DEF ZerosAt
      <3>2. PICK j : j = i + 1 /\ j \in 0 .. n - 1 /\ k2 = u + j /\ d.run = v[j]
        BY <1>11, <1>12, <1>14, <1>15, <1>16
      <3> QED
        BY <1>5, <1>6, <1>8, <3>1, <3>2 DEF ZerosAt
    <2> QED
      BY <1>4, <1>11, <1>14, <1>15, <2>1, <2>2 DEF KnownNext, DecoderAt
  <1>17. CASE ~More(y)
    <2>1. out' = Append(out, input.data[e])
      BY <1>4, <1>10, <1>11, <1>17 DEF ZerosAt
    <2>2. Written' /\ Element' = e + 1
      BY <1>1, <1>2, <1>3, <2>1, ElementWritten
    <2>3. PICK f : f = e + 1
      OBVIOUS
    <2>4. LsbAt(p, g, f, d, k2)
      <3>1. k2 = t
        BY <1>6, <1>7, <1>8, <1>9, <1>11, <1>12, <1>17
      <3>2. f + d.run = b
        BY <1>3, <1>6, <1>7, <1>12, <1>14, <1>15, <1>17, <2>3
      <3>3. d.tree = "LSB"
        BY <1>14, <1>15, <1>17
      <3> QED
        BY <1>7, <2>3, <3>1, <3>2, <3>3 DEF LsbAt
    <2> QED
      BY <1>4, <1>11, <1>14, <1>15, <2>2, <2>3, <2>4 DEF KnownNext, DecoderAt
  <1> QED
    BY <1>16, <1>17

LEMMA WriteZeroStep ==
  ASSUME NEW p, NEW g, NEW k, Known(p, g, k), WriteZero
  PROVE  KnownNext(p, g)
  <1>1. dec.tree = "LSB" /\ dec.run > 0 /\ Decoding
        /\ input' = input /\ symbols' = symbols /\ chunk' = chunk /\ source' = source
    BY DEF WriteZero
  <1>2. Proper(input) /\ Codable(input) /\ Written /\ DecTyped(dec) /\ Laid(p, g, symbols)
        /\ k \in 0 .. Len(symbols) /\ SourceAt(k)
    BY DEF Known
  <1>3. PICK e : e = Element /\ e \in 1 .. Size /\ e \in Nat /\ Size \in Nat
    BY <1>1, <1>2, ElementRange
  <1>4. input.coder = "residuals" /\ LsbAt(p, g, e, dec, k)
    BY <1>1, <1>3 DEF Known, DecoderAt, ZerosAt, MsbAt, ByteAt, CountAt, FlagAt, RunTree
  <1>5. PICK run \in Nat : run = dec.run /\ run > 0
    BY <1>1, <1>2 DEF DecTyped
  <1>6. PICK b : RunStartsAt(p, g, b, k) /\ e + run = b /\ \A x \in e .. b - 1 : input.data[x] = 0
    BY <1>4, <1>5 DEF LsbAt
  <1>7. out' = Append(out, 0) /\ dec' = [dec EXCEPT !.run = run - 1]
    BY <1>5 DEF WriteZero
  <1>8. input.data[e] = 0
    <2>1. e \in e .. b - 1
      BY <1>3, <1>5, <1>6
    <2> QED
      BY <1>6, <2>1
  <1>9. Written' /\ Element' = e + 1
    BY <1>1, <1>2, <1>3, <1>7, <1>8, ElementWritten
  <1>10. DecTyped(dec') /\ dec'.run = run - 1 /\ dec'.tree = "LSB"
    BY <1>1, <1>2, <1>5, <1>7 DEF DecTyped
  <1>11. PICK d, f : d = dec' /\ f = e + 1
    OBVIOUS
  <1>12. LsbAt(p, g, f, d, k)
    <2>1. f + d.run = b
      BY <1>3, <1>5, <1>6, <1>10, <1>11
    <2>2. \A x \in f .. b - 1 : input.data[x] = 0
      BY <1>3, <1>5, <1>6, <1>11
    <2> QED
      BY <1>6, <1>10, <1>11, <2>1, <2>2 DEF LsbAt
  <1>13. SourceAt(k)'
    BY <1>1, <1>2, SourceStays
  <1> QED
    BY <1>2, <1>4, <1>9, <1>10, <1>11, <1>12, <1>13 DEF KnownNext, DecoderAt

-----------------------------------------------------------------------------
(* The decoders of masks.                                                  *)

LEMMA MaskTyped ==
  ASSUME Proper(input), Codable(input), input.coder # "residuals", NEW e \in 1 .. Size
  PROVE  input.data[e] \in {0, 1}
  BY DEF Codable, Size

(* The decoder is before the first symbol of a run's count. *)
LEMMA RunStarts ==
  ASSUME Proper(input), Codable(input), input.coder # "residuals",
         NEW p, NEW g, Laid(p, g, symbols),
         NEW e \in 1 .. Size, NEW s, RunStartsAt(p, g, e, s),
         NEW d, d.tree = RunTree(input.data[e]), d.value = input.data[e], d.run = 0, d.intra <=> IntraBefore(e)
  PROVE  CountAt(p, g, e, d, s, symbols)
  <1>1. Size \in Nat
    BY InputTyped DEF Size
  <1>2. PICK b, t : RunOf(p, g, e, b, s, t)
    BY <1>1, PlaceFacts
  <1>3. s \in Nat
    BY <1>2, RunFacts
  <1>4. PICK n, v : CountPlaced(s, n, v, RunTree(input.data[e]), Unskipped(e, b), symbols) /\ t = s + n
    BY <1>2, MasksArePlaced DEF CountsPlaced
  <1>5. PICK i : i = 0 /\ i \in 0 .. n - 1 /\ v[i] = 0
    BY <1>4 DEF CountPlaced
  <1>6. s = s + i /\ d.run = v[i]
    BY <1>3, <1>5
  <1> QED
    BY <1>2, <1>4, <1>5, <1>6 DEF CountAt

LEMMA ReadStartStep ==
  ASSUME NEW p, NEW g, NEW k, Known(p, g, k), ReadStart
  PROVE  KnownNext(p, g)
  <1>1. /\ input.coder # "residuals" /\ dec.tree = "BYTE" /\ Decoding
        /\ input' = input /\ symbols' = symbols /\ chunk' = chunk /\ out' = out
    BY DEF ReadStart, Reading
  <1>2. Proper(input) /\ Codable(input) /\ Written /\ DecTyped(dec) /\ Laid(p, g, symbols)
    BY DEF Known
  <1>3. PICK e : e = Element /\ e \in 1 .. Size
    BY <1>1, <1>2, ElementRange
  <1>4. e = 1 /\ k = 0 /\ dec.run = 0 /\ dec.intra = FALSE
    BY <1>1, <1>3 DEF Known, DecoderAt, ByteAt, CountAt, FlagAt, RunTree
  <1>5. PICK got \in Got :
          Take(got) /\ dec' = [dec EXCEPT !.value = got.symbol, !.tree = RunTree(got.symbol)]
    BY DEF ReadStart
  <1>6. k + 1 \in 0 .. Len(symbols) /\ SourceAt(k + 1)' /\ got.symbol = symbols[k + 1].symbol
    BY <1>1, <1>5, TakenNext
  <1>7. PICK x \in {0, 1} : x = input.data[1]
    BY <1>1, <1>2, <1>3, <1>4, MaskTyped
  <1>8. Before = 1 /\ symbols[1] = Symbol("BYTE", x)
    BY <1>1, <1>2, <1>7 DEF Laid, Before
  <1>9. got.symbol = x
    <2>1. k + 1 = 1
      BY <1>4
    <2> QED
      BY <1>6, <1>8, <2>1 DEF Symbol
  <1>10. DecTyped(dec') /\ dec'.value = x /\ dec'.tree = RunTree(x) /\ dec'.run = 0 /\ dec'.intra = FALSE
    <2>1. PICK r : r = RunTree(x) /\ r \in Trees
      BY DEF RunTree, Trees
    <2>2. dec' = [dec EXCEPT !.value = x, !.tree = r]
      BY <1>5, <1>9, <2>1
    <2>3. PICK A, B : A = Trees \cup {"NONE"} /\ B = 0 .. MAX_SYMBOL - 1
      OBVIOUS
    <2>4. dec \in [tree : A, lsb : B, value : Int, run : Nat, intra : BOOLEAN] /\ r \in A /\ x \in Int
      BY <1>2, <2>1, <2>3 DEF DecTyped
    <2>5. dec' \in [tree : A, lsb : B, value : Int, run : Nat, intra : BOOLEAN]
      BY <2>2, <2>4
    <2>6. dec'.value = x /\ dec'.tree = r /\ dec'.run = dec.run /\ dec'.intra = dec.intra
      BY <2>2, <2>4
    <2> QED
      BY <1>4, <2>1, <2>3, <2>5, <2>6 DEF DecTyped
  <1>11. PICK d : d = dec'
    OBVIOUS
  <1>12. CountAt(p, g, 1, d, 1, symbols)
    <2>1. RunStartsAt(p, g, 1, 1)
      BY <1>2, <1>8, FirstPlace
    <2>2. ~IntraBefore(1)
      BY <1>2, NotIntraFirst
    <2> QED
      BY <1>1, <1>2, <1>3, <1>4, <1>7, <1>10, <1>11, <2>1, <2>2, RunStarts
  <1>13. Written' /\ Element' = 1
    BY <1>1, <1>2, <1>3, <1>4, NothingWritten
  <1>14. 1 \in 0 .. Len(symbols) /\ SourceAt(1)'
    <2>1. k + 1 = 1
      BY <1>4
    <2> QED
      BY <1>6, <2>1
  <1> QED
    BY <1>1, <1>10, <1>11, <1>12, <1>13, <1>14 DEF KnownNext, DecoderAt

LEMMA ReadCountStep ==
  ASSUME NEW p, NEW g, NEW k, Known(p, g, k), ReadCount
  PROVE  KnownNext(p, g)
  <1>1. /\ dec.tree \in {"ZERO_RUN", "ONE_RUN"} /\ Decoding
        /\ input' = input /\ symbols' = symbols /\ chunk' = chunk /\ out' = out
    BY DEF ReadCount, RunTree
  <1>2. Proper(input) /\ Codable(input) /\ Written /\ DecTyped(dec) /\ Laid(p, g, symbols)
    BY DEF Known
  <1>3. PICK e : e = Element /\ e \in 1 .. Size /\ e \in Nat /\ Size \in Nat
    BY <1>1, <1>2, ElementRange
  <1>4. input.coder # "residuals" /\ CountAt(p, g, e, dec, k, symbols)
    BY <1>1, <1>3 DEF Known, DecoderAt, LsbAt, MsbAt, ZerosAt, ByteAt, FlagAt
  <1>5. PICK tree : tree = RunTree(input.data[e])
    OBVIOUS
  <1>6. PICK b, s, t, n, v, i :
          /\ RunOf(p, g, e, b, s, t)
          /\ CountPlaced(s, n, v, tree, Unskipped(e, b), symbols)
          /\ t = s + n
          /\ i \in 0 .. n - 1 /\ k = s + i /\ dec.run = v[i]
    BY <1>4, <1>5 DEF CountAt
  <1>7. s \in Nat /\ t \in Nat /\ b \in 1 .. Size + 1 /\ e < b
    BY <1>2, <1>6, RunFacts
  <1>8. n \in Nat /\ i \in Nat
    BY <1>6 DEF CountPlaced
  <1>9. PICK got \in Got :
          /\ Take(got)
          /\ dec' = [dec EXCEPT !.run = @ * Base + Low(got.symbol),
                                !.tree = IF More(got.symbol) THEN @ ELSE "NONE"]
    BY DEF ReadCount
  <1>10. PICK y, k2 : /\ y = got.symbol /\ y = symbols[s + (i + 1)].symbol
                      /\ k2 = s + (i + 1) /\ k2 \in 0 .. Len(symbols) /\ SourceAt(k2)'
    <2>1. k + 1 \in 0 .. Len(symbols) /\ SourceAt(k + 1)' /\ got.symbol = symbols[k + 1].symbol
      BY <1>1, <1>9, TakenNext
    <2>2. k + 1 = s + (i + 1)
      BY <1>6, <1>7, <1>8
    <2> QED
      BY <2>1, <2>2
  <1>11. /\ v[i] * Base + Low(y) = v[i + 1] /\ v[i + 1] \in Nat
         /\ More(y) => i + 1 \in 0 .. n - 1
         /\ ~More(y) => i + 1 = n /\ v[i + 1] = Unskipped(e, b)
    BY <1>6, <1>7, <1>10, CountGoesOn
  <1>12. dec' = [dec EXCEPT !.run = v[i + 1], !.tree = IF More(y) THEN dec.tree ELSE "NONE"]
    BY <1>6, <1>9, <1>10, <1>11
  <1>13. /\ DecTyped(dec') /\ dec'.run = v[i + 1] /\ dec'.value = dec.value /\ dec'.intra = dec.intra
         /\ dec'.tree = IF More(y) THEN dec.tree ELSE "NONE"
    BY <1>2, <1>11, <1>12 DEF DecTyped
  <1>14. PICK d : d = dec'
    OBVIOUS
  <1>15. Written' /\ Element' = e
    BY <1>1, <1>2, <1>3, NothingWritten
  <1>16. dec.tree = tree /\ dec.value = input.data[e] /\ (dec.intra <=> IntraBefore(e))
    BY <1>4, <1>5 DEF CountAt
  <1>17. CASE More(y)
    <2>1. CountAt(p, g, e, d, k2, symbols)
      <3>1. d.tree = tree /\ d.value = input.data[e] /\ (d.intra <=> IntraBefore(e))
        BY <1>13, <1>14, <1>16, <1>17
      <3>2. PICK j : j = i + 1 /\ j \in 0 .. n - 1 /\ k2 = s + j /\ d.run = v[j]
        BY <1>10, <1>11, <1>13, <1>14, <1>17
      <3> QED
        BY <1>5, <1>6, <3>1, <3>2 DEF CountAt
    <2> QED
      BY <1>4, <1>10, <1>13, <1>14, <1>15, <2>1 DEF KnownNext, DecoderAt
  <1>18. CASE ~More(y)
    <2>1. k2 = t
      BY <1>6, <1>10, <1>11, <1>18
    <2>2. d.tree = "NONE" /\ d.run = Unskipped(e, b) /\ d.value = input.data[e] /\ (d.intra <=> IntraBefore(e))
      BY <1>11, <1>13, <1>14, <1>16, <1>18
    <2>3. e <= e /\ e <= b
      BY <1>3, <1>7
    <2>4. FlagAt(p, g, e, d, k2)
      BY <1>6, <2>1, <2>2, <2>3 DEF FlagAt
    <2> QED
      BY <1>4, <1>10, <1>13, <1>14, <1>15, <2>4 DEF KnownNext, DecoderAt
  <1> QED
    BY <1>17, <1>18

(* Between two runs or within one, at element e. *)
LEMMA AtFlag ==
  ASSUME NEW p, NEW g, NEW k, Known(p, g, k), Decoding, dec.tree = "NONE"
  PROVE  /\ input.coder # "residuals" /\ k \in 0 .. Len(symbols) /\ SourceAt(k)
         /\ dec.intra \in BOOLEAN /\ (dec.intra <=> IntraBefore(Element))
         /\ Skipped(Element, dec.intra) <=> SkipAt(Element)
         /\ \E a, b, s : /\ RunOf(p, g, a, b, s, k) /\ a <= Element /\ Element <= b
                         /\ a \in 1 .. Size /\ b \in 1 .. Size + 1 /\ a < b
                         /\ dec.value = input.data[a] /\ dec.run = Unskipped(Element, b)
                         /\ Coupled(a, b, s, k, symbols) /\ RunStartsAt(p, g, b, k)
  <1>1. Proper(input) /\ Codable(input) /\ Written /\ DecTyped(dec) /\ Laid(p, g, symbols)
        /\ k \in 0 .. Len(symbols) /\ SourceAt(k)
    BY DEF Known
  <1>2. PICK e : e = Element /\ e \in 1 .. Size
    BY <1>1, ElementRange
  <1>3. input.coder # "residuals" /\ FlagAt(p, g, e, dec, k)
    BY <1>2 DEF Known, DecoderAt, LsbAt, MsbAt, ZerosAt, ByteAt, CountAt, RunTree
  <1>4. PICK a, b, s : /\ RunOf(p, g, a, b, s, k) /\ a <= e /\ e <= b
                       /\ dec.value = input.data[a] /\ dec.run = Unskipped(e, b)
    BY <1>3 DEF FlagAt
  <1>5. /\ a \in 1 .. Size /\ b \in 1 .. Size + 1 /\ a < b
        /\ Coupled(a, b, s, k, symbols) /\ RunStartsAt(p, g, b, k)
    BY <1>1, <1>4, RunFacts
  <1>6. dec.intra \in BOOLEAN /\ (dec.intra <=> IntraBefore(e))
    <2>1. dec.intra \in BOOLEAN
      BY <1>1 DEF DecTyped
    <2>2. dec.intra <=> IntraBefore(e)
      BY <1>3 DEF FlagAt
    <2> QED
      BY <2>1, <2>2
  <1>7. PICK f : f = dec.intra
    OBVIOUS
  <1>8. Skipped(e, f) <=> SkipAt(e)
    BY <1>1, <1>2, <1>6, <1>7, IntraNext
  <1> QED
    BY <1>1, <1>2, <1>3, <1>4, <1>5, <1>6, <1>7, <1>8

LEMMA FlipRunStep ==
  ASSUME NEW p, NEW g, NEW k, Known(p, g, k), FlipRun
  PROVE  KnownNext(p, g)
  <1>1. /\ Decoding /\ dec.tree = "NONE" /\ dec.run = 0 /\ ~Skipped(Element, dec.intra)
        /\ input' = input /\ symbols' = symbols /\ chunk' = chunk /\ out' = out /\ source' = source
    BY DEF FlipRun
  <1>2. Proper(input) /\ Codable(input) /\ Written /\ DecTyped(dec) /\ Laid(p, g, symbols)
    BY DEF Known
  <1>3. PICK e : e = Element /\ e \in 1 .. Size /\ e \in Nat /\ Size \in Nat
    BY <1>1, <1>2, ElementRange
  <1>4. /\ input.coder # "residuals" /\ k \in 0 .. Len(symbols) /\ SourceAt(k)
        /\ dec.intra <=> IntraBefore(e)
        /\ ~SkipAt(e)
    BY <1>1, <1>3, AtFlag
  <1>5. PICK a, b, s : /\ RunOf(p, g, a, b, s, k) /\ a <= e /\ e <= b
                       /\ a \in 1 .. Size /\ b \in 1 .. Size + 1 /\ a < b
                       /\ dec.value = input.data[a] /\ dec.run = Unskipped(e, b)
                       /\ Coupled(a, b, s, k, symbols) /\ RunStartsAt(p, g, b, k)
    BY <1>1, <1>3, AtFlag
  <1>6. b = e
    <2> SUFFICES ASSUME b # e PROVE FALSE
      OBVIOUS
    <2>1. b \in Nat /\ e + 1 \in Nat /\ e < b
      BY <1>3, <1>5
    <2>2. PICK x, y : x = Unskipped(e, b) /\ y = Unskipped(e + 1, b)
      OBVIOUS
    <2>3. x = y + (IF SkipAt(e) THEN 0 ELSE 1)
      BY <1>3, <2>1, <2>2, KeptSteps
    <2>4. y \in Nat
      BY <2>1, <2>2, KeptSteps
    <2> QED
      BY <1>1, <1>4, <1>5, <2>2, <2>3, <2>4
  <1>7. PICK x \in {0, 1}, y \in {0, 1} : x = input.data[a] /\ y = input.data[e]
    BY <1>2, <1>3, <1>4, <1>5, MaskTyped
  <1>8. y = 1 - x
    <2>1. y # x
      BY <1>3, <1>4, <1>5, <1>6, <1>7 DEF Coupled, Filler
    <2> QED
      BY <1>7, <2>1
  <1>9. dec' = [dec EXCEPT !.value = y, !.tree = RunTree(y)]
    <2>1. dec' = [dec EXCEPT !.value = 1 - dec.value, !.tree = RunTree(1 - dec.value)]
      BY DEF FlipRun
    <2> QED
      BY <1>5, <1>7, <1>8, <2>1
  <1>10. DecTyped(dec') /\ dec'.value = y /\ dec'.tree = RunTree(y) /\ dec'.run = 0 /\ dec'.intra = dec.intra
    <2>1. PICK r : r = RunTree(y) /\ r \in Trees
      BY DEF RunTree, Trees
    <2>2. dec' = [dec EXCEPT !.value = y, !.tree = r]
      BY <1>9, <2>1
    <2>3. PICK A, B : A = Trees \cup {"NONE"} /\ B = 0 .. MAX_SYMBOL - 1
      OBVIOUS
    <2>4. dec \in [tree : A, lsb : B, value : Int, run : Nat, intra : BOOLEAN] /\ r \in A /\ y \in Int
      BY <1>2, <2>1, <2>3 DEF DecTyped
    <2>5. dec' \in [tree : A, lsb : B, value : Int, run : Nat, intra : BOOLEAN]
      BY <2>2, <2>4
    <2>6. dec'.value = y /\ dec'.tree = r /\ dec'.run = dec.run /\ dec'.intra = dec.intra
      BY <2>2, <2>4
    <2> QED
      BY <1>1, <2>1, <2>3, <2>5, <2>6 DEF DecTyped
  <1>11. PICK d : d = dec'
    OBVIOUS
  <1>12. CountAt(p, g, e, d, k, symbols)
    <2>1. RunStartsAt(p, g, e, k) /\ d.tree = RunTree(input.data[e]) /\ d.value = input.data[e] /\ d.run = 0
          /\ (d.intra <=> IntraBefore(e))
      BY <1>4, <1>5, <1>6, <1>7, <1>10, <1>11
    <2> QED
      BY <1>2, <1>3, <1>4, <2>1, RunStarts
  <1>13. Written' /\ Element' = e
    BY <1>1, <1>2, <1>3, NothingWritten
  <1>14. SourceAt(k)'
    BY <1>1, <1>4, SourceStays
  <1> QED
    BY <1>4, <1>10, <1>11, <1>12, <1>13, <1>14 DEF KnownNext, DecoderAt

LEMMA WriteFlagStep ==
  ASSUME NEW p, NEW g, NEW k, Known(p, g, k), WriteFlag
  PROVE  KnownNext(p, g)
  <1>1. /\ Decoding /\ dec.tree = "NONE" /\ dec.run > 0 /\ ~Skipped(Element, dec.intra)
        /\ input' = input /\ symbols' = symbols /\ chunk' = chunk /\ source' = source
    BY DEF WriteFlag
  <1>2. Proper(input) /\ Codable(input) /\ Written /\ DecTyped(dec) /\ Laid(p, g, symbols)
    BY DEF Known
  <1>3. PICK e : e = Element /\ e \in 1 .. Size /\ e \in Nat /\ Size \in Nat
    BY <1>1, <1>2, ElementRange
  <1>4. PICK f : /\ input.coder # "residuals" /\ k \in 0 .. Len(symbols) /\ SourceAt(k)
                 /\ f = dec.intra /\ f \in BOOLEAN /\ (f <=> IntraBefore(e))
                 /\ ~SkipAt(e)
    BY <1>1, <1>3, AtFlag
  <1>5. PICK a, b, s : /\ RunOf(p, g, a, b, s, k) /\ a <= e /\ e <= b
                       /\ a \in 1 .. Size /\ b \in 1 .. Size + 1 /\ a < b
                       /\ dec.value = input.data[a] /\ dec.run = Unskipped(e, b)
                       /\ Coupled(a, b, s, k, symbols)
    BY <1>1, <1>3, AtFlag
  <1>6. e < b /\ b \in Nat
    <2>1. b \in Nat
      BY <1>3, <1>5
    <2>2. e = b => Unskipped(e, b) = 0
      BY <1>3, <2>1, KeptSteps
    <2> QED
      BY <1>1, <1>3, <1>5, <2>1, <2>2
  <1>7. PICK run \in Nat : dec.run = run + 1 /\ run = Unskipped(e + 1, b)
    <2>0. e + 1 \in Nat
      BY <1>3
    <2>1. PICK x, y : x = Unskipped(e, b) /\ y = Unskipped(e + 1, b)
      OBVIOUS
    <2>2. x = y + (IF SkipAt(e) THEN 0 ELSE 1)
      BY <1>3, <1>6, <2>1, KeptSteps
    <2>3. y \in Nat
      BY <1>6, <2>0, <2>1, KeptSteps
    <2> QED
      BY <1>4, <1>5, <2>1, <2>2, <2>3
  <1>8. PICK x \in {0, 1} : x = input.data[e] /\ x = dec.value
    <2>1. input.data[e] = input.data[a]
      <3>1. CASE e = a
        BY <3>1
      <3>2. CASE e # a
        <4>1. e \in a + 1 .. b - 1
          BY <1>3, <1>5, <1>6, <3>2
        <4> QED
          BY <1>4, <1>5, <4>1 DEF Coupled, Uniform, Filler
      <3> QED
        BY <3>1, <3>2
    <2> QED
      BY <1>2, <1>3, <1>4, <1>5, <2>1, MaskTyped
  <1>9. PICK w : w = IntraTile(e, x, f) /\ w \in BOOLEAN /\ (w <=> IntraBefore(e + 1))
    <2>1. /\ IntraTile(e, input.data[e], f) \in BOOLEAN
          /\ IntraTile(e, input.data[e], f) <=> IntraBefore(e + 1)
          /\ SkipAt(e) => (f <=> IntraBefore(e + 1))
          /\ Skipped(e, f) <=> SkipAt(e)
      BY <1>2, <1>3, <1>4, IntraNext
    <2> QED
      BY <1>8, <2>1
  <1>10. dec' = [dec EXCEPT !.run = run, !.intra = w]
    <2>1. dec' = [dec EXCEPT !.run = dec.run - 1, !.intra = IntraTile(e, dec.value, dec.intra)]
      BY <1>3 DEF WriteFlag
    <2>2. dec.run - 1 = run
      BY <1>7
    <2>3. IntraTile(e, dec.value, dec.intra) = w
      BY <1>4, <1>8, <1>9
    <2> QED
      BY <2>1, <2>2, <2>3
  <1>11. DecTyped(dec') /\ dec'.run = run /\ dec'.intra = w /\ dec'.tree = "NONE" /\ dec'.value = dec.value
    BY <1>1, <1>2, <1>9, <1>10 DEF DecTyped
  <1>12. out' = Append(out, x)
    BY <1>8 DEF WriteFlag
  <1>13. Written' /\ Element' = e + 1
    BY <1>1, <1>2, <1>3, <1>8, <1>12, ElementWritten
  <1>14. PICK d, h : d = dec' /\ h = e + 1
    OBVIOUS
  <1>15. FlagAt(p, g, h, d, k)
    <2>1. a <= h /\ h <= b
      BY <1>3, <1>5, <1>6, <1>14
    <2>2. d.tree = "NONE" /\ (d.intra <=> IntraBefore(h)) /\ d.value = input.data[a] /\ d.run = Unskipped(h, b)
      BY <1>5, <1>7, <1>9, <1>11, <1>14
    <2> QED
      BY <1>5, <2>1, <2>2 DEF FlagAt
  <1>16. SourceAt(k)'
    BY <1>1, <1>4, SourceStays
  <1> QED
    BY <1>4, <1>11, <1>13, <1>14, <1>15, <1>16 DEF KnownNext, DecoderAt

LEMMA WriteIntraStep ==
  ASSUME NEW p, NEW g, NEW k, Known(p, g, k), WriteIntra
  PROVE  KnownNext(p, g)
  <1>1. /\ Decoding /\ dec.tree = "NONE" /\ Skipped(Element, dec.intra)
        /\ input' = input /\ symbols' = symbols /\ chunk' = chunk /\ source' = source
        /\ dec' = dec /\ out' = Append(out, 1)
    BY DEF WriteIntra
  <1>2. Proper(input) /\ Codable(input) /\ Written /\ DecTyped(dec) /\ Laid(p, g, symbols)
    BY DEF Known
  <1>3. PICK e : e = Element /\ e \in 1 .. Size /\ e \in Nat /\ Size \in Nat
    BY <1>1, <1>2, ElementRange
  <1>4. PICK f : /\ input.coder # "residuals" /\ k \in 0 .. Len(symbols) /\ SourceAt(k)
                 /\ f = dec.intra /\ f \in BOOLEAN /\ (f <=> IntraBefore(e))
                 /\ SkipAt(e)
    BY <1>1, <1>3, AtFlag
  <1>5. PICK a, b, s : /\ RunOf(p, g, a, b, s, k) /\ a <= e /\ e <= b
                       /\ a \in 1 .. Size /\ b \in 1 .. Size + 1 /\ a < b
                       /\ dec.value = input.data[a] /\ dec.run = Unskipped(e, b)
                       /\ Coupled(a, b, s, k, symbols)
    BY <1>1, <1>3, AtFlag
  <1>6. e < b /\ b \in Nat
    <2>1. e # b
      BY <1>3, <1>4, <1>5 DEF Coupled
    <2> QED
      BY <1>3, <1>5, <2>1
  <1>7. Unskipped(e + 1, b) = Unskipped(e, b)
    <2>0. e + 1 \in Nat
      BY <1>3
    <2>1. PICK x, y : x = Unskipped(e, b) /\ y = Unskipped(e + 1, b)
      OBVIOUS
    <2>2. x = y + (IF SkipAt(e) THEN 0 ELSE 1)
      BY <1>3, <1>6, <2>1, KeptSteps
    <2>3. y \in Nat
      BY <1>6, <2>0, <2>1, KeptSteps
    <2> QED
      BY <1>4, <2>1, <2>2, <2>3
  <1>8. input.data[e] = 1
    <2>1. SkippedIn(input, e) /\ input.reduced
      BY <1>4 DEF SkipAt, SkippedIn, IntraIn
    <2> QED
      BY <1>2, <1>3, <2>1 DEF Codable, Size
  <1>9. f <=> IntraBefore(e + 1)
    <2>1. /\ IntraTile(e, input.data[e], f) \in BOOLEAN
          /\ IntraTile(e, input.data[e], f) <=> IntraBefore(e + 1)
          /\ SkipAt(e) => (f <=> IntraBefore(e + 1))
          /\ Skipped(e, f) <=> SkipAt(e)
      BY <1>2, <1>3, <1>4, IntraNext
    <2> QED
      BY <1>4, <2>1
  <1>10. Written' /\ Element' = e + 1
    BY <1>1, <1>2, <1>3, <1>8, ElementWritten
  <1>11. PICK h : h = e + 1
    OBVIOUS
  <1>12. FlagAt(p, g, h, dec, k)
    <2>1. a <= h /\ h <= b
      BY <1>3, <1>5, <1>6, <1>11
    <2>2. dec.tree = "NONE" /\ (dec.intra <=> IntraBefore(h)) /\ dec.value = input.data[a] /\ dec.run = Unskipped(h, b)
      <3>1. dec.intra <=> IntraBefore(h)
        BY <1>4, <1>9, <1>11
      <3>2. dec.tree = "NONE" /\ dec.value = input.data[a] /\ dec.run = Unskipped(h, b)
        BY <1>1, <1>5, <1>7, <1>11
      <3> QED
        BY <3>1, <3>2
    <2> QED
      BY <1>5, <2>1, <2>2 DEF FlagAt
  <1>13. SourceAt(k)'
    BY <1>1, <1>4, SourceStays
  <1> QED
    BY <1>1, <1>2, <1>4, <1>10, <1>11, <1>12, <1>13 DEF KnownNext, DecoderAt

-----------------------------------------------------------------------------
(* The inductive invariant.                                                *)

Progress ==
  \/ NothingSent /\ source = NoSource /\ dec = FirstRead(input.coder)
  \/ /\ symbols \in Seq(CodedSymbols)
     /\ \E p, g : /\ Laid(p, g, symbols)
                  /\ \E k \in 0 .. Len(symbols) : SourceAt(k) /\ DecoderAt(p, g, Element, dec, k, symbols)

Decoded == Written /\ DecTyped(dec) /\ Progress

Inv ==
  /\ Proper(input) /\ ScanTyped
  /\ phase \in {"encoding", "sent", "decoding"}
  /\ phase = "encoding" => Encoding
  /\ phase = "sent" => Undecoded /\ Delivered
  /\ phase = "decoding" => Decoded

(* What the theorems are about: surfaces of runs, until and unless they    *)
(* are sent with prefix codes of NoLength bits or more.                    *)
RunsFit == Codable(input) /\ ShortCodes

EncoderInv ==
  /\ phase = "encoding" => chunk = NoChunk
  /\ RunsFit => Inv

LEMMA FirstReadTyped ==
  ASSUME Proper(input)
  PROVE  DecTyped(FirstRead(input.coder))
  <1>1. 0 \in 0 .. MAX_SYMBOL - 1
    BY Quarters
  <1>2. PICK tree : tree = FirstTree(input.coder) /\ tree \in Trees
    BY DEF FirstTree, Trees
  <1> QED
    BY <1>1, <1>2 DEF FirstRead, DecTyped

LEMMA FreshInv ==
  Proper(input) /\ phase = "encoding" /\ Ready => EncoderInv
  <1> SUFFICES ASSUME Proper(input), phase = "encoding", Ready, RunsFit PROVE Inv
    BY DEF Ready, EncoderInv
  <1>2. Size \in Nat \ {0}
    BY InputTyped DEF Size
  <1>3. ~IntraBefore(1)
    BY NotIntraFirst
  <1>4. ScanTyped
    <2>1. scan = [pos |-> 1, value |-> 0, count |-> 0, intra |-> FALSE]
      BY DEF Ready, FirstScan
    <2>2. 1 \in 1 .. Size + 1 /\ 0 \in 0 .. Size
      BY <1>2
    <2> QED
      BY <2>1, <2>2 DEF ScanTyped
  <1>5. scan.pos = 1 /\ scan.intra = FALSE
    BY DEF Ready, FirstScan
  <1>6. EncoderAt
    BY <1>3, <1>5 DEF Ready, EncoderAt
  <1>7. Encoding
    BY <1>4, <1>6 DEF Ready, Encoding, Undecoded
  <1> QED
    BY <1>4, <1>7 DEF Inv

LEMMA Starts ==
  Init => EncoderInv
  BY FreshInv, InputsAssumption DEF Init, Proper

LEMMA InputKept ==
  ASSUME [Next]_vars
  PROVE  input' = input
  BY DEF Next, vars, EncodeFirst, EncodeSkipped, ExtendRun, EmitRun, FinishRuns, EncodeSize, AbortSize,
     FinishSizes, StartSource, DecodeConstant, ReadPelLsb, ReadPelMsb, ReadZeros, WriteZero, ReadStart,
     ReadCount, FlipRun, WriteFlag, WriteIntra, ReadSizeLsb, ReadSizeMsb, WriteNoSize

(* A chunk is made once, and what is sent is sent. *)
LEMMA ChunkKept ==
  ASSUME [Next]_vars, phase = "encoding" => chunk = NoChunk
  PROVE  /\ (phase = "encoding" => chunk = NoChunk)'
         /\ (chunk' = chunk /\ symbols' = symbols) \/ chunk = NoChunk
  <1>1. CASE EncodeFirst \/ EncodeSkipped \/ ExtendRun \/ EmitRun \/ FinishRuns
    BY <1>1 DEF EncodeFirst, EncodeSkipped, ExtendRun, EmitRun, FinishRuns, Scanning
  <1>2. CASE EncodeSize \/ AbortSize \/ FinishSizes
    BY <1>2 DEF EncodeSize, AbortSize, FinishSizes, ScanningSizes, Scanning
  <1>3. CASE StartSource
    BY <1>3 DEF StartSource
  <1>4. CASE phase = "decoding" /\ phase' = phase /\ chunk' = chunk /\ symbols' = symbols
    BY <1>4
  <1>5. CASE UNCHANGED vars
    BY <1>5 DEF vars
  <1>6. CASE DecodeConstant \/ ReadPelLsb \/ ReadPelMsb \/ ReadZeros \/ WriteZero
    BY <1>4, <1>6 DEF DecodeConstant, ReadPelLsb, ReadPelMsb, ReadZeros, WriteZero, Reading, Decoding
  <1>7. CASE ReadStart \/ ReadCount \/ FlipRun \/ WriteFlag \/ WriteIntra
    BY <1>4, <1>7 DEF ReadStart, ReadCount, FlipRun, WriteFlag, WriteIntra, Reading, Decoding
  <1>8. CASE ReadSizeLsb \/ ReadSizeMsb \/ WriteNoSize
    BY <1>4, <1>8 DEF ReadSizeLsb, ReadSizeMsb, WriteNoSize, Reading, Decoding
  <1> QED
    BY <1>1, <1>2, <1>3, <1>5, <1>6, <1>7, <1>8 DEF Next

LEMMA ScanKept ==
  ASSUME ScanTyped, input' = input, scan' = scan
  PROVE  ScanTyped'
  BY InputSame DEF ScanTyped

(* After SymbolSource::start no symbol has been taken. *)
LEMMA SourceStarts ==
  ASSUME NEW places, NEW trees, Readable(chunk, symbols, places, trees), source = NoSource, StartSource
  PROVE  SourceAt(0)'
  <1>1. input' = input /\ symbols' = symbols /\ chunk' = chunk
    BY DEF StartSource
  <1>2. source' = [next |-> places[0], trees |-> trees, taken |-> 0]
    <2>1. CASE chunk.rle_only
      BY <2>1 DEF StartSource, Readable, NoSource
    <2>2. CASE ~chunk.rle_only
      <3>1. ReadTrees(chunk.bits, Len(States(input.coder))) = [next |-> places[0], trees |-> trees]
        BY <2>2 DEF Readable
      <3>2. chunk.enabled = TRUE
        BY DEF Readable
      <3>3. source' = [source EXCEPT !.next = places[0], !.trees = trees]
        BY <2>2, <3>1, <3>2 DEF StartSource
      <3> QED
        BY <3>3 DEF NoSource
    <2> QED
      BY <2>1, <2>2
  <1>3. PICK c, s : c = chunk /\ s = symbols
    OBVIOUS
  <1>4. Readable(c, s, places, trees)'
    BY <1>1, <1>3, SameReadable
  <1> QED
    BY <1>1, <1>2, <1>3, <1>4 DEF SourceAt

LEMMA StartSourceStep ==
  ASSUME Proper(input), Codable(input), Undecoded, Delivered, StartSource
  PROVE  Decoded'
  <1>1. input' = input /\ symbols' = symbols /\ chunk' = chunk /\ dec' = dec /\ out' = out
    BY DEF StartSource
  <1>3. source = NoSource /\ dec = FirstRead(input.coder) /\ out = <<>>
    BY DEF Undecoded
  <1>4. Size \in Nat
    BY InputTyped DEF Size
  <1>5. Written /\ Element = 1
    <2>1. <<>> \in Seq(Int) /\ Len(<<>>) = 0
      OBVIOUS
    <2> QED
      BY <1>3, <1>4, <2>1 DEF Written, RoundTrip, Element
  <1>6. Written' /\ Element' = 1
    BY <1>1, <1>5, NothingWritten
  <1>7. DecTyped(dec')
    BY <1>1, <1>3, FirstReadTyped
  <1>8. CASE NothingSent
    <2>1. NothingSent'
      BY <1>1, <1>8, InputSame DEF NothingSent
    <2>2. source' = source
      BY <1>8 DEF StartSource, NothingSent, NoChunk
    <2> QED
      BY <1>1, <1>3, <1>6, <1>7, <2>1, <2>2 DEF Decoded, Progress
  <1>9. CASE RunsSent
    <2>1. PICK p, g : Laid(p, g, symbols)
      BY <1>9 DEF RunsSent
    <2>2. symbols \in Seq(CodedSymbols)
      BY <2>1 DEF Laid
    <2>3. Laid(p, g, symbols)'
      BY <1>1, <2>1, SameLaid
    <2>4. SourceAt(0)'
      BY <1>3, <1>9, SourceStarts DEF RunsSent
    <2>5. PICK e, d, k : e = 1 /\ d = dec /\ k = 0
      OBVIOUS
    <2>6. d.run = 0 /\ d.intra = FALSE /\ d.tree = FirstTree(input.coder)
      BY <1>3, <2>5 DEF FirstRead
    <2>7. DecoderAt(p, g, e, d, k, symbols)
      <3>1. CASE input.coder = "residuals"
        <4>1. RunStartsAt(p, g, 1, 0)
          BY <2>1, <3>1, FirstPlace DEF Before
        <4>2. RunStartsAt(p, g, e, k) /\ e + d.run = e /\ \A x \in e .. e - 1 : input.data[x] = 0
          BY <2>5, <2>6, <4>1
        <4>3. d.tree = "LSB"
          BY <2>6, <3>1 DEF FirstTree
        <4>4. LsbAt(p, g, e, d, k)
          BY <4>2, <4>3 DEF LsbAt
        <4> QED
          BY <3>1, <4>4 DEF DecoderAt
      <3>2. CASE input.coder # "residuals"
        <4>1. d.tree = "BYTE"
          BY <2>6, <3>2 DEF FirstTree, Codable, RunCoders
        <4>2. ByteAt(e, d, k)
          BY <2>5, <2>6, <4>1 DEF ByteAt
        <4> QED
          BY <3>2, <4>2 DEF DecoderAt
      <3> QED
        BY <3>1, <3>2
    <2>8. DecoderAt(p, g, Element, dec, 0, symbols)'
      <3>1. DecoderAt(p, g, e, d, k, symbols)'
        BY <1>1, <2>7, SameAt
      <3> QED
        BY <1>1, <1>6, <2>5, <3>1
    <2>9. 0 \in 0 .. Len(symbols')
      BY <1>1, <2>2
    <2> QED
      BY <1>1, <1>6, <1>7, <2>2, <2>3, <2>4, <2>8, <2>9 DEF Decoded, Progress
  <1> QED
    BY <1>8, <1>9 DEF Delivered

LEMMA StaysKnown ==
  ASSUME NEW p, NEW g, NEW k, Known(p, g, k), KnownNext(p, g),
         input' = input, symbols' = symbols, chunk' = chunk
  PROVE  Decoded'
  <1>1. PICK n \in 0 .. Len(symbols) : SourceAt(n)' /\ DecoderAt(p, g, Element', dec', n, symbols)
    BY DEF KnownNext
  <1>2. Laid(p, g, symbols)' /\ symbols' \in Seq(CodedSymbols)
    BY SameLaid DEF Known
  <1>3. DecoderAt(p, g, Element, dec, n, symbols)'
    <2>1. PICK e, d : e = Element' /\ d = dec'
      OBVIOUS
    <2>2. DecoderAt(p, g, e, d, n, symbols)'
      BY <1>1, <2>1, SameAt
    <2> QED
      BY <2>1, <2>2
  <1>4. n \in 0 .. Len(symbols')
    BY <1>1
  <1> QED
    BY <1>1, <1>2, <1>3, <1>4 DEF Decoded, Progress, KnownNext

(* A step of a decoder that reads the chunk. *)
LEMMA ReadingStep ==
  ASSUME Proper(input), Codable(input), Decoded, phase = "decoding", Next, phase' = phase,
         ~DecodeConstant
  PROVE  Decoded'
  <1>0. /\ ReadPelLsb \/ ReadPelMsb \/ ReadZeros \/ WriteZero \/ ReadStart \/ ReadCount
           \/ FlipRun \/ WriteFlag \/ WriteIntra
        /\ input' = input /\ symbols' = symbols /\ chunk' = chunk
    <2>1. input.coder \notin SizeCoders
      BY DEF Codable, RunCoders, SizeCoders
    <2>2. ~EncodeFirst /\ ~EncodeSkipped /\ ~ExtendRun /\ ~EmitRun /\ ~EncodeSize /\ ~AbortSize
      BY DEF EncodeFirst, EncodeSkipped, ExtendRun, EmitRun, EncodeSize, AbortSize, ScanningSizes, Scanning
    <2>3. ~FinishRuns /\ ~FinishSizes /\ ~StartSource
      BY DEF FinishRuns, FinishSizes, StartSource
    <2>4. ~ReadSizeLsb /\ ~ReadSizeMsb /\ ~WriteNoSize
      BY <2>1 DEF ReadSizeLsb, ReadSizeMsb, WriteNoSize, Reading
    <2>5. ReadPelLsb \/ ReadPelMsb \/ ReadZeros \/ WriteZero \/ ReadStart \/ ReadCount
          \/ FlipRun \/ WriteFlag \/ WriteIntra
      BY <2>2, <2>3, <2>4 DEF Next
    <2>6. input' = input /\ symbols' = symbols /\ chunk' = chunk
      BY <2>5 DEF ReadPelLsb, ReadPelMsb, ReadZeros, WriteZero, ReadStart, ReadCount, FlipRun,
         WriteFlag, WriteIntra
    <2> QED
      BY <2>5, <2>6
  <1>1. CASE NothingSent /\ source = NoSource /\ dec = FirstRead(input.coder)
    <2>1. chunk.enabled = FALSE /\ dec.tree \in {"LSB", "BYTE"} /\ dec.run = 0
      BY <1>1 DEF NothingSent, NoChunk, FirstRead, FirstTree
    <2>2. ~ReadPelLsb /\ ~ReadPelMsb /\ ~ReadStart /\ ~ReadCount
      BY <2>1 DEF ReadPelLsb, ReadPelMsb, ReadStart, ReadCount, Reading
    <2>3. ~ReadZeros /\ ~FlipRun /\ ~WriteFlag /\ ~WriteIntra
      BY <2>1 DEF ReadZeros, FlipRun, WriteFlag, WriteIntra
    <2>4. ~WriteZero
      <3>1. ~(dec.run > 0)
        BY <2>1
      <3> QED
        BY <3>1 DEF WriteZero
    <2> QED
      BY <1>0, <2>2, <2>3, <2>4
  <1>2. CASE ~(NothingSent /\ source = NoSource /\ dec = FirstRead(input.coder))
    <2>1. PICK p, g, k : Known(p, g, k)
      <3>1. symbols \in Seq(CodedSymbols)
            /\ \E p, g : /\ Laid(p, g, symbols)
                         /\ \E k \in 0 .. Len(symbols) : SourceAt(k) /\ DecoderAt(p, g, Element, dec, k, symbols)
        BY <1>2 DEF Decoded, Progress
      <3>2. PICK p, g : /\ Laid(p, g, symbols)
                        /\ \E k \in 0 .. Len(symbols) : SourceAt(k) /\ DecoderAt(p, g, Element, dec, k, symbols)
        BY <3>1
      <3>3. PICK k \in 0 .. Len(symbols) : SourceAt(k) /\ DecoderAt(p, g, Element, dec, k, symbols)
        BY <3>2
      <3>4. Known(p, g, k)
        BY <3>1, <3>2, <3>3 DEF Known, Decoded
      <3> QED
        BY <3>4
    <2>2. KnownNext(p, g)
      BY <1>0, <2>1, ReadPelLsbStep, ReadPelMsbStep, ReadZerosStep, WriteZeroStep, ReadStartStep,
         ReadCountStep, FlipRunStep, WriteFlagStep, WriteIntraStep
    <2> QED
      BY <1>0, <2>1, <2>2, StaysKnown
  <1> QED
    BY <1>1, <1>2

LEMMA DecodeConstantStep ==
  ASSUME Proper(input), Decoded, DecodeConstant
  PROVE  Decoded'
  <1>1. /\ Decoding /\ ~chunk.enabled /\ out' = Append(out, 0)
        /\ input' = input /\ symbols' = symbols /\ chunk' = chunk /\ source' = source /\ dec' = dec
    BY DEF DecodeConstant
  <1>2. NothingSent /\ source = NoSource /\ dec = FirstRead(input.coder)
    BY <1>1 DEF Decoded, Progress, SourceAt, Readable
  <1>3. input.data[Element] = 0
    <2>1. Element \in 1 .. Size
      BY <1>1, ElementRange DEF Decoded
    <2> QED
      BY <1>2, <2>1 DEF NothingSent
  <1>4. Written'
    BY <1>1, <1>3, ElementWritten DEF Decoded
  <1>5. NothingSent'
    BY <1>1, <1>2, InputSame DEF NothingSent
  <1> QED
    BY <1>1, <1>2, <1>4, <1>5 DEF Decoded, Progress

LEMMA Stutters ==
  ASSUME Inv, UNCHANGED vars
  PROVE  Inv'
  <1>1. /\ input' = input /\ phase' = phase /\ scan' = scan /\ symbols' = symbols /\ chunk' = chunk
        /\ source' = source /\ dec' = dec /\ out' = out
    BY DEF vars
  <1>2. ScanTyped' /\ (Undecoded' <=> Undecoded)
    BY <1>1, ScanKept DEF Inv, Undecoded
  <1>3. Encoding => Encoding'
    <2> SUFFICES ASSUME Encoding PROVE Encoding'
      OBVIOUS
    <2>1. EncoderAt'
      <3>1. (scan.intra <=> IntraBefore(scan.pos))'
        <4>1. PICK k : k = scan.pos
          OBVIOUS
        <4>2. IntraBefore(k)' <=> IntraBefore(k)
          BY <1>1, InputSame
        <4> QED
          BY <1>1, <4>1, <4>2 DEF Encoding, EncoderAt
      <3>2. ASSUME scan.pos # 1 PROVE \E p, q : Log(p, q, symbols)' /\ Open(p[Len(p)])'
        <4>1. PICK p, q : Log(p, q, symbols) /\ Open(p[Len(p)])
          BY <3>2 DEF Encoding, EncoderAt
        <4>2. PICK a, b : a = p[Len(p)] /\ b = scan.pos
          OBVIOUS
        <4>3. (Uniform(a, b)' <=> Uniform(a, b)) /\ RunCount(a, b)' = RunCount(a, b) /\ Size' = Size
          BY <1>1, InputSame
        <4>4. Open(a)'
          BY <1>1, <4>1, <4>2, <4>3 DEF Open
        <4>5. Log(p, q, symbols)'
          BY <1>1, <4>1, InputSame
        <4> QED
          BY <4>2, <4>4, <4>5
      <3> QED
        BY <1>1, <3>1, <3>2 DEF Encoding, EncoderAt
    <2> QED
      BY <1>1, <1>2, <2>1 DEF Encoding
  <1>4. Delivered => Delivered'
    <2>1. NothingSent => NothingSent'
      BY <1>1, InputSame DEF NothingSent
    <2>2. ASSUME RunsSent PROVE RunsSent'
      <3>1. PICK places, trees : Readable(chunk, symbols, places, trees)
        BY <2>2 DEF RunsSent
      <3>2. PICK p, g : Laid(p, g, symbols)
        BY <2>2 DEF RunsSent
      <3>3. PICK c, s : c = chunk /\ s = symbols
        OBVIOUS
      <3>4. Readable(c, s, places, trees)' /\ Laid(p, g, s)'
        BY <1>1, <3>1, <3>2, <3>3, SameReadable, SameLaid
      <3> QED
        BY <1>1, <3>3, <3>4 DEF RunsSent
    <2> QED
      BY <2>1, <2>2 DEF Delivered
  <1>5. Decoded => Decoded'
    <2> SUFFICES ASSUME Decoded PROVE Decoded'
      OBVIOUS
    <2>1. Written' /\ Element' = Element /\ DecTyped(dec')
      BY <1>1, NothingWritten DEF Decoded
    <2>2. CASE NothingSent /\ source = NoSource /\ dec = FirstRead(input.coder)
      <3>1. NothingSent'
        BY <1>1, <2>2, InputSame DEF NothingSent
      <3> QED
        BY <1>1, <2>1, <2>2, <3>1 DEF Decoded, Progress
    <2>3. CASE ~(NothingSent /\ source = NoSource /\ dec = FirstRead(input.coder))
      <3>1. PICK p, g : /\ Laid(p, g, symbols) /\ symbols \in Seq(CodedSymbols)
                        /\ \E k \in 0 .. Len(symbols) : SourceAt(k) /\ DecoderAt(p, g, Element, dec, k, symbols)
        BY <2>3 DEF Decoded, Progress
      <3>2. PICK k \in 0 .. Len(symbols) : SourceAt(k) /\ DecoderAt(p, g, Element, dec, k, symbols)
        BY <3>1
      <3>3. PICK e, d : e = Element /\ d = dec
        OBVIOUS
      <3>4. DecoderAt(p, g, e, d, k, symbols)'
        BY <1>1, <3>2, <3>3, SameAt
      <3>5. DecoderAt(p, g, Element, dec, k, symbols)' /\ SourceAt(k)' /\ Laid(p, g, symbols)'
        BY <1>1, <2>1, <3>1, <3>2, <3>3, <3>4, SameLaid, SourceStays
      <3> QED
        BY <1>1, <2>1, <3>1, <3>5 DEF Decoded, Progress
    <2> QED
      BY <2>2, <2>3
  <1> QED
    BY <1>1, <1>2, <1>3, <1>4, <1>5 DEF Inv

LEMMA Continues ==
  ASSUME EncoderInv, [Next]_vars
  PROVE  EncoderInv'
  <1>1. input' = input
    BY InputKept
  <1>2. SUFFICES ASSUME RunsFit, ShortCodes' PROVE Inv'
    <2>1. /\ (phase = "encoding" => chunk = NoChunk)'
          /\ (chunk' = chunk /\ symbols' = symbols) \/ chunk = NoChunk
      BY ChunkKept DEF EncoderInv
    <2>2. RunsFit' => RunsFit /\ ShortCodes'
      <3>1. chunk = NoChunk => ShortCodes
        BY DEF ShortCodes, NoChunk
      <3>2. ASSUME chunk' = chunk, symbols' = symbols PROVE ShortCodes' => ShortCodes
        BY <1>1, <3>2 DEF ShortCodes, ShortCodesOf
      <3> QED
        BY <1>1, <2>1, <3>1, <3>2 DEF RunsFit
    <2> QED
      BY <1>1, <1>2, <2>1, <2>2 DEF EncoderInv
  <1>3. Inv /\ Codable(input) /\ ShortCodes' /\ Proper(input)
    BY <1>2 DEF EncoderInv, RunsFit, Inv
  <1>4. input.coder \notin SizeCoders
    BY <1>3 DEF Codable, RunCoders, SizeCoders
  <1>5. CASE UNCHANGED vars
    BY <1>3, <1>5, Stutters
  <1>6. CASE Next
    <2>1. CASE phase = "encoding"
      <3>1. Encoding
        BY <1>3, <2>1 DEF Inv
      <3>2. \/ EncodeFirst \/ EncodeSkipped \/ ExtendRun \/ EmitRun \/ FinishRuns
        <4>1. ~EncodeSize /\ ~AbortSize /\ ~FinishSizes
          BY <1>4 DEF EncodeSize, AbortSize, FinishSizes, ScanningSizes
        <4>2. ~StartSource /\ ~DecodeConstant /\ ~ReadPelLsb /\ ~ReadPelMsb /\ ~ReadZeros /\ ~WriteZero
          BY <2>1 DEF StartSource, DecodeConstant, ReadPelLsb, ReadPelMsb, ReadZeros, WriteZero,
             Reading, Decoding
        <4>3. ~ReadStart /\ ~ReadCount /\ ~FlipRun /\ ~WriteFlag /\ ~WriteIntra
          BY <2>1 DEF ReadStart, ReadCount, FlipRun, WriteFlag, WriteIntra, Reading, Decoding
        <4>4. ~ReadSizeLsb /\ ~ReadSizeMsb /\ ~WriteNoSize
          BY <2>1 DEF ReadSizeLsb, ReadSizeMsb, WriteNoSize, Reading, Decoding
        <4> QED
          BY <1>6, <4>1, <4>2, <4>3, <4>4 DEF Next
      <3>3. CASE FinishRuns
        BY <1>1, <1>3, <3>1, <3>3, FinishRunsStep DEF Inv
      <3>4. CASE ~FinishRuns
        <4>1. Encoding'
          BY <1>3, <3>1, <3>2, <3>4, EncodeFirstStep, EncodeSkippedStep, ExtendRunStep, EmitRunStep
        <4>2. phase' = phase
          BY <3>2, <3>4 DEF EncodeFirst, EncodeSkipped, ExtendRun, EmitRun
        <4> QED
          BY <2>1, <4>1, <4>2 DEF Inv, Encoding
      <3> QED
        BY <3>3, <3>4
    <2>2. CASE phase = "sent"
      <3>1. StartSource
        <4>1. ~EncodeFirst /\ ~EncodeSkipped /\ ~ExtendRun /\ ~EmitRun /\ ~FinishRuns
          BY <2>2 DEF EncodeFirst, EncodeSkipped, ExtendRun, EmitRun, FinishRuns, Scanning
        <4>2. ~EncodeSize /\ ~AbortSize /\ ~FinishSizes
          BY <2>2 DEF EncodeSize, AbortSize, FinishSizes, ScanningSizes, Scanning
        <4>3. ~DecodeConstant /\ ~ReadPelLsb /\ ~ReadPelMsb /\ ~ReadZeros /\ ~WriteZero
          BY <2>2 DEF DecodeConstant, ReadPelLsb, ReadPelMsb, ReadZeros, WriteZero, Reading, Decoding
        <4>4. ~ReadStart /\ ~ReadCount /\ ~FlipRun /\ ~WriteFlag /\ ~WriteIntra
          BY <2>2 DEF ReadStart, ReadCount, FlipRun, WriteFlag, WriteIntra, Reading, Decoding
        <4>5. ~ReadSizeLsb /\ ~ReadSizeMsb /\ ~WriteNoSize
          BY <2>2 DEF ReadSizeLsb, ReadSizeMsb, WriteNoSize, Reading, Decoding
        <4> QED
          BY <1>6, <4>1, <4>2, <4>3, <4>4, <4>5 DEF Next
      <3>2. Decoded'
        BY <1>1, <1>3, <2>2, <3>1, StartSourceStep DEF Inv
      <3>3. phase' = "decoding" /\ ScanTyped'
        BY <1>1, <1>3, <3>1, ScanKept DEF StartSource, Inv
      <3> QED
        BY <1>1, <1>3, <3>2, <3>3 DEF Inv
    <2>3. CASE phase = "decoding"
      <3>1. Decoded
        BY <1>3, <2>3 DEF Inv
      <3>2. phase' = phase /\ scan' = scan
        <4>1. ~EncodeFirst /\ ~EncodeSkipped /\ ~ExtendRun /\ ~EmitRun /\ ~FinishRuns
          BY <2>3 DEF EncodeFirst, EncodeSkipped, ExtendRun, EmitRun, FinishRuns, Scanning
        <4>2. ~EncodeSize /\ ~AbortSize /\ ~FinishSizes /\ ~StartSource
          BY <2>3 DEF EncodeSize, AbortSize, FinishSizes, StartSource, ScanningSizes, Scanning
        <4> QED
          BY <1>6, <4>1, <4>2 DEF Next, DecodeConstant, ReadPelLsb, ReadPelMsb, ReadZeros, WriteZero,
             ReadStart, ReadCount, FlipRun, WriteFlag, WriteIntra, ReadSizeLsb, ReadSizeMsb, WriteNoSize
      <3>3. Decoded'
        <4>1. CASE DecodeConstant
          BY <1>1, <1>3, <3>1, <4>1, DecodeConstantStep
        <4>2. CASE ~DecodeConstant
          BY <1>1, <1>3, <1>6, <2>3, <3>1, <3>2, <4>2, ReadingStep
        <4> QED
          BY <4>1, <4>2
      <3>4. ScanTyped'
        BY <1>1, <1>3, <3>2, ScanKept DEF Inv
      <3> QED
        BY <1>1, <1>3, <2>3, <3>2, <3>3, <3>4 DEF Inv
    <2> QED
      BY <1>3, <2>1, <2>2, <2>3 DEF Inv
  <1> QED
    BY <1>5, <1>6

LEMMA AlwaysInv ==
  Spec => []EncoderInv
  <1>1. Init => EncoderInv
    BY Starts
  <1>2. EncoderInv /\ [Next]_vars => EncoderInv'
    BY Continues
  <1> QED
    BY <1>1, <1>2, PTL DEF Spec

-----------------------------------------------------------------------------
(* Results for runs.                                                       *)

(* Where the decoder is in the chunk, and the bits that are left. *)
LEMMA BitsLeft ==
  ASSUME symbols \in Seq(CodedSymbols), NEW k \in 0 .. Len(symbols), SourceAt(k)
  PROVE  /\ chunk \in [enabled : BOOLEAN, rle_only : BOOLEAN, bits : Seq({0, 1})]
         /\ source.next \in 1 .. Len(chunk.bits) + 1 /\ source.taken = k
         /\ k = Len(symbols) => Len(chunk.bits) - (source.next - 1) < SymbolBits
  <1>1. PICK places, trees : Readable(chunk, symbols, places, trees)
                             /\ source = [next |-> places[k], trees |-> trees, taken |-> k]
    BY DEF SourceAt
  <1>2. /\ chunk \in [enabled : {TRUE}, rle_only : BOOLEAN, bits : Seq(Bits)]
        /\ places \in [0 .. Len(symbols) -> 1 .. Len(chunk.bits) + 1]
        /\ Len(chunk.bits) - (places[Len(symbols)] - 1) < SymbolBits
    BY <1>1 DEF Readable
  <1>3. source.next = places[k] /\ source.taken = k
    BY <1>1
  <1> QED
    BY <1>2, <1>3 DEF Bits

(* An encoder that is not done, or has said that there is nothing. *)
LEMMA NothingRead ==
  ASSUME chunk = NoChunk, source = NoSource, Proper(input), dec = FirstRead(input.coder),
         symbols \in Seq(CodedSymbols)
  PROVE  /\ chunk \in [enabled : BOOLEAN, rle_only : BOOLEAN, bits : Seq({0, 1})]
         /\ source.next \in 1 .. Len(chunk.bits) + 1 /\ source.taken \in 0 .. Len(symbols)
         /\ source.taken = 0 /\ Len(chunk.bits) - (source.next - 1) = 0
         /\ DecTyped(dec)
  <1>1. PICK none : none = <<>> /\ none \in Seq({0, 1}) /\ Len(none) = 0
    <2>1. PICK A : A = {0, 1}
      OBVIOUS
    <2>2. <<>> \in Seq(A) /\ Len(<<>>) = 0
      OBVIOUS
    <2> QED
      BY <2>1, <2>2
  <1>2. chunk = [enabled |-> FALSE, rle_only |-> FALSE, bits |-> none]
    BY <1>1 DEF NoChunk
  <1>3. chunk \in [enabled : BOOLEAN, rle_only : BOOLEAN, bits : Seq({0, 1})]
    <2>1. PICK A : A = Seq({0, 1})
      OBVIOUS
    <2> QED
      BY <1>1, <1>2, <2>1
  <1>4. source.next = 1 /\ source.taken = 0
    BY DEF NoSource
  <1>5. Len(chunk.bits) = 0
    BY <1>1, <1>2
  <1> QED
    BY <1>3, <1>4, <1>5, FirstReadTyped

LEMMA ComesBack ==
  Inv => RoundTrip
  <1> SUFFICES ASSUME Inv PROVE RoundTrip
    OBVIOUS
  <1>1. CASE phase \in {"encoding", "sent"}
    <2>1. out = <<>>
      BY <1>1 DEF Inv, Encoding, Undecoded
    <2>2. Len(out) = 0
      BY <2>1
    <2> QED
      BY <2>2 DEF RoundTrip
  <1>2. CASE phase = "decoding"
    BY <1>2 DEF Inv, Decoded, Written
  <1> QED
    BY <1>1, <1>2 DEF Inv

LEMMA TreesFollow ==
  Inv /\ Codable(input) => TreesAgree
  <1> SUFFICES ASSUME Inv, Codable(input), phase = "decoding", Len(out) < Size, source.taken < Len(symbols),
                      dec.tree # "NONE", dec.tree = "LSB" => dec.run = 0
               PROVE  dec.tree = symbols[source.taken + 1].tree
    BY DEF TreesAgree
  <1>1. Decoded /\ Proper(input)
    BY DEF Inv
  <1>2. CASE NothingSent /\ source = NoSource
    <2>1. symbols = <<>> /\ source.taken = 0
      BY <1>2 DEF NothingSent, NoSource
    <2>2. Len(symbols) = 0
      BY <2>1
    <2> QED
      BY <2>1, <2>2
  <1>3. CASE ~(NothingSent /\ source = NoSource)
    <2>1. PICK p, g : /\ Laid(p, g, symbols) /\ symbols \in Seq(CodedSymbols)
                      /\ \E k \in 0 .. Len(symbols) : SourceAt(k) /\ DecoderAt(p, g, Element, dec, k, symbols)
      BY <1>1, <1>3 DEF Decoded, Progress
    <2>2. PICK k \in 0 .. Len(symbols) : SourceAt(k) /\ DecoderAt(p, g, Element, dec, k, symbols)
      BY <2>1
    <2>3. source.taken = k
      BY <2>2 DEF SourceAt
    <2>4. /\ Len(out) < Size /\ dec.tree # "NONE"
          /\ dec.tree = "LSB" => dec.run = 0
          => k < Len(symbols) /\ dec.tree = symbols[k + 1].tree
      BY <1>1, <2>1, <2>2, WhileReading DEF Decoded
    <2> QED
      BY <2>3, <2>4
  <1> QED
    BY <1>2, <1>3

LEMMA NothingIsLeft ==
  Inv /\ Codable(input) => SymbolsUsedUp
  <1> SUFFICES ASSUME Inv, Codable(input), phase = "decoding", Len(out) = Size
               PROVE  source.taken = Len(symbols) /\ Len(chunk.bits) - (source.next - 1) < SymbolBits
    BY DEF SymbolsUsedUp
  <1>1. Decoded /\ Proper(input) /\ SymbolBits \in Nat \ {0}
    BY Ranges DEF Inv
  <1>2. CASE NothingSent /\ source = NoSource /\ dec = FirstRead(input.coder)
    <2>1. symbols = <<>> /\ chunk = NoChunk
      BY <1>2 DEF NothingSent
    <2>2. symbols \in Seq(CodedSymbols) /\ Len(symbols) = 0
      BY <2>1
    <2>3. source.taken = 0 /\ Len(chunk.bits) - (source.next - 1) = 0
      BY <1>1, <1>2, <2>1, <2>2, NothingRead
    <2> QED
      BY <1>1, <2>2, <2>3
  <1>3. CASE ~(NothingSent /\ source = NoSource /\ dec = FirstRead(input.coder))
    <2>1. PICK p, g : /\ Laid(p, g, symbols) /\ symbols \in Seq(CodedSymbols)
                      /\ \E k \in 0 .. Len(symbols) : SourceAt(k) /\ DecoderAt(p, g, Element, dec, k, symbols)
      BY <1>1, <1>3 DEF Decoded, Progress
    <2>2. PICK k \in 0 .. Len(symbols) : SourceAt(k) /\ DecoderAt(p, g, Element, dec, k, symbols)
      BY <2>1
    <2>3. k = Len(symbols)
      BY <1>1, <2>1, <2>2, WhileReading DEF Decoded
    <2>4. source.taken = k /\ Len(chunk.bits) - (source.next - 1) < SymbolBits
      BY <2>1, <2>2, <2>3, BitsLeft
    <2> QED
      BY <1>1, <2>3, <2>4
  <1> QED
    BY <1>2, <1>3

LEMMA DataTyped ==
  ASSUME Inv
  PROVE  /\ symbols \in Seq(CodedSymbols)
         /\ chunk \in [enabled : BOOLEAN, rle_only : BOOLEAN, bits : Seq({0, 1})]
         /\ source.next \in 1 .. Len(chunk.bits) + 1 /\ source.taken \in 0 .. Len(symbols)
         /\ DecTyped(dec)
         /\ out \in Seq(Int) /\ Len(out) <= Size
  <1>1. Proper(input) /\ phase \in {"encoding", "sent", "decoding"} /\ Size \in Nat
    BY InputTyped DEF Inv, Size
  <1>2. <<>> \in Seq(CodedSymbols) /\ <<>> \in Seq(Int) /\ Len(<<>>) = 0
    OBVIOUS
  <1>3. CASE phase = "encoding"
    <2>1. Encoding
      BY <1>3 DEF Inv
    <2>2. chunk = NoChunk /\ source = NoSource /\ dec = FirstRead(input.coder) /\ out = <<>>
      BY <2>1 DEF Encoding, EncoderAt, Undecoded
    <2>3. symbols \in Seq(CodedSymbols)
      <3>1. CASE scan.pos = 1
        BY <1>2, <2>1, <3>1 DEF Encoding, EncoderAt
      <3>2. CASE scan.pos # 1
        BY <2>1, <3>2 DEF Encoding, EncoderAt, Log
      <3> QED
        BY <3>1, <3>2
    <2>4. out \in Seq(Int) /\ Len(out) <= Size
      BY <1>1, <1>2, <2>2
    <2> QED
      BY <1>1, <2>2, <2>3, <2>4, NothingRead
  <1>4. CASE phase = "sent"
    <2>1. Undecoded /\ Delivered
      BY <1>4 DEF Inv
    <2>2. source = NoSource /\ dec = FirstRead(input.coder) /\ out = <<>>
      BY <2>1 DEF Undecoded
    <2>3. out \in Seq(Int) /\ Len(out) <= Size
      BY <1>1, <1>2, <2>2
    <2>4. CASE NothingSent
      <3>1. chunk = NoChunk /\ symbols \in Seq(CodedSymbols)
        BY <1>2, <2>4 DEF NothingSent
      <3> QED
        BY <1>1, <2>2, <2>3, <3>1, NothingRead
    <2>5. CASE RunsSent
      <3>1. PICK places, trees : Readable(chunk, symbols, places, trees)
        BY <2>5 DEF RunsSent
      <3>2. symbols \in Seq(CodedSymbols)
        BY <2>5 DEF RunsSent, Laid
      <3>3. chunk \in [enabled : {TRUE}, rle_only : BOOLEAN, bits : Seq({0, 1})]
        BY <3>1 DEF Readable, Bits
      <3>4. source.next = 1 /\ source.taken = 0 /\ Len(symbols) \in Nat /\ Len(chunk.bits) \in Nat
        BY <2>2, <3>2, <3>3 DEF NoSource
      <3>5. source.next \in 1 .. Len(chunk.bits) + 1 /\ source.taken \in 0 .. Len(symbols)
        BY <3>4
      <3>6. DecTyped(dec)
        BY <1>1, <2>2, FirstReadTyped
      <3> QED
        BY <2>3, <3>2, <3>3, <3>5, <3>6
    <2> QED
      BY <2>1, <2>4, <2>5 DEF Delivered
  <1>5. CASE phase = "decoding"
    <2>1. Decoded
      BY <1>5 DEF Inv
    <2>2. DecTyped(dec) /\ out \in Seq(Int) /\ Len(out) <= Size
      BY <2>1 DEF Decoded, Written
    <2>3. CASE NothingSent /\ source = NoSource /\ dec = FirstRead(input.coder)
      <3>1. chunk = NoChunk /\ symbols \in Seq(CodedSymbols)
        BY <1>2, <2>3 DEF NothingSent
      <3> QED
        BY <1>1, <2>2, <2>3, <3>1, NothingRead
    <2>4. CASE ~(NothingSent /\ source = NoSource /\ dec = FirstRead(input.coder))
      <3>1. PICK p, g : /\ Laid(p, g, symbols) /\ symbols \in Seq(CodedSymbols)
                        /\ \E k \in 0 .. Len(symbols) : SourceAt(k) /\ DecoderAt(p, g, Element, dec, k, symbols)
        BY <2>1, <2>4 DEF Decoded, Progress
      <3>2. PICK k \in 0 .. Len(symbols) : SourceAt(k)
        BY <3>1
      <3>3. /\ chunk \in [enabled : BOOLEAN, rle_only : BOOLEAN, bits : Seq({0, 1})]
            /\ source.next \in 1 .. Len(chunk.bits) + 1 /\ source.taken = k
        BY <3>1, <3>2, BitsLeft
      <3> QED
        BY <2>2, <3>1, <3>2, <3>3
    <2> QED
      BY <2>3, <2>4
  <1> QED
    BY <1>1, <1>3, <1>4, <1>5

LEMMA AllTyped ==
  Inv => TypeOK
  <1> SUFFICES ASSUME Inv PROVE TypeOK
    OBVIOUS
  <1>1. /\ input \in InputTypes(input.data) /\ input.data \in Seq(Int) /\ ScanTyped
        /\ phase \in {"encoding", "sent", "decoding"}
    BY InputTyped DEF Inv
  <1>2. CodedSymbols = [tree : Trees, symbol : 0 .. MAX_SYMBOL - 1]
    BY DEF CodedSymbols
  <1>3. /\ symbols \in Seq([tree : Trees, symbol : 0 .. MAX_SYMBOL - 1])
        /\ chunk \in [enabled : BOOLEAN, rle_only : BOOLEAN, bits : Seq({0, 1})]
        /\ source.next \in 1 .. Len(chunk.bits) + 1 /\ source.taken \in 0 .. Len(symbols)
        /\ out \in Seq(Int) /\ Len(out) <= Size
    BY <1>2, DataTyped
  <1>4. dec \in [tree : Trees \cup {"NONE"}, lsb : 0 .. MAX_SYMBOL - 1, value : Int, run : Nat, intra : BOOLEAN]
    BY DataTyped DEF DecTyped
  <1>5. scan \in [pos : 1 .. Size + 1, value : Int, count : 0 .. Size, intra : BOOLEAN]
    BY <1>1 DEF ScanTyped
  <1>6. phase \in {"encoding", "sent", "decoding", "aborted"}
    BY <1>1
  <1> QED
    BY <1>1, <1>3, <1>4, <1>5, <1>6 DEF TypeOK

(* EntropyDecoder::decode undoes EntropyEncoder::finish: when a surface of *)
(* residuals in range, or of flags, is sent, raw or with prefix codes of   *)
(* less than NoLength bits, whichever is smaller or its layer asks for,    *)
(* every element that the decoder has written is the element that was      *)
(* coded, whatever the length of its runs, however many symbols a count    *)
(* takes, and with the tiles that reduced signalling leaves out.           *)
THEOREM RunsComeBack ==
  Spec => [](RunsFit => RoundTrip)
  <1>1. EncoderInv => (RunsFit => RoundTrip)
    BY ComesBack DEF EncoderInv
  <1> QED
    BY <1>1, AlwaysInv, PTL

(* The state machines of the decoders, which know only the symbols before, *)
(* follow those of the encoders: the symbol that is read next was written  *)
(* for the state that the decoder is in.                                   *)
THEOREM StatesAgree ==
  Spec => [](RunsFit => TreesAgree)
  <1>1. EncoderInv => (RunsFit => TreesAgree)
    BY TreesFollow DEF EncoderInv, RunsFit
  <1> QED
    BY <1>1, AlwaysInv, PTL

(* A decoder that has filled its surface has read all that was sent.       *)
THEOREM ChunkUsedUp ==
  Spec => [](RunsFit => SymbolsUsedUp)
  <1>1. EncoderInv => (RunsFit => SymbolsUsedUp)
    BY NothingIsLeft DEF EncoderInv, RunsFit
  <1> QED
    BY <1>1, AlwaysInv, PTL

(* Symbols are bytes, counts are at most as long as the surface, and the   *)
(* decoder's position is within the chunk.                                 *)
THEOREM CoderTyped ==
  Spec => [](RunsFit => TypeOK)
  <1>1. EncoderInv => (RunsFit => TypeOK)
    BY AllTyped DEF EncoderInv
  <1> QED
    BY <1>1, AlwaysInv, PTL

-----------------------------------------------------------------------------
(* Sizes of tiles.                                                         *)

(* What WriteSize makes of a number that has been read.                    *)
DecodedSize(r, range, prev) ==
  IF input.coder = "prefix" THEN r ELSE Uint16(prev + SignExtended(r, range))

LEMMA OneLong ==
  ASSUME NEW A, NEW x \in A
  PROVE  <<x>> \in Seq(A) /\ Len(<<x>>) = 1 /\ <<x>>[1] = x
  OBVIOUS

LEMMA TwoLong ==
  ASSUME NEW A, NEW x \in A, NEW y \in A
  PROVE  <<x, y>> \in Seq(A) /\ Len(<<x, y>>) = 2 /\ <<x, y>>[1] = x /\ <<x, y>>[2] = y
  OBVIOUS

LEMMA FloorDivision ==
  ASSUME NEW d \in Int, NEW b \in Nat \ {0}
  PROVE  /\ d % b \in 0 .. b - 1 /\ d \div b \in Int
         /\ d = b * (d \div b) + (d % b)
  OBVIOUS

(* A remainder shows the sign. *)
LEMMA SignedRemainder ==
  ASSUME NEW h \in Nat \ {0}, NEW d \in Int, -h <= d, d < h
  PROVE  /\ d % (2 * h) = IF d < 0 THEN d + 2 * h ELSE d
         /\ (2 * h) \div 2 = h
  <1>1. PICK m \in Nat \ {0} : m = 2 * h
    OBVIOUS
  <1>2. PICK q \in Int, r \in Nat : q = d \div m /\ r = d % m /\ d = m * q + r /\ r < m
    BY FloorDivision
  <1>3. q \in {-1, 0}
    <2>1. ~(0 < q)
      <3>1. 0 < q => m * 0 + m <= m * q
        BY Apart
      <3> QED
        BY <1>1, <1>2, <3>1
    <2>2. ~(q < -1)
      <3>1. q < -1 => m * q + m <= m * (-1)
        BY Apart
      <3> QED
        BY <1>1, <1>2, <3>1
    <2> QED
      BY <1>2, <2>1, <2>2
  <1>4. r = IF d < 0 THEN d + m ELSE d
    <2>1. CASE q = 0
      <3>1. d = r
        BY <1>2, <2>1
      <3> QED
        BY <1>2, <3>1
    <2>2. CASE q = -1
      <3>1. m * (-1) = -m
        OBVIOUS
      <3>2. d = r - m
        BY <1>2, <2>2, <3>1
      <3> QED
        BY <1>2, <3>2
    <2> QED
      BY <1>3, <2>1, <2>2
  <1>5. (2 * h) \div 2 = h
    OBVIOUS
  <1> QED
    BY <1>1, <1>2, <1>4, <1>5

(* A size and its limits. *)
LEMMA SixteenBits ==
  \E q \in Nat \ {0} :
    /\ q = Base * Base /\ 2 * Base * Base = 2 * q /\ 4 * Base * Base = 4 * q /\ -(Base * Base) = -q
    /\ \A v \in 0 .. 4 * q - 1 : Uint16(v) = v
    /\ \A v \in Int : Uint16(v) \in 0 .. 4 * q - 1
  <1>1. PICK b \in Nat \ {0} : b = Base
    BY Ranges
  <1>2. PICK q \in Nat \ {0} : q = b * b
    OBVIOUS
  <1>3. 2 * b * b = 2 * q /\ 4 * b * b = 4 * q
    <2>1. 2 * b * b = 2 * (b * b) /\ 4 * b * b = 4 * (b * b)
      OBVIOUS
    <2> QED
      BY <1>2, <2>1
  <1>4. PICK m \in Nat \ {0} : m = 4 * q
    OBVIOUS
  <1>5. \A v \in 0 .. m - 1 : v % m = v
    OBVIOUS
  <1>6. \A v \in Int : v % m \in 0 .. m - 1
    BY FloorDivision
  <1>7. \A v : Uint16(v) = v % m
    BY <1>1, <1>3, <1>4 DEF Uint16
  <1> QED
    BY <1>1, <1>2, <1>3, <1>4, <1>5, <1>6, <1>7

(* Symbols s + 1 up to t of all are a size of data.                        *)
SizeAt(x, s, t, prev, all) ==
  /\ s \in Nat /\ s + 1 <= Len(all) /\ all[s + 1].tree = "LSB"
  /\ \/ /\ t = s + 1 /\ all[s + 1].symbol % 2 = 0
        /\ DecodedSize(all[s + 1].symbol \div 2, Base, prev) = x
     \/ /\ t = s + 2 /\ t <= Len(all) /\ all[s + 1].symbol % 2 = 1 /\ all[s + 2].tree = "MSB"
        /\ DecodedSize((all[s + 1].symbol \div 2) + all[s + 2].symbol * Base, 2 * Base * Base, prev) = x

(* The symbols of a size that is not refused, with what was sent before it. *)
LEMMA SizeComesBack ==
  ASSUME input.coder \in SizeCoders,
         NEW cur \in 0 .. 4 * Base * Base - 1, NEW prev \in Int, NEW d,
         d = IF input.coder = "prefix" THEN cur ELSE cur - prev,
         IF input.coder = "prefix" THEN d < 2 * Base * Base ELSE -(Base * Base) <= d /\ d < Base * Base
  PROVE  /\ SizeSymbols(d) \in Seq(CodedSymbols)
         /\ Len(SizeSymbols(d)) \in {1, 2}
         /\ SizeAt(cur, 0, Len(SizeSymbols(d)), prev, SizeSymbols(d))
         /\ \A k \in 1 .. Len(SizeSymbols(d)) : SizeSymbols(d)[k].tree \in {"LSB", "MSB"}
  <1>1. PICK c \in Nat \ {0} : Base = 4 * c /\ Base \div 2 = 2 * c /\ MAX_SYMBOL = 8 * c
    BY Quarters
  <1>2. PICK b \in Nat \ {0}, h \in Nat \ {0} : b = Base /\ h = 2 * c /\ b = 2 * h /\ MAX_SYMBOL = 2 * b /\ Base \div 2 = h
    BY <1>1
  <1>3. PICK q \in Nat \ {0} :
          /\ q = b * b /\ 2 * Base * Base = 2 * q /\ 4 * Base * Base = 4 * q /\ -(Base * Base) = -q
          /\ \A v \in 0 .. 4 * q - 1 : Uint16(v) = v
    BY <1>2, SixteenBits
  <1>4. cur \in 0 .. 4 * q - 1 /\ prev \in Int /\ d \in Int
    BY <1>3
  <1>5. IF input.coder = "prefix" THEN d \in Nat /\ d = cur /\ d < 2 * q ELSE -q <= d /\ d < q /\ prev + d = cur
    BY <1>2, <1>3, <1>4
  <1>6. PICK k \in Int, r \in Nat : k = d \div b /\ r = d % b /\ d = b * k + r /\ r < b
    <2>1. d % b \in 0 .. b - 1 /\ d \div b \in Int /\ d = b * (d \div b) + (d % b)
      BY <1>4, FloorDivision
    <2>2. d % b \in Nat /\ d % b < b
      BY <2>1
    <2> QED
      BY <2>1, <2>2
  <1>7. Uint16(cur) = cur
    BY <1>3, <1>4
  <1>8. CASE OneSymbol(d)
    <2>1. PICK y \in Nat : y = 2 * r /\ y < MAX_SYMBOL /\ y % 2 = 0 /\ y \div 2 = r
      <3>1. 2 * r \in Nat /\ (2 * r) % 2 = 0 /\ (2 * r) \div 2 = r
        BY <1>6
      <3> QED
        BY <1>2, <1>6, <3>1
    <2>2. PICK s : s = SizeSymbols(d) /\ s = <<Symbol("LSB", y)>>
      BY <1>2, <1>6, <1>8, <2>1 DEF SizeSymbols
    <2>3. Symbol("LSB", y) \in CodedSymbols
      BY <2>1, <1>2 DEF Symbol, CodedSymbols, Trees
    <2>4. s \in Seq(CodedSymbols) /\ Len(s) = 1 /\ s[1] = Symbol("LSB", y)
      BY <2>2, <2>3, OneLong
    <2>5. s[1].tree = "LSB" /\ s[1].symbol = y
      BY <2>4 DEF Symbol
    <2>6. DecodedSize(r, Base, prev) = cur
      <3>1. CASE input.coder = "prefix"
        <4>1. d < b /\ 0 <= d
          BY <1>2, <1>4, <1>5, <1>8, <3>1 DEF OneSymbol
        <4>2. d % b = d
          BY <1>4, <4>1
        <4> QED
          BY <1>5, <1>6, <3>1, <4>2 DEF DecodedSize
      <3>2. CASE input.coder # "prefix"
        <4>1. -h <= d /\ d < h
          BY <1>2, <1>4, <1>8, <3>2 DEF OneSymbol
        <4>2. r = IF d < 0 THEN d + b ELSE d
          <5>1. d % (2 * h) = IF d < 0 THEN d + 2 * h ELSE d
            BY <1>4, <4>1, SignedRemainder
          <5> QED
            BY <1>2, <1>6, <5>1
        <4>3. SignExtended(r, b) = d
          BY <1>2, <1>4, <4>1, <4>2 DEF SignExtended
        <4> QED
          BY <1>2, <1>5, <1>7, <3>2, <4>3 DEF DecodedSize
      <3> QED
        BY <3>1, <3>2
    <2>7. SizeAt(cur, 0, 1, prev, s)
      BY <2>1, <2>4, <2>5, <2>6 DEF SizeAt
    <2>8. \A i \in 1 .. Len(s) : s[i].tree \in {"LSB", "MSB"}
      BY <2>4, <2>5
    <2> QED
      BY <2>2, <2>4, <2>7, <2>8
  <1>9. CASE ~OneSymbol(d)
    <2>1. PICK y \in Nat : y = 2 * r + 1 /\ y < MAX_SYMBOL /\ y % 2 = 1 /\ y \div 2 = r
      <3>1. 2 * r + 1 \in Nat /\ (2 * r + 1) % 2 = 1 /\ (2 * r + 1) \div 2 = r
        BY <1>6
      <3> QED
        BY <1>2, <1>6, <3>1
    <2>2. PICK z \in Nat : z = k % (2 * b) /\ z < MAX_SYMBOL
      <3>1. 2 * b \in Nat \ {0}
        OBVIOUS
      <3>2. k % (2 * b) \in 0 .. 2 * b - 1
        BY <3>1, FloorDivision
      <3> QED
        BY <1>2, <3>2
    <2>3. PICK s : s = SizeSymbols(d) /\ s = <<Symbol("LSB", y), Symbol("MSB", z)>>
      BY <1>2, <1>6, <1>9, <2>1, <2>2 DEF SizeSymbols
    <2>4. Symbol("LSB", y) \in CodedSymbols /\ Symbol("MSB", z) \in CodedSymbols
      BY <2>1, <2>2, <1>2 DEF Symbol, CodedSymbols, Trees
    <2>5. s \in Seq(CodedSymbols) /\ Len(s) = 2 /\ s[1] = Symbol("LSB", y) /\ s[2] = Symbol("MSB", z)
      <3>1. PICK A, u, v : A = CodedSymbols /\ u = Symbol("LSB", y) /\ v = Symbol("MSB", z)
        BY <2>4
      <3>2. s = <<u, v>> /\ u \in A /\ v \in A
        BY <2>3, <2>4, <3>1
      <3>3. s \in Seq(A) /\ Len(s) = 2 /\ s[1] = u /\ s[2] = v
        BY <3>1, <3>2, TwoLong
      <3> QED
        BY <3>1, <3>3
    <2>6. s[1].tree = "LSB" /\ s[1].symbol = y /\ s[2].tree = "MSB" /\ s[2].symbol = z
      BY <2>5 DEF Symbol
    <2>7. DecodedSize(r + z * Base, 2 * Base * Base, prev) = cur
      <3>1. CASE input.coder = "prefix"
        <4>1. 0 <= k
          <5>1. k < 0 => b * k + b <= b * 0
            BY Apart
          <5> QED
            BY <1>5, <1>6, <3>1, <5>1
        <4>2. k < 2 * b
          <5>1. 2 * b < k => b * (2 * b) + b <= b * k
            BY Apart
          <5>2. b * (2 * b) = 2 * q
            BY <1>3
          <5> QED
            BY <1>5, <1>6, <3>1, <5>1, <5>2
        <4>3. z = k
          BY <2>2, <4>1, <4>2
        <4>4. r + k * b = d
          BY <1>6
        <4> QED
          BY <1>2, <1>5, <3>1, <4>3, <4>4 DEF DecodedSize
      <3>2. CASE input.coder # "prefix"
        <4>1. -b <= k /\ k < b
          <5>1. k < -b => b * k + b <= b * (-b)
            BY Apart
          <5>2. b < k => b * b + b <= b * k
            BY Apart
          <5>3. b * (-b) = -q
            BY <1>3
          <5> QED
            BY <1>3, <1>5, <1>6, <3>2, <5>1, <5>2, <5>3
        <4>2. z = IF k < 0 THEN k + 2 * b ELSE k
          BY <2>2, <4>1, SignedRemainder
        <4>3. r + z * b = IF k < 0 THEN d + 2 * q ELSE d
          <5>1. (k + 2 * b) * b = b * k + 2 * (b * b) /\ k * b = b * k
            OBVIOUS
          <5> QED
            BY <1>3, <1>6, <4>2, <5>1
        <4>4. k < 0 <=> d < 0
          <5>1. k < 0 => b * k + b <= b * 0
            BY Apart
          <5>2. 0 <= k => 0 <= b * k
            OBVIOUS
          <5> QED
            BY <1>6, <5>1, <5>2
        <4>5. (2 * q) \div 2 = q
          OBVIOUS
        <4>6. SignExtended(r + z * b, 2 * q) = d
          BY <1>4, <1>5, <3>2, <4>3, <4>4, <4>5 DEF SignExtended
        <4> QED
          BY <1>2, <1>3, <1>5, <1>7, <3>2, <4>6 DEF DecodedSize
      <3> QED
        BY <3>1, <3>2
    <2>8. SizeAt(cur, 0, 2, prev, s)
      <3>1. 0 + 1 = 1 /\ 0 + 2 = 2 /\ 1 <= Len(s) /\ 2 <= Len(s)
        BY <2>5
      <3>2. DecodedSize((s[1].symbol \div 2) + s[2].symbol * Base, 2 * Base * Base, prev) = cur
        BY <2>1, <2>6, <2>7
      <3>3. s[1].symbol % 2 = 1
        BY <2>1, <2>6
      <3> QED
        BY <2>6, <3>1, <3>2, <3>3, ZenonT(30) DEF SizeAt
    <2>9. \A i \in 1 .. Len(s) : s[i].tree \in {"LSB", "MSB"}
      BY <2>5, <2>6
    <2> QED
      BY <2>3, <2>5, <2>8, <2>9
  <1> QED
    BY <1>8, <1>9

(* The sizes of the first n tiles take the symbols of all: p[i] of them    *)
(* those of the first i tiles, behind which the last size was v[i].        *)
SizeStep(i, s, t, prev, next, all) ==
  /\ i \in input.enabled => next = input.data[i] /\ SizeAt(input.data[i], s, t, prev, all)
  /\ i \notin input.enabled => t = s /\ next = prev

SizeStarts(k, all) == k \in 0 .. Len(all) /\ (k < Len(all) => all[k + 1].tree = "LSB")

SizesLog(n, p, v, all) ==
  /\ all \in Seq(CodedSymbols) /\ \A k \in 1 .. Len(all) : all[k].tree \in {"LSB", "MSB"}
  /\ p \in [0 .. n -> Nat] /\ v \in [0 .. n -> Int]
  /\ p[0] = 0 /\ v[0] = 0 /\ p[n] = Len(all)
  /\ \A i \in 0 .. n : SizeStarts(p[i], all)
  /\ \A i \in 1 .. n : SizeStep(i, p[i - 1], p[i], v[i - 1], v[i], all)

LEMMA SameSizes ==
  ASSUME input' = input
  PROVE  \A n, p, v, all : SizesLog(n, p, v, all)' <=> SizesLog(n, p, v, all)
  <1>1. \A r, range, prev : DecodedSize(r, range, prev)' = DecodedSize(r, range, prev)
    BY DEF DecodedSize
  <1>2. \A x, s, t, prev, all : SizeAt(x, s, t, prev, all)' <=> SizeAt(x, s, t, prev, all)
    BY <1>1 DEF SizeAt
  <1>3. \A i, s, t, prev, next, all : SizeStep(i, s, t, prev, next, all)' <=> SizeStep(i, s, t, prev, next, all)
    BY <1>2 DEF SizeStep
  <1> QED
    BY <1>3 DEF SizesLog

LEMMA NoSizes ==
  \E p, v : SizesLog(0, p, v, <<>>) /\ v[0] = 0
  <1>1. PICK p, all : p = [i \in 0 .. 0 |-> 0] /\ all = <<>>
    OBVIOUS
  <1>2. p \in [0 .. 0 -> Nat] /\ p \in [0 .. 0 -> Int] /\ p[0] = 0
    BY <1>1
  <1>3. all \in Seq(CodedSymbols) /\ Len(all) = 0
    BY <1>1
  <1>4. \A i \in 0 .. 0 : SizeStarts(p[i], all)
    <2>1. \A i \in 0 .. 0 : p[i] = 0
      BY <1>1
    <2> QED
      BY <1>3, <2>1 DEF SizeStarts
  <1>5. SizesLog(0, p, p, all)
    BY <1>2, <1>3, <1>4 DEF SizesLog
  <1> QED
    BY <1>1, <1>2, <1>5

(* Symbols stay where they are when more follow. *)
LEMMA SizeKept ==
  ASSUME NEW all \in Seq(CodedSymbols), NEW w \in Seq(CodedSymbols), NEW x, NEW s, NEW t, NEW prev
  PROVE  /\ SizeAt(x, s, t, prev, all) => SizeAt(x, s, t, prev, all \o w)
         /\ SizeAt(x, 0, t, prev, w) => SizeAt(x, Len(all), Len(all) + t, prev, all \o w)
  <1>1. PICK more : more = all \o w
    OBVIOUS
  <1>2. PICK m \in Nat, l \in Nat : m = Len(all) /\ l = Len(w)
    OBVIOUS
  <1>3. /\ Len(more) = m + l
        /\ \A i \in 1 .. m : more[i] = all[i]
        /\ \A i \in 1 .. l : more[m + i] = w[i]
    BY <1>1, <1>2, Concatenated
  <1>4. ASSUME SizeAt(x, s, t, prev, all) PROVE SizeAt(x, s, t, prev, more)
    <2>1. s \in Nat /\ s + 1 <= m
      BY <1>2, <1>4 DEF SizeAt
    <2>2. more[s + 1] = all[s + 1]
      BY <1>3, <2>1
    <2>3. t <= m /\ t = s + 2 => more[s + 2] = all[s + 2]
      BY <1>3, <2>1
    <2>4. s + 1 <= m + l /\ (t = s + 2 /\ t <= m => t <= m + l)
      BY <2>1
    <2> QED
      BY <1>2, <1>3, <1>4, <2>1, <2>2, <2>3, <2>4 DEF SizeAt
  <1>5. ASSUME SizeAt(x, 0, t, prev, w) PROVE SizeAt(x, m, m + t, prev, more)
    <2>1. 1 <= l
      BY <1>2, <1>5 DEF SizeAt
    <2>2. more[m + 1] = w[1]
      BY <1>3, <2>1
    <2>3. m + 1 <= m + l
      BY <2>1
    <2>4. CASE t = 1 /\ w[1].symbol % 2 = 0 /\ DecodedSize(w[1].symbol \div 2, Base, prev) = x
      BY <1>2, <1>3, <1>5, <2>2, <2>3, <2>4 DEF SizeAt
    <2>5. CASE /\ t = 2 /\ 2 <= l /\ w[1].symbol % 2 = 1 /\ w[2].tree = "MSB"
               /\ DecodedSize((w[1].symbol \div 2) + w[2].symbol * Base, 2 * Base * Base, prev) = x
      <3>1. more[m + 2] = w[2] /\ m + 2 <= m + l
        BY <1>3, <2>5
      <3> QED
        BY <1>2, <1>3, <1>5, <2>2, <2>3, <2>5, <3>1 DEF SizeAt
    <2> QED
      BY <1>2, <1>5, <2>4, <2>5 DEF SizeAt
  <1> QED
    BY <1>1, <1>2, <1>4, <1>5

(* The symbols w of tile i follow those of all. *)
SizeFollows(i, prev, x, all, w) ==
  /\ w \in Seq(CodedSymbols) /\ \A k \in 1 .. Len(w) : w[k].tree \in {"LSB", "MSB"}
  /\ Len(w) > 0 => w[1].tree = "LSB"
  /\ x \in Int /\ SizeStep(i, Len(all), Len(all) + Len(w), prev, x, all \o w)

LEMMA LogExtends ==
  ASSUME NEW n \in Nat, NEW p, NEW v, NEW all, SizesLog(n, p, v, all),
         NEW w, NEW x, SizeFollows(n + 1, v[n], x, all, w)
  PROVE  \E q, u : SizesLog(n + 1, q, u, all \o w) /\ u[n + 1] = x
  <1>1. PICK more : more = all \o w
    OBVIOUS
  <1>2. /\ all \in Seq(CodedSymbols) /\ w \in Seq(CodedSymbols) /\ x \in Int
        /\ \A k \in 1 .. Len(w) : w[k].tree \in {"LSB", "MSB"}
        /\ Len(w) > 0 => w[1].tree = "LSB"
        /\ SizeStep(n + 1, Len(all), Len(all) + Len(w), v[n], x, all \o w)
    BY DEF SizesLog, SizeFollows
  <1>3. PICK m \in Nat, l \in Nat : m = Len(all) /\ l = Len(w)
    BY <1>2
  <1>4. /\ more \in Seq(CodedSymbols) /\ Len(more) = m + l
        /\ \A i \in 1 .. m : more[i] = all[i]
        /\ \A i \in 1 .. l : more[m + i] = w[i]
    BY <1>1, <1>2, <1>3, Concatenated
  <1>5. \A k \in 1 .. m + l : more[k].tree \in {"LSB", "MSB"}
    <2> SUFFICES ASSUME NEW k \in 1 .. m + l PROVE more[k].tree \in {"LSB", "MSB"}
      OBVIOUS
    <2>1. CASE k <= m
      <3>1. k \in 1 .. m /\ more[k] = all[k]
        BY <1>4, <2>1
      <3> QED
        BY <1>3, <3>1 DEF SizesLog
    <2>2. CASE ~(k <= m)
      <3>1. PICK i \in 1 .. l : k = m + i
        <4>1. k - m \in 1 .. l /\ k = m + (k - m)
          BY <2>2
        <4> QED
          BY <4>1
      <3>2. more[k] = w[i]
        BY <1>4, <3>1
      <3> QED
        BY <1>2, <1>3, <3>2
    <2> QED
      BY <2>1, <2>2
  <1>6. PICK q, u : /\ q = [i \in 0 .. n + 1 |-> IF i <= n THEN p[i] ELSE m + l]
                    /\ u = [i \in 0 .. n + 1 |-> IF i <= n THEN v[i] ELSE x]
    OBVIOUS
  <1>7. p \in [0 .. n -> Nat] /\ v \in [0 .. n -> Int] /\ p[0] = 0 /\ v[0] = 0 /\ p[n] = m
    BY <1>3 DEF SizesLog
  <1>8. \A i \in 0 .. n : q[i] = p[i] /\ u[i] = v[i] /\ p[i] \in Nat /\ v[i] \in Int
    <2> SUFFICES ASSUME NEW i \in 0 .. n PROVE q[i] = p[i] /\ u[i] = v[i] /\ p[i] \in Nat /\ v[i] \in Int
      OBVIOUS
    <2>1. i \in 0 .. n + 1 /\ i <= n
      OBVIOUS
    <2>2. p[i] \in Nat /\ v[i] \in Int
      BY <1>7
    <2> QED
      BY <1>6, <2>1, <2>2
  <1>9. q[n + 1] = m + l /\ u[n + 1] = x
    BY <1>2, <1>6
  <1>10. q \in [0 .. n + 1 -> Nat] /\ u \in [0 .. n + 1 -> Int]
    <2>1. \A i \in 0 .. n + 1 : (IF i <= n THEN p[i] ELSE m + l) \in Nat /\ (IF i <= n THEN v[i] ELSE x) \in Int
      BY <1>2, <1>7
    <2> QED
      BY <1>6, <2>1
  <1>11. ASSUME NEW i \in 0 .. n + 1 PROVE SizeStarts(q[i], more)
    <2>1. CASE i = n + 1
      BY <1>4, <1>9, <2>1 DEF SizeStarts
    <2>2. CASE i # n + 1
      <3>1. i \in 0 .. n
        BY <2>2
      <3>2. PICK k : k = p[i] /\ k = q[i]
        BY <1>8, <3>1
      <3>3. k \in 0 .. m /\ (k < m => all[k + 1].tree = "LSB")
        BY <1>3, <3>1, <3>2 DEF SizesLog, SizeStarts
      <3>4. CASE k < m
        <4>1. k + 1 \in 1 .. m
          BY <3>3, <3>4
        <4>2. more[k + 1] = all[k + 1]
          BY <1>4, <4>1
        <4>3. k \in 0 .. m + l
          BY <3>3
        <4> QED
          BY <1>4, <3>2, <3>3, <3>4, <4>2, <4>3 DEF SizeStarts
      <3>5. CASE k = m
        <4>1. k < m + l => l > 0 /\ more[k + 1] = w[1]
          <5>1. k < m + l => 1 \in 1 .. l /\ l > 0
            BY <3>5
          <5>2. k < m + l => more[m + 1] = w[1]
            BY <1>4, <5>1
          <5> QED
            BY <3>5, <5>1, <5>2
        <4>2. k \in 0 .. m + l
          BY <3>3
        <4> QED
          BY <1>2, <1>3, <1>4, <3>2, <4>1, <4>2 DEF SizeStarts
      <3> QED
        BY <3>3, <3>4, <3>5
    <2> QED
      BY <2>1, <2>2
  <1>12. ASSUME NEW i \in 1 .. n + 1 PROVE SizeStep(i, q[i - 1], q[i], u[i - 1], u[i], more)
    <2>1. CASE i = n + 1
      <3>1. n \in 0 .. n /\ i - 1 = n
        BY <2>1
      <3>2. q[i - 1] = m /\ u[i - 1] = v[n] /\ q[i] = m + l /\ u[i] = x
        BY <1>7, <1>8, <1>9, <2>1, <3>1
      <3> QED
        BY <1>1, <1>2, <1>3, <2>1, <3>2
    <2>2. CASE i # n + 1
      <3>1. i \in 1 .. n /\ i \in 0 .. n /\ i - 1 \in 0 .. n
        BY <2>2
      <3>2. PICK s, t, prev, next : s = p[i - 1] /\ t = p[i] /\ prev = v[i - 1] /\ next = v[i]
        OBVIOUS
      <3>3. SizeStep(i, s, t, prev, next, all)
        BY <3>1, <3>2 DEF SizesLog
      <3>4. SizeStep(i, s, t, prev, next, more)
        BY <1>1, <1>2, <3>3, SizeKept DEF SizeStep
      <3> QED
        BY <1>8, <3>1, <3>2, <3>4
    <2> QED
      BY <2>1, <2>2
  <1>13. q[0] = 0 /\ u[0] = 0
    <2>1. 0 \in 0 .. n
      OBVIOUS
    <2> QED
      BY <1>7, <1>8, <2>1
  <1>14. SizesLog(n + 1, q, u, more)
    BY <1>4, <1>5, <1>9, <1>10, <1>11, <1>12, <1>13, ZenonT(60) DEF SizesLog
  <1> QED
    BY <1>1, <1>9, <1>14

(* Nothing is written for a tile without a size. *)
LEMMA LogSkips ==
  ASSUME NEW n \in Nat, NEW p, NEW v, NEW all, SizesLog(n, p, v, all), n + 1 \notin input.enabled
  PROVE  \E q, u : SizesLog(n + 1, q, u, all) /\ u[n + 1] = v[n]
  <1>1. PICK w : w = <<>>
    OBVIOUS
  <1>2. all \in Seq(CodedSymbols) /\ v \in [0 .. n -> Int]
    BY DEF SizesLog
  <1>3. w \in Seq(CodedSymbols) /\ Len(w) = 0 /\ all \o w = all
    BY <1>1, <1>2
  <1>4. PICK x \in Int : x = v[n]
    BY <1>2
  <1>5. Len(all) + Len(w) = Len(all)
    BY <1>2, <1>3
  <1>6. SizeStep(n + 1, Len(all), Len(all) + Len(w), v[n], x, all \o w)
    BY <1>4, <1>5 DEF SizeStep
  <1>7. ~(Len(w) > 0) /\ \A k \in 1 .. Len(w) : w[k].tree \in {"LSB", "MSB"}
    BY <1>3
  <1>8. \E q, u : SizesLog(n + 1, q, u, all \o w) /\ u[n + 1] = x
    <2>1. SizeFollows(n + 1, v[n], x, all, w)
      BY <1>3, <1>6, <1>7 DEF SizeFollows
    <2> QED
      BY <2>1, LogExtends
  <1> QED
    BY <1>3, <1>4, <1>8

(* What the coders of sizes are made for: sizes of 16 bits, where a tile   *)
(* without data has none.                                                  *)
Sized(i) ==
  /\ i.coder \in SizeCoders
  /\ \A k \in 1 .. Len(i.data) :
       /\ i.data[k] \in 0 .. 4 * Base * Base - 1
       /\ k \notin i.enabled => i.data[k] = 0

SizesEncoding ==
  /\ Proper(input) /\ ScanTyped /\ Undecoded /\ chunk = NoChunk
  /\ \E p, v : SizesLog(scan.pos - 1, p, v, symbols) /\ v[scan.pos - 1] = scan.value

SizesSent ==
  /\ \E places, trees : Readable(chunk, symbols, places, trees)
  /\ \E p, v : SizesLog(Size, p, v, symbols)

LEMMA SizesStay ==
  ASSUME SizesEncoding, input' = input, scan' = scan, symbols' = symbols, chunk' = chunk,
         source' = source, dec' = dec, out' = out
  PROVE  SizesEncoding'
  <1>1. PICK p, v : SizesLog(scan.pos - 1, p, v, symbols) /\ v[scan.pos - 1] = scan.value
    BY DEF SizesEncoding
  <1>2. PICK n, all : n = scan.pos - 1 /\ all = symbols
    OBVIOUS
  <1>3. SizesLog(n, p, v, all)'
    BY <1>1, <1>2, SameSizes
  <1>4. ScanTyped' /\ Undecoded' /\ Proper(input')
    BY ScanKept DEF SizesEncoding, Undecoded
  <1> QED
    BY <1>1, <1>2, <1>3, <1>4 DEF SizesEncoding

LEMMA EncodeSizeStep ==
  ASSUME SizesEncoding, Sized(input), EncodeSize
  PROVE  SizesEncoding' /\ phase' = phase
  <1>1. /\ input' = input /\ chunk' = chunk /\ source' = source /\ dec' = dec /\ out' = out /\ phase' = phase
        /\ input.coder \in SizeCoders /\ scan.pos <= Size
    BY DEF EncodeSize, ScanningSizes, Scanning
  <1>2. Size \in Nat /\ Proper(input)
    BY InputTyped DEF SizesEncoding, Size
  <1>3. PICK n \in Nat : n = scan.pos - 1 /\ n + 1 = scan.pos /\ n + 1 \in 1 .. Size
    <2>1. scan.pos \in 1 .. Size + 1
      BY DEF SizesEncoding, ScanTyped
    <2>2. scan.pos - 1 \in Nat /\ (scan.pos - 1) + 1 = scan.pos /\ scan.pos \in 1 .. Size
      BY <1>1, <1>2, <2>1
    <2> QED
      BY <2>2
  <1>4. PICK p, v, all : SizesLog(n, p, v, all) /\ v[n] = scan.value /\ all = symbols
    BY <1>3 DEF SizesEncoding
  <1>5. PICK cur : /\ cur = input.data[n + 1] /\ cur \in 0 .. 4 * Base * Base - 1
                   /\ n + 1 \notin input.enabled => cur = 0
    BY <1>3 DEF Sized, Size
  <1>6. CurrentSize = cur
    BY <1>3, <1>5, SixteenBits DEF CurrentSize, Current
  <1>7. PICK prev \in Int : prev = v[n] /\ prev = scan.value
    <2>1. v \in [0 .. n -> Int] /\ n \in 0 .. n
      BY <1>4 DEF SizesLog
    <2> QED
      BY <1>4, <2>1
  <1>8. \E q, u : SizesLog(n + 1, q, u, symbols') /\ u[n + 1] = scan'.value /\ scan'.pos = n + 2
    <2>1. CASE n + 1 \in input.enabled
      <3>1. PICK d : d = CodedSize
        OBVIOUS
      <3>2. d = IF input.coder = "prefix" THEN cur ELSE cur - prev
        BY <1>6, <1>7, <3>1 DEF CodedSize
      <3>3. IF input.coder = "prefix" THEN d < 2 * Base * Base ELSE -(Base * Base) <= d /\ d < Base * Base
        BY <1>3, <2>1, <3>1 DEF EncodeSize, SizeAccepted
      <3>4. PICK w : w = SizeSymbols(d)
        OBVIOUS
      <3>5. /\ w \in Seq(CodedSymbols) /\ Len(w) \in {1, 2}
            /\ SizeAt(cur, 0, Len(w), prev, w)
            /\ \A k \in 1 .. Len(w) : w[k].tree \in {"LSB", "MSB"}
        BY <1>1, <1>5, <3>2, <3>3, <3>4, SizeComesBack
      <3>6. symbols' = all \o w /\ scan' = [scan EXCEPT !.pos = @ + 1, !.value = cur]
        BY <1>3, <1>4, <1>6, <2>1, <3>1, <3>4 DEF EncodeSize
      <3>7. scan'.value = cur /\ scan'.pos = n + 2
        <4>1. scan \in [pos : 1 .. Size + 1, value : Int, count : 0 .. Size, intra : BOOLEAN]
          BY DEF SizesEncoding, ScanTyped
        <4>2. scan'.pos = scan.pos + 1 /\ scan'.value = cur
          BY <3>6, <4>1
        <4> QED
          BY <1>3, <4>2
      <3>8. all \in Seq(CodedSymbols)
        BY <1>4 DEF SizesLog
      <3>9. SizeAt(cur, Len(all), Len(all) + Len(w), prev, all \o w)
        BY <3>5, <3>8, SizeKept
      <3>10. w[1].tree = "LSB"
        BY <3>5 DEF SizeAt
      <3>11. SizeFollows(n + 1, prev, cur, all, w)
        <4>1. cur \in Int
          BY <1>5, SixteenBits
        <4> QED
          BY <1>5, <2>1, <3>5, <3>9, <3>10, <4>1 DEF SizeFollows, SizeStep
      <3>12. \E q, u : SizesLog(n + 1, q, u, all \o w) /\ u[n + 1] = cur
        BY <1>4, <1>7, <3>11, LogExtends
      <3> QED
        BY <3>6, <3>7, <3>12
    <2>2. CASE n + 1 \notin input.enabled
      <3>1. symbols' = all /\ scan' = [scan EXCEPT !.pos = @ + 1]
        BY <1>3, <1>4, <2>2 DEF EncodeSize
      <3>2. scan'.value = v[n] /\ scan'.pos = n + 2
        <4>1. scan \in [pos : 1 .. Size + 1, value : Int, count : 0 .. Size, intra : BOOLEAN]
          BY DEF SizesEncoding, ScanTyped
        <4>2. scan'.pos = scan.pos + 1 /\ scan'.value = scan.value
          BY <3>1, <4>1
        <4> QED
          BY <1>3, <1>4, <4>2
      <3>3. \E q, u : SizesLog(n + 1, q, u, all) /\ u[n + 1] = v[n]
        BY <1>4, <2>2, LogSkips
      <3> QED
        BY <3>1, <3>2, <3>3
    <2> QED
      BY <2>1, <2>2
  <1>9. PICK q, u : SizesLog(n + 1, q, u, symbols') /\ u[n + 1] = scan'.value /\ scan'.pos = n + 2
    BY <1>8
  <1>10. ScanTyped'
    <2>1. scan \in [pos : 1 .. Size + 1, value : Int, count : 0 .. Size, intra : BOOLEAN]
      BY DEF SizesEncoding, ScanTyped
    <2>2. Size' = Size /\ cur \in Int
      BY <1>1, <1>5, InputSame, SixteenBits
    <2>3. scan.pos + 1 \in 1 .. Size + 1
      BY <1>2, <1>3
    <2>4. \/ scan' = [scan EXCEPT !.pos = @ + 1, !.value = cur]
          \/ scan' = [scan EXCEPT !.pos = @ + 1]
      BY <1>6 DEF EncodeSize
    <2>5. scan' \in [pos : 1 .. Size + 1, value : Int, count : 0 .. Size, intra : BOOLEAN]
      BY <2>1, <2>2, <2>3, <2>4
    <2> QED
      BY <2>2, <2>5 DEF ScanTyped
  <1>11. PICK m, more : m = n + 1 /\ more = symbols'
    OBVIOUS
  <1>12. SizesLog(m, q, u, more)'
    BY <1>1, <1>9, <1>11, SameSizes
  <1>13. scan'.pos - 1 = m
    BY <1>9, <1>11
  <1> QED
    BY <1>1, <1>2, <1>9, <1>10, <1>11, <1>12, <1>13 DEF SizesEncoding, Undecoded

LEMMA FinishSizesStep ==
  ASSUME SizesEncoding, Sized(input), FinishSizes, ShortCodes'
  PROVE  (Proper(input) /\ ScanTyped /\ Undecoded /\ SizesSent)' /\ phase' = "sent"
  <1>1. /\ input' = input /\ symbols' = symbols /\ scan' = scan /\ source' = source /\ dec' = dec /\ out' = out
        /\ phase' = "sent" /\ scan.pos > Size /\ Sent(symbols)
    BY DEF FinishSizes
  <1>2. Size \in Nat /\ Proper(input)
    BY InputTyped DEF SizesEncoding, Size
  <1>3. scan.pos - 1 = Size
    <2>1. scan.pos \in 1 .. Size + 1
      BY DEF SizesEncoding, ScanTyped
    <2> QED
      BY <1>1, <1>2, <2>1
  <1>4. PICK p, v, all : SizesLog(Size, p, v, all) /\ all = symbols
    BY <1>3 DEF SizesEncoding
  <1>5. all \in Seq(CodedSymbols) /\ \A k \in 1 .. Len(all) : all[k].tree \in {"LSB", "MSB"}
    BY <1>4 DEF SizesLog
  <1>6. OfStates(all)
    <2>1. input.coder \in SizeCoders
      BY DEF Sized
    <2> QED
      BY <1>5, <2>1, StatesAre DEF OfStates
  <1>7. PICK c : c = chunk'
    OBVIOUS
  <1>8. c = PrefixChunk(all)
    <2>1. PICK prefix, raw : /\ prefix = Padded(Prefix(all, Tables(all)))
                             /\ chunk' = [enabled |-> TRUE, rle_only |-> IsRaw(prefix, raw),
                                          bits |-> IF IsRaw(prefix, raw) THEN raw ELSE prefix]
      BY <1>1, <1>4 DEF Sent
    <2>2. IsRaw(prefix, raw) = FALSE
      BY DEF IsRaw, Sized, SizeCoders
    <2> QED
      BY <1>7, <2>1, <2>2 DEF PrefixChunk
  <1>9. ShortCodesOf(all)
    <2>1. (chunk').enabled = TRUE /\ (chunk').rle_only = FALSE
      BY <1>7, <1>8 DEF PrefixChunk
    <2>2. ShortCodesOf(symbols)'
      BY <2>1 DEF ShortCodes
    <2> QED
      BY <1>1, <1>4, <2>2 DEF ShortCodesOf
  <1>10. PICK places, trees : Readable(c, all, places, trees)
    <2>1. input.coder \in RunCoders \cup SizeCoders
      BY DEF Sized
    <2> QED
      BY <1>5, <1>6, <1>8, <1>9, <2>1, PrefixReadable
  <1>11. Readable(c, all, places, trees)'
    BY <1>1, <1>10, SameReadable
  <1>12. PICK n : n = Size
    OBVIOUS
  <1>13. SizesLog(n, p, v, all)' /\ Size' = n
    BY <1>1, <1>4, <1>12, SameSizes, InputSame
  <1>14. SizesSent'
    BY <1>1, <1>4, <1>7, <1>11, <1>13 DEF SizesSent
  <1>15. ScanTyped' /\ Undecoded'
    BY <1>1, ScanKept DEF SizesEncoding, Undecoded
  <1> QED
    BY <1>1, <1>2, <1>14, <1>15

(* With e sizes written the decoder is before the symbols of the next one, *)
(* or between them.                                                        *)
BeforeSize(p, v, e, d) == d.tree = "LSB" /\ d.run = 0 /\ d.value = v[e] /\ SourceAt(p[e])

WithinSize(p, v, e, d, all) ==
  /\ d.tree = "MSB" /\ d.run = 0 /\ d.value = v[e] /\ SourceAt(p[e] + 1)
  /\ e < Size /\ e + 1 \in input.enabled
  /\ d.lsb = all[p[e] + 1].symbol /\ d.lsb % 2 = 1

SizesDecoded ==
  /\ Proper(input) /\ Written /\ DecTyped(dec)
  /\ \E p, v : /\ SizesLog(Size, p, v, symbols)
               /\ BeforeSize(p, v, Len(out), dec) \/ WithinSize(p, v, Len(out), dec, symbols)

(* What is known of tile e + 1. *)
LEMMA NextSize ==
  ASSUME Proper(input), Written, Decoding, NEW p, NEW v, NEW all, SizesLog(Size, p, v, all), NEW e, e = Len(out)
  PROVE  /\ e \in Nat /\ e < Size /\ e + 1 = Element /\ e + 1 \in 1 .. Size
         /\ p[e] \in Nat /\ p[e + 1] \in Nat /\ v[e] \in Int
         /\ SizeStarts(p[e], all) /\ SizeStarts(p[e + 1], all)
         /\ SizeStep(e + 1, p[e], p[e + 1], v[e], v[e + 1], all)
  <1>1. Size \in Nat
    BY InputTyped DEF Size
  <1>2. e \in Nat /\ e < Size /\ e + 1 = Element
    BY <1>1 DEF Written, Decoding, Element
  <1>3. PICK i \in 1 .. Size : i = e + 1 /\ i - 1 = e /\ i \in 0 .. Size /\ e \in 0 .. Size
    BY <1>1, <1>2
  <1>4. p \in [0 .. Size -> Nat] /\ v \in [0 .. Size -> Int]
    BY DEF SizesLog
  <1>5. SizeStep(i, p[i - 1], p[i], v[i - 1], v[i], all)
    BY <1>3 DEF SizesLog
  <1>6. SizeStarts(p[e], all) /\ SizeStarts(p[i], all)
    BY <1>3 DEF SizesLog
  <1>7. p[e] \in Nat /\ p[i] \in Nat /\ v[e] \in Int
    BY <1>3, <1>4
  <1> QED
    BY <1>2, <1>3, <1>5, <1>6, <1>7

(* Element e has been written. *)
LEMMA SizeWritten ==
  ASSUME SizesDecoded, Decoding, input' = input, symbols' = symbols, chunk' = chunk,
         NEW p, NEW v, SizesLog(Size, p, v, symbols),
         NEW e, e = Len(out), NEW x, x = input.data[e + 1], out' = Append(out, x),
         DecTyped(dec'), dec'.tree = "LSB", dec'.run = 0, dec'.value = v[e + 1], SourceAt(p[e + 1])'
  PROVE  SizesDecoded'
  <1>1. Proper(input) /\ Written /\ e + 1 = Element
    BY NextSize DEF SizesDecoded
  <1>2. Written'
    BY <1>1, ElementWritten
  <1>3. Len(out') = e + 1
    <2>1. out \in Seq(Int) /\ x \in Int
      <3>1. Element \in 1 .. Size
        BY <1>1, ElementRange
      <3> QED
        BY <1>1, <3>1, ElementTyped DEF Written
    <2> QED
      BY <2>1, Appended
  <1>4. PICK n, all : n = Size /\ all = symbols
    OBVIOUS
  <1>5. SizesLog(n, p, v, all)' /\ Size' = n
    BY <1>4, SameSizes, InputSame
  <1>6. PICK f, d : f = e + 1 /\ d = dec'
    OBVIOUS
  <1>7. BeforeSize(p, v, f, d)'
    BY <1>6 DEF BeforeSize
  <1> QED
    BY <1>1, <1>2, <1>3, <1>4, <1>5, <1>6, <1>7 DEF SizesDecoded

LEMMA WriteNoSizeStep ==
  ASSUME SizesDecoded, Sized(input), WriteNoSize
  PROVE  SizesDecoded'
  <1>1. /\ Decoding /\ Element \notin input.enabled /\ out' = Append(out, 0)
        /\ input' = input /\ symbols' = symbols /\ chunk' = chunk /\ source' = source /\ dec' = dec
    BY DEF WriteNoSize
  <1>2. PICK p, v : /\ SizesLog(Size, p, v, symbols)
                    /\ BeforeSize(p, v, Len(out), dec) \/ WithinSize(p, v, Len(out), dec, symbols)
    BY DEF SizesDecoded
  <1>3. PICK e : e = Len(out)
    OBVIOUS
  <1>4. /\ e + 1 = Element /\ e + 1 \in 1 .. Size /\ p[e] \in Nat
        /\ SizeStep(e + 1, p[e], p[e + 1], v[e], v[e + 1], symbols)
    BY <1>1, <1>2, <1>3, NextSize DEF SizesDecoded
  <1>5. p[e + 1] = p[e] /\ v[e + 1] = v[e]
    BY <1>1, <1>4 DEF SizeStep
  <1>6. BeforeSize(p, v, e, dec)
    BY <1>1, <1>2, <1>3, <1>4 DEF WithinSize
  <1>7. PICK k \in Nat : k = p[e]
    BY <1>4
  <1>8. SourceAt(k)
    BY <1>6, <1>7 DEF BeforeSize
  <1>9. SourceAt(k)'
    BY <1>1, <1>8, SourceStays
  <1>10. input.data[e + 1] = 0
    BY <1>1, <1>4 DEF Sized, Size
  <1>11. DecTyped(dec') /\ dec'.tree = "LSB" /\ dec'.run = 0 /\ dec'.value = v[e + 1]
    BY <1>1, <1>5, <1>6 DEF BeforeSize, SizesDecoded
  <1> QED
    BY <1>1, <1>2, <1>3, <1>5, <1>7, <1>9, <1>10, <1>11, SizeWritten

(* WriteSize, when what it writes is the size that was coded. *)
LEMMA SizeDone ==
  ASSUME SizesDecoded, Decoding, input' = input, symbols' = symbols, chunk' = chunk,
         NEW p, NEW v, SizesLog(Size, p, v, symbols), NEW e, e = Len(out), e + 1 \in input.enabled,
         dec.run = 0, dec.value = v[e], NEW r, NEW range, DecodedSize(r, range, v[e]) = input.data[e + 1],
         WriteSize(r, range), SourceAt(p[e + 1])'
  PROVE  SizesDecoded'
  <1>1. /\ e + 1 \in 1 .. Size /\ SizeStep(e + 1, p[e], p[e + 1], v[e], v[e + 1], symbols)
        /\ Proper(input) /\ DecTyped(dec)
    BY NextSize DEF SizesDecoded
  <1>2. v[e + 1] = input.data[e + 1]
    BY <1>1 DEF SizeStep
  <1>3. PICK x : x = input.data[e + 1] /\ x \in Int
    BY <1>1, ElementTyped
  <1>4. out' = Append(out, x) /\ dec' = [dec EXCEPT !.tree = "LSB", !.value = x]
    BY <1>3 DEF WriteSize, DecodedSize
  <1>5. DecTyped(dec') /\ dec'.tree = "LSB" /\ dec'.run = 0 /\ dec'.value = x
    <2>1. "LSB" \in Trees \cup {"NONE"}
      BY DEF Trees
    <2>2. dec \in [tree : Trees \cup {"NONE"}, lsb : 0 .. MAX_SYMBOL - 1, value : Int, run : Nat, intra : BOOLEAN]
      BY <1>1 DEF DecTyped
    <2>3. dec'.tree = "LSB" /\ dec'.run = dec.run /\ dec'.value = x
      BY <1>4, <2>2
    <2>4. dec' \in [tree : Trees \cup {"NONE"}, lsb : 0 .. MAX_SYMBOL - 1, value : Int, run : Nat, intra : BOOLEAN]
      BY <1>3, <1>4, <2>1, <2>2
    <2> QED
      BY <2>3, <2>4 DEF DecTyped
  <1> QED
    BY <1>2, <1>3, <1>4, <1>5, SizeWritten

LEMMA ReadSizeLsbStep ==
  ASSUME SizesDecoded, ReadSizeLsb
  PROVE  SizesDecoded'
  <1>1. /\ Decoding /\ dec.tree = "LSB" /\ Element \in input.enabled
        /\ input' = input /\ symbols' = symbols /\ chunk' = chunk
    BY DEF ReadSizeLsb, Reading
  <1>2. PICK p, v : /\ SizesLog(Size, p, v, symbols)
                    /\ BeforeSize(p, v, Len(out), dec) \/ WithinSize(p, v, Len(out), dec, symbols)
    BY DEF SizesDecoded
  <1>3. PICK e : e = Len(out)
    OBVIOUS
  <1>4. /\ e \in Nat /\ e < Size /\ e + 1 = Element /\ e + 1 \in 1 .. Size
        /\ p[e] \in Nat /\ p[e + 1] \in Nat
        /\ SizeStarts(p[e], symbols)
        /\ SizeStep(e + 1, p[e], p[e + 1], v[e], v[e + 1], symbols)
    BY <1>1, <1>2, <1>3, NextSize DEF SizesDecoded
  <1>5. BeforeSize(p, v, e, dec)
    BY <1>1, <1>2, <1>3 DEF WithinSize
  <1>6. PICK k, t, x : k \in Nat /\ t \in Nat /\ k = p[e] /\ t = p[e + 1] /\ x = input.data[e + 1]
    BY <1>4
  <1>7. SizeAt(x, k, t, v[e], symbols) /\ SourceAt(k)
    BY <1>1, <1>4, <1>5, <1>6 DEF SizeStep, BeforeSize
  <1>8. symbols \in Seq(CodedSymbols) /\ k \in 0 .. Len(symbols) /\ k < Len(symbols) /\ symbols[k + 1].tree = "LSB"
    <2>1. symbols \in Seq(CodedSymbols)
      BY <1>2 DEF SizesLog
    <2>2. k + 1 <= Len(symbols) /\ symbols[k + 1].tree = "LSB" /\ Len(symbols) \in Nat
      BY <1>7, <2>1 DEF SizeAt
    <2> QED
      BY <1>6, <2>1, <2>2
  <1>9. PICK got \in Got :
          /\ Take(got)
          /\ IF got.symbol % 2 = 1
               THEN dec' = [dec EXCEPT !.tree = "MSB", !.lsb = got.symbol] /\ UNCHANGED out
               ELSE WriteSize(got.symbol \div 2, Base)
    BY DEF ReadSizeLsb
  <1>10. k + 1 \in 1 .. Len(symbols) /\ got.symbol = symbols[k + 1].symbol /\ SourceAt(k + 1)'
    <2>1. dec.tree = symbols[k + 1].tree
      BY <1>1, <1>8
    <2> QED
      BY <1>1, <1>7, <1>8, <1>9, <2>1, TakeNext
  <1>11. PICK s : s = got.symbol /\ s \in 0 .. MAX_SYMBOL - 1
    <2>1. symbols[k + 1] \in CodedSymbols
      BY <1>8, <1>10, ElementOf
    <2> QED
      BY <1>10, <2>1 DEF CodedSymbols
  <1>12. dec.run = 0 /\ dec.value = v[e]
    BY <1>5 DEF BeforeSize
  <1>13. CASE s % 2 = 1
    <2>1. dec' = [dec EXCEPT !.tree = "MSB", !.lsb = s] /\ out' = out
      BY <1>9, <1>11, <1>13
    <2>2. dec \in [tree : Trees \cup {"NONE"}, lsb : 0 .. MAX_SYMBOL - 1, value : Int, run : Nat, intra : BOOLEAN]
      BY DEF DecTyped, SizesDecoded
    <2>3. "MSB" \in Trees \cup {"NONE"}
      BY DEF Trees
    <2>4. dec' \in [tree : Trees \cup {"NONE"}, lsb : 0 .. MAX_SYMBOL - 1, value : Int, run : Nat, intra : BOOLEAN]
      BY <1>11, <2>1, <2>2, <2>3
    <2>5. PICK d, all, n : d = dec' /\ all = symbols /\ n = Size
      OBVIOUS
    <2>6. d.tree = "MSB" /\ d.run = 0 /\ d.value = v[e] /\ d.lsb = s
      BY <1>12, <2>1, <2>2, <2>5
    <2>7. Size' = n /\ SizesLog(n, p, v, all)'
      BY <1>1, <1>2, <2>5, SameSizes, InputSame
    <2>8. WithinSize(p, v, e, d, all)'
      BY <1>1, <1>4, <1>6, <1>10, <1>11, <1>13, <2>5, <2>6, <2>7 DEF WithinSize
    <2>9. Written'
      BY <1>1, <2>1, NothingWritten DEF SizesDecoded
    <2> QED
      BY <1>1, <1>3, <2>1, <2>4, <2>5, <2>7, <2>8, <2>9 DEF SizesDecoded, DecTyped
  <1>14. CASE s % 2 # 1
    <2>1. WriteSize(s \div 2, Base)
      BY <1>9, <1>11, <1>14
    <2>2. t = k + 1 /\ DecodedSize(s \div 2, Base, v[e]) = x
      BY <1>7, <1>10, <1>11, <1>14 DEF SizeAt
    <2> QED
      BY <1>1, <1>2, <1>3, <1>4, <1>6, <1>10, <1>12, <2>1, <2>2, SizeDone
  <1> QED
    BY <1>13, <1>14

LEMMA ReadSizeMsbStep ==
  ASSUME SizesDecoded, ReadSizeMsb
  PROVE  SizesDecoded'
  <1>1. Decoding /\ dec.tree = "MSB" /\ input' = input /\ symbols' = symbols /\ chunk' = chunk
    BY DEF ReadSizeMsb, Reading
  <1>2. PICK p, v : /\ SizesLog(Size, p, v, symbols)
                    /\ BeforeSize(p, v, Len(out), dec) \/ WithinSize(p, v, Len(out), dec, symbols)
    BY DEF SizesDecoded
  <1>3. PICK e : e = Len(out)
    OBVIOUS
  <1>4. /\ e \in Nat /\ e < Size /\ e + 1 = Element /\ e + 1 \in 1 .. Size
        /\ p[e] \in Nat /\ p[e + 1] \in Nat
        /\ SizeStep(e + 1, p[e], p[e + 1], v[e], v[e + 1], symbols)
    BY <1>1, <1>2, <1>3, NextSize DEF SizesDecoded
  <1>5. WithinSize(p, v, e, dec, symbols)
    BY <1>1, <1>2, <1>3 DEF BeforeSize
  <1>6. PICK k, t, x : k \in Nat /\ t \in Nat /\ k = p[e] /\ t = p[e + 1] /\ x = input.data[e + 1]
    BY <1>4
  <1>7. /\ SizeAt(x, k, t, v[e], symbols) /\ SourceAt(k + 1) /\ e + 1 \in input.enabled
        /\ dec.run = 0 /\ dec.value = v[e] /\ dec.lsb = symbols[k + 1].symbol /\ dec.lsb % 2 = 1
    BY <1>4, <1>5, <1>6 DEF SizeStep, WithinSize
  <1>8. /\ t = k + 2 /\ t <= Len(symbols) /\ symbols[k + 2].tree = "MSB"
        /\ DecodedSize((symbols[k + 1].symbol \div 2) + symbols[k + 2].symbol * Base, 2 * Base * Base, v[e]) = x
    BY <1>7 DEF SizeAt
  <1>9. PICK l \in Nat : l = k + 1 /\ l + 1 = k + 2 /\ l \in 0 .. Len(symbols) /\ l < Len(symbols)
    <2>1. Len(symbols) \in Nat
      BY <1>2 DEF SizesLog
    <2> QED
      BY <1>6, <1>8, <2>1
  <1>10. PICK got \in Got : Take(got) /\ WriteSize((dec.lsb \div 2) + got.symbol * Base, 2 * Base * Base)
    BY DEF ReadSizeMsb
  <1>11. got.symbol = symbols[l + 1].symbol /\ SourceAt(l + 1)'
    <2>1. symbols \in Seq(CodedSymbols)
      BY <1>2 DEF SizesLog
    <2>2. SourceAt(l) /\ dec.tree = symbols[l + 1].tree
      BY <1>1, <1>7, <1>8, <1>9
    <2> QED
      BY <1>1, <1>9, <1>10, <2>1, <2>2, TakeNext
  <1>12. PICK r, range : r = (dec.lsb \div 2) + got.symbol * Base /\ range = 2 * Base * Base
    OBVIOUS
  <1>13. WriteSize(r, range) /\ DecodedSize(r, range, v[e]) = x
    BY <1>7, <1>8, <1>9, <1>10, <1>11, <1>12
  <1> QED
    BY <1>1, <1>2, <1>3, <1>6, <1>7, <1>8, <1>9, <1>11, <1>13, SizeDone

SizesInv ==
  /\ Proper(input) /\ ScanTyped
  /\ phase \in {"encoding", "sent", "decoding", "aborted"}
  /\ phase \in {"encoding", "aborted"} => SizesEncoding
  /\ phase = "sent" => Undecoded /\ SizesSent
  /\ phase = "decoding" => SizesDecoded

(* As RunsFit, for sizes. *)
SizesFit == Sized(input) /\ ShortCodes

SizesCoderInv ==
  /\ phase = "encoding" => chunk = NoChunk
  /\ SizesFit => SizesInv

LEMMA SizesBegin ==
  Init => SizesCoderInv
  <1> SUFFICES ASSUME Init PROVE SizesCoderInv
    OBVIOUS
  <1>1. Proper(input) /\ phase = "encoding" /\ Ready
    BY InputsAssumption DEF Init, Proper
  <1>2. Size \in Nat \ {0}
    BY <1>1, InputTyped DEF Size
  <1>3. ScanTyped /\ scan.pos = 1 /\ scan.value = 0
    <2>1. scan = [pos |-> 1, value |-> 0, count |-> 0, intra |-> FALSE]
      BY <1>1 DEF Ready, FirstScan
    <2>2. 1 \in 1 .. Size + 1 /\ 0 \in 0 .. Size
      BY <1>2
    <2> QED
      BY <2>1, <2>2 DEF ScanTyped
  <1>4. \E p, v : SizesLog(scan.pos - 1, p, v, symbols) /\ v[scan.pos - 1] = scan.value
    <2>1. scan.pos - 1 = 0 /\ symbols = <<>>
      BY <1>1, <1>3 DEF Ready
    <2> QED
      BY <1>3, <2>1, NoSizes
  <1>5. SizesEncoding
    BY <1>1, <1>3, <1>4 DEF Ready, SizesEncoding, Undecoded
  <1> QED
    BY <1>1, <1>3, <1>5 DEF SizesCoderInv, SizesInv, Ready

LEMMA StartSizesStep ==
  ASSUME Proper(input), Sized(input), Undecoded, SizesSent, StartSource
  PROVE  SizesDecoded'
  <1>1. input' = input /\ symbols' = symbols /\ chunk' = chunk /\ dec' = dec /\ out' = out
    BY DEF StartSource
  <1>2. source = NoSource /\ dec = FirstRead(input.coder) /\ out = <<>>
    BY DEF Undecoded
  <1>3. Size \in Nat
    BY InputTyped DEF Size
  <1>4. Len(out) = 0
    BY <1>2
  <1>5. Written
    <2>1. <<>> \in Seq(Int)
      OBVIOUS
    <2> QED
      BY <1>2, <1>3, <1>4, <2>1 DEF Written, RoundTrip
  <1>6. Written'
    BY <1>1, <1>5, NothingWritten
  <1>7. DecTyped(dec')
    BY <1>1, <1>2, FirstReadTyped
  <1>8. PICK p, v : SizesLog(Size, p, v, symbols)
    BY DEF SizesSent
  <1>9. SourceAt(0)'
    BY <1>2, SourceStarts DEF SizesSent
  <1>10. PICK n, all, d, e : n = Size /\ all = symbols /\ d = dec' /\ e = Len(out')
    OBVIOUS
  <1>11. SizesLog(n, p, v, all)' /\ Size' = n
    BY <1>1, <1>8, <1>10, SameSizes, InputSame
  <1>12. p[0] = 0 /\ v[0] = 0 /\ e = 0
    BY <1>1, <1>4, <1>8, <1>10 DEF SizesLog
  <1>13. d.tree = "LSB" /\ d.run = 0 /\ d.value = 0
    <2>1. FirstTree(input.coder) = "LSB"
      BY DEF FirstTree, Sized, SizeCoders
    <2> QED
      BY <1>1, <1>2, <1>10, <2>1 DEF FirstRead
  <1>14. BeforeSize(p, v, e, d)'
    BY <1>9, <1>12, <1>13 DEF BeforeSize
  <1> QED
    BY <1>1, <1>6, <1>7, <1>10, <1>11, <1>14 DEF SizesDecoded

LEMMA SizesStutter ==
  ASSUME SizesInv, UNCHANGED vars
  PROVE  SizesInv'
  <1>1. /\ input' = input /\ phase' = phase /\ scan' = scan /\ symbols' = symbols /\ chunk' = chunk
        /\ source' = source /\ dec' = dec /\ out' = out
    BY DEF vars
  <1>2. ScanTyped' /\ (Undecoded' <=> Undecoded)
    BY <1>1, ScanKept DEF SizesInv, Undecoded
  <1>3. SizesEncoding => SizesEncoding'
    BY <1>1, SizesStay
  <1>4. PICK n, all, d, e, c : n = Size /\ all = symbols /\ d = dec /\ e = Len(out) /\ c = chunk
    OBVIOUS
  <1>5. Size' = n /\ \A p, v : SizesLog(n, p, v, all) => SizesLog(n, p, v, all)'
    BY <1>1, <1>4, SameSizes, InputSame
  <1>6. SizesSent => SizesSent'
    <2> SUFFICES ASSUME SizesSent PROVE SizesSent'
      OBVIOUS
    <2>1. PICK p, v : SizesLog(n, p, v, all)
      BY <1>4 DEF SizesSent
    <2>2. PICK places, trees : Readable(c, all, places, trees)
      BY <1>4 DEF SizesSent
    <2>3. SizesLog(n, p, v, all)' /\ Readable(c, all, places, trees)'
      BY <1>1, <1>5, <2>1, <2>2, SameReadable
    <2> QED
      BY <1>1, <1>4, <1>5, <2>3 DEF SizesSent
  <1>7. SizesDecoded => SizesDecoded'
    <2> SUFFICES ASSUME SizesDecoded PROVE SizesDecoded'
      OBVIOUS
    <2>1. PICK p, v : /\ SizesLog(n, p, v, all)
                      /\ BeforeSize(p, v, e, d) \/ WithinSize(p, v, e, d, all)
      BY <1>4 DEF SizesDecoded
    <2>2. SizesLog(n, p, v, all)'
      BY <1>5, <2>1
    <2>3. BeforeSize(p, v, e, d) => BeforeSize(p, v, e, d)'
      BY <1>1, SourceStays DEF BeforeSize
    <2>4. WithinSize(p, v, e, d, all) => WithinSize(p, v, e, d, all)'
      BY <1>1, <1>4, <1>5, SourceStays DEF WithinSize
    <2>5. Written' /\ DecTyped(dec')
      BY <1>1, NothingWritten DEF SizesDecoded
    <2> QED
      BY <1>1, <1>4, <1>5, <2>1, <2>2, <2>3, <2>4, <2>5 DEF SizesDecoded
  <1> QED
    BY <1>1, <1>2, <1>3, <1>6, <1>7 DEF SizesInv

(* A decoder of sizes takes no step of another decoder. *)
LEMMA SizesRead ==
  ASSUME SizesDecoded, Sized(input), phase = "decoding", Next
  PROVE  ReadSizeLsb \/ ReadSizeMsb \/ WriteNoSize
  <1>1. input.coder \in SizeCoders /\ input.coder \notin RunCoders
    BY DEF Sized, SizeCoders, RunCoders
  <1>2. dec.tree \in {"LSB", "MSB"} /\ dec.run = 0
    BY DEF SizesDecoded, BeforeSize, WithinSize
  <1>3. ~EncodeFirst /\ ~EncodeSkipped /\ ~ExtendRun /\ ~EmitRun /\ ~FinishRuns
    BY DEF EncodeFirst, EncodeSkipped, ExtendRun, EmitRun, FinishRuns, Scanning
  <1>4. ~EncodeSize /\ ~AbortSize /\ ~FinishSizes /\ ~StartSource
    BY DEF EncodeSize, AbortSize, FinishSizes, StartSource, ScanningSizes, Scanning
  <1>5. ~DecodeConstant /\ ~ReadPelLsb /\ ~ReadPelMsb /\ ~ReadStart
    BY <1>1 DEF DecodeConstant, ReadPelLsb, ReadPelMsb, ReadStart, Reading, RunCoders
  <1>6. ~ReadZeros /\ ~WriteZero /\ ~FlipRun /\ ~WriteFlag /\ ~WriteIntra
    <2>1. dec.tree # "ZERO" /\ dec.tree # "NONE" /\ ~(dec.run > 0)
      BY <1>2
    <2> QED
      BY <2>1 DEF ReadZeros, WriteZero, FlipRun, WriteFlag, WriteIntra
  <1>7. ~ReadCount
    BY <1>2 DEF ReadCount, RunTree
  <1> QED
    BY <1>3, <1>4, <1>5, <1>6, <1>7 DEF Next

LEMMA SizesContinue ==
  ASSUME SizesCoderInv, [Next]_vars
  PROVE  SizesCoderInv'
  <1>1. input' = input
    BY InputKept
  <1>2. SUFFICES ASSUME SizesFit, ShortCodes' PROVE SizesInv'
    <2>1. /\ (phase = "encoding" => chunk = NoChunk)'
          /\ (chunk' = chunk /\ symbols' = symbols) \/ chunk = NoChunk
      BY ChunkKept DEF SizesCoderInv
    <2>2. SizesFit' => SizesFit /\ ShortCodes'
      <3>1. chunk = NoChunk => ShortCodes
        BY DEF ShortCodes, NoChunk
      <3>2. ASSUME chunk' = chunk, symbols' = symbols PROVE ShortCodes' => ShortCodes
        BY <1>1, <3>2 DEF ShortCodes, ShortCodesOf
      <3>3. Sized(input)' <=> Sized(input)
        BY <1>1
      <3> QED
        BY <2>1, <3>1, <3>2, <3>3 DEF SizesFit
    <2> QED
      BY <1>2, <2>1, <2>2 DEF SizesCoderInv
  <1>3. SizesInv /\ Sized(input) /\ ShortCodes' /\ Proper(input)
    BY <1>2 DEF SizesCoderInv, SizesFit, SizesInv
  <1>4. input.coder \in SizeCoders /\ input.coder \notin RunCoders
    BY <1>3 DEF Sized, SizeCoders, RunCoders
  <1>5. CASE UNCHANGED vars
    BY <1>3, <1>5, SizesStutter
  <1>6. CASE Next
    <2>1. CASE phase \in {"encoding", "sent", "aborted"}
      <3>1. \/ EncodeSize \/ AbortSize \/ FinishSizes \/ StartSource
        <4>1. ~EncodeFirst /\ ~EncodeSkipped /\ ~ExtendRun /\ ~EmitRun /\ ~FinishRuns
          BY <1>4 DEF EncodeFirst, EncodeSkipped, ExtendRun, EmitRun, FinishRuns
        <4>2. ~DecodeConstant /\ ~ReadPelLsb /\ ~ReadPelMsb /\ ~ReadZeros /\ ~WriteZero
          BY <2>1 DEF DecodeConstant, ReadPelLsb, ReadPelMsb, ReadZeros, WriteZero, Reading, Decoding
        <4>3. ~ReadStart /\ ~ReadCount /\ ~FlipRun /\ ~WriteFlag /\ ~WriteIntra
          BY <2>1 DEF ReadStart, ReadCount, FlipRun, WriteFlag, WriteIntra, Reading, Decoding
        <4>4. ~ReadSizeLsb /\ ~ReadSizeMsb /\ ~WriteNoSize
          BY <2>1 DEF ReadSizeLsb, ReadSizeMsb, WriteNoSize, Reading, Decoding
        <4> QED
          BY <1>6, <4>1, <4>2, <4>3, <4>4 DEF Next
      <3>2. CASE EncodeSize
        <4>1. SizesEncoding' /\ phase' = phase /\ phase = "encoding"
          BY <1>3, <3>2, EncodeSizeStep DEF SizesInv, EncodeSize, ScanningSizes, Scanning
        <4> QED
          BY <4>1 DEF SizesInv, SizesEncoding
      <3>3. CASE AbortSize
        <4>1. SizesEncoding' /\ phase' = "aborted"
          BY <1>3, <3>3, SizesStay DEF SizesInv, AbortSize, ScanningSizes, Scanning
        <4> QED
          BY <4>1 DEF SizesInv, SizesEncoding
      <3>4. CASE FinishSizes
        <4>1. (Proper(input) /\ ScanTyped /\ Undecoded /\ SizesSent)' /\ phase' = "sent"
          BY <1>3, <3>4, FinishSizesStep DEF SizesInv, FinishSizes
        <4> QED
          BY <4>1 DEF SizesInv
      <3>5. CASE StartSource
        <4>1. SizesDecoded' /\ phase' = "decoding" /\ scan' = scan
          BY <1>3, <3>5, StartSizesStep DEF SizesInv, StartSource
        <4>2. ScanTyped'
          BY <1>1, <1>3, <4>1, ScanKept DEF SizesInv
        <4> QED
          BY <1>1, <1>3, <4>1, <4>2 DEF SizesInv
      <3> QED
        BY <3>1, <3>2, <3>3, <3>4, <3>5
    <2>2. CASE phase = "decoding"
      <3>1. SizesDecoded
        BY <1>3, <2>2 DEF SizesInv
      <3>2. ReadSizeLsb \/ ReadSizeMsb \/ WriteNoSize
        BY <1>3, <1>6, <2>2, <3>1, SizesRead
      <3>3. SizesDecoded'
        BY <1>3, <3>1, <3>2, ReadSizeLsbStep, ReadSizeMsbStep, WriteNoSizeStep
      <3>4. phase' = phase /\ scan' = scan
        BY <3>2 DEF ReadSizeLsb, ReadSizeMsb, WriteNoSize
      <3>5. ScanTyped'
        BY <1>1, <1>3, <3>4, ScanKept DEF SizesInv
      <3> QED
        BY <1>1, <1>3, <2>2, <3>3, <3>4, <3>5 DEF SizesInv
    <2> QED
      BY <1>3, <2>1, <2>2 DEF SizesInv
  <1> QED
    BY <1>5, <1>6

LEMMA AlwaysSizes ==
  Spec => []SizesCoderInv
  <1>1. Init => SizesCoderInv
    BY SizesBegin
  <1>2. SizesCoderInv /\ [Next]_vars => SizesCoderInv'
    BY SizesContinue
  <1> QED
    BY <1>1, <1>2, PTL DEF Spec

-----------------------------------------------------------------------------
(* Results for sizes.                                                      *)

LEMMA SizesRight ==
  SizesInv => RoundTrip
  <1> SUFFICES ASSUME SizesInv PROVE RoundTrip
    OBVIOUS
  <1>1. CASE phase \in {"encoding", "sent", "aborted"}
    <2>1. out = <<>>
      BY <1>1 DEF SizesInv, SizesEncoding, Undecoded
    <2>2. Len(out) = 0
      BY <2>1
    <2> QED
      BY <2>2 DEF RoundTrip
  <1>2. CASE phase = "decoding"
    BY <1>2 DEF SizesInv, SizesDecoded, Written
  <1> QED
    BY <1>1, <1>2 DEF SizesInv

(* The place in the chunk, and the tree of the symbol there. *)
LEMMA SizePlace ==
  ASSUME SizesDecoded
  PROVE  \E k \in 0 .. Len(symbols) :
           /\ SourceAt(k) /\ symbols \in Seq(CodedSymbols)
           /\ Len(out) < Size /\ k < Len(symbols) => dec.tree = symbols[k + 1].tree
           /\ Len(out) = Size => k = Len(symbols)
  <1>1. PICK p, v, e : /\ SizesLog(Size, p, v, symbols) /\ e = Len(out)
                       /\ BeforeSize(p, v, e, dec) \/ WithinSize(p, v, e, dec, symbols)
    BY DEF SizesDecoded
  <1>2. symbols \in Seq(CodedSymbols) /\ Size \in Nat
    BY <1>1, InputTyped DEF SizesLog, SizesDecoded, Size
  <1>3. e \in 0 .. Size
    BY <1>1, <1>2 DEF SizesDecoded, Written
  <1>4. p[e] \in Nat /\ SizeStarts(p[e], symbols)
    BY <1>1, <1>3 DEF SizesLog
  <1>5. CASE BeforeSize(p, v, e, dec)
    <2>1. PICK k \in 0 .. Len(symbols) : k = p[e] /\ (k < Len(symbols) => symbols[k + 1].tree = "LSB")
      BY <1>4 DEF SizeStarts
    <2>2. SourceAt(k) /\ dec.tree = "LSB"
      BY <1>5, <2>1 DEF BeforeSize
    <2>3. e = Size => k = Len(symbols)
      BY <1>1, <2>1 DEF SizesLog
    <2> QED
      BY <1>1, <1>2, <2>1, <2>2, <2>3
  <1>6. CASE WithinSize(p, v, e, dec, symbols)
    <2>1. PICK i \in 1 .. Size : i = e + 1 /\ i - 1 = e /\ i \in input.enabled
      BY <1>2, <1>3, <1>6 DEF WithinSize
    <2>2. PICK s \in Nat : s = p[e]
      BY <1>4
    <2>3. SizeStep(i, s, p[i], v[e], v[i], symbols)
      BY <1>1, <2>1, <2>2 DEF SizesLog
    <2>4. SizeAt(input.data[i], s, p[i], v[e], symbols)
      BY <2>1, <2>3 DEF SizeStep
    <2>5. symbols[s + 1].symbol % 2 = 1 /\ dec.tree = "MSB" /\ SourceAt(s + 1) /\ e < Size
      BY <1>6, <2>2 DEF WithinSize
    <2>6. s + 2 <= Len(symbols) /\ symbols[s + 2].tree = "MSB"
      BY <2>4, <2>5 DEF SizeAt
    <2>7. PICK k \in 0 .. Len(symbols) : k = s + 1 /\ k + 1 = s + 2
      <3>1. Len(symbols) \in Nat
        BY <1>2
      <3> QED
        BY <2>6, <3>1
    <2> QED
      BY <1>1, <1>2, <2>5, <2>6, <2>7
  <1> QED
    BY <1>1, <1>5, <1>6

LEMMA SizesFollow ==
  SizesInv => TreesAgree /\ SymbolsUsedUp
  <1> SUFFICES ASSUME SizesInv, phase = "decoding" PROVE TreesAgree /\ SymbolsUsedUp
    BY DEF TreesAgree, SymbolsUsedUp
  <1>1. SizesDecoded
    BY DEF SizesInv
  <1>2. PICK k \in 0 .. Len(symbols) :
           /\ SourceAt(k) /\ symbols \in Seq(CodedSymbols)
           /\ Len(out) < Size /\ k < Len(symbols) => dec.tree = symbols[k + 1].tree
           /\ Len(out) = Size => k = Len(symbols)
    BY <1>1, SizePlace
  <1>3. source.taken = k /\ (k = Len(symbols) => Len(chunk.bits) - (source.next - 1) < SymbolBits)
    BY <1>2, BitsLeft
  <1> QED
    BY <1>2, <1>3 DEF TreesAgree, SymbolsUsedUp

LEMMA SizesTyped ==
  SizesInv => TypeOK
  <1> SUFFICES ASSUME SizesInv PROVE TypeOK
    OBVIOUS
  <1>1. /\ input \in InputTypes(input.data) /\ input.data \in Seq(Int) /\ ScanTyped /\ Proper(input)
        /\ phase \in {"encoding", "sent", "decoding", "aborted"} /\ Size \in Nat
    BY InputTyped DEF SizesInv, Size
  <1>2. /\ symbols \in Seq(CodedSymbols)
        /\ chunk \in [enabled : BOOLEAN, rle_only : BOOLEAN, bits : Seq({0, 1})]
        /\ source.next \in 1 .. Len(chunk.bits) + 1 /\ source.taken \in 0 .. Len(symbols)
        /\ DecTyped(dec) /\ out \in Seq(Int) /\ Len(out) <= Size
    <2>1. CASE phase \in {"encoding", "sent", "aborted"}
      <3>1. Undecoded
        BY <2>1 DEF SizesInv, SizesEncoding
      <3>2. source = NoSource /\ dec = FirstRead(input.coder) /\ out = <<>>
        BY <3>1 DEF Undecoded
      <3>3. out \in Seq(Int) /\ Len(out) <= Size
        BY <1>1, <3>2
      <3>4. CASE phase = "sent"
        <4>1. PICK places, trees : Readable(chunk, symbols, places, trees)
          BY <3>4 DEF SizesInv, SizesSent
        <4>2. symbols \in Seq(CodedSymbols)
          BY <3>4 DEF SizesInv, SizesSent, SizesLog
        <4>3. chunk \in [enabled : {TRUE}, rle_only : BOOLEAN, bits : Seq({0, 1})]
          BY <4>1 DEF Readable, Bits
        <4>4. source.next = 1 /\ source.taken = 0 /\ Len(symbols) \in Nat /\ Len(chunk.bits) \in Nat
          BY <3>2, <4>2, <4>3 DEF NoSource
        <4>5. DecTyped(dec)
          BY <1>1, <3>2, FirstReadTyped
        <4>6. chunk \in [enabled : BOOLEAN, rle_only : BOOLEAN, bits : Seq({0, 1})]
          BY <4>3
        <4>7. source.next \in 1 .. Len(chunk.bits) + 1 /\ source.taken \in 0 .. Len(symbols)
          BY <4>4
        <4> QED
          BY <3>3, <4>2, <4>5, <4>6, <4>7
      <3>5. CASE phase # "sent"
        <4>1. chunk = NoChunk /\ symbols \in Seq(CodedSymbols)
          BY <2>1, <3>5 DEF SizesInv, SizesEncoding, SizesLog
        <4> QED
          BY <1>1, <3>2, <3>3, <4>1, NothingRead
      <3> QED
        BY <3>4, <3>5
    <2>2. CASE phase = "decoding"
      <3>1. SizesDecoded
        BY <2>2 DEF SizesInv
      <3>2. PICK k \in 0 .. Len(symbols) : SourceAt(k) /\ symbols \in Seq(CodedSymbols)
        BY <3>1, SizePlace
      <3>3. /\ chunk \in [enabled : BOOLEAN, rle_only : BOOLEAN, bits : Seq({0, 1})]
            /\ source.next \in 1 .. Len(chunk.bits) + 1 /\ source.taken = k
        BY <3>2, BitsLeft
      <3> QED
        BY <3>1, <3>2, <3>3 DEF SizesDecoded, Written
    <2> QED
      BY <1>1, <2>1, <2>2
  <1>3. CodedSymbols = [tree : Trees, symbol : 0 .. MAX_SYMBOL - 1]
    BY DEF CodedSymbols
  <1>4. dec \in [tree : Trees \cup {"NONE"}, lsb : 0 .. MAX_SYMBOL - 1, value : Int, run : Nat, intra : BOOLEAN]
    BY <1>2 DEF DecTyped
  <1>5. scan \in [pos : 1 .. Size + 1, value : Int, count : 0 .. Size, intra : BOOLEAN]
    BY <1>1 DEF ScanTyped
  <1>6. symbols \in Seq([tree : Trees, symbol : 0 .. MAX_SYMBOL - 1])
    BY <1>2, <1>3
  <1> QED
    BY <1>1, <1>2, <1>4, <1>5, <1>6 DEF TypeOK

(* Two symbols hold no more than encode_size accepts. *)
LEMMA SizesBounded ==
  SizesInv => LargeSizeRefused
  <1> SUFFICES ASSUME SizesInv, phase = "decoding", input.coder = "prefix", NEW i \in input.enabled
               PROVE  input.data[i] < 2 * Base * Base
    BY DEF LargeSizeRefused
  <1>1. SizesDecoded /\ Proper(input)
    BY DEF SizesInv
  <1>2. PICK p, v, all : SizesLog(Size, p, v, all) /\ all = symbols
    BY <1>1 DEF SizesDecoded
  <1>3. i \in 1 .. Size
    BY <1>1, InputTyped DEF Size
  <1>4. PICK s, t, prev, x : SizeAt(x, s, t, prev, all) /\ x = input.data[i]
    <2>1. SizeStep(i, p[i - 1], p[i], v[i - 1], v[i], all)
      BY <1>2, <1>3 DEF SizesLog
    <2> QED
      BY <2>1 DEF SizeStep
  <1>5. PICK b \in Nat \ {0} : b = Base /\ MAX_SYMBOL = 2 * b
    BY Ranges
  <1>6. PICK q \in Nat \ {0} : q = b * b /\ 2 * Base * Base = 2 * q
    BY <1>5, SixteenBits
  <1>7. all \in Seq(CodedSymbols)
    BY <1>2 DEF SizesLog
  <1>8. \A k \in 1 .. Len(all) : all[k].symbol \in 0 .. 2 * b - 1
    <2> SUFFICES ASSUME NEW k \in 1 .. Len(all) PROVE all[k].symbol \in 0 .. 2 * b - 1
      OBVIOUS
    <2>1. all[k] \in CodedSymbols
      BY <1>7, ElementOf
    <2> QED
      BY <1>5, <2>1 DEF CodedSymbols
  <1>9. s \in Nat /\ s + 1 <= Len(all) /\ Len(all) \in Nat
    BY <1>4, <1>7 DEF SizeAt
  <1>10. PICK y \in Nat, h \in Nat : y = all[s + 1].symbol /\ h = y \div 2 /\ h < b
    <2>1. s + 1 \in 1 .. Len(all)
      BY <1>9
    <2>2. PICK y \in Nat : y = all[s + 1].symbol /\ y < 2 * b
      BY <1>8, <2>1
    <2>3. y \div 2 \in Nat /\ y \div 2 < b
      BY <2>2
    <2> QED
      BY <2>2, <2>3
  <1>11. CASE DecodedSize(y \div 2, Base, prev) = x
    <2>1. x = h
      BY <1>10, <1>11 DEF DecodedSize
    <2>2. b <= b * b
      OBVIOUS
    <2> QED
      BY <1>4, <1>6, <1>10, <2>1, <2>2
  <1>12. CASE /\ t = s + 2 /\ t <= Len(all)
              /\ DecodedSize((y \div 2) + all[s + 2].symbol * Base, 2 * Base * Base, prev) = x
    <2>1. PICK z \in Nat : z = all[s + 2].symbol /\ z <= 2 * b - 1
      <3>1. s + 2 \in 1 .. Len(all)
        BY <1>9, <1>12
      <3>2. all[s + 2].symbol \in 0 .. 2 * b - 1
        BY <1>8, <3>1
      <3> QED
        BY <3>2
    <2>2. x = h + z * b
      BY <1>5, <1>10, <1>12, <2>1 DEF DecodedSize
    <2>3. z * b + b <= 2 * q
      <3>1. b * z + b <= b * (2 * b)
        BY <2>1, Apart
      <3>2. b * (2 * b) = 2 * q /\ b * z = z * b
        BY <1>6
      <3> QED
        BY <3>1, <3>2
    <2> QED
      BY <1>4, <1>6, <1>10, <2>2, <2>3
  <1> QED
    BY <1>4, <1>10, <1>11, <1>12 DEF SizeAt

(* The sizes of the tiles of a layer come back: EntropyDecoderSizes makes  *)
(* of the symbols of encode_size, or of the differences of                 *)
(* encode_size_delta, the sizes that were coded, on either side of the     *)
(* limit of one symbol, unless the encoder has refused one; with codes of  *)
(* less than NoLength bits.                                                *)
THEOREM SizesComeBack ==
  Spec => [](SizesFit => RoundTrip)
  <1>1. SizesCoderInv => (SizesFit => RoundTrip)
    BY SizesRight DEF SizesCoderInv
  <1> QED
    BY <1>1, AlwaysSizes, PTL

(* Meanwhile it reads every symbol with the tree that it was written for,  *)
(* and when it has the last size nothing is left.                          *)
THEOREM SizesUsedUp ==
  Spec => [](SizesFit => TreesAgree /\ SymbolsUsedUp)
  <1>1. SizesCoderInv => (SizesFit => TreesAgree /\ SymbolsUsedUp)
    BY SizesFollow DEF SizesCoderInv
  <1> QED
    BY <1>1, AlwaysSizes, PTL

(* The symbols of sizes are bytes too, and the decoder's position is       *)
(* within the chunk.                                                       *)
THEOREM SizeCoderTyped ==
  Spec => [](SizesFit => TypeOK)
  <1>1. SizesCoderInv => (SizesFit => TypeOK)
    BY SizesTyped DEF SizesCoderInv
  <1> QED
    BY <1>1, AlwaysSizes, PTL

(* The CHECK of encode_size does what it says for sizes that fit into 16   *)
(* bits: a tile of 32768 bytes or more is refused.  It is for larger ones, *)
(* which are cut before they are checked, that LargeSizeRefused fails.     *)
THEOREM SixteenBitSizesRefused ==
  Spec => [](SizesFit => LargeSizeRefused)
  <1>1. SizesCoderInv => (SizesFit => LargeSizeRefused)
    BY SizesBounded DEF SizesCoderInv
  <1> QED
    BY <1>1, AlwaysSizes, PTL
=============================================================================
