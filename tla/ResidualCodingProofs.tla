------------------------ MODULE ResidualCodingProofs ------------------------
(***************************************************************************)
(* The decoder follows the encoder, whatever the sizes of the pictures,    *)
(* the scaling, the transform, the steps and the errors of the base codec. *)
(*                                                                         *)
(* The encoder decodes its own layers (decode_residuals) to predict the    *)
(* next picture from what the decoder will have; the decoder has another   *)
(* loop for it, other quantisers and another way to the masks.  The        *)
(* invariant says at every stage what the decoder would come to with the   *)
(* surfaces sent so far: the pictures that a stage makes are functions of  *)
(* the base, of the picture header, of the decoder's buffer and of these   *)
(* surfaces (FirstOf, SecondOf, AddedOf), on both sides the same ones.     *)
(*                                                                         *)
(* Surfaces are proved about as functions: Shaped is a rectangle of        *)
(* anything, Pels one of members of a set.                                 *)
(*                                                                         *)
(* Between the two sides every surface passes through the entropy coders:  *)
(* their invariant (EncoderInv) begins anew with each of them.             *)
(***************************************************************************)
EXTENDS ResidualCoding, EntropyCoderProofs, DataLemmas

Dimension == Nat \ {0}

(* A rectangle of pels of any kind, and one of members of S.               *)
Shaped(s, w, h) == s = [y \in 0 .. h - 1 |-> [x \in 0 .. w - 1 |-> s[y][x]]]
Pels(w, h, S) == [0 .. h - 1 -> [0 .. w - 1 -> S]]

-----------------------------------------------------------------------------
(* Numbers.                                                                *)

LEMMA Remainder ==
  ASSUME NEW m \in Nat \ {0}, NEW q \in Nat, NEW r \in 0 .. m - 1
  PROVE  (m * q + r) \div m = q /\ (m * q + r) % m = r
  <1>1. m * q + r \in Nat
    OBVIOUS
  <1>2. PICK c \in Nat : c = m * q + r
    BY <1>1
  <1>3. PICK g \in Nat, y \in 0 .. m - 1 : g = c \div m /\ y = c % m /\ c = m * g + y
    BY DivMod
  <1>4. ~(g < q) /\ ~(q < g)
    <2>1. g < q => m * g + m <= m * q
      BY Apart
    <2>2. q < g => m * q + m <= m * g
      BY Apart
    <2>3. m * g \in Nat /\ m * q \in Nat
      OBVIOUS
    <2> QED
      BY <1>2, <1>3, <2>1, <2>2, <2>3
  <1>5. g = q
    BY <1>4
  <1> QED
    BY <1>2, <1>3, <1>5

LEMMA InRange ==
  ASSUME NEW a \in Int, NEW b \in Int, NEW v \in Int, a <= v, v <= b
  PROVE  v \in a .. b
  OBVIOUS

LEMMA Between ==
  ASSUME NEW a \in Int, NEW b \in Int, NEW v
  PROVE  v \in a .. b <=> v \in Int /\ a <= v /\ v <= b
  BY SMTT(20)

LEMMA MachineWords ==
  ASSUME NEW v
  PROVE  v \in Word16 <=> v \in Int /\ -32768 <= v /\ v <= 32767
  <1> DEFINE a == -32768
             b == 32767
  <1>1. a \in Int /\ b \in Int
    OBVIOUS
  <1>2. Word16 = a .. b
    BY SMTT(20) DEF Word16
  <1> HIDE DEF a, b
  <1>3. v \in a .. b <=> v \in Int /\ a <= v /\ v <= b
    BY <1>1, Between
  <1>4. v \in Word16 <=> v \in Int /\ a <= v /\ v <= b
    BY <1>2, <1>3, Zenon
  <1> QED
    BY <1>4, SMTT(20) DEF a, b

LEMMA InWord ==
  ASSUME NEW v \in Int, -32768 <= v, v <= 32767
  PROVE  v \in Word16
  BY MachineWords

LEMMA Int16Word ==
  ASSUME NEW v \in Int
  PROVE  Int16(v) \in Word16
  <1>1. PICK m \in Nat \ {0} : m = 65536
    OBVIOUS
  <1>2. PICK k \in Int : k = v + 32768
    OBVIOUS
  <1>3. k % m \in 0 .. m - 1
    OBVIOUS
  <1>4. PICK r \in Int : r = k % m /\ 0 <= r /\ r < m
    BY <1>3
  <1>5. r - 32768 \in Int /\ -32768 <= r - 32768 /\ r - 32768 <= 32767
    BY <1>1, <1>4
  <1>6. Int16(v) = r - 32768
    BY <1>1, <1>2, <1>4 DEF Int16
  <1> QED
    BY <1>5, <1>6, MachineWords

LEMMA Int16Same ==
  ASSUME NEW v \in Word16
  PROVE  Int16(v) = v
  <1>1. PICK m \in Nat \ {0} : m = 65536
    OBVIOUS
  <1>2. v \in Int /\ -32768 <= v /\ v <= 32767
    BY MachineWords
  <1>3. PICK n \in Int : n = v + 32768
    BY <1>2
  <1>4. n \in 0 .. m - 1
    <2>1. 0 <= n /\ n <= m - 1 /\ m - 1 \in Int
      BY <1>1, <1>2, <1>3
    <2> QED
      BY <2>1, Between
  <1>5. n % m = n
    <2>1. (m * 0 + n) % m = n
      BY <1>4, Remainder
    <2>2. m * 0 + n = n
      BY <1>3
    <2> QED
      BY <2>1, <2>2
  <1>6. Int16(v) = n - 32768
    BY <1>1, <1>3, <1>5 DEF Int16
  <1> QED
    BY <1>2, <1>3, <1>6

LEMMA ClampedWord ==
  ASSUME NEW v \in Word16
  PROVE  ClampInt16(v) = v
  <1>1. v \in Int /\ -32768 <= v /\ v <= 32767
    BY MachineWords
  <1> QED
    BY <1>1 DEF ClampInt16, Clamp

(* SampleShifts of two that shift samples. *)
LEMMA SampleShifts ==
  ASSUME NEW n \in 0 .. 15
  PROVE  2^n \in Nat \ {0}
  <1>1. /\ n = 0 \/ n = 1 \/ n = 2 \/ n = 3 \/ n = 4 \/ n = 5 \/ n = 6 \/ n = 7
           \/ n = 8 \/ n = 9 \/ n = 10 \/ n = 11 \/ n = 12 \/ n = 13 \/ n = 14 \/ n = 15
    OBVIOUS
  <1>2. /\ 2^0 = 1 /\ 2^1 = 2 /\ 2^2 = 4 /\ 2^3 = 8 /\ 2^4 = 16 /\ 2^5 = 32 /\ 2^6 = 64 /\ 2^7 = 128
        /\ 2^8 = 256 /\ 2^9 = 512 /\ 2^10 = 1024 /\ 2^11 = 2048 /\ 2^12 = 4096
        /\ 2^13 = 8192 /\ 2^14 = 16384 /\ 2^15 = 32768
    OBVIOUS
  <1>3. \A k \in {2^0, 2^1, 2^2, 2^3, 2^4, 2^5, 2^6, 2^7, 2^8, 2^9, 2^10, 2^11, 2^12, 2^13, 2^14, 2^15} :
          k \in Nat \ {0}
    BY <1>2
  <1>4. 2^n \in {2^0, 2^1, 2^2, 2^3, 2^4, 2^5, 2^6, 2^7, 2^8, 2^9, 2^10, 2^11, 2^12, 2^13, 2^14, 2^15}
    BY <1>1, Zenon
  <1> QED
    BY <1>3, <1>4, Zenon

(* A sum of integers is one. *)
SumsOf(f, t, n) == f = [k \in 0 .. n |-> IF k = 0 THEN 0 ELSE f[k - 1] + t[k - 1]]

LEMMA SumExists ==
  ASSUME NEW n \in Nat, NEW t, \A k \in 0 .. n - 1 : t[k] \in Int
  PROVE  \E f : SumsOf(f, t, n)
  <1> DEFINE step == [i \in 1 .. n |-> [s \in Int |-> s + t[i - 1]]]
  <1>1. PICK f : Carried(f, step, 0, n)
    <2> HIDE DEF step
    <2> QED
      BY LoopExists
  <1>2. f[0] = 0 /\ \A i \in 1 .. n : f[i] = step[i][f[i - 1]]
    <2> HIDE DEF step
    <2> QED
      BY <1>1 DEF Carried
  <1>3. \A i \in 0 .. n : f[i] \in Int
    <2> DEFINE T == {i \in Nat : i <= n /\ f[i] \notin Int}
    <2> SUFFICES ASSUME T # {} PROVE FALSE
      OBVIOUS
    <2>1. PICK k \in T : k = 0 \/ (k - 1 \in Nat /\ k - 1 \notin T)
      <3>1. T \in SUBSET Nat
        OBVIOUS
      <3> HIDE DEF T
      <3> QED
        BY <3>1, LeastOf
    <2>2. k # 0
      BY <1>2, <2>1
    <2>3. k \in 1 .. n /\ f[k - 1] \in Int /\ t[k - 1] \in Int
      BY <2>1, <2>2
    <2>4. f[k] = f[k - 1] + t[k - 1]
      BY <1>2, <2>3
    <2> QED
      BY <2>1, <2>3, <2>4
  <1>4. ASSUME NEW i \in 1 .. n PROVE f[i] = f[i - 1] + t[i - 1]
    <2>1. f[i - 1] \in Int
      BY <1>3
    <2> QED
      BY <1>2, <2>1
  <1>5. \E A : f \in [0 .. n -> A]
    BY <1>1 DEF Carried
  <1>6. \A i \in 0 .. n : f[i] = IF i = 0 THEN 0 ELSE f[i - 1] + t[i - 1]
    <2>1. \A i \in 0 .. n : i = 0 \/ i \in 1 .. n
      OBVIOUS
    <2> QED
      BY <1>2, <1>4, <2>1
  <1> QED
    BY <1>5, <1>6 DEF SumsOf

LEMMA SumTyped ==
  ASSUME NEW n \in Nat, NEW t, \A k \in 0 .. n - 1 : t[k] \in Int, NEW f, SumsOf(f, t, n)
  PROVE  f[n] \in Int
  <1> DEFINE T == {i \in Nat : i <= n /\ f[i] \notin Int}
  <1>1. T = {}
    <2> SUFFICES ASSUME T # {} PROVE FALSE
      OBVIOUS
    <2>1. PICK k \in T : k = 0 \/ (k - 1 \in Nat /\ k - 1 \notin T)
      <3>1. T \in SUBSET Nat
        OBVIOUS
      <3> HIDE DEF T
      <3> QED
        BY <3>1, LeastOf
    <2>2. f[k] = IF k = 0 THEN 0 ELSE f[k - 1] + t[k - 1]
      BY <2>1 DEF SumsOf
    <2> QED
      BY <2>1, <2>2
  <1> QED
    BY <1>1
-----------------------------------------------------------------------------
(* Surfaces.                                                               *)

LEMMA SizeOf ==
  ASSUME NEW w \in Dimension, NEW h \in Dimension, NEW s, Shaped(s, w, h)
  PROVE  Width(s) = w /\ Height(s) = h /\ DOMAIN s = 0 .. h - 1
  <1>1. DOMAIN s = 0 .. h - 1 /\ DOMAIN s[0] = 0 .. w - 1
    BY DEF Shaped, Dimension
  <1>2. /\ Cardinality(0 .. h - 1) = h /\ Cardinality(0 .. w - 1) = w
    BY FS_Interval DEF Dimension
  <1> QED
    BY <1>1, <1>2 DEF Width, Height

LEMMA PelsShaped ==
  ASSUME NEW w \in Dimension, NEW h \in Dimension, NEW S, NEW s \in Pels(w, h, S)
  PROVE  Shaped(s, w, h)
  BY DEF Shaped, Pels

LEMMA PelsSize ==
  ASSUME NEW w \in Dimension, NEW h \in Dimension, NEW S, NEW s \in Pels(w, h, S)
  PROVE  Width(s) = w /\ Height(s) = h /\ DOMAIN s = 0 .. h - 1
  BY PelsShaped, SizeOf

LEMMA PelOf ==
  ASSUME NEW w, NEW h, NEW S, NEW s \in Pels(w, h, S), NEW x \in 0 .. w - 1, NEW y \in 0 .. h - 1
  PROVE  s[y] \in [0 .. w - 1 -> S] /\ s[y][x] \in S
  BY DEF Pels

LEMMA WordsAreIntegers ==
  ASSUME NEW w, NEW h, NEW s \in Pels(w, h, Word16)
  PROVE  s \in Pels(w, h, Int)
  <1>1. Word16 \subseteq Int
    BY MachineWords
  <1> QED
    BY <1>1 DEF Pels

LEMMA AddShaped ==
  ASSUME NEW w \in Dimension, NEW h \in Dimension, NEW s, NEW t, Shaped(s, w, h)
  PROVE  Shaped(AddSurfaces(s, t), w, h)
  <1>1. Width(s) = w /\ Height(s) = h
    BY SizeOf
  <1> QED
    BY <1>1 DEF AddSurfaces, Generate, Shaped

LEMMA SubtractShaped ==
  ASSUME NEW w \in Dimension, NEW h \in Dimension, NEW s, NEW t, Shaped(s, w, h)
  PROVE  Shaped(Subtract(s, t), w, h)
  <1>1. Width(s) = w /\ Height(s) = h
    BY SizeOf
  <1> QED
    BY <1>1 DEF Subtract, Generate, Shaped

LEMMA AddTyped ==
  ASSUME NEW w \in Dimension, NEW h \in Dimension, NEW s \in Pels(w, h, Int), NEW t \in Pels(w, h, Int)
  PROVE  AddSurfaces(s, t) \in Pels(w, h, Word16)
  <1>1. Width(s) = w /\ Height(s) = h
    BY PelsSize
  <1>2. ASSUME NEW y \in 0 .. h - 1, NEW x \in 0 .. w - 1 PROVE Int16(s[y][x] + t[y][x]) \in Word16
    <2>1. s[y][x] \in Int /\ t[y][x] \in Int
      BY PelOf
    <2> QED
      BY <2>1, Int16Word
  <1> QED
    BY <1>1, <1>2 DEF AddSurfaces, Generate, Pels

(* Adding nothing. *)
LEMMA FillTyped ==
  ASSUME NEW w \in Dimension, NEW h \in Dimension, NEW v
  PROVE  Fill(w, h, v) = [y \in 0 .. h - 1 |-> [x \in 0 .. w - 1 |-> v]]
  BY DEF Fill, Generate

LEMMA AddZeros ==
  ASSUME NEW w \in Dimension, NEW h \in Dimension, NEW s \in Pels(w, h, Word16)
  PROVE  /\ AddSurfaces(Fill(w, h, 0), s) = s
         /\ AddSurfaces(s, Fill(w, h, 0)) = s
  <1>1. PICK z : z = Fill(w, h, 0)
    OBVIOUS
  <1>2. z = [y \in 0 .. h - 1 |-> [x \in 0 .. w - 1 |-> 0]]
    BY <1>1, FillTyped
  <1>3. z \in Pels(w, h, {0})
    BY <1>2 DEF Pels
  <1>4. Width(z) = w /\ Height(z) = h /\ Width(s) = w /\ Height(s) = h
    BY <1>3, PelsSize
  <1>5. ASSUME NEW y \in 0 .. h - 1, NEW x \in 0 .. w - 1
        PROVE  Int16(z[y][x] + s[y][x]) = s[y][x] /\ Int16(s[y][x] + z[y][x]) = s[y][x]
    <2>1. s[y][x] \in Word16 /\ z[y][x] = 0
      BY <1>2, PelOf
    <2>2. \A v \in Word16 : 0 + v = v /\ v + 0 = v
      BY MachineWords
    <2> QED
      BY <2>1, <2>2, Int16Same
  <1>6. Shaped(s, w, h)
    BY PelsShaped
  <1>7. AddSurfaces(z, s) = [y \in 0 .. h - 1 |-> [x \in 0 .. w - 1 |-> Int16(z[y][x] + s[y][x])]]
    BY <1>4 DEF AddSurfaces, Generate
  <1>8. AddSurfaces(s, z) = [y \in 0 .. h - 1 |-> [x \in 0 .. w - 1 |-> Int16(s[y][x] + z[y][x])]]
    BY <1>4 DEF AddSurfaces, Generate
  <1>9. PICK t : t = [y \in 0 .. h - 1 |-> [x \in 0 .. w - 1 |-> s[y][x]]]
    OBVIOUS
  <1>10. AddSurfaces(z, s) = t
    BY <1>5, <1>7, <1>9
  <1>11. AddSurfaces(s, z) = t
    BY <1>5, <1>8, <1>9
  <1>12. s = t
    BY <1>6, <1>9, Zenon DEF Shaped
  <1> QED
    BY <1>1, <1>10, <1>11, <1>12

LEMMA ExpandTyped ==
  ASSUME NEW w \in Dimension, NEW h \in Dimension, NEW a \in Dimension, NEW b \in Dimension,
         NEW s \in Pels(a, b, Int)
  PROVE  Expand(s, w, h) \in Pels(w, h, Int)
  <1>1. Width(s) = a /\ Height(s) = b
    BY PelsSize
  <1>2. ASSUME NEW y \in 0 .. h - 1, NEW x \in 0 .. w - 1
        PROVE  s[Clamp(y, 0, Height(s) - 1)][Clamp(x, 0, Width(s) - 1)] \in Int
    <2>1. Clamp(y, 0, b - 1) \in 0 .. b - 1 /\ Clamp(x, 0, a - 1) \in 0 .. a - 1
      BY DEF Clamp, Dimension
    <2> QED
      BY <1>1, <2>1, PelOf
  <1> QED
    BY <1>2 DEF Expand, Generate, Pels

-----------------------------------------------------------------------------
(* Conversions.                                                            *)

Depths == {8, 10, 12, 14}

LEMMA ToInternalTyped ==
  ASSUME NEW w \in Dimension, NEW h \in Dimension, NEW s \in Pels(w, h, Int), NEW depth \in Depths
  PROVE  /\ ConvertToInternal(s, depth) \in Pels(w, h, Int)
         /\ depth # 8 \/ s \in Pels(w, h, 0 .. 255) => ConvertToInternal(s, depth) \in Pels(w, h, Word16)
  <1>1. Width(s) = w /\ Height(s) = h
    BY PelsSize
  <1>2. 2^7 = 128 /\ Middle = 16384
    BY DEF Middle
  <1>3. CASE depth = 8
    <2>1. ConvertToInternal(s, depth) = [y \in 0 .. h - 1 |-> [x \in 0 .. w - 1 |-> s[y][x] * 128 - 16384]]
      BY <1>1, <1>2, <1>3 DEF ConvertToInternal, FromU8, Mapped, Generate
    <2>2. \A y \in 0 .. h - 1, x \in 0 .. w - 1 : s[y][x] * 128 - 16384 \in Int
      BY PelOf
    <2>3. ASSUME s \in Pels(w, h, 0 .. 255)
          PROVE  \A y \in 0 .. h - 1, x \in 0 .. w - 1 : s[y][x] * 128 - 16384 \in Word16
      <3> TAKE y \in 0 .. h - 1, x \in 0 .. w - 1
      <3>1. s[y][x] \in 0 .. 255
        <4>1. PICK S : S = 0 .. 255
          OBVIOUS
        <4>2. s \in Pels(w, h, S)
          BY <2>3, <4>1
        <4>3. s[y][x] \in S
          BY <4>2, PelOf
        <4> QED
          BY <4>1, <4>3
      <3>2. \A v \in 0 .. 255 : v * 128 - 16384 \in Word16
        BY MachineWords
      <3> QED
        BY <3>1, <3>2
    <2> QED
      BY <1>3, <2>1, <2>2, <2>3 DEF Pels
  <1>4. CASE depth # 8
    <2>1. PICK m \in Nat \ {0} : m = 2^(15 - depth)
      <3>1. 15 - depth \in 0 .. 15
        BY DEF Depths
      <3> QED
        BY <3>1, SampleShifts
    <2>2. depth # 16
      BY DEF Depths
    <2>3. ConvertToInternal(s, depth)
            = [y \in 0 .. h - 1 |-> [x \in 0 .. w - 1 |-> Int16(s[y][x] * m - 16384)]]
      BY <1>1, <1>2, <1>4, <2>1, <2>2 DEF ConvertToInternal, FromU16, Mapped, Generate
    <2>4. ASSUME NEW y \in 0 .. h - 1, NEW x \in 0 .. w - 1 PROVE Int16(s[y][x] * m - 16384) \in Word16
      <3>1. s[y][x] \in Int
        BY PelOf
      <3>2. s[y][x] * m - 16384 \in Int
        BY <3>1
      <3> QED
        BY <3>2, Int16Word
    <2>5. ConvertToInternal(s, depth) \in Pels(w, h, Word16)
      BY <2>3, <2>4 DEF Pels
    <2> QED
      BY <2>5, WordsAreIntegers
  <1> QED
    BY <1>3, <1>4

LEMMA FromInternalTyped ==
  ASSUME NEW w \in Dimension, NEW h \in Dimension, NEW s \in Pels(w, h, Int), NEW depth \in Depths
  PROVE  ConvertFromInternal(s, depth) \in Pels(w, h, Int)
  <1>1. Width(s) = w /\ Height(s) = h
    BY PelsSize
  <1>2. Middle = 16384
    BY DEF Middle
  <1>3a. PICK k \in 0 .. 15 : k = IF depth = 8 THEN 7 ELSE 15 - depth
    BY DEF Depths
  <1>3. PICK m \in Nat \ {0} : m = 2^k
    BY SampleShifts
  <1>4. PICK top \in Int : top = IF depth = 8 THEN 255 ELSE 32767 \div m
    OBVIOUS
  <1>5. ConvertFromInternal(s, depth)
          = [y \in 0 .. h - 1 |-> [x \in 0 .. w - 1 |->
               Clamp((s[y][x] + Middle + (m \div 2)) \div m, 0, top)]]
    <2>1. depth # 16
      BY DEF Depths
    <2>2. CASE depth = 8
      BY <1>1, <1>3a, <1>3, <1>4, <2>1, <2>2 DEF ConvertFromInternal, ToU8, Mapped, Generate
    <2>3. CASE depth # 8
      BY <1>1, <1>3a, <1>3, <1>4, <2>1, <2>3 DEF ConvertFromInternal, ToU16, Mapped, Generate
    <2> QED
      BY <2>2, <2>3
  <1>6. ASSUME NEW y \in 0 .. h - 1, NEW x \in 0 .. w - 1
        PROVE  Clamp((s[y][x] + Middle + (m \div 2)) \div m, 0, top) \in Int
    <2>1. s[y][x] \in Int
      BY PelOf
    <2>2. PICK d \in Int : d = m \div 2
      OBVIOUS
    <2>3. s[y][x] + Middle + d \in Int
      BY <1>2, <2>1
    <2>4. (s[y][x] + Middle + d) \div m \in Int
      BY <2>3
    <2> QED
      BY <2>2, <2>4 DEF Clamp
  <1> QED
    BY <1>5, <1>6 DEF Pels

LEMMA BitShiftTyped ==
  ASSUME NEW w \in Dimension, NEW h \in Dimension, NEW s \in Pels(w, h, Int),
         NEW from \in Depths, NEW to \in Depths
  PROVE  ConvertBitShift(s, from, to) \in Pels(w, h, Int)
  <1>1. Width(s) = w /\ Height(s) = h
    BY PelsSize
  <1>2. CASE from = to
    BY <1>2 DEF ConvertBitShift
  <1>3. CASE to > from
    <2>1. PICK m \in Nat \ {0} : m = 2^(to - from)
      <3>1. to - from \in 0 .. 15
        BY <1>3 DEF Depths
      <3> QED
        BY <3>1, SampleShifts
    <2>2. \A y \in 0 .. h - 1, x \in 0 .. w - 1 : s[y][x] * m \in Int /\ (s[y][x] * m) % 65536 \in Int
      <3> TAKE y \in 0 .. h - 1, x \in 0 .. w - 1
      <3>1. s[y][x] * m \in Int
        BY PelOf
      <3> QED
        BY <3>1
    <2>3. from # to
      BY <1>3 DEF Depths
    <2> QED
      BY <1>1, <1>3, <2>1, <2>2, <2>3
      DEF ConvertBitShift, LeftShiftFromU8, LeftShiftFromU16, Mapped, Generate, Pels
  <1>4. CASE from > to
    <2>1. PICK m \in Nat \ {0} : m = 2^(from - to)
      <3>1. from - to \in 0 .. 15
        BY <1>4 DEF Depths
      <3> QED
        BY <3>1, SampleShifts
    <2>2. \A y \in 0 .. h - 1, x \in 0 .. w - 1 : s[y][x] \div m \in Int /\ (s[y][x] \div m) % 256 \in Int
      <3> TAKE y \in 0 .. h - 1, x \in 0 .. w - 1
      <3>1. s[y][x] \in Int
        BY PelOf
      <3>2. s[y][x] \div m \in Int
        BY <3>1
      <3> QED
        BY <3>2
    <2>3. from # to /\ ~(to > from)
      BY <1>4 DEF Depths
    <2> QED
      BY <1>1, <1>4, <2>1, <2>2, <2>3
      DEF ConvertBitShift, RightShiftToU8, RightShiftToU16, Mapped, Generate, Pels
  <1> QED
    BY <1>2, <1>3, <1>4 DEF Depths

-----------------------------------------------------------------------------
(* Resampling.                                                             *)

LEMMA UpsampledWord ==
  ASSUME NEW size \in Dimension, NEW kernel, \A k \in 1 .. 4 : kernel[k] \in Int,
         NEW samples \in [0 .. size - 1 -> Int], NEW i \in Nat
  PROVE  UpsampledPel(i, size, kernel, samples) \in Word16
  <1> DEFINE term(k) == kernel[IF i % 2 = 1 THEN k + 1 ELSE 4 - k]
                          * samples[Clamp(((i - 1) \div 2) + k - 1, 0, size - 1)]
             Loop(f) == f = [k \in 0 .. 4 |-> IF k = 0 THEN 0 ELSE f[k - 1] + term(k - 1)]
             F == CHOOSE f : Loop(f)
             t == [k \in 0 .. 3 |-> term(k)]
  <1>1. ASSUME NEW k \in 0 .. 3 PROVE t[k] = term(k) /\ term(k) \in Int
    <2>1. (IF i % 2 = 1 THEN k + 1 ELSE 4 - k) \in 1 .. 4
      OBVIOUS
    <2>2. ((i - 1) \div 2) + k - 1 \in Int
      OBVIOUS
    <2>3. \A n \in Int : Clamp(n, 0, size - 1) \in 0 .. size - 1
      BY DEF Clamp, Dimension
    <2>4. Clamp(((i - 1) \div 2) + k - 1, 0, size - 1) \in 0 .. size - 1
      BY <2>2, <2>3
    <2> QED
      BY <2>1, <2>4
  <1> HIDE DEF term
  <1>2. PICK f : SumsOf(f, t, 4)
    <2>1. 4 \in Nat /\ \A k \in 0 .. 4 - 1 : t[k] \in Int
      BY <1>1
    <2> HIDE DEF t
    <2> QED
      BY <2>1, SumExists
  <1>3. \A g : Loop(g) <=> SumsOf(g, t, 4)
    <2> TAKE g
    <2>1. \A k \in 0 .. 4 : k # 0 => t[k - 1] = term(k - 1)
      BY <1>1
    <2> HIDE DEF t
    <2> QED
      BY <2>1 DEF SumsOf
  <1>4. Loop(F)
    <2>1. \E g : Loop(g)
      BY <1>2, <1>3
    <2> QED
      BY <2>1
  <1>6. F[4] \in Int
    <2>1. SumsOf(F, t, 4)
      BY <1>3, <1>4
    <2>2. 4 \in Nat /\ \A k \in 0 .. 4 - 1 : t[k] \in Int
      BY <1>1
    <2> HIDE DEF t, F
    <2> QED
      BY <2>1, <2>2, SumTyped
  <1>7. UpsampledPel(i, size, kernel, samples) = Int16((8192 + F[4]) \div 16384)
    BY DEF UpsampledPel, Total, term
  <1> HIDE DEF F
  <1>8. (8192 + F[4]) \div 16384 \in Int
    BY <1>6
  <1> QED
    BY <1>7, <1>8, Int16Word

LEMMA UpsampleTyped ==
  ASSUME NEW w \in Dimension, NEW h \in Dimension, NEW s \in Pels(w, h, Word16),
         NEW kernel, \A k \in 1 .. 4 : kernel[k] \in Int
  PROVE  /\ Upsample(s, "None", kernel) = s
         /\ Upsample(s, "1D", kernel) \in Pels(2 * w, h, Word16)
         /\ Upsample(s, "2D", kernel) \in Pels(2 * w, 2 * h, Word16)
  <1>1. Width(s) = w /\ Height(s) = h /\ DOMAIN s = 0 .. h - 1
    BY PelsSize
  <1>2. s \in Pels(w, h, Int)
    BY WordsAreIntegers
  <1>3. ASSUME NEW n \in Dimension, NEW r \in Pels(w, n, Int)
        PROVE  UpsampleColumns(r, kernel) \in Pels(2 * w, n, Word16)
    <2>1. Width(r) = w /\ Height(r) = n
      BY <1>3, PelsSize
    <2>2. ASSUME NEW y \in 0 .. n - 1, NEW x \in 0 .. 2 * w - 1
          PROVE  UpsampledPel(x, w, kernel, r[y]) \in Word16
      <3>1. r[y] \in [0 .. w - 1 -> Int] /\ x \in Nat
        BY <1>3 DEF Pels
      <3> QED
        BY <3>1, UpsampledWord
    <2> QED
      BY <2>1, <2>2 DEF UpsampleColumns, Generate, Pels
  <1>4. UpsampleRows(s, kernel) \in Pels(w, 2 * h, Word16)
    <2>1. ASSUME NEW y \in 0 .. 2 * h - 1, NEW x \in 0 .. w - 1
          PROVE  UpsampledPel(y, h, kernel, Column(s, x)) \in Word16
      <3>2. \A k \in 0 .. h - 1 : s[k][x] \in Int
        BY <1>2, PelOf
      <3>1. Column(s, x) \in [0 .. h - 1 -> Int] /\ y \in Nat
        BY <1>1, <3>2 DEF Column
      <3> QED
        BY <3>1, UpsampledWord
    <2> QED
      BY <1>1, <2>1 DEF UpsampleRows, Generate, Pels
  <1>5. UpsampleRows(s, kernel) \in Pels(w, 2 * h, Int) /\ 2 * h \in Dimension
    BY <1>4, WordsAreIntegers DEF Dimension
  <1> QED
    BY <1>2, <1>3, <1>5 DEF Upsample, UpsampleBoth

LEMMA AdjustTyped ==
  ASSUME NEW w \in Dimension, NEW h \in Dimension, NEW base \in Pels(w, h, Word16), NEW s
  PROVE  /\ Adjust(base, s, "None") = s
         /\ s \in Pels(2 * w, h, Word16) => Adjust(base, s, "1D") \in Pels(2 * w, h, Word16)
         /\ s \in Pels(2 * w, 2 * h, Word16) => Adjust(base, s, "2D") \in Pels(2 * w, 2 * h, Word16)
  <1>1. \A v \in Int : Clamp(v, -32767, 32767) \in Word16
    <2> TAKE v \in Int
    <2>1. CASE v < -32767
      <3>1. Clamp(v, -32767, 32767) = -32767
        BY <2>1 DEF Clamp
      <3>2. -32767 \in Word16
        BY MachineWords
      <3> QED
        BY <3>1, <3>2
    <2>2. CASE v > 32767
      <3>1. ~(v < -32767)
        BY <2>2
      <3>2. Clamp(v, -32767, 32767) = 32767
        BY <2>2, <3>1 DEF Clamp
      <3>3. 32767 \in Word16
        BY MachineWords
      <3> QED
        BY <3>2, <3>3
    <2>3. CASE ~(v < -32767) /\ ~(v > 32767)
      <3>1. Clamp(v, -32767, 32767) = v
        BY <2>3 DEF Clamp
      <3>2. -32768 <= v /\ v <= 32767
        BY <2>3
      <3>3. v \in Word16
        BY <3>2, InWord
      <3> QED
        BY <3>1, <3>3
    <2> QED
      BY <2>1, <2>2, <2>3
  <1>2. \A n \in Nat : \A y \in 0 .. 2 * n - 1 :
          /\ y \div 2 \in 0 .. n - 1
          /\ 2 * (y \div 2) \in 0 .. 2 * n - 1 /\ 2 * (y \div 2) + 1 \in 0 .. 2 * n - 1
    OBVIOUS
  <1>3. base \in Pels(w, h, Int) /\ 2 * w \in Dimension /\ 2 * h \in Dimension
    BY WordsAreIntegers DEF Dimension
  <1>4. ASSUME s \in Pels(2 * w, h, Word16)
        PROVE  Adjust(base, s, "1D") \in Pels(2 * w, h, Word16)
    <2>1. s \in Pels(2 * w, h, Int)
      BY <1>4, WordsAreIntegers
    <2>2. Width(s) = 2 * w /\ Height(s) = h
      BY <1>3, <2>1, PelsSize
    <2>3. ASSUME NEW y \in 0 .. h - 1, NEW x \in 0 .. 2 * w - 1
          PROVE  s[y][x] + base[y][x \div 2] - ((Sum1D(s, x \div 2, y) + 1) \div 2) \in Int
      <3>1. /\ x \div 2 \in 0 .. w - 1
            /\ 2 * (x \div 2) \in 0 .. 2 * w - 1 /\ 2 * (x \div 2) + 1 \in 0 .. 2 * w - 1
        BY <1>2 DEF Dimension
      <3>2. s[y][x] \in Int /\ base[y][x \div 2] \in Int
        BY <1>3, <2>1, <3>1, PelOf
      <3>3. s[y][2 * (x \div 2)] \in Int /\ s[y][2 * (x \div 2) + 1] \in Int
        BY <2>1, <3>1, PelOf
      <3>4. Sum1D(s, x \div 2, y) \in Int
        BY <3>3 DEF Sum1D
      <3>5. (Sum1D(s, x \div 2, y) + 1) \div 2 \in Int
        BY <3>4
      <3> QED
        BY <3>2, <3>5
    <2> QED
      BY <1>1, <2>2, <2>3 DEF Adjust, Adjust1D, Generate, Pels
  <1>5. ASSUME s \in Pels(2 * w, 2 * h, Word16)
        PROVE  Adjust(base, s, "2D") \in Pels(2 * w, 2 * h, Word16)
    <2>1. s \in Pels(2 * w, 2 * h, Int)
      BY <1>5, WordsAreIntegers
    <2>2. Width(s) = 2 * w /\ Height(s) = 2 * h
      BY <1>3, <2>1, PelsSize
    <2>3. ASSUME NEW y \in 0 .. 2 * h - 1, NEW x \in 0 .. 2 * w - 1
          PROVE  s[y][x] + base[y \div 2][x \div 2] - ((Sum2D(s, x \div 2, y \div 2) + 2) \div 4) \in Int
      <3>1. /\ x \div 2 \in 0 .. w - 1
            /\ 2 * (x \div 2) \in 0 .. 2 * w - 1 /\ 2 * (x \div 2) + 1 \in 0 .. 2 * w - 1
            /\ y \div 2 \in 0 .. h - 1
            /\ 2 * (y \div 2) \in 0 .. 2 * h - 1 /\ 2 * (y \div 2) + 1 \in 0 .. 2 * h - 1
        BY <1>2 DEF Dimension
      <3>2. s[y][x] \in Int /\ base[y \div 2][x \div 2] \in Int
        BY <1>3, <2>1, <3>1, PelOf
      <3>3. /\ s[2 * (y \div 2)][2 * (x \div 2)] \in Int
            /\ s[2 * (y \div 2)][2 * (x \div 2) + 1] \in Int
            /\ s[2 * (y \div 2) + 1][2 * (x \div 2)] \in Int
            /\ s[2 * (y \div 2) + 1][2 * (x \div 2) + 1] \in Int
        BY <2>1, <3>1, PelOf
      <3>4. Sum2D(s, x \div 2, y \div 2) \in Int
        BY <3>3 DEF Sum2D
      <3>5. (Sum2D(s, x \div 2, y \div 2) + 2) \div 4 \in Int
        BY <3>4
      <3> QED
        BY <3>2, <3>5
    <2> QED
      BY <1>1, <2>2, <2>3 DEF Adjust, Adjust2D, Generate, Pels
  <1> QED
    BY <1>4, <1>5 DEF Adjust

LEMMA KernelTyped ==
  ASSUME NEW upsample \in Upsamples, NEW c, \A k \in 1 .. 4 : c[k] \in Int
  PROVE  \A k \in 1 .. 4 : UpsampleKernel(upsample, c)[k] \in Int
  <1>1. c[1] \in Int /\ c[2] \in Int /\ c[3] \in Int /\ c[4] \in Int
    OBVIOUS
  <1>2. \A k \in 1 .. 4 : k = 1 \/ k = 2 \/ k = 3 \/ k = 4
    OBVIOUS
  <1>3. CASE upsample = "AdaptiveCubic"
    BY <1>1, <1>2, <1>3 DEF UpsampleKernel
  <1>4. CASE upsample # "AdaptiveCubic"
    BY <1>2, <1>4 DEF UpsampleKernel, UpsampleKernels, Upsamples
  <1> QED
    BY <1>3, <1>4

LEMMA DownsampledTyped ==
  ASSUME NEW size \in Dimension, NEW kernel, NEW taps, taps = kernel.taps, NEW len \in Nat, len = Len(taps),
         kernel.offset \in Int, \A k \in 1 .. len : taps[k] \in Int,
         NEW samples \in [0 .. 2 * size - 1 -> Int], NEW i \in Nat
  PROVE  DownsampledPel(i, size, kernel, samples) \in Int
  <1> DEFINE term(k) == taps[k + 1] * samples[Clamp(2 * i + k + kernel.offset, 0, 2 * size - 1)]
             Loop(f) == f = [k \in 0 .. len |-> IF k = 0 THEN 0 ELSE f[k - 1] + term(k - 1)]
             F == CHOOSE f : Loop(f)
             t == [k \in 0 .. len - 1 |-> term(k)]
  <1>1. ASSUME NEW k \in 0 .. len - 1 PROVE t[k] = term(k) /\ term(k) \in Int
    <2>1. k + 1 \in 1 .. len
      OBVIOUS
    <2>2. 2 * i + k + kernel.offset \in Int
      OBVIOUS
    <2>3. \A n \in Int : Clamp(n, 0, 2 * size - 1) \in 0 .. 2 * size - 1
      BY DEF Clamp, Dimension
    <2>4. Clamp(2 * i + k + kernel.offset, 0, 2 * size - 1) \in 0 .. 2 * size - 1
      BY <2>2, <2>3
    <2> QED
      BY <2>1, <2>4
  <1> HIDE DEF term
  <1>2. PICK f : SumsOf(f, t, len)
    <2>1. \A k \in 0 .. len - 1 : t[k] \in Int
      BY <1>1
    <2> HIDE DEF t
    <2> QED
      BY <2>1, SumExists
  <1>3. \A g : Loop(g) <=> SumsOf(g, t, len)
    <2> TAKE g
    <2>1. \A k \in 0 .. len : k # 0 => t[k - 1] = term(k - 1)
      BY <1>1
    <2> HIDE DEF t
    <2> QED
      BY <2>1 DEF SumsOf
  <1>4. Loop(F)
    <2>1. \E g : Loop(g)
      BY <1>2, <1>3
    <2> QED
      BY <2>1
  <1>5. F[len] \in Int
    <2>1. SumsOf(F, t, len)
      BY <1>3, <1>4
    <2>2. \A k \in 0 .. len - 1 : t[k] \in Int
      BY <1>1
    <2> HIDE DEF t, F
    <2> QED
      BY <2>1, <2>2, SumTyped
  <1>6. DownsampledPel(i, size, kernel, samples) = ClampInt16((8192 + F[len]) \div 16384)
    BY DEF DownsampledPel, Total, term
  <1> HIDE DEF F
  <1>7. (8192 + F[len]) \div 16384 \in Int
    BY <1>5
  <1> QED
    BY <1>6, <1>7 DEF ClampInt16, Clamp

DownsampleKernel(kernel) ==
  /\ kernel.offset \in Int
  /\ Len(kernel.taps) \in Nat
  /\ \A k \in 1 .. Len(kernel.taps) : kernel.taps[k] \in Int

LEMMA DownsampleKernelTyped ==
  ASSUME NEW downsample \in Downsamples
  PROVE  DownsampleKernel(DownsampleKernels[downsample])
  <1>1. CASE downsample = "Area"
    <2>1. DownsampleKernels[downsample] = [offset |-> 0, taps |-> <<8192, 8192>>]
      BY <1>1 DEF DownsampleKernels
    <2> QED
      BY <2>1 DEF DownsampleKernel
  <1>2. CASE downsample = "Lanczos"
    <2>1. DownsampleKernels[downsample]
            = [offset |-> -3, taps |-> <<-383, -399, 2466, 6506, 6506, 2466, -399, -383>>]
      BY <1>2 DEF DownsampleKernels
    <2> QED
      BY <2>1 DEF DownsampleKernel
  <1>3. CASE downsample = "Lanczos3"
    <2>1. DownsampleKernels[downsample]
            = [offset |-> -5, taps |-> <<60, 247, -557, -1092, 2220, 7314,
                                         7314, 2220, -1092, -557, 247, 60>>]
      BY <1>3 DEF DownsampleKernels
    <2> QED
      BY <2>1 DEF DownsampleKernel
  <1> QED
    BY <1>1, <1>2, <1>3 DEF Downsamples

LEMMA DownsampleTyped ==
  ASSUME NEW w \in Dimension, NEW h \in Dimension, NEW kernel, DownsampleKernel(kernel),
         NEW s, NEW from \in Depths, NEW to \in Depths
  PROVE  /\ s \in Pels(w, h, Int) => DownsampleImage(s, from, to, "None", kernel) \in Pels(w, h, Int)
         /\ s \in Pels(2 * w, h, Int) => DownsampleImage(s, from, to, "1D", kernel) \in Pels(w, h, Int)
         /\ s \in Pels(2 * w, 2 * h, Int) => DownsampleImage(s, from, to, "2D", kernel) \in Pels(w, h, Int)
  <1>1. /\ 2 * w \in Dimension /\ 2 * h \in Dimension
        /\ (2 * w + 1) \div 2 = w /\ (2 * h + 1) \div 2 = h
    BY DEF Dimension
  <1>2. ASSUME NEW n \in Dimension, NEW r \in Pels(2 * w, n, Int)
        PROVE  DownsampleColumns(r, kernel) \in Pels(w, n, Int)
    <2>1. Width(r) = 2 * w /\ Height(r) = n
      BY <1>1, <1>2, PelsSize
    <2>2. ASSUME NEW y \in 0 .. n - 1, NEW x \in 0 .. w - 1
          PROVE  DownsampledPel(x, w, kernel, r[y]) \in Int
      <3>1. r[y] \in [0 .. 2 * w - 1 -> Int] /\ x \in Nat
        BY <1>2 DEF Pels
      <3> QED
        BY <3>1, DownsampledTyped DEF DownsampleKernel
    <2> QED
      BY <1>1, <2>1, <2>2 DEF DownsampleColumns, Generate, Pels
  <1>3. ASSUME NEW r \in Pels(w, 2 * h, Int)
        PROVE  DownsampleRows(r, kernel) \in Pels(w, h, Int)
    <2>1. Width(r) = w /\ Height(r) = 2 * h /\ DOMAIN r = 0 .. 2 * h - 1
      BY <1>1, <1>3, PelsSize
    <2>2. ASSUME NEW y \in 0 .. h - 1, NEW x \in 0 .. w - 1
          PROVE  DownsampledPel(y, h, kernel, Column(r, x)) \in Int
      <3>1. \A k \in 0 .. 2 * h - 1 : r[k][x] \in Int
        BY <1>3, PelOf
      <3>2. Column(r, x) \in [0 .. 2 * h - 1 -> Int] /\ y \in Nat
        BY <2>1, <3>1 DEF Column
      <3> QED
        BY <3>2, DownsampledTyped DEF DownsampleKernel
    <2> QED
      BY <1>1, <2>1, <2>2 DEF DownsampleRows, Generate, Pels
  <1>4. s \in Pels(w, h, Int) => DownsampleImage(s, from, to, "None", kernel) \in Pels(w, h, Int)
    BY BitShiftTyped DEF DownsampleImage
  <1>5. ASSUME s \in Pels(2 * w, h, Int)
        PROVE  DownsampleImage(s, from, to, "1D", kernel) \in Pels(w, h, Int)
    <2>1. ConvertToInternal(s, from) \in Pels(2 * w, h, Int)
      BY <1>1, <1>5, ToInternalTyped
    <2>2. DownsampleColumns(ConvertToInternal(s, from), kernel) \in Pels(w, h, Int)
      BY <1>2, <2>1
    <2> QED
      BY <2>2, FromInternalTyped DEF DownsampleImage
  <1>6. ASSUME s \in Pels(2 * w, 2 * h, Int)
        PROVE  DownsampleImage(s, from, to, "2D", kernel) \in Pels(w, h, Int)
    <2>1. ConvertToInternal(s, from) \in Pels(2 * w, 2 * h, Int)
      BY <1>1, <1>6, ToInternalTyped
    <2>2. DownsampleColumns(ConvertToInternal(s, from), kernel) \in Pels(w, 2 * h, Int)
      BY <1>1, <1>2, <2>1
    <2>3. DownsampleBoth(ConvertToInternal(s, from), kernel) \in Pels(w, h, Int)
      BY <1>3, <2>2 DEF DownsampleBoth
    <2> QED
      BY <2>3, FromInternalTyped DEF DownsampleImage
  <1> QED
    BY <1>4, <1>5, <1>6

-----------------------------------------------------------------------------
(* The sizes of the base (0) and of the sub-layers, and of their layers.   *)

Half(n, scaled) == IF scaled THEN n \div 2 ELSE n

WidthAt(c, level) ==
  CASE level = 2 -> c.width
    [] level = 1 -> Half(c.width, c.scaling[2] # "None")
    [] level = 0 -> Half(Half(c.width, c.scaling[2] # "None"), c.scaling[1] # "None")

HeightAt(c, level) ==
  CASE level = 2 -> c.height
    [] level = 1 -> Half(c.height, c.scaling[2] = "2D")
    [] level = 0 -> Half(Half(c.height, c.scaling[2] = "2D"), c.scaling[1] = "2D")

Across(c, level) == WidthAt(c, level) \div c.size
Down(c, level) == HeightAt(c, level) \div c.size

(* What the sizes of two sub-layers have to do with each other. *)
Doubled(c, level) ==
  /\ WidthAt(c, level) = IF c.scaling[level] = "None" THEN WidthAt(c, level - 1)
                                                      ELSE 2 * WidthAt(c, level - 1)
  /\ HeightAt(c, level) = IF c.scaling[level] = "2D" THEN 2 * HeightAt(c, level - 1)
                                                     ELSE HeightAt(c, level - 1)

Frame(c) ==
  /\ c.size \in {2, 4}
  /\ \A l \in 0 .. 2 : WidthAt(c, l) \in Dimension /\ HeightAt(c, l) \in Dimension
  /\ \A l \in 1 .. 2 : Across(c, l) \in Dimension /\ Down(c, l) \in Dimension
  /\ \A l \in 1 .. 2 : WidthAt(c, l) = c.size * Across(c, l) /\ HeightAt(c, l) = c.size * Down(c, l)
  /\ \A l \in 1 .. 2 : Doubled(c, l)
  /\ \A l \in 1 .. 2 : c.scaling[l] \in ScalingModes

LEMMA Halves ==
  ASSUME NEW n \in Dimension, NEW size \in {2, 4}, NEW scaled \in BOOLEAN,
         n % (IF scaled THEN 2 * size ELSE size) = 0
  PROVE  /\ Half(n, scaled) \in Dimension /\ Half(n, scaled) % size = 0 /\ n % size = 0
         /\ n = IF scaled THEN 2 * Half(n, scaled) ELSE Half(n, scaled)
  <1>1. n \in Nat /\ n > 0
    BY DEF Dimension
  <1>2. CASE ~scaled
    BY <1>1, <1>2 DEF Half, Dimension
  <1>3. CASE scaled /\ size = 2
    <2>1. n % 4 = 0
      BY <1>3
    <2>2. (n \div 2) % 2 = 0 /\ n % 2 = 0 /\ n = 2 * (n \div 2) /\ n \div 2 \in Nat /\ n \div 2 > 0
      BY <1>1, <2>1
    <2> QED
      BY <1>3, <2>2 DEF Half, Dimension
  <1>4. CASE scaled /\ size = 4
    <2>1. n % 8 = 0
      BY <1>4
    <2>2. (n \div 2) % 4 = 0 /\ n % 4 = 0 /\ n = 2 * (n \div 2) /\ n \div 2 \in Nat /\ n \div 2 > 0
      BY <1>1, <2>1
    <2> QED
      BY <1>4, <2>2 DEF Half, Dimension
  <1> QED
    BY <1>2, <1>3, <1>4

LEMMA Multiples ==
  ASSUME NEW n \in Dimension, NEW size \in {2, 4}, n % size = 0
  PROVE  n \div size \in Dimension /\ n = size * (n \div size) /\ n % 2 = 0
  <1>1. n \in Nat /\ n > 0
    BY DEF Dimension
  <1>2. CASE size = 2
    BY <1>1, <1>2 DEF Dimension
  <1>3. CASE size = 4
    BY <1>1, <1>3 DEF Dimension
  <1> QED
    BY <1>2, <1>3

LEMMA Even ==
  ASSUME NEW n \in Dimension, NEW scaled \in BOOLEAN, n % 2 = 0
  PROVE  /\ Half(n, scaled) \in Dimension
         /\ n = IF scaled THEN 2 * Half(n, scaled) ELSE Half(n, scaled)
  <1>1. n \in Nat /\ n > 0
    BY DEF Dimension
  <1>2. n = 2 * (n \div 2) /\ n \div 2 \in Nat /\ n \div 2 > 0
    BY <1>1
  <1> QED
    BY <1>2 DEF Half, Dimension

LEMMA Frames ==
  ASSUME NEW c \in Configurations
  PROVE  Frame(c)
  <1>1. /\ c.size \in {2, 4} /\ c.width \in Dimension /\ c.height \in Dimension
        /\ c.scaling[1] \in ScalingModes /\ c.scaling[2] \in ScalingModes
        /\ c.width % (IF c.scaling[2] = "None" THEN c.size ELSE 2 * c.size) = 0
        /\ c.height % (IF c.scaling[2] = "2D" THEN 2 * c.size ELSE c.size) = 0
    BY ConfigurationsAssumption DEF Dimension
  <1> DEFINE w1 == Half(c.width, c.scaling[2] # "None")
             h1 == Half(c.height, c.scaling[2] = "2D")
             w0 == Half(w1, c.scaling[1] # "None")
             h0 == Half(h1, c.scaling[1] = "2D")
  <1>2. /\ w1 \in Dimension /\ w1 % c.size = 0 /\ c.width % c.size = 0
        /\ c.width = IF c.scaling[2] # "None" THEN 2 * w1 ELSE w1
    <2>1. PICK b \in BOOLEAN : b = (c.scaling[2] # "None")
      OBVIOUS
    <2>2. c.width % (IF b THEN 2 * c.size ELSE c.size) = 0
      BY <1>1, <2>1
    <2> QED
      BY <1>1, <2>1, <2>2, Halves
  <1>3. /\ h1 \in Dimension /\ h1 % c.size = 0 /\ c.height % c.size = 0
        /\ c.height = IF c.scaling[2] = "2D" THEN 2 * h1 ELSE h1
    <2>1. PICK b \in BOOLEAN : b = (c.scaling[2] = "2D")
      OBVIOUS
    <2>2. c.height % (IF b THEN 2 * c.size ELSE c.size) = 0
      BY <1>1, <2>1
    <2> QED
      BY <1>1, <2>1, <2>2, Halves
  <1> HIDE DEF w1, h1
  <1>4. /\ w1 \div c.size \in Dimension /\ w1 = c.size * (w1 \div c.size) /\ w1 % 2 = 0
        /\ h1 \div c.size \in Dimension /\ h1 = c.size * (h1 \div c.size) /\ h1 % 2 = 0
    BY <1>1, <1>2, <1>3, Multiples
  <1>5. /\ c.width \div c.size \in Dimension /\ c.width = c.size * (c.width \div c.size)
        /\ c.height \div c.size \in Dimension /\ c.height = c.size * (c.height \div c.size)
    BY <1>1, <1>2, <1>3, Multiples
  <1>6. w0 \in Dimension /\ w1 = IF c.scaling[1] # "None" THEN 2 * w0 ELSE w0
    <2>1. PICK b \in BOOLEAN : b = (c.scaling[1] # "None")
      OBVIOUS
    <2> QED
      BY <1>2, <1>4, <2>1, Even
  <1>7. h0 \in Dimension /\ h1 = IF c.scaling[1] = "2D" THEN 2 * h0 ELSE h0
    <2>1. PICK b \in BOOLEAN : b = (c.scaling[1] = "2D")
      OBVIOUS
    <2> QED
      BY <1>3, <1>4, <2>1, Even
  <1> HIDE DEF w0, h0
  <1>8. /\ WidthAt(c, 2) = c.width /\ WidthAt(c, 1) = w1 /\ WidthAt(c, 0) = w0
        /\ HeightAt(c, 2) = c.height /\ HeightAt(c, 1) = h1 /\ HeightAt(c, 0) = h0
    BY DEF WidthAt, HeightAt, w1, h1, w0, h0
  <1>9. Doubled(c, 1) /\ Doubled(c, 2)
    <2>1. 1 - 1 = 0 /\ 2 - 1 = 1
      OBVIOUS
    <2> QED
      BY <1>2, <1>3, <1>6, <1>7, <1>8, <2>1 DEF Doubled
  <1>10. /\ Across(c, 1) = w1 \div c.size /\ Across(c, 2) = c.width \div c.size
         /\ Down(c, 1) = h1 \div c.size /\ Down(c, 2) = c.height \div c.size
    BY <1>8 DEF Across, Down
  <1>11. (\A l \in 0 .. 2 : l = 0 \/ l = 1 \/ l = 2) /\ (\A l \in 1 .. 2 : l = 1 \/ l = 2)
    OBVIOUS
  <1>12. \A l \in 0 .. 2 : WidthAt(c, l) \in Dimension /\ HeightAt(c, l) \in Dimension
    BY <1>1, <1>2, <1>3, <1>6, <1>7, <1>8, <1>11
  <1>13. \A l \in 1 .. 2 : /\ Across(c, l) \in Dimension /\ Down(c, l) \in Dimension
                           /\ WidthAt(c, l) = c.size * Across(c, l) /\ HeightAt(c, l) = c.size * Down(c, l)
    BY <1>4, <1>5, <1>8, <1>10, <1>11
  <1> QED
    BY <1>1, <1>9, <1>11, <1>12, <1>13 DEF Frame

(* An element of a layer for every block. *)
LEMMA BlockOf ==
  ASSUME NEW size \in {2, 4}, NEW n \in Dimension, NEW x \in 0 .. size * n - 1
  PROVE  x \div size \in 0 .. n - 1
  <1>1. n \in Nat
    BY DEF Dimension
  <1>2. CASE size = 2
    BY <1>1, <1>2
  <1>3. CASE size = 4
    BY <1>1, <1>3
  <1> QED
    BY <1>2, <1>3

-----------------------------------------------------------------------------
(* Prediction, as a function of what is below.                             *)

Upsampled(c, below, level) ==
  Upsample(below, c.scaling[level], UpsampleKernel(c.upsample, c.upsampling_coefficients))

PredictionOf(c, below, level) ==
  IF c.predicted_residual THEN Adjust(below, Upsampled(c, below, level), c.scaling[level])
                          ELSE Upsampled(c, below, level)

IntermediateDepthOf(c) == IF c.level1_depth_flag THEN c.enhancement_depth ELSE c.base_depth
ShiftedDepth(c) == IF c.enhancement_depth > c.base_depth THEN IntermediateDepthOf(c) ELSE c.base_depth

BaseOf(c, base) == ConvertToInternal(ConvertBitShift(base, c.base_depth, ShiftedDepth(c)), ShiftedDepth(c))

BaseTyped(c, base) ==
  /\ base \in Pels(WidthAt(c, 0), HeightAt(c, 0), Int)
  /\ c.base_depth = 8 => base \in Pels(WidthAt(c, 0), HeightAt(c, 0), 0 .. 255)

LEMMA BaseOfTyped ==
  ASSUME NEW c \in Configurations, NEW base, BaseTyped(c, base)
  PROVE  BaseOf(c, base) \in Pels(WidthAt(c, 0), HeightAt(c, 0), Word16)
  <1>1. c.base_depth \in Depths /\ c.enhancement_depth \in Depths
    BY ConfigurationsAssumption DEF Depths
  <1>2. PICK w \in Dimension, h \in Dimension : w = WidthAt(c, 0) /\ h = HeightAt(c, 0)
    BY Frames DEF Frame
  <1>3. PICK to \in Depths : to = ShiftedDepth(c)
    BY <1>1 DEF ShiftedDepth, IntermediateDepthOf
  <1>4. to = 8 => c.base_depth = 8
    <2>1. CASE c.enhancement_depth > c.base_depth /\ c.level1_depth_flag
      <3>1. to = c.enhancement_depth
        BY <1>3, <2>1 DEF ShiftedDepth, IntermediateDepthOf
      <3>2. to # 8
        BY <1>1, <2>1, <3>1 DEF Depths
      <3> QED
        BY <3>2
    <2>2. CASE ~(c.enhancement_depth > c.base_depth /\ c.level1_depth_flag)
      BY <1>3, <2>2 DEF ShiftedDepth, IntermediateDepthOf
    <2> QED
      BY <2>1, <2>2
  <1>5. base \in Pels(w, h, Int)
    BY <1>2 DEF BaseTyped
  <1>6. PICK s : s = ConvertBitShift(base, c.base_depth, to)
    OBVIOUS
  <1>7. s \in Pels(w, h, Int)
    BY <1>1, <1>5, <1>6, BitShiftTyped
  <1>8. to # 8 \/ s \in Pels(w, h, 0 .. 255)
    BY <1>2, <1>4, <1>6 DEF BaseTyped, ConvertBitShift
  <1>9. ConvertToInternal(s, to) \in Pels(w, h, Word16)
    BY <1>7, <1>8, ToInternalTyped
  <1> QED
    BY <1>2, <1>3, <1>6, <1>9 DEF BaseOf

LEMMA PredictionTyped ==
  ASSUME NEW c \in Configurations, NEW level \in 1 .. 2,
         NEW s \in Pels(WidthAt(c, level - 1), HeightAt(c, level - 1), Word16)
  PROVE  PredictionOf(c, s, level) \in Pels(WidthAt(c, level), HeightAt(c, level), Word16)
  <1>1. PICK w \in Dimension, h \in Dimension : w = WidthAt(c, level - 1) /\ h = HeightAt(c, level - 1)
    <2>1. level - 1 \in 0 .. 2
      OBVIOUS
    <2> QED
      BY <2>1, Frames DEF Frame
  <1>2. c.scaling[level] \in ScalingModes /\ Doubled(c, level)
    BY Frames DEF Frame
  <1>3. PICK kernel : kernel = UpsampleKernel(c.upsample, c.upsampling_coefficients)
    OBVIOUS
  <1>4. \A k \in 1 .. 4 : kernel[k] \in Int
    <2>1. c.upsample \in Upsamples /\ \A k \in 1 .. 4 : c.upsampling_coefficients[k] \in Int
      BY ConfigurationsAssumption
    <2> QED
      BY <1>3, <2>1, KernelTyped
  <1>5. s \in Pels(w, h, Word16)
    BY <1>1
  <1>6. CASE c.scaling[level] = "None"
    <2>1. Upsample(s, "None", kernel) = s /\ Adjust(s, s, "None") = s
      BY <1>4, <1>5, UpsampleTyped, AdjustTyped
    <2>2. PredictionOf(c, s, level) = s
      BY <1>3, <1>6, <2>1 DEF PredictionOf, Upsampled
    <2> QED
      BY <1>1, <1>2, <1>5, <1>6, <2>2 DEF Doubled
  <1>7. CASE c.scaling[level] = "1D"
    <2>1. PICK u : u = Upsample(s, "1D", kernel)
      OBVIOUS
    <2>2. u \in Pels(2 * w, h, Word16)
      BY <1>4, <1>5, <2>1, UpsampleTyped
    <2>3. Adjust(s, u, "1D") \in Pels(2 * w, h, Word16)
      BY <1>5, <2>2, AdjustTyped
    <2>4. WidthAt(c, level) = 2 * w /\ HeightAt(c, level) = h
      BY <1>1, <1>2, <1>7 DEF Doubled
    <2> QED
      BY <1>3, <1>7, <2>1, <2>2, <2>3, <2>4 DEF PredictionOf, Upsampled
  <1>8. CASE c.scaling[level] = "2D"
    <2>1. PICK u : u = Upsample(s, "2D", kernel)
      OBVIOUS
    <2>2. u \in Pels(2 * w, 2 * h, Word16)
      BY <1>4, <1>5, <2>1, UpsampleTyped
    <2>3. Adjust(s, u, "2D") \in Pels(2 * w, 2 * h, Word16)
      BY <1>5, <2>2, AdjustTyped
    <2>4. WidthAt(c, level) = 2 * w /\ HeightAt(c, level) = 2 * h
      BY <1>1, <1>2, <1>8 DEF Doubled
    <2> QED
      BY <1>3, <1>8, <2>1, <2>2, <2>3, <2>4 DEF PredictionOf, Upsampled
  <1> QED
    BY <1>2, <1>6, <1>7, <1>8 DEF ScalingModes

-----------------------------------------------------------------------------
(* The pictures of the encoder.                                            *)

PaddedOf(c, i) == Expand(c.pictures[i].source, c.width, c.height)

IntermediateOf(c, s) ==
  DownsampleImage(s, c.enhancement_depth, IntermediateDepthOf(c), c.scaling[2],
                  DownsampleKernels[c.downsample])

DownsampledBase(c, s) ==
  DownsampleImage(s, IntermediateDepthOf(c), c.base_depth, c.scaling[1], DownsampleKernels[c.downsample])

LEMMA PaddedTyped ==
  ASSUME NEW c \in Configurations, NEW i \in DOMAIN c.pictures
  PROVE  PaddedOf(c, i) \in Pels(WidthAt(c, 2), HeightAt(c, 2), Int)
  <1>1. PICK s : s = c.pictures[i].source
    OBVIOUS
  <1>2. PICK a \in Dimension, b \in Dimension : a = Width(s) /\ b = Height(s) /\ s \in Pels(a, b, Int)
    BY <1>1, ConfigurationsAssumption DEF Dimension, Pels
  <1>3. WidthAt(c, 2) = c.width /\ HeightAt(c, 2) = c.height
    BY DEF WidthAt, HeightAt
  <1>4. c.width \in Dimension /\ c.height \in Dimension
    BY ConfigurationsAssumption DEF Dimension
  <1>5. Expand(s, c.width, c.height) \in Pels(c.width, c.height, Int)
    BY <1>2, <1>4, ExpandTyped
  <1> QED
    BY <1>1, <1>3, <1>5 DEF PaddedOf

LEMMA ScaledDown ==
  ASSUME NEW c \in Configurations, NEW level \in 1 .. 2, NEW from \in Depths, NEW to \in Depths,
         NEW s \in Pels(WidthAt(c, level), HeightAt(c, level), Int)
  PROVE  DownsampleImage(s, from, to, c.scaling[level], DownsampleKernels[c.downsample])
           \in Pels(WidthAt(c, level - 1), HeightAt(c, level - 1), Int)
  <1>1. PICK w \in Dimension, h \in Dimension : w = WidthAt(c, level - 1) /\ h = HeightAt(c, level - 1)
    <2>1. level - 1 \in 0 .. 2
      OBVIOUS
    <2> QED
      BY <2>1, Frames DEF Frame
  <1>2. c.scaling[level] \in ScalingModes /\ Doubled(c, level)
    BY Frames DEF Frame
  <1>3. PICK kernel : kernel = DownsampleKernels[c.downsample] /\ DownsampleKernel(kernel)
    BY ConfigurationsAssumption, DownsampleKernelTyped
  <1>4. CASE c.scaling[level] = "None"
    <2>1. s \in Pels(w, h, Int)
      BY <1>1, <1>2, <1>4 DEF Doubled
    <2>2. DownsampleImage(s, from, to, "None", kernel) \in Pels(w, h, Int)
      BY <1>3, <2>1, DownsampleTyped
    <2> QED
      BY <1>1, <1>3, <1>4, <2>2
  <1>5. CASE c.scaling[level] = "1D"
    <2>1. s \in Pels(2 * w, h, Int)
      BY <1>1, <1>2, <1>5 DEF Doubled
    <2>2. DownsampleImage(s, from, to, "1D", kernel) \in Pels(w, h, Int)
      BY <1>3, <2>1, DownsampleTyped
    <2> QED
      BY <1>1, <1>3, <1>5, <2>2
  <1>6. CASE c.scaling[level] = "2D"
    <2>1. s \in Pels(2 * w, 2 * h, Int)
      BY <1>1, <1>2, <1>6 DEF Doubled
    <2>2. DownsampleImage(s, from, to, "2D", kernel) \in Pels(w, h, Int)
      BY <1>3, <2>1, DownsampleTyped
    <2> QED
      BY <1>1, <1>3, <1>6, <2>2
  <1> QED
    BY <1>2, <1>4, <1>5, <1>6 DEF ScalingModes

(* What the base codec makes of its picture. *)
LEMMA CodedBaseTyped ==
  ASSUME NEW c \in Configurations, NEW error \in Int,
         NEW s \in Pels(WidthAt(c, 0), HeightAt(c, 0), Int)
  PROVE  BaseTyped(c, Mapped(s, LAMBDA v : Clamp(v + error, 0, 2^c.base_depth - 1)))
  <1>1. PICK w \in Dimension, h \in Dimension : w = WidthAt(c, 0) /\ h = HeightAt(c, 0)
    BY Frames DEF Frame
  <1>2. Width(s) = w /\ Height(s) = h
    BY <1>1, PelsSize
  <1>3. PICK n \in 0 .. 15 : n = c.base_depth
    BY ConfigurationsAssumption
  <1>4. PICK m \in Nat \ {0} : m = 2^n
    BY SampleShifts
  <1>5. c.base_depth = 8 => m = 256
    <2>1. 2^8 = 256
      OBVIOUS
    <2> QED
      BY <1>3, <1>4, <2>1
  <1>6. \A y \in 0 .. h - 1, x \in 0 .. w - 1 : s[y][x] + error \in Int
    BY <1>1, PelOf
  <1>7. \A v \in Int : Clamp(v, 0, m - 1) \in Int /\ Clamp(v, 0, m - 1) >= 0 /\ Clamp(v, 0, m - 1) < m
    BY DEF Clamp
  <1>8. PICK t : t = Mapped(s, LAMBDA v : Clamp(v + error, 0, 2^c.base_depth - 1))
    OBVIOUS
  <1>9. t = [y \in 0 .. h - 1 |-> [x \in 0 .. w - 1 |-> Clamp(s[y][x] + error, 0, m - 1)]]
    BY <1>2, <1>3, <1>4, <1>8 DEF Mapped, Generate
  <1>10. t \in Pels(w, h, Int)
    <2>1. \A y \in 0 .. h - 1, x \in 0 .. w - 1 : Clamp(s[y][x] + error, 0, m - 1) \in Int
      BY <1>6, <1>7
    <2> QED
      BY <1>9, <2>1 DEF Pels
  <1>11. ASSUME c.base_depth = 8
         PROVE  t \in Pels(w, h, 0 .. 255)
    <2>1. ASSUME NEW v \in Int
          PROVE  Clamp(v, 0, m - 1) \in 0 .. 255
      <3>1. PICK top \in Int : top = 255
        OBVIOUS
      <3>2. Clamp(v, 0, m - 1) \in Int /\ 0 <= Clamp(v, 0, m - 1) /\ Clamp(v, 0, m - 1) <= top
        BY <1>5, <1>7, <1>11, <3>1
      <3>3. Clamp(v, 0, m - 1) \in 0 .. top
        BY <3>2, InRange
      <3> QED
        BY <3>1, <3>3
    <2>2. PICK S : S = 0 .. 255
      OBVIOUS
    <2>3. \A y \in 0 .. h - 1, x \in 0 .. w - 1 : Clamp(s[y][x] + error, 0, m - 1) \in S
      BY <1>6, <2>1, <2>2
    <2>4. t \in Pels(w, h, S)
      BY <1>9, <2>3 DEF Pels
    <2> QED
      BY <2>2, <2>4
  <1> QED
    BY <1>1, <1>8, <1>10, <1>11 DEF BaseTyped

-----------------------------------------------------------------------------
(* Layers.                                                                 *)

Layers(s, n, w, h) == DOMAIN s = 0 .. n - 1 /\ \A l \in 0 .. n - 1 : Shaped(s[l], w, h)

LEMMA BlocksOf ==
  ASSUME NEW size \in {2, 4}, NEW n \in Dimension
  PROVE  size * n \in Dimension /\ (size * n) \div size = n
  <1>1. n \in Nat /\ n > 0
    BY DEF Dimension
  <1>2. CASE size = 2
    BY <1>1, <1>2 DEF Dimension
  <1>3. CASE size = 4
    BY <1>1, <1>3 DEF Dimension
  <1> QED
    BY <1>2, <1>3

LEMMA CoefficientsShaped ==
  ASSUME NEW size \in {2, 4}, NEW w \in Dimension, NEW h \in Dimension,
         NEW s, Shaped(s, size * w, size * h), NEW horizontal \in BOOLEAN
  PROVE  Layers(Coefficients(s, size, ForwardBasis(size, horizontal)), size * size, w, h)
  <1>1. Width(s) = size * w /\ Height(s) = size * h
    BY BlocksOf, SizeOf
  <1>2. Width(s) \div size = w /\ Height(s) \div size = h
    BY <1>1, BlocksOf
  <1>3. PICK basis : basis = ForwardBasis(size, horizontal)
    OBVIOUS
  <1>4. DOMAIN basis = 0 .. size * size - 1
    <2>1. CASE size = 2
      BY <1>3, <2>1 DEF ForwardBasis, DDBasis, DDBasis_1D
    <2>2. CASE size = 4
      <3>1. size # 2 /\ size * size - 1 = 15
        BY <2>2
      <3>2. DOMAIN basis = 0 .. 15
        BY <1>3, <3>1 DEF ForwardBasis, DDSBasis, DDSBasis_1D
      <3> QED
        BY <3>1, <3>2
    <2> QED
      BY <2>1, <2>2
  <1> QED
    BY <1>2, <1>3, <1>4 DEF Layers, Coefficients, Generate, Shaped

LEMMA SelectedShaped ==
  ASSUME NEW n, NEW w \in Dimension, NEW h \in Dimension, NEW layers, Layers(layers, n, w, h),
         NEW sad, NEW step, NEW threshold, NEW coefficient, NEW types, NEW size, NEW type, NEW mode
  PROVE  /\ Layers(StaticResiduals(layers, sad, step, threshold, coefficient), n, w, h)
         /\ Layers(PriorityLevel1(layers, size, types, type, mode), n, w, h)
         /\ Layers(PriorityLevel2(layers, size, types, sad, type, step), n, w, h)
  <1>1. \A l \in 0 .. n - 1 : Width(layers[l]) = w /\ Height(layers[l]) = h
    BY SizeOf DEF Layers
  <1>2. Layers(StaticResiduals(layers, sad, step, threshold, coefficient), n, w, h)
    BY <1>1 DEF Layers, StaticResiduals, Keeping, Generate, Shaped
  <1>3. Layers(Priority_4x4_Level1(layers, types, type, mode), n, w, h)
    BY <1>1 DEF Layers, Priority_4x4_Level1, Keeping, Generate, Shaped
  <1>4. Layers(Priority_4x4_Level2(layers, types, sad, type, step), n, w, h)
    BY <1>1 DEF Layers, Priority_4x4_Level2, Keeping, Generate, Shaped
  <1>5. Layers(Priority_2x2_Level1(layers, types, type), n, w, h)
    BY <1>1 DEF Layers, Priority_2x2_Level1, Keeping, Generate, Shaped
  <1>6. Layers(Priority_2x2_Level2(layers, types, sad, type, step), n, w, h)
    BY <1>1 DEF Layers, Priority_2x2_Level2, Keeping, Generate, Shaped
  <1> QED
    BY <1>2, <1>3, <1>4, <1>5, <1>6 DEF PriorityLevel1, PriorityLevel2

LEMMA QuantisedShaped ==
  ASSUME NEW w \in Dimension, NEW h \in Dimension, NEW s, Shaped(s, w, h),
         NEW q, NEW mask, NEW sad, NEW size, NEW threshold, NEW bits, NEW data
  PROVE  /\ Shaped(Quantize(s, q, sad, size, threshold), w, h)
         /\ Shaped(Quantize_SWM(s, q, mask, sad, size, threshold), w, h)
         /\ Shaped(UserDataInsert(s, bits, data), w, h)
         /\ Shaped(UserDataClear(s, bits), w, h)
  <1>1. Width(s) = w /\ Height(s) = h
    BY SizeOf
  <1> QED
    BY <1>1 DEF Quantize, Quantize_SWM, UserDataInsert, UserDataClear, Generate, Shaped

LEMMA MasksShaped ==
  ASSUME NEW size \in {2, 4}, NEW w \in Dimension, NEW h \in Dimension,
         NEW s, Shaped(s, size * w, size * h),
         NEW t, NEW u, NEW reco, NEW coded, NEW scale, NEW intra, NEW inter, NEW tiles
  PROVE  /\ Shaped(CompareLE(TemporalCost(s, reco, coded, size, scale, intra), inter), w, h)
         /\ Shaped(CompareLE(TemporalCost_SAD(s, t, size), inter), w, h)
         /\ Shaped(u, w, h) => Shaped(TemporalTileIntraSignal(tiles, u, size), w, h)
  <1>1. Width(s) = size * w /\ Height(s) = size * h
    BY BlocksOf, SizeOf
  <1>2. Width(s) \div size = w /\ Height(s) \div size = h
    BY <1>1, BlocksOf
  <1>3. Shaped(TemporalCost(s, reco, coded, size, scale, intra), w, h)
    <2>1. CASE size = 2
      BY <1>2, <2>1 DEF TemporalCost, TemporalCost_2x2, Generate, Shaped
    <2>2. CASE size = 4
      <3>1. size # 2
        BY <2>2
      <3> QED
        BY <1>2, <2>2, <3>1 DEF TemporalCost, TemporalCost_4x4, Generate, Shaped
    <2> QED
      BY <2>1, <2>2
  <1>4. Shaped(TemporalCost_SAD(s, t, size), w, h)
    BY <1>2 DEF TemporalCost_SAD, Generate, Shaped
  <1>5. ASSUME NEW a, Shaped(a, w, h) PROVE Shaped(CompareLE(a, inter), w, h)
    <2>1. Width(a) = w /\ Height(a) = h
      BY <1>5, SizeOf
    <2> QED
      BY <2>1 DEF CompareLE, Generate, Shaped
  <1>6. ASSUME Shaped(u, w, h) PROVE Shaped(TemporalTileIntraSignal(tiles, u, size), w, h)
    <2>1. Width(u) = w /\ Height(u) = h
      BY <1>6, SizeOf
    <2> QED
      BY <2>1 DEF TemporalTileIntraSignal, Generate, Shaped
  <1> QED
    BY <1>3, <1>4, <1>5, <1>6

(* The temporal buffer without prediction, and with prediction everywhere. *)
LEMMA Masking ==
  ASSUME NEW size \in {2, 4}, NEW w \in Dimension, NEW h \in Dimension,
         NEW s, Shaped(s, size * w, size * h)
  PROVE  /\ \A mask : Shaped(ApplyTemporalMap(s, mask, size), size * w, size * h)
         /\ ApplyTemporalMap(s, Fill(w, h, TEMPORAL_INTR), size) = Fill(size * w, size * h, 0)
         /\ ApplyTemporalMap(s, Fill(w, h, TEMPORAL_PRED), size) = s
  <1>1. Width(s) = size * w /\ Height(s) = size * h
    BY BlocksOf, SizeOf
  <1>2. size * w \in Dimension /\ size * h \in Dimension
    BY BlocksOf
  <1>3. \A mask : Shaped(ApplyTemporalMap(s, mask, size), size * w, size * h)
    BY <1>1 DEF ApplyTemporalMap, Generate, Shaped
  <1>4. ASSUME NEW v, NEW mask, mask = Fill(w, h, v),
               NEW x \in 0 .. size * w - 1, NEW y \in 0 .. size * h - 1
        PROVE  mask[y \div size][x \div size] = v
    <2>1. x \div size \in 0 .. w - 1 /\ y \div size \in 0 .. h - 1
      BY BlockOf
    <2>2. mask = [j \in 0 .. h - 1 |-> [i \in 0 .. w - 1 |-> v]]
      BY <1>4, FillTyped
    <2> QED
      BY <2>1, <2>2
  <1>5. ApplyTemporalMap(s, Fill(w, h, TEMPORAL_INTR), size) = Fill(size * w, size * h, 0)
    <2>1. PICK mask : mask = Fill(w, h, TEMPORAL_INTR)
      OBVIOUS
    <2>2. \A x \in 0 .. size * w - 1, y \in 0 .. size * h - 1 :
            mask[y \div size][x \div size] = TEMPORAL_INTR
      BY <1>4, <2>1
    <2> QED
      BY <1>1, <2>1, <2>2 DEF ApplyTemporalMap, Fill, Generate
  <1>6. ApplyTemporalMap(s, Fill(w, h, TEMPORAL_PRED), size) = s
    <2>1. PICK mask : mask = Fill(w, h, TEMPORAL_PRED)
      OBVIOUS
    <2>2. TEMPORAL_PRED # TEMPORAL_INTR
      BY DEF TEMPORAL_PRED, TEMPORAL_INTR
    <2>3. \A x \in 0 .. size * w - 1, y \in 0 .. size * h - 1 :
            mask[y \div size][x \div size] # TEMPORAL_INTR
      BY <1>4, <2>1, <2>2
    <2> QED
      BY <1>1, <2>1, <2>3 DEF ApplyTemporalMap, Generate, Shaped
  <1> QED
    BY <1>3, <1>5, <1>6

-----------------------------------------------------------------------------
(* Dequantisation, and the inverse transforms.                             *)

LEMMA SameDequantised ==
  ASSUME NEW w \in Dimension, NEW h \in Dimension, NEW s, Shaped(s, w, h), NEW q, Len(q) = 1,
         NEW mask, Fits(s, q)
  PROVE  /\ InverseQuantize(s, q) = DequantizeInPlace(s, q, mask)
         /\ InverseQuantize(s, q) \in Pels(w, h, Word16)
  <1>1. Width(s) = w /\ Height(s) = h
    BY SizeOf
  <1>2. ASSUME NEW y \in 0 .. h - 1, NEW x \in 0 .. w - 1
        PROVE  /\ Int16(Dequantised(s[y][x], q[1])) = Dequantised(s[y][x], q[1])
               /\ ClampInt16(Dequantised(s[y][x], q[1])) = Dequantised(s[y][x], q[1])
               /\ Dequantised(s[y][x], q[1]) \in Word16
    <2>1. PICK d : d = Dequantised(s[y][x], q[1])
      OBVIOUS
    <2>2. d \in Word16
      BY <1>1, <2>1 DEF Fits
    <2>3. Int16(d) = d /\ ClampInt16(d) = d
      BY <2>2, Int16Same, ClampedWord
    <2> QED
      BY <2>1, <2>2, <2>3
  <1>3. InverseQuantize(s, q)
          = [y \in 0 .. h - 1 |-> [x \in 0 .. w - 1 |-> Dequantised(s[y][x], q[1])]]
    BY <1>1, <1>2 DEF InverseQuantize, Generate
  <1>4. DequantizeInPlace(s, q, mask)
          = [y \in 0 .. h - 1 |-> [x \in 0 .. w - 1 |-> Dequantised(s[y][x], q[1])]]
    BY <1>1, <1>2 DEF DequantizeInPlace, Generate
  <1>5. InverseQuantize(s, q) \in Pels(w, h, Word16)
    BY <1>2, <1>3 DEF Pels
  <1> QED
    BY <1>3, <1>4, <1>5

LEMMA SameDequantisedByMask ==
  ASSUME NEW s, NEW q, Len(q) # 1, NEW mask
  PROVE  InverseQuantize_SWM(s, q, mask) = DequantizeInPlace(s, q, mask)
  BY DEF InverseQuantize_SWM, DequantizeInPlace

LEMMA SignsTyped ==
  /\ \A n : Alternating(n) \in Int
  /\ \A l, x, y : DDSign(l, x, y) \in Int /\ QuadrantSign(l, x, y) \in Int
  <1>1. \A n : Alternating(n) \in Int
    BY DEF Alternating
  <1> QED
    BY <1>1 DEF DDSign, QuadrantSign

LEMMA InverseBasisTyped ==
  ASSUME NEW size \in {2, 4}, NEW horizontal \in BOOLEAN
  PROVE  \A p, l \in 0 .. size * size - 1 : InverseBasis(size, horizontal)[p][l] \in Int
  <1>1. CASE size = 2
    <2>1. ASSUME NEW p \in 0 .. 3, NEW l \in 0 .. 3
          PROVE  /\ DDSign(l, p % 2, p \div 2) \in Int
                 /\ InverseDDWeight_1D(l, p % 2, p \div 2) \in Int
      <3>1. l = 0 \/ l = 1 \/ l = 2 \/ l = 3
        OBVIOUS
      <3>2. \A x, y \in Int : InverseDDWeight_1D(l, x, y) \in Int
        <4>1. CASE l = 0
          BY <4>1 DEF InverseDDWeight_1D
        <4>2. CASE l = 1
          BY <4>2, SignsTyped DEF InverseDDWeight_1D
        <4>3. CASE l = 2
          BY <4>3, SignsTyped DEF InverseDDWeight_1D
        <4>4. CASE l = 3
          BY <4>4 DEF InverseDDWeight_1D
        <4> QED
          BY <3>1, <4>1, <4>2, <4>3, <4>4
      <3>3. p % 2 \in Int /\ p \div 2 \in Int
        OBVIOUS
      <3> QED
        BY <3>2, <3>3, SignsTyped
    <2>2. size * size - 1 = 3
      BY <1>1
    <2> QED
      BY <1>1, <2>1, <2>2 DEF InverseBasis, InverseDDBasis, InverseDDBasis_1D
  <1>2. CASE size = 4
    <2>1. ASSUME NEW p \in 0 .. 15, NEW l \in 0 .. 15
          PROVE  /\ DDSWeight(l, p % 4, p \div 4) \in Int
                 /\ InverseDDSWeight_1D(l, p % 4, p \div 4) \in Int
      <3>1. l \div 4 = 0 \/ l \div 4 = 1 \/ l \div 4 = 2 \/ l \div 4 = 3
        OBVIOUS
      <3>2. p % 4 \in Int /\ p \div 4 \in Int /\ (p \div 4) % 2 \in Int /\ 1 - ((p \div 4) % 2) \in Int
        OBVIOUS
      <3>3. PICK x \in Int, y \in Int : x = p % 4 /\ y = p \div 4 /\ y % 2 \in Int /\ 1 - (y % 2) \in Int
        BY <3>2
      <3>4. \A a, b \in Int : a * b \in Int
        OBVIOUS
      <3>5. DDSWeight(l, x, y) \in Int
        BY <3>1, <3>4, SignsTyped DEF DDSWeight, Averages, Horizontals, Verticals, Diagonals
      <3>6. (CASE l \div 4 = 0 -> 1 - (y % 2)
               [] l \div 4 = 1 -> Alternating(x)
               [] l \div 4 = 2 -> y % 2
               [] l \div 4 = 3 -> Alternating(x + y)) \in Int
        BY <3>1, <3>3, SignsTyped
      <3>7. InverseDDSWeight_1D(l, x, y) \in Int
        BY <3>4, <3>6, SignsTyped DEF InverseDDSWeight_1D
      <3> QED
        BY <3>3, <3>5, <3>7
    <2>2. size * size - 1 = 15 /\ size # 2
      BY <1>2
    <2> QED
      BY <1>2, <2>1, <2>2 DEF InverseBasis, InverseDDSBasis, InverseDDSBasis_1D
  <1> QED
    BY <1>1, <1>2

LEMMA InverseTyped ==
  ASSUME NEW size \in {2, 4}, NEW w \in Dimension, NEW h \in Dimension, NEW layers,
         \A l \in 0 .. size * size - 1 : layers[l] \in Pels(w, h, Word16),
         NEW horizontal \in BOOLEAN
  PROVE  InverseTransform(layers, size, InverseBasis(size, horizontal))
           \in Pels(size * w, size * h, Word16)
  <1>1. PICK n \in Nat \ {0} : n = size * size
    OBVIOUS
  <1>2. PICK basis : basis = InverseBasis(size, horizontal)
    OBVIOUS
  <1>3. \A p, l \in 0 .. n - 1 : basis[p][l] \in Int
    BY <1>1, <1>2, InverseBasisTyped
  <1>4. Width(layers[0]) = w /\ Height(layers[0]) = h
    <2>1. 0 \in 0 .. n - 1
      OBVIOUS
    <2> QED
      BY <1>1, <2>1, PelsSize
  <1>5. ASSUME NEW x \in 0 .. size * w - 1, NEW y \in 0 .. size * h - 1
        PROVE  Int16(Total(n, LAMBDA l : basis[(x % size) + size * (y % size)][l]
                                           * layers[l][y \div size][x \div size])) \in Word16
    <2> DEFINE term(l) == basis[(x % size) + size * (y % size)][l] * layers[l][y \div size][x \div size]
               Loop(f) == f = [k \in 0 .. n |-> IF k = 0 THEN 0 ELSE f[k - 1] + term(k - 1)]
               F == CHOOSE f : Loop(f)
               t == [k \in 0 .. n - 1 |-> term(k)]
    <2>1. (x % size) + size * (y % size) \in 0 .. n - 1
      <3>1. x \in Nat /\ y \in Nat
        BY DEF Dimension
      <3>2. CASE size = 2
        BY <1>1, <3>1, <3>2
      <3>3. CASE size = 4
        BY <1>1, <3>1, <3>3
      <3> QED
        BY <3>2, <3>3
    <2>2. x \div size \in 0 .. w - 1 /\ y \div size \in 0 .. h - 1
      BY BlockOf
    <2>3. ASSUME NEW k \in 0 .. n - 1 PROVE t[k] = term(k) /\ term(k) \in Int
      <3>1. layers[k][y \div size][x \div size] \in Int
        <4>1. layers[k] \in Pels(w, h, Int)
          BY <1>1, WordsAreIntegers
        <4> QED
          BY <2>2, <4>1, PelOf
      <3>2. basis[(x % size) + size * (y % size)][k] \in Int
        BY <1>3, <2>1
      <3> QED
        BY <3>1, <3>2
    <2> HIDE DEF term
    <2>4. PICK f : SumsOf(f, t, n)
      <3>1. \A k \in 0 .. n - 1 : t[k] \in Int
        BY <2>3
      <3> HIDE DEF t
      <3> QED
        BY <3>1, SumExists
    <2>5. \A g : Loop(g) <=> SumsOf(g, t, n)
      <3> TAKE g
      <3>1. \A k \in 0 .. n : k # 0 => t[k - 1] = term(k - 1)
        BY <2>3
      <3> HIDE DEF t
      <3> QED
        BY <3>1 DEF SumsOf
    <2>6. Loop(F)
      <3>1. \E g : Loop(g)
        BY <2>4, <2>5
      <3> QED
        BY <3>1
    <2>7. F[n] \in Int
      <3>1. SumsOf(F, t, n)
        BY <2>5, <2>6
      <3>2. \A k \in 0 .. n - 1 : t[k] \in Int
        BY <2>3
      <3> HIDE DEF t, F
      <3> QED
        BY <3>1, <3>2, SumTyped
    <2>8. Total(n, LAMBDA l : basis[(x % size) + size * (y % size)][l]
                                * layers[l][y \div size][x \div size]) = F[n]
      BY DEF Total, term
    <2> HIDE DEF F
    <2> QED
      BY <2>7, <2>8, Int16Word
  <1>6. PICK t : t = InverseTransform(layers, size, basis)
    OBVIOUS
  <1>7. t = [y \in 0 .. size * h - 1 |-> [x \in 0 .. size * w - 1 |->
              Int16(Total(n, LAMBDA l : basis[(x % size) + size * (y % size)][l]
                                          * layers[l][y \div size][x \div size]))]]
    BY <1>1, <1>4, <1>6 DEF InverseTransform, Generate
  <1>8. t \in Pels(size * w, size * h, Word16)
    BY <1>5, <1>7 DEF Pels
  <1> QED
    BY <1>2, <1>6, <1>8

-----------------------------------------------------------------------------
(* The order in which the elements of a surface are sent.                  *)

LEMMA Times ==
  ASSUME NEW a \in Nat, NEW b \in Nat, NEW c \in Nat, a <= b
  PROVE  a * c <= b * c /\ c * a <= c * b /\ a * c = c * a /\ a * c \in Nat
  OBVIOUS

LEMMA Associate ==
  ASSUME NEW a \in Nat, NEW b \in Nat, NEW c \in Nat
  PROVE  (a * b) * c = (b * c) * a
  OBVIOUS

(* Of n places in tiles of T, place x is in tile b, which begins at x0 and *)
(* has l places.                                                           *)
InTile(T, n, x, b, x0, l) ==
  /\ b \in Nat /\ x0 \in Nat /\ l \in Nat \ {0}
  /\ b = x \div T /\ x0 = b * T /\ l = Least(T, n - x0)
  /\ l <= T /\ x0 + l <= n /\ x - x0 \in 0 .. l - 1

LEMMA WithinTile ==
  ASSUME NEW T \in Nat \ {0}, NEW n \in Nat \ {0}, NEW x \in 0 .. n - 1
  PROVE  \E b, x0, l : InTile(T, n, x, b, x0, l)
  <1>1. PICK b \in Nat, i \in 0 .. T - 1 : b = x \div T /\ x = T * b + i
    BY DivMod
  <1>2. PICK x0 \in Nat : x0 = b * T /\ x0 = T * b
    OBVIOUS
  <1>3. x = x0 + i /\ x0 <= x /\ x0 < n
    BY <1>1, <1>2
  <1>4. PICK l : l = Least(T, n - x0)
    OBVIOUS
  <1>5. l \in Nat \ {0} /\ l <= T /\ x0 + l <= n /\ x - x0 \in 0 .. l - 1
    <2>1. CASE T < n - x0
      <3>1. l = T
        BY <1>4, <2>1 DEF Least
      <3> QED
        BY <1>3, <2>1, <3>1
    <2>2. CASE ~(T < n - x0)
      <3>1. l = n - x0
        BY <1>4, <2>2 DEF Least
      <3> QED
        BY <1>3, <2>2, <3>1
    <2> QED
      BY <2>1, <2>2
  <1> QED
    BY <1>1, <1>2, <1>4, <1>5 DEF InTile

LEMMA ScanPlace ==
  ASSUME NEW s, NEW w \in Dimension, NEW h \in Dimension, Width(s) = w, Height(s) = h,
         ScanTile \in Dimension, NEW x \in 0 .. w - 1, NEW y \in 0 .. h - 1
  PROVE  /\ ScanIndex(w, h, x, y) \in 0 .. w * h - 1
         /\ ScanPosition(s, ScanIndex(w, h, x, y)) = <<x, y>>
  <1>1. PICK T \in Nat \ {0} : T = ScanTile
    BY DEF Dimension
  <1>2. PICK b \in Nat, y0 \in Nat, hh \in Nat \ {0} :
          /\ b = y \div T /\ y0 = b * T /\ hh = Least(T, h - y0)
          /\ hh <= T /\ y0 + hh <= h /\ y - y0 \in 0 .. hh - 1
    <2>1. \E b, y0, hh : InTile(T, h, y, b, y0, hh)
      BY WithinTile DEF Dimension
    <2> QED
      BY <2>1, Zenon DEF InTile
  <1>3. PICK a \in Nat, x0 \in Nat, ww \in Nat \ {0} :
          /\ a = x \div T /\ x0 = a * T /\ ww = Least(T, w - x0)
          /\ ww <= T /\ x0 + ww <= w /\ x - x0 \in 0 .. ww - 1
    <2>1. \E a, x0, ww : InTile(T, w, x, a, x0, ww)
      BY WithinTile DEF Dimension
    <2> QED
      BY <2>1, Zenon DEF InTile
  <1>4. PICK i \in 0 .. ww - 1, j \in 0 .. hh - 1 : i = x - x0 /\ j = y - y0 /\ x = x0 + i /\ y = y0 + j
    <2>1. x \in Int /\ y \in Int
      OBVIOUS
    <2> QED
      BY <1>2, <1>3, <2>1
  <1>5. w \in Nat \ {0} /\ h \in Nat \ {0}
    BY DEF Dimension
  <1>6. PICK rest \in Nat : rest = j * ww + i /\ rest < ww * hh /\ rest \div ww = j /\ rest % ww = i
    <2>1. PICK p \in Nat : p = j * ww /\ p = ww * j
      OBVIOUS
    <2>2. (ww * j + i) \div ww = j /\ (ww * j + i) % ww = i
      BY Remainder
    <2>3. j < hh /\ ww * j + ww <= ww * hh
      <3>1. j < hh
        OBVIOUS
      <3> QED
        BY <3>1, Apart
    <2>4. PICK m \in Nat : m = ww * hh
      OBVIOUS
    <2> QED
      BY <2>1, <2>2, <2>3, <2>4
  <1>7. PICK line \in Nat : line = x0 * hh + rest /\ line < w * hh /\ line \div (T * hh) = a
    <2>1. PICK m \in Nat \ {0} : m = T * hh /\ m = hh * T
      OBVIOUS
    <2>2. ww * hh <= m
      BY <1>3, <2>1, Times
    <2>3. PICK p \in Nat : p = x0 * hh
      OBVIOUS
    <2>4. p = m * a
      <3>1. T \in Nat /\ hh \in Nat
        OBVIOUS
      <3>2. (a * T) * hh = (T * hh) * a
        BY <3>1, Associate
      <3>3. p = (a * T) * hh
        BY <1>3, <2>3, Zenon
      <3>4. m * a = (T * hh) * a
        BY <2>1, Zenon
      <3> QED
        BY <3>2, <3>3, <3>4, Zenon
    <2>5. rest \in 0 .. m - 1
      <3>1. PICK q \in Nat : q = ww * hh
        OBVIOUS
      <3> QED
        BY <1>6, <2>1, <2>2, <3>1
    <2>6. (m * a + rest) \div m = a
      BY <2>5, Remainder
    <2>7. (x0 + ww) * hh <= w * hh /\ (x0 + ww) * hh = x0 * hh + ww * hh
      <3>1. x0 + ww \in Nat
        OBVIOUS
      <3>2. (x0 + ww) * hh <= w * hh
        BY <1>3, <1>5, <3>1, Times
      <3>3. (x0 + ww) * hh = x0 * hh + ww * hh
        OBVIOUS
      <3> QED
        BY <3>2, <3>3
    <2>8. PICK q \in Nat, g \in Nat : q = ww * hh /\ g = w * hh
      BY <1>5
    <2>9. p + q <= g /\ rest < q
      <3>1. (x0 + ww) * hh = p + q
        BY <2>3, <2>7, <2>8
      <3> QED
        BY <1>6, <2>7, <2>8, <3>1
    <2> QED
      BY <2>1, <2>3, <2>4, <2>6, <2>8, <2>9
  <1>8. PICK k \in Nat : k = y0 * w + line /\ k < w * h /\ k \div (w * T) = b
    <2>1. PICK m \in Nat \ {0} : m = w * T /\ m = T * w
      BY <1>5
    <2>2. w * hh <= m
      BY <1>2, <1>5, <2>1, Times
    <2>3. PICK p \in Nat : p = y0 * w
      BY <1>5
    <2>4. p = m * b
      <3>1. T \in Nat /\ w \in Nat
        BY <1>5
      <3>2. (b * T) * w = (T * w) * b
        BY <3>1, Associate
      <3>3. p = (b * T) * w
        BY <1>2, <2>3, Zenon
      <3>4. m * b = (T * w) * b
        BY <2>1, Zenon
      <3> QED
        BY <3>2, <3>3, <3>4, Zenon
    <2>5. PICK q \in Nat, g \in Nat : q = w * hh /\ g = w * h
      BY <1>5
    <2>6. line \in 0 .. m - 1
      BY <1>7, <2>1, <2>2, <2>5
    <2>7. (m * b + line) \div m = b
      BY <2>6, Remainder
    <2>8. w * (y0 + hh) <= w * h /\ w * (y0 + hh) = y0 * w + w * hh
      <3>1. y0 + hh \in Nat
        OBVIOUS
      <3>2. w * (y0 + hh) <= w * h
        BY <1>2, <1>5, <3>1, Times
      <3>3. w * (y0 + hh) = y0 * w + w * hh
        BY <1>5
      <3> QED
        BY <3>2, <3>3
    <2>9. p + q <= g /\ line < q
      <3>1. w * (y0 + hh) = p + q
        BY <2>3, <2>5, <2>8
      <3> QED
        BY <1>7, <2>5, <2>8, <3>1
    <2> QED
      BY <2>1, <2>3, <2>4, <2>5, <2>7, <2>9
  <1>9. ScanIndex(w, h, x, y) = k
    <2>1. ScanIndex(w, h, x, y) = y0 * w + x0 * hh + j * ww + i
      BY <1>1, <1>2, <1>3, <1>4 DEF ScanIndex
    <2>2. PICK p \in Nat, q \in Nat, r \in Nat : p = y0 * w /\ q = x0 * hh /\ r = j * ww
      BY <1>5
    <2>3. ScanIndex(w, h, x, y) = p + q + r + i
      BY <2>1, <2>2
    <2>4. k = p + line /\ line = q + rest /\ rest = r + i
      BY <1>6, <1>7, <1>8, <2>2
    <2> QED
      BY <2>3, <2>4
  <1>10. ScanPosition(s, k) = <<x, y>>
    <2>1. (k \div (Width(s) * ScanTile)) * ScanTile = y0
      BY <1>1, <1>2, <1>8
    <2>2. k - y0 * Width(s) = line
      <3>1. PICK p \in Nat : p = y0 * w
        BY <1>5
      <3> QED
        BY <1>8, <3>1
    <2>3. Least(ScanTile, Height(s) - y0) = hh
      BY <1>1, <1>2
    <2>4. ((k - y0 * Width(s)) \div (ScanTile * hh)) * ScanTile = x0
      BY <1>1, <1>3, <1>7, <2>2
    <2>5. Least(ScanTile, Width(s) - x0) = ww
      BY <1>1, <1>3
    <2>6. k - y0 * Width(s) - x0 * hh = rest
      <3>1. PICK q \in Nat : q = x0 * hh
        OBVIOUS
      <3> QED
        BY <1>7, <2>2, <3>1
    <2>7. x0 + (rest % ww) = x /\ y0 + (rest \div ww) = y
      BY <1>4, <1>6
    <2> QED
      BY <2>1, <2>3, <2>4, <2>5, <2>6, <2>7, Zenon DEF ScanPosition
  <1>11. k \in 0 .. w * h - 1
    <2>1. PICK g \in Nat : g = w * h
      BY <1>5
    <2> QED
      BY <1>8, <2>1
  <1> QED
    BY <1>9, <1>10, <1>11

(* What was scanned is put back in its place. *)
Unscanned(o, s) ==
  [y \in 0 .. Height(s) - 1 |->
     [x \in 0 .. Width(s) - 1 |-> o[ScanIndex(Width(s), Height(s), x, y) + 1]]]

LEMMA ScanUndone ==
  ASSUME NEW s, NEW w \in Dimension, NEW h \in Dimension, Shaped(s, w, h), ScanTile \in Dimension,
         NEW o, \A i \in 1 .. w * h : o[i] = Scanned(s)[i]
  PROVE  Unscanned(o, s) = s
  <1>1. Width(s) = w /\ Height(s) = h
    BY SizeOf
  <1>2. w * h \in Nat
    BY DEF Dimension
  <1>3. ASSUME NEW x \in 0 .. w - 1, NEW y \in 0 .. h - 1
        PROVE  o[ScanIndex(w, h, x, y) + 1] = s[y][x]
    <2>1. PICK k \in 0 .. w * h - 1 : k = ScanIndex(w, h, x, y) /\ ScanPosition(s, k) = <<x, y>>
      BY <1>1, ScanPlace
    <2>2. k + 1 \in 1 .. w * h /\ (k + 1) - 1 = k
      BY <1>2
    <2>3. Scanned(s)[k + 1] = s[ScanPosition(s, (k + 1) - 1)[2]][ScanPosition(s, (k + 1) - 1)[1]]
      BY <1>1, <2>2 DEF Scanned
    <2>4. Scanned(s)[k + 1] = s[y][x]
      BY <2>1, <2>2, <2>3
    <2> QED
      BY <2>1, <2>2, <2>4
  <1> QED
    BY <1>1, <1>3 DEF Unscanned, Shaped

-----------------------------------------------------------------------------
(* What the decoder makes of the surfaces s that it is sent, of the base   *)
(* and of its buffer, as functions of them: c is the configuration, h what *)
(* the picture header says.                                                *)

UserLayer(c, level, layer) ==
  level = 1 /\ c.user_data.bits > 0 /\ layer = (IF c.size = 4 THEN 5 ELSE 1)

StepOfPlane(c, level, step) ==
  CASE level = 1 -> c.step[1]
    [] level = 2 /\ c.plane = 0 -> step
    [] level = 2 /\ c.plane > 0 -> ChromaStepWidth(step, c.chroma_multiplier)

StepsOf(c, level, h) ==
  LET step == StepOfPlane(c, level, h.step)
  IN  IF level = 2 /\ c.temporal /\ ~h.refresh
        THEN <<ModifiedStepWidth(step, c.temporal_step_width_modifier), step>>
        ELSE <<step>>

DequantisersOf(c, level, steps, layer) ==
  [p \in 1 .. Len(steps) |-> Dequantiser(c.dequant_offset, steps[p], c.matrix[level][layer + 1])]

ClearedOf(c, level, layer, s) ==
  IF UserLayer(c, level, layer) THEN UserDataClear(s, c.user_data.bits) ELSE s

DecodedOf(c, level, h, coded, mask) ==
  [l \in 0 .. c.size * c.size - 1 |->
     DequantizeInPlace(ClearedOf(c, level, l, coded[l]),
                       DequantisersOf(c, level, StepsOf(c, level, h), l), mask)]

InvertedOf(c, level, coefficients) ==
  InverseTransform(coefficients, c.size, InverseBasis(c.size, c.scaling[level] = "1D"))

FilteredOf(c, residuals) ==
  IF c.filter # <<>> /\ c.size = 4 THEN Deblock(residuals, c.filter[1], c.filter[2]) ELSE residuals

(* The layers of a sub-layer among the surfaces of a picture. *)
LayersSent(c, level, s) ==
  [l \in 0 .. c.size * c.size - 1 |-> s[(IF level = 1 THEN 1 ELSE c.size * c.size + 1) + l]]

(* In sub-layer 1 neither the header nor the mask matters. *)
NoHeader == [refresh |-> TRUE, signalled |-> FALSE, step |-> 0]
FirstDecoded(c, coded) == DecodedOf(c, 1, NoHeader, coded, <<>>)

FirstOf(c, enhanced, base, s) ==
  IF enhanced
    THEN AddSurfaces(PredictionOf(c, BaseOf(c, base), 1),
                     FilteredOf(c, InvertedOf(c, 1, FirstDecoded(c, LayersSent(c, 1, s)))))
    ELSE PredictionOf(c, BaseOf(c, base), 1)

MaskOf(c, h, s) ==
  IF h.signalled THEN s[Len(s)]
  ELSE Fill(c.width \div c.size, c.height \div c.size, IF h.refresh THEN TEMPORAL_INTR ELSE TEMPORAL_PRED)

BufferOf(c, buffer, mask) ==
  IF buffer = <<>> THEN Fill(c.width, c.height, 0) ELSE ApplyTemporalMap(buffer, mask, c.size)

SecondDecoded(c, h, s) == DecodedOf(c, 2, h, LayersSent(c, 2, s), MaskOf(c, h, s))

(* What is added to the prediction, which the next picture begins with. *)
AddedOf(c, enhanced, h, buffer, s) ==
  IF ~enhanced THEN BufferOf(c, buffer, MaskOf(c, h, s))
  ELSE IF c.temporal
    THEN AddSurfaces(BufferOf(c, buffer, MaskOf(c, h, s)), InvertedOf(c, 2, SecondDecoded(c, h, s)))
    ELSE InvertedOf(c, 2, SecondDecoded(c, h, s))

SecondPrediction(c, enhanced, base, s) == PredictionOf(c, FirstOf(c, enhanced, base, s), 2)

SecondOf(c, enhanced, base, h, buffer, s) ==
  IF enhanced \/ c.temporal
    THEN AddSurfaces(SecondPrediction(c, enhanced, base, s), AddedOf(c, enhanced, h, buffer, s))
    ELSE SecondPrediction(c, enhanced, base, s)

LEMMA OneFirstStep ==
  ASSUME NEW c, NEW h, NEW coded, NEW mask
  PROVE  DecodedOf(c, 1, h, coded, mask) = FirstDecoded(c, coded)
  <1>1. StepsOf(c, 1, h) = <<c.step[1]>> /\ StepsOf(c, 1, NoHeader) = <<c.step[1]>>
    BY DEF StepsOf, StepOfPlane
  <1>2. PICK q : q = [l \in 0 .. c.size * c.size - 1 |-> DequantisersOf(c, 1, <<c.step[1]>>, l)]
    OBVIOUS
  <1>3. ASSUME NEW l \in 0 .. c.size * c.size - 1
        PROVE  Len(DequantisersOf(c, 1, <<c.step[1]>>, l)) = 1
    BY DEF DequantisersOf
  <1>4. ASSUME NEW s, NEW d, Len(d) = 1, NEW m
        PROVE  DequantizeInPlace(s, d, m) = DequantizeInPlace(s, d, <<>>)
    BY <1>4 DEF DequantizeInPlace
  <1> QED
    BY <1>1, <1>3, <1>4 DEF DecodedOf, FirstDecoded

LEMMA OneRefreshStep ==
  ASSUME NEW c, NEW h, h.refresh, NEW coded, NEW mask, NEW mask2
  PROVE  DecodedOf(c, 2, h, coded, mask) = DecodedOf(c, 2, h, coded, mask2)
  <1>1. PICK step : StepsOf(c, 2, h) = <<step>>
    BY DEF StepsOf
  <1>2. ASSUME NEW l \in 0 .. c.size * c.size - 1
        PROVE  Len(DequantisersOf(c, 2, <<step>>, l)) = 1
    BY DEF DequantisersOf
  <1>3. ASSUME NEW s, NEW d, Len(d) = 1, NEW m, NEW n
        PROVE  DequantizeInPlace(s, d, m) = DequantizeInPlace(s, d, n)
    BY <1>3 DEF DequantizeInPlace
  <1> QED
    BY <1>1, <1>2, <1>3 DEF DecodedOf

-----------------------------------------------------------------------------
(* The invariant.                                                          *)

Records ==
  /\ DOMAIN at = {"side", "image", "level", "pass", "stage"}
  /\ DOMAIN work = {"source", "intermediate", "base", "prediction", "difference", "residuals",
                    "sad", "mean", "types", "coefficients", "symbols", "mask"}
  /\ DOMAIN encoder = {"reco", "previous"}
  /\ DOMAIN header = {"refresh", "signalled", "step"}
  /\ DOMAIN decoder = {"reco", "buffer"}

(* Between two pictures the buffers are the same; the decoder's begins     *)
(* with zeros.                                                             *)
Agree ==
  /\ encoder.previous # <<>> => Shaped(encoder.previous, conf.width, conf.height)
  /\ conf.temporal => IF encoder.previous = <<>>
                        THEN decoder.buffer \in {<<>>, Fill(conf.width, conf.height, 0)}
                        ELSE decoder.buffer = encoder.previous
  /\ ~conf.temporal => encoder.previous = <<>>

Sources ==
  /\ work.source \in Pels(WidthAt(conf, 2), HeightAt(conf, 2), Int)
  /\ work.intermediate \in Pels(WidthAt(conf, 1), HeightAt(conf, 1), Int)

Pictures == Sources /\ BaseTyped(conf, work.base)

(* In sub-layer 1 nothing is to be sent yet, in sub-layer 2 sub-layer 1.   *)
InLevel1 == at.level = 1 /\ at.pass = "final" /\ sent = <<>> /\ received = <<>> /\ Agree

FirstSent ==
  /\ \E A : sent \in Seq(A)
  /\ Len(sent) = conf.size * conf.size
  /\ \A i \in 1 .. Len(sent) : Shaped(sent[i], Across(conf, 1), Down(conf, 1))

InLevel2 ==
  /\ at.level = 2 /\ received = <<>>
  /\ encoder.reco = FirstOf(conf, Picture.enhanced, work.base, sent)
  /\ IF Picture.enhanced THEN FirstSent ELSE sent = <<>>

BelowNow ==
  IF at.level = 1 THEN BaseOf(conf, work.base) ELSE FirstOf(conf, Picture.enhanced, work.base, sent)

PredictionMade == work.prediction = PredictionOf(conf, BelowNow, at.level)

At(side, stages) == at.side = side /\ at.stage \in stages

Beginning == At("encoder", {"downsample"}) /\ InLevel1
Scaling == At("encoder", {"base"}) /\ InLevel1 /\ Sources

Predicting ==
  /\ At("encoder", {"upsample", "adjust", "difference", "unenhanced"})
  /\ Pictures
  /\ InLevel1 \/ (InLevel2 /\ Agree)
  /\ at.stage = "adjust" => work.prediction = Upsampled(conf, BelowNow, at.level)
  /\ at.stage \in {"difference", "unenhanced"} => PredictionMade
  /\ at.stage = "difference" => Picture.enhanced
  /\ at.stage = "unenhanced" => ~Picture.enhanced /\ at.level = 2

(* The buffer has been masked as soon as the last pass begins. *)
Masked ==
  /\ header.signalled <=> ~header.refresh
  /\ header.refresh => at.pass = "final" /\ Agree
  /\ ~header.refresh =>
       /\ conf.temporal
       /\ Shaped(decoder.buffer, conf.width, conf.height)
       /\ encoder.previous = IF at.pass = "final" THEN ApplyTemporalMap(decoder.buffer, work.mask, conf.size)
                                                  ELSE decoder.buffer
       /\ at.pass = "final" \/ at.stage = "predict" => Shaped(work.mask, Across(conf, 2), Down(conf, 2))

(* What the stages hand on. *)
HandedOn ==
  /\ Shaped(work.difference, WidthAt(conf, at.level), HeightAt(conf, at.level))
  /\ at.stage \in {"mean", "types", "transform"} =>
       Shaped(work.residuals, WidthAt(conf, at.level), HeightAt(conf, at.level))
  /\ at.stage \in {"select", "quantise"} =>
       Layers(work.coefficients, conf.size * conf.size, Across(conf, at.level), Down(conf, at.level))
  /\ at.stage \in {"dequantise", "invert"} =>
       Layers(work.symbols, conf.size * conf.size, Across(conf, at.level), Down(conf, at.level))

(* The decoder will have the same coefficients. *)
Dequantised1 ==
  at.level = 1 => work.coefficients = FirstDecoded(conf, work.symbols)

Dequantised2 ==
  at.level = 2 =>
    /\ header.refresh =>
         /\ \A mask : work.coefficients = DecodedOf(conf, 2, header, work.symbols, mask)
         /\ \A l \in 0 .. conf.size * conf.size - 1 :
              work.coefficients[l] \in Pels(Across(conf, 2), Down(conf, 2), Word16)
    /\ ~header.refresh => work.coefficients = DecodedOf(conf, 2, header, work.symbols, work.mask)

Coding ==
  /\ At("encoder", {"mean", "types", "transform", "select", "quantise", "dequantise", "invert",
                    "decide", "predict"})
  /\ Picture.enhanced /\ Pictures /\ PredictionMade
  /\ InLevel1 \/ (InLevel2 /\ Masked)
  /\ at.stage \in {"decide", "predict"} => at.pass # "final"
  /\ HandedOn
  /\ at.stage = "invert" /\ at.pass = "final" => Dequantised1 /\ Dequantised2

(* What the decoder will come to is what the encoder has. *)
Kept(previous) == IF previous = <<>> THEN Fill(conf.width, conf.height, 0) ELSE previous

Promised ==
  /\ encoder.reco = SecondOf(conf, Picture.enhanced, work.base, header, decoder.buffer, sent)
  /\ encoder.previous # <<>> => Shaped(encoder.previous, conf.width, conf.height)
  /\ conf.temporal => AddedOf(conf, Picture.enhanced, header, decoder.buffer, sent) = Kept(encoder.previous)
  /\ ~conf.temporal => encoder.previous = <<>>

SurfacesSent ==
  /\ \E A : sent \in Seq(A)
  /\ \A i \in 1 .. Len(sent) : \E w, h \in Dimension : Shaped(sent[i], w, h)

Arrived ==
  /\ \E A : received \in Seq(A)
  /\ Len(received) <= Len(sent)
  /\ \A i \in 1 .. Len(received) : received[i] = sent[i]

Sending ==
  /\ At("encoder", {"send", "coding"})
  /\ Promised /\ SurfacesSent /\ Arrived
  /\ at.stage = "coding" => /\ Len(received) < Len(sent)
                            /\ input.data = Scanned(sent[Len(received) + 1])

DecodingPicture ==
  /\ At("decoder", {"upsample", "adjust", "dequantise", "invert", "unenhanced"})
  /\ at.level \in 1 .. 2
  /\ received = sent /\ Promised
  /\ at.level = 2 => decoder.reco = FirstOf(conf, Picture.enhanced, work.base, sent)
  /\ at.stage = "adjust" => work.prediction = Upsampled(conf, BelowNow, at.level)
  /\ at.stage \in {"dequantise", "invert", "unenhanced"} => PredictionMade
  /\ at.stage \in {"dequantise", "invert"} => Picture.enhanced
  /\ at.stage = "unenhanced" => ~Picture.enhanced /\ at.level = 2
  /\ at.stage = "invert" =>
       /\ at.level = 1 => work.coefficients = FirstDecoded(conf, LayersSent(conf, 1, sent))
       /\ at.level = 2 => work.coefficients = SecondDecoded(conf, header, sent)
       /\ at.level = 2 /\ conf.temporal => work.mask = MaskOf(conf, header, sent)

PictureDecoded ==
  /\ At("decoder", {"output", "end"})
  /\ encoder.previous # <<>> => Shaped(encoder.previous, conf.width, conf.height)
  /\ conf.temporal => decoder.buffer = Kept(encoder.previous)
  /\ ~conf.temporal => encoder.previous = <<>>
  /\ at.stage = "output" => decoder.reco = encoder.reco

Place == Beginning \/ Scaling \/ Predicting \/ Coding \/ Sending \/ DecodingPicture \/ PictureDecoded

InPictures == conf \in Configurations /\ at.image \in DOMAIN conf.pictures /\ Records /\ Place

Alone == conf = NoPictures /\ at.side = "encoder" /\ at.stage = "end"

CodingInv == Alone \/ InPictures

-----------------------------------------------------------------------------
(* The invariant holds in the beginning.                                   *)

LEMMA Begins == CodingInit => CodingInv
  <1> SUFFICES ASSUME CodingInit PROVE CodingInv
    OBVIOUS
  <1>1. /\ at = [side |-> "encoder", image |-> 1, level |-> 1, pass |-> "final",
                 stage |-> IF conf = NoPictures THEN "end" ELSE "downsample"]
        /\ conf = NoPictures \/ conf \in Configurations
        /\ encoder = [reco |-> <<>>, previous |-> <<>>]
        /\ header = [refresh |-> TRUE, signalled |-> FALSE, step |-> 0]
        /\ sent = <<>> /\ received = <<>>
        /\ decoder = [reco |-> <<>>, buffer |-> <<>>]
    BY DEF CodingInit, Nothing
  <1>2. DOMAIN work = {"source", "intermediate", "base", "prediction", "difference", "residuals",
                       "sad", "mean", "types", "coefficients", "symbols", "mask"}
    BY DEF CodingInit
  <1>3. CASE conf = NoPictures
    BY <1>1, <1>3 DEF CodingInv, Alone
  <1>4. CASE conf # NoPictures
    <2>1. conf \in Configurations
      BY <1>1, <1>4
    <2>2. at.image \in DOMAIN conf.pictures
      <3>1. Len(conf.pictures) \in Nat \ {0} /\ DOMAIN conf.pictures = 1 .. Len(conf.pictures)
        BY <2>1, ConfigurationsAssumption
      <3> QED
        BY <1>1, <3>1
    <2>3. Records
      BY <1>1, <1>2 DEF Records
    <2>4. Beginning
      BY <1>1, <1>4 DEF Beginning, At, InLevel1, Agree
    <2> QED
      BY <2>1, <2>2, <2>3, <2>4 DEF CodingInv, InPictures, Place
  <1> QED
    BY <1>3, <1>4

-----------------------------------------------------------------------------
(* What holds at each stage.                                               *)

LEMMA Places ==
  ASSUME Place
  PROVE  /\ at.side \in {"encoder", "decoder"}
         /\ At("encoder", {"downsample"}) => Beginning
         /\ At("encoder", {"base"}) => Scaling
         /\ At("encoder", {"upsample", "adjust", "difference", "unenhanced"}) => Predicting
         /\ At("encoder", {"mean", "types", "transform", "select", "quantise", "dequantise", "invert",
                           "decide", "predict"}) => Coding
         /\ At("encoder", {"send", "coding"}) => Sending
         /\ At("decoder", {"upsample", "adjust", "dequantise", "invert", "unenhanced"}) => DecodingPicture
         /\ At("decoder", {"output", "end"}) => PictureDecoded
  BY DEF Place, At, Beginning, Scaling, Predicting, Coding, Sending, DecodingPicture, PictureDecoded

(* The next stage, and nothing else. *)
LEMMA Goes ==
  ASSUME Records, NEW stage, Go(stage)
  PROVE  /\ at'.side = at.side /\ at'.image = at.image /\ at'.level = at.level /\ at'.pass = at.pass
         /\ at'.stage = stage /\ DOMAIN at' = DOMAIN at
  BY DEF Records, Go

LEMMA DownsampleKeeps ==
  ASSUME InPictures, Downsample
  PROVE  InPictures'
  <1>1. conf \in Configurations /\ at.image \in DOMAIN conf.pictures /\ Records /\ Place
    BY DEF InPictures
  <1>2. UNCHANGED <<conf, encoder, header, sent, received, decoder>>
    BY DEF Downsample
  <1>3. at.side = "encoder" /\ at.stage = "downsample" /\ Go("base")
    BY DEF Downsample, Stage, Encoder
  <1>4. Beginning
    BY <1>1, <1>3, Places DEF At
  <1>5. PICK padded : /\ padded = PaddedOf(conf, at.image)
                      /\ work' = [work EXCEPT !.source = padded, !.intermediate = IntermediateOf(conf, padded)]
    BY DEF Downsample, Picture, PaddedOf, IntermediateOf, IntermediateDepth, IntermediateDepthOf
  <1>6. work'.source = padded /\ work'.intermediate = IntermediateOf(conf, padded) /\ DOMAIN work' = DOMAIN work
    BY <1>1, <1>5 DEF Records
  <1>7. padded \in Pels(WidthAt(conf, 2), HeightAt(conf, 2), Int)
    BY <1>1, <1>5, PaddedTyped
  <1>8. IntermediateOf(conf, padded) \in Pels(WidthAt(conf, 1), HeightAt(conf, 1), Int)
    <2>1. conf.enhancement_depth \in Depths /\ IntermediateDepthOf(conf) \in Depths
      BY <1>1, ConfigurationsAssumption DEF Depths, IntermediateDepthOf
    <2>2. 2 \in 1 .. 2 /\ 2 - 1 = 1
      OBVIOUS
    <2>3. DownsampleImage(padded, conf.enhancement_depth, IntermediateDepthOf(conf), conf.scaling[2],
                          DownsampleKernels[conf.downsample])
            \in Pels(WidthAt(conf, 2 - 1), HeightAt(conf, 2 - 1), Int)
      BY <1>1, <1>7, <2>1, <2>2, ScaledDown
    <2> QED
      BY <2>2, <2>3 DEF IntermediateOf
  <1>9. Records'
    BY <1>1, <1>2, <1>3, <1>6, Goes DEF Records
  <1>10. Scaling'
    BY <1>1, <1>2, <1>3, <1>4, <1>6, <1>7, <1>8, Goes DEF Beginning, Scaling, At, InLevel1, Agree, Sources
  <1>11. at'.image \in DOMAIN conf'.pictures
    BY <1>1, <1>2, <1>3, Goes
  <1> QED
    BY <1>1, <1>2, <1>9, <1>10, <1>11 DEF InPictures, Place

LEMMA CodeBaseKeeps ==
  ASSUME InPictures, CodeBase
  PROVE  InPictures'
  <1>1. conf \in Configurations /\ at.image \in DOMAIN conf.pictures /\ Records /\ Place
    BY DEF InPictures
  <1>2. UNCHANGED <<conf, encoder, header, sent, received, decoder>>
    BY DEF CodeBase
  <1>3. at.side = "encoder" /\ at.stage = "base" /\ Go("upsample")
    BY DEF CodeBase, Stage, Encoder
  <1>4. Scaling
    BY <1>1, <1>3, Places DEF At
  <1> DEFINE downsampled == DownsampledBase(conf, work.intermediate)
             coded == Mapped(downsampled, LAMBDA v : Clamp(v + Picture.error, 0, 2^conf.base_depth - 1))
             original == ConvertToInternal(work.source, conf.enhancement_depth)
             intermediate == ConvertToInternal(work.intermediate, IntermediateDepthOf(conf))
  <1>5. work' = [work EXCEPT !.source = original, !.intermediate = intermediate, !.base = coded]
    BY DEF CodeBase, DownsampledBase, IntermediateDepth, IntermediateDepthOf
  <1>6. /\ work'.source = original /\ work'.intermediate = intermediate /\ work'.base = coded
        /\ DOMAIN work' = DOMAIN work
    <2> HIDE DEF original, intermediate, coded
    <2> QED
      BY <1>1, <1>5 DEF Records
  <1>7. conf.enhancement_depth \in Depths /\ IntermediateDepthOf(conf) \in Depths /\ conf.base_depth \in Depths
    BY <1>1, ConfigurationsAssumption DEF Depths, IntermediateDepthOf
  <1>8. /\ WidthAt(conf, 2) \in Dimension /\ HeightAt(conf, 2) \in Dimension
        /\ WidthAt(conf, 1) \in Dimension /\ HeightAt(conf, 1) \in Dimension
    BY <1>1, Frames DEF Frame
  <1>9. original \in Pels(WidthAt(conf, 2), HeightAt(conf, 2), Int)
    BY <1>4, <1>7, <1>8, ToInternalTyped DEF Scaling, Sources
  <1>10. intermediate \in Pels(WidthAt(conf, 1), HeightAt(conf, 1), Int)
    BY <1>4, <1>7, <1>8, ToInternalTyped DEF Scaling, Sources
  <1>11. downsampled \in Pels(WidthAt(conf, 0), HeightAt(conf, 0), Int)
    <2>1. 1 \in 1 .. 2 /\ 1 - 1 = 0
      OBVIOUS
    <2>2. work.intermediate \in Pels(WidthAt(conf, 1), HeightAt(conf, 1), Int)
      BY <1>4 DEF Scaling, Sources
    <2>3. DownsampleImage(work.intermediate, IntermediateDepthOf(conf), conf.base_depth, conf.scaling[1],
                          DownsampleKernels[conf.downsample])
            \in Pels(WidthAt(conf, 1 - 1), HeightAt(conf, 1 - 1), Int)
      BY <1>1, <1>7, <2>1, <2>2, ScaledDown
    <2> QED
      BY <2>1, <2>3 DEF DownsampledBase
  <1>12. Picture.error \in Int
    BY <1>1, ConfigurationsAssumption DEF Picture
  <1>13. BaseTyped(conf, coded)
    <2>1. PICK s, e : s = downsampled /\ e = Picture.error
      OBVIOUS
    <2>2. BaseTyped(conf, Mapped(s, LAMBDA v : Clamp(v + e, 0, 2^conf.base_depth - 1)))
      BY <1>1, <1>11, <1>12, <2>1, CodedBaseTyped DEF Mapped, Generate
    <2> QED
      BY <2>1, <2>2
  <1> HIDE DEF original, intermediate, coded
  <1>14. Records'
    BY <1>1, <1>2, <1>3, <1>6, Goes DEF Records
  <1>15. Pictures'
    BY <1>2, <1>6, <1>9, <1>10, <1>13 DEF Pictures, Sources
  <1>16. Predicting'
    BY <1>1, <1>2, <1>3, <1>4, <1>15, Goes DEF Scaling, Predicting, At, InLevel1, Agree
  <1>17. at'.image \in DOMAIN conf'.pictures
    BY <1>1, <1>2, <1>3, Goes
  <1> QED
    BY <1>1, <1>2, <1>14, <1>16, <1>17 DEF InPictures, Place

(* Both sides predict from the same. *)
LEMMA SameBelow ==
  ASSUME Place, at.stage \in {"upsample", "adjust"}
  PROVE  Below = BelowNow /\ at.level \in 1 .. 2
  <1>1. BaseInternal = BaseOf(conf, work.base)
    BY DEF BaseInternal, BaseOf, ShiftedDepth, IntermediateDepth, IntermediateDepthOf
  <1>2. CASE at.side = "encoder"
    <2>1. Predicting
      BY <1>2, Places DEF At
    <2> QED
      BY <1>1, <1>2, <2>1 DEF Predicting, InLevel1, InLevel2, Below, BelowNow
  <1>3. CASE at.side = "decoder"
    <2>1. DecodingPicture
      BY <1>3, Places DEF At
    <2> QED
      BY <1>1, <1>3, <2>1 DEF DecodingPicture, Below, BelowNow
  <1> QED
    BY <1>2, <1>3, Places

LEMMA UpsampleKeeps ==
  ASSUME InPictures, UpsamplePrediction
  PROVE  InPictures'
  <1>1. conf \in Configurations /\ at.image \in DOMAIN conf.pictures /\ Records /\ Place
    BY DEF InPictures
  <1>2. UNCHANGED <<conf, encoder, header, sent, received, decoder>>
    BY DEF UpsamplePrediction
  <1>3. at.side \in {"encoder", "decoder"} /\ at.stage = "upsample" /\ Go("adjust")
    BY DEF UpsamplePrediction, Stage, Either
  <1>4. Below = BelowNow
    BY <1>1, <1>3, SameBelow
  <1>5. work' = [work EXCEPT !.prediction = Upsampled(conf, BelowNow, at.level)]
    BY <1>4 DEF UpsamplePrediction, Upsampled
  <1>6. /\ work'.prediction = Upsampled(conf, BelowNow, at.level) /\ DOMAIN work' = DOMAIN work
        /\ work'.source = work.source /\ work'.intermediate = work.intermediate /\ work'.base = work.base
    BY <1>1, <1>5 DEF Records
  <1>7. Records'
    BY <1>1, <1>2, <1>3, <1>6, Goes DEF Records
  <1>8. BelowNow' = BelowNow
    BY <1>1, <1>2, <1>3, <1>6, Goes DEF BelowNow, Picture
  <1>9. at'.image \in DOMAIN conf'.pictures /\ Picture' = Picture
    BY <1>1, <1>2, <1>3, Goes DEF Picture
  <1>10. CASE at.side = "encoder"
    <2>1. Predicting
      BY <1>1, <1>3, <1>10, Places DEF At
    <2>2. Pictures'
      BY <1>2, <1>6, <2>1 DEF Predicting, Pictures, Sources
    <2>3. (InLevel1 \/ (InLevel2 /\ Agree))'
      BY <1>1, <1>2, <1>3, <1>6, <1>9, <2>1, Goes DEF Predicting, InLevel1, InLevel2, Agree, FirstSent
    <2>4. Predicting'
      BY <1>1, <1>2, <1>3, <1>6, <1>8, <1>10, <2>2, <2>3, Goes DEF Predicting, At
    <2> QED
      BY <1>1, <1>2, <1>7, <1>9, <2>4 DEF InPictures, Place
  <1>11. CASE at.side = "decoder"
    <2>1. DecodingPicture
      BY <1>1, <1>3, <1>11, Places DEF At
    <2>2. Promised'
      BY <1>2, <1>6, <1>9, <2>1 DEF DecodingPicture, Promised, Kept
    <2>3. DecodingPicture'
      BY <1>1, <1>2, <1>3, <1>6, <1>8, <1>9, <1>11, <2>1, <2>2, Goes DEF DecodingPicture, At
    <2> QED
      BY <1>1, <1>2, <1>7, <1>9, <2>3 DEF InPictures, Place
  <1> QED
    BY <1>3, <1>10, <1>11

LEMMA AdjustedNow ==
  ASSUME Place, at.stage = "adjust"
  PROVE  Adjusted = PredictionOf(conf, BelowNow, at.level)
  <1>1. Below = BelowNow
    BY SameBelow
  <1>2. at.side \in {"encoder", "decoder"}
    BY Places
  <1>3. work.prediction = Upsampled(conf, BelowNow, at.level)
    BY <1>2, Places DEF At, Predicting, DecodingPicture
  <1> QED
    BY <1>1, <1>3 DEF Adjusted, PredictionOf

LEMMA EncoderAdjustKeeps ==
  ASSUME InPictures, EncoderAdjust
  PROVE  InPictures'
  <1>1. conf \in Configurations /\ at.image \in DOMAIN conf.pictures /\ Records /\ Place
    BY DEF InPictures
  <1>2. UNCHANGED <<conf, header, sent, received, decoder>>
    BY DEF EncoderAdjust
  <1>3. at.side = "encoder" /\ at.stage = "adjust"
    BY DEF EncoderAdjust, Stage, Encoder
  <1>4. Predicting
    BY <1>1, <1>3, Places DEF At
  <1>5. PICK adjusted : /\ adjusted = PredictionOf(conf, BelowNow, at.level)
                        /\ work' = [work EXCEPT !.prediction = adjusted]
                        /\ encoder' = IF Picture.enhanced \/ at.level = 2 THEN encoder
                                      ELSE [encoder EXCEPT !.reco = adjusted]
    BY <1>1, <1>3, AdjustedNow DEF EncoderAdjust
  <1>6. /\ work'.prediction = adjusted /\ DOMAIN work' = DOMAIN work
        /\ work'.source = work.source /\ work'.intermediate = work.intermediate /\ work'.base = work.base
    BY <1>1, <1>5 DEF Records
  <1>7. DOMAIN encoder' = DOMAIN encoder /\ encoder'.previous = encoder.previous
    BY <1>1, <1>5 DEF Records
  <1>8. at.level \in 1 .. 2
    BY <1>1, <1>3, SameBelow
  <1>9. Pictures'
    BY <1>2, <1>4, <1>6 DEF Predicting, Pictures, Sources
  <1>10. Agree'
    BY <1>2, <1>4, <1>7 DEF Predicting, InLevel1, Agree
  <1>11. CASE Picture.enhanced
    <2>1. encoder' = encoder /\ at' = [at EXCEPT !.stage = "difference"]
      BY <1>5, <1>11 DEF EncoderAdjust
    <2>2. Go("difference")
      BY <2>1 DEF Go
    <2>3. Picture' = Picture /\ at'.image \in DOMAIN conf'.pictures
      BY <1>1, <1>2, <2>2, Goes DEF Picture
    <2>4. BelowNow' = BelowNow
      BY <1>1, <1>2, <1>6, <2>2, <2>3, Goes DEF BelowNow
    <2>5. (InLevel1 \/ (InLevel2 /\ Agree))'
      BY <1>1, <1>2, <1>4, <1>6, <1>10, <2>1, <2>2, <2>3, Goes DEF Predicting, InLevel1, InLevel2, FirstSent
    <2>6. PredictionMade'
      BY <1>1, <1>2, <1>5, <1>6, <2>2, <2>4, Goes DEF PredictionMade
    <2>7. Predicting'
      BY <1>1, <1>3, <1>9, <1>11, <2>2, <2>3, <2>5, <2>6, Goes DEF Predicting, At
    <2>8. Records'
      BY <1>1, <1>2, <1>6, <2>1, <2>2, Goes DEF Records
    <2> QED
      BY <1>1, <1>2, <2>3, <2>7, <2>8 DEF InPictures, Place
  <1>12. CASE ~Picture.enhanced /\ at.level = 1
    <2>1. encoder' = [encoder EXCEPT !.reco = adjusted] /\ at' = [at EXCEPT !.level = 2, !.stage = "upsample"]
      BY <1>5, <1>12 DEF EncoderAdjust
    <2>2. /\ encoder'.reco = adjusted /\ at'.level = 2 /\ at'.stage = "upsample" /\ at'.side = at.side
          /\ at'.image = at.image /\ DOMAIN at' = DOMAIN at
      BY <1>1, <2>1 DEF Records
    <2>3. Picture' = Picture /\ at'.image \in DOMAIN conf'.pictures
      BY <1>1, <1>2, <2>2 DEF Picture
    <2>4. sent = <<>> /\ received = <<>>
      BY <1>4, <1>12 DEF Predicting, InLevel1, InLevel2
    <2>5. adjusted = FirstOf(conf, Picture.enhanced, work.base, sent)
      BY <1>5, <1>12 DEF FirstOf, BelowNow
    <2>6. InLevel2'
      BY <1>2, <1>6, <1>12, <2>2, <2>3, <2>4, <2>5 DEF InLevel2
    <2>7. Predicting'
      BY <1>3, <1>9, <1>10, <2>2, <2>6 DEF Predicting, At
    <2>8. Records'
      BY <1>1, <1>2, <1>6, <1>7, <2>2 DEF Records
    <2> QED
      BY <1>1, <1>2, <2>3, <2>7, <2>8 DEF InPictures, Place
  <1>13. CASE ~Picture.enhanced /\ at.level = 2
    <2>1. encoder' = encoder /\ at' = [at EXCEPT !.stage = "unenhanced"]
      BY <1>5, <1>13 DEF EncoderAdjust
    <2>2. Go("unenhanced")
      BY <2>1 DEF Go
    <2>3. Picture' = Picture /\ at'.image \in DOMAIN conf'.pictures
      BY <1>1, <1>2, <2>2, Goes DEF Picture
    <2>4. BelowNow' = BelowNow
      BY <1>1, <1>2, <1>6, <2>2, <2>3, Goes DEF BelowNow
    <2>5. (InLevel2 /\ Agree)'
      BY <1>1, <1>2, <1>4, <1>6, <1>10, <1>13, <2>1, <2>2, <2>3, Goes DEF Predicting, InLevel1, InLevel2
    <2>6. PredictionMade'
      BY <1>1, <1>2, <1>5, <1>6, <2>2, <2>4, Goes DEF PredictionMade
    <2>7. Predicting'
      BY <1>1, <1>3, <1>9, <1>13, <2>2, <2>3, <2>5, <2>6, Goes DEF Predicting, At
    <2>8. Records'
      BY <1>1, <1>2, <1>6, <2>1, <2>2, Goes DEF Records
    <2> QED
      BY <1>1, <1>2, <2>3, <2>7, <2>8 DEF InPictures, Place
  <1> QED
    BY <1>8, <1>11, <1>12, <1>13

(* The steps of the encoder that only hand something on. *)
LEMMA HandingOn ==
  ASSUME InPictures, Coding, NEW stage \in {"types", "transform", "select", "quantise", "dequantise", "invert"},
         Go(stage), UNCHANGED <<conf, encoder, header, sent, received, decoder>>,
         DOMAIN work' = DOMAIN work, work'.source = work.source, work'.intermediate = work.intermediate,
         work'.base = work.base, work'.prediction = work.prediction, work'.mask = work.mask,
         HandedOn', stage = "invert" /\ at.pass = "final" => Dequantised1' /\ Dequantised2'
  PROVE  InPictures'
  <1>1. conf \in Configurations /\ at.image \in DOMAIN conf.pictures /\ Records
    BY DEF InPictures
  <1>2. Picture' = Picture /\ at'.image \in DOMAIN conf'.pictures
    BY <1>1, Goes DEF Picture
  <1>3. Pictures'
    BY DEF Coding, Pictures, Sources
  <1>4. BelowNow' = BelowNow
    BY <1>1, <1>2, Goes DEF BelowNow
  <1>5. PredictionMade'
    BY <1>1, <1>4, Goes DEF Coding, PredictionMade
  <1>6. CASE InLevel1
    <2>1. InLevel1'
      BY <1>1, <1>6, Goes DEF InLevel1, Agree
    <2>2. Coding'
      BY <1>1, <1>2, <1>3, <1>5, <2>1, Goes DEF Coding, At
    <2> QED
      BY <1>1, <1>2, <2>2, Goes DEF InPictures, Place, Records
  <1>7. CASE InLevel2 /\ Masked
    <2>1. InLevel2'
      BY <1>1, <1>2, <1>7, Goes DEF InLevel2, FirstSent
    <2>2. Masked'
      BY <1>1, <1>7, Goes DEF Masked, Agree
    <2>3. Coding'
      BY <1>1, <1>2, <1>3, <1>5, <2>1, <2>2, Goes DEF Coding, At
    <2> QED
      BY <1>1, <1>2, <2>3, Goes DEF InPictures, Place, Records
  <1> QED
    BY <1>6, <1>7 DEF Coding

LEMMA DifferenceKeeps ==
  ASSUME InPictures, Difference
  PROVE  InPictures'
  <1>1. conf \in Configurations /\ at.image \in DOMAIN conf.pictures /\ Records /\ Place
    BY DEF InPictures
  <1>2. UNCHANGED <<conf, encoder, sent, received, decoder>>
    BY DEF Difference
  <1>3. at.side = "encoder" /\ at.stage = "difference"
    BY DEF Difference, Stage, Encoder
  <1>4. Predicting
    BY <1>1, <1>3, Places DEF At
  <1>5. at.level \in 1 .. 2
    BY <1>4 DEF Predicting, InLevel1, InLevel2
  <1>6. PICK target, sad :
          /\ target = IF at.level = 1 THEN work.intermediate ELSE work.source
          /\ work' = [work EXCEPT !.difference = Subtract(target, work.prediction),
                                  !.residuals = Subtract(target, work.prediction),
                                  !.sad = sad, !.types = <<>>]
    BY DEF Difference, Nothing
  <1>7. /\ work'.difference = Subtract(target, work.prediction) /\ work'.residuals = work'.difference
        /\ DOMAIN work' = DOMAIN work /\ work'.prediction = work.prediction
        /\ work'.source = work.source /\ work'.intermediate = work.intermediate /\ work'.base = work.base
    <2>1. PICK d : d = Subtract(target, work.prediction)
      OBVIOUS
    <2> QED
      BY <1>1, <1>6, <2>1 DEF Records
  <1>8. WidthAt(conf, at.level) \in Dimension /\ HeightAt(conf, at.level) \in Dimension
    BY <1>1, <1>5, Frames DEF Frame
  <1>9. Shaped(work'.difference, WidthAt(conf, at.level), HeightAt(conf, at.level))
    <2>1. target \in Pels(WidthAt(conf, at.level), HeightAt(conf, at.level), Int)
      BY <1>4, <1>5, <1>6 DEF Predicting, Pictures, Sources
    <2>2. Shaped(target, WidthAt(conf, at.level), HeightAt(conf, at.level))
      BY <1>8, <2>1, PelsShaped
    <2> QED
      BY <1>7, <1>8, <2>2, SubtractShaped
  <1>10. PICK pass, stage :
           /\ at' = [at EXCEPT !.pass = pass, !.stage = stage]
           /\ stage \in {"mean", "transform"}
           /\ pass = IF at.level = 2 /\ ~Refreshed THEN "intra" ELSE "final"
    BY DEF Difference, FirstPass, EntryOf
  <1>11. /\ at'.pass = pass /\ at'.stage = stage /\ at'.side = at.side /\ at'.image = at.image
         /\ at'.level = at.level /\ DOMAIN at' = DOMAIN at
    BY <1>1, <1>10 DEF Records
  <1>12. Picture' = Picture /\ at'.image \in DOMAIN conf'.pictures
    BY <1>1, <1>2, <1>11 DEF Picture
  <1>13. Picture.enhanced
    BY <1>3, <1>4 DEF Predicting
  <1>14. Pictures'
    BY <1>2, <1>4, <1>7 DEF Predicting, Pictures, Sources
  <1>15. PredictionMade'
    <2>1. BelowNow' = BelowNow
      BY <1>1, <1>2, <1>7, <1>11, <1>12 DEF BelowNow
    <2> QED
      BY <1>2, <1>3, <1>4, <1>7, <1>11, <2>1 DEF Predicting, PredictionMade
  <1>16. HandedOn'
    BY <1>2, <1>7, <1>9, <1>10, <1>11 DEF HandedOn
  <1>17. Agree' /\ Agree
    BY <1>2, <1>4 DEF Predicting, InLevel1, Agree
  <1>18. CASE at.level = 1
    <2>1. header' = header
      BY <1>18 DEF Difference
    <2>2. InLevel1'
      BY <1>2, <1>4, <1>10, <1>11, <1>17, <1>18 DEF Predicting, InLevel1, InLevel2
    <2>3. Coding'
      BY <1>3, <1>10, <1>11, <1>12, <1>13, <1>14, <1>15, <1>16, <2>2 DEF Coding, At
    <2> QED
      BY <1>1, <1>2, <1>7, <1>11, <1>12, <2>1, <2>3 DEF InPictures, Place, Records
  <1>19. CASE at.level = 2
    <2>1. header' = [refresh |-> Refreshed, signalled |-> ~Refreshed, step |-> PictureStep]
      <3>1. at.level # 1
        BY <1>19
      <3> QED
        BY <3>1, Zenon DEF Difference
    <2>2. (header'.refresh <=> Refreshed) /\ (header'.signalled <=> ~Refreshed)
          /\ DOMAIN header' = {"refresh", "signalled", "step"}
      BY <2>1
    <2>3. InLevel2'
      BY <1>2, <1>4, <1>7, <1>11, <1>12, <1>19 DEF Predicting, InLevel1, InLevel2, FirstSent
    <2>4. Masked'
      <3>1. CASE Refreshed
        BY <1>10, <1>11, <1>17, <1>19, <2>2, <3>1 DEF Masked
      <3>2. CASE ~Refreshed
        <4>1. conf.temporal /\ encoder.previous # <<>>
          BY <3>2 DEF Refreshed, Nothing
        <4>2. decoder.buffer = encoder.previous /\ Shaped(decoder.buffer, conf.width, conf.height)
          BY <1>17, <4>1 DEF Agree
        <4> QED
          BY <1>2, <1>10, <1>11, <1>19, <2>2, <3>2, <4>1, <4>2 DEF Masked
      <3> QED
        BY <3>1, <3>2
    <2>5. Coding'
      BY <1>3, <1>10, <1>11, <1>12, <1>13, <1>14, <1>15, <1>16, <2>3, <2>4 DEF Coding, At
    <2> QED
      BY <1>1, <1>2, <1>7, <1>11, <1>12, <2>2, <2>5 DEF InPictures, Place, Records
  <1> QED
    BY <1>5, <1>18, <1>19

LEMMA MeansKeep ==
  ASSUME InPictures, ComputeMeans
  PROVE  InPictures'
  <1>1. at.side = "encoder" /\ at.stage = "mean" /\ Records /\ Place
    BY DEF InPictures, ComputeMeans, Stage, Encoder
  <1>2. Coding
    BY <1>1, Places DEF At
  <1>3. Go("types") /\ UNCHANGED <<conf, encoder, header, sent, received, decoder>>
    BY DEF ComputeMeans
  <1>4. PICK mean : work' = [work EXCEPT !.mean = mean]
    BY DEF ComputeMeans
  <1>5. /\ DOMAIN work' = DOMAIN work /\ work'.source = work.source /\ work'.intermediate = work.intermediate
        /\ work'.base = work.base /\ work'.prediction = work.prediction /\ work'.mask = work.mask
        /\ work'.difference = work.difference /\ work'.residuals = work.residuals
    BY <1>1, <1>4 DEF Records
  <1>6. HandedOn'
    BY <1>1, <1>2, <1>3, <1>5, Goes DEF Coding, HandedOn
  <1> QED
    BY <1>2, <1>3, <1>5, <1>6, HandingOn

LEMMA TypesKeep ==
  ASSUME InPictures, ComputeTypes
  PROVE  InPictures'
  <1>1. at.side = "encoder" /\ at.stage = "types" /\ Records /\ Place
    BY DEF InPictures, ComputeTypes, Stage, Encoder
  <1>2. Coding
    BY <1>1, Places DEF At
  <1>3. Go("transform") /\ UNCHANGED <<conf, encoder, header, sent, received, decoder>>
    BY DEF ComputeTypes
  <1>4. PICK types : work' = [work EXCEPT !.types = types]
    BY DEF ComputeTypes
  <1>5. /\ DOMAIN work' = DOMAIN work /\ work'.source = work.source /\ work'.intermediate = work.intermediate
        /\ work'.base = work.base /\ work'.prediction = work.prediction /\ work'.mask = work.mask
        /\ work'.difference = work.difference /\ work'.residuals = work.residuals
    BY <1>1, <1>4 DEF Records
  <1>6. HandedOn'
    BY <1>1, <1>2, <1>3, <1>5, Goes DEF Coding, HandedOn
  <1> QED
    BY <1>2, <1>3, <1>5, <1>6, HandingOn

LEMMA BlockFrame ==
  ASSUME conf \in Configurations, NEW level \in 1 .. 2
  PROVE  /\ conf.size \in {2, 4} /\ Across(conf, level) \in Dimension /\ Down(conf, level) \in Dimension
         /\ WidthAt(conf, level) = conf.size * Across(conf, level)
         /\ HeightAt(conf, level) = conf.size * Down(conf, level)
         /\ WidthAt(conf, level) \in Dimension /\ HeightAt(conf, level) \in Dimension
  BY Frames DEF Frame

LEMMA CodingLevel ==
  ASSUME Coding
  PROVE  at.level \in 1 .. 2
  <1>1. InLevel1 \/ InLevel2
    BY DEF Coding
  <1>2. at.level = 1 \/ at.level = 2
    BY <1>1 DEF InLevel1, InLevel2
  <1> QED
    BY <1>2

LEMMA TransformKeeps ==
  ASSUME InPictures, EncodeTransform
  PROVE  InPictures'
  <1>1. /\ at.side = "encoder" /\ at.stage = "transform" /\ Records /\ Place
        /\ conf \in Configurations
    BY DEF InPictures, EncodeTransform, Stage, Encoder
  <1>2. Coding
    BY <1>1, Places DEF At
  <1>3. Go("select") /\ UNCHANGED <<conf, encoder, header, sent, received, decoder>>
    BY DEF EncodeTransform
  <1>4. PICK layers : /\ layers = Coefficients(work.residuals, conf.size,
                                               ForwardBasis(conf.size, HorizontalOnly(at.level)))
                      /\ work' = [work EXCEPT !.coefficients = layers]
    BY DEF EncodeTransform
  <1>5. /\ DOMAIN work' = DOMAIN work /\ work'.source = work.source /\ work'.intermediate = work.intermediate
        /\ work'.base = work.base /\ work'.prediction = work.prediction /\ work'.mask = work.mask
        /\ work'.difference = work.difference /\ work'.coefficients = layers
    BY <1>1, <1>4 DEF Records
  <1>6. at.level \in 1 .. 2
    BY <1>2, CodingLevel
  <1>7. Layers(layers, conf.size * conf.size, Across(conf, at.level), Down(conf, at.level))
    <2>1. Shaped(work.residuals, conf.size * Across(conf, at.level), conf.size * Down(conf, at.level))
      BY <1>1, <1>2, <1>6, BlockFrame DEF Coding, HandedOn
    <2>2. HorizontalOnly(at.level) \in BOOLEAN
      BY DEF HorizontalOnly
    <2> QED
      BY <1>1, <1>4, <1>6, <2>1, <2>2, BlockFrame, CoefficientsShaped
  <1>8. HandedOn'
    BY <1>1, <1>2, <1>3, <1>5, <1>7, Goes DEF Coding, HandedOn
  <1> QED
    BY <1>2, <1>3, <1>5, <1>8, HandingOn

LEMMA SelectKeeps ==
  ASSUME InPictures, SelectCoefficients
  PROVE  InPictures'
  <1>1. /\ at.side = "encoder" /\ at.stage = "select" /\ Records /\ Place
        /\ conf \in Configurations
    BY DEF InPictures, SelectCoefficients, Stage, Encoder
  <1>2. Coding
    BY <1>1, Places DEF At
  <1>3. Go("quantise") /\ UNCHANGED <<conf, encoder, header, sent, received, decoder>>
    BY DEF SelectCoefficients
  <1>4. PICK layers : /\ layers = ByPriority(WithoutStatic(work.coefficients))
                      /\ work' = [work EXCEPT !.coefficients = layers]
    BY DEF SelectCoefficients
  <1>5. /\ DOMAIN work' = DOMAIN work /\ work'.source = work.source /\ work'.intermediate = work.intermediate
        /\ work'.base = work.base /\ work'.prediction = work.prediction /\ work'.mask = work.mask
        /\ work'.difference = work.difference /\ work'.coefficients = layers
    BY <1>1, <1>4 DEF Records
  <1>6. at.level \in 1 .. 2
    BY <1>2, CodingLevel
  <1> DEFINE Fine(s) == Layers(s, conf.size * conf.size, Across(conf, at.level), Down(conf, at.level))
  <1>7. PICK first : first = WithoutStatic(work.coefficients)
    OBVIOUS
  <1>8. Fine(first)
    <2>1. Fine(work.coefficients)
      BY <1>1, <1>2 DEF Coding, HandedOn
    <2>2. Fine(StaticResiduals(work.coefficients, PassSad, header.step, conf.sad_threshold, conf.sad_coeff_threshold))
      BY <1>1, <1>6, <2>1, BlockFrame, SelectedShaped
    <2> QED
      BY <1>7, <2>1, <2>2 DEF WithoutStatic
  <1>9. Fine(layers)
    <2>1. layers = ByPriority(first)
      BY <1>4, <1>7
    <2>2. \A types, type, mode : Fine(PriorityLevel1(first, conf.size, types, type, mode))
      BY <1>1, <1>6, <1>8, BlockFrame, SelectedShaped
    <2>3. \A types, type, sad, step : Fine(PriorityLevel2(first, conf.size, types, sad, type, step))
      BY <1>1, <1>6, <1>8, BlockFrame, SelectedShaped
    <2> HIDE DEF Fine
    <2> QED
      BY <1>6, <1>8, <2>1, <2>2, <2>3 DEF ByPriority
  <1>10. HandedOn'
    BY <1>1, <1>2, <1>3, <1>5, <1>9, Goes DEF Coding, HandedOn
  <1> QED
    BY <1>2, <1>3, <1>5, <1>10, HandingOn

LEMMA QuantiseKeeps ==
  ASSUME InPictures, QuantiseLayers
  PROVE  InPictures'
  <1>1. /\ at.side = "encoder" /\ at.stage = "quantise" /\ Records /\ Place
        /\ conf \in Configurations
    BY DEF InPictures, QuantiseLayers, Stage, Encoder
  <1>2. Coding
    BY <1>1, Places DEF At
  <1>3. Go("dequantise") /\ UNCHANGED <<conf, encoder, header, sent, received, decoder>>
    BY DEF QuantiseLayers
  <1>4. PICK layers : /\ layers = [l \in 0 .. NumLayers - 1 |->
                                     IF is_user_data_layer(at.level, l)
                                       THEN UserDataInsert(Quantised(l, work.coefficients[l]),
                                                           conf.user_data.bits, UserData)
                                       ELSE Quantised(l, work.coefficients[l])]
                      /\ work' = [work EXCEPT !.symbols = layers]
    BY DEF QuantiseLayers
  <1>5. /\ DOMAIN work' = DOMAIN work /\ work'.source = work.source /\ work'.intermediate = work.intermediate
        /\ work'.base = work.base /\ work'.prediction = work.prediction /\ work'.mask = work.mask
        /\ work'.difference = work.difference /\ work'.symbols = layers
    BY <1>1, <1>4 DEF Records
  <1>6. at.level \in 1 .. 2
    BY <1>2, CodingLevel
  <1>7. Layers(layers, conf.size * conf.size, Across(conf, at.level), Down(conf, at.level))
    <2>1. ASSUME NEW l \in 0 .. conf.size * conf.size - 1
          PROVE  Shaped(layers[l], Across(conf, at.level), Down(conf, at.level))
      <3>1. PICK s : s = work.coefficients[l] /\ Shaped(s, Across(conf, at.level), Down(conf, at.level))
        BY <1>1, <1>2 DEF Coding, HandedOn, Layers
      <3>2. Shaped(Quantised(l, s), Across(conf, at.level), Down(conf, at.level))
        <4>1. PICK q : q = [p \in 1 .. Len(PassSteps) |-> Quantiser(PassSteps[p], Matrix(l))]
          OBVIOUS
        <4>2. Quantised(l, s) = IF Len(q) = 1
                                  THEN Quantize(s, q, PassSad, conf.size, conf.quant_reduced_deadzone)
                                  ELSE Quantize_SWM(s, q, work.mask, PassSad, conf.size, conf.quant_reduced_deadzone)
          BY <4>1, Zenon DEF Quantised
        <4> QED
          BY <1>1, <1>6, <3>1, <4>2, BlockFrame, QuantisedShaped
      <3>3. PICK t : t = Quantised(l, s)
        OBVIOUS
      <3>4. Shaped(UserDataInsert(t, conf.user_data.bits, UserData), Across(conf, at.level), Down(conf, at.level))
        BY <1>1, <1>6, <3>2, <3>3, BlockFrame, QuantisedShaped
      <3>5. layers[l] = IF is_user_data_layer(at.level, l) THEN UserDataInsert(t, conf.user_data.bits, UserData) ELSE t
        BY <1>4, <3>1, <3>3 DEF NumLayers
      <3> QED
        BY <3>2, <3>3, <3>4, <3>5
    <2>2. DOMAIN layers = 0 .. conf.size * conf.size - 1
      BY <1>4 DEF NumLayers
    <2> QED
      BY <2>1, <2>2 DEF Layers
  <1>8. HandedOn'
    BY <1>1, <1>2, <1>3, <1>5, <1>7, Goes DEF Coding, HandedOn
  <1> QED
    BY <1>2, <1>3, <1>5, <1>8, HandingOn

(* In the last pass both sides have the same steps. *)
LEMMA SameSteps ==
  ASSUME at.pass = "final", at.level \in 1 .. 2, at.level = 2 /\ ~header.refresh => conf.temporal
  PROVE  /\ PassSteps = StepsOf(conf, at.level, header)
         /\ at.level = 1 \/ header.refresh => Len(PassSteps) = 1
         /\ at.level = 2 /\ ~header.refresh => Len(PassSteps) = 2
         /\ \A steps, l : Dequantisers(steps, l) = DequantisersOf(conf, at.level, steps, l)
         /\ \A l, s : Cleared(l, s) = ClearedOf(conf, at.level, l, s)
         /\ at.level = 2 => \A l, s : ClearedOf(conf, at.level, l, s) = s
  <1>1. PICK step : step = PlaneStep(at.level)
    OBVIOUS
  <1>2. step = StepOfPlane(conf, at.level, header.step)
    BY <1>1 DEF PlaneStep, StepOfPlane
  <1>3. CASE at.level = 1 \/ header.refresh
    <2>1. SwmType = "Disabled"
      BY <1>3 DEF SwmType
    <2>2. PassSteps = <<step>>
      BY <1>1, <2>1 DEF PassSteps, StepWidths
    <2>3. StepsOf(conf, at.level, header) = <<step>>
      BY <1>2, <1>3 DEF StepsOf
    <2>4. PassSteps = StepsOf(conf, at.level, header) /\ Len(PassSteps) = 1
      BY <2>2, <2>3
    <2> QED
      BY <1>3, <2>4 DEF Dequantisers, DequantisersOf, Matrix, Cleared, ClearedOf, is_user_data_layer, UserLayer
  <1>4. CASE at.level = 2 /\ ~header.refresh
    <2>1. SwmType = "Dependent"
      BY <1>4 DEF SwmType
    <2>2. PassSteps = <<ModifiedStepWidth(step, conf.temporal_step_width_modifier), step>>
      BY <1>1, <2>1 DEF PassSteps, StepWidths
    <2>3. StepsOf(conf, at.level, header) = <<ModifiedStepWidth(step, conf.temporal_step_width_modifier), step>>
      BY <1>2, <1>4 DEF StepsOf
    <2>4. PassSteps = StepsOf(conf, at.level, header) /\ Len(PassSteps) = 2
      BY <2>2, <2>3
    <2> QED
      BY <1>4, <2>4 DEF Dequantisers, DequantisersOf, Matrix, Cleared, ClearedOf, is_user_data_layer, UserLayer
  <1> QED
    BY <1>3, <1>4

LEMMA SameCoefficients ==
  ASSUME InPictures, EncoderDequantise, ProductsFit, at.pass = "final", work'.coefficients =
           [l \in 0 .. NumLayers - 1 |->
              IF Len(PassSteps) = 1
                THEN InverseQuantize(Cleared(l, work.symbols[l]), Dequantisers(PassSteps, l))
                ELSE InverseQuantize_SWM(work.symbols[l], Dequantisers(PassSteps, l), work.mask)]
  PROVE  /\ at.level = 1 \/ header.refresh =>
              /\ \A mask : work'.coefficients = DecodedOf(conf, at.level, header, work.symbols, mask)
              /\ \A l \in 0 .. conf.size * conf.size - 1 :
                   work'.coefficients[l] \in Pels(Across(conf, at.level), Down(conf, at.level), Word16)
         /\ at.level = 2 /\ ~header.refresh =>
              work'.coefficients = DecodedOf(conf, at.level, header, work.symbols, work.mask)
  <1>1. at.side = "encoder" /\ at.stage = "dequantise" /\ Place /\ conf \in Configurations
    BY DEF InPictures, EncoderDequantise, Stage, Encoder
  <1>2. Coding
    BY <1>1, Places DEF At
  <1>3. at.level \in 1 .. 2
    BY <1>2, CodingLevel
  <1>4. at.level = 2 /\ ~header.refresh => conf.temporal
    <2>1. at.level = 2 => Masked
      BY <1>2 DEF Coding, InLevel1
    <2> QED
      BY <2>1 DEF Masked
  <1>5. Layers(work.symbols, conf.size * conf.size, Across(conf, at.level), Down(conf, at.level))
    BY <1>1, <1>2 DEF Coding, HandedOn
  <1> DEFINE steps == StepsOf(conf, at.level, header)
             q(l) == DequantisersOf(conf, at.level, steps, l)
             s(l) == ClearedOf(conf, at.level, l, work.symbols[l])
  <1>6. ASSUME at.level = 1 \/ header.refresh, NEW l \in 0 .. conf.size * conf.size - 1, NEW mask
        PROVE  /\ work'.coefficients[l] = DequantizeInPlace(s(l), q(l), mask)
               /\ work'.coefficients[l] \in Pels(Across(conf, at.level), Down(conf, at.level), Word16)
    <2>1. Len(PassSteps) = 1 /\ PassSteps = steps
      BY <1>3, <1>4, <1>6, SameSteps
    <2>2. PICK t, d : t = s(l) /\ d = q(l)
      OBVIOUS
    <2>3. work'.coefficients[l] = InverseQuantize(t, d) /\ Cleared(l, work.symbols[l]) = t
          /\ Dequantisers(PassSteps, l) = d
      <3>1. Cleared(l, work.symbols[l]) = t /\ Dequantisers(PassSteps, l) = d
        BY <1>3, <1>4, <2>1, <2>2, SameSteps
      <3>2. work'.coefficients[l] = InverseQuantize(Cleared(l, work.symbols[l]), Dequantisers(PassSteps, l))
        BY <2>1 DEF NumLayers
      <3> QED
        BY <3>1, <3>2
    <2>4. Fits(t, d)
      BY <1>1, <2>1, <2>3 DEF ProductsFit, Stage, Encoder, NumLayers
    <2>5. Shaped(t, Across(conf, at.level), Down(conf, at.level))
      <3>1. Shaped(work.symbols[l], Across(conf, at.level), Down(conf, at.level))
        BY <1>5 DEF Layers
      <3>2. Shaped(UserDataClear(work.symbols[l], conf.user_data.bits), Across(conf, at.level), Down(conf, at.level))
        BY <1>1, <1>3, <3>1, BlockFrame, QuantisedShaped
      <3> QED
        BY <2>2, <3>1, <3>2 DEF ClearedOf
    <2>6. Len(d) = 1
      <3>1. Len(steps) = 1
        BY <2>1
      <3> HIDE DEF steps
      <3> QED
        BY <2>2, <3>1 DEF DequantisersOf
    <2> QED
      BY <1>1, <1>3, <2>2, <2>3, <2>4, <2>5, <2>6, BlockFrame, SameDequantised
  <1>7. ASSUME at.level = 2, ~header.refresh, NEW l \in 0 .. conf.size * conf.size - 1
        PROVE  work'.coefficients[l] = DequantizeInPlace(s(l), q(l), work.mask)
    <2>1. Len(PassSteps) = 2 /\ PassSteps = steps
      BY <1>3, <1>4, <1>7, SameSteps
    <2>2. PICK t, d : t = work.symbols[l] /\ d = q(l)
      OBVIOUS
    <2>3. t = s(l) /\ Dequantisers(PassSteps, l) = d
      BY <1>3, <1>4, <1>7, <2>1, <2>2, SameSteps
    <2>4. work'.coefficients[l] = InverseQuantize_SWM(t, d, work.mask)
      <3>1. work'.coefficients[l] = InverseQuantize_SWM(work.symbols[l], Dequantisers(PassSteps, l), work.mask)
        BY <2>1 DEF NumLayers
      <3> QED
        BY <2>2, <2>3, <3>1
    <2>5. Len(d) # 1
      <3>1. Len(steps) = 2
        BY <2>1
      <3> HIDE DEF steps
      <3> QED
        BY <2>2, <3>1 DEF DequantisersOf
    <2> QED
      BY <2>2, <2>3, <2>4, <2>5, SameDequantisedByMask
  <1>8. work'.coefficients = [l \in 0 .. conf.size * conf.size - 1 |-> work'.coefficients[l]]
    BY DEF NumLayers
  <1> HIDE DEF steps
  <1>9. ASSUME at.level = 1 \/ header.refresh, NEW mask
        PROVE  work'.coefficients = DecodedOf(conf, at.level, header, work.symbols, mask)
    BY <1>6, <1>8, <1>9 DEF DecodedOf, steps
  <1>10. ASSUME at.level = 2, ~header.refresh
         PROVE  work'.coefficients = DecodedOf(conf, at.level, header, work.symbols, work.mask)
    BY <1>7, <1>8, <1>10 DEF DecodedOf, steps
  <1> QED
    BY <1>6, <1>9, <1>10

LEMMA DequantiseKeeps ==
  ASSUME InPictures, EncoderDequantise, ProductsFit
  PROVE  InPictures'
  <1>1. /\ at.side = "encoder" /\ at.stage = "dequantise" /\ Records /\ Place
        /\ conf \in Configurations
    BY DEF InPictures, EncoderDequantise, Stage, Encoder
  <1>2. Coding
    BY <1>1, Places DEF At
  <1>3. Go("invert") /\ UNCHANGED <<conf, encoder, header, sent, received, decoder>>
    BY DEF EncoderDequantise
  <1>4. PICK layers : /\ layers = [l \in 0 .. NumLayers - 1 |->
                            IF Len(PassSteps) = 1
                              THEN InverseQuantize(Cleared(l, work.symbols[l]), Dequantisers(PassSteps, l))
                              ELSE InverseQuantize_SWM(work.symbols[l], Dequantisers(PassSteps, l), work.mask)]
                      /\ work' = [work EXCEPT !.coefficients = layers]
    BY DEF EncoderDequantise
  <1>5. /\ DOMAIN work' = DOMAIN work /\ work'.source = work.source /\ work'.intermediate = work.intermediate
        /\ work'.base = work.base /\ work'.prediction = work.prediction /\ work'.mask = work.mask
        /\ work'.difference = work.difference /\ work'.symbols = work.symbols /\ work'.coefficients = layers
    BY <1>1, <1>4 DEF Records
  <1>6. HandedOn'
    BY <1>1, <1>2, <1>3, <1>5, Goes DEF Coding, HandedOn
  <1>7. ASSUME at.pass = "final"
        PROVE  Dequantised1' /\ Dequantised2'
    <2>1. /\ at.level = 1 \/ header.refresh =>
                /\ \A mask : layers = DecodedOf(conf, at.level, header, work.symbols, mask)
                /\ \A l \in 0 .. conf.size * conf.size - 1 :
                     layers[l] \in Pels(Across(conf, at.level), Down(conf, at.level), Word16)
          /\ at.level = 2 /\ ~header.refresh =>
                layers = DecodedOf(conf, at.level, header, work.symbols, work.mask)
      BY <1>4, <1>5, <1>7, SameCoefficients
    <2>2. Dequantised1'
      BY <1>1, <1>3, <1>5, <2>1, Goes, OneFirstStep DEF Dequantised1
    <2>3. Dequantised2'
      BY <1>1, <1>3, <1>5, <2>1, Goes DEF Dequantised2
    <2> QED
      BY <2>2, <2>3
  <1> QED
    BY <1>2, <1>3, <1>5, <1>6, <1>7, HandingOn

LEMMA TrialKeeps ==
  ASSUME InPictures, InvertTrial
  PROVE  InPictures'
  <1>1. /\ at.side = "encoder" /\ at.stage = "invert" /\ at.pass # "final" /\ Records /\ Place
        /\ conf \in Configurations /\ at.image \in DOMAIN conf.pictures
    BY DEF InPictures, InvertTrial, Stage, Encoder
  <1>2. Coding
    BY <1>1, Places DEF At
  <1>3. UNCHANGED <<conf, encoder, header, sent, received, decoder>>
    BY DEF InvertTrial
  <1>4. InLevel2 /\ Masked /\ at.level = 2
    BY <1>1, <1>2 DEF Coding, InLevel1, InLevel2
  <1>5. ~header.refresh
    BY <1>1, <1>4 DEF Masked
  <1>6. PICK residuals : /\ Shaped(residuals, WidthAt(conf, 2), HeightAt(conf, 2))
                         /\ work' = IF at.pass = "inter" THEN work ELSE [work EXCEPT !.residuals = residuals]
    <2>1. PICK r : r = Subtract(work.difference, encoder.previous)
      OBVIOUS
    <2>2. Shaped(r, WidthAt(conf, 2), HeightAt(conf, 2))
      BY <1>1, <1>2, <1>4, <2>1, BlockFrame, SubtractShaped DEF Coding, HandedOn
    <2> QED
      BY <2>1, <2>2 DEF InvertTrial
  <1>7. /\ DOMAIN work' = DOMAIN work /\ work'.source = work.source /\ work'.intermediate = work.intermediate
        /\ work'.base = work.base /\ work'.prediction = work.prediction /\ work'.mask = work.mask
        /\ work'.difference = work.difference /\ work'.symbols = work.symbols
        /\ at.pass # "inter" => work'.residuals = residuals
    BY <1>1, <1>6 DEF Records
  <1>8. /\ DOMAIN at' = DOMAIN at /\ at'.side = at.side /\ at'.image = at.image /\ at'.level = at.level
        /\ at'.pass # "final"
        /\ at'.stage = IF at.pass = "inter" THEN "decide" ELSE "transform"
    BY <1>1 DEF InvertTrial, Records
  <1>9. Picture' = Picture /\ at'.image \in DOMAIN conf'.pictures
    BY <1>1, <1>3, <1>8 DEF Picture
  <1>10. Pictures'
    BY <1>2, <1>3, <1>7 DEF Coding, Pictures, Sources
  <1>11. PredictionMade'
    <2>1. BelowNow' = BelowNow
      BY <1>3, <1>7, <1>8, <1>9 DEF BelowNow
    <2> QED
      BY <1>2, <1>3, <1>7, <1>8, <2>1 DEF Coding, PredictionMade
  <1>12. InLevel2'
    BY <1>3, <1>4, <1>7, <1>8, <1>9 DEF InLevel2, FirstSent
  <1>13. HandedOn'
    BY <1>2, <1>3, <1>4, <1>6, <1>7, <1>8 DEF Coding, HandedOn
  <1>14. Masked'
    BY <1>1, <1>3, <1>4, <1>5, <1>8 DEF Masked
  <1>15. Coding'
    BY <1>1, <1>2, <1>8, <1>9, <1>10, <1>11, <1>12, <1>13, <1>14 DEF Coding, At
  <1> QED
    BY <1>1, <1>3, <1>7, <1>8, <1>9, <1>15 DEF InPictures, Place, Records

LEMMA DecideKeeps ==
  ASSUME InPictures, Decide
  PROVE  InPictures'
  <1>1. /\ at.side = "encoder" /\ at.stage = "decide" /\ Records /\ Place
        /\ conf \in Configurations /\ at.image \in DOMAIN conf.pictures
    BY DEF InPictures, Decide, Stage, Encoder
  <1>2. Coding
    BY <1>1, Places DEF At
  <1>3. Go("predict") /\ UNCHANGED <<conf, encoder, header, sent, received, decoder>>
    BY DEF Decide
  <1>4. at.level \in 1 .. 2
    BY <1>2, CodingLevel
  <1>5. PICK mask : /\ at.level = 2 => Shaped(mask, Across(conf, 2), Down(conf, 2))
                    /\ work' = [work EXCEPT !.mask = mask]
    <2>1. PICK first : first = CompareLE(TrialCost("intra"), TrialCost("inter"))
      OBVIOUS
    <2>2. PICK second : second = IF conf.tile_signalling THEN TemporalTileIntraSignal(TileMap, first, conf.size)
                                                         ELSE first
      OBVIOUS
    <2>3. work' = [work EXCEPT !.mask = second]
      BY <2>1, <2>2 DEF Decide
    <2>4. Shaped(work.source, conf.size * Across(conf, 2), conf.size * Down(conf, 2))
      <3>1. work.source \in Pels(WidthAt(conf, 2), HeightAt(conf, 2), Int)
        BY <1>2 DEF Coding, Pictures, Sources
      <3> QED
        BY <1>1, <3>1, BlockFrame, PelsShaped
    <2>5. Shaped(first, Across(conf, 2), Down(conf, 2))
      BY <1>1, <2>1, <2>4, BlockFrame, MasksShaped DEF TrialCost
    <2>6. Shaped(TemporalTileIntraSignal(TileMap, first, conf.size), Across(conf, 2), Down(conf, 2))
      BY <1>1, <2>4, <2>5, BlockFrame, MasksShaped
    <2> QED
      BY <2>2, <2>3, <2>5, <2>6
  <1>6. /\ DOMAIN work' = DOMAIN work /\ work'.source = work.source /\ work'.intermediate = work.intermediate
        /\ work'.base = work.base /\ work'.prediction = work.prediction /\ work'.mask = mask
        /\ work'.difference = work.difference
    BY <1>1, <1>5 DEF Records
  <1>7. at.level = 2 /\ InLevel2 /\ Masked /\ at.pass # "final"
    <2>1. at.pass # "final" /\ (InLevel1 \/ (InLevel2 /\ Masked))
      BY <1>1, <1>2 DEF Coding
    <2>2. ~InLevel1
      BY <2>1 DEF InLevel1
    <2> QED
      BY <2>1, <2>2 DEF InLevel2
  <1>8. Picture' = Picture /\ at'.image \in DOMAIN conf'.pictures
    BY <1>1, <1>3, Goes DEF Picture
  <1>9. Pictures'
    BY <1>2, <1>3, <1>6 DEF Coding, Pictures, Sources
  <1>10. PredictionMade'
    <2>1. BelowNow' = BelowNow
      BY <1>1, <1>3, <1>6, <1>8, Goes DEF BelowNow
    <2> QED
      BY <1>1, <1>2, <1>3, <1>6, <2>1, Goes DEF Coding, PredictionMade
  <1>11. InLevel2'
    BY <1>1, <1>3, <1>6, <1>7, <1>8, Goes DEF InLevel2, FirstSent
  <1>12. HandedOn'
    BY <1>1, <1>2, <1>3, <1>6, Goes DEF Coding, HandedOn
  <1>13. Masked'
    BY <1>1, <1>3, <1>5, <1>6, <1>7, Goes DEF Masked, Agree
  <1>14. Coding'
    BY <1>1, <1>2, <1>3, <1>8, <1>9, <1>10, <1>11, <1>12, <1>13, Goes DEF Coding, At
  <1> QED
    BY <1>1, <1>3, <1>6, <1>8, <1>14, Goes DEF InPictures, Place, Records

LEMMA PredictKeeps ==
  ASSUME InPictures, PredictTemporally
  PROVE  InPictures'
  <1>1. /\ at.side = "encoder" /\ at.stage = "predict" /\ Records /\ Place
        /\ conf \in Configurations /\ at.image \in DOMAIN conf.pictures
    BY DEF InPictures, PredictTemporally, Stage, Encoder
  <1>2. Coding
    BY <1>1, Places DEF At
  <1>3. UNCHANGED <<conf, header, sent, received, decoder>>
    BY DEF PredictTemporally
  <1>4. at.level = 2 /\ InLevel2 /\ Masked /\ at.pass # "final" /\ ~header.refresh
    <2>1. at.pass # "final" /\ (InLevel1 \/ (InLevel2 /\ Masked))
      BY <1>1, <1>2 DEF Coding
    <2>2. ~InLevel1
      BY <2>1 DEF InLevel1
    <2> QED
      BY <2>1, <2>2 DEF InLevel2, Masked
  <1>5. PICK previous, residuals :
          /\ previous = ApplyTemporalMap(encoder.previous, work.mask, conf.size)
          /\ residuals = Subtract(work.difference, previous)
          /\ encoder' = [encoder EXCEPT !.previous = previous]
          /\ work' = [work EXCEPT !.residuals = residuals]
    BY DEF PredictTemporally
  <1>6. /\ DOMAIN work' = DOMAIN work /\ work'.source = work.source /\ work'.intermediate = work.intermediate
        /\ work'.base = work.base /\ work'.prediction = work.prediction /\ work'.mask = work.mask
        /\ work'.difference = work.difference /\ work'.residuals = residuals
        /\ DOMAIN encoder' = DOMAIN encoder /\ encoder'.reco = encoder.reco /\ encoder'.previous = previous
    BY <1>1, <1>5 DEF Records
  <1>7. PICK stage \in {"mean", "transform"} : at' = [at EXCEPT !.pass = "final", !.stage = stage]
    BY DEF PredictTemporally, EntryOf
  <1>8. /\ DOMAIN at' = DOMAIN at /\ at'.side = at.side /\ at'.image = at.image /\ at'.level = at.level
        /\ at'.pass = "final" /\ at'.stage = stage
    BY <1>1, <1>7 DEF Records
  <1>9. Picture' = Picture /\ at'.image \in DOMAIN conf'.pictures
    BY <1>1, <1>3, <1>8 DEF Picture
  <1>10. Pictures'
    BY <1>2, <1>3, <1>6 DEF Coding, Pictures, Sources
  <1>11. PredictionMade'
    <2>1. BelowNow' = BelowNow
      BY <1>3, <1>6, <1>8, <1>9 DEF BelowNow
    <2> QED
      BY <1>2, <1>3, <1>6, <1>8, <2>1 DEF Coding, PredictionMade
  <1>12. InLevel2'
    BY <1>3, <1>4, <1>6, <1>8, <1>9 DEF InLevel2, FirstSent
  <1>13. HandedOn'
    <2>1. Shaped(residuals, WidthAt(conf, 2), HeightAt(conf, 2))
      BY <1>1, <1>2, <1>4, <1>5, BlockFrame, SubtractShaped DEF Coding, HandedOn
    <2> QED
      BY <1>2, <1>3, <1>4, <1>6, <1>8, <2>1 DEF Coding, HandedOn
  <1>14. Masked'
    BY <1>1, <1>3, <1>4, <1>5, <1>6, <1>8 DEF Masked
  <1>15. Coding'
    BY <1>1, <1>2, <1>8, <1>9, <1>10, <1>11, <1>12, <1>13, <1>14 DEF Coding, At
  <1> QED
    BY <1>1, <1>3, <1>6, <1>8, <1>9, <1>15 DEF InPictures, Place, Records

(* The layers in the order in which they are sent. *)
LEMMA LayersInOrder ==
  ASSUME NEW n \in Nat, NEW s
  PROVE  /\ \E A : [l \in 1 .. n |-> s[l - 1]] \in Seq(A)
         /\ Len([l \in 1 .. n |-> s[l - 1]]) = n
         /\ \A l \in 0 .. n - 1 : [i \in 1 .. n |-> s[i - 1]][1 + l] = s[l]
  <1>1. PICK t : t = [l \in 1 .. n |-> s[l - 1]]
    OBVIOUS
  <1>2. t \in [1 .. n -> {t[i] : i \in 1 .. n}]
    BY <1>1
  <1>3. t \in Seq({t[i] : i \in 1 .. n})
    BY <1>2
  <1>4. Len(t) = n
    BY <1>1
  <1>5. ASSUME NEW l \in 0 .. n - 1
        PROVE  t[1 + l] = s[l]
    <2>1. 1 + l \in 1 .. n /\ (1 + l) - 1 = l
      OBVIOUS
    <2> QED
      BY <1>1, <2>1
  <1> QED
    BY <1>1, <1>3, <1>4, <1>5

LEMMA FirstKeeps ==
  ASSUME InPictures, InvertLevel1
  PROVE  InPictures'
  <1>1. /\ at.side = "encoder" /\ at.stage = "invert" /\ at.level = 1 /\ Records /\ Place
        /\ conf \in Configurations /\ at.image \in DOMAIN conf.pictures
    BY DEF InPictures, InvertLevel1, Stage, Encoder
  <1>2. Coding
    BY <1>1, Places DEF At
  <1>3. UNCHANGED <<conf, work, header, received, decoder>>
    BY DEF InvertLevel1
  <1>4. InLevel1
    BY <1>1, <1>2 DEF Coding, InLevel2
  <1>5. work.coefficients = FirstDecoded(conf, work.symbols)
    BY <1>1, <1>2, <1>4 DEF Coding, InLevel1, Dequantised1
  <1>6. PICK n \in Nat : n = conf.size * conf.size
    <2>1. conf.size \in {2, 4}
      BY <1>1, ConfigurationsAssumption
    <2> QED
      BY <2>1
  <1>7. sent' = [l \in 1 .. n |-> work.symbols[l - 1]]
    BY <1>6 DEF InvertLevel1, NumLayers
  <1>8. (\E A : sent' \in Seq(A)) /\ Len(sent') = n /\ \A l \in 0 .. n - 1 : sent'[1 + l] = work.symbols[l]
    <2>1. PICK r, t : r = sent' /\ t = work.symbols
      OBVIOUS
    <2>2. r = [l \in 1 .. n |-> t[l - 1]]
      BY <1>7, <2>1
    <2>3. (\E A : r \in Seq(A)) /\ Len(r) = n /\ \A l \in 0 .. n - 1 : r[1 + l] = t[l]
      BY <2>2, LayersInOrder
    <2> QED
      BY <2>1, <2>3
  <1>9. FirstDecoded(conf, LayersSent(conf, 1, sent')) = FirstDecoded(conf, work.symbols)
    <2>1. \A l \in 0 .. n - 1 : LayersSent(conf, 1, sent')[l] = work.symbols[l]
      BY <1>6, <1>8 DEF LayersSent
    <2> QED
      BY <1>6, <2>1 DEF FirstDecoded, DecodedOf
  <1>10. PICK reco : /\ reco = AddSurfaces(work.prediction, Filtered(Inverted))
                     /\ encoder' = [encoder EXCEPT !.reco = reco]
    BY DEF InvertLevel1
  <1>11. DOMAIN encoder' = DOMAIN encoder /\ encoder'.reco = reco /\ encoder'.previous = encoder.previous
    BY <1>1, <1>10 DEF Records
  <1>12. reco = FirstOf(conf, TRUE, work.base, sent')
    <2>1. PICK inverted : inverted = InvertedOf(conf, 1, work.coefficients)
      OBVIOUS
    <2>2. Inverted = inverted
      BY <1>1, <2>1 DEF Inverted, InvertedOf, HorizontalOnly
    <2>3. Filtered(inverted) = FilteredOf(conf, inverted)
      BY <1>1 DEF Filtered, FilteredOf, Nothing
    <2>4. work.prediction = PredictionOf(conf, BaseOf(conf, work.base), 1)
      BY <1>1, <1>2 DEF Coding, PredictionMade, BelowNow
    <2> QED
      BY <1>5, <1>9, <1>10, <2>1, <2>2, <2>3, <2>4 DEF FirstOf
  <1>13. at' = [at EXCEPT !.level = 2, !.stage = "upsample"]
    BY DEF InvertLevel1
  <1>14. /\ DOMAIN at' = DOMAIN at /\ at'.side = at.side /\ at'.image = at.image /\ at'.level = 2
         /\ at'.stage = "upsample"
    BY <1>1, <1>13 DEF Records
  <1>15. Picture' = Picture /\ at'.image \in DOMAIN conf'.pictures /\ Picture.enhanced
    BY <1>1, <1>2, <1>3, <1>14 DEF Picture, Coding
  <1>16. FirstSent'
    <2>1. ASSUME NEW i \in 1 .. n
          PROVE  Shaped(sent'[i], Across(conf, 1), Down(conf, 1))
      <3>1. i - 1 \in 0 .. n - 1 /\ sent'[i] = work.symbols[i - 1]
        BY <1>7
      <3> QED
        BY <1>1, <1>2, <1>6, <3>1 DEF Coding, HandedOn, Layers
    <2> QED
      BY <1>3, <1>6, <1>8, <2>1 DEF FirstSent
  <1>17. InLevel2'
    BY <1>3, <1>4, <1>11, <1>12, <1>14, <1>15, <1>16 DEF InLevel1, InLevel2
  <1>18. Agree'
    BY <1>3, <1>4, <1>11 DEF InLevel1, Agree
  <1>19. Predicting'
    BY <1>1, <1>2, <1>3, <1>14, <1>17, <1>18 DEF Coding, Predicting, At, Pictures, Sources
  <1> QED
    BY <1>1, <1>3, <1>11, <1>14, <1>15, <1>19 DEF InPictures, Place, Records

LEMMA Wider ==
  ASSUME NEW A, NEW B, A \subseteq B, NEW s \in Seq(A)
  PROVE  s \in Seq(B)
  <1>1. Len(s) \in Nat /\ s \in [1 .. Len(s) -> A]
    OBVIOUS
  <1>2. s \in [1 .. Len(s) -> B]
    BY <1>1
  <1> QED
    BY <1>1, <1>2

LEMMA InThreeParts ==
  ASSUME NEW C, NEW a \in Seq(C), NEW b \in Seq(C), NEW c \in Seq(C), NEW r, r = (a \o b) \o c
  PROVE  /\ r \in Seq(C) /\ Len(r) = (Len(a) + Len(b)) + Len(c)
         /\ \A i \in 1 .. Len(a) : r[i] = a[i]
         /\ \A i \in 1 .. Len(b) : r[Len(a) + i] = b[i]
         /\ \A i \in 1 .. Len(c) : r[(Len(a) + Len(b)) + i] = c[i]
  <1>1. PICK d : d = a \o b
    OBVIOUS
  <1>2. /\ d \in Seq(C) /\ Len(d) = Len(a) + Len(b) /\ Len(a) \in Nat /\ Len(b) \in Nat
        /\ \A i \in 1 .. Len(a) : d[i] = a[i]
        /\ \A i \in 1 .. Len(b) : d[Len(a) + i] = b[i]
    BY <1>1
  <1>3. /\ r \in Seq(C) /\ Len(r) = Len(d) + Len(c)
        /\ \A i \in 1 .. Len(d) : r[i] = d[i]
        /\ \A i \in 1 .. Len(c) : r[Len(d) + i] = c[i]
    BY <1>1, <1>2
  <1> QED
    BY <1>2, <1>3

(* All that is sent of an enhanced picture: s is sub-layer 1. *)
SentAs(r, s, n, t, masks) == r = s \o [l \in 1 .. n |-> t[l - 1]] \o masks

AllSent(r, s, n, t, m, masks) ==
  /\ \E A : r \in Seq(A)
  /\ Len(r) = IF masks = <<>> THEN n + n ELSE n + n + 1
  /\ \A i \in 1 .. n : r[i] = s[i]
  /\ \A l \in 0 .. n - 1 : r[n + 1 + l] = t[l]
  /\ masks = <<m>> => r[Len(r)] = m

IsSequence(s) == \E A : s \in Seq(A)

LEMMA AllInOrder ==
  ASSUME NEW n \in Nat, NEW s, NEW t, NEW m, NEW masks, NEW r
  PROVE  IsSequence(s) /\ Len(s) = n /\ masks \in {<<>>, <<m>>} /\ SentAs(r, s, n, t, masks)
           => AllSent(r, s, n, t, m, masks)
  <1>0. SUFFICES ASSUME IsSequence(s), Len(s) = n, masks \in {<<>>, <<m>>}, SentAs(r, s, n, t, masks)
                 PROVE  AllSent(r, s, n, t, m, masks)
    OBVIOUS
  <1>1. PICK layers : layers = [l \in 1 .. n |-> t[l - 1]]
    OBVIOUS
  <1>2. PICK A : s \in Seq(A)
    BY <1>0 DEF IsSequence
  <1>3. PICK B : layers \in Seq(B) /\ Len(layers) = n /\ \A l \in 0 .. n - 1 : layers[1 + l] = t[l]
    BY <1>1, LayersInOrder
  <1>4. PICK C : C = A \cup B \cup {m}
    OBVIOUS
  <1>5. s \in Seq(C) /\ layers \in Seq(C)
    BY <1>2, <1>3, <1>4, Wider
  <1>6. masks \in Seq(C) /\ Len(masks) = (IF masks = <<>> THEN 0 ELSE 1) /\ (masks = <<m>> => masks[1] = m)
    <2>0. masks \in {<<>>, <<m>>}
      BY <1>0
    <2>1. CASE masks = <<>>
      BY <2>1
    <2>2. CASE masks = <<m>>
      BY <1>4, <2>2
    <2> QED
      BY <2>0, <2>1, <2>2
  <1>7. /\ r \in Seq(C) /\ Len(r) = (Len(s) + Len(layers)) + Len(masks)
        /\ \A i \in 1 .. Len(s) : r[i] = s[i]
        /\ \A i \in 1 .. Len(layers) : r[Len(s) + i] = layers[i]
        /\ \A i \in 1 .. Len(masks) : r[(Len(s) + Len(layers)) + i] = masks[i]
    <2>1. r = (s \o layers) \o masks
      BY <1>1, <1>0 DEF SentAs
    <2>2. masks \in Seq(C)
      BY <1>6
    <2> QED
      BY <1>5, <2>1, <2>2, InThreeParts
  <1>9. PICK k \in Nat : k = Len(masks) /\ k = IF masks = <<>> THEN 0 ELSE 1
    BY <1>6
  <1>10. /\ Len(r) = (n + n) + k
         /\ \A i \in 1 .. n : r[i] = s[i]
         /\ \A i \in 1 .. n : r[n + i] = layers[i]
         /\ \A i \in 1 .. k : r[(n + n) + i] = masks[i]
    BY <1>3, <1>7, <1>0, <1>9
  <1>11. ASSUME NEW l \in 0 .. n - 1
         PROVE  r[n + 1 + l] = t[l]
    <2>1. 1 + l \in 1 .. n /\ n + 1 + l \in 1 .. n + n /\ n + (1 + l) = n + 1 + l
      OBVIOUS
    <2> QED
      BY <1>3, <1>10, <2>1
  <1>12. masks = <<m>> => r[Len(r)] = m
    BY <1>6, <1>9, <1>10
  <1>13. Len(r) = IF masks = <<>> THEN n + n ELSE n + n + 1
    BY <1>9, <1>10
  <1> QED
    BY <1>7, <1>10, <1>11, <1>12, <1>13 DEF AllSent

LEMMA NotEmpty ==
  ASSUME NEW w \in Dimension, NEW h \in Dimension, NEW s, Shaped(s, w, h)
  PROVE  s # <<>>
  <1>1. DOMAIN s = 0 .. h - 1 /\ 0 \in 0 .. h - 1
    BY SizeOf DEF Dimension
  <1>2. 0 \notin DOMAIN <<>>
    OBVIOUS
  <1> QED
    BY <1>1, <1>2

LEMMA FillShaped ==
  ASSUME NEW w \in Dimension, NEW h \in Dimension, NEW v
  PROVE  Shaped(Fill(w, h, v), w, h)
  BY DEF Fill, Generate, Shaped

(* A mask of intra tiles alone leaves nothing of the decoder's buffer. *)
LEMMA Erased ==
  ASSUME conf \in Configurations, conf.temporal, Agree
  PROVE  BufferOf(conf, decoder.buffer,
                  Fill(conf.width \div conf.size, conf.height \div conf.size, TEMPORAL_INTR))
           = Fill(conf.width, conf.height, 0)
  <1>1. /\ conf.size \in {2, 4} /\ Across(conf, 2) \in Dimension /\ Down(conf, 2) \in Dimension
        /\ conf.width = conf.size * Across(conf, 2) /\ conf.height = conf.size * Down(conf, 2)
        /\ conf.width \in Dimension /\ conf.height \in Dimension
        /\ conf.width \div conf.size = Across(conf, 2) /\ conf.height \div conf.size = Down(conf, 2)
    <2>1. 2 \in 1 .. 2 /\ WidthAt(conf, 2) = conf.width /\ HeightAt(conf, 2) = conf.height
      BY DEF WidthAt, HeightAt
    <2> QED
      BY <2>1, BlockFrame DEF Across, Down
  <1>2. Shaped(Fill(conf.width, conf.height, 0), conf.width, conf.height)
    BY <1>1, FillShaped
  <1>3. decoder.buffer = <<>> \/ Shaped(decoder.buffer, conf.width, conf.height)
    BY <1>2 DEF Agree
  <1>4. CASE decoder.buffer = <<>>
    BY <1>4 DEF BufferOf
  <1>5. CASE decoder.buffer # <<>>
    <2>1. Shaped(decoder.buffer, conf.size * Across(conf, 2), conf.size * Down(conf, 2))
      BY <1>1, <1>3, <1>5
    <2>2. ApplyTemporalMap(decoder.buffer, Fill(Across(conf, 2), Down(conf, 2), TEMPORAL_INTR), conf.size)
            = Fill(conf.size * Across(conf, 2), conf.size * Down(conf, 2), 0)
      BY <1>1, <2>1, Masking
    <2>3. ApplyTemporalMap(decoder.buffer, Fill(Across(conf, 2), Down(conf, 2), TEMPORAL_INTR), conf.size)
            = Fill(conf.width, conf.height, 0)
      BY <1>1, <2>2
    <2> QED
      BY <1>1, <1>5, <2>3 DEF BufferOf
  <1> QED
    BY <1>4, <1>5

(* What sub-layer 2 of an enhanced picture comes to on both sides, with    *)
(* the surfaces s.                                                         *)
LEMMA SecondSame ==
  ASSUME InPictures, Coding, InLevel2, Masked, at.stage = "invert", at.pass = "final",
         NEW s, NEW added, added = IF header.refresh THEN Inverted ELSE AddSurfaces(encoder.previous, Inverted),
         LayersSent(conf, 1, s) = LayersSent(conf, 1, sent),
         \A l \in 0 .. conf.size * conf.size - 1 : LayersSent(conf, 2, s)[l] = work.symbols[l],
         ~header.refresh => s[Len(s)] = work.mask
  PROVE  /\ added = AddedOf(conf, TRUE, header, decoder.buffer, s)
         /\ AddSurfaces(work.prediction, added) = SecondOf(conf, TRUE, work.base, header, decoder.buffer, s)
         /\ conf.temporal => Shaped(added, conf.width, conf.height)
  <1>1. conf \in Configurations
    BY DEF InPictures
  <1>2. at.level = 2 /\ Picture.enhanced
    BY DEF InLevel2, Coding
  <1>3. /\ conf.size \in {2, 4} /\ Across(conf, 2) \in Dimension /\ Down(conf, 2) \in Dimension
        /\ conf.width = conf.size * Across(conf, 2) /\ conf.height = conf.size * Down(conf, 2)
        /\ conf.width \in Dimension /\ conf.height \in Dimension
    <2>1. 2 \in 1 .. 2 /\ WidthAt(conf, 2) = conf.width /\ HeightAt(conf, 2) = conf.height
      BY DEF WidthAt, HeightAt
    <2> QED
      BY <1>1, <2>1, BlockFrame
  <1>4. work.prediction = SecondPrediction(conf, TRUE, work.base, s)
    <2>1. work.prediction = PredictionOf(conf, FirstOf(conf, TRUE, work.base, sent), 2)
      BY <1>2 DEF Coding, PredictionMade, BelowNow
    <2>2. FirstOf(conf, TRUE, work.base, sent) = FirstOf(conf, TRUE, work.base, s)
      BY DEF FirstOf
    <2> QED
      BY <2>1, <2>2 DEF SecondPrediction
  <1>5. PICK mask : mask = MaskOf(conf, header, s)
    OBVIOUS
  <1>6. /\ header.refresh => mask = Fill(conf.width \div conf.size, conf.height \div conf.size, TEMPORAL_INTR)
        /\ ~header.refresh => mask = work.mask
    BY <1>5 DEF MaskOf, Masked
  <1>7. work.coefficients = DecodedOf(conf, 2, header, work.symbols, mask)
    BY <1>2, <1>6 DEF Coding, Dequantised2
  <1>8. SecondDecoded(conf, header, s) = work.coefficients
    <2>1. PICK layers : layers = LayersSent(conf, 2, s) /\ \A l \in 0 .. conf.size * conf.size - 1 : layers[l] = work.symbols[l]
      OBVIOUS
    <2>2. DecodedOf(conf, 2, header, layers, mask) = DecodedOf(conf, 2, header, work.symbols, mask)
      BY <2>1 DEF DecodedOf
    <2> QED
      BY <1>5, <1>7, <2>1, <2>2 DEF SecondDecoded
  <1>9. PICK inverted : inverted = Inverted /\ inverted = InvertedOf(conf, 2, SecondDecoded(conf, header, s))
    BY <1>2, <1>8 DEF Inverted, InvertedOf, HorizontalOnly
  <1>10. CASE header.refresh
    <2>1. inverted \in Pels(conf.width, conf.height, Word16)
      <3>1. \A l \in 0 .. conf.size * conf.size - 1 :
              work.coefficients[l] \in Pels(Across(conf, 2), Down(conf, 2), Word16)
        BY <1>2, <1>10 DEF Coding, Dequantised2
      <3>2. (conf.scaling[2] = "1D") \in BOOLEAN
        OBVIOUS
      <3>3. InverseTransform(work.coefficients, conf.size, InverseBasis(conf.size, conf.scaling[2] = "1D"))
              \in Pels(conf.size * Across(conf, 2), conf.size * Down(conf, 2), Word16)
        BY <1>3, <3>1, <3>2, InverseTyped
      <3> QED
        BY <1>3, <1>8, <1>9, <3>3 DEF InvertedOf
    <2>2. added = inverted
      BY <1>9, <1>10
    <2>3. CASE conf.temporal
      <3>1. BufferOf(conf, decoder.buffer, mask) = Fill(conf.width, conf.height, 0)
        BY <1>1, <1>6, <1>10, <2>3, Erased DEF Masked
      <3>2. AddSurfaces(Fill(conf.width, conf.height, 0), inverted) = inverted
        BY <1>3, <2>1, AddZeros
      <3>3. added = AddedOf(conf, TRUE, header, decoder.buffer, s)
        BY <1>5, <1>9, <2>2, <2>3, <3>1, <3>2 DEF AddedOf
      <3>4. Shaped(added, conf.width, conf.height)
        BY <1>3, <2>1, <2>2, PelsShaped
      <3> QED
        BY <1>4, <3>3, <3>4 DEF SecondOf
    <2>4. CASE ~conf.temporal
      <3>1. added = AddedOf(conf, TRUE, header, decoder.buffer, s)
        BY <1>9, <2>2, <2>4 DEF AddedOf
      <3> QED
        BY <1>4, <2>4, <3>1 DEF SecondOf
    <2> QED
      BY <2>3, <2>4
  <1>11. CASE ~header.refresh
    <2>1. /\ conf.temporal /\ Shaped(decoder.buffer, conf.width, conf.height)
          /\ encoder.previous = ApplyTemporalMap(decoder.buffer, work.mask, conf.size)
      BY <1>11 DEF Masked
    <2>2. decoder.buffer # <<>>
      BY <1>3, <2>1, NotEmpty
    <2>3. BufferOf(conf, decoder.buffer, mask) = encoder.previous
      BY <1>6, <1>11, <2>1, <2>2 DEF BufferOf
    <2>4. added = AddSurfaces(encoder.previous, inverted)
      BY <1>9, <1>11
    <2>5. added = AddedOf(conf, TRUE, header, decoder.buffer, s)
      BY <1>5, <1>9, <2>1, <2>3, <2>4 DEF AddedOf
    <2>6. Shaped(encoder.previous, conf.width, conf.height)
      <3>1. Shaped(decoder.buffer, conf.size * Across(conf, 2), conf.size * Down(conf, 2))
        BY <1>3, <2>1
      <3>2. Shaped(encoder.previous, conf.size * Across(conf, 2), conf.size * Down(conf, 2))
        BY <1>3, <2>1, <3>1, Masking
      <3> QED
        BY <1>3, <3>2
    <2>7. Shaped(added, conf.width, conf.height)
      BY <1>3, <2>4, <2>6, AddShaped
    <2> QED
      BY <1>4, <2>5, <2>7 DEF SecondOf
  <1> QED
    BY <1>10, <1>11

LEMMA SecondKeeps ==
  ASSUME InPictures, InvertLevel2
  PROVE  InPictures'
  <1>1. /\ at.side = "encoder" /\ at.stage = "invert" /\ at.level = 2 /\ at.pass = "final" /\ Records /\ Place
        /\ conf \in Configurations /\ at.image \in DOMAIN conf.pictures
    BY DEF InPictures, InvertLevel2, Stage, Encoder
  <1>2. Coding
    BY <1>1, Places DEF At
  <1>3. UNCHANGED <<conf, work, header, received, decoder>> /\ Go("send")
    BY DEF InvertLevel2
  <1>4. InLevel2 /\ Masked
    BY <1>1, <1>2 DEF Coding, InLevel1
  <1>5. Picture.enhanced /\ Picture' = Picture /\ at'.image \in DOMAIN conf'.pictures
    BY <1>1, <1>2, <1>3, Goes DEF Coding, Picture
  <1>6. FirstSent /\ received = <<>>
    BY <1>4, <1>5 DEF InLevel2
  <1>7. PICK n \in Nat : n = conf.size * conf.size /\ n > 0
    <2>1. conf.size \in {2, 4}
      BY <1>1, ConfigurationsAssumption
    <2> QED
      BY <2>1
  <1>8. PICK added :
          /\ added = IF header.refresh THEN Inverted ELSE AddSurfaces(encoder.previous, Inverted)
          /\ encoder' = [reco |-> AddSurfaces(work.prediction, added),
                         previous |-> IF conf.temporal THEN added ELSE encoder.previous]
    BY DEF InvertLevel2
  <1>9. PICK masks : /\ masks = IF header.refresh THEN <<>> ELSE <<work.mask>>
                     /\ sent' = sent \o [l \in 1 .. n |-> work.symbols[l - 1]] \o masks
    BY <1>7 DEF InvertLevel2, NumLayers
  <1>10. /\ \E A : sent' \in Seq(A)
         /\ Len(sent') = IF masks = <<>> THEN n + n ELSE n + n + 1
         /\ \A i \in 1 .. n : sent'[i] = sent[i]
         /\ \A l \in 0 .. n - 1 : sent'[n + 1 + l] = work.symbols[l]
         /\ masks = <<work.mask>> => sent'[Len(sent')] = work.mask
    <2>1. PICK m, t, r : m = work.mask /\ t = work.symbols /\ r = sent'
      OBVIOUS
    <2>2. IsSequence(sent) /\ Len(sent) = n /\ masks \in {<<>>, <<m>>} /\ SentAs(r, sent, n, t, masks)
      BY <1>6, <1>7, <1>9, <2>1 DEF FirstSent, SentAs, IsSequence
    <2>3. AllSent(r, sent, n, t, m, masks)
      BY <2>2, AllInOrder
    <2> QED
      BY <2>1, <2>3 DEF AllSent
  <1>11. LayersSent(conf, 1, sent') = LayersSent(conf, 1, sent)
    <2>1. \A l \in 0 .. n - 1 : sent'[1 + l] = sent[1 + l]
      <3>1. \A l \in 0 .. n - 1 : 1 + l \in 1 .. n
        OBVIOUS
      <3> QED
        BY <1>10, <3>1
    <2> QED
      BY <1>7, <2>1 DEF LayersSent
  <1>12. \A l \in 0 .. conf.size * conf.size - 1 : LayersSent(conf, 2, sent')[l] = work.symbols[l]
    BY <1>7, <1>10 DEF LayersSent
  <1>13. ~header.refresh => sent'[Len(sent')] = work.mask
    BY <1>9, <1>10
  <1>14. /\ added = AddedOf(conf, TRUE, header, decoder.buffer, sent')
         /\ AddSurfaces(work.prediction, added) = SecondOf(conf, TRUE, work.base, header, decoder.buffer, sent')
         /\ conf.temporal => Shaped(added, conf.width, conf.height)
    BY <1>1, <1>2, <1>4, <1>8, <1>11, <1>12, <1>13, SecondSame
  <1>15. /\ DOMAIN encoder' = DOMAIN encoder
         /\ encoder'.reco = SecondOf(conf, TRUE, work.base, header, decoder.buffer, sent')
         /\ encoder'.previous = IF conf.temporal THEN added ELSE encoder.previous
    BY <1>1, <1>8, <1>14 DEF Records
  <1>16. Promised'
    <2>1. conf.temporal => added # <<>>
      <3>1. 2 \in 1 .. 2 /\ WidthAt(conf, 2) = conf.width /\ HeightAt(conf, 2) = conf.height
        BY DEF WidthAt, HeightAt
      <3> QED
        BY <1>1, <1>14, <3>1, BlockFrame, NotEmpty
    <2>2. ~conf.temporal => encoder.previous = <<>>
      BY <1>4 DEF Masked, Agree
    <2> QED
      BY <1>3, <1>5, <1>14, <1>15, <2>1, <2>2 DEF Promised, Kept
  <1>17. SurfacesSent'
    <2>1. ASSUME NEW i \in 1 .. Len(sent')
          PROVE  \E w, h \in Dimension : Shaped(sent'[i], w, h)
      <3>1. CASE i \in 1 .. n
        BY <1>1, <1>6, <1>7, <1>10, <3>1, BlockFrame DEF FirstSent
      <3>2. CASE i \in n + 1 .. n + n
        <4>1. PICK l \in 0 .. n - 1 : i = n + 1 + l
          <5>1. i - (n + 1) \in 0 .. n - 1 /\ i = n + 1 + (i - (n + 1))
            BY <3>2
          <5> QED
            BY <5>1
        <4>2. Shaped(work.symbols[l], Across(conf, 2), Down(conf, 2))
          BY <1>1, <1>2, <1>7 DEF Coding, HandedOn, Layers
        <4> QED
          BY <1>1, <1>10, <4>1, <4>2, BlockFrame
      <3>3. CASE i \notin 1 .. n /\ i \notin n + 1 .. n + n
        <4>1. masks # <<>> /\ i = Len(sent')
          BY <1>10, <3>3
        <4>2. ~header.refresh
          BY <1>9, <4>1
        <4>3. sent'[i] = work.mask /\ Shaped(work.mask, Across(conf, 2), Down(conf, 2))
          BY <1>1, <1>4, <1>13, <4>1, <4>2 DEF Masked
        <4> QED
          BY <1>1, <4>3, BlockFrame
      <3> QED
        BY <3>1, <3>2, <3>3
    <2> QED
      BY <1>10, <2>1 DEF SurfacesSent
  <1>18. Arrived'
    <2>1. received' = <<>> /\ Len(<<>>) = 0 /\ <<>> \in Seq({})
      BY <1>3, <1>6
    <2>2. Len(sent') \in Nat
      BY <1>10
    <2> QED
      BY <2>1, <2>2 DEF Arrived
  <1>19. Sending'
    BY <1>1, <1>3, <1>16, <1>17, <1>18, Goes DEF Sending, At
  <1> QED
    BY <1>1, <1>3, <1>5, <1>15, <1>19, Goes DEF InPictures, Place, Records

(* What an unenhanced picture comes to on both sides. *)
LEMMA UnenhancedSame ==
  ASSUME InPictures, BaseTyped(conf, work.base), Agree, PredictionMade, at.level = 2, ~Picture.enhanced,
         NEW previous, NEW h, NEW s, h.refresh <=> previous = <<>>,
         \/ Refreshed /\ previous = <<>> /\ ~h.signalled
         \/ ~Refreshed /\ previous = encoder.previous /\ ~h.signalled
         \/ ~Refreshed /\ previous = ApplyTemporalMap(encoder.previous, s[Len(s)], conf.size) /\ h.signalled
  PROVE  /\ (IF previous = <<>> THEN work.prediction ELSE AddSurfaces(work.prediction, previous))
              = SecondOf(conf, Picture.enhanced, work.base, h, decoder.buffer, s)
         /\ conf.temporal => AddedOf(conf, Picture.enhanced, h, decoder.buffer, s) = Kept(previous)
         /\ previous # <<>> => Shaped(previous, conf.width, conf.height)
         /\ ~conf.temporal => previous = <<>>
  <1>1. conf \in Configurations
    BY DEF InPictures
  <1>2. /\ conf.size \in {2, 4} /\ Across(conf, 2) \in Dimension /\ Down(conf, 2) \in Dimension
        /\ conf.width = conf.size * Across(conf, 2) /\ conf.height = conf.size * Down(conf, 2)
        /\ conf.width \in Dimension /\ conf.height \in Dimension
        /\ conf.width \div conf.size = Across(conf, 2) /\ conf.height \div conf.size = Down(conf, 2)
    <2>1. 2 \in 1 .. 2 /\ WidthAt(conf, 2) = conf.width /\ HeightAt(conf, 2) = conf.height
      BY DEF WidthAt, HeightAt
    <2> QED
      BY <1>1, <2>1, BlockFrame DEF Across, Down
  <1>3. work.prediction = SecondPrediction(conf, Picture.enhanced, work.base, s)
    <2>1. work.prediction = PredictionOf(conf, FirstOf(conf, Picture.enhanced, work.base, sent), 2)
      BY DEF PredictionMade, BelowNow
    <2>2. FirstOf(conf, Picture.enhanced, work.base, sent) = FirstOf(conf, Picture.enhanced, work.base, s)
      BY DEF FirstOf
    <2> QED
      BY <2>1, <2>2 DEF SecondPrediction
  <1>4. PICK mask : mask = MaskOf(conf, h, s)
    OBVIOUS
  <1>5. CASE Refreshed
    <2>1. previous = <<>> /\ ~h.signalled /\ h.refresh
      BY <1>5
    <2>2. mask = Fill(conf.width \div conf.size, conf.height \div conf.size, TEMPORAL_INTR)
      BY <1>4, <2>1 DEF MaskOf
    <2>3. CASE conf.temporal
      <3>1. AddedOf(conf, Picture.enhanced, h, decoder.buffer, s) = Fill(conf.width, conf.height, 0)
        <4>1. BufferOf(conf, decoder.buffer, mask) = Fill(conf.width, conf.height, 0)
          BY <1>1, <2>2, <2>3, Erased
        <4> QED
          BY <1>4, <4>1 DEF AddedOf
      <3>2. work.prediction \in Pels(conf.width, conf.height, Word16)
        <4>1. 1 \in 1 .. 2 /\ 2 \in 1 .. 2 /\ 1 - 1 = 0 /\ 2 - 1 = 1
          OBVIOUS
        <4>2. PICK below : below = BaseOf(conf, work.base)
          OBVIOUS
        <4>3. below \in Pels(WidthAt(conf, 1 - 1), HeightAt(conf, 1 - 1), Word16)
          BY <1>1, <4>1, <4>2, BaseOfTyped
        <4>4. PICK first : first = PredictionOf(conf, below, 1)
          OBVIOUS
        <4>5. first \in Pels(WidthAt(conf, 2 - 1), HeightAt(conf, 2 - 1), Word16)
          BY <1>1, <4>1, <4>3, <4>4, PredictionTyped
        <4>6. PredictionOf(conf, first, 2) \in Pels(WidthAt(conf, 2), HeightAt(conf, 2), Word16)
          BY <1>1, <4>1, <4>5, PredictionTyped
        <4>7. work.prediction = PredictionOf(conf, first, 2)
          BY <1>3, <4>2, <4>4 DEF SecondPrediction, FirstOf
        <4> QED
          BY <4>6, <4>7 DEF WidthAt, HeightAt
      <3>3. AddSurfaces(work.prediction, Fill(conf.width, conf.height, 0)) = work.prediction
        BY <1>2, <3>2, AddZeros
      <3> QED
        BY <1>3, <2>1, <2>3, <3>1, <3>3 DEF SecondOf, Kept
    <2>4. CASE ~conf.temporal
      BY <1>3, <2>1, <2>4 DEF SecondOf
    <2> QED
      BY <2>3, <2>4
  <1>6. CASE ~Refreshed
    <2>1. conf.temporal /\ encoder.previous # <<>>
      BY <1>6 DEF Refreshed, Nothing
    <2>2. decoder.buffer = encoder.previous /\ Shaped(encoder.previous, conf.width, conf.height)
      BY <2>1 DEF Agree
    <2>3. Shaped(encoder.previous, conf.size * Across(conf, 2), conf.size * Down(conf, 2))
      BY <1>2, <2>2
    <2>4. /\ \A m : Shaped(ApplyTemporalMap(encoder.previous, m, conf.size), conf.width, conf.height)
          /\ ApplyTemporalMap(encoder.previous,
                              Fill(conf.width \div conf.size, conf.height \div conf.size, TEMPORAL_PRED), conf.size)
               = encoder.previous
      BY <1>2, <2>3, Masking
    <2>5. Shaped(previous, conf.width, conf.height)
      BY <1>6, <2>2, <2>4
    <2>6. previous # <<>> /\ ~h.refresh
      BY <1>2, <2>5, NotEmpty
    <2>7. previous = ApplyTemporalMap(encoder.previous, mask, conf.size)
      BY <1>4, <1>6, <2>4, <2>6 DEF MaskOf
    <2>8. AddedOf(conf, Picture.enhanced, h, decoder.buffer, s) = previous
      BY <1>4, <2>1, <2>2, <2>7 DEF AddedOf, BufferOf
    <2> QED
      BY <1>3, <2>1, <2>5, <2>6, <2>8 DEF SecondOf, Kept
  <1> QED
    BY <1>5, <1>6

LEMMA UnenhancedKeeps ==
  ASSUME InPictures, EncodeUnenhanced
  PROVE  InPictures'
  <1>1. /\ at.side = "encoder" /\ at.stage = "unenhanced" /\ Records /\ Place
        /\ conf \in Configurations /\ at.image \in DOMAIN conf.pictures
    BY DEF InPictures, EncodeUnenhanced, Stage, Encoder
  <1>2. Predicting
    BY <1>1, Places DEF At
  <1>3. ~Picture.enhanced /\ at.level = 2 /\ PredictionMade /\ InLevel2 /\ Agree /\ Pictures
    BY <1>1, <1>2 DEF Predicting, InLevel1
  <1>4. received = <<>>
    BY <1>3 DEF InLevel2
  <1>5. PICK previous, mask, signalled :
          /\ signalled \in BOOLEAN /\ Unenhanced(previous, mask, signalled)
          /\ \/ Refreshed /\ previous = <<>> /\ ~signalled
             \/ ~Refreshed /\ previous = encoder.previous /\ ~signalled
             \/ /\ ~Refreshed /\ previous = ApplyTemporalMap(encoder.previous, mask, conf.size) /\ signalled
                /\ Shaped(mask, Across(conf, 2), Down(conf, 2))
    <2>1. CASE Refreshed
      <3>1. Unenhanced(<<>>, <<>>, FALSE)
        BY <2>1 DEF EncodeUnenhanced, Nothing
      <3> QED
        BY <2>1, <3>1
    <2>2. CASE ~Refreshed /\ ~conf.no_enhancement_temporal_layer
      <3>1. Unenhanced(encoder.previous, <<>>, FALSE)
        BY <2>2 DEF EncodeUnenhanced, Nothing
      <3> QED
        BY <2>2, <3>1
    <2>3. CASE ~Refreshed /\ conf.no_enhancement_temporal_layer
      <3>1. PICK first : first = UnenhancedMask
        OBVIOUS
      <3>2. PICK second : second = IF conf.tile_signalling THEN TemporalTileIntraSignal(NoTiles, first, conf.size)
                                                           ELSE first
        OBVIOUS
      <3>3. Unenhanced(ApplyTemporalMap(encoder.previous, second, conf.size), second, TRUE)
        BY <2>3, <3>1, <3>2 DEF EncodeUnenhanced
      <3>4. Shaped(work.source, conf.size * Across(conf, 2), conf.size * Down(conf, 2))
        BY <1>1, <1>3, BlockFrame, PelsShaped DEF Pictures, Sources
      <3>5. Shaped(first, Across(conf, 2), Down(conf, 2))
        BY <1>1, <3>1, <3>4, BlockFrame, MasksShaped DEF UnenhancedMask
      <3>6. Shaped(TemporalTileIntraSignal(NoTiles, first, conf.size), Across(conf, 2), Down(conf, 2))
        BY <1>1, <3>4, <3>5, BlockFrame, MasksShaped
      <3>7. Shaped(second, Across(conf, 2), Down(conf, 2))
        BY <3>2, <3>5, <3>6
      <3> QED
        BY <2>3, <3>3, <3>7
    <2> QED
      BY <2>1, <2>2, <2>3
  <1>6. UNCHANGED <<conf, received, decoder>> /\ Go("send")
    BY <1>5 DEF Unenhanced
  <1>7. Picture' = Picture /\ at'.image \in DOMAIN conf'.pictures
    BY <1>1, <1>6, Goes DEF Picture
  <1>8. DOMAIN work' = DOMAIN work /\ work'.base = work.base
    <2>1. work' = [work EXCEPT !.mask = mask]
      BY <1>5 DEF Unenhanced
    <2> QED
      BY <1>1, <2>1 DEF Records
  <1>9. /\ DOMAIN header' = DOMAIN header /\ (header'.refresh <=> previous = <<>>)
        /\ (header'.signalled <=> signalled)
    <2>1. header' = [header EXCEPT !.refresh = (previous = <<>>), !.signalled = signalled]
      BY <1>5 DEF Unenhanced, Nothing
    <2> QED
      BY <1>1, <2>1 DEF Records
  <1>10. sent' = IF signalled THEN <<mask>> ELSE <<>>
    BY <1>5 DEF Unenhanced
  <1>11. encoder' = [reco |-> IF previous = <<>> THEN work.prediction ELSE AddSurfaces(work.prediction, previous),
                     previous |-> previous]
    BY <1>5 DEF Unenhanced, Nothing
  <1>12. PICK h, s : h = header' /\ s = sent'
    OBVIOUS
  <1>13. /\ h.refresh <=> previous = <<>>
         /\ \/ Refreshed /\ previous = <<>> /\ ~h.signalled
            \/ ~Refreshed /\ previous = encoder.previous /\ ~h.signalled
            \/ ~Refreshed /\ previous = ApplyTemporalMap(encoder.previous, s[Len(s)], conf.size) /\ h.signalled
    <2>1. signalled => s[Len(s)] = mask
      BY <1>10, <1>12
    <2> QED
      BY <1>5, <1>9, <1>12, <2>1
  <1>14. /\ (IF previous = <<>> THEN work.prediction ELSE AddSurfaces(work.prediction, previous))
              = SecondOf(conf, Picture.enhanced, work.base, h, decoder.buffer, s)
         /\ conf.temporal => AddedOf(conf, Picture.enhanced, h, decoder.buffer, s) = Kept(previous)
         /\ previous # <<>> => Shaped(previous, conf.width, conf.height)
         /\ ~conf.temporal => previous = <<>>
    BY <1>3, <1>13, UnenhancedSame DEF Pictures
  <1>15. /\ DOMAIN encoder' = DOMAIN encoder /\ encoder'.previous = previous
         /\ encoder'.reco = SecondOf(conf, Picture.enhanced, work.base, h, decoder.buffer, s)
    BY <1>1, <1>11, <1>14 DEF Records
  <1>16. Promised'
    BY <1>6, <1>7, <1>8, <1>12, <1>14, <1>15 DEF Promised, Kept
  <1>17. SurfacesSent'
    <2>1. CASE signalled
      <3>1. sent' \in Seq({mask}) /\ Len(sent') = 1 /\ sent'[1] = mask
        BY <1>10, <2>1
      <3>2. Shaped(mask, Across(conf, 2), Down(conf, 2))
        BY <1>5, <2>1
      <3> QED
        BY <1>1, <3>1, <3>2, BlockFrame DEF SurfacesSent
    <2>2. CASE ~signalled
      <3>1. sent' \in Seq({}) /\ Len(sent') = 0
        BY <1>10, <2>2
      <3> QED
        BY <3>1 DEF SurfacesSent
    <2> QED
      BY <2>1, <2>2
  <1>18. Arrived'
    <2>1. received' = <<>> /\ Len(<<>>) = 0 /\ <<>> \in Seq({})
      BY <1>4, <1>6
    <2>2. Len(sent') \in Nat
      BY <1>10
    <2> QED
      BY <2>1, <2>2 DEF Arrived
  <1>19. Sending'
    BY <1>1, <1>6, <1>16, <1>17, <1>18, Goes DEF Sending, At
  <1> QED
    BY <1>1, <1>6, <1>7, <1>8, <1>9, <1>15, <1>19, Goes DEF InPictures, Place, Records

-----------------------------------------------------------------------------
(* Transmission.                                                           *)

LEMMA ScannedSame ==
  ASSUME UNCHANGED <<conf, sent, received>>
  PROVE  Scanned(sent[Len(received) + 1])' = Scanned(sent[Len(received) + 1])
  BY DEF Scanned, ScanPosition, ScanTile

(* What does not concern the entropy coders. *)
LEMMA StillSending ==
  ASSUME Sending, Records, UNCHANGED <<conf, work, encoder, header, sent, received, decoder>>, at'.image = at.image
  PROVE  Promised' /\ SurfacesSent' /\ Arrived'
  <1>1. Picture' = Picture
    BY DEF Picture
  <1>2. Promised'
    BY <1>1 DEF Sending, Promised, Kept
  <1>3. SurfacesSent' /\ Arrived'
    BY DEF Sending, SurfacesSent, Arrived
  <1> QED
    BY <1>2, <1>3

LEMMA SendKeeps ==
  ASSUME InPictures, SendSurface
  PROVE  InPictures'
  <1>1. /\ at.side = "encoder" /\ at.stage = "send" /\ Records /\ Place
        /\ conf \in Configurations /\ at.image \in DOMAIN conf.pictures
    BY DEF InPictures, SendSurface, Stage, Encoder
  <1>2. Sending
    BY <1>1, Places DEF At
  <1>3. /\ UNCHANGED <<conf, work, encoder, header, sent, received, decoder>> /\ Go("coding")
        /\ Len(received) < Len(sent)
    BY DEF SendSurface
  <1>4. input'.data = Scanned(sent[Len(received) + 1])
    <2>1. PICK s : /\ s = sent[Len(received) + 1]
                   /\ Code([coder |-> IF IsMask(Len(received) + 1) THEN "temporal" ELSE "residuals",
                            data |-> Scanned(s),
                            reduced |-> IsMask(Len(received) + 1) /\ conf.tile_signalling, form |-> "smaller",
                            starts |-> TileStarts(s), enabled |-> {}])
      BY DEF SendSurface
    <2> QED
      BY <2>1 DEF Code
  <1>5. Promised' /\ SurfacesSent' /\ Arrived'
    BY <1>1, <1>2, <1>3, StillSending, Goes
  <1>6. Sending'
    BY <1>1, <1>3, <1>4, <1>5, ScannedSame, Goes DEF Sending, At
  <1> QED
    BY <1>1, <1>3, <1>6, Goes DEF InPictures, Place, Records

LEMMA TilesTyped ==
  ASSUME conf \in Configurations
  PROVE  ScanTile \in Dimension
  <1>1. conf.size \in {2, 4} /\ conf.width \in Dimension
    BY ConfigurationsAssumption DEF Dimension
  <1>2. TileSize \div conf.size \in Dimension
    <2>1. TileSize \in Nat \ {0} /\ TileSize % 4 = 0
      BY TileSizeAssumption
    <2> QED
      BY <1>1, <2>1 DEF Dimension
  <1> QED
    BY <1>1, <1>2 DEF ScanTile, TransformsPerTile

(* A surface arrives as it was sent. *)
LEMMA ReceivedSame ==
  ASSUME conf \in Configurations, RoundTrip, Len(out) = Size,
         NEW s, \E w, h \in Dimension : Shaped(s, w, h), input.data = Scanned(s)
  PROVE  Unscanned(out, s) = s
  <1>1. PICK w \in Dimension, h \in Dimension : Shaped(s, w, h)
    OBVIOUS
  <1>2. Width(s) = w /\ Height(s) = h
    BY <1>1, SizeOf
  <1>3. PICK n \in Nat : n = w * h
    BY DEF Dimension
  <1>4. Len(input.data) = n
    <2>1. PICK t : t = [i \in 1 .. n |-> s[ScanPosition(s, i - 1)[2]][ScanPosition(s, i - 1)[1]]]
      OBVIOUS
    <2>2. Scanned(s) = t
      BY <1>2, <1>3, <2>1 DEF Scanned
    <2>3. Len(t) = n
      BY <2>1
    <2> QED
      BY <2>2, <2>3
  <1>5. PICK o : o = out
    OBVIOUS
  <1>6. \A i \in 1 .. w * h : o[i] = Scanned(s)[i]
    BY <1>3, <1>4, <1>5 DEF RoundTrip, Size
  <1>7. ScanTile \in Dimension
    BY TilesTyped
  <1> QED
    BY <1>1, <1>5, <1>6, <1>7, ScanUndone

LEMMA ReceiveKeeps ==
  ASSUME InPictures, ReceiveSurface, RoundTrip
  PROVE  InPictures'
  <1>1. /\ at.side = "encoder" /\ at.stage = "coding" /\ Records /\ Place
        /\ conf \in Configurations /\ at.image \in DOMAIN conf.pictures
    BY DEF InPictures, ReceiveSurface, Stage, Encoder
  <1>2. Sending
    BY <1>1, Places DEF At
  <1>3. UNCHANGED <<conf, work, encoder, header, sent, decoder>> /\ Go("send") /\ Len(out) = Size
    BY DEF ReceiveSurface
  <1>4. PICK s, g : /\ s = sent[Len(received) + 1] /\ received' = Append(received, g)
                    /\ g = Unscanned(out, s)
    BY Zenon DEF ReceiveSurface, Unscanned, Generate
  <1>5. PICK A, B : sent \in Seq(A) /\ received \in Seq(B)
    BY <1>2 DEF Sending, SurfacesSent, Arrived
  <1>6. Len(received) \in Nat /\ Len(sent) \in Nat /\ Len(received) < Len(sent)
    BY <1>1, <1>2, <1>5 DEF Sending
  <1>7. g = s
    <2>1. Len(received) + 1 \in 1 .. Len(sent)
      BY <1>6
    <2>2. \E w, h \in Dimension : Shaped(s, w, h)
      BY <1>2, <1>4, <2>1 DEF Sending, SurfacesSent
    <2>3. input.data = Scanned(s)
      BY <1>1, <1>2, <1>4 DEF Sending
    <2> QED
      BY <1>1, <1>3, <1>4, <2>2, <2>3, ReceivedSame
  <1>8. PICK t, n, C : t = received' /\ n = Len(received) /\ C = B \cup {s}
    OBVIOUS
  <1>9. received \in Seq(C) /\ s \in C
    BY <1>5, <1>8, Wider
  <1>10. t \in Seq(C) /\ Len(t) = n + 1 /\ (\A i \in 1 .. n : t[i] = received[i]) /\ t[n + 1] = s
    <2>1. t = Append(received, s)
      BY <1>4, <1>7, <1>8
    <2> QED
      BY <1>8, <1>9, <2>1, Appended
  <1>11. Arrived'
    <2>1. n \in Nat /\ Len(t) <= Len(sent)
      BY <1>6, <1>8, <1>10
    <2>2. \A i \in 1 .. n : received[i] = sent[i]
      BY <1>2, <1>8 DEF Sending, Arrived
    <2>3. ASSUME NEW i \in 1 .. Len(t)
          PROVE  t[i] = sent[i]
      <3>1. CASE i \in 1 .. n
        BY <1>10, <2>2, <3>1
      <3>2. CASE i = n + 1
        BY <1>4, <1>8, <1>10, <3>2
      <3> QED
        BY <1>10, <2>1, <3>1, <3>2
    <2> QED
      BY <1>3, <1>8, <1>10, <2>1, <2>3 DEF Arrived
  <1>12. Picture' = Picture /\ at'.image \in DOMAIN conf'.pictures
    BY <1>1, <1>3, Goes DEF Picture
  <1>13. Promised' /\ SurfacesSent'
    <2>1. Promised'
      BY <1>2, <1>3, <1>12 DEF Sending, Promised, Kept
    <2> QED
      BY <1>2, <1>3, <2>1 DEF Sending, SurfacesSent
  <1>14. Sending'
    BY <1>1, <1>3, <1>11, <1>13, Goes DEF Sending, At
  <1> QED
    BY <1>1, <1>3, <1>12, <1>14, Goes DEF InPictures, Place, Records

LEMMA SameSequence ==
  ASSUME NEW s, NEW t, \E A : s \in Seq(A), \E A : t \in Seq(A), Len(s) = Len(t),
         \A i \in 1 .. Len(s) : s[i] = t[i]
  PROVE  s = t
  <1>1. PICK A : s \in Seq(A)
    OBVIOUS
  <1>2. PICK B : t \in Seq(B)
    OBVIOUS
  <1>3. s = [i \in 1 .. Len(s) |-> s[i]] /\ t = [i \in 1 .. Len(t) |-> t[i]]
    BY <1>1, <1>2
  <1> QED
    BY <1>3

LEMMA AllReceivedKeeps ==
  ASSUME InPictures, AllReceived
  PROVE  InPictures'
  <1>1. /\ at.side = "encoder" /\ at.stage = "send" /\ Records /\ Place
        /\ conf \in Configurations /\ at.image \in DOMAIN conf.pictures
    BY DEF InPictures, AllReceived, Stage, Encoder
  <1>2. Sending
    BY <1>1, Places DEF At
  <1>3. /\ UNCHANGED <<conf, work, encoder, header, sent, received, decoder>>
        /\ at' = [at EXCEPT !.side = "decoder", !.level = 1, !.stage = "upsample"]
        /\ Len(received) = Len(sent)
    BY DEF AllReceived
  <1>4. /\ DOMAIN at' = DOMAIN at /\ at'.side = "decoder" /\ at'.image = at.image /\ at'.level = 1
        /\ at'.stage = "upsample"
    BY <1>1, <1>3 DEF Records
  <1>5. received = sent
    BY <1>2, <1>3, SameSequence DEF Sending, SurfacesSent, Arrived
  <1>6. Picture' = Picture /\ at'.image \in DOMAIN conf'.pictures
    BY <1>1, <1>3, <1>4 DEF Picture
  <1>7. Promised'
    BY <1>2, <1>3, <1>6 DEF Sending, Promised, Kept
  <1>8. DecodingPicture'
    BY <1>3, <1>4, <1>5, <1>7 DEF DecodingPicture, At
  <1> QED
    BY <1>1, <1>3, <1>4, <1>6, <1>8 DEF InPictures, Place, Records

-----------------------------------------------------------------------------
(* The decoder.                                                            *)

LEMMA DecoderAdjustKeeps ==
  ASSUME InPictures, DecoderAdjust
  PROVE  InPictures'
  <1>1. conf \in Configurations /\ at.image \in DOMAIN conf.pictures /\ Records /\ Place
    BY DEF InPictures
  <1>2. UNCHANGED <<conf, encoder, header, sent, received>>
    BY DEF DecoderAdjust
  <1>3. at.side = "decoder" /\ at.stage = "adjust"
    BY DEF DecoderAdjust, Stage, Decoder
  <1>4. DecodingPicture
    BY <1>1, <1>3, Places DEF At
  <1>5. PICK adjusted : /\ adjusted = PredictionOf(conf, BelowNow, at.level)
                        /\ work' = [work EXCEPT !.prediction = adjusted]
                        /\ decoder' = IF Picture.enhanced \/ at.level = 2 THEN decoder
                                      ELSE [decoder EXCEPT !.reco = adjusted]
    BY <1>1, <1>3, AdjustedNow DEF DecoderAdjust
  <1>6. work'.prediction = adjusted /\ DOMAIN work' = DOMAIN work /\ work'.base = work.base
    BY <1>1, <1>5 DEF Records
  <1>7. DOMAIN decoder' = DOMAIN decoder /\ decoder'.buffer = decoder.buffer
    BY <1>1, <1>5 DEF Records
  <1>8. at.level \in 1 .. 2
    BY <1>4 DEF DecodingPicture
  <1>9. ASSUME Picture' = Picture
        PROVE  Promised'
    BY <1>2, <1>4, <1>6, <1>7, <1>9 DEF DecodingPicture, Promised, Kept
  <1>10. CASE Picture.enhanced \/ at.level = 2
    <2>1. PICK stage : /\ stage = (IF Picture.enhanced THEN "dequantise" ELSE "unenhanced")
                       /\ Go(stage)
      BY <1>10 DEF DecoderAdjust, Go
    <2>2. decoder' = decoder
      BY <1>5, <1>10
    <2>3. Picture' = Picture /\ at'.image \in DOMAIN conf'.pictures
      BY <1>1, <1>2, <2>1, Goes DEF Picture
    <2>4. BelowNow' = BelowNow
      BY <1>1, <1>2, <1>6, <2>1, <2>3, Goes DEF BelowNow
    <2>5. PredictionMade'
      BY <1>1, <1>2, <1>5, <1>6, <2>1, <2>4, Goes DEF PredictionMade
    <2>6. DecodingPicture'
      BY <1>1, <1>2, <1>3, <1>4, <1>6, <1>9, <1>10, <2>1, <2>2, <2>3, <2>5, Goes DEF DecodingPicture, At
    <2>7. Records'
      BY <1>1, <1>2, <1>6, <2>1, <2>2, Goes DEF Records
    <2> QED
      BY <1>1, <1>2, <2>3, <2>6, <2>7 DEF InPictures, Place
  <1>11. CASE ~Picture.enhanced /\ at.level = 1
    <2>1. decoder' = [decoder EXCEPT !.reco = adjusted] /\ at' = [at EXCEPT !.level = 2, !.stage = "upsample"]
      BY <1>5, <1>11 DEF DecoderAdjust
    <2>2. /\ decoder'.reco = adjusted /\ at'.level = 2 /\ at'.stage = "upsample" /\ at'.side = at.side
          /\ at'.image = at.image /\ DOMAIN at' = DOMAIN at
      BY <1>1, <2>1 DEF Records
    <2>3. Picture' = Picture /\ at'.image \in DOMAIN conf'.pictures
      BY <1>1, <1>2, <2>2 DEF Picture
    <2>4. adjusted = FirstOf(conf, Picture.enhanced, work.base, sent)
      BY <1>5, <1>11 DEF FirstOf, BelowNow
    <2>5. DecodingPicture'
      BY <1>2, <1>3, <1>4, <1>6, <1>9, <2>2, <2>3, <2>4 DEF DecodingPicture, At
    <2>6. Records'
      BY <1>1, <1>2, <1>6, <1>7, <2>2 DEF Records
    <2> QED
      BY <1>1, <1>2, <2>3, <2>5, <2>6 DEF InPictures, Place
  <1> QED
    BY <1>8, <1>10, <1>11

(* The decoder has its own way to the steps and to the mask. *)
LEMMA DecoderSame ==
  ASSUME conf \in Configurations, at.level \in 1 .. 2, received = sent
  PROVE  /\ DecodedSteps = StepsOf(conf, at.level, header)
         /\ DecodedMask = MaskOf(conf, header, sent)
         /\ \A steps, l : Dequantisers(steps, l) = DequantisersOf(conf, at.level, steps, l)
         /\ \A l \in 0 .. conf.size * conf.size - 1 :
              ExtractUserData(l) = ClearedOf(conf, at.level, l, LayersSent(conf, at.level, sent)[l])
  <1>1. DecodedSteps = StepsOf(conf, at.level, header)
    <2>1. PlaneStep(at.level) = StepOfPlane(conf, at.level, header.step)
      BY DEF PlaneStep, StepOfPlane
    <2> QED
      BY <2>1 DEF DecodedSteps, StepsOf
  <1>2. DecodedMask = MaskOf(conf, header, sent)
    BY DEF DecodedMask, MaskOf
  <1>3. \A steps, l : Dequantisers(steps, l) = DequantisersOf(conf, at.level, steps, l)
    BY DEF Dequantisers, DequantisersOf, Matrix
  <1>4. ASSUME NEW l \in 0 .. conf.size * conf.size - 1
        PROVE  ExtractUserData(l) = ClearedOf(conf, at.level, l, LayersSent(conf, at.level, sent)[l])
    <2>1. ReceivedLayer(l) = LayersSent(conf, at.level, sent)[l]
      BY DEF ReceivedLayer, LayersSent, NumLayers
    <2> QED
      BY <2>1 DEF ExtractUserData, ClearedOf, is_user_data_layer, UserLayer
  <1> QED
    BY <1>1, <1>2, <1>3, <1>4

LEMMA DecoderDequantiseKeeps ==
  ASSUME InPictures, DecoderDequantise
  PROVE  InPictures'
  <1>1. conf \in Configurations /\ at.image \in DOMAIN conf.pictures /\ Records /\ Place
    BY DEF InPictures
  <1>2. UNCHANGED <<conf, encoder, header, sent, received, decoder>> /\ Go("invert")
    BY DEF DecoderDequantise
  <1>3. at.side = "decoder" /\ at.stage = "dequantise"
    BY DEF DecoderDequantise, Stage, Decoder
  <1>4. DecodingPicture
    BY <1>1, <1>3, Places DEF At
  <1>5. at.level \in 1 .. 2 /\ received = sent
    BY <1>4 DEF DecodingPicture
  <1>6. PICK mask, layers :
          /\ mask = IF at.level = 2 /\ conf.temporal THEN DecodedMask ELSE Nothing
          /\ layers = [l \in 0 .. NumLayers - 1 |->
                         DequantizeInPlace(ExtractUserData(l), Dequantisers(DecodedSteps, l), DecodedMask)]
          /\ work' = [work EXCEPT !.mask = mask, !.coefficients = layers]
    BY DEF DecoderDequantise
  <1>7. /\ DOMAIN work' = DOMAIN work /\ work'.base = work.base /\ work'.prediction = work.prediction
        /\ work'.mask = mask /\ work'.coefficients = layers
    BY <1>1, <1>6 DEF Records
  <1>8. layers = DecodedOf(conf, at.level, header, LayersSent(conf, at.level, sent), MaskOf(conf, header, sent))
    <2>1. PICK steps, m, coded : /\ steps = StepsOf(conf, at.level, header) /\ m = MaskOf(conf, header, sent)
                                 /\ coded = LayersSent(conf, at.level, sent)
      OBVIOUS
    <2>2. DecodedSteps = steps /\ DecodedMask = m
      BY <1>1, <1>5, <2>1, DecoderSame
    <2>3. ASSUME NEW l \in 0 .. conf.size * conf.size - 1
          PROVE  /\ ExtractUserData(l) = ClearedOf(conf, at.level, l, coded[l])
                 /\ Dequantisers(steps, l) = DequantisersOf(conf, at.level, steps, l)
      BY <1>1, <1>5, <2>1, DecoderSame
    <2>4. layers = [l \in 0 .. conf.size * conf.size - 1 |->
                      DequantizeInPlace(ExtractUserData(l), Dequantisers(steps, l), m)]
      BY <1>6, <2>2 DEF NumLayers
    <2>5. layers = [l \in 0 .. conf.size * conf.size - 1 |->
                      DequantizeInPlace(ClearedOf(conf, at.level, l, coded[l]),
                                        DequantisersOf(conf, at.level, steps, l), m)]
      BY <2>3, <2>4
    <2> QED
      BY <2>1, <2>5 DEF DecodedOf
  <1>9. /\ at.level = 1 => layers = FirstDecoded(conf, LayersSent(conf, 1, sent))
        /\ at.level = 2 => layers = SecondDecoded(conf, header, sent)
        /\ at.level = 2 /\ conf.temporal => mask = MaskOf(conf, header, sent)
    BY <1>1, <1>5, <1>6, <1>8, OneFirstStep, DecoderSame DEF SecondDecoded
  <1>10. Picture' = Picture /\ at'.image \in DOMAIN conf'.pictures
    BY <1>1, <1>2, Goes DEF Picture
  <1>11. BelowNow' = BelowNow
    BY <1>1, <1>2, <1>7, <1>10, Goes DEF BelowNow
  <1>12. PredictionMade'
    BY <1>1, <1>2, <1>3, <1>4, <1>7, <1>11, Goes DEF DecodingPicture, PredictionMade
  <1>13. Promised'
    BY <1>2, <1>4, <1>7, <1>10 DEF DecodingPicture, Promised, Kept
  <1>14. DecodingPicture'
    BY <1>1, <1>2, <1>3, <1>4, <1>7, <1>9, <1>10, <1>12, <1>13, Goes DEF DecodingPicture, At
  <1> QED
    BY <1>1, <1>2, <1>7, <1>10, <1>14, Goes DEF InPictures, Place, Records

LEMMA DecodeLevel1Keeps ==
  ASSUME InPictures, DecodeLevel1
  PROVE  InPictures'
  <1>1. /\ at.side = "decoder" /\ at.stage = "invert" /\ at.level = 1 /\ Records /\ Place
        /\ conf \in Configurations /\ at.image \in DOMAIN conf.pictures
    BY DEF InPictures, DecodeLevel1, Stage, Decoder
  <1>2. UNCHANGED <<conf, work, encoder, header, sent, received>>
    BY DEF DecodeLevel1
  <1>3. DecodingPicture
    BY <1>1, Places DEF At
  <1>4. /\ Picture.enhanced /\ PredictionMade
        /\ work.coefficients = FirstDecoded(conf, LayersSent(conf, 1, sent))
    BY <1>1, <1>3 DEF DecodingPicture
  <1>5. PICK reco : /\ reco = AddSurfaces(work.prediction, Filtered(Inverted))
                    /\ decoder' = [decoder EXCEPT !.reco = reco]
    BY DEF DecodeLevel1
  <1>6. DOMAIN decoder' = DOMAIN decoder /\ decoder'.reco = reco /\ decoder'.buffer = decoder.buffer
    BY <1>1, <1>5 DEF Records
  <1>7. reco = FirstOf(conf, Picture.enhanced, work.base, sent)
    <2>1. PICK inverted : inverted = InvertedOf(conf, 1, work.coefficients)
      OBVIOUS
    <2>2. Inverted = inverted
      BY <1>1, <2>1 DEF Inverted, InvertedOf, HorizontalOnly
    <2>3. Filtered(inverted) = FilteredOf(conf, inverted)
      BY <1>1 DEF Filtered, FilteredOf, Nothing
    <2>4. work.prediction = PredictionOf(conf, BaseOf(conf, work.base), 1)
      BY <1>1, <1>4 DEF PredictionMade, BelowNow
    <2> QED
      BY <1>4, <1>5, <2>1, <2>2, <2>3, <2>4 DEF FirstOf
  <1>8. at' = [at EXCEPT !.level = 2, !.stage = "upsample"]
    BY DEF DecodeLevel1
  <1>9. /\ DOMAIN at' = DOMAIN at /\ at'.side = at.side /\ at'.image = at.image /\ at'.level = 2
        /\ at'.stage = "upsample"
    BY <1>1, <1>8 DEF Records
  <1>10. Picture' = Picture /\ at'.image \in DOMAIN conf'.pictures
    BY <1>1, <1>2, <1>9 DEF Picture
  <1>11. Promised'
    BY <1>2, <1>3, <1>6, <1>10 DEF DecodingPicture, Promised, Kept
  <1>12. DecodingPicture'
    BY <1>1, <1>2, <1>3, <1>6, <1>7, <1>9, <1>10, <1>11 DEF DecodingPicture, At
  <1> QED
    BY <1>1, <1>2, <1>6, <1>9, <1>10, <1>12 DEF InPictures, Place, Records

(* What has been decoded is what the encoder has. *)
LEMMA DecodedSame ==
  ASSUME InPictures, DecodingPicture, at.level = 2, Go("output"), UNCHANGED <<conf, work, encoder, header, sent, received>>,
         DOMAIN decoder' = DOMAIN decoder,
         decoder'.reco = SecondOf(conf, Picture.enhanced, work.base, header, decoder.buffer, sent),
         conf.temporal => decoder'.buffer = AddedOf(conf, Picture.enhanced, header, decoder.buffer, sent)
  PROVE  InPictures'
  <1>1. /\ at.side = "decoder" /\ Records /\ conf \in Configurations /\ at.image \in DOMAIN conf.pictures
    BY DEF InPictures, DecodingPicture, At
  <1>2. Picture' = Picture /\ at'.image \in DOMAIN conf'.pictures
    BY <1>1, Goes DEF Picture
  <1>3. /\ decoder'.reco = encoder.reco
        /\ conf.temporal => decoder'.buffer = Kept(encoder.previous)
        /\ encoder.previous # <<>> => Shaped(encoder.previous, conf.width, conf.height)
        /\ ~conf.temporal => encoder.previous = <<>>
    BY DEF DecodingPicture, Promised
  <1>4. PictureDecoded'
    BY <1>1, <1>3, Goes DEF PictureDecoded, At, Kept
  <1> QED
    BY <1>1, <1>2, <1>4, Goes DEF InPictures, Place, Records

LEMMA DecodeLevel2Keeps ==
  ASSUME InPictures, DecodeLevel2
  PROVE  InPictures'
  <1>1. /\ at.side = "decoder" /\ at.stage = "invert" /\ at.level = 2 /\ Records /\ Place
    BY DEF InPictures, DecodeLevel2, Stage, Decoder
  <1>2. UNCHANGED <<conf, work, encoder, header, sent, received>> /\ Go("output")
    BY DEF DecodeLevel2
  <1>3. DecodingPicture
    BY <1>1, Places DEF At
  <1>4. /\ Picture.enhanced /\ PredictionMade
        /\ work.coefficients = SecondDecoded(conf, header, sent)
        /\ conf.temporal => work.mask = MaskOf(conf, header, sent)
    BY <1>1, <1>3 DEF DecodingPicture
  <1>5. PICK added : /\ added = IF conf.temporal THEN AddSurfaces(Predicted(work.mask), Inverted) ELSE Inverted
                     /\ decoder' = [reco |-> AddSurfaces(work.prediction, added),
                                    buffer |-> IF conf.temporal THEN added ELSE Nothing]
    BY DEF DecodeLevel2
  <1>6. added = AddedOf(conf, Picture.enhanced, header, decoder.buffer, sent)
    <2>1. Inverted = InvertedOf(conf, 2, SecondDecoded(conf, header, sent))
      BY <1>1, <1>4 DEF Inverted, InvertedOf, HorizontalOnly
    <2>2. conf.temporal => Predicted(work.mask) = BufferOf(conf, decoder.buffer, MaskOf(conf, header, sent))
      BY <1>4 DEF Predicted, BufferOf, Nothing
    <2> QED
      BY <1>4, <1>5, <2>1, <2>2 DEF AddedOf
  <1>7. work.prediction = SecondPrediction(conf, Picture.enhanced, work.base, sent)
    BY <1>1, <1>4 DEF PredictionMade, BelowNow, SecondPrediction
  <1>8. /\ DOMAIN decoder' = DOMAIN decoder
        /\ decoder'.reco = SecondOf(conf, Picture.enhanced, work.base, header, decoder.buffer, sent)
        /\ conf.temporal => decoder'.buffer = AddedOf(conf, Picture.enhanced, header, decoder.buffer, sent)
    BY <1>1, <1>4, <1>5, <1>6, <1>7 DEF Records, SecondOf
  <1> QED
    BY <1>1, <1>2, <1>3, <1>8, DecodedSame

LEMMA DecodeUnenhancedKeeps ==
  ASSUME InPictures, DecodeUnenhanced
  PROVE  InPictures'
  <1>1. /\ at.side = "decoder" /\ at.stage = "unenhanced" /\ Records /\ Place /\ conf \in Configurations
    BY DEF InPictures, DecodeUnenhanced, Stage, Decoder
  <1>2. UNCHANGED <<conf, work, encoder, header, sent, received>> /\ Go("output")
    BY DEF DecodeUnenhanced
  <1>3. DecodingPicture
    BY <1>1, Places DEF At
  <1>4. ~Picture.enhanced /\ at.level = 2 /\ PredictionMade /\ received = sent
    BY <1>1, <1>3 DEF DecodingPicture
  <1>5. work.prediction = SecondPrediction(conf, Picture.enhanced, work.base, sent)
    BY <1>4 DEF PredictionMade, BelowNow, SecondPrediction
  <1>6. CASE conf.temporal
    <2>1. PICK buffer : /\ buffer = Predicted(DecodedMask)
                        /\ decoder' = [reco |-> AddSurfaces(work.prediction, buffer), buffer |-> buffer]
      BY <1>6 DEF DecodeUnenhanced
    <2>2. DecodedMask = MaskOf(conf, header, sent)
      BY <1>1, <1>4, DecoderSame
    <2>3. buffer = AddedOf(conf, Picture.enhanced, header, decoder.buffer, sent)
      BY <1>4, <2>1, <2>2 DEF AddedOf, Predicted, BufferOf, Nothing
    <2>4. /\ DOMAIN decoder' = DOMAIN decoder
          /\ decoder'.reco = SecondOf(conf, Picture.enhanced, work.base, header, decoder.buffer, sent)
          /\ decoder'.buffer = AddedOf(conf, Picture.enhanced, header, decoder.buffer, sent)
      BY <1>1, <1>5, <1>6, <2>1, <2>3 DEF Records, SecondOf
    <2> QED
      BY <1>2, <1>3, <1>4, <2>4, DecodedSame
  <1>7. CASE ~conf.temporal
    <2>1. decoder' = [decoder EXCEPT !.reco = work.prediction]
      BY <1>7 DEF DecodeUnenhanced
    <2>2. DOMAIN decoder' = DOMAIN decoder /\ decoder'.reco = work.prediction
      BY <1>1, <2>1 DEF Records
    <2>3. decoder'.reco = SecondOf(conf, Picture.enhanced, work.base, header, decoder.buffer, sent)
      BY <1>4, <1>5, <1>7, <2>2 DEF SecondOf
    <2> QED
      BY <1>2, <1>3, <1>4, <1>7, <2>2, <2>3, DecodedSame
  <1> QED
    BY <1>6, <1>7

LEMMA OutputKeeps ==
  ASSUME InPictures, Output
  PROVE  InPictures'
  <1>1. /\ at.side = "decoder" /\ at.stage = "output" /\ Records /\ Place
        /\ conf \in Configurations /\ at.image \in DOMAIN conf.pictures
    BY DEF InPictures, Output, Stage, Decoder
  <1>2. UNCHANGED <<conf, work, encoder, header, sent, received, decoder>> /\ Go("end")
    BY DEF Output
  <1>3. PictureDecoded
    BY <1>1, Places DEF At
  <1>4. PictureDecoded'
    BY <1>1, <1>2, <1>3, Goes DEF PictureDecoded, At, Kept
  <1> QED
    BY <1>1, <1>2, <1>4, Goes DEF InPictures, Place, Records

LEMMA NextPictureKeeps ==
  ASSUME InPictures, NextPicture
  PROVE  InPictures'
  <1>1. /\ at.side = "decoder" /\ at.stage = "end" /\ Records /\ Place
        /\ conf \in Configurations /\ at.image \in DOMAIN conf.pictures
    BY DEF InPictures, NextPicture, Stage, Decoder
  <1>2. /\ UNCHANGED <<conf, work, encoder, header, decoder>> /\ sent' = <<>> /\ received' = <<>>
        /\ at.image < Len(conf.pictures)
        /\ at' = [at EXCEPT !.side = "encoder", !.image = at.image + 1, !.level = 1, !.pass = "final",
                            !.stage = "downsample"]
    BY DEF NextPicture
  <1>3. PictureDecoded
    BY <1>1, Places DEF At
  <1>4. /\ DOMAIN at' = DOMAIN at /\ at'.side = "encoder" /\ at'.image = at.image + 1 /\ at'.level = 1
        /\ at'.pass = "final" /\ at'.stage = "downsample"
    BY <1>1, <1>2 DEF Records
  <1>5. at'.image \in DOMAIN conf'.pictures
    <2>1. Len(conf.pictures) \in Nat /\ DOMAIN conf.pictures = 1 .. Len(conf.pictures)
      BY <1>1, ConfigurationsAssumption
    <2> QED
      BY <1>1, <1>2, <1>4, <2>1
  <1>6. Agree'
    BY <1>2, <1>3 DEF PictureDecoded, Agree, Kept
  <1>7. Beginning'
    BY <1>2, <1>4, <1>6 DEF Beginning, At, InLevel1
  <1> QED
    BY <1>1, <1>2, <1>4, <1>5, <1>7 DEF InPictures, Place, Records

-----------------------------------------------------------------------------
(* Every step.                                                             *)

(* Nothing that is said before or after concerns the entropy coders, except *)
(* which surface they have been given.                                     *)
LEMMA CoderKeeps ==
  ASSUME InPictures, UNCHANGED pipeline, input' = input
  PROVE  InPictures'
  <1>1. UNCHANGED <<conf, at, work, encoder, trials, header, sent, received, decoder, shown>>
    BY DEF pipeline
  <1>2. Picture' = Picture
    BY <1>1 DEF Picture
  <1>3. BelowNow' = BelowNow
    BY <1>1, <1>2 DEF BelowNow
  <1>4. /\ Agree' = Agree /\ Sources' = Sources /\ InLevel1' = InLevel1 /\ InLevel2' = InLevel2
        /\ Pictures' = Pictures /\ PredictionMade' = PredictionMade /\ Masked' = Masked
        /\ HandedOn' = HandedOn /\ Dequantised1' = Dequantised1 /\ Dequantised2' = Dequantised2
        /\ Promised' = Promised
    BY <1>1, <1>2, <1>3
       DEF Agree, Sources, InLevel1, InLevel2, FirstSent, Pictures, PredictionMade, Masked, HandedOn,
           Dequantised1, Dequantised2, Promised, Kept
  <1>5. CASE Beginning \/ Scaling \/ Predicting \/ Coding
    <2>1. Beginning' = Beginning /\ Scaling' = Scaling
      BY <1>1, <1>4 DEF Beginning, Scaling, At
    <2>2. Predicting' = Predicting
      BY <1>1, <1>2, <1>3, <1>4 DEF Predicting, At
    <2>3. Coding' = Coding
      BY <1>1, <1>2, <1>4 DEF Coding, At
    <2> QED
      BY <1>1, <1>5, <2>1, <2>2, <2>3 DEF InPictures, Records, Place
  <1>6. CASE Sending
    <2>1. Scanned(sent[Len(received) + 1])' = Scanned(sent[Len(received) + 1])
      BY <1>1, ScannedSame
    <2>2. Sending'
      BY <1>1, <1>4, <1>6, <2>1 DEF Sending, SurfacesSent, Arrived, At
    <2> QED
      BY <1>1, <2>2 DEF InPictures, Records, Place
  <1>7. CASE DecodingPicture
    <2>1. DecodingPicture'
      BY <1>1, <1>2, <1>3, <1>4, <1>7 DEF DecodingPicture, At
    <2> QED
      BY <1>1, <2>1 DEF InPictures, Records, Place
  <1>8. CASE PictureDecoded
    <2>1. PictureDecoded'
      BY <1>1, <1>8 DEF PictureDecoded, At, Kept
    <2> QED
      BY <1>1, <2>1 DEF InPictures, Records, Place
  <1> QED
    BY <1>5, <1>6, <1>7, <1>8 DEF InPictures, Place

LEMMA StepKeeps ==
  ASSUME InPictures, [CodingNext]_allvars, ProductsFit, RoundTrip
  PROVE  InPictures'
  <1>1. CASE UNCHANGED allvars
    <2>1. UNCHANGED pipeline /\ input' = input
      BY <1>1 DEF allvars, vars
    <2> QED
      BY <2>1, CoderKeeps
  <1>2. CASE Next /\ UNCHANGED pipeline
    <2>1. input' = input
      BY <1>2, InputKept
    <2> QED
      BY <1>2, <2>1, CoderKeeps
  <1>3. CASE Pipeline
    <2>1. CASE Downsample \/ CodeBase \/ UpsamplePrediction \/ EncoderAdjust \/ Difference
      BY <2>1, DownsampleKeeps, CodeBaseKeeps, UpsampleKeeps, EncoderAdjustKeeps, DifferenceKeeps
    <2>2. CASE ComputeMeans \/ ComputeTypes
      BY <2>2, MeansKeep, TypesKeep
    <2>3. CASE EncodeTransform \/ SelectCoefficients \/ QuantiseLayers \/ EncoderDequantise
      BY <2>3, TransformKeeps, SelectKeeps, QuantiseKeeps, DequantiseKeeps
    <2>4. CASE InvertTrial \/ InvertLevel1 \/ InvertLevel2 \/ Decide \/ PredictTemporally \/ EncodeUnenhanced
      BY <2>4, TrialKeeps, FirstKeeps, SecondKeeps, DecideKeeps, PredictKeeps, UnenhancedKeeps
    <2>5. CASE SendSurface \/ ReceiveSurface \/ AllReceived
      BY <2>5, SendKeeps, ReceiveKeeps, AllReceivedKeeps
    <2>6. CASE DecoderAdjust \/ DecoderDequantise \/ DecodeLevel1 \/ DecodeLevel2 \/ DecodeUnenhanced
      BY <2>6, DecoderAdjustKeeps, DecoderDequantiseKeeps, DecodeLevel1Keeps, DecodeLevel2Keeps,
         DecodeUnenhancedKeeps
    <2>7. CASE Output \/ NextPicture
      BY <2>7, OutputKeeps, NextPictureKeeps
    <2> QED
      BY <1>3, <2>1, <2>2, <2>3, <2>4, <2>5, <2>6, <2>7 DEF Pipeline
  <1> QED
    BY <1>1, <1>2, <1>3 DEF CodingNext

(* A surface that is coded alone stays alone. *)
LEMMA AloneKeeps ==
  ASSUME Alone, [CodingNext]_allvars
  PROVE  Alone'
  <1>1. CASE UNCHANGED pipeline
    BY <1>1 DEF pipeline, Alone
  <1>2. CASE UNCHANGED allvars
    BY <1>2 DEF allvars, pipeline, Alone
  <1>3. ~Pipeline
    BY DEF Alone, Pipeline, Stage, Encoder, Decoder, Either, Downsample, CodeBase, UpsamplePrediction,
           EncoderAdjust, Difference, ComputeMeans, ComputeTypes, EncodeTransform, SelectCoefficients,
           QuantiseLayers, EncoderDequantise, InvertTrial, InvertLevel1, InvertLevel2, Decide,
           PredictTemporally, EncodeUnenhanced, SendSurface, ReceiveSurface, AllReceived, DecoderAdjust,
           DecoderDequantise, DecodeLevel1, DecodeLevel2, DecodeUnenhanced, Output, NextPicture
  <1> QED
    BY <1>1, <1>2, <1>3 DEF CodingNext

LEMMA CodingStep ==
  CodingInv /\ [CodingNext]_allvars /\ ProductsFit /\ RoundTrip => CodingInv'
  BY StepKeeps, AloneKeeps DEF CodingInv

(* Within the invariant the decoder has what the encoder has. *)
LEMMA Reconstructs == CodingInv => DecoderReconstructsEncoder
  <1> SUFFICES ASSUME CodingInv, Stage(Decoder, "output")
               PROVE  /\ decoder.reco = encoder.reco
                      /\ conf.temporal =>
                           decoder.buffer = (IF encoder.previous = Nothing THEN Fill(conf.width, conf.height, 0)
                                                                           ELSE encoder.previous)
    BY DEF DecoderReconstructsEncoder
  <1>1. at.side = "decoder" /\ at.stage = "output"
    BY DEF Stage, Decoder
  <1>2. Place
    BY <1>1 DEF CodingInv, Alone, InPictures
  <1>3. PictureDecoded
    BY <1>1, <1>2, Places DEF At
  <1> QED
    BY <1>1, <1>3 DEF PictureDecoded, Kept, Nothing

-----------------------------------------------------------------------------
(* The coders on their way through a picture: one surface after another.   *)

CoderInv == Idle \/ EncoderInv

LEMMA IdleStays ==
  ASSUME Idle, [Next]_vars
  PROVE  Idle'
  <1>1. phase = "decoding" /\ input = NoInput /\ out = <<>> /\ Len(out) = 0 /\ Size = 0
    BY DEF Idle, Ready, NoInput, Size
  <1>2. ~Decoding /\ ~Scanning
    BY <1>1 DEF Decoding, Scanning, Element
  <1>3. ~Next
    BY <1>1, <1>2 DEF Next, EncodeFirst, EncodeSkipped, ExtendRun, EmitRun, FinishRuns, EncodeSize,
       AbortSize, FinishSizes, ScanningSizes, StartSource, DecodeConstant, ReadPelLsb, ReadPelMsb,
       ReadZeros, WriteZero, ReadStart, ReadCount, FlipRun, WriteFlag, WriteIntra, ReadSizeLsb,
       ReadSizeMsb, WriteNoSize, Reading
  <1>4. UNCHANGED vars
    BY <1>3
  <1> QED
    BY <1>4 DEF vars, Idle, Ready

LEMMA CoderGoesOn ==
  ASSUME CoderInv, [Next]_vars
  PROVE  CoderInv'
  BY IdleStays, Continues DEF CoderInv

(* What is sent can be coded, if it is in the range of the coder. *)
LEMMA SentIsProper ==
  ASSUME conf \in Configurations, NEW s, \E w, h \in Dimension : Shaped(s, w, h),
         NEW i, i.data = Scanned(s), i.starts = TileStarts(s), i.enabled = {}, i.form = "smaller",
         i.coder \in {"temporal", "residuals"}, i.reduced \in BOOLEAN,
         i = [coder |-> i.coder, data |-> i.data, reduced |-> i.reduced, form |-> i.form,
              starts |-> i.starts, enabled |-> i.enabled],
         Codable(i)
  PROVE  Proper(i)
  <1>1. PICK n \in Nat \ {0} : n = Width(s) * Height(s)
    <2>1. PICK w \in Dimension, h \in Dimension : Shaped(s, w, h)
      OBVIOUS
    <2>2. Width(s) = w /\ Height(s) = h
      BY <2>1, SizeOf
    <2> QED
      BY <2>2 DEF Dimension
  <1>2. PICK d : d = i.data
    OBVIOUS
  <1>3. d = [k \in 1 .. n |-> s[ScanPosition(s, k - 1)[2]][ScanPosition(s, k - 1)[1]]]
    BY <1>1, <1>2 DEF Scanned
  <1>4. Len(d) = n
    BY <1>3
  <1>5. \A k \in 1 .. n : d[k] \in Int
    BY <1>2, <1>4 DEF Codable, ResidualRange
  <1>6. d \in [1 .. n -> Int]
    BY <1>3, <1>5
  <1>7. d \in Seq(Int) /\ d # <<>>
    BY <1>4, <1>6
  <1>8. i.starts \in SUBSET (1 .. Len(d))
    BY <1>1, <1>4 DEF TileStarts
  <1>9. i.coder \in RunCoders /\ i.form \in Forms /\ i.enabled \in SUBSET (1 .. Len(d))
    BY DEF RunCoders, Forms
  <1>10. i \in InputTypes(d)
    BY <1>2, <1>8, <1>9 DEF InputTypes
  <1> QED
    BY <1>2, <1>7, <1>10 DEF Proper

LEMMA FreshLater ==
  (Proper(input) /\ phase = "encoding" /\ Ready)' => EncoderInv'
  BY FreshInv, PTL

LEMMA SendStartsCoder ==
  ASSUME InPictures, SendSurface
  PROVE  CoderInv'
  <1>1. conf \in Configurations /\ Sending /\ Len(received) < Len(sent)
    <2>1. at.side = "encoder" /\ at.stage = "send" /\ Place
      BY DEF InPictures, SendSurface, Stage, Encoder
    <2> QED
      BY <2>1, Places DEF At, InPictures, SendSurface
  <1>2. PICK s, i :
             /\ s = sent[Len(received) + 1]
             /\ i = [coder |-> IF IsMask(Len(received) + 1) THEN "temporal" ELSE "residuals",
                     data |-> Scanned(s),
                     reduced |-> IsMask(Len(received) + 1) /\ conf.tile_signalling, form |-> "smaller",
                     starts |-> TileStarts(s), enabled |-> {}]
             /\ Code(i)
    BY DEF SendSurface
  <1>3. input' = i /\ phase' = "encoding" /\ chunk' = NoChunk /\ Ready'
    BY <1>2 DEF Code, Ready
  <1>4. \E w, h \in Dimension : Shaped(s, w, h)
    <2>1. PICK A, B : sent \in Seq(A) /\ received \in Seq(B)
      BY <1>1 DEF Sending, SurfacesSent, Arrived
    <2>2. Len(received) + 1 \in 1 .. Len(sent)
      BY <1>1, <2>1
    <2> QED
      BY <1>1, <1>2, <2>2 DEF Sending, SurfacesSent
  <1>5. Codable(i) => Proper(i)
    BY <1>1, <1>2, <1>4, SentIsProper
  <1>6. EncoderInv'
    <2>1. CASE Codable(i)
      BY <1>3, <1>5, <2>1, FreshLater
    <2>2. CASE ~Codable(i)
      BY <1>3, <2>2 DEF EncoderInv, RunsFit
    <2> QED
      BY <2>1, <2>2
  <1> QED
    BY <1>6 DEF CoderInv

LEMMA CoderStep ==
  CodingInv /\ CoderInv /\ [CodingNext]_allvars => CoderInv'
  <1> SUFFICES ASSUME CodingInv, CoderInv, [CodingNext]_allvars PROVE CoderInv'
    OBVIOUS
  <1>1. CASE [Next]_vars
    BY <1>1, CoderGoesOn
  <1>2. CASE SendSurface
    <2>1. InPictures
      BY <1>2 DEF CodingInv, Alone, SendSurface, Stage
    <2> QED
      BY <1>2, <2>1, SendStartsCoder
  <1>3. [Next]_vars \/ SendSurface
    <2>1. Downsample \/ CodeBase \/ UpsamplePrediction \/ EncoderAdjust \/ Difference => UNCHANGED vars
      BY DEF Downsample, CodeBase, UpsamplePrediction, EncoderAdjust, Difference
    <2>2. ComputeMeans \/ ComputeTypes \/ EncodeTransform \/ SelectCoefficients => UNCHANGED vars
      BY DEF ComputeMeans, ComputeTypes, EncodeTransform, SelectCoefficients
    <2>3. QuantiseLayers \/ EncoderDequantise => UNCHANGED vars
      BY DEF QuantiseLayers, EncoderDequantise
    <2>4. InvertTrial => UNCHANGED vars
      BY DEF InvertTrial
    <2>5. InvertLevel1 => UNCHANGED vars
      BY DEF InvertLevel1
    <2>6. InvertLevel2 => UNCHANGED vars
      BY DEF InvertLevel2
    <2>7. Decide => UNCHANGED vars
      BY DEF Decide
    <2>8. PredictTemporally => UNCHANGED vars
      BY DEF PredictTemporally
    <2>9. EncodeUnenhanced => UNCHANGED vars
      BY DEF EncodeUnenhanced, Unenhanced
    <2>10. ReceiveSurface \/ AllReceived \/ DecoderAdjust \/ DecoderDequantise => UNCHANGED vars
      BY DEF ReceiveSurface, AllReceived, DecoderAdjust, DecoderDequantise
    <2>11. DecodeLevel1 \/ DecodeLevel2 => UNCHANGED vars
      BY DEF DecodeLevel1, DecodeLevel2
    <2>12. DecodeUnenhanced \/ Output \/ NextPicture => UNCHANGED vars
      BY DEF DecodeUnenhanced, Output, NextPicture
    <2>13. Pipeline => SendSurface \/ UNCHANGED vars
      BY <2>1, <2>2, <2>3, <2>4, <2>5, <2>6, <2>7, <2>8, <2>9, <2>10, <2>11, <2>12 DEF Pipeline
    <2>14. UNCHANGED allvars => UNCHANGED vars
      BY DEF allvars
    <2> QED
      BY <2>13, <2>14 DEF CodingNext
  <1> QED
    BY <1>1, <1>2, <1>3

LEMMA CoderBegins == CodingInit => CoderInv
  BY Starts DEF CodingInit, CoderInv

LEMMA RunsFitComeBack == CoderInv => (RunsFit => RoundTrip)
  <1>1. Idle => RoundTrip
    BY DEF Idle, Ready, RoundTrip
  <1> QED
    BY <1>1, ComesBack DEF CoderInv, EncoderInv

-----------------------------------------------------------------------------
(* For every configuration, every sequence of pictures and every error of  *)
(* the base codec the decoder has the encoder's picture and the encoder's  *)
(* temporal buffer, provided that the encoder's dequantiser cuts nothing   *)
(* off and that surfaces come back that are out of the range of two        *)
(* symbols or need a prefix code of NoLength bits: that all the others do  *)
(* is part of the proof.                                                   *)
THEOREM DecoderFollowsEncoder ==
  CodingSpec /\ [](RunsFit \/ RoundTrip) /\ []ProductsFit => []DecoderReconstructsEncoder
  <1>1. CodingInit => CodingInv /\ CoderInv
    BY Begins, CoderBegins
  <1>2. CodingInv /\ CoderInv /\ [CodingNext]_allvars /\ ProductsFit /\ (RunsFit \/ RoundTrip)
          => CodingInv' /\ CoderInv'
    BY CodingStep, CoderStep, RunsFitComeBack
  <1>3. CodingSpec /\ [](RunsFit \/ RoundTrip) /\ []ProductsFit => []CodingInv
    BY <1>1, <1>2, PTL DEF CodingSpec
  <1> QED
    BY <1>3, Reconstructs, PTL

=============================================================================
