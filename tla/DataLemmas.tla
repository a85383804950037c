----------------------------- MODULE DataLemmas -----------------------------
(***************************************************************************)
(* Facts about numbers, loops and sequences that the proofs of several     *)
(* components rest on.                                                     *)
(***************************************************************************)
EXTENDS Integers, Sequences, TLAPS, FiniteSetTheorems

-----------------------------------------------------------------------------
(* Division.                                                               *)

LEMMA DivMod ==
  ASSUME NEW c \in Nat, NEW m \in Nat \ {0}
  PROVE  /\ c % m \in 0 .. m - 1
         /\ c \div m \in Nat
         /\ c = m * (c \div m) + (c % m)
  <1>1. c % m \in 0 .. m - 1
    OBVIOUS
  <1>2. c \div m \in Int
    OBVIOUS
  <1>3. c = m * (c \div m) + (c % m)
    OBVIOUS
  <1>4. c \div m >= 0
    BY <1>1, <1>2, <1>3
  <1> QED
    BY <1>1, <1>2, <1>3, <1>4

(* Multiples of m are apart by m at least. *)
LEMMA Apart ==
  ASSUME NEW m \in Nat \ {0}, NEW p \in Int, NEW q \in Int, p < q
  PROVE  m * p + m <= m * q
  <1>1. p + 1 <= q
    OBVIOUS
  <1>2. m * (p + 1) <= m * q
    BY <1>1
  <1>3. m * (p + 1) = m * p + m
    OBVIOUS
  <1> QED
    BY <1>2, <1>3

-----------------------------------------------------------------------------
(* Loops.                                                                  *)

(* A natural number with a property, if there is one, is the least such. *)
LEMMA LeastOf ==
  ASSUME NEW T \in SUBSET Nat, T # {}
  PROVE  \E k \in T : k = 0 \/ (k - 1 \in Nat /\ k - 1 \notin T)
  <1>1. PICK k \in T : \A d \in T : ~(<<d, k>> \in OpToRel(<, Nat))
    BY WFMin, NatLessThanWellFounded
  <1>2. k \in Nat
    OBVIOUS
  <1>3. k # 0 => k - 1 \notin T
    <2> SUFFICES ASSUME k # 0, k - 1 \in T PROVE FALSE
      OBVIOUS
    <2>1. k - 1 \in Nat /\ k - 1 < k
      BY <1>2
    <2> QED
      BY <1>1, <1>2, <2>1 DEF OpToRel
  <1> QED
    BY <1>2, <1>3

LEMMA LeastMember ==
  ASSUME NEW T \in SUBSET Nat, T # {}
  PROVE  \E k \in T : \A d \in Nat : d < k => d \notin T
  <1>1. PICK k \in T : \A d \in T : ~(<<d, k>> \in OpToRel(<, Nat))
    BY WFMin, NatLessThanWellFounded
  <1>2. k \in Nat
    OBVIOUS
  <1> QED
    BY <1>1, <1>2 DEF OpToRel

(* A value carried through n steps: the recursive functions of the model.  *)
Carried(f, Step, first, n) ==
  /\ \E A : f \in [0 .. n -> A]
  /\ \A i \in 0 .. n : f[i] = IF i = 0 THEN first ELSE Step[i][f[i - 1]]

LEMMA LoopExists ==
  ASSUME NEW Step, NEW first, NEW n \in Nat
  PROVE  \E f : Carried(f, Step, first, n)
  <1> DEFINE Is(f, k) == f = [i \in 0 .. k |-> IF i = 0 THEN first ELSE Step[i][f[i - 1]]]
             Bad == {k \in Nat : ~\E f : Is(f, k)}
  <1>1. SUFFICES Bad = {}
    <2>1. PICK f : Is(f, n)
      BY <1>1
    <2> DEFINE A == {f[i] : i \in 0 .. n}
    <2>2. f \in [0 .. n -> A] /\ \A i \in 0 .. n : f[i] = IF i = 0 THEN first ELSE Step[i][f[i - 1]]
      BY <2>1
    <2> HIDE DEF A
    <2> QED
      BY <2>2 DEF Carried
  <1>2. SUFFICES ASSUME Bad # {} PROVE FALSE
    OBVIOUS
  <1>3. PICK k \in Bad : k = 0 \/ (k - 1 \in Nat /\ k - 1 \notin Bad)
    <2> HIDE DEF Bad
    <2>1. Bad \in SUBSET Nat
      BY DEF Bad
    <2> QED
      BY <1>2, <2>1, LeastOf
  <1>4. CASE k = 0
    <2> DEFINE f == [i \in 0 .. 0 |-> first]
    <2>1. Is(f, 0)
      OBVIOUS
    <2> QED
      BY <2>1, <1>4
  <1>5. CASE k # 0
    <2>1. PICK g : Is(g, k - 1)
      BY <1>3, <1>5
    <2>2. k \in Nat /\ k - 1 \in Nat
      BY <1>3, <1>5
    <2> DEFINE f == [i \in 0 .. k |-> IF i = k THEN Step[k][g[k - 1]] ELSE g[i]]
    <2>3. f[k] = Step[k][f[k - 1]]
      BY <2>2, <1>5
    <2>4. ASSUME NEW i \in 0 .. k
          PROVE  f[i] = IF i = 0 THEN first ELSE Step[i][f[i - 1]]
      <3>1. CASE i = k
        BY <3>1, <2>3, <1>5
      <3>2. CASE i # k
        <4>1. i \in 0 .. k - 1 /\ f[i] = g[i]
          BY <3>2, <2>2
        <4>2. g[i] = IF i = 0 THEN first ELSE Step[i][g[i - 1]]
          BY <2>1, <4>1
        <4>3. i # 0 => f[i - 1] = g[i - 1]
          BY <4>1, <2>2
        <4> QED
          BY <4>1, <4>2, <4>3
      <3> QED
        BY <3>1, <3>2
    <2>5. Is(f, k)
      BY <2>4
    <2> QED
      BY <2>5
  <1> QED
    BY <1>3, <1>4, <1>5

-----------------------------------------------------------------------------
(* Sequences.                                                              *)

(* What is left of a sequence. *)
LEMMA TailOf ==
  ASSUME NEW A, NEW s \in Seq(A), s # <<>>
  PROVE  /\ Head(s) = s[1] /\ s[1] \in A /\ Len(s) \in Nat \ {0}
         /\ Tail(s) \in Seq(A) /\ Len(Tail(s)) = Len(s) - 1
         /\ \A i \in 1 .. Len(Tail(s)) : Tail(s)[i] = s[i + 1] /\ i + 1 \in 1 .. Len(s)
  OBVIOUS

LEMMA Appended ==
  ASSUME NEW A, NEW s \in Seq(A), NEW x \in A, NEW t, t = Append(s, x)
  PROVE  /\ t \in Seq(A) /\ Len(s) \in Nat /\ Len(t) = Len(s) + 1
         /\ \A i \in 1 .. Len(s) : t[i] = s[i]
         /\ t[Len(s) + 1] = x
  OBVIOUS

LEMMA ElementOf ==
  ASSUME NEW A, NEW s \in Seq(A), NEW i \in 1 .. Len(s)
  PROVE  s[i] \in A
  OBVIOUS

LEMMA Concatenated ==
  ASSUME NEW A, NEW s \in Seq(A), NEW t \in Seq(A)
  PROVE  /\ s \o t \in Seq(A) /\ Len(s \o t) = Len(s) + Len(t)
         /\ \A i \in 1 .. Len(s) : (s \o t)[i] = s[i]
         /\ \A i \in 1 .. Len(t) : (s \o t)[Len(s) + i] = t[i]
  OBVIOUS

(* Pieces put together in a loop. *)
Gathered(f, piece, n) == f = [i \in (1 - 1) .. n |-> IF i < 1 THEN <<>> ELSE f[i - 1] \o piece[i]]

LEMMA GatheredTyped ==
  ASSUME NEW A, NEW n \in Nat, NEW piece, \A i \in 1 .. n : piece[i] \in Seq(A),
         NEW f, f[0] = <<>>, \A i \in 1 .. n : f[i - 1] \in Seq(A) => f[i] = f[i - 1] \o piece[i]
  PROVE  \A i \in 0 .. n : f[i] \in Seq(A)
  <1> DEFINE T == {i \in Nat : i <= n /\ f[i] \notin Seq(A)}
  <1> SUFFICES ASSUME T # {} PROVE FALSE
    OBVIOUS
  <1>1. PICK k \in T : k = 0 \/ (k - 1 \in Nat /\ k - 1 \notin T)
    <2>1. T \in SUBSET Nat
      OBVIOUS
    <2> HIDE DEF T
    <2> QED
      BY <2>1, LeastOf
  <1>2. <<>> \in Seq(A)
    OBVIOUS
  <1>3. CASE k = 0
    BY <1>1, <1>2, <1>3
  <1>4. CASE k # 0
    <2>1. k \in 1 .. n /\ f[k - 1] \in Seq(A) /\ piece[k] \in Seq(A)
      BY <1>1, <1>4
    <2>2. f[k - 1] \o piece[k] \in Seq(A)
      BY <2>1
    <2> QED
      BY <1>1, <2>1, <2>2
  <1> QED
    BY <1>3, <1>4

LEMMA GatheredExists ==
  ASSUME NEW A, NEW n \in Nat, NEW piece, \A i \in 1 .. n : piece[i] \in Seq(A)
  PROVE  \E f : Gathered(f, piece, n)
  <1> DEFINE step == [i \in 1 .. n |-> [s \in Seq(A) |-> s \o piece[i]]]
  <1>1. PICK f : Carried(f, step, <<>>, n)
    <2> HIDE DEF step
    <2> QED
      BY LoopExists
  <1>2. f[0] = <<>>
    BY <1>1 DEF Carried
  <1>3. ASSUME NEW i \in 1 .. n, f[i - 1] \in Seq(A) PROVE f[i] = f[i - 1] \o piece[i]
    <2>1. f[i] = step[i][f[i - 1]]
      <3> HIDE DEF step
      <3> QED
        BY <1>1 DEF Carried
    <2> QED
      BY <2>1, <1>3
  <1>4. \A i \in 0 .. n : f[i] \in Seq(A)
    BY <1>2, <1>3, GatheredTyped
  <1>5. \E B : f \in [0 .. n -> B]
    BY <1>1 DEF Carried
  <1>6. ASSUME NEW i \in 0 .. n PROVE f[i] = IF i < 1 THEN <<>> ELSE f[i - 1] \o piece[i]
    <2>1. CASE i = 0
      <3>1. i < 1
        BY <2>1
      <3> QED
        BY <1>2, <2>1, <3>1
    <2>2. CASE i # 0
      <3>1. i \in 1 .. n /\ i - 1 \in 0 .. n /\ ~(i < 1)
        BY <2>2
      <3>2. f[i] = f[i - 1] \o piece[i]
        BY <1>3, <1>4, <3>1
      <3> QED
        BY <3>1, <3>2
    <2> QED
      BY <2>1, <2>2
  <1>7. (1 - 1) .. n = 0 .. n
    OBVIOUS
  <1> QED
    BY <1>5, <1>6, <1>7 DEF Gathered

(* Each piece is found behind those before it. *)
Pieced(f, piece, n, A) ==
  /\ f[0] = <<>> /\ \A i \in 0 .. n : f[i] \in Seq(A)
  /\ \A i \in 1 .. n : Len(f[i]) = Len(f[i - 1]) + Len(piece[i])
  /\ \A i \in 1 .. n : \A x \in 1 .. Len(piece[i]) : f[n][Len(f[i - 1]) + x] = piece[i][x]

LEMMA GatheredPieces ==
  ASSUME NEW A, NEW n \in Nat, NEW piece, \A i \in 1 .. n : piece[i] \in Seq(A),
         NEW f, Gathered(f, piece, n)
  PROVE  Pieced(f, piece, n, A)
  <1>1. f[0] = <<>> /\ \A i \in 1 .. n : f[i] = f[i - 1] \o piece[i]
    <2>1. 0 \in (1 - 1) .. n /\ 0 < 1 /\ \A i \in 1 .. n : i \in (1 - 1) .. n /\ ~(i < 1)
      OBVIOUS
    <2> QED
      BY <2>1 DEF Gathered
  <1>2. \A i \in 0 .. n : f[i] \in Seq(A)
    BY <1>1, GatheredTyped
  <1>3. ASSUME NEW i \in 1 .. n
        PROVE  /\ Len(f[i]) = Len(f[i - 1]) + Len(piece[i])
               /\ Len(f[i - 1]) \in Nat /\ Len(piece[i]) \in Nat
               /\ \A x \in 1 .. Len(f[i - 1]) : f[i][x] = f[i - 1][x]
               /\ \A x \in 1 .. Len(piece[i]) : f[i][Len(f[i - 1]) + x] = piece[i][x]
    <2>1. PICK a, b, c : a = f[i - 1] /\ b = piece[i] /\ c = f[i]
      OBVIOUS
    <2>2. a \in Seq(A) /\ b \in Seq(A) /\ c = a \o b
      <3>1. i - 1 \in 0 .. n
        OBVIOUS
      <3> QED
        BY <1>1, <1>2, <2>1, <3>1
    <2>3. /\ Len(c) = Len(a) + Len(b) /\ Len(a) \in Nat /\ Len(b) \in Nat
          /\ \A x \in 1 .. Len(a) : c[x] = a[x]
          /\ \A x \in 1 .. Len(b) : c[Len(a) + x] = b[x]
      BY <2>2, Concatenated
    <2> QED
      BY <2>1, <2>3
  <1>4. ASSUME NEW i \in 1 .. n, NEW x \in 1 .. Len(piece[i])
        PROVE  f[n][Len(f[i - 1]) + x] = piece[i][x]
    <2>0. PICK at \in Nat \ {0} : at = Len(f[i - 1]) + x
      BY <1>3
    <2> DEFINE T == {j \in Nat : i <= j /\ j <= n /\ ~(at \in 1 .. Len(f[j]) /\ f[j][at] = piece[i][x])}
    <2>1. T = {}
      <3> SUFFICES ASSUME T # {} PROVE FALSE
        OBVIOUS
      <3>1. PICK k \in T : k = 0 \/ (k - 1 \in Nat /\ k - 1 \notin T)
        <4>1. T \in SUBSET Nat
          OBVIOUS
        <4> HIDE DEF T
        <4> QED
          BY <4>1, LeastOf
      <3>2. k \in 1 .. n /\ i <= k
        BY <3>1
      <3>5. ~(at \in 1 .. Len(f[k]) /\ f[k][at] = piece[i][x])
        BY <3>1
      <3> HIDE DEF T
      <3>3. CASE k = i
        <4>1. PICK l \in Nat, m \in Nat : l = Len(f[i - 1]) /\ m = Len(piece[i])
          BY <1>3
        <4>2. Len(f[i]) = l + m /\ x \in 1 .. m /\ at = l + x
          BY <2>0, <1>3, <4>1
        <4>3. f[i][at] = piece[i][x]
          BY <2>0, <1>3
        <4> QED
          BY <3>3, <3>5, <4>2, <4>3
      <3>4. CASE k # i
        <4>1. at \in 1 .. Len(f[k - 1]) /\ f[k - 1][at] = piece[i][x]
          BY <3>1, <3>2, <3>4 DEF T
        <4>2. PICK l \in Nat, m \in Nat : l = Len(f[k - 1]) /\ m = Len(piece[k])
          BY <1>3, <3>2
        <4>3. Len(f[k]) = l + m /\ at \in 1 .. l
          BY <1>3, <3>2, <4>1, <4>2
        <4>4. f[k][at] = f[k - 1][at]
          BY <1>3, <3>2, <4>1
        <4> QED
          BY <3>5, <4>1, <4>3, <4>4
      <3> QED
        BY <3>3, <3>4
    <2>2. n \notin T
      BY <2>1
    <2> QED
      BY <2>0, <2>2
  <1> QED
    BY <1>1, <1>2, <1>3, <1>4 DEF Pieced
=============================================================================
