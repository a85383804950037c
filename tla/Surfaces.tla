------------------------------ MODULE Surfaces ------------------------------
(***************************************************************************)
(* Surfaces of pels, and the arithmetic on them that the encoder and the   *)
(* decoder share.  surface[y][x] is the pel in column x of row y.  A pel   *)
(* has 16 bits and wraps unless the code clamps it.                        *)
(***************************************************************************)
EXTENDS Integers, FiniteSets

(* SurfaceBuilder::generate *)
Generate(width, height, Pel(_, _)) ==
  [y \in 0 .. height - 1 |-> [x \in 0 .. width - 1 |-> Pel(x, y)]]

Height(s) == Cardinality(DOMAIN s)
Width(s) == Cardinality(DOMAIN s[0])

SameSize(s, t) == DOMAIN s = DOMAIN t /\ DOMAIN s[0] = DOMAIN t[0]

Fill(width, height, value) == Generate(width, height, LAMBDA x, y : value)

(* clamp *)
Clamp(v, lo, hi) == IF v < lo THEN lo ELSE IF v > hi THEN hi ELSE v

(* Conversion to int16_t, and clamp_int16. *)
Int16(v) == ((v + 32768) % 65536) - 32768
ClampInt16(v) == Clamp(v, -32768, 32767)

Abs(v) == IF v < 0 THEN -v ELSE v
Sign(v) == IF v > 0 THEN 1 ELSE IF v < 0 THEN -1 ELSE 0
Least(a, b) == IF a < b THEN a ELSE b
Greatest(a, b) == IF a < b THEN b ELSE a

(* A division of C++, which rounds towards zero. *)
Quotient(a, b) == Sign(a) * (Abs(a) \div b)

(* Term(0) + ... + Term(n - 1) *)
Total(n, Term(_)) ==
  LET Sum[k \in 0 .. n] == IF k = 0 THEN 0 ELSE Sum[k - 1] + Term(k - 1)
  IN  Sum[n]

(* The sum over the pels of a width times height rectangle. *)
TotalOver(width, height, Term(_, _)) ==
  Total(width * height, LAMBDA k : Term(k % width, k \div width))

-----------------------------------------------------------------------------
(* Add, Subtract *)
AddSurfaces(s, t) ==
  Generate(Width(s), Height(s), LAMBDA x, y : Int16(s[y][x] + t[y][x]))

Subtract(s, t) ==
  Generate(Width(s), Height(s), LAMBDA x, y : Int16(s[y][x] - t[y][x]))

(* ExpandU8, ExpandU16: a border is added on the right and at the bottom.  *)
Expand(s, width, height) ==
  Generate(width, height,
           LAMBDA x, y : s[Clamp(y, 0, Height(s) - 1)][Clamp(x, 0, Width(s) - 1)])

(* Conform: the picture inside a window. *)
Conform(s, left, top, right, bottom) ==
  Generate(Width(s) - (left + right), Height(s) - (top + bottom),
           LAMBDA x, y : s[top + y][left + x])

(* Deblocking: the pels at the border of every 4x4 block are attenuated.   *)
Deblock(s, corner, side) ==
  LET Inner(x) == x % 4 \in {1, 2}
      Weight(x, y) == IF Inner(x) /\ Inner(y) THEN 16
                      ELSE 16 - (IF Inner(x) \/ Inner(y) THEN side ELSE corner)
  IN  Generate(Width(s), Height(s), LAMBDA x, y : Int16((Weight(x, y) * s[y][x]) \div 16))

(* Dithering::process: noise is added block by block, each block's taken   *)
(* from a place of the buffer that the library's generator chooses.        *)
Dither(s, block, buffer, start) ==
  Generate(Width(s), Height(s),
           LAMBDA x, y : Int16(s[y][x] + buffer[start[y \div block][x \div block]
                                               + (y % block) * block + (x % block)]))
=============================================================================
