------------------------------ MODULE Transform ------------------------------
(***************************************************************************)
(* The transforms of residuals: blocks of 2x2 (DD, four layers of          *)
(* coefficients) or 4x4 pels (DDS, sixteen layers), for pictures scaled in *)
(* both directions or only horizontally (_1D).  Forward they divide by the *)
(* size of a block and truncate; the inverse adds up.                      *)
(*                                                                         *)
(* A basis gives each layer the weights of the pels of a block, row by     *)
(* row.  In DDS the four layers of a group do to the quadrants of a block  *)
(* what DD does to pels, and the group does the same within each quadrant. *)
(***************************************************************************)
EXTENDS Surfaces

(* -1 to the power of n *)
Alternating(n) == IF n % 2 = 0 THEN 1 ELSE -1

(* DD: average, horizontal, vertical, diagonal. *)
DDSign(layer, x, y) == Alternating((layer % 2) * x + (layer \div 2) * y)

DDBasis == [l \in 0 .. 3 |-> [p \in 0 .. 3 |-> DDSign(l, p % 2, p \div 2)]]

(* A row of two pels that keeps to itself, counted twice. *)
OwnRow(row, y) == IF y = row THEN 2 ELSE 0

DDWeight_1D(layer, x, y) ==
  CASE layer = 0 -> OwnRow(0, y)
    [] layer = 1 -> Alternating(x)
    [] layer = 2 -> Alternating(x + y)
    [] layer = 3 -> OwnRow(1, y)

DDBasis_1D == [l \in 0 .. 3 |-> [p \in 0 .. 3 |-> DDWeight_1D(l, p % 2, p \div 2)]]

QuadrantSign(layer, x, y) == DDSign(layer % 4, x \div 2, y \div 2)

(* The groups of DDS. *)
Averages(layer, x, y) == QuadrantSign(layer, x, y)
Horizontals(layer, x, y) == QuadrantSign(layer, x, y) * Alternating(x)
Verticals(layer, x, y) == QuadrantSign(layer, x, y) * Alternating(y)
Diagonals(layer, x, y) == QuadrantSign(layer, x, y) * Alternating(x + y)

DDSWeight(layer, x, y) ==
  CASE layer \div 4 = 0 -> Averages(layer, x, y)
    [] layer \div 4 = 1 -> Horizontals(layer, x, y)
    [] layer \div 4 = 2 -> Verticals(layer, x, y)
    [] layer \div 4 = 3 -> Diagonals(layer, x, y)

DDSBasis == [l \in 0 .. 15 |-> [p \in 0 .. 15 |-> DDSWeight(l, p % 4, p \div 4)]]

DDSWeight_1D(layer, x, y) ==
  QuadrantSign(layer, x, y) *
    (CASE layer \div 4 = 0 -> OwnRow(0, y % 2)
       [] layer \div 4 = 1 -> Alternating(x)
       [] layer \div 4 = 2 -> OwnRow(1, y % 2)
       [] layer \div 4 = 3 -> Alternating(x + y))

DDSBasis_1D == [l \in 0 .. 15 |-> [p \in 0 .. 15 |-> DDSWeight_1D(l, p % 4, p \div 4)]]

ForwardBasis(size, horizontal_only) ==
  IF size = 2 THEN IF horizontal_only THEN DDBasis_1D ELSE DDBasis
              ELSE IF horizontal_only THEN DDSBasis_1D ELSE DDSBasis

(* process of the four transforms. *)
Coefficient(s, weights, size, x, y) ==
  Quotient(TotalOver(size, size, LAMBDA i, j : weights[i + size * j] * s[size * y + j][size * x + i]),
           size * size)

Coefficients(s, size, basis) ==
  [l \in DOMAIN basis |->
     Generate(Width(s) \div size, Height(s) \div size,
              LAMBDA x, y : Coefficient(s, basis[l], size, x, y))]

-----------------------------------------------------------------------------
(* The weights of the layers in a pel. *)

InverseDDBasis == [p \in 0 .. 3 |-> [l \in 0 .. 3 |-> DDSign(l, p % 2, p \div 2)]]

(* Faulty variant of InverseDDWeight_1D: the diagonal as in two dimensions. *)
InverseDDWeight_1DSign(layer, x, y) ==
  CASE layer = 0 -> 1 - y
    [] layer = 1 -> Alternating(x)
    [] layer = 2 -> Alternating(y)
    [] layer = 3 -> y

(* A row has its own average, and the difference of its two pels. *)
InverseDDWeight_1D(layer, x, y) ==
  CASE layer = 0 -> 1 - y
    [] layer = 1 -> Alternating(x)
    [] layer = 2 -> Alternating(x + y)
    [] layer = 3 -> y

InverseDDBasis_1D == [p \in 0 .. 3 |-> [l \in 0 .. 3 |-> InverseDDWeight_1D(l, p % 2, p \div 2)]]

InverseDDSBasis == [p \in 0 .. 15 |-> [l \in 0 .. 15 |-> DDSWeight(l, p % 4, p \div 4)]]

InverseDDSWeight_1D(layer, x, y) ==
  QuadrantSign(layer, x, y) *
    (CASE layer \div 4 = 0 -> 1 - (y % 2)
       [] layer \div 4 = 1 -> Alternating(x)
       [] layer \div 4 = 2 -> y % 2
       [] layer \div 4 = 3 -> Alternating(x + y))

InverseDDSBasis_1D ==
  [p \in 0 .. 15 |-> [l \in 0 .. 15 |-> InverseDDSWeight_1D(l, p % 4, p \div 4)]]

InverseBasis(size, horizontal_only) ==
  IF size = 2 THEN IF horizontal_only THEN InverseDDBasis_1D ELSE InverseDDBasis
              ELSE IF horizontal_only THEN InverseDDSBasis_1D ELSE InverseDDSBasis

(* process of the four inverse transforms. *)
InverseTransform(layers, size, basis) ==
  Generate(size * Width(layers[0]), size * Height(layers[0]), LAMBDA x, y :
    Int16(Total(size * size, LAMBDA l :
      basis[(x % size) + size * (y % size)][l] * layers[l][y \div size][x \div size])))
=============================================================================
