----------------------------- MODULE PriorityMap -----------------------------
(***************************************************************************)
(* Which coefficients the encoder gives up (encoder/src/PriorityMap.cpp):  *)
(* by the type of the block that they belong to, and in parts of the       *)
(* picture that move by their size.  The blocks are those of the source in *)
(* the internal format; coefficients are a function from layers to         *)
(* surfaces.                                                               *)
(*                                                                         *)
(* The code compares quotients in float with decimal constants; here the   *)
(* same comparisons are made between products of integers.                 *)
(***************************************************************************)
EXTENDS Surfaces

CONSTANT BLOCK_SIZE   \* 8
ASSUME BlockSizeAssumption == BLOCK_SIZE \in Nat /\ BLOCK_SIZE >= 4 /\ BLOCK_SIZE % 4 = 0

BlockTypes == {"Plain", "Edge", "SmoothTexture", "CoarseTexture"}
PriorityMBTypes == {"SmoothAndPlain", "CoarseAndPlain", "Smooth", "Plain", "Coarse", "Edge"}
EncodingModes == {"ENCODE_ALL", "NA", "AA", "Ax"}

(* Samples of eight bits, around zero. *)
Sample(s, x, y) == s[y][x] \div 128

Blocks(n) == (n + BLOCK_SIZE - 1) \div BLOCK_SIZE

(* The pels of block (x, y), cut off at the border. *)
BlockPels(s, x, y) ==
  {p \in (BLOCK_SIZE * x .. BLOCK_SIZE * (x + 1) - 1) \X (BLOCK_SIZE * y .. BLOCK_SIZE * (y + 1) - 1) :
     p[1] < Width(s) /\ p[2] < Height(s)}

SumOf(pels, s) ==
  LET S[t \in SUBSET pels] ==
        IF t = {} THEN 0
        ELSE LET p == CHOOSE q \in t : TRUE IN Sample(s, p[1], p[2]) + S[t \ {p}]
  IN  S[pels]

(* A block is divided by its full size even at the border, and a dark one  *)
(* has the mean zero, since samples are signed and means are not.          *)
ComputeMeanValue(s) ==
  Generate(Blocks(Width(s)), Blocks(Height(s)), LAMBDA x, y :
    Clamp(Quotient(TotalOver(Least(BLOCK_SIZE, Width(s) - BLOCK_SIZE * x),
                             Least(BLOCK_SIZE, Height(s) - BLOCK_SIZE * y),
                             LAMBDA i, j : Sample(s, BLOCK_SIZE * x + i, BLOCK_SIZE * y + j)),
                   BLOCK_SIZE * BLOCK_SIZE), 0, 255))

(* Two neighbours on different sides of the mean, and clearly apart.       *)
Crossing(a, b, mean) == (a > mean) # (b > mean) /\ Abs(a - b) > 4

(* Blocks of the first row have no pels above them to compare with, and    *)
(* those of the first column none to the left.                             *)
Crossings(s, pels, mean, x, y) ==
    (IF y = 0 THEN 0 ELSE
       Cardinality({p \in pels : Crossing(Sample(s, p[1], p[2]), Sample(s, p[1], p[2] - 1), mean)}))
  + (IF x = 0 THEN 0 ELSE
       Cardinality({p \in pels : Crossing(Sample(s, p[1], p[2]), Sample(s, p[1] - 1, p[2]), mean)}))

(* The contrast is the distance of the means above and below the mean, of  *)
(* 255; the texture, the share of neighbours that cross.                   *)
BlockType(s, pels, mean, x, y) ==
  LET low == {p \in pels : Sample(s, p[1], p[2]) <= mean}
      high == pels \ low
      sizes == Cardinality(low) * Cardinality(high)
      distance == IF sizes = 0 THEN 0
                  ELSE SumOf(high, s) * Cardinality(low) - SumOf(low, s) * Cardinality(high)
      Contrast(percent) == 100 * distance > percent * 255 * sizes
      textured == 100 * Crossings(s, pels, mean, x, y) > 30 * BLOCK_SIZE * (BLOCK_SIZE - 1)
  IN  CASE ~textured /\ ~Contrast(10) -> "Plain"
        [] ~textured /\ Contrast(10) -> "Edge"
        [] textured /\ ~Contrast(2) -> "Plain"
        [] textured /\ Contrast(2) /\ ~Contrast(10) -> "SmoothTexture"
        [] textured /\ Contrast(10) -> "CoarseTexture"

ComputeContrastTexture(s, mean) ==
  Generate(Width(mean), Height(mean), LAMBDA x, y : BlockType(s, BlockPels(s, x, y), mean[y][x], x, y))

-----------------------------------------------------------------------------
(* ApplyPriorityCoefficients, for 4x4 and 2x2 transforms, in sub-layers 1  *)
(* and 2.                                                                  *)

TypesOf == [SmoothAndPlain |-> {"Plain", "SmoothTexture"}, CoarseAndPlain |-> {"Plain", "CoarseTexture"},
            Smooth |-> {"SmoothTexture"}, Plain |-> {"Plain"}, Coarse |-> {"CoarseTexture"}, Edge |-> {"Edge"}]

TypeAt(types, x, y, size) == types[(size * y) \div BLOCK_SIZE][(size * x) \div BLOCK_SIZE]

Keeping(layers, Kept(_, _, _)) ==
  [l \in DOMAIN layers |-> Generate(Width(layers[l]), Height(layers[l]),
                                    LAMBDA x, y : IF Kept(l, x, y) THEN layers[l][y][x] ELSE 0)]

LayersOf == [Ax |-> 0 .. 3, AA |-> {0}, NA |-> 1 .. 3]

Priority_4x4_Level1(layers, types, mb_type, mode) ==
  Keeping(layers, LAMBDA l, x, y :
    mode = "ENCODE_ALL" \/ (l \in LayersOf[mode] /\ TypeAt(types, x, y, 4) \in TypesOf[mb_type]))

(* In sub-layer 2 textures are removed only with large steps, and only     *)
(* from blocks that move.                                                  *)
Removed(type, mb_type, step) ==
  /\ type \in TypesOf[mb_type]
  /\ type \in {"Plain", "Edge"} \/ step > 300

Priority_4x4_Level2(layers, types, sad, mb_type, step) ==
  Keeping(layers, LAMBDA l, x, y :
    ~(sad # <<>> /\ sad[y][x] > 1000 /\ Removed(TypeAt(types, x, y, 4), mb_type, step)))

(* Here the mode makes no difference. *)
Priority_2x2_Level1(layers, types, mb_type) ==
  Keeping(layers, LAMBDA l, x, y : l = 0 /\ TypeAt(types, x, y, 2) \in TypesOf[mb_type])

Priority_2x2_Level2(layers, types, sad, mb_type, step) ==
  Keeping(layers, LAMBDA l, x, y :
    ~(step > 300 /\ sad # <<>> /\ sad[y][x] > 500 /\ Removed(TypeAt(types, x, y, 2), mb_type, step)))

PriorityLevel1(layers, size, types, mb_type, mode) ==
  IF size = 4 THEN Priority_4x4_Level1(layers, types, mb_type, mode)
              ELSE Priority_2x2_Level1(layers, types, mb_type)

PriorityLevel2(layers, size, types, sad, mb_type, step) ==
  IF size = 4 THEN Priority_4x4_Level2(layers, types, sad, mb_type, step)
              ELSE Priority_2x2_Level2(layers, types, sad, mb_type, step)

(* StaticResiduals: where the picture moves, small coefficients go.        *)
StaticResiduals(layers, sad, step, threshold, coefficient) ==
  Keeping(layers, LAMBDA l, x, y : sad[y][x] >= threshold => Abs(layers[l][y][x]) > coefficient * step)
=============================================================================
