--------------------------- MODULE TemporalDecision ---------------------------
(***************************************************************************)
(* How the encoder decides which blocks of sub-layer 2 are predicted from  *)
(* the previous picture: the cost of coding a block with prediction and    *)
(* without, the comparison, and the corrections that signalling by tiles   *)
(* requires (TemporalEncode.cpp and Compare.cpp of the encoder,            *)
(* TemporalDecode.cpp of the decoder).  What is coded of a picture is a    *)
(* function from its layers to surfaces of symbols.                        *)
(***************************************************************************)
EXTENDS Quantization

Cost(v) == Least(v, 32767)

(* Sum of absolute differences over block (x, y). *)
BlockDifference(s, t, size, x, y) ==
  TotalOver(size, size, LAMBDA i, j : Abs(s[size * y + j][size * x + i] - t[size * y + j][size * x + i]))

TemporalCost_SAD(s, t, size) ==
  Generate(Width(s) \div size, Height(s) \div size,
           LAMBDA x, y : Cost(BlockDifference(s, t, size, x, y)))

(* Symbols to code for a block; in an intra block the layer that holds the *)
(* signalling counts in any case.                                          *)
Coded(symbols, layer, x, y) == symbols[layer][y][x] # 0
CodedLayers(symbols, always, x, y) == {l \in DOMAIN symbols : l = always \/ Coded(symbols, l, x, y)}

(* scale is the Lagrange factor, weighted by 0.6 with four layers.         *)
TemporalCost_2x2(s, reco, symbols, scale, intra) ==
  Generate(Width(s) \div 2, Height(s) \div 2, LAMBDA x, y :
    Cost((10 * BlockDifference(s, reco, 2, x, y)
            + 6 * scale * Cardinality(CodedLayers(symbols, IF intra THEN 1 ELSE -1, x, y))) \div 10))

TemporalCost_4x4(s, reco, symbols, scale, intra) ==
  Generate(Width(s) \div 4, Height(s) \div 4, LAMBDA x, y :
    Cost(BlockDifference(s, reco, 4, x, y)
           + scale * Cardinality(CodedLayers(symbols, IF intra THEN 5 ELSE -1, x, y))))

TemporalCost(s, reco, symbols, size, scale, intra) ==
  IF size = 2 THEN TemporalCost_2x2(s, reco, symbols, scale, intra)
              ELSE TemporalCost_4x4(s, reco, symbols, scale, intra)

(* CompareLE: prediction where it costs no more. *)
CompareLE(intra, inter) ==
  Generate(Width(intra), Height(intra), LAMBDA x, y :
    IF inter[y][x] <= intra[y][x] THEN TEMPORAL_PRED ELSE TEMPORAL_INTR)

-----------------------------------------------------------------------------
(* Signalling by tiles.                                                    *)

TransformsPerTile(size) == TileSize \div size
Tile(x, size) == x \div TransformsPerTile(size)

TilesAcross(transforms, size) == (transforms + TransformsPerTile(size) - 1) \div TransformsPerTile(size)

(* The transforms of tile (x, y), as far as the surface goes.              *)
TransformsOf(s, x, y, size) ==
  {p \in (0 .. Width(s) - 1) \X (0 .. Height(s) - 1) : Tile(p[1], size) = x /\ Tile(p[2], size) = y}

(* Sum of the absolute values of the symbols of each transform. *)
SumOfSymbols(symbols) ==
  Generate(Width(symbols[0]), Height(symbols[0]),
           LAMBDA x, y : Total(Cardinality(DOMAIN symbols), LAMBDA l : Abs(symbols[l][y][x])))

(* With the sums of both passes.  The differences are unsigned: a negative *)
(* one is larger than any sum.                                             *)
TileIsIntra(intra, inter, tile) ==
  LET Intra(p) == intra[p[2]][p[1]]
      Inter(p) == inter[p[2]][p[1]]
      Accumulated(Value(_)) == LET S[t \in SUBSET tile] ==
                                     IF t = {} THEN 0
                                     ELSE LET p == CHOOSE q \in t : TRUE IN Value(p) + S[t \ {p}]
                               IN  S[tile]
      better  == Cardinality({p \in tile : Intra(p) < Inter(p)})
      nothing == Cardinality({p \in tile : Inter(p) = 0 /\ Intra(p) > 0})
      all     == Cardinality({p \in tile : Intra(p) # 0 \/ Inter(p) # 0})
      quarter == Accumulated(Inter) \div 4
      mixed   == Accumulated(LAMBDA p : Least(Intra(p), Inter(p)))
  IN  /\ (100 * better) \div (all + 1) > 38
      /\ (100 * nothing) \div (all + 1) < 20
      /\ \/ Accumulated(Intra) >= quarter /\ Accumulated(Intra) - quarter <= mixed
         \/ quarter > mixed

(* TemporalTileMap, of the sums of the two passes. *)
TemporalTileMap(intra, inter, size) ==
  Generate(TilesAcross(Width(intra), size), TilesAcross(Height(intra), size),
           LAMBDA x, y : IF TileIsIntra(intra, inter, TransformsOf(intra, x, y, size))
                           THEN TEMPORAL_INTR ELSE TEMPORAL_PRED)

TileStart(x, y, size) == x % TransformsPerTile(size) = 0 /\ y % TransformsPerTile(size) = 0

(* Only the first transform of a tile says that the tile is intra.         *)
TemporalTileIntraSignal(tiles, mask, size) ==
  Generate(Width(mask), Height(mask), LAMBDA x, y :
    IF tiles[Tile(y, size)][Tile(x, size)] = TEMPORAL_INTR THEN TEMPORAL_INTR
    ELSE IF TileStart(x, y, size) THEN TEMPORAL_PRED
    ELSE mask[y][x])

-----------------------------------------------------------------------------
(* ApplyTemporalMap: the prediction, where there is one. *)
ApplyTemporalMap(s, mask, size) ==
  Generate(Width(s), Height(s), LAMBDA x, y :
    IF mask[y \div size][x \div size] = TEMPORAL_INTR THEN 0 ELSE s[y][x])
=============================================================================
