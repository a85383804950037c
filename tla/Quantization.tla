---------------------------- MODULE Quantization ----------------------------
(***************************************************************************)
(* Quantisation of coefficients (encoder/src/Quantize.cpp), dequantisation *)
(* (decoder/src/InverseQuantize.cpp, and inlined in Decoder.cpp), the step *)
(* widths of both, and the user data that is mixed into one layer.         *)
(*                                                                         *)
(* A product of three 16-bit numbers is computed by its upper half, so     *)
(* that no intermediate value leaves 32 bits.                              *)
(***************************************************************************)
EXTENDS Surfaces, Sequences

CONSTANTS Limit,     \* 8192: a symbol is in -Limit .. Limit - 1
          Logarithm, \* Logarithm[n] is Cconst * log(n), rounded down
          TileSize   \* 32: pels of a tile of the temporal mask

ASSUME LimitAssumption == Limit \in Nat \ {0}
ASSUME LogarithmAssumption == \A n \in DOMAIN Logarithm : n \in 1 .. 32767 /\ Logarithm[n] \in Nat
ASSUME TileSizeAssumption == TileSize \in Nat \ {0} /\ TileSize % 4 = 0

MIN_STEP_WIDTH == 1
MAX_STEP_WIDTH == 32767
Aconst == 39
Bconst == 126484
Dconst == 99614

StepWidth(v) == Clamp(v, MIN_STEP_WIDTH, MAX_STEP_WIDTH)

(* (a * b) >> 16 *)
UpperHalf(a, b) == (a \div 65536) * b + (((a % 65536) * b) \div 65536)

(* Elements of a temporal mask. *)
TEMPORAL_PRED == 0
TEMPORAL_INTR == 1

-----------------------------------------------------------------------------
(* Step widths.  offset is the dequantisation offset of a picture.         *)

Offsets == [signalled : BOOLEAN, mode : {"Default", "ConstOffset"}, value : 0 .. 127]

find_dirq_step_width(orig, coefficient) ==
  StepWidth(UpperHalf(Clamp(coefficient * orig + 65536, 0, 3 * 65536), orig))

find_layer_deadzone(orig, step) ==
  IF orig > 16 THEN UpperHalf(65536 - ((Aconst * step + Bconst) \div 2), step) ELSE orig \div 2

find_invq_offset(offset, orig, dirq) ==
  IF ~offset.signalled \/ offset.value = 0 THEN 0
  ELSE UpperHalf(Logarithm[orig] - Logarithm[dirq]
                   + offset.value * (IF offset.mode = "ConstOffset" THEN 512 ELSE 2048),
                 dirq)

(* Dconst less the logarithm, rounded down. *)
Logarithmic(dirq) == Dconst - Logarithm[dirq] - (IF dirq = 1 THEN 0 ELSE 1)

find_invq_step_width(offset, dirq, invq_offset) ==
  CASE ~offset.signalled -> StepWidth(dirq + (UpperHalf(Logarithmic(dirq) * dirq, dirq) \div 32768))
    [] offset.signalled /\ offset.mode = "ConstOffset" -> dirq
    [] offset.signalled /\ offset.mode = "Default" ->
         StepWidth(dirq + ((invq_offset * dirq) \div 32768))

find_invq_applied_offset(offset, invq_offset, deadzone) ==
  IF offset.signalled /\ offset.mode = "ConstOffset" THEN invq_offset - deadzone ELSE -deadzone

(* temporal_step_width_modifier: a share of 255, at most a half. *)
ModifiedStepWidth(step, modifier) ==
  StepWidth(IF modifier > 127 THEN step \div 2 ELSE (step * (255 - modifier)) \div 255)

(* The chroma planes of sub-layer 2 have a multiple of the step width.     *)
ChromaStepWidth(step, multiplier) == StepWidth(Int16((step * multiplier) \div 64))

(* The step widths of a pass, by Temporal_SWM: the first for blocks that   *)
(* are predicted, the second for others, if there is a second one.         *)
StepWidths(step, modifier, swm) ==
  CASE swm = "Disabled"  -> <<step>>
    [] swm = "Active"    -> <<ModifiedStepWidth(step, modifier)>>
    [] swm = "Dependent" -> <<ModifiedStepWidth(step, modifier), step>>

Quantiser(orig, coefficient) ==
  LET dirq == find_dirq_step_width(orig, coefficient)
  IN  [step |-> dirq, deadzone |-> find_layer_deadzone(orig, dirq)]

Dequantiser(offset, orig, coefficient) ==
  LET dirq == find_dirq_step_width(orig, coefficient)
      invq_offset == find_invq_offset(offset, orig, dirq)
      step == find_invq_step_width(offset, dirq, invq_offset)
  IN  [step |-> step,
       offset |-> find_invq_applied_offset(offset, invq_offset, find_layer_deadzone(orig, step))]

-----------------------------------------------------------------------------
(* Quantisation.                                                           *)

Steps(v, deadzone, step) == Greatest(0, Quotient(Abs(v) + deadzone, step))

Symbol16(v) == Clamp(Int16(v), -Limit, Limit - 1)

(* Motion-adaptive: in a still block the deadzone decides only in part     *)
(* whether a coefficient reaches the first step.                           *)
QuantisedPel(v, q, still, threshold) ==
  LET first(deadzone) == Least(1, Steps(v, deadzone, q.step))
      reduced == Quotient(threshold * q.deadzone, 5)
  IN  Symbol16(Sign(v) * (Steps(v, q.deadzone, q.step)
                            + (IF still THEN first(reduced) - first(q.deadzone) ELSE 0)))

(* sad is the cost of each block against the next picture, or <<>>.        *)
StillBlock(sad, x, y, size, threshold) ==
  sad # <<>> /\ threshold # 5 /\ sad[y][x] <= (IF size = 4 THEN 200 ELSE 100)

Quantize(s, q, sad, size, threshold) ==
  Generate(Width(s), Height(s), LAMBDA x, y :
    QuantisedPel(s[y][x], q[1], StillBlock(sad, x, y, size, threshold), threshold))

(* The first transform of a tile decides for all of them.                  *)
TileOrigin(x, size) == (x \div (TileSize \div size)) * (TileSize \div size)

Quantize_SWM(s, q, mask, sad, size, threshold) ==
  Generate(Width(s), Height(s), LAMBDA x, y :
    QuantisedPel(s[y][x],
                 q[IF mask[TileOrigin(y, size)][TileOrigin(x, size)] = TEMPORAL_PRED THEN 1 ELSE 2],
                 StillBlock(sad, x, y, size, threshold), threshold))

-----------------------------------------------------------------------------
(* Dequantisation in the encoder: without a mask the result wraps, and is  *)
(* clamped when it is too late; with a mask it is clamped.                 *)

Dequantised(v, q) == v * q.step + Sign(v) * q.offset

InverseQuantize(s, q) ==
  Generate(Width(s), Height(s), LAMBDA x, y : Int16(Dequantised(s[y][x], q[1])))

(* Here every transform has its own element of the mask.                   *)
StepOf(mask, x, y) == IF mask[y][x] = TEMPORAL_PRED THEN 1 ELSE 2

InverseQuantize_SWM(s, q, mask) ==
  Generate(Width(s), Height(s), LAMBDA x, y :
    ClampInt16(Dequantised(s[y][x], q[StepOf(mask, x, y)])))

(* Dequantisation in the decoder, in place.                                *)
DequantizeInPlace(s, q, mask) ==
  Generate(Width(s), Height(s), LAMBDA x, y :
    ClampInt16(Dequantised(s[y][x], q[IF Len(q) = 1 THEN 1 ELSE StepOf(mask, x, y)])))

-----------------------------------------------------------------------------
(* User data: the lowest bits of a symbol, its sign above them.            *)

UserDataInsert(s, bits, data) ==
  Generate(Width(s), Height(s), LAMBDA x, y :
    Least(Abs(s[y][x]), (Limit - 1) \div 2^(bits + 1)) * 2^(bits + 1)
      + (IF s[y][x] < 0 THEN 2^bits ELSE 0) + data[y][x])

WithoutUserData(v, bits) ==
  LET value == (v % 65536) \div 2^bits
  IN  (IF value % 2 = 1 THEN -1 ELSE 1) * (value \div 2)

UserDataClear(s, bits) ==
  Generate(Width(s), Height(s), LAMBDA x, y : WithoutUserData(s[y][x], bits))
=============================================================================
