----------------------------- MODULE Conversion -----------------------------
(***************************************************************************)
(* Conversion of samples between the depths of the pictures and the        *)
(* internal format (decoder/src/Convert.cpp): 15 bits around zero, so that *)
(* a sample of d bits is shifted by 15 - d and lowered by 0x4000.          *)
(***************************************************************************)
EXTENDS Surfaces

Mapped(s, Pel(_)) == Generate(Width(s), Height(s), LAMBDA x, y : Pel(s[y][x]))

Middle == 2^14

FromU8(s, shift) == Mapped(s, LAMBDA v : v * 2^shift - Middle)
FromU16(s, shift) == Mapped(s, LAMBDA v : Int16(v * 2^shift - Middle))

(* Rounded, and clamped to the samples of the depth. *)
ToU8(s, shift) ==
  Mapped(s, LAMBDA v : Clamp((v + Middle + (2^shift \div 2)) \div 2^shift, 0, 255))
ToU16(s, shift) ==
  Mapped(s, LAMBDA v : Clamp((v + Middle + (2^shift \div 2)) \div 2^shift, 0, 32767 \div 2^shift))

(* Depths 8, 10, 12 and 14; samples of 16 bits are in the internal format. *)
ConvertToInternal(s, depth) ==
  IF depth = 16 THEN s
  ELSE IF depth = 8 THEN FromU8(s, 7) ELSE FromU16(s, 15 - depth)

ConvertFromInternal(s, depth) ==
  IF depth = 16 THEN s
  ELSE IF depth = 8 THEN ToU8(s, 7) ELSE ToU16(s, 15 - depth)

-----------------------------------------------------------------------------
(* Between two depths, without rounding. *)
LeftShiftFromU8(s, shift) == Mapped(s, LAMBDA v : v * 2^shift)
LeftShiftFromU16(s, shift) == Mapped(s, LAMBDA v : (v * 2^shift) % 65536)
RightShiftToU8(s, shift) == Mapped(s, LAMBDA v : (v \div 2^shift) % 256)
RightShiftToU16(s, shift) == Mapped(s, LAMBDA v : v \div 2^shift)

ConvertBitShift(s, from, to) ==
  IF from = to THEN s
  ELSE IF to > from
    THEN IF from = 8 THEN LeftShiftFromU8(s, to - from) ELSE LeftShiftFromU16(s, to - from)
    ELSE IF to = 8 THEN RightShiftToU8(s, from - to) ELSE RightShiftToU16(s, from - to)
=============================================================================
