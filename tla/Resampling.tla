----------------------------- MODULE Resampling -----------------------------
(***************************************************************************)
(* Resampling by two, and the correction of an upsampled picture by its    *)
(* average (Upsampling.cpp and PredictedResidual.cpp of the decoder,       *)
(* Downsampling.cpp of the encoder).  A picture is scaled in both          *)
(* directions ("2D"), horizontally only ("1D") or not at all ("None").     *)
(***************************************************************************)
EXTENDS Conversion, Sequences

ScalingModes == {"None", "1D", "2D"}
Upsamples == {"Nearest", "Linear", "Cubic", "ModifiedCubic", "AdaptiveCubic"}
Downsamples == {"Area", "Lanczos", "Lanczos3"}

-----------------------------------------------------------------------------
(* upsample_kernels *)
UpsampleKernels ==
  [Nearest |-> <<0, 16384, 0, 0>>,
   Linear |-> <<0, 12288, 4096, 0>>,
   Cubic |-> <<-1382, 14285, 3942, -461>>,
   ModifiedCubic |-> <<-2360, 15855, 4165, -1276>>]

(* make_kernel: the coefficients of an adaptive kernel are magnitudes.     *)
UpsampleKernel(upsample, coefficients) ==
  IF upsample = "AdaptiveCubic"
    THEN <<-coefficients[1], coefficients[2], coefficients[3], -coefficients[4]>>
    ELSE UpsampleKernels[upsample]

(* apply_kernel: sample i of 2 * size.  An even and the odd sample before  *)
(* it use the same four samples, in opposite orders.                       *)
UpsampledPel(i, size, kernel, samples) ==
  Int16((8192 + Total(4, LAMBDA k :
           kernel[IF i % 2 = 1 THEN k + 1 ELSE 4 - k]
             * samples[Clamp(((i - 1) \div 2) + k - 1, 0, size - 1)])) \div 16384)

Column(s, x) == [y \in DOMAIN s |-> s[y][x]]

(* Upsampling_1D *)
UpsampleColumns(s, kernel) ==
  Generate(2 * Width(s), Height(s),
           LAMBDA x, y : UpsampledPel(x, Width(s), kernel, s[y]))

UpsampleRows(s, kernel) ==
  Generate(Width(s), 2 * Height(s),
           LAMBDA x, y : UpsampledPel(y, Height(s), kernel, Column(s, x)))

(* Upsampling: vertically, then horizontally. *)
UpsampleBoth(s, kernel) == UpsampleColumns(UpsampleRows(s, kernel), kernel)

Upsample(s, mode, kernel) ==
  CASE mode = "1D" -> UpsampleColumns(s, kernel)
    [] mode = "2D" -> UpsampleBoth(s, kernel)
    [] mode = "None" -> s

-----------------------------------------------------------------------------
(* PredictedResidualSum: of the pels (two or four) made from one base pel. *)
Sum2D(s, x, y) == s[2 * y][2 * x] + s[2 * y][2 * x + 1] + s[2 * y + 1][2 * x] + s[2 * y + 1][2 * x + 1]
Sum1D(s, x, y) == s[y][2 * x] + s[y][2 * x + 1]

(* PredictedResidualAdjust: "adjusted 2x2 upsampled layer that averages to *)
(* the base layer".                                                        *)
Adjust2D(base, s) ==
  Generate(Width(s), Height(s), LAMBDA x, y :
    Clamp(s[y][x] + base[y \div 2][x \div 2] - ((Sum2D(s, x \div 2, y \div 2) + 2) \div 4),
          -32767, 32767))

Adjust1D(base, s) ==
  Generate(Width(s), Height(s), LAMBDA x, y :
    Clamp(s[y][x] + base[y][x \div 2] - ((Sum1D(s, x \div 2, y) + 1) \div 2), -32767, 32767))

Adjust(base, s, mode) ==
  CASE mode = "1D" -> Adjust1D(base, s)
    [] mode = "2D" -> Adjust2D(base, s)
    [] mode = "None" -> s

-----------------------------------------------------------------------------
(* downsample_kernels *)
DownsampleKernels ==
  [Area |-> [offset |-> 0, taps |-> <<8192, 8192>>],
   Lanczos |-> [offset |-> -3, taps |-> <<-383, -399, 2466, 6506, 6506, 2466, -399, -383>>],
   Lanczos3 |-> [offset |-> -5, taps |-> <<60, 247, -557, -1092, 2220, 7314,
                                           7314, 2220, -1092, -557, 247, 60>>]]

(* apply_kernel, to size samples. *)
DownsampledPel(i, size, kernel, samples) ==
  ClampInt16((8192 + Total(Len(kernel.taps), LAMBDA k :
     kernel.taps[k + 1] * samples[Clamp(2 * i + k + kernel.offset, 0, 2 * size - 1)])) \div 16384)

DownsampleColumns(s, kernel) ==
  Generate((Width(s) + 1) \div 2, Height(s), LAMBDA x, y :
    DownsampledPel(x, (Width(s) + 1) \div 2, kernel, s[y]))

DownsampleRows(s, kernel) ==
  Generate(Width(s), (Height(s) + 1) \div 2, LAMBDA x, y :
    DownsampledPel(y, (Height(s) + 1) \div 2, kernel, Column(s, x)))

(* Downsampling: horizontally, then vertically. *)
DownsampleBoth(s, kernel) == DownsampleRows(DownsampleColumns(s, kernel), kernel)

(* DownsampleImage, of one plane; without scaling samples are shifted to   *)
(* their new depth and not rounded.                                        *)
DownsampleImage(s, from, to, mode, kernel) ==
  CASE mode = "None" -> ConvertBitShift(s, from, to)
    [] mode = "1D" -> ConvertFromInternal(DownsampleColumns(ConvertToInternal(s, from), kernel), to)
    [] mode = "2D" -> ConvertFromInternal(DownsampleBoth(ConvertToInternal(s, from), kernel), to)
=============================================================================
