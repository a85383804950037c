--------------------------- MODULE MCResidualCoding ---------------------------
(***************************************************************************)
(* Small instances of ResidualCoding for TLC, and the surfaces of          *)
(* MCEntropyCoder.  Symbols have three bits, tiles and the blocks of the   *)
(* priority map are of 4x4 pels, user data have one bit; steps, samples    *)
(* and the internal format are those of the code.                          *)
(***************************************************************************)
EXTENDS ResidualCoding, MCEntropyCoder, TLC

(* floor(5242 * ln n) for the step widths that occur.                      *)
LogarithmTable ==
  32 :> 18167 @@ 48 :> 20292 @@ 49 :> 20400 @@ 51 :> 20610 @@ 52 :> 20712 @@ 64 :> 21800 @@
  66 :> 21962 @@ 73 :> 22490 @@ 75 :> 22632 @@ 76 :> 22701 @@ 77 :> 22770 @@ 78 :> 22837 @@
  79 :> 22904 @@ 80 :> 22970 @@ 96 :> 23926 @@ 97 :> 23980 @@ 100 :> 24140 @@ 102 :> 24244 @@
  103 :> 24295 @@ 107 :> 24494 @@ 117 :> 24963 @@ 119 :> 25052 @@ 123 :> 25225 @@ 153 :> 26369 @@
  154 :> 26403 @@ 157 :> 26504 @@ 164 :> 26733 @@ 200 :> 27773 @@ 201 :> 27799 @@ 207 :> 27954 @@
  219 :> 28249 @@ 300 :> 29899 @@ 304 :> 29968 @@ 305 :> 29985 @@ 309 :> 30054 @@ 316 :> 30171 @@
  320 :> 30237 @@ 322 :> 30270 @@ 324 :> 30302 @@ 338 :> 30524 @@ 343 :> 30601 @@ 350 :> 30707 @@
  355 :> 30781 @@ 370 :> 30998 @@ 372 :> 31026 @@ 400 :> 31407 @@ 407 :> 31498 @@ 409 :> 31523 @@
  420 :> 31663 @@ 428 :> 31761 @@ 429 :> 31774 @@ 452 :> 32047 @@ 458 :> 32117 @@ 467 :> 32219 @@
  478 :> 32341 @@ 480 :> 32362 @@ 489 :> 32460 @@ 490 :> 32471 @@ 496 :> 32534 @@ 499 :> 32566 @@
  506 :> 32639 @@ 522 :> 32802 @@ 525 :> 32832 @@ 532 :> 32902 @@ 535 :> 32931 @@ 537 :> 32951 @@
  548 :> 33057 @@ 560 :> 33171 @@ 574 :> 33300 @@ 575 :> 33309 @@ 587 :> 33417 @@ 592 :> 33462 @@
  600 :> 33532 @@ 605 :> 33576 @@ 616 :> 33670 @@ 617 :> 33679 @@ 640 :> 33871 @@ 642 :> 33887 @@
  658 :> 34016 @@ 659 :> 34024 @@ 665 :> 34071 @@ 674 :> 34142 @@ 700 :> 34340 @@ 713 :> 34437 @@
  715 :> 34451 @@ 717 :> 34466 @@ 722 :> 34502 @@ 734 :> 34589 @@ 758 :> 34758 @@ 775 :> 34874 @@
  789 :> 34968 @@ 802 :> 35053 @@ 831 :> 35240 @@ 832 :> 35246 @@ 840 :> 35296 @@ 856 :> 35395 @@
  872 :> 35492 @@ 889 :> 35593 @@ 900 :> 35658 @@ 917 :> 35756 @@ 919 :> 35767 @@ 937 :> 35869 @@
  939 :> 35880 @@ 955 :> 35969 @@ 960 :> 35996 @@ 969 :> 36045 @@ 990 :> 36157 @@ 997 :> 36194 @@
  1002 :> 36220 @@ 1048 :> 36456 @@ 1050 :> 36466 @@ 1070 :> 36565 @@ 1100 :> 36710 @@ 1116 :> 36785 @@
  1120 :> 36804 @@ 1128 :> 36841 @@ 1177 :> 37064 @@ 1184 :> 37095 @@ 1200 :> 37166 @@ 1213 :> 37222 @@
  1251 :> 37384 @@ 1265 :> 37442 @@ 1284 :> 37520 @@ 1295 :> 37565 @@ 1327 :> 37693 @@ 1349 :> 37779 @@
  1359 :> 37818 @@ 1376 :> 37883 @@ 1410 :> 38011 @@ 1440 :> 38121 @@ 1462 :> 38201 @@ 1463 :> 38204 @@
  1468 :> 38222 @@ 1534 :> 38453 @@ 1566 :> 38561 @@ 1585 :> 38624 @@ 1588 :> 38634 @@ 1680 :> 38929 @@
  1722 :> 39059 @@ 1732 :> 39089 @@ 1800 :> 39291 @@ 1809 :> 39317 @@ 1819 :> 39346 @@ 1862 :> 39469 @@
  1903 :> 39583 @@ 1920 :> 39629 @@ 1948 :> 39705 @@ 2088 :> 40069 @@ 2089 :> 40072 @@ 2196 :> 40334 @@
  2202 :> 40348 @@ 2300 :> 40576 @@ 2393 :> 40784 @@ 2423 :> 40849 @@ 2452 :> 40912 @@ 2520 :> 41055 @@
  2595 :> 41209 @@ 2880 :> 41755 @@ 3058 :> 42069 @@ 3089 :> 42122 @@ 3259 :> 42403 @@ 3382 :> 42597 @@
  3720 :> 43096 @@ 4398 :> 43974 @@ 4569 :> 44174 @@ 6930 :> 46358

-----------------------------------------------------------------------------
(* Sources: every kind of block, and a picture that differs from it in     *)
(* some blocks.                                                            *)
Kinds(x, y) ==
  CASE x % 8 < 4 /\ y % 8 < 4   -> 180
    [] x % 8 >= 4 /\ y % 8 < 4  -> IF x % 8 < 6 THEN 165 ELSE 205
    [] x % 8 < 4 /\ y % 8 >= 4  -> 180 + 12 * ((x + y) % 2)
    [] x % 8 >= 4 /\ y % 8 >= 4 -> 170 + 60 * ((x + y) % 2)

Moved(x, y) == Kinds(x, y) + (IF x >= 4 THEN 5 * (y % 3) - 12 * (x % 2) ELSE 0)

Slope(x, y) == 90 + 7 * x + 4 * y + 9 * ((x * y) % 3)

Chequers(x, y) == 170 + 60 * ((x + y) % 2)

Kinds8 == Generate(8, 8, Kinds)
Moved8 == Generate(8, 8, Moved)
Slope8 == Generate(8, 8, Slope)

Deeper(s) == Generate(Width(s), Height(s), LAMBDA x, y : 4 * s[y][x] + ((x + 2 * y) % 4))

(* A group of pictures: the first one is intra.                            *)
Shot(pels, intra, enhanced, error) ==
  [source |-> pels, intra |-> intra, enhanced |-> enhanced, error |-> error]
Group(first, second) == <<Shot(first, TRUE, TRUE, 3), Shot(second, FALSE, TRUE, -2)>>
One(pels) == <<Shot(pels, TRUE, TRUE, 2)>>

Plain2x2 ==
  [plane |-> 0, size |-> 2, scaling |-> <<"None", "2D">>, width |-> 8, height |-> 8,
   base_depth |-> 8, enhancement_depth |-> 8, level1_depth_flag |-> FALSE,
   upsample |-> "Linear", upsampling_coefficients |-> <<1382, 14285, 3942, 461>>, downsample |-> "Area",
   predicted_residual |-> FALSE, step |-> <<1200, 700>>, temporal |-> FALSE,
   temporal_cq_sw_multiplier |-> 1000, delta_sw_mult |-> (1 :> 1000 @@ 2 :> 1000 @@ 4 :> 1000 @@ 8 :> 1000),
   chroma_multiplier |-> 64, temporal_step_width_modifier |-> 60,
   matrix |-> <<<<0, 3, 12, 32>>, <<0, 12, 3, 32>>>>,
   dequant_offset |-> [signalled |-> FALSE, mode |-> "Default", value |-> 0],
   filter |-> <<>>, user_data |-> [bits |-> 0, method |-> "Zeros"],
   encoding_mode |-> "ENCODE_ALL", priority_sl_1 |-> FALSE, priority_sl_2 |-> FALSE,
   priority_type_sl_1 |-> "Edge", priority_type_sl_2 |-> "SmoothAndPlain",
   sad_threshold |-> 0, sad_coeff_threshold |-> 0, quant_reduced_deadzone |-> 5,
   tile_signalling |-> FALSE, no_enhancement_temporal_layer |-> FALSE, dither |-> <<>>,
   pictures |-> One(Slope8)]

Plain4x4 ==
  [Plain2x2 EXCEPT !.size = 4,
                   !.matrix = <<[l \in 1 .. 16 |-> <<0, 3, 12, 32>>[(l % 4) + 1]],
                                [l \in 1 .. 16 |-> <<0, 12>>[(l % 2) + 1]]>>]

Basic == {Plain2x2, Plain4x4}
Temporal == {[c EXCEPT !.temporal = TRUE, !.pictures = Group(Kinds8, Moved8)] : c \in Basic}

Scalings ==
  {[c EXCEPT !.scaling = <<"2D", "None">>] : c \in Basic}
  \cup {[c EXCEPT !.scaling = <<"None", "1D">>, !.height = 4, !.pictures = One(Generate(8, 4, Chequers))] :
          c \in Basic}
  \cup {[c EXCEPT !.scaling = <<"1D", "None">>, !.height = 4, !.pictures = One(Generate(8, 4, Slope))] :
          c \in Basic}
  \cup {[c EXCEPT !.scaling = <<"1D", "1D">>, !.width = 16, !.height = 4,
                  !.pictures = One(Generate(16, 4, Kinds))] : c \in Basic}

Kernels ==
  {[Plain2x2 EXCEPT !.upsample = u, !.predicted_residual = p, !.downsample = d, !.pictures = One(Kinds8)] :
     <<u, p, d>> \in {<<"Nearest", FALSE, "Lanczos">>, <<"Cubic", TRUE, "Lanczos3">>,
                      <<"ModifiedCubic", TRUE, "Area">>, <<"AdaptiveCubic", FALSE, "Lanczos">>}}
  \cup {[Plain2x2 EXCEPT !.scaling = <<"1D", "None">>, !.height = 4, !.predicted_residual = TRUE,
                         !.pictures = One(Generate(8, 4, Moved))]}

Depths ==
  {[Plain2x2 EXCEPT !.enhancement_depth = 10, !.level1_depth_flag = f, !.scaling = s,
                    !.pictures = One(Deeper(Slope8))] :
     f \in BOOLEAN, s \in {<<"None", "2D">>, <<"2D", "None">>}}

DequantOffsets ==
  {[Plain2x2 EXCEPT !.dequant_offset = [signalled |-> TRUE, mode |-> m, value |-> v],
                    !.pictures = One(Moved8)] :
     <<m, v>> \in {<<"ConstOffset", 0>>, <<"ConstOffset", 3>>, <<"Default", 0>>, <<"Default", 2>>}}

Level1 ==
  {[Plain4x4 EXCEPT !.filter = <<5, 2>>, !.pictures = One(Kinds8)]}
  \cup {[c EXCEPT !.user_data = [bits |-> 1, method |-> m], !.pictures = One(Kinds8)] :
          c \in Basic, m \in {"Zeros", "Ones", "Random"}}
  \cup {[c EXCEPT !.scaling = <<"None", "None">>, !.priority_sl_1 = TRUE, !.encoding_mode = m,
                  !.priority_type_sl_1 = p, !.step = <<400, 700>>, !.pictures = One(Kinds8)] :
          c \in Basic, <<m, p>> \in {<<"Ax", "SmoothAndPlain">>, <<"AA", "CoarseAndPlain">>,
                                     <<"NA", "Edge">>, <<"ENCODE_ALL", "Smooth">>}}

(* What the encoder gives up where the picture moves.                      *)
Selections ==
  {[c EXCEPT !.priority_sl_2 = TRUE, !.priority_type_sl_2 = p, !.temporal = t,
             !.pictures = Group(Kinds8, Moved8)] :
     c \in Basic, <<p, t>> \in {<<"SmoothAndPlain", FALSE>>, <<"CoarseAndPlain", TRUE>>}}
  \cup {[c EXCEPT !.sad_threshold = 1000, !.sad_coeff_threshold = 1, !.pictures = Group(Moved8, Kinds8)] :
          c \in Basic}
  \cup {[c EXCEPT !.quant_reduced_deadzone = 1, !.pictures = Group(Kinds8, Moved8)] : c \in Basic}

Predictions ==
  Temporal
  \cup {[c EXCEPT !.tile_signalling = TRUE, !.temporal_step_width_modifier = 200,
                  !.temporal_cq_sw_multiplier = 600, !.delta_sw_mult[1] = 1600] : c \in Temporal}
  \cup {[c EXCEPT !.plane = 1, !.chroma_multiplier = 96] : c \in Temporal}
  \cup {[c EXCEPT !.pictures = <<Shot(Kinds8, TRUE, TRUE, 3), Shot(Moved8, FALSE, FALSE, 0),
                                 Shot(Moved8, FALSE, TRUE, 0), Shot(Slope8, TRUE, FALSE, 1)>>,
                  !.no_enhancement_temporal_layer = n, !.tile_signalling = n, !.delta_sw_mult[2] = 1200] :
          c \in {d \in Temporal : d.size = 4}, n \in BOOLEAN}

Outputs ==
  {[Plain2x2 EXCEPT !.dither = <<64, -128, 0, 128, -64>>, !.pictures = One(Slope8)],
   [Plain4x4 EXCEPT !.pictures = One(Generate(7, 6, Kinds))],
   [Plain2x2 EXCEPT !.step = <<64, 64>>, !.pictures = One(Kinds8)],
   [Plain2x2 EXCEPT !.pictures = <<Shot(Kinds8, TRUE, FALSE, 3), Shot(Moved8, FALSE, TRUE, 0)>>]}

AllConfigurations ==
  Basic \cup Scalings \cup Kernels \cup Depths \cup DequantOffsets \cup Level1 \cup Selections
    \cup Predictions \cup Outputs
=============================================================================
