--------------------------- MODULE MCTemporalLoop ---------------------------
(* Small instances of TemporalLoop for TLC. *)
EXTENDS TemporalLoop

(* Two symbols; the second makes a residual that the step widths tell      *)
(* apart, and that wraps.                                                  *)
SmallRecon ==
  [s \in {"zero", "some"} |->
     IF s = "zero" THEN [w \in StepWidths |-> 0]
                   ELSE [w \in StepWidths |-> IF w = "plain" THEN 2 ELSE 1]]

(* A picture without enhancement can carry a temporal layer unless it is   *)
(* tiled.  The multipliers of inter pictures matter where the next picture *)
(* looks at the width, and the width is not at its maximum already.        *)
Carried ==
  {c \in ConfigurationTypes :
     /\ c.tiled => ~c.no_enhancement_layer
     /\ c.inter_scaled => c.level1_max /\ ~c.level2_max}

(* Tiled, with a temporal layer wanted for pictures without enhancement.   *)
TiledLayer ==
  {c \in ConfigurationTypes :
     /\ c.tiled /\ c.no_enhancement_layer /\ c.temporal
     /\ c.level1_max /\ c.level2_max /\ ~c.inter_scaled}
=============================================================================
