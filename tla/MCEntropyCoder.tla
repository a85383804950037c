--------------------------- MODULE MCEntropyCoder ---------------------------
(* Small instances of EntropyCoder for TLC: symbols of two bits and a mark, *)
(* so that residuals leave the range of one symbol at -2 and 1, sizes at 4, *)
(* and counts have two digits from 4 and three from 16 on.                  *)
EXTENDS EntropyCoder, FiniteSets

Words(values, sizes) == UNION {[1 .. n -> values] : n \in sizes}

Plain(coder, data) ==
  [coder |-> coder, data |-> data, reduced |-> FALSE, form |-> "smaller", starts |-> {1}, enabled |-> {}]

(* Tiles, which may be sent in either form.                                 *)
InBothForms(inputs) == {[i EXCEPT !.form = f] : i \in inputs, f \in {"raw", "prefix"}}

(* Long runs between two elements.                                          *)
LongRuns(values, runs) ==
  {[i \in 1 .. n + 2 |-> IF i = 1 THEN a ELSE IF i = n + 2 THEN b ELSE 0] :
     a \in values, b \in values, n \in runs}

(* Codes of one, two and three bits.                                        *)
Skewed == {<<7, 7, 7, 7, -8, -8, 1, 6>>, <<-8, 1, 7, 6, 7, -8, 7, 7, 7, 7, 0, 7>>}

ResidualInputs ==
  InBothForms({Plain("residuals", d) :
     d \in Words({-8, -1, 0, 1, 7}, 1 .. 4) \cup LongRuns({-2, 0, 1}, 3 .. 18) \cup Skewed})

(* What TemporalTileIntraSignal leaves: an intra tile is intra throughout,  *)
(* a tile of several transforms may begin PRED and go on with INTR.         *)
FirstOfTile(starts, i) == CHOOSE s \in starts : s <= i /\ \A t \in starts : t <= i => t <= s

Signalled(d, starts) == \A i \in DOMAIN d : d[FirstOfTile(starts, i)] = 1 => d[i] = 1

MaskInputs ==
  {i \in UNION {[coder : {"temporal"}, data : {d}, reduced : BOOLEAN,
                 form : {"raw", "prefix"}, starts : {s \in SUBSET (1 .. Len(d)) : 1 \in s}, enabled : {{}}] :
                  d \in Words({0, 1}, 1 .. 5)} :
     i.reduced => Signalled(i.data, i.starts)}
  \cup InBothForms({Plain("temporal", d) : d \in LongRuns({0, 1}, 3 .. 17)})

FlagInputs ==
  {Plain("flags", d) : d \in Words({0, 1}, 1 .. 5) \cup LongRuns({0, 1}, 3 .. 17)}

(* A tile has a size if and only if it has data; one tile at least has some. *)
SizeInputs(sizes) ==
  {[coder |-> c, data |-> d, reduced |-> FALSE, form |-> "smaller", starts |-> {1},
    enabled |-> {i \in DOMAIN d : d[i] # 0}] :
     c \in SizeCoders, d \in {w \in Words(sizes, 1 .. 3) : \E i \in DOMAIN w : w[i] # 0}}

AllInputs ==
  ResidualInputs \cup MaskInputs \cup FlagInputs
    \cup SizeInputs({0, 1, 2, 3, 4, 5, 15, 16, 17, 18, 31, 32, 63})

(* More bytes than 16 bits count.                                           *)
LargeSizes == SizeInputs({0, 1, 31, 32, 63, 64, 65, 97})
=============================================================================
