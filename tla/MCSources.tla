------------------------------ MODULE MCSources ------------------------------
(* Two fibres.  Channel 0 is that of the single-channel boards, 1 and 2    *)
(* are the sides of one fibre, 3 is not in the lookup table.               *)
EXTENDS MCLineSource, Sources

MCLookup ==
  [c \in 0 .. 3 |->
     CASE c = 0 -> [fiber |-> 1, side |-> "l"]
       [] c = 1 -> [fiber |-> 0, side |-> "l"]
       [] c = 2 -> [fiber |-> 0, side |-> "r"]
       [] c = 3 -> None]

Rec(channel, number, lit, located) ==
  [channel |-> channel, hits |-> number, lit |-> lit, located |-> located]

MCContents ==
  [k \in Kinds |->
     CASE k \in {"TTree", "TP"} -> {Rec(c, 1, {}, {}) : c \in 1 .. 3}
       [] k = "HLD" -> {Rec(0, h, {}, {}) : h \in 0 .. 2}
       [] k = "DR" -> {Rec(0, 1, {}, {0, 1}), Rec(0, 1, {1}, {0}), Rec(0, 1, {0, 1, 3}, {1})}
       [] OTHER -> {Rec(0, 1, {}, {})}]
MCSizes == [k \in Kinds |-> IF k \in {"DD", "KS"} THEN {0, 1, 2, 4, 5} ELSE 0 .. 2]
=============================================================================
