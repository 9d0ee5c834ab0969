----------------------------- MODULE MCParameters -----------------------------
(* No value, one value, and two of them in a line; up to five values of a  *)
(* parameter that is written are one, two and three lines.  Tables of up   *)
(* to two lines each, over two boards of two channels, with repeated       *)
(* lines, a board and a channel out of range and a fibre of three digits;  *)
(* the value 15 has more digits than are written.                          *)
EXTENDS Parameters

MCLineValues == {<<>>, <<1>>, <<2, 1>>}

LOCAL F(m, l, s) == [m |-> m, l |-> l, s |-> s]
LOCAL UpTo(max, S) == UNION {[1 .. k -> S] : k \in 0 .. max}

MCRounded == [v \in 0 .. 19 |-> IF v = 15 THEN 14 ELSE v]
LOCAL MCFibres == {F(1, 1, 12), F(2, 2, 1)}
LOCAL LookupLines == [addr : {1, 2}, chan : {1}, fibre : MCFibres, side : {"l"}]
LOCAL CalLines ==
  [fibre : MCFibres, side : {"l"}, value : {11, 15}]
    \cup [fibre : {F(2, 2, 1)}, side : {"r"}, value : {12}]
LOCAL Geometry == <<<<2, 3>>, <<1, 1>>, <<2, 2>>>>
LOCAL SetupsWith(kinds, lookups, cals, geometries) ==
  [kind : kinds, lookup : lookups, cal : cals, geometry : geometries]

LOCAL OddLines ==
  [addr : {0, 2, 3}, chan : {0, 2}, fibre : {F(1, 2, 3), F(3, 1, 120), F(4, 1, 0)}, side : {"r"}]
LOCAL OddCals == [fibre : {F(1, 2, 3), F(1, 1, 123)}, side : {"r"}, value : {11}]
LOCAL Real == {"DD", "HitFinder"}

MCSetups ==
  SetupsWith(Real, UpTo(2, LookupLines), UpTo(2, CalLines), {Geometry})
    \cup SetupsWith(Real, UpTo(1, OddLines), UpTo(1, OddCals), {Geometry})
    \cup SetupsWith({"simulation"}, {<<>>}, {<<>>}, {<<a, b, c>> : a, b \in UpTo(2, {1, 2}), c \in {<<>>, <<2, 1>>}})
=============================================================================
