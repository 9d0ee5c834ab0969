----------------------------- MODULE MCCategory -----------------------------
(* Small categories for TLC: a linear one, and one with the three          *)
(* dimensions of the fibre categories (two modules, two fibres).           *)
EXTENDS Category, TLC

MCShapes == {<<3>>, <<2, 1, 2>>}
MCLinear == {<<3>>}

(* All locators of the linear category, three of the four of the other.    *)
MCLocators ==
  {<<n>> : n \in 0 .. 2} \cup {<<0, 0, 1>>, <<1, 0, 0>>, <<1, 0, 1>>}

(* The objects are only compared with each other.                          *)
Symmetry == Permutations(Objects)
=============================================================================
