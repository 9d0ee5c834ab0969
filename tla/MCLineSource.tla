---------------------------- MODULE MCLineSource ----------------------------
(* Means of 2, 7, 12 and 25 ns: 12 is at the edge of the window around 2,  *)
(* and inside the window around 7.                                         *)
EXTENDS LineSource

MCTimes == {<<1, 3>>, <<8, 6>>, <<11, 13>>, <<25, 25>>}
=============================================================================
