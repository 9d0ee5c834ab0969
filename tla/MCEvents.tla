------------------------------ MODULE MCEvents ------------------------------
(* Two fibres; the second is read on both sides, the first on one, so that *)
(* only the second can give a hit, and not in the events in which one of   *)
(* its times is 0.                                                         *)
EXTENDS MCSignals, Events

MCChannel == <<  <<2, "l">>, <<1, "r">>, <<2, "r">>  >>
MCLimits == {-1, 0, 1, 2}
MCZeroTimes == {{}, {<<2, "l", 1>>, <<2, "r", 3>>}, {<<2, "l", 2>>, <<2, "r", 2>>}}
=============================================================================
