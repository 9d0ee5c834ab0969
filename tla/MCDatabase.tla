----------------------------- MODULE MCDatabase -----------------------------
(* Two names.  In the framework each name is registered for one kind; in   *)
(* MCClash a name is registered for two.                                   *)
EXTENDS Database

CONSTANTS a, b

MCRegistrable == {<<"par", a>>, <<"cal", b>>}
MCClash == {<<"par", a>>, <<"cal", a>>, <<"lu", b>>}
=============================================================================
