----------------------------- MODULE MCPrograms -----------------------------
(* Two programs on files of up to two records, and one that reads.         *)
EXTENDS Programs

MCRequests == {-1, 1}
=============================================================================
