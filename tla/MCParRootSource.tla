-------------------------- MODULE MCParRootSource --------------------------
(* Lists of up to three versions, overlapping, with gaps or out of order.  *)
EXTENDS ParRootSource
=============================================================================
