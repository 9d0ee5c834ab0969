----------------------------- MODULE CategoryIds -----------------------------
(***************************************************************************)
(* The categories of the framework: SCategory::Cat and their positions,    *)
(* which are not dense (lib/base/datastruct/SCategory.h).                  *)
(***************************************************************************)
EXTENDS Naturals

Position ==
  [GeantTrack |-> 0, GeantFibersRaw |-> 1, DDSamples |-> 10,
   FibersRaw |-> 20, FibersCal |-> 21, FibersHit |-> 22, FibersClus |-> 23]

Cats == DOMAIN Position
=============================================================================
