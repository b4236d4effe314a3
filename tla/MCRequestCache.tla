--------------------------- MODULE MCRequestCache ---------------------------
(***************************************************************************)
(* Model checking of RequestCache.                                         *)
(***************************************************************************)
EXTENDS RequestCache, TLC

Symmetry == Permutations(Handlers)
=============================================================================
