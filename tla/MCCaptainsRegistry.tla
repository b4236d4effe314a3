------------------------- MODULE MCCaptainsRegistry -------------------------
(* CaptainsRegistry on small sets of ships and terminals. *)
EXTENDS CaptainsRegistry, TLC

Symmetry == Permutations(Ships) \cup Permutations(Tiles)
=============================================================================
