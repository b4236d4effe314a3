----------------------------- MODULE MCJournal -----------------------------
(***************************************************************************)
(* Model checking of Journal.                                              *)
(***************************************************************************)
EXTENDS Journal

Symmetry == Permutations(Identities)
=============================================================================
