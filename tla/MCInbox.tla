------------------------------ MODULE MCInbox ------------------------------
(***************************************************************************)
(* Model checking of Inbox.                                                *)
(***************************************************************************)
EXTENDS Inbox, TLC

Symmetry == Permutations(Recipients)
=============================================================================
