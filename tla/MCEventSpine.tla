---------------------------- MODULE MCEventSpine ----------------------------
(***************************************************************************)
(* Model checking of EventSpine.                                           *)
(***************************************************************************)
EXTENDS EventSpine
=============================================================================
