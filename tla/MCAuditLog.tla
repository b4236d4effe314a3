------------------------------ MODULE MCAuditLog ------------------------------
(* AuditLog on a few records, days and segments. *)
EXTENDS AuditLog, TLC

Symmetry == Permutations(Records)
=============================================================================
