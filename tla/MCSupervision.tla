---------------------------- MODULE MCSupervision ----------------------------
(* Supervision on small sets of sessions and subagents. *)
EXTENDS Supervision, TLC

Symmetry == Permutations(Sessions) \cup Permutations(Agents)
=============================================================================
