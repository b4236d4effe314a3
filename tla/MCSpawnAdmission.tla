--------------------------- MODULE MCSpawnAdmission --------------------------
(* SpawnAdmission on small sets of terminals and threads. *)
EXTENDS SpawnAdmission, TLC

(* one session is kept for Cortana and one for the recovery of agents *)
MCReserve == [cortana |-> 1, recovery |-> 1]

Symmetry == Permutations(Terminals) \cup Permutations(Threads)
=============================================================================
