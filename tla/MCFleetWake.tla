---------------------------- MODULE MCFleetWake ----------------------------
(***************************************************************************)
(* Model checking of FleetWake: an orchestrator that watches two captains' *)
(* tiles, and a captain that owns a crew tile.                             *)
(***************************************************************************)
EXTENDS FleetWake

CONSTANTS cortana, captain, crew

\* The captain belongs to nobody; the crew session is the captain's.
CrewOwner == [t \in Tiles |-> IF t = crew THEN captain ELSE Nil]

\* Cortana watches the captains (WatchScope::Captains), a captain nobody by scope.
CaptainScope == [o \in Orchestrators |-> IF o = cortana THEN Captains ELSE {}]
=============================================================================
