------------------------------ MODULE AuditTrail ------------------------------
(***************************************************************************)
(* What the audit sink promises its callers (src-tauri/src/audit.rs): the  *)
(* trail of each file only ever grows, by one record at a time, and a call *)
(* that is told its record is anchored finds it last in the trail, where   *)
(* it stays.  A record may enter the trail and its call be refused: then   *)
(* nothing was executed.                                                   *)
(***************************************************************************)
EXTENDS Sequences

CONSTANTS Records, Files

VARIABLES
  trail,   \* file -> its records
  allowed  \* the records whose calls were told so

Init == trail = [f \in Files |-> << >>] /\ allowed = {}

Recorded == UNION {{trail[f][i] : i \in DOMAIN trail[f]} : f \in Files}

Enter(r, f) ==
  /\ r \notin Recorded
  /\ trail' = [trail EXCEPT ![f] = Append(@, r)]
  /\ UNCHANGED allowed

Allow(r) ==
  /\ \E f \in Files : trail[f] # << >> /\ trail[f][Len(trail[f])] = r
  /\ allowed' = allowed \cup {r}
  /\ UNCHANGED trail

Next == \E r \in Records : Allow(r) \/ \E f \in Files : Enter(r, f)

Spec == Init /\ [][Next]_<<trail, allowed>>
=============================================================================
