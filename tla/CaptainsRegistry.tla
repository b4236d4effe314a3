-------------------------- MODULE CaptainsRegistry --------------------------
(***************************************************************************)
(* The durable registry of ships: which terminal captains a ship, which    *)
(* crew tiles belong to it, and the Fleet operations that were begun and   *)
(* not finished (control/captains_registry.rs), with the handlers that     *)
(* claim, commission, release, spawn and close around it                   *)
(* (control/handlers_captains.rs, handlers_terminal.rs, handlers_spawn.rs, *)
(* commands.rs) and what a restart does (lib.rs).                          *)
(*                                                                         *)
(* commit_mutation validates, persists and only then publishes a candidate *)
(* under one lock: the registry in memory and the file are one value here, *)
(* and a failed write leaves it as it was.  Terminal ids are never used    *)
(* again, so a tile that died stays dead.                                  *)
(***************************************************************************)
EXTENDS Naturals, FiniteSets

CONSTANTS Ships, Tiles,
          Closers,    \* connections and webview calls that end a terminal
          Nil,
          Races,      \* windows of the code that are open: see README
          MaxFaults,  \* failed writes of the registry
          MaxEnds,    \* releases, closes, kills and deaths of sessions
          MaxCrashes

ClaimStates == {"Active", "Orphaned", "Vacant"}
CrewStates == {"none", "Active", "Orphaned", "Removed"}
Record == [term : Tiles \cup {Nil}, state : ClaimStates, bound : BOOLEAN,
           crew : [Tiles -> CrewStates]]

ASSUME CaptainsAssumption ==
  /\ IsFiniteSet(Ships) /\ IsFiniteSet(Tiles)
  /\ Nil \notin Ships \cup Tiles \cup Record \cup ((Tiles \cup {Nil}) \X ClaimStates \X BOOLEAN)
  /\ Races \subseteq {"close", "claim"}
  /\ MaxFaults \in Nat /\ MaxEnds \in Nat /\ MaxCrashes \in Nat

VARIABLES
  captains,  \* ship -> its FleetIdentity, or Nil
  ops,       \* pending_fleet_operations
  excluded,  \* workspace_projection_exclusions, in memory only
  live,      \* tmux sessions
  used,      \* terminal ids that were ever given out
  idents,    \* terminals to which a per-session identity is bound
  builder,   \* the thread that holds the identity transaction
  closer,    \* the steps of close_terminal and kill_terminal
  startup,   \* the reconciliation thread
  todo,      \* operations the startup recovery has yet to replay
  raw,       \* terminals that were commissioned and never claimed
  killed,    \* terminals that close_terminal, kill_terminal or recovery killed
  faults, ends, crashes

registryVars == <<captains, ops, excluded>>
worldVars == <<live, used, idents>>
historyVars == <<raw, killed>>
vars == <<registryVars, worldVars, historyVars, builder, closer, startup, todo, faults, ends, crashes>>

Operation == [kind : {"close"}, tile : Tiles, ship : {Nil}, ident : {FALSE}]
        \cup [kind : {"commission"}, tile : Tiles, ship : Ships, ident : BOOLEAN]

Idle == [pc |-> "idle", tile |-> Nil, ship |-> Nil, by |-> Nil, seen |-> {}, gone |-> {}]
Thread(pcs) == [pc : pcs, tile : Tiles \cup {Nil}, ship : Ships \cup {Nil},
                by : Tiles \cup {Nil}, seen : SUBSET Tiles, gone : SUBSET Tiles]
Stopped == [pc |-> "idle", tile |-> Nil, ship |-> Nil, by |-> Nil,
            stale |-> FALSE, fresh |-> FALSE]

Serving == todo = {}

-----------------------------------------------------------------------------
(* Reading the registry. *)

Known == {s \in Ships : captains[s] # Nil}
Captaining(c, t) == {s \in Ships : c[s] # Nil /\ c[s].term = t}
Crewing(c, t) == {s \in Ships : c[s] # Nil /\ c[s].crew[t] # "none"}
Alive(t) == t \in live
Closing(t) == {o \in ops : o.kind = "close" /\ o.tile = t}
Registered(t) == \E s \in Ships : captains[s] # Nil /\ (captains[s].term = t \/ captains[s].crew[t] = "Active")

(* validate_snapshot: no terminal twice among captains and crews, and a    *)
(* claim is Active exactly when it names a terminal.                       *)
Valid(c) ==
  /\ \A t \in Tiles : Cardinality(Captaining(c, t)) + Cardinality(Crewing(c, t)) <= 1
  /\ \A s \in Ships : c[s] # Nil => (c[s].state = "Active" <=> c[s].term # Nil)

(* The tiles the durable workspaces place: supervisors in the Captain      *)
(* Workspace, and the crews of a project, which dispatch gives a tab.      *)
Placements(c) ==
  [supervisors |-> {t \in Tiles : \E s \in Captaining(c, t) : c[s].state = "Active"},
   crews |-> {t \in Tiles : \E s \in Crewing(c, t) : c[s].bound /\ c[s].crew[t] # "Removed"}]

Placed(p) == p.supervisors \cup p.crews

(* What the registry says of a set of terminals that are gone: their ships *)
(* are orphaned with their crews, and their own crew entries are Removed.  *)
Without(c, gone) ==
  [s \in Ships |->
    IF c[s] = Nil THEN Nil
    ELSE LET lost == c[s].term \in gone IN
      [c[s] EXCEPT !.term = IF lost THEN Nil ELSE @,
                   !.state = IF lost THEN "Orphaned" ELSE @,
                   !.crew = [t \in Tiles |->
                     IF t \in gone /\ @[t] # "none" THEN "Removed"
                     ELSE IF lost /\ @[t] = "Active" THEN "Orphaned" ELSE @[t]]]]

(* The authority a scope is captured from: the captain's record without    *)
(* its crew, and the crew entries of one tile.                             *)
Captaincy(c, s) == IF c[s] = Nil THEN Nil ELSE <<c[s].term, c[s].state, c[s].bound>>
Membership(c, t) == {<<s, c[s].crew[t]>> : s \in Crewing(c, t)}

(* Any commit moves seq on, and the generations of what it changed.        *)
Aged(cl, new) ==
  [k \in Closers |->
    [cl[k] EXCEPT !.fresh = FALSE,
                  !.stale = @ \/ /\ cl[k].ship # Nil
                                 /\ \/ Captaincy(captains, cl[k].ship) # Captaincy(new, cl[k].ship)
                                    \/ Membership(captains, cl[k].tile) # Membership(new, cl[k].tile)]]

CommitUnvalidated(c, o, e, cl) ==
  /\ captains' = Without(c, e) /\ ops' = o /\ excluded' = {}
  /\ closer' = Aged(cl, Without(c, e))

(* commit_mutation of candidate c with operations o, under the exclusions  *)
(* e; cl is what the committing thread made of closer.                     *)
Commit(c, o, e, cl) ==
  LET new == Without(c, e) IN
  /\ Valid(new)
  /\ captains' = new /\ ops' = o /\ excluded' = {}
  /\ closer' = Aged(cl, new)

Ends == ends < MaxEnds /\ ends' = ends + 1
PersistFails == faults < MaxFaults /\ faults' = faults + 1

-----------------------------------------------------------------------------
Init ==
  /\ captains = [s \in Ships |-> Nil] /\ ops = {} /\ excluded = {}
  /\ live = {} /\ used = {} /\ idents = {} /\ raw = {} /\ killed = {}
  /\ builder = Idle /\ todo = {}
  /\ closer = [k \in Closers |-> Stopped]
  /\ startup = [pc |-> "done", basis |-> Placements(captains), gone |-> {}, old |-> {}]
  /\ faults = 0 /\ ends = 0 /\ crashes = 0

(* A session ends by itself: nothing tells the registry. *)
Dies(t) ==
  /\ Ends /\ t \in live /\ live' = live \ {t}
  /\ UNCHANGED <<registryVars, used, idents, historyVars, builder, closer, startup, todo, faults, crashes>>

-----------------------------------------------------------------------------
(* Claims, releases and crews.                                             *)

(* The builder's terminal while nobody else has been told of it. *)
Unborn == IF builder.pc \in {"idle", "probed"} THEN {} ELSE {builder.tile}

(* Tiles that a close or a kill has already taken out of the registry. *)
Struck == {t \in killed : Closing(t) = {}} \cup {closer[k].tile : k \in {j \in Closers : closer[j].pc = "removed"}}

(* A claim that goes by a probe made before that.  *)
Outrun(t, seen) == (seen \cup {t}) \cap Struck # {} /\ "claim" \notin Races

RefusedUnprobed(t, s, seen) ==
  Outrun(t, seen) \/ \E r \in Captaining(captains, t) : r # s /\ captains[r].bound

(* The incumbent is probed inside the registry's mutation lock, and who is *)
(* dead stays dead: that probe and the commit are one step.                *)
Refused(t, s, seen) ==
  \/ Outrun(t, seen)
  \/ \E r \in Captaining(captains, t) : r # s /\ captains[r].bound
  \/ captains[s] # Nil /\ captains[s].state = "Active" /\ captains[s].term # t /\ Alive(captains[s].term)

(* readopt_orphaned_crew: a crew orphaned after the probe stays so *)
Readopted(crew, seen, gone) ==
  [t \in Tiles |-> CASE crew[t] = "Orphaned" /\ t \in seen -> "Active"
                     [] crew[t] = "Orphaned" /\ t \in gone -> "Removed"
                     [] OTHER -> crew[t]]

(* A known ship is taken by t, or taken up again by its own captain.       *)
Taken(p, t, seen, gone, b) ==
  [p EXCEPT !.term = t, !.state = "Active", !.bound = @ \/ b,
            !.crew = IF p.term = t THEN @ ELSE Readopted(@, seen, gone)]

(* the collision matrix of claim_provider, b telling whether the claim     *)
(* binds a project (attach_captain, commission_captain)                    *)
Claimed(t, s, seen, gone, b) ==
  LET from == Captaining(captains, t)
      first == IF from = {} THEN [term |-> t, state |-> "Active", bound |-> b, crew |-> [u \in Tiles |-> "none"]]
               ELSE LET r == CHOOSE r \in from : TRUE IN [captains[r] EXCEPT !.state = "Active", !.bound = @ \/ b]
  IN IF captains[s] = Nil
     THEN [r \in Ships |-> IF r = s THEN first ELSE IF r \in from THEN Nil ELSE captains[r]]
     ELSE [captains EXCEPT ![s] = Taken(@, t, seen, gone, b)]

Orphans == {u \in Tiles : \E s \in Crewing(captains, u) : captains[s].crew[u] = "Orphaned"}

(* claim_captain_locked probes the claimant, then the orphaned crews. *)
ClaimProbes(t, s) ==
  /\ Serving /\ builder.pc = "idle" /\ Alive(t)
  /\ builder' = [pc |-> "probed", tile |-> t, ship |-> s, by |-> Nil,
                 seen |-> Orphans \cap live, gone |-> Orphans \ live]
  /\ UNCHANGED <<registryVars, worldVars, historyVars, closer, startup, todo, faults, ends, crashes>>

ClaimCommits ==
  LET t == builder.tile
      s == builder.ship
      new == Claimed(t, s, builder.seen, builder.gone, FALSE) IN
  /\ builder.pc = "probed" /\ ~Refused(t, s, builder.seen)
  /\ IF new = captains THEN UNCHANGED registryVars /\ UNCHANGED closer
     ELSE Commit(new, ops, excluded \ {t}, closer)
  /\ raw' = raw \ {t} /\ builder' = Idle
  /\ UNCHANGED <<worldVars, killed, startup, todo, faults, ends, crashes>>

ClaimRefused ==
  /\ builder.pc = "probed" /\ builder' = Idle
  /\ UNCHANGED <<registryVars, worldVars, historyVars, closer, startup, todo, faults, ends, crashes>>

Release(s) ==
  /\ Ends /\ Serving /\ captains[s] # Nil
  /\ LET kept == \E t \in Tiles : captains[s].crew[t] \in {"Active", "Orphaned"}
     IN Commit([captains EXCEPT ![s] = IF kept THEN [@ EXCEPT !.state = "Vacant", !.term = Nil] ELSE Nil],
               ops, excluded, closer)
  /\ UNCHANGED <<worldVars, historyVars, builder, startup, todo, faults, crashes>>

Spawn(t, by) ==
  /\ Serving /\ builder.pc = "idle" /\ t \notin used
  /\ live' = live \cup {t} /\ used' = used \cup {t}
  /\ builder' = IF by = Nil THEN Idle ELSE [Idle EXCEPT !.pc = "spawned", !.tile = t, !.by = by]
  /\ UNCHANGED <<registryVars, idents, historyVars, closer, startup, todo, faults, ends, crashes>>

(* record_crew: an unclaimed spawner records nothing. *)
SpawnRecords ==
  /\ builder.pc = "spawned" /\ builder' = Idle
  /\ \/ /\ Captaining(captains, builder.by) = {}
        /\ UNCHANGED <<registryVars, closer>>
     \/ \E s \in Captaining(captains, builder.by) :
          Commit([captains EXCEPT ![s].crew[builder.tile] = "Active"], ops, excluded, closer)
  /\ UNCHANGED <<worldVars, historyVars, startup, todo, faults, ends, crashes>>

SpawnUndone ==
  /\ builder.pc = "spawned" /\ Captaining(captains, builder.by) # {} /\ PersistFails
  /\ live' = live \ {builder.tile} /\ builder' = Idle
  /\ UNCHANGED <<registryVars, used, idents, historyVars, closer, startup, todo, ends, crashes>>

-----------------------------------------------------------------------------
(* commission_captain: intent, identity, binding, terminal, claim; the     *)
(* claim removes the intent in the same commit.                            *)

At(pc) == [builder EXCEPT !.pc = pc]
Intent(o) == o.kind = "commission"
Others == {o \in ops : ~(Intent(o) /\ o.tile = builder.tile)}

CommissionPrepares(t, s) ==
  /\ Serving /\ builder.pc = "idle" /\ t \notin used /\ ~\E o \in ops : Intent(o)
  /\ ~(captains[s] # Nil /\ captains[s].bound /\ captains[s].term # Nil /\ Alive(captains[s].term))
  /\ Commit(captains, ops \cup {[kind |-> "commission", tile |-> t, ship |-> s, ident |-> FALSE]}, excluded, closer)
  /\ builder' = [Idle EXCEPT !.pc = "prepared", !.tile = t, !.ship = s]
  /\ used' = used \cup {t} /\ raw' = raw \cup {t}
  /\ UNCHANGED <<live, idents, killed, startup, todo, faults, ends, crashes>>

CommissionMints ==
  /\ builder.pc = "prepared"
  /\ \/ idents' = idents \cup {builder.tile} /\ builder' = At("minted")
     \/ idents' = idents /\ builder' = At("abort")
  /\ UNCHANGED <<registryVars, live, used, historyVars, closer, startup, todo, faults, ends, crashes>>

CommissionBinds ==
  /\ builder.pc = "minted"
  /\ Commit(captains, 
            Others \cup {[o EXCEPT !.ident = TRUE] : o \in ops \ Others}, excluded, closer)
  /\ builder' = At("bound")
  /\ UNCHANGED <<worldVars, historyVars, startup, todo, faults, ends, crashes>>

CommissionUnbound ==
  /\ builder.pc = "minted" /\ PersistFails
  /\ builder' = At("retire")
  /\ UNCHANGED <<registryVars, worldVars, historyVars, closer, startup, todo, ends, crashes>>

(* The worktree admits the activity, and tmux starts the terminal or not;  *)
(* a refused admission returns at once, with intent and identity in place. *)
CommissionStarts ==
  /\ builder.pc = "bound"
  /\ \/ live' = live \cup {builder.tile} /\ builder' = At("started")
     \/ live' = live /\ builder' = At("retire")
     \/ live' = live /\ builder' = Idle
  /\ UNCHANGED <<registryVars, used, idents, historyVars, closer, startup, todo, faults, ends, crashes>>

CommissionClaims ==
  /\ builder.pc = "started" /\ ~Refused(builder.tile, builder.ship, Orphans \cap live)
  /\ Commit(Claimed(builder.tile, builder.ship, Orphans \cap live, Orphans \ live, TRUE), Others, excluded \ {builder.tile}, closer)
  /\ raw' = raw \ {builder.tile} /\ builder' = Idle
  /\ UNCHANGED <<worldVars, killed, startup, todo, faults, ends, crashes>>

(* The harness does not start, or the claim is refused or not written. *)
CommissionKills ==
  /\ builder.pc = "started"
  /\ live' = live \ {builder.tile} /\ killed' = killed \cup {builder.tile}
  /\ builder' = At("retire")
  /\ UNCHANGED <<registryVars, used, idents, raw, closer, startup, todo, faults, ends, crashes>>

CommissionRetires ==
  /\ builder.pc = "retire"
  /\ idents' = idents \ {builder.tile} /\ builder' = At("abort")
  /\ UNCHANGED <<registryVars, live, used, historyVars, closer, startup, todo, faults, ends, crashes>>

CommissionAborts ==
  /\ builder.pc = "abort" /\ builder' = Idle
  /\ \/ Commit(captains, Others, excluded, closer) /\ UNCHANGED faults
     \/ PersistFails /\ UNCHANGED <<registryVars, closer>>
  /\ UNCHANGED <<worldVars, historyVars, startup, todo, ends, crashes>>

-----------------------------------------------------------------------------
(* close_terminal: authorize, wait for the tile's turn, revalidate, freeze *)
(* seq, write the intent, kill, commit, retire the identity.               *)

CloseIntent(t) == [kind |-> "close", tile |-> t, ship |-> Nil, ident |-> FALSE]

(* s = Nil: the General, Cortana or the session itself asks. *)
CloseAuthorizes(k, t, s) ==
  /\ Ends /\ Serving /\ closer[k].pc = "idle" /\ t \notin Unborn
  /\ t \in live \/ Registered(t) \/ Closing(t) # {}
  /\ \/ s = Nil
     \/ s \in Crewing(captains, t) /\ captains[s].state = "Active" /\ Alive(captains[s].term)
  /\ closer' = [closer EXCEPT ![k] = [pc |-> "waiting", tile |-> t, ship |-> s,
                                      by |-> IF s = Nil THEN Nil ELSE captains[s].term,
                                      stale |-> FALSE, fresh |-> FALSE]]
  /\ UNCHANGED <<registryVars, worldVars, historyVars, builder, startup, todo, faults, crashes>>

Frozen(c) == IF Closing(c.tile) # {} THEN [c EXCEPT !.pc = "kill"]
             ELSE [c EXCEPT !.pc = "frozen", !.fresh = TRUE]

CloseRevalidates(k) ==
  /\ closer[k].pc = "waiting"
  /\ \A j \in Closers \ {k} : closer[j].tile = closer[k].tile => closer[j].pc = "waiting"
  /\ closer' = [closer EXCEPT ![k] = IF @.stale THEN Stopped ELSE [@ EXCEPT !.pc = "checked"]]
  /\ UNCHANGED <<registryVars, worldVars, historyVars, builder, startup, todo, faults, ends, crashes>>

(* the authority can change between its check and this, while tmux is probed *)
CloseFreezes(k) ==
  /\ closer[k].pc = "checked" /\ (closer[k].stale => "close" \in Races)
  /\ closer' = [closer EXCEPT ![k] = Frozen(@)]
  /\ UNCHANGED <<registryVars, worldVars, historyVars, builder, startup, todo, faults, ends, crashes>>

PreparedUnlogged(k) == closer' = [closer EXCEPT ![k].pc = "kill"] /\ UNCHANGED registryVars

PreparedStale(k) ==
  Commit(captains, ops \cup {CloseIntent(closer[k].tile)}, excluded, [closer EXCEPT ![k].pc = "kill"])

(* prepare_close_terminal_operation *)
Prepared(k) ==
  LET next == [closer EXCEPT ![k].pc = "kill"] IN
  IF Closing(closer[k].tile) # {} THEN closer' = next /\ UNCHANGED registryVars
  ELSE closer[k].fresh /\ Commit(captains, ops \cup {CloseIntent(closer[k].tile)}, excluded, next)

ClosePrepares(k) ==
  /\ closer[k].pc = "frozen" /\ Prepared(k)
  /\ UNCHANGED <<worldVars, historyVars, builder, startup, todo, faults, ends, crashes>>

(* A probe that timed out, a stale seq, a failed write or a failed kill. *)
CloseGivesUp(k) ==
  /\ closer[k].pc \in {"waiting", "checked", "frozen", "kill"}
  /\ closer' = [closer EXCEPT ![k] = Stopped]
  /\ UNCHANGED <<registryVars, worldVars, historyVars, builder, startup, todo, faults, ends, crashes>>

CloseKills(k) ==
  /\ closer[k].pc = "kill"
  /\ live' = live \ {closer[k].tile} /\ killed' = killed \cup {closer[k].tile}
  /\ closer' = [closer EXCEPT ![k].pc = "commit"]
  /\ UNCHANGED <<registryVars, used, idents, raw, builder, startup, todo, faults, ends, crashes>>

CloseCommits(k) ==
  /\ closer[k].pc = "commit"
  /\ LET t == closer[k].tile IN
     \/ /\ Commit(Without(captains, {t}), ops \ Closing(t), excluded, [closer EXCEPT ![k].pc = "retire"])
        /\ UNCHANGED faults
     \/ /\ PersistFails /\ closer' = [closer EXCEPT ![k] = Stopped]
        /\ UNCHANGED registryVars
  /\ UNCHANGED <<worldVars, historyVars, builder, startup, todo, ends, crashes>>

CloseRetires(k) ==
  /\ closer[k].pc = "retire"
  /\ idents' = idents \ {closer[k].tile} /\ closer' = [closer EXCEPT ![k] = Stopped]
  /\ UNCHANGED <<registryVars, live, used, historyVars, builder, startup, todo, faults, ends, crashes>>

(* kill_terminal of the webview: remove_session, then kill and retire. *)
KillRemoves(k, t) ==
  /\ Ends /\ Serving /\ closer[k].pc = "idle" /\ t \in live /\ t \notin Unborn
  /\ LET next == [closer EXCEPT ![k] = [Stopped EXCEPT !.pc = "removed", !.tile = t]] IN
     IF Without(captains, {t}) = captains THEN closer' = next /\ UNCHANGED registryVars
     ELSE Commit(Without(captains, {t}), ops, excluded, next)
  /\ UNCHANGED <<worldVars, historyVars, builder, startup, todo, faults, crashes>>

KillKills(k) ==
  /\ closer[k].pc = "removed" /\ closer' = [closer EXCEPT ![k] = Stopped]
  /\ LET t == closer[k].tile IN
     \/ live' = live \ {t} /\ idents' = idents \ {t} /\ killed' = killed \cup {t}
     \/ UNCHANGED <<live, idents, killed>>
  /\ UNCHANGED <<registryVars, used, raw, builder, startup, todo, faults, ends, crashes>>

-----------------------------------------------------------------------------
(* Restart: pending operations are replayed before the listener serves,    *)
(* while a thread of its own removes the tiles that are gone.              *)

Crash ==
  /\ crashes < MaxCrashes /\ crashes' = crashes + 1
  /\ builder' = Idle /\ closer' = [k \in Closers |-> Stopped]
  /\ excluded' = {} /\ todo' = ops
  /\ startup' = [pc |-> "basis", basis |-> Placements([s \in Ships |-> Nil]), gone |-> {}, old |-> idents]
  /\ UNCHANGED <<captains, ops, worldVars, historyVars, faults, ends>>

Reaped(o) == live' = live \ {o.tile} /\ killed' = killed \cup {o.tile}

(* recover_pending_fleet_operations *)
Recover(o) ==
  /\ o \in todo /\ todo' = todo \ {o} /\ Reaped(o)
  /\ \/ /\ Commit(IF Intent(o) THEN captains ELSE Without(captains, {o.tile}), ops \ {o}, excluded, closer)
        /\ idents' = IF o.ident \/ ~Intent(o) THEN idents \ {o.tile} ELSE idents
        /\ UNCHANGED faults
     \/ /\ PersistFails
        /\ idents' = IF o.ident THEN idents \ {o.tile} ELSE idents
        /\ UNCHANGED <<registryVars, closer>>
  /\ UNCHANGED <<used, raw, builder, startup, ends, crashes>>

(* startup_workspace_reconciliation_basis, then tmux::list_sessions *)
StartupBasis ==
  /\ startup.pc = "basis"
  /\ startup' = [startup EXCEPT !.pc = "list", !.basis = Placements(captains)]
  /\ UNCHANGED <<registryVars, worldVars, historyVars, builder, closer, todo, faults, ends, crashes>>

StartupLists ==
  /\ startup.pc = "list"
  /\ startup' = [startup EXCEPT !.pc = "reconcile",
                                !.gone = (Placed(startup.basis) \cup startup.old) \ live]
  /\ UNCHANGED <<registryVars, worldVars, historyVars, builder, closer, todo, faults, ends, crashes>>

GoneAtStartup == Placed(startup.basis) \cap startup.gone

(* reconcile_startup_workspace_tiles: a registry that changed since the    *)
(* basis makes the thread look again; a failed write leaves the exclusions.*)
StartupReconciles ==
  /\ startup.pc = "reconcile"
  /\ \/ /\ Placements(captains) # startup.basis
        /\ startup' = [startup EXCEPT !.pc = "basis"]
        /\ UNCHANGED <<registryVars, closer, faults>>
     \/ /\ Placements(captains) = startup.basis
        /\ startup' = [startup EXCEPT !.pc = "prune"]
        /\ \/ GoneAtStartup = {} /\ UNCHANGED <<registryVars, closer, faults>>
           \/ /\ GoneAtStartup # {} /\ UNCHANGED faults
              /\ Commit(captains, ops, excluded \cup GoneAtStartup, closer)
           \/ /\ GoneAtStartup # {} /\ PersistFails
              /\ excluded' = excluded \cup GoneAtStartup
              /\ UNCHANGED <<captains, ops, closer>>
  /\ UNCHANGED <<worldVars, historyVars, builder, todo, ends, crashes>>

(* prune_dead_generation: identities known at load whose terminal is gone. *)
StartupPrunes ==
  /\ startup.pc = "prune"
  /\ idents' = idents \ (startup.old \cap startup.gone)
  /\ startup' = [startup EXCEPT !.pc = "done", !.gone = {}, !.old = {},
                                !.basis = Placements([s \in Ships |-> Nil])]
  /\ UNCHANGED <<registryVars, live, used, historyVars, builder, closer, todo, faults, ends, crashes>>

Next ==
  \/ \E t \in Tiles : Dies(t)
  \/ (\E t \in Tiles, s \in Ships : ClaimProbes(t, s)) \/ ClaimCommits \/ ClaimRefused
  \/ \E s \in Ships : Release(s)
  \/ \E t \in Tiles : Spawn(t, Nil) \/ \E s \in Known : captains[s].term # Nil /\ Spawn(t, captains[s].term)
  \/ SpawnRecords \/ SpawnUndone
  \/ \E t \in Tiles, s \in Ships : CommissionPrepares(t, s)
  \/ CommissionMints \/ CommissionBinds \/ CommissionUnbound \/ CommissionStarts
  \/ CommissionClaims \/ CommissionKills \/ CommissionRetires \/ CommissionAborts
  \/ \E k \in Closers : \/ \E t \in Tiles, s \in Ships \cup {Nil} : CloseAuthorizes(k, t, s)
                        \/ CloseRevalidates(k) \/ CloseFreezes(k) \/ ClosePrepares(k)
                        \/ CloseGivesUp(k) \/ CloseKills(k) \/ CloseCommits(k) \/ CloseRetires(k)
                        \/ (\E t \in Tiles : KillRemoves(k, t)) \/ KillKills(k)
  \/ Crash
  \/ \E o \in todo : Recover(o)
  \/ StartupBasis \/ StartupLists \/ StartupReconciles \/ StartupPrunes

Spec == Init /\ [][Next]_vars

-----------------------------------------------------------------------------
BuilderPcs == {"idle", "probed", "spawned", "prepared", "minted", "bound", "started", "retire", "abort"}
CloserPcs == {"idle", "waiting", "checked", "frozen", "kill", "commit", "retire", "removed"}

(* Types, and what validate_snapshot demands of every file that is         *)
(* written: no terminal stands twice in the registry.                      *)
TypeOK ==
  /\ captains \in [Ships -> Record \cup {Nil}] /\ Valid(captains)
  /\ ops \subseteq Operation /\ todo \subseteq ops /\ Cardinality({o \in ops : Intent(o)}) <= 1
  /\ excluded \subseteq Tiles
  /\ used \subseteq Tiles /\ live \subseteq used /\ idents \subseteq used
  /\ raw \subseteq used /\ killed \subseteq used \ live
  /\ builder \in Thread(BuilderPcs)
  /\ \A k \in Closers : closer[k] \in [pc : CloserPcs, tile : Tiles \cup {Nil}, ship : Ships \cup {Nil},
                                       by : Tiles \cup {Nil}, stale : BOOLEAN, fresh : BOOLEAN]
  /\ startup.pc \in {"basis", "list", "reconcile", "prune", "done"}
  /\ faults \in 0..MaxFaults /\ ends \in 0..MaxEnds /\ crashes \in 0..MaxCrashes

(* "No soft signal ever seizes a live ship" (captains_registry.rs:3567):   *)
(* a captain whose terminal is alive loses it only by a release, a close   *)
(* or a kill of that terminal, whatever the claims of others and the       *)
(* startup reconciliation decide.                                          *)
Displaced(s) ==
  /\ captains[s] # Nil /\ captains[s].term \in live
  /\ Captaining(captains', captains[s].term) = {}

NoLiveShipSeized ==
  [][\A s \in Ships : Displaced(s) =>
        \/ Release(s)
        \/ \E k \in Closers : KillRemoves(k, captains[s].term)
        \/ \E o \in todo : o.tile = captains[s].term /\ Recover(o)]_vars

(* A terminal that this program killed is not left in the registry as a    *)
(* captain or as crew, unless the durable close intent that will take it   *)
(* out is still pending: over crashes, failed writes and concurrent claims.*)
ClosedIsLogged == \A t \in killed : Registered(t) => Closing(t) # {}

(* A commission is all or nothing over crashes: once a restart has settled, *)
(* a commissioned terminal that was never claimed holds neither a session   *)
(* nor an identity, unless a durable intent or the commissioning thread     *)
(* still accounts for it.                                                   *)
UnfinishedIsLogged ==
  \A t \in raw : t \in live \cup idents =>
    \/ builder.tile = t
    \/ \E o \in ops : Intent(o) /\ o.tile = t
    \/ startup.pc # "done"

(* What a close or a commission left behind, in the registry or in the     *)
(* world, is always covered by a durable intent that a restart replays.    *)
EndsAreLogged == ClosedIsLogged /\ UnfinishedIsLogged

(* A captain's close writes its intent only while that captain still holds *)
(* the ship the tile belongs to ("lifecycle authority changed while the    *)
(* operation waited", control.rs:4970).                                    *)
CloseIsOwners ==
  [][\A k \in Closers :
       (closer[k].ship # Nil /\ closer[k].pc = "frozen" /\ ops' # ops /\ CloseIntent(closer[k].tile) \in ops' \ ops) =>
          /\ captains[closer[k].ship] # Nil
          /\ captains[closer[k].ship].term = closer[k].by
          /\ captains[closer[k].ship].crew[closer[k].tile] # "none"]_vars
=============================================================================
