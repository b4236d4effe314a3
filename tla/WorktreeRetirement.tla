------------------------- MODULE WorktreeRetirement -------------------------
(***************************************************************************)
(* The worktree retirement coordinator (worktree_coordinator.rs) with the  *)
(* commands that drive it (control/handlers_admin.rs): a worktree is       *)
(* reserved, a provider process cleans its build directories, and no       *)
(* session may be started in it meanwhile.                                 *)
(*                                                                         *)
(* Threads.  A cleaner is a connection running cleanup_worktree_artifacts; *)
(* a spawner is any caller of admit_activity; each started operation has a *)
(* worker; recover_pending runs once after a start, on a thread of its own *)
(* while the control listener already accepts commands.                    *)
(*                                                                         *)
(* A boundary is shared by reference and leaves the coordinator's map when *)
(* only the map and the thread that removes it still hold it, so no thread *)
(* ever holds one that is not in the map: a boundary is named by its path, *)
(* and one that was removed equals one that was never made.  The file and  *)
(* the snapshot in memory agree whenever their lock is free (a failed      *)
(* write is rolled back), so records is both.                              *)
(*                                                                         *)
(* A session is the directory of its pane.  Processes that wander into the      *)
(* worktree from elsewhere are the watchdogs' matter and left out; so is   *)
(* what a request file says, beyond whether it is bound to its record.     *)
(***************************************************************************)
EXTENDS Integers, FiniteSets

CONSTANTS
  Worktrees,    \* the worktrees that may be retired
  Dirs,         \* these and the other directories activity may start in
  Unscoped,     \* the empty path: the caller cannot name the directory
  Within,       \* path -> the worktrees path_within places it in
  Spawners, Cleaners,
  Nil,
  Races,        \* interleavings explored: {}, "reclaim", "startup"
  MaxOps,       \* bound: retirements begun
  MaxCrashes    \* bound: process deaths

Ops   == 1 .. MaxOps
Paths == Dirs \cup {Unscoped}

\* "reclaim": a retirement begins between the look at a boundary and its removal from
\* the map.  "startup": commands are accepted before recover_pending ends.
ASSUME RetirementAssumption ==
  /\ Worktrees \subseteq Dirs /\ Unscoped \notin Dirs
  /\ Within \in [Paths -> SUBSET Worktrees]
  /\ Within[Unscoped] = Worktrees
  /\ \A w \in Worktrees : w \in Within[w]
  /\ Nil \notin Paths \cup Spawners \cup Cleaners \cup Ops
  /\ Spawners \cap Cleaners = {} /\ Ops \cap (Spawners \cup Cleaners) = {}
  /\ IsFiniteSet(Spawners)
  /\ Races \subseteq {"reclaim", "startup"}
  /\ MaxOps \in Nat
  /\ MaxCrashes \in Nat

VARIABLES
  records,    \* inner and its file: every retirement, by operation
  boundary,   \* each path's admissions, published retirement and coordination lock
  spawner, cleaner,
  worker,     \* each operation's worker thread, and how its provider ended
  recovery,   \* where recover_pending stands, and what it found
  sessions,   \* directories with a live pane
  crashes

vars == <<records, boundary, spawner, cleaner, worker, recovery, sessions, crashes>>

States   == {"none", "reserved", "running", "succeeded", "failed", "recovery"}
Active   == {"reserved", "running", "recovery"}
Terminal == {"succeeded", "failed"}

Record    == [tree : Worktrees \cup {Nil}, state : States, bound : BOOLEAN]
Published == [op : Ops \cup {Nil}, state : States, bound : BOOLEAN]
Outcomes  == {"succeeded", "failed", "recovery"}

NoRecord    == [tree |-> Nil, state |-> "none", bound |-> FALSE]
NoneYet     == [op |-> Nil, state |-> "none", bound |-> FALSE]
Unused      == [adm |-> 0, ret |-> NoneYet, lock |-> Nil]
IdleSpawner == [pc |-> "idle", path |-> Nil]
IdleCleaner == [pc |-> "idle", tree |-> Nil, op |-> Nil, to |-> "none"]
NoWorker    == [pc |-> "none", out |-> "none"]
NotBegun    == [pc |-> "due", found |-> {}, reclaim |-> Nil]

-----------------------------------------------------------------------------
(* The boundaries.                                                         *)

Inside(w) == {p \in Paths : w \in Within[p]}

Reserved(w) == boundary[w].ret.state \in Active

NoneAdmitted(w) == \A p \in Inside(w) : boundary[p].adm = 0

\* The threads, other than the map, that hold path p's boundary.
Holders(p) ==
  {s \in Spawners : spawner[s].pc \in {"admitted", "refused", "dropped", "reclaim"}
                    /\ spawner[s].path = p}
    \cup {c \in Cleaners : cleaner[c].pc \in {"inspected", "published", "reclaim"}
                           /\ cleaner[c].tree = p}
    \cup {n \in Ops : worker[n].pc \in {"inspected", "cleaning", "reclaim"}
                      /\ records[n].tree = p}
    \cup (IF recovery.reclaim = p THEN {Nil} ELSE {})

\* What thread x leaves of p's boundary when it has found no active retirement in it.
\* Without the race that look counts as made now, not a lock ago.
Reclaimed(p, x) ==
  IF Holders(p) \subseteq {x} /\ (Reserved(p) => "reclaim" \in Races)
  THEN Unused ELSE boundary[p]

\* The record is stored and published, for a state it may enter.
Announce(n, state, bound) ==
  LET w == records[n].tree IN
  /\ records' = [records EXCEPT ![n] = [tree |-> w, state |-> state, bound |-> bound]]
  /\ boundary' = [boundary EXCEPT ![w].ret =
                    [op |-> n, state |-> state, bound |-> bound]]

\* transition; one to an end is followed by the removal of the boundary.
Transition(n, state) ==
  /\ state \in {"running", "recovery"} => records[n].bound
  /\ Announce(n, state, records[n].bound)

\* control::start comes before recover_pending.
Accepting == "startup" \in Races \/ recovery.pc = "done"

-----------------------------------------------------------------------------
Init ==
  /\ records  = [n \in Ops |-> NoRecord]
  /\ boundary = [p \in Paths |-> Unused]
  /\ spawner  = [s \in Spawners |-> IdleSpawner]
  /\ cleaner  = [c \in Cleaners |-> IdleCleaner]
  /\ worker   = [n \in Ops |-> NoWorker]
  /\ recovery = NotBegun
  /\ sessions = {}
  /\ crashes  = 0

\* admit_activity under the publication lock: the admission is counted, and refused
\* when the path is in a reserved worktree or when the request of another active
\* retirement cannot be read (an unbound one never can).
Admit(s, p) ==
  LET reserved == {w \in Worktrees : Reserved(w)} IN
  /\ spawner[s].pc = "idle"
  /\ boundary' = [boundary EXCEPT ![p].adm = @ + 1]
  /\ \/ /\ reserved \cap Within[p] = {}
        /\ \A w \in reserved : boundary[w].ret.bound
        /\ spawner' = [spawner EXCEPT ![s] = [pc |-> "admitted", path |-> p]]
     \/ /\ reserved # {}
        /\ spawner' = [spawner EXCEPT ![s] = [pc |-> "refused", path |-> p]]
  /\ UNCHANGED <<records, cleaner, worker, recovery, sessions, crashes>>

Withdraw(s) ==
  /\ spawner[s].pc = "refused"
  /\ boundary' = [boundary EXCEPT ![spawner[s].path].adm = @ - 1]
  /\ spawner' = [spawner EXCEPT ![s] = IdleSpawner]
  /\ UNCHANGED <<records, cleaner, worker, recovery, sessions, crashes>>

\* The admitted activity opens a pane while its guard lives; an unscoped one
\* inherits whatever directory it runs in.
Open(s) ==
  /\ spawner[s].pc = "admitted"
  /\ \E d \in Dirs : /\ spawner[s].path \in {d, Unscoped}
                     /\ sessions' = sessions \cup {d}
  /\ UNCHANGED <<records, boundary, spawner, cleaner, worker, recovery, crashes>>

\* WorktreeAdmissionGuard::drop, three steps: count, look, remove.
DropCounts(s) ==
  LET p == spawner[s].path IN
  /\ spawner[s].pc = "admitted"
  /\ boundary' = [boundary EXCEPT ![p].adm = @ - 1]
  /\ spawner' = [spawner EXCEPT ![s] =
       IF boundary[p].adm = 1 THEN [pc |-> "dropped", path |-> p] ELSE IdleSpawner]
  /\ UNCHANGED <<records, cleaner, worker, recovery, sessions, crashes>>

DropLooks(s) ==
  /\ spawner[s].pc = "dropped"
  /\ spawner' = [spawner EXCEPT ![s] =
       IF boundary[@.path].ret.state \in Active THEN IdleSpawner
       ELSE [@ EXCEPT !.pc = "reclaim"]]
  /\ UNCHANGED <<records, boundary, cleaner, worker, recovery, sessions, crashes>>

DropRemoves(s) ==
  LET p == spawner[s].path IN
  /\ spawner[s].pc = "reclaim"
  /\ boundary' = [boundary EXCEPT ![p] = Reclaimed(p, s)]
  /\ spawner' = [spawner EXCEPT ![s] = IdleSpawner]
  /\ UNCHANGED <<records, cleaner, worker, recovery, sessions, crashes>>

Close(d) ==
  /\ d \in sessions
  /\ sessions' = sessions \ {d}
  /\ UNCHANGED <<records, boundary, spawner, cleaner, worker, recovery, crashes>>

-----------------------------------------------------------------------------
(* cleanup_worktree_artifacts.                                             *)

BeginRegardless(c, w) ==
  /\ cleaner[c].pc = "idle"
  /\ Accepting
  /\ boundary[w].lock = Nil
  /\ sessions \cap Inside(w) = {}
  /\ boundary' = [boundary EXCEPT ![w].lock = c]
  /\ cleaner' = [cleaner EXCEPT ![c] = [IdleCleaner EXCEPT !.pc = "inspected", !.tree = w]]
  /\ UNCHANGED <<records, spawner, worker, recovery, sessions, crashes>>

\* begin_retirement_if_idle, under the boundary's coordination lock until the record
\* is stored: no active retirement, no pane inside.
BeginInspects(c, w) ==
  /\ cleaner[c].pc = "idle"
  /\ Accepting
  /\ boundary[w].lock = Nil
  /\ ~Reserved(w)
  /\ sessions \cap Inside(w) = {}
  /\ boundary' = [boundary EXCEPT ![w].lock = c]
  /\ cleaner' = [cleaner EXCEPT ![c] = [IdleCleaner EXCEPT !.pc = "inspected", !.tree = w]]
  /\ UNCHANGED <<records, spawner, worker, recovery, sessions, crashes>>

PublishUncounted(c, n) ==
  LET w == cleaner[c].tree IN
  /\ cleaner[c].pc = "inspected"
  /\ records[n].state = "none" /\ \A x \in Cleaners : cleaner[x].op # n
  /\ boundary' = [boundary EXCEPT ![w].ret =
                    [op |-> n, state |-> "reserved", bound |-> FALSE]]
  /\ cleaner' = [cleaner EXCEPT ![c].pc = "published", ![c].op = n]
  /\ UNCHANGED <<records, spawner, worker, recovery, sessions, crashes>>

\* Under the publication lock: no admission inside, then the reservation is visible.
BeginPublishes(c, n) ==
  LET w == cleaner[c].tree IN
  /\ cleaner[c].pc = "inspected"
  /\ NoneAdmitted(w)
  /\ records[n].state = "none" /\ \A x \in Cleaners : cleaner[x].op # n
  /\ boundary' = [boundary EXCEPT ![w].ret =
                    [op |-> n, state |-> "reserved", bound |-> FALSE]]
  /\ cleaner' = [cleaner EXCEPT ![c].pc = "published", ![c].op = n]
  /\ UNCHANGED <<records, spawner, worker, recovery, sessions, crashes>>

BeginRefused(c) ==
  LET w == cleaner[c].tree IN
  /\ cleaner[c].pc = "inspected"
  /\ ~NoneAdmitted(w)
  /\ boundary' = [boundary EXCEPT ![w].lock = Nil]
  /\ cleaner' = [cleaner EXCEPT ![c] = IdleCleaner]
  /\ UNCHANGED <<records, spawner, worker, recovery, sessions, crashes>>

BeginStores(c) ==
  LET w == cleaner[c].tree IN
  /\ cleaner[c].pc = "published"
  /\ records' = [records EXCEPT ![cleaner[c].op] =
                   [tree |-> w, state |-> "reserved", bound |-> FALSE]]
  /\ boundary' = [boundary EXCEPT ![w].lock = Nil]
  /\ cleaner' = [cleaner EXCEPT ![c].pc = "reserved"]
  /\ UNCHANGED <<spawner, worker, recovery, sessions, crashes>>

\* The write fails: the publication is taken back.
BeginUndone(c) ==
  LET w == cleaner[c].tree IN
  /\ cleaner[c].pc = "published"
  /\ boundary' = [boundary EXCEPT ![w].lock = Nil,
       ![w].ret = IF @.op = cleaner[c].op THEN NoneYet ELSE @]
  /\ cleaner' = [cleaner EXCEPT ![c] = IdleCleaner]
  /\ UNCHANGED <<records, spawner, worker, recovery, sessions, crashes>>

\* write_provider_request: the request file is bound to a record nobody has changed.
Bind(c) ==
  LET n == cleaner[c].op IN
  /\ cleaner[c].pc = "reserved"
  /\ records[n].state = "reserved" /\ ~records[n].bound
  /\ Announce(n, "reserved", TRUE)
  /\ cleaner' = [cleaner EXCEPT ![c].pc = "bound"]
  /\ UNCHANGED <<spawner, worker, recovery, sessions, crashes>>

\* It does not (the record changed, a write failed), or the worker does not start
\* (the record changed, no thread): the command will settle the record itself.
Falters(c) ==
  /\ \/ cleaner[c].pc = "reserved"
     \/ cleaner[c].pc = "bound" /\ worker[cleaner[c].op].pc = "none"
  /\ cleaner' = [cleaner EXCEPT ![c].pc = "failing",
       ![c].to = IF cleaner[c].pc = "reserved" THEN "failed" ELSE "recovery"]
  /\ UNCHANGED <<records, boundary, spawner, worker, recovery, sessions, crashes>>

\* start_provider_worker: at most one worker, for a record nobody has changed.
Start(c) ==
  LET n == cleaner[c].op IN
  /\ cleaner[c].pc = "bound"
  /\ \/ worker[n].pc # "none" /\ UNCHANGED worker
     \/ /\ worker[n].pc = "none"
        /\ records[n].state = "reserved"
        /\ worker' = [worker EXCEPT ![n].pc = "started"]
  /\ cleaner' = [cleaner EXCEPT ![c] = IdleCleaner]
  /\ UNCHANGED <<records, boundary, spawner, recovery, sessions, crashes>>

\* The transition of a failed command, whose own error is ignored.
Gives(c) ==
  LET n == cleaner[c].op
      to == cleaner[c].to
  IN
  /\ cleaner[c].pc = "failing"
  /\ \/ /\ Transition(n, to)
        /\ cleaner' = [cleaner EXCEPT ![c] =
             IF to \in Terminal THEN [@ EXCEPT !.pc = "reclaim"] ELSE IdleCleaner]
     \/ /\ cleaner' = [cleaner EXCEPT ![c] = IdleCleaner]
        /\ UNCHANGED <<records, boundary>>
  /\ UNCHANGED <<spawner, worker, recovery, sessions, crashes>>

CleanerRemoves(c) ==
  LET w == cleaner[c].tree IN
  /\ cleaner[c].pc = "reclaim"
  /\ boundary' = [boundary EXCEPT ![w] = Reclaimed(w, c)]
  /\ cleaner' = [cleaner EXCEPT ![c] = IdleCleaner]
  /\ UNCHANGED <<records, spawner, worker, recovery, sessions, crashes>>

-----------------------------------------------------------------------------
(* The worker.                                                             *)

Ending(n, out) == [worker EXCEPT ![n] = [pc |-> "finish", out |-> out]]

WorkerRuns(n) ==
  /\ worker[n].pc = "started"
  /\ Transition(n, "running")
  /\ worker' = [worker EXCEPT ![n].pc = "running"]
  /\ UNCHANGED <<spawner, cleaner, recovery, sessions, crashes>>

\* The request is missing or changed, the state cannot be stored, the provider does
\* not start, a pane is inside, or the containment fails.
WorkerStops(n) ==
  LET w == records[n].tree IN
  /\ worker[n].pc \in {"started", "running", "inspected"}
  /\ worker' = Ending(n, "recovery")
  /\ boundary' = IF worker[n].pc = "inspected"
                 THEN [boundary EXCEPT ![w].lock = Nil] ELSE boundary
  /\ UNCHANGED <<records, spawner, cleaner, recovery, sessions, crashes>>

InspectNothing(n) ==
  LET w == records[n].tree IN
  /\ worker[n].pc = "running"
  /\ boundary[w].lock = Nil
  /\ boundary' = [boundary EXCEPT ![w].lock = n]
  /\ worker' = [worker EXCEPT ![n].pc = "inspected"]
  /\ UNCHANGED <<records, spawner, cleaner, recovery, sessions, crashes>>

\* run_provider, under the coordination lock: the panes are looked at first ...
WorkerInspects(n) ==
  LET w == records[n].tree IN
  /\ worker[n].pc = "running"
  /\ boundary[w].lock = Nil
  /\ sessions \cap Inside(w) = {}
  /\ boundary' = [boundary EXCEPT ![w].lock = n]
  /\ worker' = [worker EXCEPT ![n].pc = "inspected"]
  /\ UNCHANGED <<records, spawner, cleaner, recovery, sessions, crashes>>

\* ... then the admissions and the record; the lock is let go before the provider runs.
WorkerAuthorizes(n) ==
  LET w == records[n].tree IN
  /\ worker[n].pc = "inspected"
  /\ NoneAdmitted(w)
  /\ records[n].state = "running"
  /\ boundary' = [boundary EXCEPT ![w].lock = Nil]
  /\ worker' = [worker EXCEPT ![n].pc = "cleaning"]
  /\ UNCHANGED <<records, spawner, cleaner, recovery, sessions, crashes>>

\* The provider ends, whichever way, within its timeout (classify_provider_output).
ProviderEnds(n) ==
  /\ worker[n].pc = "cleaning"
  /\ \E out \in Outcomes : worker' = Ending(n, out)
  /\ UNCHANGED <<records, boundary, spawner, cleaner, recovery, sessions, crashes>>

\* The last transition, whose own failure leaves the record to the next start.
WorkerFinishes(n) ==
  LET out == worker[n].out IN
  /\ worker[n].pc = "finish"
  /\ \/ /\ Transition(n, out)
        /\ worker' = [worker EXCEPT ![n] =
             IF out \in Terminal THEN [pc |-> "reclaim", out |-> "none"] ELSE NoWorker]
     \/ /\ worker' = [worker EXCEPT ![n] = NoWorker]
        /\ UNCHANGED <<records, boundary>>
  /\ UNCHANGED <<spawner, cleaner, recovery, sessions, crashes>>

WorkerRemoves(n) ==
  LET w == records[n].tree IN
  /\ worker[n].pc = "reclaim"
  /\ boundary' = [boundary EXCEPT ![w] = Reclaimed(w, n)]
  /\ worker' = [worker EXCEPT ![n] = NoWorker]
  /\ UNCHANGED <<records, spawner, cleaner, recovery, sessions, crashes>>

\* recover_worktree_artifacts: a worker for a record that waits for recovery.
ResumeAny(n) ==
  /\ records[n].state # "none"
  /\ worker[n].pc = "none"
  /\ worker' = [worker EXCEPT ![n].pc = "started"]
  /\ UNCHANGED <<records, boundary, spawner, cleaner, recovery, sessions, crashes>>

Resume(n) ==
  /\ Accepting
  /\ records[n].state = "recovery"
  /\ worker[n].pc = "none"
  /\ worker' = [worker EXCEPT ![n].pc = "started"]
  /\ UNCHANGED <<records, boundary, spawner, cleaner, recovery, sessions, crashes>>

-----------------------------------------------------------------------------
(* Death and recovery.                                                     *)

\* The panes outlive the process; its threads, the providers they supervise and the
\* guards do not.  load publishes what the file says is active.
Crash ==
  /\ crashes < MaxCrashes
  /\ crashes' = crashes + 1
  /\ boundary' = [p \in Paths |->
       IF \E n \in Ops : records[n].tree = p /\ records[n].state \in Active
       THEN LET n == CHOOSE n \in Ops : records[n].tree = p /\ records[n].state \in Active
            IN  [Unused EXCEPT !.ret = [op |-> n, state |-> records[n].state,
                                        bound |-> records[n].bound]]
       ELSE Unused]
  /\ spawner'  = [s \in Spawners |-> IdleSpawner]
  /\ cleaner'  = [c \in Cleaners |-> IdleCleaner]
  /\ worker'   = [n \in Ops |-> NoWorker]
  /\ recovery' = NotBegun
  /\ UNCHANGED <<records, sessions>>

\* pending_retirements
RecoveryLists ==
  /\ recovery.pc = "due"
  /\ recovery' = [recovery EXCEPT !.pc = "going",
       !.found = {[op |-> n, was |-> records[n]] :
                    n \in {m \in Ops : records[m].state \in Active}}]
  /\ UNCHANGED <<records, boundary, spawner, cleaner, worker, sessions, crashes>>

Recovered(f) == [recovery EXCEPT !.found = @ \ {f}]

\* An unbound reservation never reached a provider and is released.
RecoverUnbound(f) ==
  /\ f \in recovery.found /\ recovery.reclaim = Nil
  /\ f.was.state = "reserved" /\ ~f.was.bound
  /\ \/ /\ Transition(f.op, "failed")
        /\ recovery' = [Recovered(f) EXCEPT !.reclaim = f.was.tree]
     \/ recovery' = Recovered(f) /\ UNCHANGED <<records, boundary>>
  /\ UNCHANGED <<spawner, cleaner, worker, sessions, crashes>>

RecoveryRemoves ==
  LET w == recovery.reclaim IN
  /\ w # Nil
  /\ boundary' = [boundary EXCEPT ![w] = Reclaimed(w, Nil)]
  /\ recovery' = [recovery EXCEPT !.reclaim = Nil]
  /\ UNCHANGED <<records, spawner, cleaner, worker, sessions, crashes>>

\* A bound one is started again, unless it changed or no thread can be had.
RecoverBound(f) ==
  /\ f \in recovery.found /\ recovery.reclaim = Nil
  /\ f.was.state = "reserved" /\ f.was.bound
  /\ \/ UNCHANGED worker
     \/ /\ worker[f.op].pc = "none" /\ records[f.op] = f.was
        /\ worker' = [worker EXCEPT ![f.op].pc = "started"]
  /\ recovery' = Recovered(f)
  /\ UNCHANGED <<records, boundary, spawner, cleaner, sessions, crashes>>

\* One whose provider may have run stays reserved until somebody resumes it.
RecoverRunning(f) ==
  /\ f \in recovery.found /\ recovery.reclaim = Nil
  /\ f.was.state = "running"
  /\ \/ Transition(f.op, "recovery")
     \/ UNCHANGED <<records, boundary>>
  /\ recovery' = Recovered(f)
  /\ UNCHANGED <<spawner, cleaner, worker, sessions, crashes>>

RecoveryEnds ==
  /\ recovery.pc = "going" /\ recovery.reclaim = Nil
  /\ \A f \in recovery.found : f.was.state = "recovery"
  /\ recovery' = [recovery EXCEPT !.pc = "done", !.found = {}]
  /\ UNCHANGED <<records, boundary, spawner, cleaner, worker, sessions, crashes>>

-----------------------------------------------------------------------------
SpawnerStep(s) ==
  \/ \E p \in Paths : Admit(s, p)
  \/ Withdraw(s) \/ Open(s) \/ DropCounts(s) \/ DropLooks(s) \/ DropRemoves(s)

BeginStep(c) ==
  \/ \E n \in Ops : BeginPublishes(c, n)
  \/ BeginRefused(c) \/ BeginStores(c) \/ BeginUndone(c)

CleanerStep(c) ==
  \/ \E w \in Worktrees : BeginInspects(c, w)
  \/ BeginStep(c)
  \/ Bind(c) \/ Falters(c) \/ Start(c) \/ Gives(c) \/ CleanerRemoves(c)

WorkerStep(n) ==
  \/ WorkerRuns(n) \/ WorkerStops(n) \/ WorkerInspects(n) \/ WorkerAuthorizes(n)
  \/ ProviderEnds(n) \/ WorkerFinishes(n) \/ WorkerRemoves(n)

RecoveryStep ==
  \/ RecoveryLists \/ RecoveryRemoves \/ RecoveryEnds
  \/ \E f \in recovery.found : RecoverUnbound(f) \/ RecoverBound(f) \/ RecoverRunning(f)

Next ==
  \/ \E s \in Spawners : SpawnerStep(s)
  \/ \E d \in Dirs : Close(d)
  \/ \E c \in Cleaners : CleanerStep(c)
  \/ \E n \in Ops : WorkerStep(n) \/ Resume(n)
  \/ RecoveryStep
  \/ Crash

Spec == Init /\ [][Next]_vars

-----------------------------------------------------------------------------
(* Properties.                                                             *)

\* The file can be loaded after a death at any point: one active retirement for each
\* worktree, and no provider state without a bound request (validate_snapshot).
SnapshotLoads ==
  \A n \in Ops :
    /\ records[n].state \in {"running", "recovery"} => records[n].bound
    /\ \A m \in Ops \ {n} :
         records[n].state \in Active /\ records[m].state \in Active
           => records[n].tree # records[m].tree

TypeOK ==
  /\ records \in [Ops -> Record]
  /\ boundary \in [Paths -> [adm : 0 .. Cardinality(Spawners), ret : Published,
                             lock : Cleaners \cup Ops \cup {Nil}]]
  /\ spawner \in [Spawners ->
       [pc : {"idle", "admitted", "refused", "dropped", "reclaim"},
        path : Paths \cup {Nil}]]
  /\ cleaner \in [Cleaners ->
       [pc : {"idle", "inspected", "published", "reserved", "bound", "failing", "reclaim"},
        tree : Worktrees \cup {Nil}, op : Ops \cup {Nil},
        to : {"none", "failed", "recovery"}]]
  /\ worker \in [Ops ->
       [pc : {"none", "started", "running", "inspected", "cleaning", "finish", "reclaim"},
        out : Outcomes \cup {"none"}]]
  /\ recovery \in [pc : {"due", "going", "done"},
                   found : SUBSET [op : Ops, was : Record], reclaim : Paths \cup {Nil}]
  /\ sessions \subseteq Dirs
  /\ crashes \in 0 .. MaxCrashes
  /\ SnapshotLoads

\* No activity is admitted in a directory whose worktree is reserved, from the stored
\* reservation to its end, over crashes (admit_activity: "refusing it while that
\* directory is reserved for Cargo cleanup").
AdmissionExclusive ==
  \A s \in Spawners, n \in Ops :
    spawner[s].pc = "admitted" /\ records[n].state \in Active
      => records[n].tree \notin Within[spawner[s].path]

\* While a provider cleans a worktree no pane is inside, nothing is being admitted
\* there, and no second provider runs (run_provider).
ProviderRunsAlone ==
  \A n \in Ops : worker[n].pc = "cleaning" =>
    /\ sessions \cap Inside(records[n].tree) = {}
    /\ \A s \in Spawners : spawner[s].pc = "admitted"
                             => spawner[s].path \notin Inside(records[n].tree)
    /\ \A m \in Ops \ {n} : worker[m].pc = "cleaning"
                              => records[m].tree # records[n].tree

\* A retirement that ended stays ended as it did, whoever still holds its record.
EndsOnce ==
  \A n \in Ops : records[n].state \in Terminal => records'[n] = records[n]

OutcomeIsFinal == [][EndsOnce]_vars
=============================================================================
