-------------------------- MODULE RetirementProofs --------------------------
(***************************************************************************)
(* WorktreeRetirement for every set of worktrees, every nesting of paths   *)
(* and every number of threads: a reserved worktree admits nobody, its     *)
(* provider runs alone, and the file can always be loaded.                 *)
(*                                                                         *)
(* Both races are assumed away, since with either of them the theorems are *)
(* false: retirement_reclaim shows the first, and the second is a listed   *)
(* hazard.                                                                 *)
(***************************************************************************)
EXTENDS WorktreeRetirement, FiniteSetTheorems, TLAPS

NoRaces == Races = {}

(* A stored record names its worktree.                                     *)
Stored == \A n \in Ops : records[n].state = "none" <=> records[n].tree = Nil

(* The map shows every active retirement of the file.                      *)
Shown ==
  \A n \in Ops : records[n].state \in Active =>
    boundary[records[n].tree].ret =
      [op |-> n, state |-> records[n].state, bound |-> records[n].bound]

(* A command in progress owns its record, which no worker has yet, and the *)
(* lock until the record is stored.                                        *)
Owns(c) == cleaner[c].pc \in {"published", "reserved", "bound", "failing"}

CleanerOwns(c) ==
  LET pc == cleaner[c].pc
      w  == cleaner[c].tree
      n  == cleaner[c].op
  IN
  /\ pc # "idle" => recovery.pc = "done" /\ w \in Worktrees
  /\ pc \in {"inspected", "published"} => boundary[w].lock = c
  /\ pc = "inspected" => boundary[w].ret.state \notin Active
  /\ pc = "published" =>
       /\ records[n].state = "none"
       /\ boundary[w].ret.op = n /\ boundary[w].ret.state = "reserved"
  /\ pc \in {"reserved", "bound", "failing"} => records[n].state = "reserved"
  /\ pc = "failing" => cleaner[c].to # "none"
  /\ Owns(c) => n \in Ops /\ worker[n].pc = "none"

CleanersOwn ==
  /\ \A c \in Cleaners : CleanerOwns(c)
  /\ \A c, x \in Cleaners :
       c # x /\ Owns(c) /\ Owns(x) => cleaner[x].op # cleaner[c].op

(* A new reservation is published without a request; a worker is started   *)
(* with one.                                                               *)
RequestFits(c) ==
  LET pc == cleaner[c].pc
      w  == cleaner[c].tree
      n  == cleaner[c].op
  IN
  /\ pc = "published" =>
       boundary[w].ret = [op |-> n, state |-> "reserved", bound |-> FALSE]
  /\ pc = "bound" \/ (pc = "failing" /\ cleaner[c].to = "recovery") => records[n].bound

RequestsFit == \A c \in Cleaners : RequestFits(c)

(* A worker owns an active record with a request, until it has ended it.   *)
Working == {"started", "running", "inspected", "cleaning", "finish"}

WorkerOwns(n) ==
  LET pc == worker[n].pc IN
  /\ pc # "none" => recovery.pc # "due" /\ records[n].state # "none"
  /\ pc \in Working => records[n].state \in Active /\ records[n].bound
  /\ pc \in {"running", "inspected", "cleaning"} => records[n].state = "running"
  /\ pc = "inspected" => boundary[records[n].tree].lock = n
  /\ pc \in {"inspected", "cleaning"} => sessions \cap Inside(records[n].tree) = {}
  /\ pc = "finish" => worker[n].out \in Outcomes

WorkersOwn == \A n \in Ops : WorkerOwns(n)

(* Whoever holds a lock is at work on what it guards.                      *)
LockHeld(p) ==
  LET x == boundary[p].lock IN
  x # Nil => \/ x \in Cleaners /\ cleaner[x].pc \in {"inspected", "published"}
                               /\ cleaner[x].tree = p
             \/ x \in Ops /\ worker[x].pc = "inspected" /\ records[x].tree = p

LocksHeld == \A p \in Paths : LockHeld(p)

(* What recovery has still to do is as it found it.                        *)
RecoveryOwns ==
  \A f \in recovery.found :
    /\ recovery.pc = "going"
    /\ records[f.op] = f.was /\ f.was.state \in Active
    /\ worker[f.op].pc = "none"

(* Every guard is counted in its boundary.                                 *)
Guards(p) ==
  {s \in Spawners : spawner[s].pc \in {"admitted", "refused"} /\ spawner[s].path = p}

Counted ==
  /\ \A p \in Paths : boundary[p].adm = Cardinality(Guards(p))
  /\ \A s \in Spawners : spawner[s].pc # "idle" => spawner[s].path \in Paths

(* No activity is admitted where a reservation is shown.                   *)
Excluded ==
  \A s \in Spawners : spawner[s].pc = "admitted" =>
    \A w \in Within[spawner[s].path] : ~Reserved(w)

RetirementInv ==
  /\ TypeOK /\ Stored /\ Shown /\ CleanersOwn /\ RequestsFit /\ WorkersOwn
  /\ LocksHeld /\ RecoveryOwns /\ Counted /\ Excluded

BoundaryType == [adm : 0 .. Cardinality(Spawners), ret : Published,
                 lock : Cleaners \cup Ops \cup {Nil}]
SpawnerType  == [pc : {"idle", "admitted", "refused", "dropped", "reclaim"},
                 path : Paths \cup {Nil}]
CleanerType  == [pc : {"idle", "inspected", "published", "reserved", "bound", "failing",
                       "reclaim"},
                 tree : Worktrees \cup {Nil}, op : Ops \cup {Nil},
                 to : {"none", "failed", "recovery"}]
WorkerType   == [pc : {"none", "started", "running", "inspected", "cleaning", "finish",
                       "reclaim"},
                 out : Outcomes \cup {"none"}]
RecoveryType == [pc : {"due", "going", "done"},
                 found : SUBSET [op : Ops, was : Record], reclaim : Paths \cup {Nil}]

LEMMA Types ==
  TypeOK <=> /\ records \in [Ops -> Record] /\ boundary \in [Paths -> BoundaryType]
             /\ spawner \in [Spawners -> SpawnerType] /\ cleaner \in [Cleaners -> CleanerType]
             /\ worker \in [Ops -> WorkerType] /\ recovery \in RecoveryType
             /\ sessions \subseteq Dirs /\ crashes \in 0 .. MaxCrashes /\ SnapshotLoads
BY DEF TypeOK, BoundaryType, SpawnerType, CleanerType, WorkerType, RecoveryType

-----------------------------------------------------------------------------
(* What a step may do to the records in N, to the locks of L and to the    *)
(* rest of the map.                                                        *)
MapStep(N, L) ==
  /\ records' \in [Ops -> Record] /\ SnapshotLoads' /\ Stored' /\ Shown' /\ EndsOnce
  /\ boundary' \in [Paths -> BoundaryType]
  /\ \A n \in Ops : /\ n \notin N => records'[n] = records[n]
                    /\ records[n].state # "none" => records'[n].tree = records[n].tree
  /\ \A p \in Paths :
       /\ p \notin L => boundary'[p].lock = boundary[p].lock
       /\ Reserved(p)' => Reserved(p)
       /\ \A c \in Cleaners :
            p \notin L /\ cleaner[c].pc = "published" /\ cleaner[c].tree = p
              => boundary'[p].ret = boundary[p].ret

GuardsKept == \A p \in Paths : boundary'[p].adm = boundary[p].adm

LEMMA Constants ==
  /\ Worktrees \subseteq Paths /\ Unscoped \in Paths /\ Nil \notin Paths
  /\ \A w \in Worktrees : w \in Inside(w)
  /\ IsFiniteSet(Spawners) /\ Cardinality(Spawners) \in Nat
BY RetirementAssumption, FS_CardinalityType DEF Paths, Inside

LEMMA GuardsFacts ==
  ASSUME NEW p
  PROVE  /\ IsFiniteSet(Guards(p)) /\ Cardinality(Guards(p)) \in Nat
         /\ Cardinality(Guards(p)) <= Cardinality(Spawners)
         /\ Cardinality(Guards(p)) = 0 <=> Guards(p) = {}
<1>1. Guards(p) \in SUBSET Spawners
  BY DEF Guards
<1> QED BY <1>1, Constants, FS_Subset, FS_CardinalityType, FS_EmptySet

(* Nothing is admitted where nothing is counted.                           *)
LEMMA NoneAdmittedFacts ==
  ASSUME RetirementInv, NEW w \in Worktrees, NoneAdmitted(w), NEW s \in Spawners,
         spawner[s].pc = "admitted"
  PROVE  w \notin Within[spawner[s].path]
<1>1. spawner[s].path \in Paths
  BY DEF RetirementInv, Counted
<1>2. s \in Guards(spawner[s].path)
  BY DEF Guards
<1>3. boundary[spawner[s].path].adm # 0
  BY <1>1, <1>2, GuardsFacts DEF RetirementInv, Counted
<1> QED BY <1>1, <1>3 DEF NoneAdmitted, Inside

LEMMA ActiveFacts ==
  ASSUME RetirementInv, NEW n \in Ops, records[n].state \in Active
  PROVE  /\ records[n].tree \in Worktrees /\ records[n].tree \in Paths
         /\ Reserved(records[n].tree)
         /\ boundary[records[n].tree].ret.op = n
<1>1. records[n].state # "none" /\ records[n] \in Record
  BY DEF Active, RetirementInv, TypeOK
<1>2. records[n].tree \in Worktrees
  BY <1>1 DEF RetirementInv, Stored, Record
<1>3. boundary[records[n].tree].ret =
        [op |-> n, state |-> records[n].state, bound |-> records[n].bound]
  BY DEF RetirementInv, Shown
<1> QED BY <1>2, <1>3, Constants DEF Reserved

LEMMA PublishedFacts ==
  ASSUME RetirementInv, NEW c \in Cleaners, cleaner[c].pc = "published"
  PROVE  /\ cleaner[c].tree \in Worktrees /\ cleaner[c].tree \in Paths
         /\ cleaner[c].op \in Ops /\ records[cleaner[c].op].state = "none"
         /\ Reserved(cleaner[c].tree) /\ boundary[cleaner[c].tree].ret.op = cleaner[c].op
<1>1. CleanersOwn /\ Owns(c)
  BY DEF RetirementInv, Owns
<1>2. /\ cleaner[c].tree \in Worktrees /\ cleaner[c].op \in Ops
      /\ records[cleaner[c].op].state = "none"
      /\ boundary[cleaner[c].tree].ret.op = cleaner[c].op
      /\ boundary[cleaner[c].tree].ret.state = "reserved"
  BY <1>1 DEF CleanersOwn, CleanerOwns
<1> QED BY <1>2, Constants DEF Reserved, Active

LEMMA QuietMap ==
  ASSUME RetirementInv, UNCHANGED <<records, boundary>>
  PROVE  MapStep({}, {}) /\ GuardsKept
BY DEF RetirementInv, MapStep, GuardsKept, TypeOK, BoundaryType, Stored, Shown, SnapshotLoads, EndsOnce,
       Reserved

(* A boundary is removed when it holds no lock, no guard and no active     *)
(* retirement.                                                             *)
LEMMA ReclaimMap ==
  ASSUME RetirementInv, NoRaces, NEW p \in Paths, NEW x,
         x \in Spawners => spawner[x].pc = "reclaim",
         x \in Cleaners => cleaner[x].pc = "reclaim",
         x \in Ops => worker[x].pc = "reclaim",
         boundary' = [boundary EXCEPT ![p] = Reclaimed(p, x)], UNCHANGED records
  PROVE  MapStep({}, {}) /\ GuardsKept
<1>0. /\ TypeOK /\ Stored /\ Shown /\ CleanersOwn /\ LocksHeld /\ Counted
      /\ boundary \in [Paths -> BoundaryType]
  BY DEF RetirementInv, TypeOK, BoundaryType
<1>1. CASE Reclaimed(p, x) = boundary[p]
  <2>1. boundary' = boundary
    BY <1>0, <1>1
  <2> QED BY <2>1, QuietMap
<1>2. CASE Reclaimed(p, x) # boundary[p]
  <2>1. Holders(p) \subseteq {x} /\ ~Reserved(p) /\ boundary' = [boundary EXCEPT ![p] = Unused]
    BY <1>2 DEF Reclaimed, NoRaces
  <2>2. Guards(p) = {}
    <3>1. ASSUME NEW s \in Guards(p) PROVE FALSE
      <4>1. s \in Holders(p) /\ s \in Spawners /\ spawner[s].pc # "reclaim"
        BY DEF Holders, Guards
      <4> QED BY <2>1, <4>1
    <3> QED BY <3>1
  <2>3. boundary[p].adm = 0
    BY <1>0, <2>2, GuardsFacts DEF Counted
  <2>4. boundary[p].lock = Nil
    <3> SUFFICES ASSUME boundary[p].lock # Nil PROVE FALSE
      OBVIOUS
    <3> DEFINE y == boundary[p].lock
    <3>1. \/ y \in Cleaners /\ cleaner[y].pc \in {"inspected", "published"} /\ cleaner[y].tree = p
          \/ y \in Ops /\ worker[y].pc = "inspected" /\ records[y].tree = p
      BY <1>0 DEF LocksHeld, LockHeld
    <3>2. y \in Holders(p)
      BY <3>1 DEF Holders
    <3>3. y = x
      BY <2>1, <3>2
    <3> QED BY <3>1, <3>3
  <2>5. Unused \in BoundaryType /\ Unused.adm = 0 /\ Unused.lock = Nil
        /\ Unused.ret.state = "none"
    BY Constants DEF Unused, BoundaryType, Published, NoneYet, States
  <2>6. /\ boundary' \in [Paths -> BoundaryType]
        /\ boundary'[p] = Unused
        /\ \A q \in Paths \ {p} : boundary'[q] = boundary[q]
    BY <1>0, <2>1, <2>5
  <2>7. ASSUME NEW q \in Paths
        PROVE  /\ boundary'[q].lock = boundary[q].lock /\ boundary'[q].adm = boundary[q].adm
               /\ Reserved(q)' => Reserved(q)
    BY <2>3, <2>4, <2>5, <2>6 DEF Reserved, Active
  <2>8. ASSUME NEW c \in Cleaners, cleaner[c].pc = "published"
        PROVE  boundary'[cleaner[c].tree].ret = boundary[cleaner[c].tree].ret
    <3> QED BY <2>1, <2>6, <2>8, PublishedFacts
  <2>9. Shown'
    <3>1. ASSUME NEW n \in Ops, records[n].state \in Active
          PROVE  boundary'[records[n].tree] = boundary[records[n].tree]
      BY <2>1, <2>6, <3>1, ActiveFacts
    <3> QED BY <1>0, <3>1 DEF Shown
  <2>10. records' = records /\ SnapshotLoads' /\ Stored' /\ EndsOnce
    BY <1>0 DEF TypeOK, SnapshotLoads, Stored, EndsOnce
  <2> QED BY <1>0, <2>6, <2>7, <2>8, <2>9, <2>10 DEF MapStep, GuardsKept, TypeOK
<1> QED BY <1>1, <1>2

(* A transition of an active retirement.                                   *)
LEMMA AnnounceMap ==
  ASSUME RetirementInv, NEW n \in Ops, records[n].state \in Active,
         NEW state \in States \ {"none"}, NEW bound \in BOOLEAN,
         state \in {"running", "recovery"} => bound, records[n].bound => bound,
         Announce(n, state, bound)
  PROVE  /\ MapStep({n}, {}) /\ GuardsKept
         /\ records'[n].state = state /\ (records'[n].bound <=> bound)
<1> DEFINE w == records[n].tree
           now == [tree |-> w, state |-> state, bound |-> bound]
<1>0. /\ TypeOK /\ Stored /\ Shown /\ CleanersOwn /\ SnapshotLoads
      /\ boundary \in [Paths -> BoundaryType] /\ records \in [Ops -> Record]
  BY DEF RetirementInv, TypeOK, BoundaryType
<1>1. /\ w \in Worktrees /\ w \in Paths /\ Reserved(w) /\ boundary[w].ret.op = n
  BY ActiveFacts
<1>2. /\ records' = [records EXCEPT ![n] = now]
      /\ boundary' = [boundary EXCEPT ![w].ret = [op |-> n, state |-> state, bound |-> bound]]
  BY DEF Announce
<1>3. now \in Record /\ now.state = state /\ now.tree = w
  BY <1>1 DEF Record
<1>4. now.bound <=> bound
  OBVIOUS
<1> HIDE DEF now
<1>5. /\ records' \in [Ops -> Record] /\ records'[n] = now
      /\ \A m \in Ops \ {n} : records'[m] = records[m]
  BY <1>0, <1>2, <1>3
<1>6. [op |-> n, state |-> state, bound |-> bound] \in Published
  BY DEF Published
<1>7. /\ boundary' \in [Paths -> BoundaryType]
      /\ \A q \in Paths \ {w} : boundary'[q] = boundary[q]
      /\ boundary'[w].lock = boundary[w].lock /\ boundary'[w].adm = boundary[w].adm
      /\ boundary'[w].ret = [op |-> n, state |-> state, bound |-> bound]
  BY <1>0, <1>1, <1>2, <1>6 DEF BoundaryType
<1>8. ASSUME NEW m \in Ops \ {n}, records[m].state \in Active
      PROVE  records[m].tree # w
  BY <1>0, <1>8 DEF SnapshotLoads
<1>9. SnapshotLoads'
  BY <1>0, <1>3, <1>4, <1>5, <1>8 DEF SnapshotLoads
<1>10. Stored'
  BY <1>0, <1>1, <1>3, <1>5, Constants DEF Stored
<1>11. Shown'
  <2>1. ASSUME NEW m \in Ops \ {n}, records[m].state \in Active
        PROVE  boundary'[records[m].tree] = boundary[records[m].tree]
    BY <1>7, <1>8, <2>1, ActiveFacts
  <2>2. now.bound = bound
    BY <1>4, <1>3 DEF Record
  <2> QED BY <1>0, <1>3, <1>5, <1>7, <2>1, <2>2 DEF Shown
<1>12. EndsOnce
  BY <1>5 DEF EndsOnce, Active, Terminal
<1>13. ASSUME NEW q \in Paths
       PROVE  /\ boundary'[q].lock = boundary[q].lock /\ boundary'[q].adm = boundary[q].adm
              /\ Reserved(q)' => Reserved(q)
  BY <1>1, <1>7 DEF Reserved
<1>14. ASSUME NEW c \in Cleaners, cleaner[c].pc = "published"
       PROVE  boundary'[cleaner[c].tree].ret = boundary[cleaner[c].tree].ret
  <2>1. /\ cleaner[c].tree \in Paths
        /\ boundary[cleaner[c].tree].ret.op = cleaner[c].op
        /\ records[cleaner[c].op].state = "none"
    BY <1>14, PublishedFacts
  <2>2. cleaner[c].tree # w
    BY <1>1, <2>1 DEF Active
  <2> QED BY <1>7, <2>1, <2>2
<1>15. \A m \in Ops : /\ m \notin {n} => records'[m] = records[m]
                      /\ records'[m].tree = records[m].tree
  BY <1>3, <1>5
<1> QED BY <1>3, <1>4, <1>5, <1>7, <1>9, <1>10, <1>11, <1>12, <1>13, <1>14, <1>15
       DEF MapStep, GuardsKept

-----------------------------------------------------------------------------
(* What the threads that take no part in such a step are left with.        *)
LEMMA GuardsLeft ==
  ASSUME RetirementInv, NEW N, NEW L, MapStep(N, L), GuardsKept, UNCHANGED spawner
  PROVE  Counted' /\ Excluded'
<1>1. \A p \in Paths : Guards(p)' = Guards(p)
  BY DEF Guards
<1>2. Counted'
  BY <1>1 DEF RetirementInv, Counted, GuardsKept
<1>3. ASSUME NEW s \in Spawners, spawner[s].pc = "admitted", NEW w \in Within[spawner[s].path]
      PROVE  ~Reserved(w)'
  <2>1. spawner[s].path \in Paths
    BY <1>3 DEF RetirementInv, Counted
  <2>2. w \in Paths
    BY <2>1, Constants, RetirementAssumption
  <2>3. ~Reserved(w)
    BY <1>3 DEF RetirementInv, Excluded
  <2> QED BY <2>2, <2>3 DEF MapStep
<1> QED BY <1>2, <1>3 DEF Excluded

LEMMA CleanerLeft ==
  ASSUME RetirementInv, NEW N, NEW L, MapStep(N, L), NEW c \in Cleaners,
         cleaner'[c] = cleaner[c],
         recovery.pc = "done" => recovery'.pc = "done",
         Owns(c) => worker'[cleaner[c].op].pc = "none",
         Owns(c) => cleaner[c].op \notin N,
         cleaner[c].pc \in {"inspected", "published"} => cleaner[c].tree \notin L
  PROVE  CleanerOwns(c)' /\ RequestFits(c)'
<1> DEFINE w == cleaner[c].tree
           n == cleaner[c].op
<1>0. CleanerOwns(c) /\ RequestFits(c) /\ Stored
  BY DEF RetirementInv, CleanersOwn, RequestsFit
<1>1. cleaner[c].pc # "idle" => recovery'.pc = "done" /\ w \in Worktrees /\ w \in Paths
  BY <1>0, Constants DEF CleanerOwns
<1>2. cleaner[c].pc \in {"inspected", "published"} => boundary'[w].lock = c
  BY <1>0, <1>1 DEF CleanerOwns, MapStep
<1>3. cleaner[c].pc = "inspected" => boundary'[w].ret.state \notin Active
  BY <1>0, <1>1 DEF CleanerOwns, MapStep, Reserved
<1>4. cleaner[c].pc = "published" =>
        /\ n \in Ops /\ records'[n].state = "none" /\ boundary'[w].ret = boundary[w].ret
  BY <1>0, <1>1, PublishedFacts DEF MapStep, Owns
<1>5. cleaner[c].pc \in {"reserved", "bound", "failing"} => n \in Ops /\ records'[n] = records[n]
  BY <1>0 DEF CleanerOwns, MapStep, Owns
<1>6. Owns(c) => n \in Ops /\ worker'[n].pc = "none"
  BY <1>0 DEF CleanerOwns
<1>7. Owns(c)' <=> Owns(c)
  BY DEF Owns
<1>8. CleanerOwns(c)'
  BY <1>0, <1>1, <1>2, <1>3, <1>4, <1>5, <1>6, <1>7 DEF CleanerOwns
<1>9. RequestFits(c)'
  BY <1>0, <1>4, <1>5 DEF RequestFits
<1> QED BY <1>8, <1>9

LEMMA WorkerLeft ==
  ASSUME RetirementInv, NEW N, NEW L, MapStep(N, L), NEW n \in Ops \ N,
         worker'[n] = worker[n],
         recovery'.pc = "due" => recovery.pc = "due",
         worker[n].pc \in {"inspected", "cleaning"} =>
           sessions' \cap Inside(records[n].tree) = {},
         worker[n].pc = "inspected" => records[n].tree \notin L
  PROVE  WorkerOwns(n)'
<1>1. WorkerOwns(n) /\ records'[n] = records[n]
  BY DEF RetirementInv, WorkersOwn, MapStep
<1>2. worker[n].pc = "inspected" => boundary'[records[n].tree].lock = n
  <2>1. worker[n].pc = "inspected" => records[n].state \in Active
    BY <1>1 DEF WorkerOwns, Working
  <2> QED BY <1>1, <2>1, ActiveFacts DEF WorkerOwns, MapStep
<1>3. Inside(records[n].tree)' = Inside(records[n].tree)
  BY <1>1 DEF Inside
<1> QED BY <1>1, <1>2, <1>3 DEF WorkerOwns

LEMMA LockLeft ==
  ASSUME RetirementInv, NEW N, NEW L, MapStep(N, L), NEW p \in Paths \ L,
         \A c \in Cleaners : cleaner[c].pc \in {"inspected", "published"}
                               => cleaner'[c] = cleaner[c] \/ cleaner[c].tree # p,
         \A n \in Ops : worker[n].pc = "inspected"
                          => worker'[n] = worker[n] \/ records[n].tree # p
  PROVE  LockHeld(p)'
<1>1. LockHeld(p) /\ boundary'[p].lock = boundary[p].lock
  BY DEF RetirementInv, LocksHeld, MapStep
<1>2. ASSUME NEW n \in Ops, worker[n].pc = "inspected"
      PROVE  records'[n].tree = records[n].tree
  BY <1>2 DEF RetirementInv, WorkersOwn, WorkerOwns, MapStep
<1> QED BY <1>1, <1>2 DEF LockHeld

-----------------------------------------------------------------------------
(* The threads that admit activity, and the panes they open.               *)

LEMMA ActivityLeavesTheRest ==
  ASSUME RetirementInv, MapStep({}, {}), UNCHANGED <<cleaner, worker, recovery, crashes>>,
         sessions' \subseteq Dirs,
         \A n \in Ops : worker[n].pc \in {"inspected", "cleaning"} =>
           sessions' \cap Inside(records[n].tree) = {},
         spawner' \in [Spawners ->
           [pc : {"idle", "admitted", "refused", "dropped", "reclaim"},
            path : Paths \cup {Nil}]],
         Counted', Excluded'
  PROVE  RetirementInv'
<1>0. TypeOK /\ CleanersOwn /\ RecoveryOwns
  BY DEF RetirementInv
<1>1. TypeOK'
  BY <1>0 DEF TypeOK, MapStep, BoundaryType
<1>2. CleanersOwn' /\ RequestsFit'
  <2>1. ASSUME NEW c \in Cleaners
        PROVE  CleanerOwns(c)' /\ RequestFits(c)'
    BY <1>0, CleanerLeft DEF CleanersOwn, CleanerOwns
  <2> QED BY <1>0, <2>1 DEF CleanersOwn, RequestsFit, Owns
<1>3. WorkersOwn'
  BY WorkerLeft DEF WorkersOwn
<1>4. LocksHeld'
  BY LockLeft DEF LocksHeld
<1>5. RecoveryOwns'
  BY <1>0 DEF RecoveryOwns, MapStep, TypeOK
<1> QED BY <1>1, <1>2, <1>3, <1>4, <1>5 DEF RetirementInv, MapStep

(* A step of a spawner's own that leaves the guards alone.                 *)
LEMMA GuardsSame ==
  ASSUME RetirementInv, NEW s \in Spawners, NEW v,
         MapStep({}, {}), GuardsKept, spawner' = [spawner EXCEPT ![s] = v],
         spawner[s].pc \notin {"admitted", "refused"}, v.pc \notin {"admitted", "refused"},
         v.pc # "idle" => v.path \in Paths
  PROVE  Counted' /\ Excluded'
<1>0. spawner \in [Spawners -> [pc : {"idle", "admitted", "refused", "dropped", "reclaim"},
                                path : Paths \cup {Nil}]]
  BY DEF RetirementInv, TypeOK
<1>1. /\ spawner'[s] = v
      /\ \A x \in Spawners \ {s} : spawner'[x] = spawner[x]
  BY <1>0
<1>2. \A p \in Paths : Guards(p)' = Guards(p)
  BY <1>1 DEF Guards
<1>3. Counted'
  BY <1>1, <1>2 DEF RetirementInv, Counted, GuardsKept
<1>4. ASSUME NEW x \in Spawners, spawner'[x].pc = "admitted", NEW w \in Within[spawner'[x].path]
      PROVE  ~Reserved(w)'
  <2>1. spawner'[x] = spawner[x]
    BY <1>1, <1>4
  <2>2. spawner[x].path \in Paths
    BY <1>4, <2>1 DEF RetirementInv, Counted
  <2>3. w \in Paths
    BY <1>4, <2>1, <2>2, Constants, RetirementAssumption
  <2>4. ~Reserved(w)
    BY <1>4, <2>1 DEF RetirementInv, Excluded
  <2> QED BY <2>3, <2>4 DEF MapStep
<1> QED BY <1>3, <1>4 DEF Excluded

(* A step that changes only a count of the map.                            *)
LEMMA CountMap ==
  ASSUME RetirementInv, NEW p \in Paths, NEW k \in 0 .. Cardinality(Spawners),
         boundary' = [boundary EXCEPT ![p].adm = k], UNCHANGED records
  PROVE  /\ MapStep({}, {})
         /\ boundary'[p].adm = k
         /\ \A q \in Paths : /\ q # p => boundary'[q].adm = boundary[q].adm
                             /\ Reserved(q)' <=> Reserved(q)
<1>0. /\ boundary \in [Paths -> BoundaryType] /\ records \in [Ops -> Record] /\ SnapshotLoads
      /\ Stored /\ Shown
  BY DEF RetirementInv, TypeOK, BoundaryType
<1>1. /\ boundary' \in [Paths -> BoundaryType]
      /\ boundary'[p].adm = k
      /\ \A q \in Paths : /\ q # p => boundary'[q].adm = boundary[q].adm
                          /\ boundary'[q].lock = boundary[q].lock
                          /\ boundary'[q].ret = boundary[q].ret
  BY <1>0 DEF BoundaryType
<1>2. Shown'
  BY <1>0, <1>1, ActiveFacts DEF Shown
<1>3. Stored' /\ SnapshotLoads' /\ EndsOnce
  BY <1>0 DEF Stored, SnapshotLoads, EndsOnce
<1> QED BY <1>0, <1>1, <1>2, <1>3 DEF MapStep, Reserved

LEMMA AdmitKeepsInv ==
  ASSUME RetirementInv, NEW s \in Spawners, NEW p \in Paths, Admit(s, p)
  PROVE  RetirementInv'
<1>0. TypeOK /\ Counted /\ Excluded /\ WorkersOwn
  BY DEF RetirementInv
<1>1. /\ spawner[s].pc = "idle"
      /\ boundary' = [boundary EXCEPT ![p].adm = boundary[p].adm + 1]
      /\ UNCHANGED <<records, cleaner, worker, recovery, sessions, crashes>>
  BY DEF Admit
<1>2. PICK pc \in {"admitted", "refused"} :
        /\ spawner' = [spawner EXCEPT ![s] = [pc |-> pc, path |-> p]]
        /\ pc = "admitted" => \A w \in Within[p] : ~Reserved(w)
  <2>1. p \in Paths => Within[p] \subseteq Worktrees
    BY RetirementAssumption
  <2> QED BY <2>1 DEF Admit
<1>3. /\ spawner' \in [Spawners -> [pc : {"idle", "admitted", "refused", "dropped", "reclaim"},
                                    path : Paths \cup {Nil}]]
      /\ spawner'[s].pc = pc /\ spawner'[s].path = p
      /\ \A x \in Spawners \ {s} : spawner'[x] = spawner[x]
  BY <1>0, <1>2 DEF TypeOK
<1>4. /\ \A q \in Paths \ {p} : Guards(q)' = Guards(q)
      /\ Guards(p)' = Guards(p) \cup {s} /\ s \notin Guards(p)
  BY <1>1, <1>3 DEF Guards
<1>5. /\ Cardinality(Guards(p)') = Cardinality(Guards(p)) + 1
      /\ Cardinality(Guards(p)') <= Cardinality(Spawners)
      /\ Cardinality(Guards(p)) \in Nat /\ boundary[p].adm = Cardinality(Guards(p))
  <2>1. IsFiniteSet(Guards(p)) /\ Cardinality(Guards(p)) \in Nat
    BY GuardsFacts
  <2>2. Cardinality(Guards(p)') = Cardinality(Guards(p)) + 1
    BY <1>4, <2>1, FS_AddElement
  <2>3. Guards(p)' \in SUBSET Spawners
    BY DEF Guards
  <2>4. Cardinality(Guards(p)') <= Cardinality(Spawners)
    BY <2>3, Constants, FS_Subset
  <2> QED BY <1>0, <2>1, <2>2, <2>4 DEF Counted
<1>6. boundary[p].adm + 1 \in 0 .. Cardinality(Spawners)
  BY <1>5, Constants
<1>7. /\ MapStep({}, {}) /\ boundary'[p].adm = boundary[p].adm + 1
      /\ \A q \in Paths : /\ q # p => boundary'[q].adm = boundary[q].adm
                          /\ Reserved(q)' <=> Reserved(q)
  BY <1>1, <1>6, CountMap
<1>8. Counted'
  <2>1. ASSUME NEW q \in Paths PROVE boundary'[q].adm = Cardinality(Guards(q)')
    <3>1. CASE q = p
      BY <1>5, <1>7, <3>1
    <3>2. CASE q # p
      BY <1>0, <1>4, <1>7, <3>2 DEF Counted
    <3> QED BY <3>1, <3>2
  <2>2. \A x \in Spawners : spawner'[x].pc # "idle" => spawner'[x].path \in Paths
    BY <1>0, <1>3 DEF Counted
  <2> QED BY <2>1, <2>2 DEF Counted
<1>9. Excluded'
  <2> SUFFICES ASSUME NEW x \in Spawners, spawner'[x].pc = "admitted",
                      NEW w \in Within[spawner'[x].path]
               PROVE  ~Reserved(w)'
    BY DEF Excluded
  <2>1. spawner'[x].path \in Paths
    BY <1>8 DEF Counted
  <2>2. w \in Paths
    BY <2>1, Constants, RetirementAssumption
  <2>3. ~Reserved(w)
    BY <1>0, <1>2, <1>3 DEF Excluded
  <2> QED BY <1>7, <2>2, <2>3
<1> QED BY <1>0, <1>1, <1>3, <1>7, <1>8, <1>9, ActivityLeavesTheRest
         DEF TypeOK, WorkersOwn, WorkerOwns

(* A guard that goes is no longer counted.                                 *)
LEMMA GuardGoes ==
  ASSUME RetirementInv, NEW s \in Spawners, spawner[s].pc \in {"admitted", "refused"},
         NEW p, p = spawner[s].path,
         NEW v, spawner' = [spawner EXCEPT ![s] = v],
         v = IdleSpawner \/ v = [pc |-> "dropped", path |-> p],
         boundary' = [boundary EXCEPT ![p].adm = boundary[p].adm - 1],
         UNCHANGED <<records, cleaner, worker, recovery, sessions, crashes>>
  PROVE  RetirementInv'
<1>0. TypeOK /\ Counted /\ Excluded /\ WorkersOwn
  BY DEF RetirementInv
<1>1. /\ p \in Paths
      /\ v \in [pc : {"idle", "dropped"}, path : Paths \cup {Nil}]
      /\ v.pc = "dropped" => v.path \in Paths
  <2>1. p \in Paths
    BY <1>0 DEF Counted
  <2> QED BY <2>1 DEF IdleSpawner
<1>2. /\ spawner' \in [Spawners -> [pc : {"idle", "admitted", "refused", "dropped", "reclaim"},
                                    path : Paths \cup {Nil}]]
      /\ spawner'[s] = v
      /\ \A x \in Spawners \ {s} : spawner'[x] = spawner[x]
  BY <1>0, <1>1 DEF TypeOK
<1>3. /\ \A q \in Paths \ {p} : Guards(q)' = Guards(q)
      /\ Guards(p)' = Guards(p) \ {s} /\ s \in Guards(p)
  BY <1>1, <1>2 DEF Guards
<1>4. /\ Cardinality(Guards(p)') = Cardinality(Guards(p)) - 1
      /\ Cardinality(Guards(p)') \in Nat
      /\ Cardinality(Guards(p)) \in Nat
      /\ Cardinality(Guards(p)) <= Cardinality(Spawners)
      /\ boundary[p].adm = Cardinality(Guards(p))
  <2>1. IsFiniteSet(Guards(p)) /\ Cardinality(Guards(p)) \in Nat
        /\ Cardinality(Guards(p)) <= Cardinality(Spawners)
    BY GuardsFacts
  <2>2. /\ Cardinality(Guards(p)') = Cardinality(Guards(p)) - 1
        /\ IsFiniteSet(Guards(p)')
    BY <1>3, <2>1, FS_RemoveElement
  <2> QED BY <1>0, <1>1, <2>1, <2>2, FS_CardinalityType DEF Counted
<1>5. boundary[p].adm - 1 \in 0 .. Cardinality(Spawners)
  BY <1>4, Constants
<1>6. /\ MapStep({}, {}) /\ boundary'[p].adm = boundary[p].adm - 1
      /\ \A q \in Paths : /\ q # p => boundary'[q].adm = boundary[q].adm
                          /\ Reserved(q)' <=> Reserved(q)
  <2>1. PICK k \in 0 .. Cardinality(Spawners) : k = boundary[p].adm - 1
    BY <1>5
  <2>2. boundary' = [boundary EXCEPT ![p].adm = k] /\ UNCHANGED records
    BY <2>1
  <2>3. /\ MapStep({}, {}) /\ boundary'[p].adm = k
        /\ \A q \in Paths : /\ q # p => boundary'[q].adm = boundary[q].adm
                            /\ Reserved(q)' <=> Reserved(q)
    <3>1. p \in Paths
      BY <1>1
    <3>2. ASSUME NEW x \in Paths, boundary' = [boundary EXCEPT ![x].adm = k]
          PROVE  /\ MapStep({}, {})
                 /\ boundary'[x].adm = k
                 /\ \A q \in Paths : /\ q # x => boundary'[q].adm = boundary[q].adm
                                     /\ Reserved(q)' <=> Reserved(q)
      BY <2>2, <3>2, CountMap
    <3> QED BY <2>2, <3>1, <3>2
  <2> QED BY <2>1, <2>3
<1>7. Counted'
  <2>1. ASSUME NEW q \in Paths PROVE boundary'[q].adm = Cardinality(Guards(q)')
    <3>1. CASE q = p
      BY <1>4, <1>6, <3>1
    <3>2. CASE q # p
      BY <1>0, <1>3, <1>6, <3>2 DEF Counted
    <3> QED BY <3>1, <3>2
  <2>2. \A x \in Spawners : spawner'[x].pc # "idle" => spawner'[x].path \in Paths
    BY <1>0, <1>1, <1>2 DEF Counted
  <2> QED BY <2>1, <2>2 DEF Counted
<1>8. Excluded'
  <2> SUFFICES ASSUME NEW x \in Spawners, spawner'[x].pc = "admitted",
                      NEW w \in Within[spawner'[x].path]
               PROVE  ~Reserved(w)'
    BY DEF Excluded
  <2>1. spawner'[x].path \in Paths /\ spawner'[x] = spawner[x]
    BY <1>1, <1>2, <1>7 DEF Counted
  <2>2. w \in Paths
    BY <2>1, Constants, RetirementAssumption
  <2>3. ~Reserved(w)
    BY <1>0, <2>1 DEF Excluded
  <2> QED BY <1>6, <2>2, <2>3
<1> QED BY <1>0, <1>2, <1>6, <1>7, <1>8, ActivityLeavesTheRest
         DEF TypeOK, WorkersOwn, WorkerOwns

LEMMA ActivityKeepsInv ==
  ASSUME RetirementInv, NoRaces,
         (\E s \in Spawners : SpawnerStep(s)) \/ \E d \in Dirs : Close(d)
  PROVE  RetirementInv'
<1>0. TypeOK /\ Counted /\ Excluded /\ WorkersOwn
  BY DEF RetirementInv
<1>1. ASSUME NEW s \in Spawners, NEW p \in Paths, Admit(s, p) PROVE RetirementInv'
  BY <1>1, AdmitKeepsInv
<1>2. ASSUME NEW s \in Spawners, Withdraw(s) \/ DropCounts(s) PROVE RetirementInv'
  <2> DEFINE p == spawner[s].path
  <2>1. /\ spawner[s].pc \in {"admitted", "refused"}
        /\ boundary' = [boundary EXCEPT ![p].adm = boundary[p].adm - 1]
        /\ UNCHANGED <<records, cleaner, worker, recovery, sessions, crashes>>
    BY <1>2 DEF Withdraw, DropCounts
  <2>2. \/ spawner' = [spawner EXCEPT ![s] = IdleSpawner]
        \/ spawner' = [spawner EXCEPT ![s] = [pc |-> "dropped", path |-> p]]
    BY <1>2 DEF Withdraw, DropCounts
  <2> HIDE DEF p
  <2>3. p = spawner[s].path
    BY DEF p
  <2> QED BY <2>1, <2>2, <2>3, GuardGoes
<1>3. ASSUME NEW s \in Spawners, Open(s) PROVE RetirementInv'
  <2>1. PICK d \in Dirs : spawner[s].path \in {d, Unscoped} /\ sessions' = sessions \cup {d}
    BY <1>3 DEF Open
  <2>2. /\ spawner[s].pc = "admitted"
        /\ UNCHANGED <<records, boundary, spawner, cleaner, worker, recovery, crashes>>
    BY <1>3 DEF Open
  <2>3. MapStep({}, {}) /\ GuardsKept
    BY <2>2, QuietMap
  <2>4. ASSUME NEW n \in Ops, worker[n].pc \in {"inspected", "cleaning"}
        PROVE  sessions' \cap Inside(records[n].tree) = {}
    <3>1. records[n].state \in Active /\ sessions \cap Inside(records[n].tree) = {}
      BY <1>0, <2>4 DEF WorkersOwn, WorkerOwns, Working
    <3>2. Reserved(records[n].tree) /\ records[n].tree \in Worktrees
      BY <3>1, ActiveFacts
    <3>3. records[n].tree \notin Within[spawner[s].path]
      BY <1>0, <2>2, <3>2 DEF Excluded
    <3>4. d \notin Inside(records[n].tree)
      BY <2>1, <3>2, <3>3, RetirementAssumption DEF Inside
    <3> QED BY <2>1, <3>1, <3>4
  <2>5. Counted' /\ Excluded'
    BY <2>2, <2>3, GuardsLeft
  <2> QED BY <1>0, <2>1, <2>2, <2>3, <2>4, <2>5, ActivityLeavesTheRest DEF TypeOK
<1>4. ASSUME NEW s \in Spawners, DropLooks(s) \/ DropRemoves(s) PROVE RetirementInv'
  <2> DEFINE v == [pc |-> "reclaim", path |-> spawner[s].path]
  <2>1. spawner[s].path \in Paths
    BY <1>0, <1>4 DEF Counted, DropLooks, DropRemoves
  <2>2. \/ spawner' = [spawner EXCEPT ![s] = IdleSpawner]
        \/ spawner' = [spawner EXCEPT ![s] = v]
    <3>1. spawner[s] \in [pc : {"idle", "admitted", "refused", "dropped", "reclaim"},
                          path : Paths \cup {Nil}]
      BY <1>0 DEF TypeOK
    <3>2. [spawner[s] EXCEPT !.pc = "reclaim"] = v
      BY <3>1
    <3> QED BY <1>4, <3>2 DEF DropLooks, DropRemoves
  <2>3. /\ spawner[s].pc \notin {"admitted", "refused"}
        /\ IdleSpawner.pc = "idle" /\ v.pc = "reclaim" /\ v.path = spawner[s].path
        /\ UNCHANGED <<records, cleaner, worker, recovery, sessions, crashes>>
    BY <1>4 DEF DropLooks, DropRemoves, IdleSpawner
  <2>4. IdleSpawner \in [pc : {"idle", "reclaim"}, path : Paths \cup {Nil}]
        /\ v \in [pc : {"idle", "reclaim"}, path : Paths \cup {Nil}]
    BY <2>1 DEF IdleSpawner
  <2>5. MapStep({}, {}) /\ GuardsKept
    <3>1. CASE DropLooks(s)
      BY <3>1, QuietMap DEF DropLooks
    <3>2. CASE DropRemoves(s)
      <4>1. s \notin Cleaners /\ s \notin Ops
        BY RetirementAssumption
      <4> QED BY <3>2, <2>1, <4>1, ReclaimMap DEF DropRemoves
    <3> QED BY <1>4, <3>1, <3>2
  <2> HIDE DEF v
  <2>6. Counted' /\ Excluded'
    BY <2>1, <2>2, <2>3, <2>5, GuardsSame
  <2>7. spawner' \in [Spawners -> [pc : {"idle", "admitted", "refused", "dropped", "reclaim"},
                                   path : Paths \cup {Nil}]]
    BY <1>0, <2>2, <2>4 DEF TypeOK
  <2> QED BY <1>0, <2>3, <2>5, <2>6, <2>7, ActivityLeavesTheRest
           DEF TypeOK, WorkersOwn, WorkerOwns
<1>5. ASSUME NEW d \in Dirs, Close(d) PROVE RetirementInv'
  <2>1. /\ sessions' \subseteq sessions
        /\ UNCHANGED <<records, boundary, spawner, cleaner, worker, recovery, crashes>>
    BY <1>5 DEF Close
  <2>2. MapStep({}, {}) /\ GuardsKept
    BY <2>1, QuietMap
  <2>3. Counted' /\ Excluded'
    BY <2>1, <2>2, GuardsLeft
  <2>4. \A n \in Ops : worker[n].pc \in {"inspected", "cleaning"} =>
          sessions' \cap Inside(records[n].tree) = {}
    BY <1>0, <2>1 DEF WorkersOwn, WorkerOwns
  <2> QED BY <1>0, <2>1, <2>2, <2>3, <2>4, ActivityLeavesTheRest DEF TypeOK
<1> QED BY <1>1, <1>2, <1>3, <1>4, <1>5 DEF SpawnerStep

-----------------------------------------------------------------------------
(* The commands, the workers and recovery.                                 *)

(* A step of one of them keeps the invariant when it keeps what is said of *)
(* those it moves.                                                         *)
LEMMA ThreadLeavesTheRest ==
  ASSUME RetirementInv, NEW N, NEW L, MapStep(N, L), GuardsKept,
         UNCHANGED <<spawner, sessions, crashes>>,
         cleaner' \in [Cleaners -> CleanerType], worker' \in [Ops -> WorkerType],
         recovery' \in RecoveryType, RecoveryOwns',
         recovery.pc = "done" => recovery'.pc = "done",
         recovery'.pc = "due" => recovery.pc = "due",
         \A c \in Cleaners :
           \/ CleanerOwns(c)' /\ RequestFits(c)'
           \/ /\ cleaner'[c] = cleaner[c]
              /\ Owns(c) => worker'[cleaner[c].op].pc = "none" /\ cleaner[c].op \notin N
              /\ cleaner[c].pc \in {"inspected", "published"} => cleaner[c].tree \notin L,
         \A c \in Cleaners : Owns(c)' => Owns(c) /\ cleaner'[c].op = cleaner[c].op,
         \A n \in Ops :
           \/ WorkerOwns(n)'
           \/ /\ n \notin N /\ worker'[n] = worker[n]
              /\ worker[n].pc = "inspected" => records[n].tree \notin L,
         \A p \in Paths :
           \/ LockHeld(p)'
           \/ /\ p \notin L
              /\ \A c \in Cleaners : cleaner[c].pc \in {"inspected", "published"}
                                       => cleaner'[c] = cleaner[c] \/ cleaner[c].tree # p
              /\ \A n \in Ops : worker[n].pc = "inspected"
                                  => worker'[n] = worker[n] \/ records[n].tree # p
  PROVE  RetirementInv'
<1>0. TypeOK /\ CleanersOwn /\ WorkersOwn
  BY DEF RetirementInv
<1>1. TypeOK'
  BY <1>0 DEF TypeOK, MapStep, BoundaryType, CleanerType, WorkerType, RecoveryType
<1>2. CleanersOwn' /\ RequestsFit'
  <2>1. ASSUME NEW c \in Cleaners
        PROVE  CleanerOwns(c)' /\ RequestFits(c)'
    <3>1. CASE cleaner'[c] = cleaner[c]
               /\ (Owns(c) => worker'[cleaner[c].op].pc = "none" /\ cleaner[c].op \notin N)
               /\ (cleaner[c].pc \in {"inspected", "published"} => cleaner[c].tree \notin L)
      <4> QED BY <3>1, CleanerLeft
    <3> QED BY <3>1
  <2>2. ASSUME NEW c \in Cleaners, NEW x \in Cleaners, c # x, Owns(c)', Owns(x)'
        PROVE  cleaner'[x].op # cleaner'[c].op
    BY <1>0, <2>2 DEF CleanersOwn
  <2> QED BY <2>1, <2>2 DEF CleanersOwn, RequestsFit
<1>3. WorkersOwn'
  <2>1. ASSUME NEW n \in Ops, n \notin N, worker'[n] = worker[n],
               worker[n].pc = "inspected" => records[n].tree \notin L
        PROVE  WorkerOwns(n)'
    <3>1. worker[n].pc \in {"inspected", "cleaning"} =>
            sessions' \cap Inside(records[n].tree) = {}
      BY <1>0 DEF WorkersOwn, WorkerOwns
    <3> QED BY <2>1, <3>1, WorkerLeft
  <2> QED BY <2>1 DEF WorkersOwn
<1>4. LocksHeld'
  BY LockLeft DEF LocksHeld
<1>5. Counted' /\ Excluded'
  BY GuardsLeft
<1> QED BY <1>1, <1>2, <1>3, <1>4, <1>5 DEF RetirementInv, MapStep

(* A record has one owner.                                                 *)
LEMMA OwnedByCommand ==
  ASSUME RetirementInv, NEW c \in Cleaners, cleaner[c].pc # "idle"
  PROVE  /\ recovery.pc = "done" /\ recovery.found = {}
         /\ cleaner[c].tree \in Worktrees /\ cleaner[c].tree \in Paths
         /\ Owns(c) => /\ cleaner[c].op \in Ops /\ worker[cleaner[c].op].pc = "none"
                       /\ \A x \in Cleaners : x # c /\ Owns(x) => cleaner[x].op # cleaner[c].op
<1>1. CleanersOwn /\ RecoveryOwns
  BY DEF RetirementInv
<1>2. recovery.pc = "done" /\ cleaner[c].tree \in Worktrees
  BY <1>1 DEF CleanersOwn, CleanerOwns
<1>3. recovery.found = {}
  BY <1>1, <1>2 DEF RecoveryOwns
<1>4. Owns(c) => cleaner[c].op \in Ops /\ worker[cleaner[c].op].pc = "none"
  BY <1>1 DEF CleanersOwn, CleanerOwns
<1> QED BY <1>1, <1>2, <1>3, <1>4, Constants DEF CleanersOwn

LEMMA OwnedByWorker ==
  ASSUME RetirementInv, NEW n \in Ops, worker[n].pc # "none"
  PROVE  /\ \A c \in Cleaners : Owns(c) => cleaner[c].op # n
         /\ \A f \in recovery.found : f.op # n
         /\ recovery.pc # "due"
<1>1. CleanersOwn /\ RecoveryOwns /\ WorkersOwn
  BY DEF RetirementInv
<1>2. \A c \in Cleaners : Owns(c) => cleaner[c].op # n
  BY <1>1 DEF CleanersOwn, CleanerOwns
<1>3. \A f \in recovery.found : f.op # n
  BY <1>1 DEF RecoveryOwns
<1> QED BY <1>1, <1>2, <1>3 DEF WorkersOwn, WorkerOwns

(* A worker that keeps no lock moves on.                                   *)
LEMMA WorkerMoves ==
  ASSUME RetirementInv, NEW n \in Ops, NEW N, N \subseteq {n}, MapStep(N, {}), GuardsKept,
         worker[n].pc \notin {"none", "inspected"},
         NEW v \in WorkerType, worker' = [worker EXCEPT ![n] = v],
         UNCHANGED <<spawner, cleaner, recovery, sessions, crashes>>,
         WorkerOwns(n)'
  PROVE  RetirementInv'
<1>0. TypeOK /\ CleanersOwn /\ RecoveryOwns
  BY DEF RetirementInv
<1>1. /\ cleaner' \in [Cleaners -> CleanerType] /\ worker' \in [Ops -> WorkerType]
      /\ recovery' \in RecoveryType
      /\ \A m \in Ops \ {n} : worker'[m] = worker[m]
  BY <1>0, Types
<1>2. RecoveryOwns'
  <2>1. ASSUME NEW f \in recovery.found
        PROVE  f.op \in Ops /\ f.op # n /\ records'[f.op] = records[f.op]
    <3>1. recovery \in RecoveryType
      BY <1>0, Types
    <3> QED BY <3>1, OwnedByWorker DEF MapStep, RecoveryType
  <2> QED BY <1>0, <1>1, <2>1 DEF RecoveryOwns
<1>3. ASSUME NEW c \in Cleaners, Owns(c)
      PROVE  worker'[cleaner[c].op].pc = "none" /\ cleaner[c].op \notin N
  <2>1. cleaner[c].op # n /\ cleaner[c].op \in Ops /\ worker[cleaner[c].op].pc = "none"
    BY <1>0, <1>3, OwnedByWorker DEF CleanersOwn, CleanerOwns
  <2> QED BY <1>1, <2>1
<1>4. \A c \in Cleaners : Owns(c)' => Owns(c) /\ cleaner'[c].op = cleaner[c].op
  BY DEF Owns
<1>5. \A m \in Ops : WorkerOwns(m)' \/ (m \notin N /\ worker'[m] = worker[m])
  BY <1>1
<1> QED BY <1>1, <1>2, <1>3, <1>4, <1>5, ThreadLeavesTheRest

LEMMA NoWorkerFacts ==
  /\ NoWorker \in WorkerType /\ NoWorker.pc = "none"
  /\ \A out \in Outcomes : /\ [pc |-> "finish", out |-> out] \in WorkerType
                           /\ out \in States /\ out # "none"
  /\ [pc |-> "reclaim", out |-> "none"] \in WorkerType
BY DEF NoWorker, WorkerType, Outcomes, States

LEMMA WorkerKeepsInv ==
  ASSUME RetirementInv, NoRaces, NEW n \in Ops,
         \/ WorkerRuns(n) \/ ProviderEnds(n) \/ WorkerFinishes(n) \/ WorkerRemoves(n)
         \/ WorkerStops(n) /\ worker[n].pc # "inspected"
  PROVE  RetirementInv'
<1>0. TypeOK /\ WorkersOwn /\ WorkerOwns(n) /\ Stored
      /\ worker \in [Ops -> WorkerType] /\ records \in [Ops -> Record]
  BY Types DEF RetirementInv, WorkersOwn
<1>1. ASSUME WorkerRuns(n) PROVE RetirementInv'
  <2> DEFINE v == [worker[n] EXCEPT !.pc = "running"]
  <2>1. /\ worker[n].pc = "started" /\ Announce(n, "running", records[n].bound)
        /\ records[n].bound
        /\ worker' = [worker EXCEPT ![n] = v]
        /\ UNCHANGED <<spawner, cleaner, recovery, sessions, crashes>>
    BY <1>1 DEF WorkerRuns, Transition
  <2>2. v \in WorkerType /\ v.pc = "running"
    BY <1>0 DEF WorkerType
  <2>3. records[n].state \in Active /\ records[n].bound \in BOOLEAN
    BY <1>0, <2>1 DEF WorkerOwns, Working, Record
  <2>4. /\ MapStep({n}, {}) /\ GuardsKept
        /\ records'[n].state = "running" /\ (records'[n].bound <=> records[n].bound)
    BY <2>1, <2>3, AnnounceMap DEF States
  <2> HIDE DEF v
  <2>5. worker'[n] = v /\ recovery' = recovery /\ recovery.pc # "due"
    BY <1>0, <2>1, OwnedByWorker
  <2>6. WorkerOwns(n)'
    BY <2>1, <2>2, <2>4, <2>5 DEF WorkerOwns, Active
  <2> QED BY <2>1, <2>2, <2>4, <2>6, WorkerMoves
<1>2. ASSUME NEW out \in Outcomes, worker' = Ending(n, out),
             worker[n].pc \in Working \ {"inspected"},
             UNCHANGED <<records, boundary, spawner, cleaner, recovery, sessions, crashes>>
      PROVE  RetirementInv'
  <2> DEFINE v == [pc |-> "finish", out |-> out]
  <2>1. worker' = [worker EXCEPT ![n] = v] /\ v \in WorkerType /\ v.pc = "finish" /\ v.out = out
    BY <1>2, NoWorkerFacts DEF Ending
  <2>2. MapStep({}, {}) /\ GuardsKept
    BY <1>2, QuietMap
  <2> HIDE DEF v
  <2>3. worker'[n] = v /\ records' = records /\ recovery' = recovery
    BY <1>0, <1>2, <2>1
  <2>4. worker[n].pc \notin {"none", "inspected"}
    BY <1>2 DEF Working
  <2>5. recovery.pc # "due" /\ records[n].state \in Active /\ records[n].bound
    BY <1>0, <1>2, <2>4 DEF WorkerOwns
  <2>6. WorkerOwns(n)'
    BY <1>2, <2>1, <2>3, <2>5 DEF WorkerOwns, Active
  <2> QED BY <1>2, <2>1, <2>2, <2>4, <2>6, WorkerMoves
<1>3. ASSUME WorkerFinishes(n) PROVE RetirementInv'
  <2> DEFINE out == worker[n].out
             v == IF out \in Terminal THEN [pc |-> "reclaim", out |-> "none"] ELSE NoWorker
  <2>1. /\ worker[n].pc = "finish" /\ out \in Outcomes
        /\ records[n].state \in Active /\ records[n].bound /\ recovery.pc # "due"
        /\ UNCHANGED <<spawner, cleaner, recovery, sessions, crashes>>
    BY <1>0, <1>3 DEF WorkerFinishes, WorkerOwns, Working
  <2>2. v \in WorkerType /\ v.pc \in {"none", "reclaim"}
    BY NoWorkerFacts
  <2>3. CASE Announce(n, out, records[n].bound) /\ worker' = [worker EXCEPT ![n] = v]
    <3>1. records[n].bound \in BOOLEAN /\ out \in States \ {"none"}
      BY <1>0, <2>1, NoWorkerFacts DEF Record
    <3>2. MapStep({n}, {}) /\ GuardsKept /\ records'[n].state = out
      BY <2>1, <2>3, <3>1, AnnounceMap
    <3> HIDE DEF v
    <3>3. worker'[n] = v /\ records'[n].state # "none" /\ recovery' = recovery
      BY <1>0, <2>1, <2>3, <3>1, <3>2
    <3>4. WorkerOwns(n)'
      BY <2>1, <2>2, <3>3 DEF WorkerOwns, Working
    <3> QED BY <2>1, <2>2, <2>3, <3>2, <3>4, WorkerMoves
  <2>4. CASE UNCHANGED <<records, boundary>> /\ worker' = [worker EXCEPT ![n] = NoWorker]
    <3>1. MapStep({}, {}) /\ GuardsKept
      BY <2>4, QuietMap
    <3>2. worker'[n] = NoWorker
      BY <1>0, <2>4
    <3>3. WorkerOwns(n)'
      BY <3>2, NoWorkerFacts DEF WorkerOwns, Working
    <3> QED BY <2>1, <2>4, <3>1, <3>3, NoWorkerFacts, WorkerMoves
  <2> QED BY <1>3, <2>3, <2>4 DEF WorkerFinishes, Transition
<1>4. ASSUME WorkerRemoves(n) PROVE RetirementInv'
  <2> DEFINE w == records[n].tree
  <2>1. /\ worker[n].pc = "reclaim" /\ boundary' = [boundary EXCEPT ![w] = Reclaimed(w, n)]
        /\ worker' = [worker EXCEPT ![n] = NoWorker]
        /\ UNCHANGED <<records, spawner, cleaner, recovery, sessions, crashes>>
    BY <1>4 DEF WorkerRemoves
  <2>2. w \in Paths /\ n \notin Spawners /\ n \notin Cleaners
    <3>1. records[n].state # "none" /\ records[n] \in Record
      BY <1>0, <2>1 DEF WorkerOwns
    <3>2. w \in Worktrees
      BY <1>0, <3>1 DEF Stored, Record
    <3> QED BY <3>2, Constants, RetirementAssumption
  <2> HIDE DEF w
  <2>3. MapStep({}, {}) /\ GuardsKept
    BY <2>1, <2>2, ReclaimMap
  <2>4. worker'[n] = NoWorker
    BY <1>0, <2>1
  <2>5. WorkerOwns(n)'
    BY <2>4, NoWorkerFacts DEF WorkerOwns, Working
  <2> QED BY <2>1, <2>3, <2>5, NoWorkerFacts, WorkerMoves
<1>5. ASSUME ProviderEnds(n) PROVE RetirementInv'
  BY <1>2, <1>5 DEF ProviderEnds, Working
<1>6. ASSUME WorkerStops(n), worker[n].pc # "inspected" PROVE RetirementInv'
  <2>1. "recovery" \in Outcomes
    BY DEF Outcomes
  <2> QED BY <1>2, <1>6, <2>1 DEF WorkerStops, Working
<1> QED BY <1>1, <1>3, <1>4, <1>5, <1>6

(* A retirement that waits for somebody is nobody's.                       *)
LEMMA ResumeKeepsInv ==
  ASSUME RetirementInv, NoRaces, NEW n \in Ops, Resume(n)
  PROVE  RetirementInv'
<1>0. /\ TypeOK /\ WorkersOwn /\ CleanersOwn /\ RecoveryOwns /\ SnapshotLoads
      /\ worker \in [Ops -> WorkerType] /\ cleaner \in [Cleaners -> CleanerType]
      /\ recovery \in RecoveryType
  BY Types DEF RetirementInv
<1> DEFINE v == [worker[n] EXCEPT !.pc = "started"]
<1>1. /\ recovery.pc = "done" /\ records[n].state = "recovery" /\ worker[n].pc = "none"
      /\ worker' = [worker EXCEPT ![n] = v]
      /\ UNCHANGED <<records, boundary, spawner, cleaner, recovery, sessions, crashes>>
  BY DEF Resume, Accepting, NoRaces
<1>2. MapStep({}, {}) /\ GuardsKept
  BY <1>1, QuietMap
<1>3. v \in WorkerType /\ v.pc = "started"
  BY <1>0 DEF WorkerType
<1> HIDE DEF v
<1>4. /\ worker' \in [Ops -> WorkerType] /\ worker'[n] = v
      /\ \A m \in Ops \ {n} : worker'[m] = worker[m]
  BY <1>0, <1>1, <1>3
<1>5. ASSUME NEW c \in Cleaners, Owns(c)
      PROVE  worker'[cleaner[c].op].pc = "none"
  <2>1. CleanerOwns(c)
    BY <1>0 DEF CleanersOwn
  <2>2. cleaner[c].op \in Ops /\ cleaner[c].op # n /\ worker[cleaner[c].op].pc = "none"
    BY <1>1, <1>5, <2>1 DEF CleanerOwns, Owns
  <2> QED BY <1>4, <2>2
<1>6. records[n].bound
  BY <1>0, <1>1 DEF SnapshotLoads
<1>7. WorkerOwns(n)'
  BY <1>1, <1>3, <1>4, <1>6 DEF WorkerOwns, Active
<1>8. RecoveryOwns'
  BY <1>0, <1>1 DEF RecoveryOwns
<1>9. \A c \in Cleaners : Owns(c)' => Owns(c) /\ cleaner'[c].op = cleaner[c].op
  BY <1>1 DEF Owns
<1>10. \A m \in Ops : worker[m].pc = "inspected" => worker'[m] = worker[m]
  BY <1>1, <1>4
<1> QED BY <1>0, <1>1, <1>2, <1>4, <1>5, <1>7, <1>8, <1>9, <1>10, ThreadLeavesTheRest

LEMMA CommandMoves ==
  ASSUME RetirementInv, NEW c \in Cleaners,
         cleaner[c].pc \notin {"idle", "inspected", "published"},
         NEW k, cleaner[c].op = k,
         NEW N, Owns(c) => N \subseteq {k}, ~Owns(c) => N = {},
         MapStep(N, {}), GuardsKept,
         NEW v \in CleanerType, cleaner' = [cleaner EXCEPT ![c] = v],
         worker' \in [Ops -> WorkerType],
         \A m \in Ops : m # k \/ ~Owns(c) => worker'[m] = worker[m],
         Owns(c) => WorkerOwns(k)',
         UNCHANGED <<spawner, recovery, sessions, crashes>>,
         CleanerOwns(c)', RequestFits(c)',
         Owns(c)' => Owns(c) /\ v.op = k
  PROVE  RetirementInv'
<1>0. TypeOK /\ CleanersOwn /\ cleaner \in [Cleaners -> CleanerType] /\ recovery \in RecoveryType
  BY Types DEF RetirementInv
<1>1. /\ recovery.pc = "done" /\ recovery.found = {}
      /\ Owns(c) => /\ cleaner[c].op \in Ops /\ worker[cleaner[c].op].pc = "none"
                    /\ \A x \in Cleaners : x # c /\ Owns(x) => cleaner[x].op # cleaner[c].op
  BY OwnedByCommand
<1>2. /\ cleaner' \in [Cleaners -> CleanerType] /\ cleaner'[c] = v
      /\ \A x \in Cleaners \ {c} : cleaner'[x] = cleaner[x]
  BY <1>0
<1>3. ASSUME NEW x \in Cleaners, x # c, Owns(x)
      PROVE  worker'[cleaner[x].op].pc = "none" /\ cleaner[x].op \notin N
  <2>1. cleaner[x].op \in Ops /\ worker[cleaner[x].op].pc = "none"
    BY <1>0, <1>3 DEF CleanersOwn, CleanerOwns
  <2>2. Owns(c) => cleaner[x].op # cleaner[c].op
    BY <1>1, <1>3
  <2> QED BY <2>1, <2>2
<1>4. \A x \in Cleaners : Owns(x)' => Owns(x) /\ cleaner'[x].op = cleaner[x].op
  BY <1>2 DEF Owns
<1>5. \A m \in Ops : WorkerOwns(m)' \/ (m \notin N /\ worker'[m] = worker[m])
  <2> SUFFICES ASSUME NEW m \in Ops PROVE WorkerOwns(m)' \/ (m \notin N /\ worker'[m] = worker[m])
    OBVIOUS
  <2>1. CASE Owns(c) /\ m = k
    BY <2>1
  <2>2. CASE ~(Owns(c) /\ m = k)
    BY <2>2
  <2> QED BY <2>1, <2>2
<1>6. RecoveryOwns'
  BY <1>1 DEF RecoveryOwns
<1>7. \A m \in Ops : worker[m].pc = "inspected" => worker'[m] = worker[m]
  BY <1>1
<1>8. \A x \in Cleaners : cleaner[x].pc \in {"inspected", "published"} => cleaner'[x] = cleaner[x]
  BY <1>2
<1>9. recovery' \in RecoveryType /\ recovery'.pc = recovery.pc
  BY <1>0
<1>10. ASSUME NEW x \in Cleaners
       PROVE  \/ CleanerOwns(x)' /\ RequestFits(x)'
              \/ /\ cleaner'[x] = cleaner[x]
                 /\ Owns(x) => worker'[cleaner[x].op].pc = "none" /\ cleaner[x].op \notin N
  BY <1>2, <1>3
<1> QED BY <1>2, <1>4, <1>5, <1>6, <1>7, <1>8, <1>9, <1>10, ThreadLeavesTheRest

LEMMA IdleCleanerFacts == IdleCleaner \in CleanerType /\ IdleCleaner.pc = "idle"
BY DEF IdleCleaner, CleanerType

(* One that goes idle, or to remove the boundary, owns nothing more.       *)
LEMMA CommandEnds ==
  ASSUME RetirementInv, NEW c \in Cleaners,
         cleaner[c].pc \notin {"idle", "inspected", "published"},
         NEW k, cleaner[c].op = k,
         NEW N, Owns(c) => N \subseteq {k}, ~Owns(c) => N = {},
         MapStep(N, {}), GuardsKept,
         NEW v \in CleanerType, cleaner' = [cleaner EXCEPT ![c] = v],
         v.pc \in {"idle", "reclaim"}, v.pc = "reclaim" => v.tree \in Worktrees,
         worker' \in [Ops -> WorkerType],
         \A m \in Ops : m # k \/ ~Owns(c) => worker'[m] = worker[m],
         Owns(c) => WorkerOwns(k)',
         UNCHANGED <<spawner, recovery, sessions, crashes>>
  PROVE  RetirementInv'
<1>1. cleaner'[c] = v
  BY Types DEF RetirementInv
<1>2. recovery.pc = "done" /\ recovery'.pc = "done"
  BY OwnedByCommand
<1>3. ~Owns(c)'
  BY <1>1 DEF Owns
<1>4. CleanerOwns(c)' /\ RequestFits(c)'
  BY <1>1, <1>2, <1>3 DEF CleanerOwns, RequestFits
<1> QED BY <1>3, <1>4, CommandMoves

LEMMA CommandKeepsInv ==
  ASSUME RetirementInv, NoRaces, NEW c \in Cleaners,
         Bind(c) \/ Falters(c) \/ Start(c) \/ Gives(c) \/ CleanerRemoves(c)
  PROVE  RetirementInv'
<1>0. /\ TypeOK /\ CleanersOwn /\ WorkersOwn /\ cleaner \in [Cleaners -> CleanerType]
      /\ worker \in [Ops -> WorkerType] /\ cleaner[c] \in CleanerType
      /\ CleanerOwns(c) /\ RequestFits(c) /\ records \in [Ops -> Record]
  BY Types DEF RetirementInv, CleanersOwn, RequestsFit
<1>1. PICK k : k = cleaner[c].op
  OBVIOUS
<1>2. /\ cleaner[c].pc \notin {"idle", "inspected", "published"}
      /\ UNCHANGED <<spawner, recovery, sessions, crashes>>
  BY DEF Bind, Falters, Start, Gives, CleanerRemoves
<1>3. /\ recovery.pc = "done" /\ recovery' = recovery
      /\ cleaner[c].tree \in Worktrees /\ cleaner[c].tree \in Paths
      /\ Owns(c) => k \in Ops /\ worker[k].pc = "none"
  BY <1>1, <1>2, OwnedByCommand
<1>4. worker' = worker => /\ worker' \in [Ops -> WorkerType]
                          /\ \A m \in Ops : worker'[m] = worker[m]
                          /\ Owns(c) => WorkerOwns(k)'
  BY <1>0, <1>3 DEF WorkerOwns, Working
<1>5. cleaner[c].pc \in {"reserved", "bound", "failing"} =>
        /\ Owns(c) /\ k \in Ops /\ records[k].state = "reserved" /\ records[k].state \in Active
        /\ records[k].bound \in BOOLEAN
  BY <1>0, <1>1, <1>3 DEF CleanerOwns, Owns, Active, Record
<1>6. ASSUME Bind(c) PROVE RetirementInv'
  <2> DEFINE v == [cleaner[c] EXCEPT !.pc = "bound"]
  <2>1. /\ cleaner[c].pc = "reserved" /\ Announce(k, "reserved", TRUE)
        /\ cleaner' = [cleaner EXCEPT ![c] = v] /\ worker' = worker
    BY <1>1, <1>6 DEF Bind
  <2>2. v \in CleanerType /\ v.pc = "bound" /\ v.op = k /\ v.tree = cleaner[c].tree
    BY <1>0, <1>1 DEF CleanerType
  <2>3. /\ MapStep({k}, {}) /\ GuardsKept
        /\ records'[k].state = "reserved" /\ (records'[k].bound <=> TRUE)
    BY <1>5, <2>1, AnnounceMap DEF States
  <2> HIDE DEF v
  <2>4. cleaner'[c] = v
    BY <1>0, <2>1
  <2>5. CleanerOwns(c)' /\ RequestFits(c)'
    BY <1>3, <1>5, <2>1, <2>2, <2>3, <2>4 DEF CleanerOwns, RequestFits, Owns
  <2> QED BY <1>1, <1>2, <1>4, <1>5, <2>1, <2>2, <2>3, <2>5, CommandMoves
<1>7. ASSUME Falters(c) PROVE RetirementInv'
  <2> DEFINE to == IF cleaner[c].pc = "reserved" THEN "failed" ELSE "recovery"
             v  == [cleaner[c] EXCEPT !.pc = "failing", !.to = to]
  <2>1. /\ cleaner[c].pc \in {"reserved", "bound"} /\ cleaner' = [cleaner EXCEPT ![c] = v]
        /\ UNCHANGED <<records, boundary, worker>>
    BY <1>0, <1>7 DEF Falters
  <2>2. /\ v \in CleanerType /\ v.pc = "failing" /\ v.op = k /\ v.tree = cleaner[c].tree
        /\ v.to # "none" /\ (v.to = "recovery" => cleaner[c].pc = "bound")
    BY <1>0, <1>1, <2>1 DEF CleanerType
  <2>3. MapStep({}, {}) /\ GuardsKept
    BY <2>1, QuietMap
  <2> HIDE DEF v
  <2>4. cleaner'[c] = v
    BY <1>0, <2>1
  <2>5. CleanerOwns(c)'
    BY <1>3, <1>5, <2>1, <2>2, <2>4 DEF CleanerOwns, Owns
  <2>6. RequestFits(c)'
    BY <1>0, <1>1, <2>1, <2>2, <2>4 DEF RequestFits
  <2> QED BY <1>1, <1>2, <1>4, <1>5, <2>1, <2>2, <2>3, <2>5, <2>6, CommandMoves
<1>8. ASSUME Start(c) PROVE RetirementInv'
  <2> DEFINE v == [worker[k] EXCEPT !.pc = "started"]
  <2>1. /\ cleaner[c].pc = "bound" /\ worker' = [worker EXCEPT ![k] = v]
        /\ cleaner' = [cleaner EXCEPT ![c] = IdleCleaner]
        /\ UNCHANGED <<records, boundary>>
    BY <1>1, <1>3, <1>5, <1>8 DEF Start
  <2>2. k \in Ops /\ Owns(c) /\ records[k].state \in Active /\ records[k].bound
    BY <1>0, <1>1, <1>5, <2>1 DEF RequestFits
  <2>3. v \in WorkerType /\ v.pc = "started"
    BY <1>0, <2>2 DEF WorkerType
  <2>4. MapStep({}, {}) /\ GuardsKept
    BY <2>1, QuietMap
  <2> HIDE DEF v
  <2>5. /\ worker' \in [Ops -> WorkerType] /\ worker'[k] = v
        /\ \A m \in Ops \ {k} : worker'[m] = worker[m]
    BY <1>0, <2>1, <2>2, <2>3
  <2>6. WorkerOwns(k)'
    BY <1>3, <2>1, <2>2, <2>3, <2>5 DEF WorkerOwns, Active
  <2> QED BY <1>1, <1>2, <2>1, <2>2, <2>4, <2>5, <2>6, IdleCleanerFacts, CommandEnds
<1>9. ASSUME Gives(c) PROVE RetirementInv'
  <2> DEFINE to == cleaner[c].to
             u  == [cleaner[c] EXCEPT !.pc = "reclaim"]
             v  == IF to \in Terminal THEN u ELSE IdleCleaner
  <2>1. cleaner[c].pc = "failing" /\ worker' = worker
    BY <1>9 DEF Gives
  <2>2. u \in CleanerType /\ u.pc = "reclaim" /\ u.tree \in Worktrees
    BY <1>0, <1>3 DEF CleanerType
  <2>3. v \in CleanerType /\ v.pc \in {"idle", "reclaim"} /\ (v.pc = "reclaim" => v.tree \in Worktrees)
    BY <2>2, IdleCleanerFacts
  <2>4. CASE Transition(k, to) /\ cleaner' = [cleaner EXCEPT ![c] = v]
    <3>1. to \in {"failed", "recovery"} /\ (to = "recovery" => records[k].bound)
      BY <1>0, <1>1, <2>1 DEF CleanerOwns, RequestFits, CleanerType
    <3>2. MapStep({k}, {}) /\ GuardsKept
      BY <1>5, <2>1, <2>4, <3>1, AnnounceMap DEF Transition, States
    <3> HIDE DEF v, to
    <3> QED BY <1>1, <1>2, <1>4, <1>5, <2>1, <2>3, <2>4, <3>2, CommandEnds
  <2>5. CASE UNCHANGED <<records, boundary>> /\ cleaner' = [cleaner EXCEPT ![c] = IdleCleaner]
    <3>1. MapStep({}, {}) /\ GuardsKept
      BY <2>5, QuietMap
    <3> QED BY <1>1, <1>2, <1>4, <1>5, <2>1, <2>5, <3>1, IdleCleanerFacts, CommandEnds
  <2> QED BY <1>1, <1>9, <2>4, <2>5 DEF Gives
<1>10. ASSUME CleanerRemoves(c) PROVE RetirementInv'
  <2>1. PICK w : w = cleaner[c].tree
    OBVIOUS
  <2>2. /\ cleaner[c].pc = "reclaim" /\ boundary' = [boundary EXCEPT ![w] = Reclaimed(w, c)]
        /\ cleaner' = [cleaner EXCEPT ![c] = IdleCleaner] /\ UNCHANGED <<records, worker>>
    BY <1>10, <2>1 DEF CleanerRemoves
  <2>3. w \in Paths /\ c \notin Spawners /\ c \notin Ops
    BY <1>3, <2>1, RetirementAssumption
  <2>4. MapStep({}, {}) /\ GuardsKept
    BY <2>2, <2>3, ReclaimMap
  <2> QED BY <1>1, <1>2, <1>4, <2>2, <2>4, IdleCleanerFacts, CommandEnds
<1> QED BY <1>6, <1>7, <1>8, <1>9, <1>10

-----------------------------------------------------------------------------
(* The steps that take a lock or let it go.                                *)

LEMMA LockMap ==
  ASSUME RetirementInv, NEW w \in Paths, NEW x \in Cleaners \cup Ops \cup {Nil},
         boundary' = [boundary EXCEPT ![w].lock = x], UNCHANGED records
  PROVE  MapStep({}, {w}) /\ GuardsKept /\ boundary'[w].lock = x
<1>0. /\ boundary \in [Paths -> BoundaryType] /\ records \in [Ops -> Record] /\ SnapshotLoads
      /\ Stored /\ Shown
  BY Types DEF RetirementInv
<1>1. /\ boundary' \in [Paths -> BoundaryType]
      /\ boundary'[w].lock = x
      /\ \A q \in Paths : /\ q # w => boundary'[q].lock = boundary[q].lock
                          /\ boundary'[q].adm = boundary[q].adm
                          /\ boundary'[q].ret = boundary[q].ret
  BY <1>0 DEF BoundaryType
<1>2. Shown'
  BY <1>0, <1>1, ActiveFacts DEF Shown
<1>3. Stored' /\ SnapshotLoads' /\ EndsOnce
  BY <1>0 DEF Stored, SnapshotLoads, EndsOnce
<1> QED BY <1>0, <1>1, <1>2, <1>3 DEF MapStep, GuardsKept, Reserved

(* Nobody else is at work under a lock that is free or one's own.          *)
LEMMA LockIsOnes ==
  ASSUME RetirementInv, NEW w
  PROVE  /\ \A c \in Cleaners : cleaner[c].pc \in {"inspected", "published"}
                                /\ cleaner[c].tree = w => boundary[w].lock = c
         /\ \A n \in Ops : worker[n].pc = "inspected" /\ records[n].tree = w
                             => boundary[w].lock = n
BY DEF RetirementInv, CleanersOwn, CleanerOwns, WorkersOwn, WorkerOwns

LEMMA WorkerLocks ==
  ASSUME RetirementInv, NEW n \in Ops, worker[n].pc # "none",
         NEW w \in Paths, records[n].tree = w, boundary[w].lock \in {Nil, n},
         NEW x \in {Nil, n}, boundary' = [boundary EXCEPT ![w].lock = x],
         NEW v \in WorkerType, worker' = [worker EXCEPT ![n] = v],
         x = n => v.pc = "inspected",
         WorkerOwns(n)',
         UNCHANGED <<records, spawner, cleaner, recovery, sessions, crashes>>
  PROVE  RetirementInv'
<1>0. TypeOK /\ CleanersOwn /\ RecoveryOwns /\ recovery \in RecoveryType
  BY Types DEF RetirementInv
<1>1. MapStep({}, {w}) /\ GuardsKept /\ boundary'[w].lock = x
  BY LockMap
<1>2. /\ cleaner' \in [Cleaners -> CleanerType] /\ worker' \in [Ops -> WorkerType]
      /\ recovery' \in RecoveryType
      /\ worker'[n] = v /\ \A m \in Ops \ {n} : worker'[m] = worker[m]
  BY <1>0, Types
<1>3. RecoveryOwns'
  <2>1. \A f \in recovery.found : f.op \in Ops /\ f.op # n
    BY <1>0, OwnedByWorker DEF RecoveryType
  <2> QED BY <1>0, <1>2, <2>1 DEF RecoveryOwns
<1>4. ASSUME NEW c \in Cleaners
      PROVE  /\ cleaner'[c] = cleaner[c]
             /\ Owns(c) => worker'[cleaner[c].op].pc = "none"
             /\ cleaner[c].pc \in {"inspected", "published"} => cleaner[c].tree # w
  <2>1. Owns(c) => /\ cleaner[c].op \in Ops /\ cleaner[c].op # n
                   /\ worker[cleaner[c].op].pc = "none"
    BY <1>0, OwnedByWorker DEF CleanersOwn, CleanerOwns
  <2>2. c # n /\ c # Nil
    BY RetirementAssumption
  <2>3. cleaner[c].pc \in {"inspected", "published"} => cleaner[c].tree # w
    BY <2>2, LockIsOnes
  <2> QED BY <1>2, <2>1, <2>3
<1>5. ASSUME NEW m \in Ops \ {n}
      PROVE  worker'[m] = worker[m] /\ (worker[m].pc = "inspected" => records[m].tree # w)
  <2>1. m # Nil
    BY RetirementAssumption
  <2> QED BY <1>2, <2>1, LockIsOnes
<1>6. LockHeld(w)'
  BY <1>1, <1>2 DEF LockHeld
<1>7. \A c \in Cleaners : Owns(c)' => Owns(c) /\ cleaner'[c].op = cleaner[c].op
  BY DEF Owns
<1>8. \A m \in Ops : WorkerOwns(m)' \/ (worker'[m] = worker[m]
                                        /\ (worker[m].pc = "inspected" => records[m].tree \notin {w}))
  BY <1>5
<1>9. \A p \in Paths \ {w}, m \in Ops : worker[m].pc = "inspected"
        => worker'[m] = worker[m] \/ records[m].tree # p
  BY <1>5
<1>10. \A p \in Paths : \/ LockHeld(p)'
                        \/ p \notin {w}
  BY <1>6
<1>11. recovery'.pc = recovery.pc
  BY <1>0
<1> QED BY <1>1, <1>2, <1>3, <1>4, <1>7, <1>8, <1>9, <1>10, <1>11, ThreadLeavesTheRest

LEMMA WorkerLockStepKeepsInv ==
  ASSUME RetirementInv, NEW n \in Ops,
         \/ WorkerInspects(n) \/ WorkerAuthorizes(n)
         \/ WorkerStops(n) /\ worker[n].pc = "inspected"
  PROVE  RetirementInv'
<1>0. /\ TypeOK /\ WorkersOwn /\ WorkerOwns(n) /\ worker \in [Ops -> WorkerType]
      /\ worker[n] \in WorkerType
  BY Types DEF RetirementInv, WorkersOwn
<1>1. PICK w : w = records[n].tree
  OBVIOUS
<1>2. /\ worker[n].pc \in {"running", "inspected"}
      /\ UNCHANGED <<records, spawner, cleaner, recovery, sessions, crashes>>
  BY DEF WorkerInspects, WorkerAuthorizes, WorkerStops
<1>3. /\ records[n].state = "running" /\ records[n].state \in Active /\ records[n].bound
      /\ recovery.pc # "due"
  BY <1>0, <1>2 DEF WorkerOwns, Active, Working
<1>4. w \in Paths
  BY <1>1, <1>3, ActiveFacts
<1>5. Inside(w)' = Inside(w) /\ records' = records /\ recovery' = recovery /\ sessions' = sessions
  BY <1>2 DEF Inside
<1>6. ASSUME WorkerInspects(n) PROVE RetirementInv'
  <2> DEFINE v == [worker[n] EXCEPT !.pc = "inspected"]
  <2>1. /\ boundary[w].lock = Nil /\ sessions \cap Inside(w) = {}
        /\ boundary' = [boundary EXCEPT ![w].lock = n]
        /\ worker' = [worker EXCEPT ![n] = v]
    BY <1>1, <1>6 DEF WorkerInspects
  <2>2. v \in WorkerType /\ v.pc = "inspected"
    BY <1>0 DEF WorkerType
  <2> HIDE DEF v
  <2>3. worker'[n] = v
    BY <1>0, <2>1
  <2>4. boundary'[w].lock = n
    BY <1>2, <1>4, <2>1, LockMap
  <2>5. WorkerOwns(n)'
    BY <1>1, <1>3, <1>5, <2>1, <2>2, <2>3, <2>4 DEF WorkerOwns
  <2> QED BY <1>1, <1>2, <1>4, <2>1, <2>2, <2>5, WorkerLocks
<1>7. ASSUME WorkerAuthorizes(n) PROVE RetirementInv'
  <2> DEFINE v == [worker[n] EXCEPT !.pc = "cleaning"]
  <2>1. /\ worker[n].pc = "inspected" /\ boundary' = [boundary EXCEPT ![w].lock = Nil]
        /\ worker' = [worker EXCEPT ![n] = v]
    BY <1>1, <1>7 DEF WorkerAuthorizes
  <2>2. boundary[w].lock = n /\ sessions \cap Inside(w) = {}
    BY <1>0, <1>1, <2>1 DEF WorkerOwns
  <2>3. v \in WorkerType /\ v.pc = "cleaning"
    BY <1>0 DEF WorkerType
  <2> HIDE DEF v
  <2>4. worker'[n] = v
    BY <1>0, <2>1
  <2>5. WorkerOwns(n)'
    BY <1>1, <1>3, <1>5, <2>2, <2>3, <2>4 DEF WorkerOwns
  <2>6. n # Nil
    BY RetirementAssumption
  <2> QED BY <1>1, <1>2, <1>4, <2>1, <2>2, <2>3, <2>5, <2>6, WorkerLocks
<1>8. ASSUME WorkerStops(n), worker[n].pc = "inspected" PROVE RetirementInv'
  <2> DEFINE v == [pc |-> "finish", out |-> "recovery"]
  <2>1. /\ boundary' = [boundary EXCEPT ![w].lock = Nil]
        /\ worker' = [worker EXCEPT ![n] = v]
    BY <1>1, <1>8 DEF WorkerStops, Ending
  <2>2. boundary[w].lock = n
    BY <1>0, <1>1, <1>8 DEF WorkerOwns
  <2>3. v \in WorkerType /\ v.pc = "finish" /\ v.out \in Outcomes
    BY NoWorkerFacts DEF Outcomes
  <2> HIDE DEF v
  <2>4. worker'[n] = v
    BY <1>0, <2>1
  <2>5. WorkerOwns(n)'
    BY <1>3, <1>5, <2>3, <2>4 DEF WorkerOwns
  <2>6. n # Nil
    BY RetirementAssumption
  <2> QED BY <1>1, <1>2, <1>4, <2>1, <2>2, <2>3, <2>5, <2>6, WorkerLocks
<1> QED BY <1>6, <1>7, <1>8

(* A command takes the lock of its worktree, and is left with it or        *)
(* without.                                                                *)
LEMMA CleanerLocks ==
  ASSUME RetirementInv, NEW c \in Cleaners, NEW N, NEW w \in Paths,
         boundary[w].lock \in {Nil, c},
         MapStep(N, {w}), GuardsKept,
         boundary'[w].lock = c =>
           cleaner'[c].pc \in {"inspected", "published"} /\ cleaner'[c].tree = w,
         boundary'[w].lock \in {Nil, c},
         cleaner[c].pc \in {"inspected", "published"} => cleaner[c].tree = w,
         cleaner' \in [Cleaners -> CleanerType],
         \A x \in Cleaners : x # c => cleaner'[x] = cleaner[x],
         CleanerOwns(c)', RequestFits(c)',
         Owns(c)' => Owns(c) /\ cleaner'[c].op = cleaner[c].op,
         recovery.pc = "done",
         \A n \in N : worker[n].pc = "none" /\ \A x \in Cleaners :
                        x # c /\ Owns(x) => cleaner[x].op # n,
         UNCHANGED <<worker, spawner, recovery, sessions, crashes>>
  PROVE  RetirementInv'
<1>0. /\ TypeOK /\ CleanersOwn /\ RecoveryOwns /\ recovery \in RecoveryType
      /\ worker \in [Ops -> WorkerType]
  BY Types DEF RetirementInv
<1>1. recovery.found = {}
  BY <1>0 DEF RecoveryOwns
<1>2. RecoveryOwns' /\ recovery' \in RecoveryType /\ worker' \in [Ops -> WorkerType]
      /\ recovery'.pc = "done"
  BY <1>0, <1>1 DEF RecoveryOwns
<1>3. ASSUME NEW x \in Cleaners, x # c
      PROVE  /\ cleaner'[x] = cleaner[x]
             /\ Owns(x) => worker'[cleaner[x].op].pc = "none" /\ cleaner[x].op \notin N
             /\ cleaner[x].pc \in {"inspected", "published"} => cleaner[x].tree # w
  <2>1. x # Nil
    BY RetirementAssumption
  <2>2. cleaner[x].pc \in {"inspected", "published"} => cleaner[x].tree # w
    BY <1>3, <2>1, LockIsOnes
  <2>3. Owns(x) => worker[cleaner[x].op].pc = "none"
    BY <1>0 DEF CleanersOwn, CleanerOwns
  <2> QED BY <1>3, <2>2, <2>3
<1>4. \A x \in Cleaners : Owns(x)' => Owns(x) /\ cleaner'[x].op = cleaner[x].op
  BY <1>3 DEF Owns
<1>5. ASSUME NEW n \in Ops
      PROVE  WorkerOwns(n)' \/ /\ n \notin N /\ worker'[n] = worker[n]
                               /\ worker[n].pc = "inspected" => records[n].tree # w
  <2>1. CASE n \in N
    <3>1. worker'[n].pc = "none"
      BY <2>1
    <3> QED BY <3>1 DEF WorkerOwns, Working
  <2>2. CASE n \notin N
    <3>1. n # c /\ n # Nil
      BY RetirementAssumption
    <3> QED BY <2>2, <3>1, LockIsOnes
  <2> QED BY <2>1, <2>2
<1>6. LockHeld(w)'
  BY DEF LockHeld
<1>7. \A p \in Paths \ {w}, x \in Cleaners : cleaner[x].pc \in {"inspected", "published"}
        => cleaner'[x] = cleaner[x] \/ cleaner[x].tree # p
  BY <1>3
<1>8. \A p \in Paths : LockHeld(p)' \/ p \notin {w}
  BY <1>6
<1>9. \A x \in Cleaners :
        \/ CleanerOwns(x)' /\ RequestFits(x)'
        \/ /\ cleaner'[x] = cleaner[x]
           /\ Owns(x) => worker'[cleaner[x].op].pc = "none" /\ cleaner[x].op \notin N
           /\ cleaner[x].pc \in {"inspected", "published"} => cleaner[x].tree \notin {w}
  BY <1>3
<1>10. \A n \in Ops : worker'[n] = worker[n]
  OBVIOUS
<1> QED BY <1>2, <1>4, <1>5, <1>7, <1>8, <1>9, <1>10, ThreadLeavesTheRest

LEMMA BeginLocksKeepInv ==
  ASSUME RetirementInv, NoRaces, NEW c \in Cleaners,
         (\E w \in Worktrees : BeginInspects(c, w)) \/ BeginRefused(c)
  PROVE  RetirementInv'
<1>0. TypeOK /\ cleaner \in [Cleaners -> CleanerType] /\ CleanerOwns(c)
  BY Types DEF RetirementInv, CleanersOwn
<1>1. ASSUME NEW w \in Worktrees, BeginInspects(c, w) PROVE RetirementInv'
  <2> DEFINE v == [IdleCleaner EXCEPT !.pc = "inspected", !.tree = w]
  <2>1. /\ cleaner[c].pc = "idle" /\ recovery.pc = "done" /\ boundary[w].lock = Nil
        /\ ~Reserved(w)
        /\ boundary' = [boundary EXCEPT ![w].lock = c]
        /\ cleaner' = [cleaner EXCEPT ![c] = v]
        /\ UNCHANGED <<records, spawner, worker, recovery, sessions, crashes>>
    BY <1>1 DEF BeginInspects, Accepting, NoRaces
  <2>2. v \in CleanerType /\ v.pc = "inspected" /\ v.tree = w
    BY DEF CleanerType, IdleCleaner
  <2>3. w \in Paths
    BY Constants
  <2>4. MapStep({}, {w}) /\ GuardsKept /\ boundary'[w].lock = c
    BY <2>1, <2>3, LockMap
  <2> HIDE DEF v
  <2>5. /\ cleaner'[c] = v /\ cleaner' \in [Cleaners -> CleanerType]
        /\ \A x \in Cleaners : x # c => cleaner'[x] = cleaner[x]
        /\ recovery' = recovery
    BY <1>0, <2>1, <2>2
  <2>6. ~Owns(c)'
    BY <2>2, <2>5 DEF Owns
  <2>7. ~Reserved(w)'
    BY <2>1, <2>3, <2>4 DEF MapStep
  <2>8. CleanerOwns(c)'
    BY <2>1, <2>2, <2>4, <2>5, <2>6, <2>7 DEF CleanerOwns, Reserved
  <2>9. RequestFits(c)'
    BY <2>2, <2>5 DEF RequestFits
  <2> QED BY <2>1, <2>2, <2>3, <2>4, <2>5, <2>6, <2>8, <2>9, CleanerLocks
<1>2. ASSUME BeginRefused(c) PROVE RetirementInv'
  <2>1. PICK w : w = cleaner[c].tree
    OBVIOUS
  <2>2. /\ cleaner[c].pc = "inspected"
        /\ boundary' = [boundary EXCEPT ![w].lock = Nil]
        /\ cleaner' = [cleaner EXCEPT ![c] = IdleCleaner]
        /\ UNCHANGED <<records, spawner, worker, recovery, sessions, crashes>>
    BY <1>2, <2>1 DEF BeginRefused
  <2>3. recovery.pc = "done" /\ w \in Paths /\ boundary[w].lock = c
    BY <1>0, <2>1, <2>2, OwnedByCommand DEF CleanerOwns
  <2>4. MapStep({}, {w}) /\ GuardsKept /\ boundary'[w].lock = Nil
    BY <2>2, <2>3, LockMap
  <2>5. /\ cleaner'[c] = IdleCleaner /\ cleaner' \in [Cleaners -> CleanerType]
        /\ \A x \in Cleaners : x # c => cleaner'[x] = cleaner[x]
    BY <1>0, <2>2, IdleCleanerFacts
  <2>6. ~Owns(c)' /\ cleaner'[c].pc = "idle"
    BY <2>5, IdleCleanerFacts DEF Owns
  <2>7. CleanerOwns(c)' /\ RequestFits(c)'
    BY <2>6 DEF CleanerOwns, RequestFits
  <2>8. c # Nil
    BY RetirementAssumption
  <2> QED BY <2>1, <2>2, <2>3, <2>4, <2>5, <2>6, <2>7, <2>8, CleanerLocks
<1> QED BY <1>1, <1>2

(* No other active retirement is of a worktree whose reservation is        *)
(* published but not stored.                                               *)
LEMMA PublishedIsAlone ==
  ASSUME RetirementInv, NEW c \in Cleaners, cleaner[c].pc = "published",
         NEW m \in Ops, records[m].state \in Active
  PROVE  m # cleaner[c].op /\ records[m].tree # cleaner[c].tree
BY ActiveFacts, PublishedFacts DEF Active

LEMMA BeginStoresKeepsInv ==
  ASSUME RetirementInv, NEW c \in Cleaners, BeginStores(c)
  PROVE  RetirementInv'
<1> DEFINE now == [tree |-> cleaner[c].tree, state |-> "reserved", bound |-> FALSE]
           v   == [cleaner[c] EXCEPT !.pc = "reserved"]
<1>0. /\ TypeOK /\ Stored /\ Shown /\ SnapshotLoads /\ CleanerOwns(c) /\ RequestFits(c)
      /\ boundary \in [Paths -> BoundaryType] /\ records \in [Ops -> Record]
      /\ cleaner \in [Cleaners -> CleanerType] /\ cleaner[c] \in CleanerType
  BY Types DEF RetirementInv, CleanersOwn, RequestsFit
<1>1. PICK w : w = cleaner[c].tree
  OBVIOUS
<1>2. PICK n : n = cleaner[c].op
  OBVIOUS
<1>3. /\ cleaner[c].pc = "published"
      /\ records' = [records EXCEPT ![n] = now]
      /\ boundary' = [boundary EXCEPT ![w].lock = Nil]
      /\ cleaner' = [cleaner EXCEPT ![c] = v]
      /\ UNCHANGED <<spawner, worker, recovery, sessions, crashes>>
  BY <1>1, <1>2 DEF BeginStores
<1>4. /\ w \in Worktrees /\ w \in Paths /\ n \in Ops /\ records[n].state = "none"
      /\ w # Nil /\ c # Nil
  BY <1>1, <1>2, <1>3, PublishedFacts, Constants, RetirementAssumption
<1>5. /\ boundary[w].lock = c /\ recovery.pc = "done"
      /\ boundary[w].ret = [op |-> n, state |-> "reserved", bound |-> FALSE]
  BY <1>0, <1>1, <1>2, <1>3 DEF CleanerOwns, RequestFits
<1>6. /\ now \in Record /\ now.state = "reserved" /\ now.tree = w /\ now.bound = FALSE
      /\ v \in CleanerType /\ v.pc = "reserved" /\ v.tree = w /\ v.op = n
  BY <1>0, <1>1, <1>2, <1>4 DEF Record, States, CleanerType
<1> HIDE DEF now, v
<1>7. /\ records' \in [Ops -> Record] /\ records'[n] = now
      /\ \A m \in Ops \ {n} : records'[m] = records[m]
      /\ cleaner' \in [Cleaners -> CleanerType] /\ cleaner'[c] = v
      /\ \A x \in Cleaners : x # c => cleaner'[x] = cleaner[x]
  BY <1>0, <1>3, <1>4, <1>6
<1>8. /\ boundary' \in [Paths -> BoundaryType] /\ boundary'[w].lock = Nil
      /\ \A q \in Paths : /\ q # w => boundary'[q].lock = boundary[q].lock
                          /\ boundary'[q].adm = boundary[q].adm
                          /\ boundary'[q].ret = boundary[q].ret
  BY <1>0, <1>3, <1>4 DEF BoundaryType
<1>9. ASSUME NEW m \in Ops, records[m].state \in Active
      PROVE  m # n /\ records[m].tree # w
  BY <1>1, <1>2, <1>3, <1>9, PublishedIsAlone
<1>10. MapStep({n}, {w}) /\ GuardsKept
  <2>1. SnapshotLoads'
    BY <1>0, <1>6, <1>7, <1>9 DEF SnapshotLoads
  <2>2. Stored'
    BY <1>0, <1>4, <1>6, <1>7 DEF Stored
  <2>3. Shown'
    <3>1. ASSUME NEW m \in Ops \ {n}, records[m].state \in Active
          PROVE  boundary'[records[m].tree].ret = boundary[records[m].tree].ret
      BY <1>8, <3>1, ActiveFacts
    <3> SUFFICES ASSUME NEW m \in Ops, records'[m].state \in Active
                 PROVE  boundary'[records'[m].tree].ret =
                          [op |-> m, state |-> records'[m].state, bound |-> records'[m].bound]
      BY DEF Shown
    <3>2. CASE m = n
      <4>1. records'[m] = now /\ m \in Ops
        BY <1>7, <3>2
      <4>2. records'[m].state = "reserved" /\ records'[m].tree = w
        BY <1>6, <4>1
      <4>3. records'[m].bound = FALSE
        BY <4>1 DEF now
      <4>4. boundary'[w].ret = [op |-> n, state |-> "reserved", bound |-> FALSE]
        BY <1>4, <1>5, <1>8
      <4> QED BY <3>2, <4>2, <4>3, <4>4
    <3>3. CASE m # n
      BY <1>0, <1>7, <3>1, <3>3 DEF Shown
    <3> QED BY <3>2, <3>3
  <2>4. EndsOnce
    BY <1>4, <1>7 DEF EndsOnce, Terminal
  <2> QED BY <1>4, <1>7, <1>8, <2>1, <2>2, <2>3, <2>4 DEF MapStep, GuardsKept, Reserved
<1>11. Owns(c)' /\ Owns(c)
  BY <1>3, <1>6, <1>7 DEF Owns
<1>12. /\ worker[n].pc = "none" /\ worker' = worker /\ recovery' = recovery
       /\ \A x \in Cleaners : x # c /\ Owns(x) => cleaner[x].op # n
  BY <1>2, <1>3, <1>11, OwnedByCommand
<1>13. CleanerOwns(c)' /\ RequestFits(c)'
  BY <1>4, <1>5, <1>6, <1>7, <1>12 DEF CleanerOwns, RequestFits
<1>14. cleaner'[c].op = cleaner[c].op /\ boundary'[w].lock \in {Nil, c} /\ boundary'[w].lock # c
  BY <1>2, <1>4, <1>6, <1>7, <1>8
<1> QED BY <1>1, <1>3, <1>4, <1>5, <1>7, <1>10, <1>11, <1>12, <1>13, <1>14, CleanerLocks

LEMMA BeginUndoneKeepsInv ==
  ASSUME RetirementInv, NEW c \in Cleaners, BeginUndone(c)
  PROVE  RetirementInv'
<1>0. /\ TypeOK /\ Stored /\ Shown /\ SnapshotLoads /\ CleanerOwns(c)
      /\ boundary \in [Paths -> BoundaryType] /\ records \in [Ops -> Record]
      /\ cleaner \in [Cleaners -> CleanerType]
  BY Types DEF RetirementInv, CleanersOwn
<1>1. PICK w : w = cleaner[c].tree
  OBVIOUS
<1>2. /\ cleaner[c].pc = "published"
      /\ boundary' = [boundary EXCEPT ![w].lock = Nil,
           ![w].ret = IF @.op = cleaner[c].op THEN NoneYet ELSE @]
      /\ cleaner' = [cleaner EXCEPT ![c] = IdleCleaner]
      /\ UNCHANGED <<records, spawner, worker, recovery, sessions, crashes>>
  BY <1>1 DEF BeginUndone
<1>3. /\ w \in Paths /\ boundary[w].ret.op = cleaner[c].op /\ c # Nil
      /\ boundary[w].lock = c /\ recovery.pc = "done"
  BY <1>0, <1>1, <1>2, PublishedFacts, RetirementAssumption DEF CleanerOwns
<1>4. NoneYet \in Published /\ NoneYet.state = "none"
  BY DEF NoneYet, Published, States
<1>5. /\ boundary' \in [Paths -> BoundaryType] /\ boundary'[w].lock = Nil
      /\ boundary'[w].ret = NoneYet /\ boundary'[w].adm = boundary[w].adm
      /\ \A q \in Paths : q # w => boundary'[q] = boundary[q]
  BY <1>0, <1>2, <1>3, <1>4 DEF BoundaryType
<1>6. /\ cleaner' \in [Cleaners -> CleanerType] /\ cleaner'[c] = IdleCleaner
      /\ \A x \in Cleaners : x # c => cleaner'[x] = cleaner[x]
  BY <1>0, <1>2, IdleCleanerFacts
<1>7. MapStep({}, {w}) /\ GuardsKept
  <2>1. SnapshotLoads' /\ Stored' /\ EndsOnce /\ records' = records
    BY <1>0, <1>2 DEF SnapshotLoads, Stored, EndsOnce
  <2>2. Shown'
    <3>1. ASSUME NEW m \in Ops, records[m].state \in Active
          PROVE  boundary'[records[m].tree] = boundary[records[m].tree]
      BY <1>1, <1>2, <1>5, <3>1, ActiveFacts, PublishedIsAlone
    <3> QED BY <1>0, <2>1, <3>1 DEF Shown
  <2> QED BY <1>0, <1>4, <1>5, <2>1, <2>2 DEF MapStep, GuardsKept, Reserved, Active
<1>8. ~Owns(c)' /\ cleaner'[c].pc = "idle"
  BY <1>6, IdleCleanerFacts DEF Owns
<1>9. CleanerOwns(c)' /\ RequestFits(c)'
  BY <1>8 DEF CleanerOwns, RequestFits
<1> QED BY <1>1, <1>2, <1>3, <1>5, <1>6, <1>7, <1>8, <1>9, CleanerLocks

(* A reservation is published for a new retirement, where nobody is        *)
(* admitted.                                                               *)
LEMMA BeginPublishesKeepsInv ==
  ASSUME RetirementInv, NEW c \in Cleaners, NEW n \in Ops, BeginPublishes(c, n)
  PROVE  RetirementInv'
<1> DEFINE ret == [op |-> n, state |-> "reserved", bound |-> FALSE]
           v   == [cleaner[c] EXCEPT !.pc = "published", !.op = n]
<1>0. /\ TypeOK /\ Stored /\ Shown /\ SnapshotLoads /\ CleanersOwn /\ CleanerOwns(c)
      /\ WorkersOwn /\ LocksHeld /\ RecoveryOwns /\ Counted /\ Excluded /\ RequestsFit
      /\ boundary \in [Paths -> BoundaryType] /\ records \in [Ops -> Record]
      /\ cleaner \in [Cleaners -> CleanerType] /\ cleaner[c] \in CleanerType
  BY Types DEF RetirementInv, CleanersOwn
<1>1. PICK w : w = cleaner[c].tree
  OBVIOUS
<1>2. /\ cleaner[c].pc = "inspected" /\ NoneAdmitted(w) /\ records[n].state = "none"
      /\ \A x \in Cleaners : cleaner[x].op # n
      /\ boundary' = [boundary EXCEPT ![w].ret = ret]
      /\ cleaner' = [cleaner EXCEPT ![c] = v]
      /\ UNCHANGED <<records, spawner, worker, recovery, sessions, crashes>>
  BY <1>0, <1>1 DEF BeginPublishes
<1>3. /\ w \in Worktrees /\ w \in Paths /\ boundary[w].lock = c /\ ~Reserved(w)
      /\ recovery.pc = "done" /\ c # Nil
  BY <1>0, <1>1, <1>2, Constants, RetirementAssumption DEF CleanerOwns, Reserved
<1>4. /\ ret \in Published /\ ret.op = n /\ ret.state = "reserved"
      /\ v \in CleanerType /\ v.pc = "published" /\ v.tree = w /\ v.op = n
  BY <1>0, <1>1 DEF Published, States, CleanerType
<1>5. /\ boundary' \in [Paths -> BoundaryType] /\ boundary'[w].ret = ret
      /\ \A q \in Paths : /\ q # w => boundary'[q].ret = boundary[q].ret
                          /\ boundary'[q].adm = boundary[q].adm
                          /\ boundary'[q].lock = boundary[q].lock
  BY <1>0, <1>2, <1>3, <1>4 DEF BoundaryType
<1> HIDE DEF v
<1>6. /\ cleaner' \in [Cleaners -> CleanerType] /\ cleaner'[c] = v
      /\ \A x \in Cleaners : x # c => cleaner'[x] = cleaner[x]
      /\ records' = records /\ worker' = worker /\ recovery' = recovery /\ spawner' = spawner
      /\ sessions' = sessions
  BY <1>0, <1>2, <1>4
<1>7. TypeOK'
  BY <1>0, <1>2, <1>5, <1>6
     DEF TypeOK, SnapshotLoads, BoundaryType, CleanerType
<1>8. Stored' /\ RecoveryOwns' /\ Counted'
  <2>1. \A p \in Paths : Guards(p)' = Guards(p)
    BY <1>6 DEF Guards
  <2> QED BY <1>0, <1>5, <1>6, <2>1 DEF Stored, RecoveryOwns, Counted
<1>9. Shown'
  <2>1. ASSUME NEW m \in Ops, records[m].state \in Active
        PROVE  boundary'[records[m].tree].ret = boundary[records[m].tree].ret
    BY <1>3, <1>5, <2>1, ActiveFacts
  <2> QED BY <1>0, <1>6, <2>1 DEF Shown
<1>10. worker[n].pc = "none"
  BY <1>0, <1>2 DEF WorkersOwn, WorkerOwns
<1>11. ASSUME NEW x \in Cleaners, x # c
       PROVE  CleanerOwns(x)' /\ RequestFits(x)'
  <2>1. CleanerOwns(x) /\ RequestFits(x) /\ cleaner'[x] = cleaner[x]
    BY <1>0, <1>6, <1>11 DEF CleanersOwn, RequestsFit
  <2>2. cleaner[x].pc # "idle" => cleaner[x].tree \in Paths
    BY <2>1, Constants DEF CleanerOwns
  <2>3. cleaner[x].pc \in {"inspected", "published"} => cleaner[x].tree # w
    BY <1>3, <1>11, LockIsOnes
  <2>4. cleaner[x].pc \in {"inspected", "published"} =>
          /\ boundary'[cleaner[x].tree].ret = boundary[cleaner[x].tree].ret
          /\ boundary'[cleaner[x].tree].lock = boundary[cleaner[x].tree].lock
    BY <1>5, <2>2, <2>3
  <2>5. Owns(x)' <=> Owns(x)
    BY <2>1 DEF Owns
  <2>6. CleanerOwns(x)'
    BY <1>6, <2>1, <2>4, <2>5 DEF CleanerOwns
  <2>7. RequestFits(x)'
    BY <1>6, <2>1, <2>4 DEF RequestFits
  <2> QED BY <2>6, <2>7
<1>12. CleanerOwns(c)' /\ RequestFits(c)'
  <2>1. CleanerOwns(c)'
    BY <1>2, <1>3, <1>4, <1>5, <1>6, <1>10 DEF CleanerOwns
  <2>2. RequestFits(c)'
    BY <1>4, <1>5, <1>6 DEF RequestFits
  <2> QED BY <2>1, <2>2
<1>13. CleanersOwn' /\ RequestsFit'
  <2>1. ASSUME NEW x \in Cleaners, NEW y \in Cleaners, x # y, Owns(x)', Owns(y)'
        PROVE  cleaner'[y].op # cleaner'[x].op
    <3>1. x # c => Owns(x)
      BY <1>6, <2>1 DEF Owns
    <3>2. y # c => Owns(y)
      BY <1>6, <2>1 DEF Owns
    <3> QED BY <1>0, <1>2, <1>4, <1>6, <2>1, <3>1, <3>2 DEF CleanersOwn
  <2> QED BY <1>11, <1>12, <2>1 DEF CleanersOwn, RequestsFit
<1>14. WorkersOwn'
  <2>1. ASSUME NEW m \in Ops PROVE WorkerOwns(m)'
    <3>1. WorkerOwns(m)
      BY <1>0 DEF WorkersOwn
    <3>2. worker[m].pc = "inspected" =>
            boundary'[records[m].tree].lock = boundary[records[m].tree].lock
      <4>1. worker[m].pc = "inspected" => records[m].state \in Active
        BY <3>1 DEF WorkerOwns, Working
      <4> QED BY <1>5, <4>1, ActiveFacts
    <3>3. Inside(records[m].tree)' = Inside(records[m].tree)
      BY <1>6 DEF Inside
    <3> QED BY <1>6, <3>1, <3>2, <3>3 DEF WorkerOwns
  <2> QED BY <2>1 DEF WorkersOwn
<1>15. LocksHeld'
  <2>1. ASSUME NEW p \in Paths PROVE LockHeld(p)'
    <3>1. LockHeld(p) /\ boundary'[p].lock = boundary[p].lock
      BY <1>0, <1>5 DEF LocksHeld
    <3>2. \A x \in Cleaners : cleaner[x].pc \in {"inspected", "published"} /\ cleaner[x].tree = p
            => cleaner'[x].pc \in {"inspected", "published"} /\ cleaner'[x].tree = p
      BY <1>1, <1>4, <1>6
    <3> QED BY <1>6, <3>1, <3>2 DEF LockHeld
  <2> QED BY <2>1 DEF LocksHeld
<1>16. Excluded'
  <2> SUFFICES ASSUME NEW s \in Spawners, spawner[s].pc = "admitted",
                      NEW u \in Within[spawner[s].path]
               PROVE  ~Reserved(u)'
    BY <1>6 DEF Excluded
  <2>1. spawner[s].path \in Paths /\ u \in Paths
    BY <1>0, Constants, RetirementAssumption DEF Counted
  <2>2. u # w
    BY <1>2, <1>3, NoneAdmittedFacts
  <2>3. ~Reserved(u)
    BY <1>0 DEF Excluded
  <2> QED BY <1>5, <2>1, <2>2, <2>3 DEF Reserved
<1> QED BY <1>7, <1>8, <1>9, <1>13, <1>14, <1>15, <1>16 DEF RetirementInv

-----------------------------------------------------------------------------
(* Recovery, and the death before it.                                      *)

LEMMA RecoveryMoves ==
  ASSUME RetirementInv, NEW N, NEW k, N \subseteq {k}, MapStep(N, {}), GuardsKept,
         recovery' \in RecoveryType, RecoveryOwns', recovery'.pc # "due",
         recovery.pc = "done" => recovery'.pc = "done" /\ N = {} /\ worker' = worker,
         worker' \in [Ops -> WorkerType], \A m \in Ops : m # k => worker'[m] = worker[m],
         \A m \in Ops : m = k => WorkerOwns(m)' /\ worker[m].pc = "none",
         UNCHANGED <<spawner, cleaner, sessions, crashes>>
  PROVE  RetirementInv'
<1>0. TypeOK /\ CleanersOwn /\ cleaner \in [Cleaners -> CleanerType]
  BY Types DEF RetirementInv
<1>1. ASSUME NEW c \in Cleaners, Owns(c)
      PROVE  worker'[cleaner[c].op].pc = "none" /\ cleaner[c].op \notin N
  <2>1. recovery.pc = "done" /\ worker[cleaner[c].op].pc = "none"
    BY <1>0, <1>1 DEF CleanersOwn, CleanerOwns, Owns
  <2> QED BY <2>1
<1>2. \A c \in Cleaners : Owns(c)' => Owns(c) /\ cleaner'[c].op = cleaner[c].op
  BY DEF Owns
<1>3. \A m \in Ops : worker[m].pc = "inspected" => worker'[m] = worker[m]
  OBVIOUS
<1>4. cleaner' \in [Cleaners -> CleanerType] /\ \A c \in Cleaners : cleaner'[c] = cleaner[c]
  BY <1>0
<1>5. \A m \in Ops : WorkerOwns(m)' \/ (m \notin N /\ worker'[m] = worker[m])
  OBVIOUS
<1> QED BY <1>1, <1>2, <1>3, <1>4, <1>5, ThreadLeavesTheRest

(* What is left of the list once f is dealt with.                          *)
LEMMA FoundFacts ==
  ASSUME RetirementInv, NEW f \in recovery.found
  PROVE  /\ f.op \in Ops /\ f.was \in Record /\ records[f.op] = f.was /\ f.was.state \in Active
         /\ f.was.tree \in Worktrees /\ f.was.tree \in Paths
         /\ worker[f.op].pc = "none" /\ recovery.pc = "going"
         /\ \A g \in recovery.found : g # f => g.op # f.op
<1>0. /\ TypeOK /\ RecoveryOwns /\ recovery \in RecoveryType
  BY Types DEF RetirementInv
<1>1. \A g \in recovery.found : /\ g \in [op : Ops, was : Record] /\ records[g.op] = g.was
                                /\ g.was.state \in Active
  BY <1>0 DEF RecoveryType, RecoveryOwns
<1>2. \A g \in recovery.found : g # f => g.op # f.op
  BY <1>1
<1> QED BY <1>0, <1>1, <1>2, ActiveFacts DEF RecoveryOwns

LEMMA RecoveryDeals ==
  ASSUME RetirementInv, NEW f \in recovery.found, NEW k, k = f.op,
         NEW N, N \subseteq {k}, MapStep(N, {}), GuardsKept,
         NEW b \in Paths \cup {Nil},
         recovery' = [pc |-> recovery.pc, found |-> recovery.found \ {f}, reclaim |-> b],
         worker' \in [Ops -> WorkerType], \A m \in Ops : m # k => worker'[m] = worker[m],
         WorkerOwns(k)',
         UNCHANGED <<spawner, cleaner, sessions, crashes>>
  PROVE  RetirementInv'
<1>0. TypeOK /\ RecoveryOwns /\ recovery \in RecoveryType
  BY Types DEF RetirementInv
<1>1. /\ k \in Ops /\ worker[k].pc = "none" /\ recovery.pc = "going"
      /\ \A g \in recovery.found : g # f => g.op # k
  BY FoundFacts
<1>2. /\ recovery' \in RecoveryType /\ recovery'.pc = "going"
      /\ recovery'.found = recovery.found \ {f}
  BY <1>0, <1>1 DEF RecoveryType
<1>3. RecoveryOwns'
  <2>1. ASSUME NEW g \in recovery.found, g # f
        PROVE  /\ records'[g.op] = g.was /\ g.was.state \in Active
               /\ worker'[g.op].pc = "none"
    <3>1. g.op \in Ops /\ g.op # k /\ records[g.op] = g.was /\ g.was.state \in Active
          /\ worker[g.op].pc = "none"
      BY <1>1, <2>1, FoundFacts
    <3> QED BY <3>1 DEF MapStep
  <2> QED BY <1>2, <2>1 DEF RecoveryOwns
<1>4. \A m \in Ops : m = k => WorkerOwns(m)' /\ worker[m].pc = "none"
  BY <1>1
<1>5. recovery'.pc # "due" /\ recovery.pc # "done"
  BY <1>1, <1>2
<1> QED BY <1>2, <1>3, <1>4, <1>5, RecoveryMoves

LEMMA RecoveryDealsKeepInv ==
  ASSUME RetirementInv, NEW f \in recovery.found,
         RecoverUnbound(f) \/ RecoverBound(f) \/ RecoverRunning(f)
  PROVE  RetirementInv'
<1>0. /\ TypeOK /\ recovery \in RecoveryType /\ worker \in [Ops -> WorkerType]
      /\ SnapshotLoads
  BY Types DEF RetirementInv
<1>1. PICK k : k = f.op
  OBVIOUS
<1>2. /\ k \in Ops /\ worker[k].pc = "none" /\ recovery.pc = "going"
      /\ records[k] = f.was /\ records[k].state \in Active /\ f.was.tree \in Paths
      /\ worker[k] \in WorkerType
  BY <1>0, <1>1, FoundFacts
<1>3. /\ recovery.reclaim = Nil /\ UNCHANGED <<spawner, cleaner, sessions, crashes>>
      /\ Nil \in Paths \cup {Nil} /\ f.was.tree \in Paths \cup {Nil}
  BY <1>2 DEF RecoverUnbound, RecoverBound, RecoverRunning
<1>4. /\ Recovered(f) = [pc |-> recovery.pc, found |-> recovery.found \ {f}, reclaim |-> Nil]
      /\ [Recovered(f) EXCEPT !.reclaim = f.was.tree] =
           [pc |-> recovery.pc, found |-> recovery.found \ {f}, reclaim |-> f.was.tree]
  <2>1. recovery = [pc |-> recovery.pc, found |-> recovery.found, reclaim |-> Nil]
    BY <1>0, <1>3 DEF RecoveryType
  <2>2. Recovered(f) = [pc |-> recovery.pc, found |-> recovery.found \ {f}, reclaim |-> Nil]
    BY <2>1 DEF Recovered
  <2> QED BY <2>2
<1>5. worker' = worker => /\ worker' \in [Ops -> WorkerType]
                          /\ \A m \in Ops : worker'[m] = worker[m]
                          /\ WorkerOwns(k)'
  BY <1>0, <1>2 DEF WorkerOwns, Working
<1>6. records[k].bound \in BOOLEAN /\ (records[k].state = "running" => records[k].bound)
  BY <1>0, <1>2, FoundFacts DEF SnapshotLoads, Record
<1>7. ASSUME UNCHANGED <<records, boundary>>, worker' = worker, recovery' = Recovered(f)
      PROVE  RetirementInv'
  <2>1. MapStep({}, {}) /\ GuardsKept
    BY <1>7, QuietMap
  <2> QED BY <1>1, <1>3, <1>4, <1>5, <1>7, <2>1, RecoveryDeals
<1>8. ASSUME Announce(k, "failed", records[k].bound), worker' = worker,
             recovery' = [Recovered(f) EXCEPT !.reclaim = f.was.tree]
      PROVE  RetirementInv'
  <2>1. MapStep({k}, {}) /\ GuardsKept
    BY <1>2, <1>6, <1>8, AnnounceMap DEF States
  <2> QED BY <1>1, <1>3, <1>4, <1>5, <1>8, <2>1, RecoveryDeals
<1>9. ASSUME Announce(k, "recovery", records[k].bound), records[k].bound, worker' = worker,
             recovery' = Recovered(f)
      PROVE  RetirementInv'
  <2>1. MapStep({k}, {}) /\ GuardsKept
    BY <1>2, <1>6, <1>9, AnnounceMap DEF States
  <2> QED BY <1>1, <1>3, <1>4, <1>5, <1>9, <2>1, RecoveryDeals
<1>10. ASSUME records[k].bound, UNCHANGED <<records, boundary>>, recovery' = Recovered(f),
              worker' = [worker EXCEPT ![k].pc = "started"]
       PROVE  RetirementInv'
  <2> DEFINE v == [worker[k] EXCEPT !.pc = "started"]
  <2>1. v \in WorkerType /\ v.pc = "started" /\ worker' = [worker EXCEPT ![k] = v]
    BY <1>2, <1>10 DEF WorkerType
  <2>2. MapStep({}, {}) /\ GuardsKept
    BY <1>10, QuietMap
  <2> HIDE DEF v
  <2>3. /\ worker' \in [Ops -> WorkerType] /\ worker'[k] = v
        /\ \A m \in Ops : m # k => worker'[m] = worker[m]
    BY <1>0, <1>2, <2>1
  <2>4. recovery'.pc = "going" /\ records' = records
    BY <1>2, <1>4, <1>10
  <2>5. WorkerOwns(k)'
    BY <1>2, <1>10, <2>1, <2>3, <2>4 DEF WorkerOwns, Active
  <2> QED BY <1>1, <1>3, <1>4, <1>10, <2>2, <2>3, <2>5, RecoveryDeals
<1>11. ASSUME RecoverUnbound(f) PROVE RetirementInv'
  BY <1>1, <1>7, <1>8, <1>11 DEF RecoverUnbound, Transition
<1>12. ASSUME RecoverBound(f) PROVE RetirementInv'
  BY <1>1, <1>2, <1>7, <1>10, <1>12 DEF RecoverBound
<1>13. ASSUME RecoverRunning(f) PROVE RetirementInv'
  BY <1>1, <1>2, <1>6, <1>7, <1>9, <1>13 DEF RecoverRunning, Transition
<1> QED BY <1>11, <1>12, <1>13

LEMMA RecoveryKeepsInv ==
  ASSUME RetirementInv, NoRaces, RecoveryStep
  PROVE  RetirementInv'
<1>0. /\ TypeOK /\ WorkersOwn /\ RecoveryOwns /\ CleanersOwn /\ recovery \in RecoveryType
      /\ worker \in [Ops -> WorkerType] /\ records \in [Ops -> Record]
      /\ cleaner \in [Cleaners -> CleanerType]
  BY Types DEF RetirementInv
<1>1. ASSUME RecoveryLists PROVE RetirementInv'
  <2> DEFINE found == {[op |-> n, was |-> records[n]] : n \in {m \in Ops : records[m].state \in Active}}
  <2>1. /\ recovery.pc = "due" /\ recovery' = [recovery EXCEPT !.pc = "going", !.found = found]
        /\ UNCHANGED <<records, boundary, spawner, cleaner, worker, sessions, crashes>>
    BY <1>1 DEF RecoveryLists
  <2>2. /\ found \subseteq [op : Ops, was : Record]
        /\ \A f \in found : records[f.op] = f.was /\ f.was.state \in Active /\ f.op \in Ops
    BY <1>0
  <2> HIDE DEF found
  <2>3. recovery' \in RecoveryType /\ recovery'.pc = "going" /\ recovery'.found = found
    BY <1>0, <2>1, <2>2 DEF RecoveryType
  <2>4. \A n \in Ops : worker[n].pc = "none"
    BY <1>0, <2>1 DEF WorkersOwn, WorkerOwns
  <2>5. RecoveryOwns'
    BY <2>1, <2>2, <2>3, <2>4 DEF RecoveryOwns
  <2>6. MapStep({}, {}) /\ GuardsKept
    BY <2>1, QuietMap
  <2>7. worker' \in [Ops -> WorkerType] /\ \A n \in Ops : worker'[n] = worker[n]
    BY <1>0, <2>1
  <2>8. \A n \in Ops : WorkerOwns(n)'
    BY <2>4, <2>7 DEF WorkerOwns, Working
  <2> QED BY <2>1, <2>3, <2>4, <2>5, <2>6, <2>7, <2>8, RecoveryMoves
<1>2. ASSUME RecoveryRemoves PROVE RetirementInv'
  <2>1. PICK w : w = recovery.reclaim
    OBVIOUS
  <2>2. /\ w \in Paths /\ boundary' = [boundary EXCEPT ![w] = Reclaimed(w, Nil)]
        /\ recovery' = [recovery EXCEPT !.reclaim = Nil]
        /\ UNCHANGED <<records, spawner, cleaner, worker, sessions, crashes>>
    BY <1>0, <1>2, <2>1 DEF RecoveryRemoves, RecoveryType
  <2>3. Nil \notin Spawners /\ Nil \notin Cleaners /\ Nil \notin Ops
    BY RetirementAssumption
  <2>4. MapStep({}, {}) /\ GuardsKept
    BY <2>2, <2>3, ReclaimMap
  <2>5. /\ recovery' \in RecoveryType /\ recovery'.pc = recovery.pc
        /\ recovery'.found = recovery.found
    BY <1>0, <2>2 DEF RecoveryType
  <2>6. RecoveryOwns'
    BY <1>0, <2>2, <2>5 DEF RecoveryOwns
  <2>7. /\ worker' \in [Ops -> WorkerType] /\ \A n \in Ops : worker'[n] = worker[n]
        /\ cleaner' \in [Cleaners -> CleanerType] /\ \A c \in Cleaners : cleaner'[c] = cleaner[c]
    BY <1>0, <2>2
  <2>8. \A c \in Cleaners : Owns(c) => worker'[cleaner[c].op].pc = "none"
    BY <1>0, <2>2 DEF CleanersOwn, CleanerOwns
  <2>9. \A c \in Cleaners : Owns(c)' => Owns(c) /\ cleaner'[c].op = cleaner[c].op
    BY <2>2 DEF Owns
  <2> QED BY <2>2, <2>4, <2>5, <2>6, <2>7, <2>8, <2>9, ThreadLeavesTheRest
<1>3. ASSUME RecoveryEnds PROVE RetirementInv'
  <2>1. /\ recovery.pc = "going" /\ recovery' = [recovery EXCEPT !.pc = "done", !.found = {}]
        /\ UNCHANGED <<records, boundary, spawner, cleaner, worker, sessions, crashes>>
    BY <1>3 DEF RecoveryEnds
  <2>2. recovery' \in RecoveryType /\ recovery'.pc = "done" /\ recovery'.found = {}
    BY <1>0, <2>1 DEF RecoveryType
  <2>3. RecoveryOwns'
    BY <2>2 DEF RecoveryOwns
  <2>4. MapStep({}, {}) /\ GuardsKept
    BY <2>1, QuietMap
  <2>5. worker' \in [Ops -> WorkerType] /\ \A n \in Ops : worker'[n] = worker[n]
    BY <1>0, <2>1
  <2>6. Nil \notin Ops
    BY RetirementAssumption
  <2> QED BY <2>1, <2>2, <2>3, <2>4, <2>5, <2>6, RecoveryMoves
<1> QED BY <1>1, <1>2, <1>3, RecoveryDealsKeepInv DEF RecoveryStep

(* The map is built again from the file, which has one active retirement   *)
(* for a worktree.                                                         *)
LEMMA CrashKeepsInv ==
  ASSUME RetirementInv, Crash
  PROVE  RetirementInv'
<1> DEFINE of(p) == {n \in Ops : records[n].tree = p /\ records[n].state \in Active}
           found(n) == [op |-> n, state |-> records[n].state, bound |-> records[n].bound]
<1>0. /\ TypeOK /\ Stored /\ SnapshotLoads /\ records \in [Ops -> Record]
      /\ sessions \subseteq Dirs /\ crashes \in 0 .. MaxCrashes
  BY Types DEF RetirementInv
<1>1. /\ records' = records /\ sessions' = sessions
      /\ spawner' = [s \in Spawners |-> IdleSpawner]
      /\ cleaner' = [c \in Cleaners |-> IdleCleaner]
      /\ worker' = [n \in Ops |-> NoWorker]
      /\ recovery' = NotBegun
  BY DEF Crash
<1>2. crashes' \in 0 .. MaxCrashes
  BY <1>0, RetirementAssumption DEF Crash
<1>3. Unused \in BoundaryType /\ Unused.adm = 0 /\ Unused.lock = Nil
  BY Constants DEF Unused, BoundaryType, Published, NoneYet, States
<1>4. ASSUME NEW p \in Paths
      PROVE  \/ of(p) = {} /\ boundary'[p] = Unused
             \/ \E n \in of(p) : boundary'[p] = [Unused EXCEPT !.ret = found(n)]
  BY DEF Crash
<1>5. ASSUME NEW n \in Ops
      PROVE  /\ [Unused EXCEPT !.ret = found(n)] \in BoundaryType
             /\ [Unused EXCEPT !.ret = found(n)].adm = 0
             /\ [Unused EXCEPT !.ret = found(n)].lock = Nil
             /\ [Unused EXCEPT !.ret = found(n)].ret = found(n)
  <2>1. found(n) \in Published
    BY <1>0 DEF Published, Record
  <2> QED BY <1>3, <2>1 DEF BoundaryType
<1>6. boundary' \in [Paths -> BoundaryType]
      /\ \A p \in Paths : boundary'[p].adm = 0 /\ boundary'[p].lock = Nil
  <2>1. boundary' = [p \in Paths |-> boundary'[p]]
    BY DEF Crash
  <2>2. ASSUME NEW p \in Paths
        PROVE  boundary'[p] \in BoundaryType /\ boundary'[p].adm = 0 /\ boundary'[p].lock = Nil
    <3> HIDE DEF found
    <3>1. CASE boundary'[p] = Unused
      BY <1>3, <3>1
    <3>2. ASSUME NEW n \in of(p), boundary'[p] = [Unused EXCEPT !.ret = found(n)]
          PROVE  boundary'[p] \in BoundaryType /\ boundary'[p].adm = 0 /\ boundary'[p].lock = Nil
      BY <1>5, <3>2
    <3> QED BY <1>4, <3>1, <3>2
  <2> QED BY <2>1, <2>2
<1>7. Shown'
  <2> SUFFICES ASSUME NEW n \in Ops, records[n].state \in Active
               PROVE  boundary'[records[n].tree].ret = found(n)
    BY <1>1 DEF Shown
  <2>1. records[n].tree \in Paths /\ n \in of(records[n].tree)
    BY ActiveFacts
  <2>2. \A m \in of(records[n].tree) : m = n
    BY <1>0 DEF SnapshotLoads
  <2> HIDE DEF found, of
  <2>3. PICK p \in Paths : p = records[n].tree
    BY <2>1
  <2>4. PICK m \in of(p) : boundary'[p] = [Unused EXCEPT !.ret = found(m)]
    BY <1>4, <2>1, <2>3
  <2>5. m = n
    BY <2>2, <2>3
  <2> QED BY <1>5, <2>3, <2>4, <2>5
<1>8. TypeOK'
  <2>1. /\ IdleSpawner \in SpawnerType /\ NotBegun \in RecoveryType
    BY DEF IdleSpawner, SpawnerType, NotBegun, RecoveryType
  <2>2. SnapshotLoads'
    BY <1>0, <1>1 DEF SnapshotLoads
  <2> QED BY <1>0, <1>1, <1>2, <1>6, <2>1, <2>2, IdleCleanerFacts, NoWorkerFacts
           DEF TypeOK, BoundaryType, SpawnerType, CleanerType, WorkerType, RecoveryType
<1>9. Stored'
  BY <1>0, <1>1 DEF Stored
<1>10. CleanersOwn' /\ RequestsFit'
  <2>1. \A c \in Cleaners : cleaner'[c].pc = "idle"
    BY <1>1, IdleCleanerFacts
  <2> QED BY <2>1 DEF CleanersOwn, CleanerOwns, RequestsFit, RequestFits, Owns
<1>11. WorkersOwn'
  BY <1>1, NoWorkerFacts DEF WorkersOwn, WorkerOwns, Working
<1>12. LocksHeld' /\ RecoveryOwns'
  BY <1>1, <1>6 DEF LocksHeld, LockHeld, RecoveryOwns, NotBegun
<1>13. Counted' /\ Excluded'
  <2>1. \A s \in Spawners : spawner'[s].pc = "idle"
    BY <1>1 DEF IdleSpawner
  <2>2. \A p \in Paths : Guards(p)' = {}
    BY <2>1 DEF Guards
  <2> QED BY <1>6, <2>1, <2>2, FS_EmptySet DEF Counted, Excluded
<1> QED BY <1>7, <1>8, <1>9, <1>10, <1>11, <1>12, <1>13 DEF RetirementInv

-----------------------------------------------------------------------------
LEMMA RetirementInit == Init => RetirementInv
<1> SUFFICES ASSUME Init PROVE RetirementInv
  OBVIOUS
<1>1. /\ NoRecord \in Record /\ NoRecord.state = "none" /\ NoRecord.tree = Nil
      /\ Unused \in BoundaryType /\ Unused.adm = 0 /\ Unused.lock = Nil
      /\ IdleSpawner \in SpawnerType /\ IdleSpawner.pc = "idle"
      /\ NotBegun \in RecoveryType /\ NotBegun.found = {}
  BY Constants DEF NoRecord, Record, States, Unused, BoundaryType, Published, NoneYet,
     IdleSpawner, SpawnerType, NotBegun, RecoveryType
<1>2. TypeOK /\ Stored /\ Shown
  <2>1. SnapshotLoads /\ Stored /\ Shown
    BY <1>1 DEF Init, SnapshotLoads, Stored, Shown, Active
  <2>2. crashes \in 0 .. MaxCrashes
    BY RetirementAssumption DEF Init
  <2> QED BY <1>1, <2>1, <2>2, Types, IdleCleanerFacts, NoWorkerFacts DEF Init
<1>3. CleanersOwn /\ RequestsFit
  <2>1. \A c \in Cleaners : cleaner[c].pc = "idle"
    BY IdleCleanerFacts DEF Init
  <2> QED BY <2>1 DEF CleanersOwn, CleanerOwns, RequestsFit, RequestFits, Owns
<1>4. WorkersOwn
  BY NoWorkerFacts DEF Init, WorkersOwn, WorkerOwns, Working
<1>5. LocksHeld /\ RecoveryOwns
  BY <1>1 DEF Init, LocksHeld, LockHeld, RecoveryOwns
<1>6. Counted /\ Excluded
  <2>1. \A s \in Spawners : spawner[s].pc = "idle"
    BY <1>1 DEF Init
  <2>2. \A p \in Paths : Guards(p) = {} /\ boundary[p].adm = 0
    BY <1>1, <2>1 DEF Guards, Init
  <2> QED BY <2>1, <2>2, FS_EmptySet DEF Counted, Excluded
<1> QED BY <1>2, <1>3, <1>4, <1>5, <1>6 DEF RetirementInv

(* Every step of every thread keeps the invariant.                         *)
LEMMA RetirementStep ==
  ASSUME RetirementInv, NoRaces, [Next]_vars
  PROVE  RetirementInv'
<1>1. CASE (\E s \in Spawners : SpawnerStep(s)) \/ \E d \in Dirs : Close(d)
  BY <1>1, ActivityKeepsInv
<1>2. ASSUME NEW c \in Cleaners, CleanerStep(c) PROVE RetirementInv'
  <2>1. CASE (\E w \in Worktrees : BeginInspects(c, w)) \/ BeginRefused(c)
    BY <2>1, BeginLocksKeepInv
  <2>2. CASE \E n \in Ops : BeginPublishes(c, n)
    BY <2>2, BeginPublishesKeepsInv
  <2>3. CASE BeginStores(c)
    BY <2>3, BeginStoresKeepsInv
  <2>4. CASE BeginUndone(c)
    BY <2>4, BeginUndoneKeepsInv
  <2>5. CASE Bind(c) \/ Falters(c) \/ Start(c) \/ Gives(c) \/ CleanerRemoves(c)
    BY <2>5, CommandKeepsInv
  <2> QED BY <1>2, <2>1, <2>2, <2>3, <2>4, <2>5 DEF CleanerStep, BeginStep
<1>3. ASSUME NEW n \in Ops, WorkerStep(n) PROVE RetirementInv'
  <2>1. CASE \/ WorkerInspects(n) \/ WorkerAuthorizes(n)
             \/ WorkerStops(n) /\ worker[n].pc = "inspected"
    BY <2>1, WorkerLockStepKeepsInv
  <2>2. CASE \/ WorkerRuns(n) \/ ProviderEnds(n) \/ WorkerFinishes(n) \/ WorkerRemoves(n)
             \/ WorkerStops(n) /\ worker[n].pc # "inspected"
    BY <2>2, WorkerKeepsInv
  <2> QED BY <1>3, <2>1, <2>2 DEF WorkerStep
<1>4. ASSUME NEW n \in Ops, Resume(n) PROVE RetirementInv'
  BY <1>4, ResumeKeepsInv
<1>5. CASE RecoveryStep
  BY <1>5, RecoveryKeepsInv
<1>6. CASE Crash
  BY <1>6, CrashKeepsInv
<1>7. CASE UNCHANGED vars
  <2>1. MapStep({}, {})
    BY <1>7, QuietMap DEF vars
  <2> QED BY <1>7, <2>1 DEF vars, MapStep, RetirementInv, TypeOK, SnapshotLoads, Stored, Shown,
       CleanersOwn, CleanerOwns, RequestsFit, RequestFits, Owns, WorkersOwn, WorkerOwns,
       LocksHeld, LockHeld, RecoveryOwns, Counted, Guards, Excluded, Reserved
<1> QED BY <1>1, <1>2, <1>3, <1>4, <1>5, <1>6, <1>7 DEF Next

(* No step changes a record that has ended: whoever announces a state      *)
(* holds a record that is active, or one that is not stored yet.           *)
LEMMA StepEndsOnce ==
  ASSUME RetirementInv, [Next]_vars
  PROVE  EndsOnce
<1>0. /\ TypeOK /\ CleanersOwn /\ WorkersOwn /\ records \in [Ops -> Record]
  BY Types DEF RetirementInv
<1>1. ASSUME records' = records PROVE EndsOnce
  BY <1>1 DEF EndsOnce
<1>2. ASSUME NEW n \in Ops, records[n].state \notin Terminal, NEW r,
             records' = [records EXCEPT ![n] = r]
      PROVE  EndsOnce
  BY <1>0, <1>2 DEF EndsOnce
<1>3. ASSUME NEW n \in Ops, records[n].state \notin Terminal, NEW state, NEW bound,
             Announce(n, state, bound)
      PROVE  EndsOnce
  BY <1>2, <1>3 DEF Announce
<1>4. ASSUME NEW n \in Ops, records[n].state \notin Terminal, NEW state,
             Transition(n, state)
      PROVE  EndsOnce
  BY <1>3, <1>4 DEF Transition
<1>5. ASSUME NEW c \in Cleaners, CleanerStep(c) PROVE EndsOnce
  <2>1. PICK n : n = cleaner[c].op
    OBVIOUS
  <2>2. CASE BeginStores(c)
    <3>1. n \in Ops /\ records[n].state \notin Terminal
      BY <2>1, <2>2, PublishedFacts DEF BeginStores, Terminal
    <3>2. records' = [records EXCEPT ![n] =
                        [tree |-> cleaner[c].tree, state |-> "reserved", bound |-> FALSE]]
      BY <2>1, <2>2 DEF BeginStores
    <3> QED BY <1>2, <3>1, <3>2
  <2>3. ASSUME cleaner[c].pc \in {"reserved", "failing"}
        PROVE  n \in Ops /\ records[n].state \notin Terminal
    BY <1>0, <2>1, <2>3 DEF CleanersOwn, CleanerOwns, Owns, Terminal
  <2>4. CASE Bind(c)
    <3>1. cleaner[c].pc = "reserved" /\ Announce(n, "reserved", TRUE)
      BY <2>1, <2>4 DEF Bind
    <3> QED BY <1>3, <2>3, <3>1
  <2>5. CASE Gives(c)
    <3>1. cleaner[c].pc = "failing" /\ (Transition(n, cleaner[c].to) \/ records' = records)
      BY <2>1, <2>5 DEF Gives
    <3> QED BY <1>1, <1>4, <2>3, <3>1
  <2>6. CASE ~BeginStores(c) /\ ~Bind(c) /\ ~Gives(c)
    BY <1>1, <1>5, <2>6 DEF CleanerStep, BeginStep, BeginInspects, BeginPublishes,
       BeginRefused, BeginUndone, Falters, Start, CleanerRemoves
  <2> QED BY <2>2, <2>4, <2>5, <2>6
<1>6. ASSUME NEW n \in Ops, WorkerStep(n) PROVE EndsOnce
  <2>1. ASSUME worker[n].pc \in {"started", "finish"} PROVE records[n].state \notin Terminal
    BY <1>0, <2>1 DEF WorkersOwn, WorkerOwns, Working, Active, Terminal
  <2>2. CASE WorkerRuns(n)
    BY <1>4, <2>1, <2>2 DEF WorkerRuns
  <2>3. CASE WorkerFinishes(n)
    <3>1. worker[n].pc = "finish" /\ (Transition(n, worker[n].out) \/ records' = records)
      BY <2>3 DEF WorkerFinishes
    <3> QED BY <1>1, <1>4, <2>1, <3>1
  <2>4. CASE ~WorkerRuns(n) /\ ~WorkerFinishes(n)
    BY <1>1, <1>6, <2>4 DEF WorkerStep, WorkerStops, WorkerInspects, WorkerAuthorizes,
       ProviderEnds, WorkerRemoves
  <2> QED BY <2>2, <2>3, <2>4
<1>7. ASSUME NEW f \in recovery.found, RecoverUnbound(f) \/ RecoverRunning(f)
      PROVE  EndsOnce
  <2>1. PICK n : n = f.op
    OBVIOUS
  <2>2. n \in Ops /\ records[n].state \notin Terminal
    BY <1>7, <2>1, FoundFacts DEF Active, Terminal
  <2>3. Transition(n, "failed") \/ Transition(n, "recovery") \/ records' = records
    BY <1>7, <2>1 DEF RecoverUnbound, RecoverRunning
  <2> QED BY <1>1, <1>4, <2>2, <2>3
<1>8. CASE RecoveryStep
  BY <1>1, <1>7, <1>8 DEF RecoveryStep, RecoveryLists, RecoveryRemoves, RecoveryEnds, RecoverBound
<1>9. ASSUME NEW s \in Spawners, SpawnerStep(s) PROVE EndsOnce
  BY <1>1, <1>9 DEF SpawnerStep, Admit, Withdraw, Open, DropCounts, DropLooks, DropRemoves
<1>10. ASSUME (\E d \in Dirs : Close(d)) \/ (\E n \in Ops : Resume(n)) \/ Crash \/ UNCHANGED vars
       PROVE  EndsOnce
  BY <1>1, <1>10 DEF Close, Resume, Crash, vars
<1> QED BY <1>5, <1>6, <1>8, <1>9, <1>10 DEF Next

-----------------------------------------------------------------------------
(* In every state a command owns the record it begins, a worker the record *)
(* it runs, recovery the records it found, a lock is held by the thread    *)
(* that takes it, the map shows what the file says, and every guard is     *)
(* counted.                                                                *)
THEOREM RetirementInvariance ==
  ASSUME NoRaces
  PROVE  Spec => []RetirementInv
<1>1. RetirementInv /\ [Next]_vars => RetirementInv'
  BY RetirementStep
<1> QED BY <1>1, RetirementInit, PTL DEF Spec

(* The coordinator's state is well typed, and the file can be loaded after *)
(* a death at any point (validate_snapshot): one active retirement for a   *)
(* worktree, and none that may have run a provider without its request.    *)
THEOREM TypeCorrect ==
  ASSUME NoRaces
  PROVE  Spec => []TypeOK
<1>1. RetirementInv => TypeOK
  BY DEF RetirementInv
<1> QED BY <1>1, RetirementInvariance, PTL

(* admit_activity: nothing is admitted in a directory whose worktree has   *)
(* an active retirement, whatever died or failed since it was stored.      *)
THEOREM AdmissionIsExclusive ==
  ASSUME NoRaces
  PROVE  Spec => []AdmissionExclusive
<1>1. ASSUME RetirementInv PROVE AdmissionExclusive
  <2> SUFFICES ASSUME NEW s \in Spawners, NEW n \in Ops,
                      spawner[s].pc = "admitted", records[n].state \in Active
               PROVE  records[n].tree \notin Within[spawner[s].path]
    BY DEF AdmissionExclusive
  <2>1. Reserved(records[n].tree)
    BY <1>1, ActiveFacts
  <2> QED BY <1>1, <2>1 DEF RetirementInv, Excluded
<1> QED BY <1>1, RetirementInvariance, PTL

(* run_provider: while a provider cleans a worktree no pane is inside,     *)
(* nothing is being admitted there, and no other provider cleans it.       *)
THEOREM ProvidersRunAlone ==
  ASSUME NoRaces
  PROVE  Spec => []ProviderRunsAlone
<1>1. ASSUME RetirementInv PROVE ProviderRunsAlone
  <2>1. ASSUME NEW n \in Ops, worker[n].pc = "cleaning"
        PROVE  /\ records[n].state \in Active
               /\ sessions \cap Inside(records[n].tree) = {}
    BY <1>1, <2>1 DEF RetirementInv, WorkersOwn, WorkerOwns, Active
  <2>2. ASSUME NEW n \in Ops, worker[n].pc = "cleaning",
               NEW s \in Spawners, spawner[s].pc = "admitted"
        PROVE  spawner[s].path \notin Inside(records[n].tree)
    <3>1. Reserved(records[n].tree)
      BY <1>1, <2>1, <2>2, ActiveFacts
    <3> QED BY <1>1, <2>2, <3>1 DEF RetirementInv, Excluded, Inside
  <2>3. ASSUME NEW n \in Ops, worker[n].pc = "cleaning",
               NEW m \in Ops \ {n}, worker[m].pc = "cleaning"
        PROVE  records[m].tree # records[n].tree
    BY <1>1, <2>1, <2>3 DEF RetirementInv, TypeOK, SnapshotLoads
  <2> QED BY <2>1, <2>2, <2>3 DEF ProviderRunsAlone
<1> QED BY <1>1, RetirementInvariance, PTL

(* transition: a retirement that ended stays as it ended, though it checks *)
(* no earlier state, because whoever calls it owns an active record.       *)
THEOREM OutcomesAreFinal ==
  ASSUME NoRaces
  PROVE  Spec => OutcomeIsFinal
<1>1. RetirementInv /\ [Next]_vars => [EndsOnce]_vars
  BY StepEndsOnce
<1> QED BY <1>1, RetirementInvariance, PTL DEF Spec, OutcomeIsFinal
=============================================================================
