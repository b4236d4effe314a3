----------------------------- MODULE Supervision -----------------------------
(***************************************************************************)
(* The supervision reducer (src-tauri/src/supervision.rs): the status of   *)
(* every session, derived from the events its hooks report, the bounded    *)
(* log of status edges, and wait_for_status, which polls both              *)
(* (src-tauri/src/control/handlers_status.rs).                             *)
(*                                                                         *)
(* ingest runs under the reducer's lock and is one action per kind of      *)
(* event; events come in any order, twice or never.  Of the time a         *)
(* subagent has run only whether it is overdue is kept, and a position in  *)
(* the edge log is the number of edges logged since, kept by each waiter.  *)
(***************************************************************************)
EXTENDS Naturals, Sequences, SequencesExt

CONSTANTS
  Sessions, Agents, Permissions, Waiters, Nil,
  Targets,     \* the statuses a waiter waits for
  SessionCap,  \* SESSION_MAP_CAP
  DoneCap,     \* COMPLETED_CHILDREN_CAP
  LogCap,      \* TRANSITION_LOG_CAP
  MaxTasks     \* bound: outstanding tasks of a session

Statuses == {"unknown", "working", "waiting", "completed", "question", "permission", "failed"}

Entries == [status : Statuses, running : SUBSET Agents, overdue : SUBSET Agents,
            done : Seq(Agents), tasks : 0 .. MaxTasks, stopped : BOOLEAN,
            asked : Permissions \cup {Nil}]

ASSUME SupervisionAssumption ==
  /\ Targets \subseteq Statuses \ {"unknown"}
  /\ Nil \notin Permissions \cup Sessions \cup Entries
  /\ {SessionCap, DoneCap, LogCap} \subseteq Nat \ {0} /\ MaxTasks \in Nat

VARIABLES
  sessions,  \* session -> its SessionEntry, or Nil
  recency,   \* the known sessions by update_stamp, oldest first
  log,       \* Supervisor.transitions
  waiter     \* the callers of wait_for_status

vars == <<sessions, recency, log, waiter>>

Fresh == [status |-> "unknown", running |-> {}, overdue |-> {}, done |-> << >>,
          tasks |-> 0, stopped |-> FALSE, asked |-> Nil]

Entry(s) == IF sessions[s] = Nil THEN Fresh ELSE sessions[s]
Status(s) == Entry(s).status

-----------------------------------------------------------------------------
(* One session's entry. *)

Idle(e) == e.running = {} /\ e.tasks = 0

Newest(q, n) == SubSeq(q, IF Len(q) > n THEN Len(q) - n + 1 ELSE 1, Len(q))

(* prune_completed_children: the oldest-finished go. *)
Pruned(e) == [e EXCEPT !.done = Newest(@, DoneCap)]

(* recompute_after_completion *)
Recomputed(e) ==
  [e EXCEPT !.status = IF e.stopped /\ Idle(e) /\ @ = "waiting" THEN "completed" ELSE @]

(* kids, which were running, are completed. *)
Finished(e, kids) ==
  [e EXCEPT !.running = @ \ kids, !.overdue = @ \ kids, !.done = @ \o SetToSeq(kids)]

(* A stop of one without a start, or of one that had finished, counts as   *)
(* one that just finished.                                                 *)
Stopped(e, a) ==
  [e EXCEPT !.running = @ \ {a}, !.overdue = @ \ {a}, !.done = Append(RemoveFirst(@, a), a)]

(* The entry an event finds: reap_timed_out_children comes first. *)
Current(s) == Finished(Entry(s), Entry(s).overdue)

Working(e) == [e EXCEPT !.status = IF e.stopped THEN @ ELSE "working"]

-----------------------------------------------------------------------------
(* What every event does with the entry its arm has made. *)

(* enforce_session_cap: the session just touched is never the one to go. *)
Touched(s) == Newest(Append(RemoveFirst(recency, s), s), SessionCap)

SweptAsIs(old, new) == new

(* a sweep may have made the session idle without its arm noticing *)
Swept(old, new) == IF old.overdue # {} THEN Pruned(Recomputed(new)) ELSE new

(* One edge more for those that wait: how many they have to look through,  *)
(* and, of their targets, what their session entered and what it has been. *)
Watched(w, s, status) ==
  [w EXCEPT !.since = IF @ > LogCap THEN @ ELSE @ + 1,
            !.entered = IF w.on = s THEN @ \cup ({status} \cap Targets) ELSE @,
            !.held = IF w.on = s THEN @ \cup ({status} \cap Targets) ELSE @]

Ingest(s, new) ==
  LET e == Swept(Entry(s), new) IN
  /\ recency' = Touched(s)
  /\ sessions' = [x \in Sessions |-> IF x \notin ToSet(Touched(s)) THEN Nil
                                     ELSE IF x = s THEN e ELSE sessions[x]]
  /\ IF e.status = Status(s) THEN UNCHANGED <<log, waiter>>
     ELSE /\ log' = Newest(Append(log, <<s, e.status>>), LogCap)
          /\ waiter' = [w \in Waiters |-> IF waiter[w].on = Nil THEN waiter[w]
                                          ELSE Watched(waiter[w], s, e.status)]

-----------------------------------------------------------------------------
Waiting(s) == [on |-> s, since |-> 0, entered |-> {}, held |-> {Status(s)} \cap Targets,
               reply |-> "none"]
Told(x) == [on |-> Nil, since |-> 0, entered |-> {}, held |-> {}, reply |-> x]

Init ==
  /\ sessions = [s \in Sessions |-> Nil] /\ recency = << >> /\ log = << >>
  /\ waiter = [w \in Waiters |-> Told("none")]

SessionStart(s) ==
  Ingest(s, [Current(s) EXCEPT !.status = "working", !.stopped = FALSE, !.asked = Nil])

(* A new turn drops every subagent: what still runs there is an orphan. *)
UserPromptSubmit(s) ==
  Ingest(s, [Fresh EXCEPT !.status = "working", !.tasks = Entry(s).tasks])

(* or_insert: a stop that came first is not undone. *)
SubagentStart(s, a) ==
  LET e == Current(s) IN
  Ingest(s, Working(IF a \in ToSet(e.done) THEN e ELSE [e EXCEPT !.running = @ \cup {a}]))

SubagentStop(s, a) == Ingest(s, Recomputed(Pruned(Stopped(Current(s), a))))

TaskCreated(s) ==
  /\ Entry(s).tasks < MaxTasks
  /\ Ingest(s, Working([Current(s) EXCEPT !.tasks = @ + 1]))

TaskCompletedPlainly(s) ==
  Ingest(s, [Current(s) EXCEPT !.tasks = IF @ = 0 THEN 0 ELSE @ - 1])

TaskCompleted(s) ==
  Ingest(s, Recomputed([Current(s) EXCEPT !.tasks = IF @ = 0 THEN 0 ELSE @ - 1]))

Stop(s) ==
  Ingest(s, [Current(s) EXCEPT !.asked = Nil, !.stopped = TRUE,
                               !.status = IF Idle(Current(s)) THEN "completed" ELSE "waiting"])

Elicitation(s) == Ingest(s, [Current(s) EXCEPT !.asked = Nil, !.status = "question"])

(* r = Nil: the payload names no valid request *)
PermissionRequest(s, r) == Ingest(s, [Current(s) EXCEPT !.asked = r, !.status = "permission"])

PermissionResolved(s, r) ==
  Ingest(s, IF Current(s).asked = r THEN Working([Current(s) EXCEPT !.asked = Nil]) ELSE Current(s))

QuestionResolved(s) ==
  Ingest(s, IF Status(s) = "question" THEN Working(Current(s)) ELSE Current(s))

PermissionNotification(s) == Ingest(s, [Current(s) EXCEPT !.status = "permission"])

(* any notification that is not known to be informational *)
OtherNotification(s) ==
  Ingest(s, [Current(s) EXCEPT !.status = IF @ = "permission" THEN @ ELSE "question"])

Ended(s) == Finished(Current(s), Current(s).running)

StopFailure(s) == Ingest(s, Pruned([Ended(s) EXCEPT !.asked = Nil, !.status = "failed"]))

SessionEnd(s) ==
  Ingest(s, Pruned([Ended(s) EXCEPT !.asked = Nil,
                                    !.status = IF @ = "completed" THEN @ ELSE "failed"]))

(* informational notifications, statuslines and the like *)
OtherEvent(s) == Ingest(s, Current(s))

(* ORPHAN_RUNNING_TIMEOUT_MS has passed; nothing happens before the next event. *)
HourPasses(s, a) ==
  /\ a \in Entry(s).running
  /\ sessions' = [sessions EXCEPT ![s].overdue = @ \cup {a}]
  /\ UNCHANGED <<recency, log, waiter>>

-----------------------------------------------------------------------------
(* wait_for_status: the watermark is taken once; each poll reads the log   *)
(* and the status under one lock.                                          *)

WaitBegins(w, s) ==
  /\ waiter[w].on = Nil
  /\ waiter' = [waiter EXCEPT ![w] = Waiting(s)]
  /\ UNCHANGED <<sessions, recency, log>>

UnreadLate(w) == Newest(log, IF waiter[w].since > 0 THEN waiter[w].since - 1 ELSE 0)

(* the edges logged since the watermark, as far as the log still has them *)
Unread(w) == Newest(log, waiter[w].since)

(* matched_since: where they are the ones that are waited for *)
Edges(w) == {i \in DOMAIN Unread(w) : Unread(w)[i][1] = waiter[w].on /\ Unread(w)[i][2] \in Targets}

WaitMatches(w) ==
  /\ waiter[w].on # Nil
  /\ \/ Edges(w) # {} /\ waiter' = [waiter EXCEPT ![w] = Told(Unread(w)[Min(Edges(w))][2])]
     \/ /\ Edges(w) = {} /\ Status(waiter[w].on) \in Targets
        /\ waiter' = [waiter EXCEPT ![w] = Told(Status(waiter[w].on))]
  /\ UNCHANGED <<sessions, recency, log>>

WaitTimesOut(w) ==
  /\ waiter[w].on # Nil /\ Edges(w) = {} /\ Status(waiter[w].on) \notin Targets
  /\ waiter' = [waiter EXCEPT ![w] = Told("timeout")]
  /\ UNCHANGED <<sessions, recency, log>>

Next ==
  \/ \E s \in Sessions :
       \/ SessionStart(s) \/ UserPromptSubmit(s) \/ TaskCreated(s) \/ TaskCompleted(s)
       \/ Stop(s) \/ Elicitation(s) \/ QuestionResolved(s)
       \/ PermissionNotification(s) \/ OtherNotification(s)
       \/ StopFailure(s) \/ SessionEnd(s) \/ OtherEvent(s)
       \/ \E a \in Agents : SubagentStart(s, a) \/ SubagentStop(s, a) \/ HourPasses(s, a)
       \/ \E r \in Permissions : PermissionResolved(s, r)
       \/ \E r \in Permissions \cup {Nil} : PermissionRequest(s, r)
  \/ \E w \in Waiters : WaitMatches(w) \/ WaitTimesOut(w) \/ \E s \in Sessions : WaitBegins(w, s)

Spec == Init /\ [][Next]_vars

-----------------------------------------------------------------------------
(* Types, and the bounds the reducer promises: the sessions it knows, the  *)
(* finished subagents it shows and the edges it logs.                      *)
TypeOK ==
  /\ sessions \in [Sessions -> Entries \cup {Nil}]
  /\ {s \in Sessions : sessions[s] # Nil} = ToSet(recency) /\ Len(recency) <= SessionCap
  /\ recency \in Seq(Sessions) /\ IsInjective(recency)
  /\ \A s \in ToSet(recency) : LET e == sessions[s] IN
       /\ e.overdue \subseteq e.running /\ e.running \cap ToSet(e.done) = {}
       /\ IsInjective(e.done) /\ Len(e.done) <= DoneCap
  /\ log \in Seq(Sessions \X Statuses) /\ Len(log) <= LogCap
  /\ waiter \in [Waiters -> [on : Sessions \cup {Nil}, since : 0 .. LogCap + 1,
                             entered : SUBSET Targets, held : SUBSET Targets,
                             reply : Statuses \cup {"none", "timeout"}]]

(* A session is shown waiting on subagents only after its main agent       *)
(* stopped and only while a subagent or a task is outstanding, whatever    *)
(* order stops, starts, tasks, timeouts and prompts arrive in ("the        *)
(* orchestrator is finally Completed", supervision.rs:416): the Completed  *)
(* edge that wakes its orchestrator is not missed.                         *)
WaitingIsEarned ==
  \A s \in Sessions :
    Status(s) = "waiting" => Entry(s).stopped /\ ~Idle(Entry(s))

(* wait_for_status answers with a status its session has had since the     *)
(* wait began, and gives up only if the session entered none it waited for *)
(* - not even one it has left again, or lost to eviction since - unless    *)
(* more edges came between two polls than the log holds.                   *)
WaitersAreTold ==
  [][\A w \in Waiters : LET x == waiter'[w].reply IN
       (waiter[w].on # Nil /\ waiter'[w].on = Nil) =>
          /\ x \in Targets => x \in waiter[w].held
          /\ x = "timeout" => waiter[w].entered = {} \/ waiter[w].since > LogCap]_vars
=============================================================================
