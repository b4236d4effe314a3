----------------------------- MODULE FleetWake -----------------------------
(***************************************************************************)
(* The orchestrator wake (src-tauri/src/fleet.rs): FleetNotifier observes  *)
(* the status of every session and types one line into the terminal of an  *)
(* orchestrator that is back at its prompt.                                *)
(*                                                                         *)
(* on_status runs under the notifier's mutex, called by one thread at a    *)
(* time, and the write into the terminal happens inside it: one action.    *)
(* The watches are armed and disarmed by other threads.  Durable wakes are *)
(* the recipient's queue of module Inbox, here the sequence of batches     *)
(* still Enqueued (a wake is acknowledged as soon as it is written); the   *)
(* path without the inbox (T_HUB_INBOX_WAKE=0) is left out.                *)
(*                                                                         *)
(* A status is what the gate can tell apart: ready (Completed), another    *)
(* one worth a wake, or a busy one.  A wake item is the number of the edge *)
(* that caused it.  The scope of a watch, the captains and their crews are *)
(* constants.                                                              *)
(***************************************************************************)
EXTENDS Integers, Sequences, FiniteSets

CONSTANTS
  Tiles,          \* terminals with a supervised session
  Orchestrators,  \* those that may arm a watch
  Captains,       \* those claimed by a captain, which may have ship messages
  Owner,          \* tile -> the captain its crew session belongs to, or Nil
  Scope,          \* orchestrator -> the tiles its watch covers
  Nil,
  Disarmable,     \* orchestrators that may disarm their watch again
  Ending,         \* tiles whose session may end and be followed by another
  MaxDepth,       \* max_depth of the inbox
  MaxEdges,       \* bound: edges of a tile that cause a wake
  MaxShip,        \* bound: messages filed under a captain's ship
  MaxCrashes      \* bound: process deaths

ASSUME WakeAssumption ==
  /\ Orchestrators \subseteq Tiles
  /\ Captains \subseteq Tiles
  /\ Nil \notin Tiles
  /\ Owner \in [Tiles -> Captains \cup {Nil}]
  /\ Scope \in [Orchestrators -> SUBSET Tiles]
  /\ Disarmable \subseteq Orchestrators
  /\ Ending \subseteq Tiles
  /\ {MaxDepth, MaxEdges, MaxShip, MaxCrashes} \subseteq Nat

VARIABLES
  status,      \* what the supervisor says of each session
  bound,       \* tiles terminal_for_session can resolve
  armed,       \* FleetWatchRegistry.watches
  last,        \* NotifierState.last_status
  pending,     \* NotifierState.pending: the newest edge of each source, or 0
  suppressed,  \* NotifierState.suppressed
  queue,       \* durable: each orchestrator's Enqueued wakes
  ship,        \* durable: messages waiting under ship:<slug>
  edges,       \* history: edges of each tile that some watch wanted
  wanted,      \* history: the newest edge each orchestrator is owed
  got,         \* history: the newest edge of each source it was told of
  window,      \* history: writes into it since its last Completed edge
  crashes

notifier == <<last, pending, suppressed>>
durable  == <<queue, ship>>
history  == <<edges, wanted, got, window>>
vars == <<status, bound, armed, notifier, durable, history, crashes>>

Statuses  == {"ready", "attention", "busy"}
Edges     == 0 .. MaxEdges
NoItems   == [t \in Tiles |-> 0]
Outcomes  == [enqueued : BOOLEAN, written : BOOLEAN]

Actionable(s) == s \in {"ready", "attention"}

\* A crew edge belongs to its owning captain alone; any other goes by scope.
Wants(o, t) == IF Owner[t] # Nil /\ t \notin Captains THEN Owner[t] = o ELSE t \in Scope[o]

Newer(items, more) == [t \in Tiles |-> IF more[t] > items[t] THEN more[t] ELSE items[t]]

-----------------------------------------------------------------------------
(* One orchestrator's side of a status edge.                               *)

\* What try_flush reads and writes for one orchestrator.
Side(o) == [pending |-> pending[o], queue |-> queue[o], ship |-> ship[o],
            suppressed |-> o \in suppressed, got |-> got[o], writes |-> 0]

EnqueuedPastDepth(w, out) ==
  IF w.pending # NoItems /\ out.enqueued
  THEN [w EXCEPT !.queue = Append(@, w.pending), !.pending = NoItems] ELSE w

EnqueuedOrDropped(w, out) ==
  IF w.pending # NoItems /\ Len(w.queue) < MaxDepth /\ out.enqueued
  THEN [w EXCEPT !.queue = Append(@, w.pending), !.pending = NoItems]
  ELSE [w EXCEPT !.pending = NoItems]

\* try_flush_durable, first half: the batch is the store's once it is enqueued; a
\* refusal (overflow, failed segment write) leaves it pending.
Enqueued(w, out) ==
  IF w.pending # NoItems /\ Len(w.queue) < MaxDepth /\ out.enqueued
  THEN [w EXCEPT !.queue = Append(@, w.pending), !.pending = NoItems]
  ELSE w

\* Second half: one record is drained, a wake first, else a ship message; a failed
\* write leaves it where it is.
Drained(w, o, out) ==
  CASE w.queue # << >> /\ out.written ->
         [w EXCEPT !.queue = Tail(@), !.got = Newer(@, Head(w.queue)),
                   !.suppressed = TRUE, !.writes = 1]
    [] w.queue = << >> /\ o \in Captains /\ w.ship > 0 /\ out.written ->
         [w EXCEPT !.ship = @ - 1, !.suppressed = TRUE, !.writes = 1]
    [] OTHER -> w

FlushAgain(w, o, lastStatus, out) ==
  IF lastStatus[o] = "ready" THEN Drained(Enqueued(w, out), o, out) ELSE w

\* try_flush, behind the gate.
Flush(w, o, lastStatus, out) ==
  IF lastStatus[o] = "ready" /\ ~w.suppressed
  THEN Drained(Enqueued(w, out), o, out) ELSE w

\* What the loop over the armed watches does for o when tile t turns s.
Observed(o, t, s, n, out) ==
  LET now == [last EXCEPT ![t] = s] IN
  CASE o = t /\ s = "ready" ->
         Flush([Side(o) EXCEPT !.suppressed = FALSE], o, now, out)
    [] o # t /\ Actionable(s) /\ Wants(o, t) ->
         Flush([Side(o) EXCEPT !.pending[t] = n], o, now, out)
    [] OTHER -> Side(o)

-----------------------------------------------------------------------------
Init ==
  /\ status = [t \in Tiles |-> "busy"]
  /\ bound = {}
  /\ armed = {}
  /\ last = [t \in Tiles |-> Nil]
  /\ pending = [o \in Orchestrators |-> NoItems]
  /\ suppressed = {}
  /\ queue = [o \in Orchestrators |-> << >>]
  /\ ship = [o \in Orchestrators |-> 0]
  /\ edges = [t \in Tiles |-> 0]
  /\ wanted = [o \in Orchestrators |-> NoItems]
  /\ got = [o \in Orchestrators |-> NoItems]
  /\ window = [o \in Orchestrators |-> 0]
  /\ crashes = 0

\* Idle windows are counted by what the session did, observed or not.
Windows(t, s, sides) ==
  [o \in Orchestrators |->
     (IF o = t /\ s = "ready" /\ status[o] # "ready" THEN 0 ELSE window[o])
       + sides[o].writes]

\* on_status of an edge the notifier sees, with an outcome of the store and of the
\* terminal for every orchestrator.
Edge(t, s, outs) ==
  LET someone == Actionable(s) /\ \E o \in armed \ {t} : Wants(o, t)
      n == edges[t] + (IF someone THEN 1 ELSE 0)
      sides == [o \in Orchestrators |->
                  IF o \in armed THEN Observed(o, t, s, n, outs[o]) ELSE Side(o)] IN
  /\ armed # {} /\ t \in bound /\ last[t] # s
  /\ n <= MaxEdges
  /\ last' = [last EXCEPT ![t] = s]
  /\ edges' = [edges EXCEPT ![t] = n]
  /\ wanted' = [o \in Orchestrators |->
       IF o \in armed \ {t} /\ someone /\ Wants(o, t)
       THEN [wanted[o] EXCEPT ![t] = n] ELSE wanted[o]]
  /\ pending' = [o \in Orchestrators |-> sides[o].pending]
  /\ queue' = [o \in Orchestrators |-> sides[o].queue]
  /\ ship' = [o \in Orchestrators |-> sides[o].ship]
  /\ suppressed' = {o \in Orchestrators : sides[o].suppressed}
  /\ got' = [o \in Orchestrators |-> sides[o].got]
  /\ window' = Windows(t, s, sides)

\* on_status that returns early: nothing armed, no tile, or not an edge.
Unseen(t, s) ==
  /\ armed = {} \/ t \notin bound \/ last[t] = s
  /\ window' = Windows(t, s, [o \in Orchestrators |-> Side(o)])
  /\ UNCHANGED <<notifier, durable, edges, wanted, got>>

\* emit_session: the supervisor's new status of t, and its observer.
Emit(t, s, outs) ==
  /\ status' = [status EXCEPT ![t] = s]
  /\ Edge(t, s, outs) \/ Unseen(t, s)
  /\ UNCHANGED <<bound, armed, crashes>>

\* A statusline of the session names its terminal.
Bind(t) ==
  /\ t \notin bound
  /\ bound' = bound \cup {t}
  /\ UNCHANGED <<status, armed, notifier, durable, history, crashes>>

\* SessionEnd: a session that completed stays Completed, any other is Failed; then
\* the snapshot is dropped.  No session waits in the tile until the next one's turn
\* ends, and that one is unbound.
EndSession(t, outs) ==
  LET s == IF status[t] = "ready" THEN "ready" ELSE "attention" IN
  /\ t \in Ending \cap bound
  /\ Edge(t, s, outs) \/ Unseen(t, s)
  /\ bound' = bound \ {t}
  /\ status' = [status EXCEPT ![t] = "busy"]
  /\ UNCHANGED <<armed, crashes>>

Arm(o) ==
  /\ o \notin armed
  /\ armed' = armed \cup {o}
  /\ UNCHANGED <<status, bound, notifier, durable, history, crashes>>

Disarm(o) ==
  /\ o \in Disarmable \cap armed
  /\ armed' = armed \ {o}
  /\ UNCHANGED <<status, bound, notifier, durable, history, crashes>>

\* A message for the captain of o's ship (handlers of the comms plane).
ShipMessage(o) ==
  /\ o \in Captains
  /\ ship[o] < MaxShip
  /\ ship' = [ship EXCEPT ![o] = @ + 1]
  /\ UNCHANGED <<status, bound, armed, notifier, queue, history, crashes>>

\* The process dies.  What an orchestrator was owed in memory only is owed no longer;
\* after the restart no session is known until it is replayed.  (That a wake can be
\* written again by the next process is Inbox's matter.)
Crash ==
  /\ crashes < MaxCrashes
  /\ crashes' = crashes + 1
  /\ status' = [t \in Tiles |-> "busy"]
  /\ bound' = {}
  /\ armed' = {}
  /\ last' = [t \in Tiles |-> Nil]
  /\ pending' = [o \in Orchestrators |-> NoItems]
  /\ suppressed' = {}
  /\ wanted' = [o \in Orchestrators |->
       [t \in Tiles |-> IF pending[o][t] = wanted[o][t] THEN 0 ELSE wanted[o][t]]]
  /\ window' = [o \in Orchestrators |-> 0]
  /\ UNCHANGED <<durable, edges, got>>

Next ==
  \/ \E t \in Tiles, outs \in [Orchestrators -> Outcomes] :
       EndSession(t, outs) \/ \E s \in Statuses : Emit(t, s, outs)
  \/ \E t \in Tiles : Bind(t)
  \/ \E o \in Orchestrators : Arm(o) \/ Disarm(o) \/ ShipMessage(o)
  \/ Crash

Spec == Init /\ [][Next]_vars

\* An environment in which every orchestrator takes turns for ever, and in which the
\* store and the terminal do not fail at the end of every one of them.
Good == [o \in Orchestrators |-> [enqueued |-> TRUE, written |-> TRUE]]

TurnEnds(o)   == o \in bound /\ status[o] # "ready" /\ Emit(o, "ready", Good)
TurnStarts(o) == status[o] = "ready" /\ Emit(o, "busy", Good)

Fairness ==
  \A o \in Orchestrators :
    SF_vars(TurnEnds(o)) /\ WF_vars(TurnStarts(o)) /\ WF_vars(Bind(o))

FairSpec == Spec /\ Fairness

-----------------------------------------------------------------------------
(* Properties.                                                             *)

Items == [Tiles -> Edges]

TypeOK ==
  /\ status \in [Tiles -> Statuses]
  /\ bound \subseteq Tiles
  /\ armed \subseteq Orchestrators
  /\ last \in [Tiles -> Statuses \cup {Nil}]
  /\ {pending, wanted, got} \subseteq [Orchestrators -> Items]
  /\ suppressed \subseteq Orchestrators
  /\ queue \in [Orchestrators -> Seq(Items)]
  /\ \A o \in Orchestrators : Len(queue[o]) <= MaxDepth
  /\ ship \in [Orchestrators -> 0 .. MaxShip]
  /\ edges \in Items
  /\ window \in [Orchestrators -> Nat]
  /\ crashes \in 0 .. MaxCrashes

\* The newest edge an orchestrator asked to be woken for is held in memory, queued on
\* disk or delivered, through coalescing, full queues, failed writes, and, once it is
\* queued, the death of the process (try_flush_durable: "never a silent drop").
Held(o, t) ==
  {pending[o][t], got[o][t]} \cup {queue[o][i][t] : i \in DOMAIN queue[o]}

WakeNotLost ==
  \A o \in Orchestrators, t \in Tiles : \E n \in Held(o, t) : n >= wanted[o][t]

\* An orchestrator is written to at most once between two of its Completed edges,
\* wakes and ship messages together (NotifierState.suppressed).
OneWritePerIdleWindow == \A o \in Orchestrators : window[o] <= 1

\* An orchestrator that goes on taking turns learns of every edge it asked for, unless
\* its watch is disarmed or its session ends.
EventuallyWoken ==
  \A o \in Orchestrators, t \in Tiles, n \in 1 .. MaxEdges :
    (wanted[o][t] = n) ~> (got[o][t] >= n \/ o \notin armed \cap bound)
=============================================================================
