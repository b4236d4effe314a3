----------------------------- MODULE EventSpine -----------------------------
(***************************************************************************)
(* From the journal to the supervisor: the agent's stdio bridge            *)
(* (t-hub-agent/src/transport.rs) and the core's AgentBridge (agent/mod.rs,*)
(* agent/connection.rs), over one Journal that hooks keep writing.         *)
(*                                                                         *)
(* Threads.  In the agent: main (open, startup compaction, seeding of the  *)
(* tail, then the reader loop) and the tail; both send into one channel    *)
(* that one writer drains to stdout, here one queue, pipe.  In the core:   *)
(* the thread inside connect() or reconnect() (one, under the lifecycle    *)
(* mutex) and the reader of each connection.  A method of                  *)
(* ReaderJournalFlow runs under the flow's own lock and is one action.     *)
(*                                                                         *)
(* A frame carries the number it is sent under and the number its record   *)
(* has in the journal; the latter stands for the event itself.  Entries    *)
(* buffered by the flow are kept as sets, since they are sorted before     *)
(* they are consumed.  Requests, pings and the effects of an entry beyond  *)
(* "it was reduced" are left out.                                          *)
(***************************************************************************)
EXTENDS Journal

CONSTANTS
  SeedRace,      \* whether hooks run while the agent seeds its tail
  MaxConnects,   \* bound: connect and reconnect calls
  MaxTimeouts    \* bound: handshake and replay timeouts

ASSUME SpineAssumption ==
  /\ SeedRace \in BOOLEAN
  /\ MaxConnects \in Nat
  /\ MaxTimeouts \in Nat

VARIABLES
  agent,      \* the agent process: its phase, in-memory head, tail cursor
  toAgent,    \* frames on the agent's stdin
  pipe,       \* frames on their way to the core's reader
  attempt,    \* where the thread inside connect() stands
  reading,    \* whether the reader thread of the newest connection runs
  current,    \* whether inner.transport holds this connection's handles
  conn,       \* inner.state, what the UI is told
  flow,       \* the ReaderJournalFlow of the newest connection
  ready,      \* what the reader sent on ready_tx
  replayed,   \* what the reader sent on replay_done_tx
  failing,    \* readers that detached their transport and have not set Failed yet
  cursor,     \* journal_cursor
  seen,       \* history: how often each record was consumed in this core's life
  connects, timeouts

agentVars  == <<agent, toAgent>>
threadVars == <<attempt, current, conn, connects, timeouts>>
readerVars == <<reading, ready, replayed, failing>>
dataVars   == <<flow, cursor, seen>>
coreVars   == <<threadVars, readerVars, dataVars>>
spineVars == <<journalVars, agentVars, pipe, coreVars>>

Numbers  == 1 .. MaxSeq + MaxConnects   \* a raced tail counts past the journal
NoAgent  == [phase |-> "none", head |-> 0, offset |-> 0, last |-> 0]
NewFlow  == [state |-> "buffering", history |-> {}, live |-> {}, verified |-> 0,
             boundary |-> FALSE, complete |-> FALSE, error |-> FALSE]
Gone     == [NewFlow EXCEPT !.state = "cancelled"]
Silent   == [is |-> "nothing", seq |-> 0]
Answer(seq) == [is |-> "ok", seq |-> seq]
Failure  == [is |-> "error", seq |-> 0]

Frame(type, seq, rec) == [type |-> type, seq |-> seq, rec |-> rec]

-----------------------------------------------------------------------------
(* What the agent reads from the journal.                                  *)

\* The lines of records that start at or after a byte offset; a line the offset falls
\* inside is not valid and is passed over.
LinesFrom(records, offset) ==
  LET whole == {i \in DOMAIN records : Bytes(SubSeq(records, 1, i - 1)) >= offset}
  IN  SubSeq(records, Len(records) - Cardinality(whole) + 1, Len(records))

\* One more line read: its number, and a frame for it unless it is a watermark or is
\* numbered no higher than after.
ReadLine(type, after, read, r) ==
  LET n == Numbered(read.last, r)
  IN  [last   |-> n,
       frames |-> IF r.kind = "mark" \/ n <= after THEN read.frames
                  ELSE Append(read.frames, Frame(type, n, r.seq))]

\* What is sent of records that are numbered on from n, and the last of their numbers.
ReadOn(type, n, after, records) ==
  LET upTo[k \in 0 .. Len(records)] ==
        IF k = 0 THEN [last |-> n, frames |-> << >>]
        ELSE ReadLine(type, after, upTo[k - 1], records[k])
  IN  upTo[Len(records)]

-----------------------------------------------------------------------------
SpineInit ==
  /\ JournalInit
  /\ agent = NoAgent
  /\ toAgent = << >>
  /\ pipe = << >>
  /\ attempt = "idle"
  /\ reading = FALSE
  /\ current = FALSE
  /\ conn = "disconnected"
  /\ flow = Gone
  /\ ready = Silent
  /\ replayed = Silent
  /\ failing = 0
  /\ cursor = 0
  /\ seen = [n \in 1 .. MaxSeq |-> 0]
  /\ connects = 0
  /\ timeouts = 0

-----------------------------------------------------------------------------
(* The agent process.                                                      *)

\* main: Journal::open, which repairs what the last writer left.
AgentOpen ==
  /\ agent.phase = "spawned"
  /\ Repaired
  /\ agent' = [agent EXCEPT !.phase = "opened", !.head = Authoritative.seq]
  /\ UNCHANGED <<log, stored, toAgent, pipe, coreVars>>

\* main: startup compaction, when the file is over the threshold.
AgentCompact ==
  /\ agent.phase = "opened"
  /\ Compact
  /\ agent' = [agent EXCEPT !.phase = "compacted", !.head = LastSeq(log)]
  /\ UNCHANGED <<toAgent, pipe, coreVars>>

\* serve_stdio: the tail starts at the end of the file ...
AgentSizeTail ==
  /\ agent.phase \in {"opened", "compacted"}
  /\ agent' = [agent EXCEPT !.phase = "sized", !.offset = FileLen]
  /\ UNCHANGED <<journalVars, toAgent, pipe, coreVars>>

\* ... and, in a second hold of the lock, at the number of the last record.
AgentSeedTail ==
  LET seq == IF Authoritative.seq > agent.head THEN Authoritative.seq ELSE agent.head IN
  /\ agent.phase = "sized"
  /\ Repaired
  /\ agent' = [agent EXCEPT !.phase = "serving", !.head = seq, !.last = seq]
  /\ UNCHANGED <<log, stored, toAgent, pipe, coreVars>>

\* The tail thread: tail_from, and what it read is sent on.
AgentTail ==
  LET shrunk == FileLen < agent.offset
      lines  == LinesFrom(log, IF shrunk THEN 0 ELSE agent.offset)
      read   == ReadOn("live", IF shrunk THEN 0 ELSE agent.last, 0, lines) IN
  /\ agent.phase = "serving"
  /\ shrunk \/ agent.offset < Bytes(log)
  /\ pipe' = pipe \o read.frames
  /\ agent' = [agent EXCEPT !.offset = Bytes(log), !.last = read.last]
  /\ UNCHANGED <<journalVars, toAgent, coreVars>>

\* The reader loop: Hello is answered with the in-memory head.
AgentHello ==
  /\ agent.phase = "serving"
  /\ toAgent # << >> /\ Head(toAgent).type = "hello"
  /\ toAgent' = Tail(toAgent)
  /\ pipe' = Append(pipe, Frame("ready", agent.head, 0))
  /\ UNCHANGED <<journalVars, agent, coreVars>>

AgentReplayToHead ==
  LET after == Head(toAgent).seq
      past  == ReadOn("replay", 0, after, log).frames IN
  /\ agent.phase = "serving"
  /\ toAgent # << >> /\ Head(toAgent).type = "replay"
  /\ pipe' = pipe \o past \o <<Frame("boundary", agent.head, 0),
                               Frame("complete", agent.head, 0)>>
  /\ toAgent' = Tail(toAgent)
  /\ UNCHANGED <<journalVars, agent, coreVars>>

\* The reader loop: ReplayJournal is answered from one scan of the file.
AgentReplay ==
  /\ agent.phase = "serving"
  /\ toAgent # << >> /\ Head(toAgent).type = "replay"
  /\ LET after == Head(toAgent).seq
         last  == IF LastSeq(log) > after THEN LastSeq(log) ELSE after
         past  == ReadOn("replay", 0, after, log).frames
     IN  pipe' = pipe \o past \o <<Frame("boundary", last, 0), Frame("complete", last, 0)>>
  /\ toAgent' = Tail(toAgent)
  /\ UNCHANGED <<journalVars, agent, coreVars>>

\* The reader loop serves a command and records it (record_command).
AgentCommand ==
  /\ agent.phase = "serving"
  /\ current
  /\ AppendEntry("event", NoId)
  /\ agent' = [agent EXCEPT !.head = Line("event", NoId).seq]
  /\ UNCHANGED <<toAgent, pipe, coreVars>>

\* The process is gone, and with it whatever had not reached the pipe.
Killed ==
  /\ agent' = [NoAgent EXCEPT !.phase = "dead"]
  /\ toAgent' = << >>
  /\ pipe' \in Prefixes(pipe)
  /\ UNCHANGED coreVars

AgentDies ==
  /\ agent.phase \notin {"none", "dead"}
  /\ Killed
  /\ UNCHANGED journalVars

AgentDiesCompacting ==
  /\ agent.phase = "opened"
  /\ Killed
  /\ CompactUnpublished

-----------------------------------------------------------------------------
(* The core: what the reader and the connecting thread share.              *)

ConsumeAll(frames) ==
  /\ cursor' = Max({cursor} \cup {f.seq : f \in frames})
  /\ seen' = [n \in 1 .. MaxSeq |-> seen[n] + Cardinality({f \in frames : f.rec = n})]

\* consume_journal_entry_with_provenance over sorted entries: the cursor admits each
\* number once and in order.
Consume(frames) ==
  LET fresh == {f \in frames : f.seq > cursor} IN
  /\ cursor' = IF fresh = {} THEN cursor ELSE Max({f.seq : f \in fresh})
  /\ seen' = [n \in 1 .. MaxSeq |->
                seen[n] + Cardinality({f \in fresh : f.rec = n})]

\* ingest_replayed; an entry that does not advance is a protocol error.
IngestReplayed(fl, f) ==
  IF fl.boundary \/ fl.complete \/ f.seq <= fl.verified
  THEN [fl EXCEPT !.error = TRUE]
  ELSE [fl EXCEPT !.verified = f.seq, !.history = @ \cup {f}]

\* shutdown: the flow is retired, the child killed and its reader joined.
Shutdown ==
  /\ flow' = Gone
  /\ agent' = NoAgent
  /\ toAgent' = << >>
  /\ pipe' = << >>
  /\ reading' = FALSE

\* fail_connection
FailConnection ==
  /\ Shutdown
  /\ attempt' = "idle"
  /\ current' = FALSE
  /\ conn' = IF current THEN "failed" ELSE conn
  /\ UNCHANGED <<journalVars, connects, ready, replayed, failing, cursor, seen>>

-----------------------------------------------------------------------------
(* The reader thread of a connection.                                      *)

ReaderTakes(type) == reading /\ pipe # << >> /\ Head(pipe).type = type /\ pipe' = Tail(pipe)

ReaderReady ==
  /\ ReaderTakes("ready")
  /\ ready' = Answer(Head(pipe).seq)
  /\ UNCHANGED <<journalVars, agentVars, threadVars, dataVars, reading, replayed, failing>>

ReaderLiveDropped ==
  /\ ReaderTakes("live")
  /\ IF flow.state = "live" THEN Consume({Head(pipe)}) ELSE UNCHANGED <<cursor, seen>>
  /\ UNCHANGED <<journalVars, agentVars, threadVars, readerVars, flow>>

\* ingest of a live entry.
ReaderLive ==
  LET f == Head(pipe) IN
  /\ ReaderTakes("live")
  /\ \/ /\ flow.state \in {"buffering", "replaying"}
        /\ flow' = [flow EXCEPT !.live = @ \cup {f}]
        /\ UNCHANGED <<cursor, seen>>
     \/ /\ flow.state = "live"
        /\ Consume({f})
        /\ UNCHANGED flow
  /\ UNCHANGED <<journalVars, agentVars, threadVars, readerVars>>

\* ingest of a replayed entry.
ReaderReplay ==
  /\ ReaderTakes("replay")
  /\ flow' = IF flow.state = "replaying" THEN IngestReplayed(flow, Head(pipe))
             ELSE [flow EXCEPT !.error = TRUE]
  /\ UNCHANGED <<journalVars, agentVars, threadVars, readerVars, cursor, seen>>

\* observe_replay_boundary
ReaderBoundary ==
  LET last == Head(pipe).seq IN
  /\ ReaderTakes("boundary")
  /\ flow' = IF flow.state # "replaying" \/ flow.boundary \/ last < flow.verified
             THEN [flow EXCEPT !.error = TRUE]
             ELSE [flow EXCEPT !.verified = last, !.boundary = TRUE]
  /\ UNCHANGED <<journalVars, agentVars, threadVars, readerVars, cursor, seen>>

\* finish_replay; the connecting thread is told.
ReaderComplete ==
  LET last == Head(pipe).seq
      fine == /\ flow.state = "replaying"
              /\ flow.boundary /\ ~flow.complete /\ ~flow.error
              /\ last = flow.verified IN
  /\ ReaderTakes("complete")
  /\ flow' = IF fine THEN [flow EXCEPT !.complete = TRUE] ELSE [flow EXCEPT !.error = TRUE]
  /\ replayed' = IF fine THEN Answer(last) ELSE Failure
  /\ UNCHANGED <<journalVars, agentVars, threadVars, reading, ready, failing, cursor, seen>>

\* The agent's stdout ended: both channels get an error (behind an answer already
\* there), the flow is retired and the transport detached ...
ReaderExits ==
  /\ reading
  /\ pipe = << >>
  /\ agent.phase = "dead"
  /\ reading' = FALSE
  /\ ready' = IF ready = Silent THEN Failure ELSE ready
  /\ replayed' = IF replayed = Silent THEN Failure ELSE replayed
  /\ flow' = Gone
  /\ current' = FALSE
  /\ failing' = failing + 1
  /\ UNCHANGED <<journalVars, agentVars, pipe, attempt, conn, connects, timeouts,
                 cursor, seen>>

\* ... and when the child has been reaped, the state is set (fail_reader_transport).
ReaderSetsFailed ==
  /\ failing > 0
  /\ failing' = failing - 1
  /\ conn' = "failed"
  /\ UNCHANGED <<journalVars, agentVars, pipe, attempt, current, connects, timeouts,
                 reading, ready, replayed, dataVars>>

-----------------------------------------------------------------------------
(* The thread inside connect() or reconnect().                             *)

\* A connection is torn down if there is one (disconnect_locked), a child spawned,
\* its reader started, the handles published and Hello written.
Connect ==
  /\ attempt = "idle"
  /\ connects < MaxConnects
  /\ connects' = connects + 1
  /\ agent' = [NoAgent EXCEPT !.phase = "spawned"]
  /\ toAgent' = <<Frame("hello", 0, 0)>>
  /\ pipe' = << >>
  /\ flow' = NewFlow
  /\ reading' = TRUE
  /\ ready' = Silent
  /\ replayed' = Silent
  /\ current' = TRUE
  /\ conn' = "handshaking"
  /\ attempt' = "hello"
  /\ UNCHANGED <<journalVars, failing, cursor, seen, timeouts>>

\* The child cannot be spawned.
ConnectFails ==
  /\ attempt = "idle"
  /\ connects < MaxConnects
  /\ connects' = connects + 1
  /\ Shutdown
  /\ current' = FALSE
  /\ conn' = "failed"
  /\ UNCHANGED <<journalVars, attempt, timeouts, ready, replayed, failing, cursor, seen>>

\* The reader is gone or the flow was retired under this thread.
HandshakeFails ==
  /\ attempt = "hello"
  /\ ready.is = "error" \/ (ready.is = "ok" /\ flow.state # "buffering")
  /\ FailConnection
  /\ UNCHANGED timeouts

\* What complete_replay insists on before anything is consumed.
Verified == /\ flow.state = "replaying" /\ ~flow.error
            /\ flow.boundary /\ flow.complete
            /\ flow.verified >= ready.seq

ReplayFails ==
  /\ attempt = "await"
  /\ replayed.is = "error" \/ (replayed.is = "ok" /\ ~Verified)
  /\ FailConnection
  /\ UNCHANGED timeouts

\* No Ready within 10 s, no ReplayComplete within 30 s.
TimesOut ==
  /\ \/ attempt = "hello" /\ ready = Silent
     \/ attempt = "await" /\ replayed = Silent
  /\ timeouts < MaxTimeouts
  /\ timeouts' = timeouts + 1
  /\ FailConnection

\* complete_without_replay: the agent has nothing the core has not consumed.
GoLive ==
  /\ attempt = "hello"
  /\ ready.is = "ok"
  /\ ready.seq <= cursor
  /\ flow.state = "buffering"
  /\ attempt' = "idle"
  /\ conn' = "live"
  /\ flow' = [NewFlow EXCEPT !.state = "live"]
  /\ Consume(flow.live)
  /\ UNCHANGED <<journalVars, agentVars, pipe, readerVars, current, connects, timeouts>>

\* begin_replay
BeginReplay ==
  /\ attempt = "hello"
  /\ ready.is = "ok"
  /\ ready.seq > cursor
  /\ flow.state = "buffering"
  /\ attempt' = "begun"
  /\ flow' = [flow EXCEPT !.state = "replaying", !.verified = cursor]
  /\ UNCHANGED <<journalVars, agentVars, pipe, readerVars, current, conn, connects,
                 timeouts, cursor, seen>>

\* ReplayJournal is written; a write into a dead agent is found out later.
RequestReplay ==
  /\ attempt = "begun"
  /\ attempt' = "await"
  /\ conn' = "replaying"
  /\ toAgent' = IF agent.phase = "dead" THEN << >>
                ELSE Append(toAgent, Frame("replay", cursor, 0))
  /\ UNCHANGED <<journalVars, agent, pipe, readerVars, dataVars, current, connects,
                 timeouts>>

\* complete_replay: the buffered history, then the boundary, then what came live.
FinishReplay ==
  LET fresh == {f \in flow.history : f.seq > cursor}
      upTo  == IF flow.verified > cursor THEN flow.verified ELSE cursor
      late  == {f \in flow.live : f.seq > upTo} IN
  /\ attempt = "await"
  /\ replayed.is = "ok"
  /\ Verified
  /\ attempt' = "idle"
  /\ conn' = "live"
  /\ flow' = [NewFlow EXCEPT !.state = "live"]
  /\ cursor' = Max({upTo} \cup {f.seq : f \in late})
  /\ seen' = [n \in 1 .. MaxSeq |->
                seen[n] + Cardinality({f \in fresh \cup late : f.rec = n})]
  /\ UNCHANGED <<journalVars, agentVars, pipe, readerVars, current, connects, timeouts>>

-----------------------------------------------------------------------------
\* Hook processes; one assumption about them can be made.
Hook ==
  /\ SeedRace \/ agent.phase \notin {"opened", "compacted", "sized"}
  /\ HookStep
  /\ UNCHANGED <<agentVars, pipe, coreVars>>

AgentStep ==
  \/ AgentOpen \/ AgentCompact \/ AgentSizeTail \/ AgentSeedTail
  \/ AgentTail \/ AgentHello \/ AgentReplay

ReaderStep ==
  \/ ReaderReady \/ ReaderLive \/ ReaderReplay \/ ReaderBoundary \/ ReaderComplete
  \/ ReaderExits \/ ReaderSetsFailed

ConnectStep ==
  \/ HandshakeFails \/ ReplayFails
  \/ GoLive \/ BeginReplay \/ RequestReplay \/ FinishReplay

SpineNext ==
  \/ Hook
  \/ AgentStep \/ AgentCommand \/ AgentDies \/ AgentDiesCompacting
  \/ ReaderStep
  \/ Connect \/ ConnectFails \/ ConnectStep \/ TimesOut

SpineSpec == SpineInit /\ [][SpineNext]_spineVars

\* The agent's and the core's threads keep running.  Nothing obliges a hook to fire,
\* a user to reconnect, an agent to die or a timeout to pass.
SpineFairness == /\ WF_spineVars(AgentOpen) /\ WF_spineVars(AgentSizeTail) /\ WF_spineVars(AgentSeedTail)
            /\ WF_spineVars(AgentTail) /\ WF_spineVars(AgentHello) /\ WF_spineVars(AgentReplay)
            /\ WF_spineVars(ReaderStep) /\ WF_spineVars(ConnectStep)

SpineFairSpec == SpineSpec /\ SpineFairness

-----------------------------------------------------------------------------
(* Properties.                                                             *)

FrameTypes == {"hello", "ready", "live", "replay", "boundary", "complete"}
Frames0    == [type : FrameTypes, seq : Nat, rec : 0 .. MaxSeq]

\* The agent never breaks the replay protocol the core fails closed on: replayed
\* numbers advance, the boundary covers them, the completion matches it and reaches
\* the advertised head, whatever the tail sends in between.
ReplayIsWellFormed ==
  /\ ~flow.error
  /\ replayed.is = "ok" /\ flow.state = "replaying" => Verified

\* Types; the cursor is a number the journal has reached.
SpineTypeOK ==
  /\ JournalTypeOK
  /\ agent \in [phase : {"none", "spawned", "opened", "compacted", "sized", "serving",
                         "dead"},
                head : 0 .. MaxSeq, offset : Nat, last : Nat]
  /\ toAgent \in Seq(Frames0)
  /\ pipe \in Seq(Frames0)
  /\ attempt \in {"idle", "hello", "begun", "await"}
  /\ {reading, current} \subseteq BOOLEAN
  /\ conn \in {"disconnected", "handshaking", "replaying", "live", "failed"}
  /\ flow.state \in {"buffering", "replaying", "live", "cancelled"}
  /\ flow.history \cup flow.live \subseteq Frames0
  /\ flow.state \in {"live", "cancelled"} => flow.history \cup flow.live = {}
  /\ {ready.is, replayed.is} \subseteq {"nothing", "ok", "error"}
  /\ failing \in 0 .. MaxConnects
  /\ cursor \in 0 .. LastSeq(log)
  /\ ReplayIsWellFormed
  /\ seen \in [1 .. MaxSeq -> Nat]

\* No record is reduced twice in one life of the core, over any number of lost
\* connections, replays that overlap the live tail, and compactions
\* (consume_journal_entry: "the journal sequence is the replay idempotency boundary").
ConsumedOnce == \A n \in 1 .. MaxSeq : seen[n] <= 1

\* The cursor never passes an event the core has not reduced: what it has passed is
\* never replayed, so such an event would be lost for good.  And a connection is
\* reported live only with the whole advertised history reduced (complete_replay).
NothingSkipped ==
  \A r \in stored : r.kind = "event" =>
    /\ r.seq <= cursor => seen[r.seq] > 0
    /\ flow.state = "live" /\ r.seq <= ready.seq => seen[r.seq] > 0

\* Every event is reduced once: never twice, and never passed over.
ExactlyOnce == ConsumedOnce /\ NothingSkipped

\* An event written while the bridge is connected is reduced, unless the connection
\* is lost first.
EventuallyConsumed ==
  \A n \in 1 .. MaxSeq :
    (current /\ \E r \in stored : r.kind = "event" /\ r.seq = n)
      ~> (seen[n] > 0 \/ ~current)
=============================================================================
