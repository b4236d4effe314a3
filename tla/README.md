# A verification project for t-hub

T-Hub supervises coding agents that run in terminals.  A desktop core (Tauri,
`src/apps/desktop/src-tauri/src`) reads the events of the agents, decides when an
orchestrating agent must be told something, and types into its terminal; a small
agent process (`src-tauri/crates/t-hub-agent`) runs beside the supervised
sessions, keeps a journal of what their hooks report and streams it to the core; a
control socket lets agents and tools command the core.

This directory holds TLA+ models of the parts of that system that carry state
from one step to another and are hard to test, the TLC configurations that check
them on small instances, and proofs for every instance.  Paths below are relative
to `src/apps/desktop/src-tauri/` unless they begin with `src/apps`.
`PROJECT.json` maps every definition to the lines it stands for.

## 1. Inventory

### Parts that are modelled

| Component | State it keeps | Operations | Talks to |
|---|---|---|---|
| Durable inbox, `src/inbox.rs` | per recipient: records with a receipt state, next seq, last drained, in-flight marker, request receipts; mirrored in one segment file | enqueue, prepare, activate, drain, ack, compact, purge, load | fleet notifier (drains), control handlers (produce, ack, purge), a PTY writer |
| Request outcome cache, `src/control/idempotency.rs`, and its dispatch path in `src/control.rs` | slots (in flight or done, age, reservation), eviction order, reservation counter | begin, finish, cancel, status; probe, admission, dispatch on a connection thread | every control client; the commands themselves |
| Event journal, `crates/t-hub-agent/src/journal.rs` | `events.ndjson`, `head.json` (head, length, recent event ids) | open, append, repair, compaction, replay, tail | hook processes, the agent |
| Agent stdio bridge, `crates/t-hub-agent/src/transport.rs`, `main.rs`, `dispatch.rs` | in-memory head, tail offset and number | startup, tail thread, Hello, ReplayJournal, journalled commands | journal, core |
| Core agent bridge, `src/agent/mod.rs`, `connection.rs` | connection state, transport handle, journal flow (buffers, phase), journal cursor | connect, handshake, replay, hand-over to live, reader exit, failure | agent over a pipe, the supervision reducer |
| Fleet notifier, `src/fleet.rs` | watches, last status, pending edges, suppression | on_status, arm, disarm | supervisor (calls it), inbox (queues and drains), terminals |
| Worktree retirement, `src/worktree_coordinator.rs`, and its commands in `src/control/handlers_admin.rs` | retirements (memory and file), per path a boundary: admissions, published retirement, coordination lock; worker threads | begin, bind request, start worker, run provider, transition, resume, recover, admit and drop | every spawn path (admission), a provider process, tmux panes |
| Captains registry, `src/control/captains_registry.rs`, with the commands in `handlers_captains.rs`, `handlers_terminal.rs`, `handlers_spawn.rs` and `src/commands.rs`, and the restart in `src/lib.rs` | ships: the terminal that captains each, its crews and their states; pending Fleet operations; tiles excluded from the workspaces; all of it one file | claim, release, commission, spawn a crew, close, kill, recover, reconcile at startup | tmux (probes, kills), identities, workspaces, every authority check |
| Supervision reducer, `src/supervision.rs`, and `wait_for_status` in `src/control/handlers_status.rs` | per session: status, subagents, tasks, the turn's stop, an open permission; a log of status edges; the order of eviction | one arm per kind of event, sweep, caps; wait | core bridge (feeds it), notifier and UI (read the edges), control clients (wait) |
| Audit log, `src/audit.rs` | segments of a day, a head over them, a key with a checkpoint, a commit journal; key and writer in memory, quarantine | record, verify, recover, first checkpoint, rotate | every command that changes processes |
| Spawn governor, `src/governor.rs`, with its evidence and callers in `src/control.rs`, `src/control/handlers_spawn.rs`, `handlers_history.rs`, `handlers_captains.rs`, `cortana.rs` and `src/history/catalog.rs` | a token bucket; the admission lock; what it counts: panes with their provider markers, records of agents, pending resumes, Cortana's terminal | admit, refund, open a pane, give up, record, reconcile | tmux (probes, sessions), registry, History catalogue, audit log |

How they compose.  A hook appends to the journal; the agent's tail sends the
entry; the core's reader consumes it and advances its cursor; the reducer turns it
into a status; the notifier sees the status edge, queues a wake in the inbox and,
when the orchestrator is at its prompt, drains one record into its terminal.
Producers reach the inbox through control commands, which the request cache makes
repeatable.  Such a command is authorised by what the captains registry says, is
anchored in the audit log before it runs, and the panes it opens are admitted by the
spawn governor and by the retirement coordinator; a client that waits for what it started polls the reducer.

What is hard, per component, and what makes it correct:

- *Inbox.*  The PTY write runs without the lock, and every operation can change
  the queue meanwhile; segment writes fail in some methods by refusing and in
  others by running ahead of the file; the process dies anywhere.  Correct means:
  what a producer was told is persisted is never lost, a request id names one
  message for good, a message is not typed twice in one life nor after a durable
  Delivered, Emergency goes first and a class stays in order, depth holds.
- *Request cache.*  A hung handler is reaped and replaced while it may still run;
  answers arrive late; capacity and age forget.  Correct means: no live
  reservation is taken from its handler before its window, an outcome is settled
  once, a caller is told only what a run of its own command produced, and an id
  runs once while the cache remembers it.
- *Journal.*  Short-lived processes are killed in the middle of a write, and the
  two files then differ.  Correct means: numbers are never reused, nothing whole
  is lost, a `head.json` that is believed is right, a retried event is stored once
  within the window.
- *Agent and bridge.*  A replay and the live tail deliver overlapping parts of one
  sequence, over connections that die at any point.  Correct means: each event is
  reduced once and none is passed over by the cursor; live means caught up; replay
  answers satisfy the core's checks.
- *Notifier.*  A wake must not be lost between an edge seen while the orchestrator
  is busy and its next prompt, and must be typed neither into an active turn nor
  twice in one idle window.
- *Worktree retirement.*  Admissions, reservations and the provider meet under
  four locks that are taken one after the other; the reservation is published
  before it is stored; the process dies while panes live on.  Correct means: no
  activity is admitted in a reserved worktree, a provider cleans alone, the file
  can be loaded after any death, and an outcome is final.
- *Captains registry.*  A claim probes tmux without the registry's lock; a close
  waits for its turn, writes an intent, kills and commits; a commission has six
  steps that can each fail; after a restart, recovery, reconciliation and the
  first commands share the registry.  Correct means: a live captain loses its ship
  to nobody, what was killed does not stay registered, what was not finished is
  accounted for, and a close is carried out for the captain that may ask for it.
- *Supervision.*  Hooks report out of order, twice or never, and a map of sessions,
  a list of subagents and a log are cut at their caps.  Correct means: a session is
  shown waiting only while it has something to wait for, and a waiter is told of a
  status its session entered, even if it left it again.
- *Audit log.*  One record takes four files.  Correct means: no crash looks like
  tampering, no record enters twice, and a caller is told Ok only of an anchored
  record.
- *Spawn governor.*  Six operations open panes and each writes something durable
  before or after it; panes, records and reservations change without the lock, and
  any step can fail or be the last one.  Correct means: no cap is passed, Cortana's
  place is kept, and no token is used twice or given back for nothing.

### Parts that are not modelled (yet)

| Component | Why |
|---|---|
| Captain control leases, `src/control/idempotency.rs` (second half) | planned: sliding leases, one per identity, eviction at the bound |
| Voice engine supervisor, `src/engine_supervisor.rs` | planned: health, bounded restarts, fallback, switch-back |
| Delegated administration; follow-ups and delivery evidence of agent sessions | planned after these |
| Preview runtime, dev servers, remote PTY and control clients | candidates once the above is done |
| Terminals (`tmux.rs`, `pty.rs`) | process input and output; others see a write that succeeds or fails |
| Access policy and identities (`acl.rs`, `authz.rs`, `identity.rs`) | predicates without state; the models assume an authorised caller |
| History, harness adapters, hook installation | parsing and editing of files |
| Files, git, SQLite storage, scribe and voice | input and output without protocol state |
| Desktop user interface, CLI, site | views and clients |

`PROJECT.json` "hazards" lists, at its line, what can go wrong in each of these
and which property would catch it.

## 2. Plan

Order: what a user would lose first.

1. `Inbox` with `ReceiptLedger` (abstract) and `InboxProofs`; `RequestCache`;
   `Journal`; `EventSpine`, which extends `Journal` with both ends of the
   bridge; `FleetWake`; `WorktreeRetirement`.  *Done.*
2. `CaptainsRegistry`; `Supervision`; `AuditLog` with `AuditTrail` (abstract);
   `SpawnAdmission`.  *Done.*
3. `ControlLeases`, `VoiceEngines`, then delegated administration, whose grants are
   revoked by what the captains registry decides.
4. Abstract specifications worth stating: an exactly-once event log that
   `EventSpine` implements while hooks are quiet during seeding; the
   composition of `FleetWake`'s queue with `Inbox` (its Enqueued wakes) and of
   `Supervision`'s edges with `FleetWake`; a reader-writer reservation that
   `WorktreeRetirement` implements without its races.
5. Proofs.  *Done:* every safety property that the passing runs check; both refinements of
   abstract specifications, `ImplementsLedger` and `ImplementsTrail`; and that `EventSpine`
   refines `Journal`.

## 3. Modules

| Module | Models |
|---|---|
| `Inbox` | the inbox, one action per method, `drain_one` as three |
| `ReceiptLedger` | abstract: what the inbox's module documentation promises, over the published segments alone |
| `InboxProofs` | theorems about `Inbox`, its refinement of `ReceiptLedger` among them |
| `RequestCache` | the cache and the handler threads that drive it |
| `RequestProofs` | theorems about `RequestCache` |
| `Journal` | the journal's files and every process that writes them |
| `EventSpine` | extends `Journal`: agent, pipe, core bridge |
| `FleetWake` | the notifier, its watches, and the part of the inbox it uses |
| `EventProofs` | theorems about `Journal`, `EventSpine` and `FleetWake` |
| `WorktreeRetirement` | reservations of worktrees, admissions, the provider's worker, restart |
| `RetirementProofs` | theorems about `WorktreeRetirement` |
| `CaptainsRegistry` | the registry with the handlers, the recovery and the reconciliation around it |
| `CaptainsProofs` | theorems about `CaptainsRegistry` |
| `Supervision` | the reducer, one action per event, and the callers of `wait_for_status` |
| `SupervisionProofs` | theorems about `Supervision` |
| `AuditLog` | the audit sink, one action per durable file operation |
| `AuditTrail` | abstract: what the sink promises its callers |
| `AuditProofs` | theorems about `AuditLog`, its refinement of `AuditTrail` among them |
| `SpawnAdmission` | the governor, the evidence it decides by, and every operation that opens a pane |
| `SpawnProofs` | theorems about `SpawnAdmission`: the lock and the rate, then the caps |
| `MC*` | instances for TLC: symmetry sets, the constant functions of `FleetWake` and `WorktreeRetirement`, the reservations of `SpawnAdmission` |

A definition whose comment is missing and whose name is that of another with a
suffix (`PopBackTwice`, `LoadKeepsMarker`) is a deliberately wrong variant of
it: substituting the one for the other must make the named property fail, which
shows that the property constrains the code.

### Inbox

`mem` is `InboxInner.queues`, `disk` the published segments, `drain` the place of
each thread inside `drain_one`.  A message is its (recipient, seq) pair.
`Enqueue`, `EnqueueReplay`, `EnqueueRefused` and `EnqueueCrash` are the outcomes
of `enqueue_once`: stored, answered from the receipt, undone after a failed
write, and stored with the reply lost.  `Activate` is `activate_prepared`.
`Claim` (head chosen, marker set, persisted), `Write` or `WriteError` (without the
lock), `Commit` are `drain_one`.  `Ack`, `Purge` and `Crash` are
`ack`, `purge_recipient`, and a death followed by `load_segments`.  Every
operation that persists compacts first (`Compact`), as the code does.
Methods that only log a failed segment write may leave `disk` as it was
(`PersistBestEffort`); `enqueue_once` and `activate_prepared` refuse instead.

History variables record what the rest of the system was told: `accepted`
(replies that promised persistence), `granted` (what each request id was answered
with), `retired`, `purged`, `writes` (since boot).

What the disk keeps is what the rename published: the code claims process-crash
durability and no more.  `write_attempts`, timestamps, bodies and telemetry are
left out.

### RequestCache

`slots`, `order`, `minted` are the fields of `RequestCacheInner`; `handler` is
where each connection thread stands: probing after a reap, at the governor's gate,
running, finishing.  A slot's age saturates at the longer window.  `Land` and
`Fail` are the two ends of a command, `Die` a thread that panicked or hung for
good, `Cancel` a refused admission, `Status` a `get_request_status` (which evicts),
`Tick` the passing of time.  A signature stands for one command with one argument
set and so for the artefact a probe looks for.  A retryable outcome is assumed to
have applied nothing; the durable operation record of `history_resume`, and
authorisation before the reservation, which changes nothing, are left out.

### Journal and EventSpine

`log` and `torn` are `events.ndjson`, `head` is `head.json`.  Every method holds
the interprocess lock from first read to last write and is one action; the points
inside where a kill leaves the two files different are actions of their own
(`AppendTorn`, `AppendUnpublished`, `RepairCut`, `CompactUnpublished`).
Lengths are in half lines, so a torn fragment is shorter than any line.

`EventSpine` adds the agent (`AgentOpen` to `AgentSeedTail` are its startup, then
the tail and the reader loop), the pipe, and the core's two threads: the one inside
`connect` or `reconnect` (`Connect` to `GoLive`) and the reader (`Reader*`).  A method
of `ReaderJournalFlow` runs under the flow's lock and is one action.  The reader's
exit folds its errors on `ready_tx` and `replay_done_tx`, the retirement of the
flow and the detaching of the transport into `ReaderExits`; the later
`set_state(Failed)` is `ReaderSetsFailed`, which can come after a newer
connection is up.  A protocol error sets `flow.error`; the reader's exit after one
is not modelled, because `ReplayIsWellFormed` (a conjunct of `SpineTypeOK`) shows that the
agent causes none.
What the agent reads of the file is numbered line by line: `ReadLine` is one turn of the
loop that `replay_with_boundary` and `tail_from` share, `ReadOn` the loop.
Only the tray's reconnect exists in the code (`connection.rs` and
`lib.rs` name a reconnecting state that nothing sets), so a new attempt is an
action of the environment, `Connect`.

### FleetWake

`on_status` runs under the notifier's mutex, and the terminal write happens inside,
so an edge is one action (`Edge`), with an outcome of the store and of the terminal
for each orchestrator.  `Unseen` is `on_status` returning early.  `Flush` is
`try_flush_durable`: queue the pending batch, drain one record.  The queue is the
Enqueued part of `Inbox`, acknowledged when written.  The check for an empty
registry and the later snapshot of it are two locks in the code; a `Disarm` between
them has the outcome of one before or after.  Production has one drainer, the
notifier; the path without an inbox (`T_HUB_INBOX_WAKE=0`) is left out.

### WorktreeRetirement

`records` is the coordinator's `inner` with its file, `boundary` its
`boundaries`.  `Admit` to `DropRemoves` are `admit_activity` and the guard's
`Drop`, cut where a lock is let go; `Begin*` are `begin_retirement_if_idle`,
`Bind`, `Start`, `Falters` and `Gives` the rest of the cleanup command;
`Worker*` and `ProviderEnds` are `run_provider_worker` and `run_provider`;
`Recover*` are `recover_pending`; `Resume` is the recovery command.  `transition`
holds `inner` from the check to the publication and is part of the action that
calls it; the removal of the boundary after it (`CleanerRemoves`,
`WorkerRemoves`, `RecoveryRemoves`) is a step of its own.  `Holders` is what
`Arc::strong_count` counts.

The constant `Races` names two interleavings the code permits and that break it
(section 6).  The pass run explores every other one: without "reclaim" the
look at a boundary's retirement and its removal are one step, without "startup"
cleanup commands wait for `recover_pending` to end.  The unscoped path stands for
an empty working directory: such an admission counts as inside every worktree, and
its pane may be anywhere.  Left out: sessions elsewhere that walk into the worktree,
and the watchdogs that freeze them; the provider's protocol, of which only how it
ends is kept.

### CaptainsRegistry

`captains` and `ops` are `FleetIdentity` records and `pending_fleet_operations`;
`commit_mutation` validates and persists a candidate before it publishes it, so
memory and file are one value, and a failed write changes nothing.  `builder` is the
thread that holds the identity transaction, which claims, spawns and commissions
share; `closer` a connection inside `close_terminal`, or the webview inside
`kill_terminal`, which hold other locks or none; `startup` the thread that
reconciles at boot; `todo` what `recover_pending_fleet_operations` has left, and
commands are served (`Serving`) only when that is nothing.  `Without` is what every
removal of terminals comes to (a gone tile, a close, a kill): the ships they
captain are orphaned with their crews.  `Aged` stands for the generations an
authority was captured with, and for `seq`: a closer is `stale` once what it was
authorised by has changed, and no longer `fresh` once anything has.

`raw` and `killed` are history: terminals commissioned and not yet claimed, and
terminals this program killed.  Terminal ids are never reused.

The constant `Races` opens two windows of the code (section 6).  Closed, a claim that
went by a probe made before the terminal was struck out is refused, and the
authority of a close holds still between its check and the freezing of `seq`.
`rollback_provisioned_claim` has no action: the two failures it answers cannot happen to
the in-memory workspaces it follows.  Probes that time out only refuse, and are
among the ways a closer gives up.

### Supervision

`sessions` is the reducer's map with of each subagent only whether it runs, is
overdue, or has finished and in which order; `recency` is the order of
`update_stamp`; `log` is `transitions`.  `ingest_with_payload` runs under one lock and is
one action per arm (`Stopped` is what the stop of a subagent leaves of its entry): `Current` is the entry after the timeout sweep, `Swept` what
follows the arm, `Ingest` the cap on sessions and the edge.  A waiter keeps how
many edges came since its watermark (up to one more than the log holds), which says
what of the log is `Unread`, and as history what its session has been meanwhile.  "unknown" is not waited for: the
command refuses it as no status name.

### AuditLog and AuditTrail

`disk` is the four kinds of file, `mem` is `Inner`, `call` the one call inside the
lock.  A step (`Writes`) is one durable file operation: `Written` is its effect,
`CutShort` what a death or a failure inside may leave, `Fit` what the code verifies
before it goes on, `After` the next one.  A record is its own hash, and a sealed
head is the head itself: what an editor of the files could do is outside.
`AuditTrail` has a trail per file and the set of records whose callers were told
Ok; `Recoverable` maps the files to it, a record entering its trail with its
journal.

### SpawnAdmission

`term` is what runs in each pane and its `T_HUB_PROVIDER_SESSION` marker, `agents` the
durable records, `resumes` the pending resumes, `thread` where a connection
stands between admission and the last write of its operation, `tokens` the spawn
bucket; `spare` is a history, what the bucket was given less what attempts used up.
`Evaluated` is `evaluate_spawn_capacity`: `Demand` is `live_session_evidence`, `Lanes`
and `Probed` are `inspect_provider_live_sessions` with the markers it writes, `Fits`
is `validate_capacity`, `Protected` the reservations.  An operation is its admission
(`PlainAdmitted`, `AgentAdmitted`, `ResumeReserved` and `ResumeAdmitted`,
`CaptainAdmitted`, `CortanaAdmitted`), then `Made` or `GivesUp` alike for all, then its
last write (`AgentStarted`, `ResumeRecorded`, `CaptainClaimed`,
`CortanaCommitted`).  `GivesUp` has every outcome of the error paths: the pane killed or
not, the record taken back or not.  Left out: what only makes the governor
refuse more (administrators, machine load, worktrees, lane collisions, and
commissioning's second look at the headroom), the other two buckets, the markers of
older versions, a provider started by hand in a plain shell (the code goes by the
pane's marker and does not see it), and a retry of a resume whose first handler still runs.

## 4. Runs

Every run finishes in a few minutes with 2 workers.

| Run | Question | Bounds |
|---|---|---|
| `inbox_store` | Do persistence, order, depth and single delivery hold in one queue under everything that can happen to it, and is everything deliverable delivered? | 1 recipient, 3 messages, 1 request id, depth 2, audit tail 1, 1 drainer, 1 crash |
| `inbox_shared` | Does a request id keep its message across recipients, commands, purges and a restart, and do the segments implement `ReceiptLedger`? | 2 recipients of 1 message, 1 id, 2 signatures, 1 crash, 1 administrator |
| `requests` | The cache's safety, and does every reservation end? | 2 ids, 2 commands, 2 handlers, capacity 1, windows 1 and 2 ticks, 2 reservations |
| `journal` | The journal's safety | 2 event ids, window 1, 6 numbers |
| `spine` | Is each event reduced exactly once while hooks are quiet during seeding, and is a durable event reduced? | 2 records, 3 connections, 1 timeout |
| `wake` | Is a wake ever lost, is it written once in a window, and is it told in the end, under disarming, session ends, full queues and a crash? | 2 tiles, 1 orchestrator, 2 edges per tile |
| `retirement` | Do reservations, admissions and providers exclude each other over failed writes and a restart? | 1 worktree, a directory in it, one beside it and the unnamed one, 2 spawners, 2 commands, 2 retirements, 1 crash |
| `retirement_reclaim` | *violation*, see findings | the same, 1 command, 1 retirement, no crash |
| `captains` | Is a live captain ever displaced, and does anything that was begun or killed stay behind without a durable account of it? | 2 ships, 3 terminals, 1 closer, 1 end of a session, 1 failed write, 1 crash |
| `supervision` | Is a session ever shown waiting for nothing, and a waiter ever not told? | 2 sessions in a map of 1, 2 subagents, 1 finished one kept, 1 task, log of 2, 1 waiter |
| `spawn` | Do the caps, Cortana's place and the rate hold while requests of every kind interleave with failures, panes and a restart? | 4 terminals, 2 connections, session cap 3, provider cap 2, burst 1, one place each for Cortana and recovery |
| `audit` | Does a crash ever look like tampering, and do the files implement `AuditTrail`? | 4 records, 2 days, 2 records a segment, 2 segments a day, 1 failed operation, 2 crashes |

Why these are enough.  *Inbox:* three messages are the fewest in which one is
delivered, one in flight and one waiting, an Emergency can overtake, depth 2 is
reached and compaction (tail 1) drops a record; a second recipient matters only to
the lookup of a request id, which `inbox_shared` exercises with the fewest messages.
*Requests:* with capacity 1 two ids already evict each other; two reservations
are a reaped run and its replacement, or two ids that compete; the reap window
is longer than the completed one in `requests`, so both orders of expiry
occur.  *Journal:* six numbers allow two compactions with work between; window 1
makes forgetting happen.  *Spine:* of two records one is replayed or buffered and the
other live; three connections are a lost one, a failed one and a good one.  *Wake:*
two edges of one source coalesce, a queue of depth 1 fills.  *Retirement:* one
guard can be dropping while another is admitted; two commands compete for one
worktree, and a second retirement follows a first; one crash finds every state
of a record.  *Captains:* three terminals are a captain, its crew or heir, and one
that is commissioned; one closer meets the builder and the startup thread; one crash
finds every operation at every step.  *Supervision:* a map of one evicts at the
second session; two subagents are one that ends and one that does not; a log of two
overflows while a waiter sleeps.  *Spawn:* four terminals are one more than the cap
and two more than the providers' capacity, so one admission too many shows; the cap
has room for Cortana, a recovery and one other; with two connections two admissions
could overlap; a burst of one is full again after one refill, so a late refund
would exceed it.  *Audit:* with two records a segment, four records rotate within a
day and change days; the second crash can interrupt the recovery of the first.

Deadlock checking is off (`CHECK_DEADLOCK FALSE`) where a counter's bound stops the
model (messages, numbers, connections, edges): the system itself would go on; and in
`spawn`, where every step may be refused and the system may rest.  It is
on in `requests`, where time always passes.

`journal`, `inbox_shared`, `retirement`, `captains`, `supervision`, `spawn` and `audit`
use the permutations of event ids, recipients, spawners and cleaners, ships and
terminals, sessions and subagents, terminals and connections, and records, which the
modules treat alike; runs with
liveness use none.

### Fairness

- `Inbox`: a drainer that has claimed goes on (the thread is running), a drain of a
  non-empty queue recurs (the notifier drains at each of the recipient's prompts),
  and the terminal does not refuse every write for ever.
- `RequestCache`: time passes and the client of a request polls or retries.
  Nothing is assumed of a handler: it may hang for ever.
- `EventSpine`: threads of a live agent and a live core run; nothing is assumed
  of connections, and an event whose connection is lost is excused until
  the next one.
- `FleetWake`: a bound orchestrator's turns end and begin, infinitely often without
  a failed write; its terminal becomes known.  A disarmed watch or an ended session
  excuses the wake.

Each conjunct has its comment in the module.

## 5. Proofs

TLAPS checks the following for every value of the constants that the module's one
assumption allows: any number of recipients, terminals, threads, records, crashes and
so on, and every order of their steps.  An assumption says that bounds are naturals,
that sets which are counted are finite, that constants are of their types, and that
`Nil` (`NoId` in the journal) is none of the things it is told apart from.  Where a theorem has a
hypothesis of its own it is said below, with the reason; in each case TLC, or section 6,
shows that the property fails without it.

In each module the properties follow from one inductive invariant, a conjunction of
named parts.  A lemma says what each operator of the model returns, a lemma per
action says that the action keeps the invariant, and the theorems combine them.
The invariants were checked by TLC as invariants of the runs before they were proved.

**Inbox** (`InboxProofs`).

- `TypeCorrect`: `Spec => []TypeOK`, with one lemma per operator on a queue.
- `RequestsAreIdempotent`: `OneMessagePerRequest`, that every Ok reply to a request id
  names one message.  The property says nothing of what a later reply will name.
  `ReceiptInv` adds that memory and segments agree on every request's receipt
  (`IndexSynced`), that an id has a receipt in one queue at most (`BoundOnce`), and that
  what was granted is what the receipt says.  `IndexSynced` is what survives a failed
  write: `PopBack` removes the receipt with the record, and a method that leaves the
  memory ahead of the file touches no receipt.
- `NothingIsLost`, `FirstComeFirstServed`, `DepthIsBounded`, `DeliveredStaysUnwritten`,
  `OneWriteInALife`: the rest of what the runs check.  `MessageInv` adds for every
  message that memory and segment can each account for it (`Sound`), that the
  segment is an earlier state of the queue (`Ages`), that a drainer's message is where
  the drainer left it (`Owns`), and that what was written since boot is past waiting or
  is being committed (`Counted`).  The first two of these theorems need nothing more;
  the last, that a message is typed once in a life of the process, assumes
  `Solo`: one drainer, or no administrator.  That is production; with two drainers and a
  purge in between two writes run at once (section 6).
- `SegmentsAreTheLedger`: under `Solo` the segments implement `ReceiptLedger`.  The
  initial states map to initial states, every step publishes at most one segment
  and is then a step of the ledger or a stutter.

**RequestCache** (`RequestProofs`): `TypeCorrect`, `ExactlyOnce`, `AnswersEarned` and the action
property `SlotsOwned`.  `RequestInv` says that the order lists the slots in use once
each (`Ordered`), that every handler at work has a reservation of its own (`Minted`), that
what a thread or a slot reports was done (`Earned`), and, for every id that has not
lapsed, that its slot tells all that was done and said under it (`Remembered`).
Removal from the order, `Without`, is a recursive function on lengths; what it
returns is shown from the least length at which it would be wrong.

**Journal** (`EventProofs`): `JournalHeadIsTrue` (types included), `JournalStoresOnce` and the
action property `JournalNumbersRise`.  `JournalInv` is `Coherent` of the two files and
the history.  Of the head it says two things: if it is as long as the complete lines
it is the one a scan finds, and a torn line follows only such a head.  So a head as long as the
file is never a stale one, which is what the code relies on when it compares the two
lengths.  It holds because no operation leaves a head as long as a file it does not
describe, compaction least of all: dropping a line makes a file shorter
(`EventsAreShorter`), and the watermark is padded where it would make up for what was
dropped.  Of the records it says that numbers rise, only events are identified,
and an identity comes back only behind a window of others (`Orderly`).  For the last the lemmas
follow an identity through the recent list: it is there, or at least `Window`
others came after it (`Remembers`, `RememberIs`, `HeadFollows`); compaction keeps
it because it keeps every event, in order (`EventsAre`).  `Scanned` and `Events` are recursive
functions on lengths; that they unfold is shown once (`ScanUnfolds`,
`EventsUnfold`) from the existence of functions defined by recursion.

**EventSpine** (`EventProofs`).

- `SpineUsesJournal`: `SpineSpec => JournalSpec`.  Every step of the agent, of the core and
  of the hooks is an operation of the journal or leaves its files alone, so the three
  theorems above hold with the bridge running.
- `SpineTypeCorrect` and `EventsReducedOnce`: `SpineTypeOK` and `ExactlyOnce`, under
  `SeedRace = FALSE`: no hook runs between the two reads with which the agent seeds its tail.
  Without the hypothesis `ExactlyOnce` is false (section 6).

`ExactlyOnce` speaks of the cursor and of what was reduced, and nothing in it says what
is still to come, so the invariant has to describe everything that is under way.
`SpineInv` is `JournalInv` together with: there are numbers h, the last of the journal,
E, those of its events, and b, from which the tail owes the core every event, such that
`Bridge(h, E, b)` holds.  Its parts:

- `Control`: how agent, connecting thread and reader stand to each other.  A phase of
  the flow goes with one step of the handshake, and while the agent starts nothing is
  on its way.
- `Synced`: the tail stands between two records, at the number of the one it read
  last.  This is what `SeedRace` breaks.  While the agent serves, hooks and commands only
  add lines or cut a torn one, which leaves every such place where it is.
- `Talk`: one question is under way at a time, Hello or a replay from the cursor,
  and is answered once.
- `Sane`: a frame carries the number of its record in the journal, so that a replayed and a
  tailed copy of an event are equal as numbers.
- `Replaying`: frames of a replay rise, the boundary covers them and the head that Ready
  named, and every event between the cursor and the boundary is buffered or on its way ahead
  of it.  This gives the conjunct `ReplayIsWellFormed` of `SpineTypeOK`.
- `Tailed`: every event past b that the tail has read is in the flow's buffer, behind the
  cursor of a live flow, or in the pipe, and the tail's frames leave no event out.  b is
  the head at which the agent of this connection seeded its tail (`AgentSeedTailKeeps`);
  Ready names a head no lower and the boundary covers that, so what a replay does not
  bring the tail does.
- `Consumed`: what was reduced was reduced once and lies behind the cursor, and every event
  behind the cursor was reduced.

The lemmas about reading carry the rest: `ReadOn` yields the events of what it reads,
each under its own number, rising, and none at or below `after` (`ReadOnIs`), from the start of the
file or from the tail's place in it (`ScanFetches`, `TailFetches`).  It is a recursive
function on lengths and is reasoned about from the least length at which a claim fails,
like `Scanned`; a fold and a filter would say the same, but the provers cannot expand
them.  Each step of the agent, the
connecting thread and the reader is then one lemma that keeps `Bridge` for the same h
and E; a record stored meanwhile widens both (`GrowthKeeps`), and `SpineSteps` puts them
together.

**FleetWake** (`EventProofs`): `TypeCorrect`, `NoWakeIsLost`, `OneWriteInAWindow`.  What is pending
is also owed (`PendingIsOwed`); an edge that is owed, or a newer one of its tile, is
pending, queued or already written (`OwedIsHad`); and the suppression flag stands
for the write of the window (`Unspent`), where a prompt that the notifier has yet to see
is one at which nothing was written.

**WorktreeRetirement** (`RetirementProofs`): `TypeCorrect`, `AdmissionIsExclusive`,
`ProvidersRunAlone`, `OutcomesAreFinal`, all under `Races = {}`.  The races left out
are real: `retirement_reclaim` shows the first, section 6 says what the second
breaks; the theorems say that everything else is in order.  `RetirementInv` relates the
file to the map (`Shown`), each record to the one thread that may move it, be it a
command (`CleanersOwn`), a worker (`WorkersOwn`) or recovery (`RecoveryOwns`), the
path locks to who stands inside (`LocksHeld`), and the guards to the boundary's
count (`Counted`); `Excluded` then says that no activity is admitted where a
reservation is shown.

**CaptainsRegistry** (`CaptainsProofs`): `TypeCorrect` and `LiveShipsAreKept` (no step displaces a live
captain) for every value of `Races`; `EndsStayLogged` when "claim" is not among them,
`OwnersClose` when "close" is not.  These are the two windows of section 6, and each
property fails in its own.  `CaptainsInv` says among other things that the tile being
built is known to nobody else and its intent is durable (`Built`), that a live
terminal not yet claimed has an intent or will be pruned at startup (`RawLogged`),
that closes of one tile take turns and kill after the intent (`Turns`), that what was
struck from the registry stays out of it (`Closed`), and that a close which has not
gone stale still has its authority (`Authorized`).

**Supervision** (`SupervisionProofs`): `TypeCorrect`, `NothingWaitsForNothing`, and the action property
`WaitersHearTheTruth`.  The second holds between actions only: the sweep of overdue
subagents (`Current`) may empty what a waiting entry waits for, and the arm,
or `Swept` after it, must recompute the status.  For the third `SupervisionInv`
keeps of each waiter (`Watching`) that what its session entered is still in the part
of the log the waiter has to look through, unless more edges came than the log
holds, and that what it finds there the session has been.

**AuditLog** (`AuditProofs`): `CrashesRaiseNoAlarm` and `FilesImplementTrail`.  The invariant
holds at every durable file operation: whatever a death left of the four kinds of file
is something the next process accepts or repairs (`DiskSound`), the call inside the
lock has the files in the state its step expects (`Staged`), memory agrees with them
between commits (`Remembers`), and a sink that is not quarantined has read the key file
that is there (`Trusting`).  For the refinement, a record whose caller still waits is in
no file before its journal is (`Fresh`), and each step but one leaves every trail as it
was: the journal's publication adds its record.

**SpawnAdmission** (`SpawnProofs`).

- `RateAlwaysHolds`: the property does not say why an attempt may use a token up after
  it took it; `RateInv` adds that one connection at a time is between admission
  and end (`OneAdmission`) and that an attempt under way has its token left over in
  `spare` (`Lent`).  `TypeCorrect` is the type invariant, the exclusion included.
- `CapsAlwaysHold` and `CortanaCanAlwaysReturn`, under `Races = {}` (section 6 says what
  "probe" breaks).  Neither is inductive: an admitted attempt opens its pane later and is not
  asked again.  `CapsHold` counts the places that are taken or promised to an attempt,
  `PaneInv` adds that a harness that starts or runs in a lane bears a marker that is
  counted and that Cortana's terminal is nobody else's.  Only an admission adds
  a place (`CountFacts`, `AdmittedFacts`), making the pane turns a promise into a place,
  and everything else only gives places up (`CapsShrink`).

Only model-checked: every liveness property, which TLAPS cannot prove because it has no
rules for fairness and ENABLED, and the run that expects a violation.

## 6. Findings

One is listed in `PROJECT.json` with the run that shows it.

- `retirement_reclaim`: `WorktreeAdmissionGuard::drop` reads the boundary's
  retirement under one lock and removes the boundary under another.  A retirement
  that begins in between is removed with it, and the next activity is admitted in
  the reserved worktree; `transition` has the same gap.

Seen while modelling, reproducible by the constants named, and not kept as runs:

- With `Races = {"reclaim"}` and two retirements, `TypeOK` (its conjunct
  `SnapshotLoads`) and `ProviderRunsAlone` fail too: a second retirement of the worktree can be begun,
  and the file then holds duplicate active retirements, which `load` refuses.
- With `Races = {"startup"}`, `AdmissionExclusive`, `ProviderRunsAlone`,
  `TypeOK` and `OutcomeIsFinal` fail: `lib.rs` accepts commands before
  `recover_pending` has worked off its list, and `transition` does not look
  at the state it leaves, so a retirement that has begun to run, or has ended, is
  moved by what recovery remembers of it.
- With `SeedRace = TRUE`, `ConsumedOnce` fails in `EventSpine`: `serve_stdio` reads the
  tail's offset and its number in two holds of the journal lock
  (`transport.rs`, 98), a hook that writes between them has its event replayed
  under its own number and sent live under the next, and the core reduces it
  twice.  "The journal sequence is the replay idempotency boundary"
  (`agent/mod.rs`, 1046), and reconnecting promises "no duplicate ingestion" (796).
  `NothingSkipped` fails too: a line torn before the tail is sized is counted and
  then cut, and the next record straddles the offset.  `spine` has `SeedRace = FALSE`,
  hooks being quiet in that window, which is what the rest of the protocol needs.
- The notifier acts on the last status it recorded: one is recorded only while
  something is armed, so a watch armed again can go by a prompt that has passed, and a
  session that ended at its prompt keeps it, so a wake can be written to its tile.
- With two drainers and an administrator, a purge between claim and commit clears the
  in-flight marker of a write under way, and two writes run at once.  Production has
  one drainer.
- An agent that dies between Ready and the replay request leaves the connection
  shown as replaying with no thread left to correct it: the reader has already
  detached the transport, so `fail_connection` finds it is not its own.
- `get_request_status` answers unknown for an outcome that was evicted after its
  command landed, which its documentation describes as "did NOT land".
- A status poll evicts an expired reservation itself (`idempotency.rs`, 390), so the
  retry after it is answered Fresh and not FreshAfterReap, and runs without the
  probe that the documentation (38-42) promises.
- With `Races = {"claim"}`, `ClosedIsLogged` fails in `CaptainsRegistry`: a claim
  probes the claimant and the orphaned crews, a close or a kill in between strikes
  the tile out and kills it, and the claim's commit puts it back, dead.  The comment
  at the probe says that a raced id "can never be persisted"
  (`handlers_captains.rs`, 158-159).  The next startup removes it.
- With `Races = {"close"}`, `CloseIsOwners` fails: the authority is checked, tmux is
  probed, and only then is `seq` frozen, so a claim or a release in between is not
  noticed.
- A commission whose worktree admission is refused returns with its intent and
  identity in place (`handlers_captains.rs`, 695); `UnfinishedIsLogged` holds because
  the next restart takes both back, and until then no other commission is begun.
- With `Races = {"probe"}`, `WithinCaps` fails in `SpawnAdmission`, in about eleven steps: a login
  shell that has yet to exec the harness is a fallback shell to `harness_liveness`
  (`tmux.rs`, 1064-1068), so the next admission clears the pending marker of a
  provider that is about to run, which is then never counted.  The code does so on
  purpose, for "a dead terminal cannot become the provider runtime it was reserving"
  (`handlers_spawn.rs`, 359-363), which a terminal just opened is not.  The pane's
  shell is there for as long as its profile takes to load.
- `start_agent` takes its snapshot of the registry (`handlers_spawn.rs`, 763) before the
  lock (790), and checks ownership of the checkout and lane collisions against it; the
  comment at the lock says that it serialises a dispatch "from its authoritative
  snapshot" (`control.rs`, 2523-2527).  The counts are taken afresh (866), so no cap is
  affected; the lanes are not modelled.
- `commission_captain` spends no spawn token (`handlers_captains.rs`, 585), while the
  governor says that process creation "must still pass" `check_spawn` (`governor.rs`,
  515-517): `RateHolds` is about the operations that do.
- Cortana's `harness` is set only when an old file is read
  (`captains_registry.rs`, 1174); without it the reservation counts her as absent while she
  lives, and a place stays free.  `CortanaNamed` is that.
- A permission resolved after the turn's Stop leaves the session shown as needing
  permission; a TaskCompleted that never arrives leaves it waiting until the next
  prompt.  Neither is excluded by a document.
- The key file of the audit log is written in place when it is first made
  (`audit.rs`, 2140 and 2304).  A death inside leaves a file that is refused from then
  on: `NoFalseAlarm` excepts it.
- A record whose call was refused after its journal was durable is carried out by
  the next process: `AuditTrail` allows a refused record in the trail.
- The voice engine supervisor returns early when it still holds a child
  (`engine_supervisor.rs`, 903-910), so a standby that died is not started again,
  which the comment at 362-366 promises.
