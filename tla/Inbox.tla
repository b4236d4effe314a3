------------------------------- MODULE Inbox -------------------------------
(***************************************************************************)
(* The durable inbox of the comms plane (src-tauri/src/inbox.rs): one      *)
(* queue per recipient, held in memory behind one mutex and mirrored in    *)
(* one segment file per recipient that is replaced by an atomic rename.    *)
(*                                                                         *)
(* Every method of the store is one critical section, and one action here, *)
(* except drain_one, which gives the lock up around the PTY write and is   *)
(* three: Claim, Write and Commit.  A segment write can fail.  enqueue and *)
(* activate undo themselves and refuse when it does; every other method    *)
(* logs the failure and leaves the memory ahead of the file.  Crash is the *)
(* death of the process at any point between two actions; the restart      *)
(* reads the segments back.                                                *)
(*                                                                         *)
(* A message is its (recipient, seq) pair: bodies, senders, timestamps and *)
(* the write_attempts counter are left out, a producer's content is the    *)
(* signature the store compares.  The disk keeps what rename published     *)
(* (process-crash durability, the only kind the code claims).              *)
(***************************************************************************)
EXTENDS Integers, FiniteSets

CONSTANTS
  Recipients,   \* the keys queues are filed under (tile ids, ship:<slug>)
  Requests,     \* stable producer request ids
  Signatures,   \* what a request id may stand for
  Drainers,     \* threads that may call drain_one
  Operators,    \* callers the ACL lets purge a queue
  Nil,          \* "no request" and "no recipient"
  MaxDepth,     \* max_depth: open messages before Standard traffic is refused
  AuditTail,    \* audit_tail: processed messages that survive compaction
  MaxMessages,  \* bound: messages accepted per recipient
  MaxCrashes    \* bound: process deaths

ASSUME InboxAssumption ==
  /\ Nil \notin Recipients \cup Requests \cup (Recipients \X Nat)
  /\ MaxDepth \in Nat
  /\ AuditTail \in Nat
  /\ MaxMessages \in Nat \ {0}
  /\ MaxCrashes \in Nat

VARIABLES
  mem,       \* the parsed queues: the source of truth while the app runs
  disk,      \* the published segments
  drain,     \* where each drainer stands inside drain_one
  writes,    \* history: successful PTY writes of each message since boot
  accepted,  \* history: messages a producer was told are persisted
  granted,   \* history: the messages an Ok reply to each request id named
  retired,   \* history: messages whose ack answered Processed
  purged,    \* history: messages an administrator flushed
  crashes    \* process deaths so far

vars == <<mem, disk, drain, writes, accepted, granted, retired, purged, crashes>>
history == <<accepted, granted, retired, purged>>

Seqs       == 0 .. MaxMessages - 1
None       == -1
Priorities == {"standard", "emergency"}
Stages     == {"none", "held", "enqueued", "delivered", "processed"}
Phases     == {"idle", "claimed", "written", "failed"}

Slot    == [stage : Stages, prio : Priorities, req : Requests \cup {Nil}]
Receipt == [seq : Seqs \cup {None}, sig : Signatures \cup {Nil}]
Queue   == [nextSeq : 0 .. MaxMessages, lastDrained : Seqs,
            inflight : Seqs \cup {None},
            slots : [Seqs -> Slot], receipts : [Requests -> Receipt]]

EmptySlot  == [stage |-> "none", prio |-> "standard", req |-> Nil]
NoReceipt  == [seq |-> None, sig |-> Nil]
EmptyQueue == [nextSeq |-> 0, lastDrained |-> 0, inflight |-> None,
               slots |-> [s \in Seqs |-> EmptySlot],
               receipts |-> [q \in Requests |-> NoReceipt]]
Idle       == [phase |-> "idle", to |-> Nil, seq |-> None]

-----------------------------------------------------------------------------
(* One recipient's queue.                                                  *)

InStage(q, stages) == {s \in Seqs : q.slots[s].stage \in stages}

OpenUnheld(q) == InStage(q, {"enqueued", "delivered"})

OpenRecords(q) == InStage(q, {"held", "enqueued", "delivered"})

BeforeNewest(q, s, t) == q.slots[s].prio = q.slots[t].prio => s >= t

\* head_enqueued: Emergency before Standard, then the lower seq.
Before(q, s, t) ==
  IF q.slots[s].prio = q.slots[t].prio THEN s <= t
                                       ELSE q.slots[s].prio = "emergency"

IsHead(q, s) ==
  /\ s \in InStage(q, {"enqueued"})
  /\ \A t \in InStage(q, {"enqueued"}) : Before(q, s, t)

SetStage(q, s, stage) == [q EXCEPT !.slots[s].stage = stage]

Push(q, prio, req, sig, stage) ==
  [q EXCEPT !.nextSeq = q.nextSeq + 1,
            !.slots[q.nextSeq] = [stage |-> stage, prio |-> prio, req |-> req],
            !.receipts = [x \in Requests |->
               IF x = req THEN [seq |-> q.nextSeq, sig |-> sig] ELSE q.receipts[x]]]

PopBackTwice(q, seq, req) == [q EXCEPT !.nextSeq = seq - 1, !.slots[seq] = EmptySlot]

\* The undo of a Push whose segment write failed.
PopBack(q, seq, req) ==
  [q EXCEPT !.nextSeq = seq,
            !.slots[seq] = EmptySlot,
            !.receipts = [x \in Requests |->
               IF x = req THEN NoReceipt ELSE q.receipts[x]]]

\* compact: of the processed records only the newest audit_tail stay (0 means 1).
Expired(q, s) ==
  /\ q.slots[s].stage = "processed"
  /\ LET newer == {t \in InStage(q, {"processed"}) : t > s}
     IN  Cardinality(newer) >= (IF AuditTail = 0 THEN 1 ELSE AuditTail)

Compact(q) ==
  [q EXCEPT !.slots = [s \in Seqs |-> IF Expired(q, s) THEN EmptySlot ELSE q.slots[s]]]

LoadKeepsMarker(q) == q

LoadRewinds(q) ==
  [q EXCEPT !.inflight = None,
            !.slots = [s \in Seqs |->
               IF q.slots[s].stage = "delivered"
               THEN [q.slots[s] EXCEPT !.stage = "enqueued"] ELSE q.slots[s]]]

\* load_segments: an in-flight marker on disk is a crash mid-write; it is cleared.
Load(q) == [q EXCEPT !.inflight = None]

-----------------------------------------------------------------------------
(* Segment persistence.                                                    *)

\* persist: best effort, a failure leaves the file as it was.
PersistBestEffort(r, q) ==
  /\ mem' = [mem EXCEPT ![r] = q]
  /\ disk' \in {disk, [disk EXCEPT ![r] = q]}

BoundByRecord(q) == {r \in Recipients : \E s \in Seqs : mem[r].slots[s].req = q}

\* The receipt lookup of enqueue_once searches every queue, not only r's.
BoundAt(q)  == {r \in Recipients : mem[r].receipts[q].seq # None}

-----------------------------------------------------------------------------
Init ==
  /\ mem      = [r \in Recipients |-> EmptyQueue]
  /\ disk     = [r \in Recipients |-> EmptyQueue]
  /\ drain    = [d \in Drainers |-> Idle]
  /\ writes   = [r \in Recipients |-> [s \in Seqs |-> 0]]
  /\ accepted = [r \in Recipients |-> {}]
  /\ granted  = [q \in Requests |-> {}]
  /\ retired  = [r \in Recipients |-> {}]
  /\ purged   = [r \in Recipients |-> {}]
  /\ crashes  = 0

\* What the producer of an Ok reply may rely on from now on.
Grant(req, r, s) ==
  /\ accepted' = [accepted EXCEPT ![r] = @ \cup {s}]
  /\ granted' = [q \in Requests |->
                   IF q = req THEN granted[q] \cup {<<r, s>>} ELSE granted[q]]

\* enqueue_once, for a request id some queue already holds a receipt for: the
\* original seq is replayed when recipient and signature agree; a disagreement
\* is refused and changes nothing.
EnqueueReplay(r, req, sig) ==
  /\ req \in Requests
  /\ r \in BoundAt(req)
  /\ mem[r].receipts[req].sig = sig
  /\ Grant(req, r, mem[r].receipts[req].seq)
  /\ UNCHANGED <<mem, disk, drain, writes, retired, purged, crashes>>

\* The admission of enqueue_once: an unbound request id, and room for Standard.
Admits(r, prio, req) ==
  /\ req \in Requests => BoundAt(req) = {}
  /\ prio = "emergency" \/ Cardinality(OpenRecords(mem[r])) < MaxDepth
  /\ mem[r].nextSeq < MaxMessages

EnqueueUnsaved(r, prio, req, sig, stage) ==
  /\ Admits(r, prio, req)
  /\ PersistBestEffort(r, Push(mem[r], prio, req, sig, stage))
  /\ Grant(req, r, mem[r].nextSeq)
  /\ UNCHANGED <<drain, writes, retired, purged, crashes>>

\* enqueue_once: the record and its receipt reach the disk before the reply.
Enqueue(r, prio, req, sig, stage) ==
  /\ Admits(r, prio, req)
  /\ LET q == Push(mem[r], prio, req, sig, stage)
     IN  /\ mem'  = [mem EXCEPT ![r] = q]
         /\ disk' = [disk EXCEPT ![r] = q]
  /\ Grant(req, r, mem[r].nextSeq)
  /\ UNCHANGED <<drain, writes, retired, purged, crashes>>

\* enqueue_once when the segment cannot be written: undone, and refused.
EnqueueRefused(r, prio, req, sig, stage) ==
  /\ Admits(r, prio, req)
  /\ mem' = [mem EXCEPT ![r] =
               PopBack(Push(@, prio, req, sig, stage), @.nextSeq, req)]
  /\ UNCHANGED <<disk, drain, writes, history, crashes>>

\* The process is started again from the segments d: only they are left.
Restart(d) ==
  /\ crashes < MaxCrashes
  /\ crashes' = crashes + 1
  /\ mem'    = [r \in Recipients |-> Load(d[r])]
  /\ drain'  = [x \in Drainers |-> Idle]
  /\ writes' = [r \in Recipients |-> [s \in Seqs |-> 0]]

\* enqueue_once, and the process dies between the rename and the reply: the
\* message is durable and no producer knows it.
EnqueueCrash(r, prio, req, sig, stage) ==
  /\ Admits(r, prio, req)
  /\ LET d == [disk EXCEPT ![r] = Push(mem[r], prio, req, sig, stage)]
     IN  disk' = d /\ Restart(d)
  /\ UNCHANGED history

\* activate_prepared: Held becomes deliverable, durably, or stays Held.
\* (An id that is not bound here, or whose record is gone, is a conflict.)
Activate(r, req) ==
  LET s == mem[r].receipts[req].seq
      q == SetStage(mem[r], s, "enqueued") IN
  /\ s # None
  /\ mem[r].slots[s].stage = "held"
  /\ \/ /\ mem'  = [mem EXCEPT ![r] = q]
        /\ disk' = [disk EXCEPT ![r] = q]
        /\ Grant(req, r, s)
     \/ /\ mem' = [mem EXCEPT ![r] = SetStage(q, s, "held")]
        /\ UNCHANGED <<disk, accepted, granted>>
  /\ UNCHANGED <<drain, writes, retired, purged, crashes>>

\* activate_prepared of a record past Held: a benign duplicate.
ActivateReplay(r, req) ==
  LET s == mem[r].receipts[req].seq IN
  /\ s # None
  /\ mem[r].slots[s].stage \notin {"none", "held"}
  /\ Grant(req, r, s)
  /\ UNCHANGED <<mem, disk, drain, writes, retired, purged, crashes>>

\* drain_one, phase 1: claim the head under the lock and persist the marker.
\* (A marker already set answers Busy, an empty queue answers Empty.)
Claim(d, r) ==
  /\ drain[d] = Idle
  /\ mem[r].inflight = None
  /\ \E s \in Seqs :
       /\ IsHead(mem[r], s)
       /\ PersistBestEffort(r, [mem[r] EXCEPT !.inflight = s])
       /\ drain' = [drain EXCEPT ![d] = [phase |-> "claimed", to |-> r, seq |-> s]]
  /\ UNCHANGED <<writes, history, crashes>>

\* drain_one, phase 2: the PTY write of the cloned record, no lock held.
Write(d) ==
  /\ drain[d].phase = "claimed"
  /\ drain' = [drain EXCEPT ![d].phase = "written"]
  /\ writes' = [writes EXCEPT ![drain[d].to][drain[d].seq] = @ + 1]
  /\ UNCHANGED <<mem, disk, history, crashes>>

WriteError(d) ==
  /\ drain[d].phase = "claimed"
  /\ drain' = [drain EXCEPT ![d].phase = "failed"]
  /\ UNCHANGED <<mem, disk, writes, history, crashes>>

DeliveredUnmarked(q, s) == [q EXCEPT !.inflight = None]

\* drain_one, phase 3: the marker is cleared whoever set it; the record, if it is
\* still there, becomes Delivered after a successful write.
Delivered(q, s) ==
  [SetStage(q, s, IF q.slots[s].stage = "none" THEN "none" ELSE "delivered")
     EXCEPT !.inflight = None,
            !.lastDrained = IF s >= @ THEN s ELSE @]

Commit(d) ==
  LET r == drain[d].to
      s == drain[d].seq IN
  /\ drain[d].phase \in {"written", "failed"}
  /\ drain' = [drain EXCEPT ![d] = Idle]
  /\ \/ /\ drain[d].phase = "written"
        /\ PersistBestEffort(r, Delivered(mem[r], s))
     \/ /\ drain[d].phase = "failed"
        /\ PersistBestEffort(r, [mem[r] EXCEPT !.inflight = None])
  /\ UNCHANGED <<writes, history, crashes>>

\* ack: only a Delivered record retires; then the audit tail is compacted.
Ack(r, s) ==
  /\ mem[r].slots[s].stage = "delivered"
  /\ PersistBestEffort(r, Compact(SetStage(mem[r], s, "processed")))
  /\ retired' = [retired EXCEPT ![r] = @ \cup {s}]
  /\ UNCHANGED <<drain, writes, accepted, granted, purged, crashes>>

PurgeAll(r) ==
  /\ Operators # {}
  /\ PersistBestEffort(r, EmptyQueue)
  /\ purged' = [purged EXCEPT ![r] = @ \cup InStage(mem[r], Stages \ {"none"})]
  /\ UNCHANGED <<drain, writes, accepted, granted, retired, crashes>>

\* purge_recipient: every record and the marker go; seqs and receipts stay.
Purge(r) ==
  /\ Operators # {}
  /\ InStage(mem[r], Stages \ {"none"}) # {} \/ mem[r].inflight # None
  /\ PersistBestEffort(r, [mem[r] EXCEPT !.inflight = None,
                                         !.slots = [s \in Seqs |-> EmptySlot]])
  /\ purged' = [purged EXCEPT ![r] = @ \cup InStage(mem[r], Stages \ {"none"})]
  /\ UNCHANGED <<drain, writes, accepted, granted, retired, crashes>>

\* The process dies between two steps and is started again.
Crash == Restart(disk) /\ UNCHANGED <<disk, history>>

\* The three public doors of enqueue_once: enqueue, enqueue_idempotent and
\* prepare_idempotent.
Doors == {<<Nil, "enqueued">>} \cup (Requests \X {"enqueued", "held"})

Produce(r) ==
  \E prio \in Priorities, door \in Doors, sig \in Signatures :
    \/ EnqueueReplay(r, door[1], sig)
    \/ Enqueue(r, prio, door[1], sig, door[2])
    \/ EnqueueRefused(r, prio, door[1], sig, door[2])
    \/ EnqueueCrash(r, prio, door[1], sig, door[2])

Next ==
  \/ \E r \in Recipients : Produce(r)
  \/ \E r \in Recipients, req \in Requests : Activate(r, req)
  \/ \E r \in Recipients, req \in Requests : ActivateReplay(r, req)
  \/ \E d \in Drainers, r \in Recipients : Claim(d, r)
  \/ \E d \in Drainers : Write(d)
  \/ \E d \in Drainers : WriteError(d)
  \/ \E d \in Drainers : Commit(d)
  \/ \E r \in Recipients, s \in Seqs : Ack(r, s)
  \/ \E r \in Recipients : Purge(r)
  \/ Crash

Spec == Init /\ [][Next]_vars

\* A drain is attempted again and again (turn boundaries recur), a drain that has
\* started runs to its end, and the terminal does not refuse every write forever.
Fairness ==
  /\ \A r \in Recipients : SF_vars(\E d \in Drainers : Claim(d, r))
  /\ \A d \in Drainers : SF_vars(Write(d)) /\ WF_vars(Commit(d))
                         /\ WF_vars(Write(d) \/ WriteError(d))

FairSpec == Spec /\ Fairness

-----------------------------------------------------------------------------
(* Properties.                                                             *)

TypeOK ==
  /\ mem \in [Recipients -> Queue]
  /\ disk \in [Recipients -> Queue]
  /\ drain \in [Drainers -> [phase : Phases, to : Recipients \cup {Nil},
                             seq : Seqs \cup {None}]]
  /\ \A d \in Drainers : drain[d].phase # "idle" =>
                            drain[d].to \in Recipients /\ drain[d].seq \in Seqs
  /\ writes \in [Recipients -> [Seqs -> Nat]]
  /\ accepted \in [Recipients -> SUBSET Seqs]
  /\ granted \in [Requests -> SUBSET (Recipients \X Seqs)]
  /\ retired \in [Recipients -> SUBSET Seqs]
  /\ purged \in [Recipients -> SUBSET Seqs]
  /\ crashes \in 0 .. MaxCrashes

\* Within one life of the process a message reaches the terminal at most once,
\* whatever drains, acks, purges and failed segment writes do around it: the
\* re-pick guard is the record's own state (inbox.rs: drain_one, head_enqueued).
AtMostOncePerBoot ==
  \A r \in Recipients, s \in Seqs : writes[r][s] <= 1

\* A message the producer was told is persisted is in memory and in its segment,
\* unless a recipient acknowledged it or an administrator flushed it; its seq is
\* behind the mint, so no later message can be given it (inbox.rs: enqueue_once).
Kept(q, r, s) ==
  /\ s < q.nextSeq
  /\ q.slots[s].stage # "none" \/ s \in retired[r] \cup purged[r]

NoSilentLoss ==
  \A r \in Recipients : \A s \in accepted[r] : Kept(mem[r], r, s) /\ Kept(disk[r], r, s)

\* Every Ok reply to a request id, before or after a restart, by whichever door and
\* from whichever caller, names the one same message (inbox.rs: enqueue_once,
\* activate_prepared).
OneMessagePerRequest ==
  \A q \in Requests : \A m, n \in granted[q] : m = n

\* A plain message still waiting is never behind a later one of its class, in memory
\* or in what a restart would read back.  (A prepared message takes its place in
\* the queue when it is activated.)
InOrder(q) ==
  \A s, t \in Seqs :
    /\ s < t
    /\ q.slots[s].req = Nil
    /\ q.slots[s].stage = "enqueued"
    /\ q.slots[t].prio = q.slots[s].prio
    => q.slots[t].stage \notin {"delivered", "processed"}

FifoWithinClass == \A r \in Recipients : InOrder(mem[r]) /\ InOrder(disk[r])

\* Standard traffic never fills more than max_depth places, Held ones included and
\* after any restart, so that Emergency alone can exceed the bound.
StandardDepthBounded ==
  \A r \in Recipients : \A q \in {mem[r], disk[r]} :
    Cardinality({s \in InStage(q, {"held", "enqueued", "delivered"}) :
                   q.slots[s].prio = "standard"}) <= MaxDepth

\* No message is written to the terminal once its Delivered mark is durable, not
\* even by a process that read the segment back after a crash.
WritesFreshOnly ==
  \A r \in Recipients, s \in Seqs :
    writes'[r][s] > writes[r][s]
      => disk[r].slots[s].stage \notin {"delivered", "processed"}

NeverRewriteDurablyDelivered == [][WritesFreshOnly]_vars

\* The published segments are the ledger the store's documentation promises, and
\* its Ok replies are the ledger's (inbox.rs: module documentation).
LedgerStatus(r, s) ==
  CASE s >= disk[r].nextSeq               -> "free"
    [] /\ s < disk[r].nextSeq
       /\ disk[r].slots[s].stage = "none" -> "gone"
    [] OTHER                              -> disk[r].slots[s].stage

Binding(q) ==
  IF \E r \in Recipients : disk[r].receipts[q].seq # None
  THEN LET r == CHOOSE x \in Recipients : disk[x].receipts[q].seq # None
       IN  <<r, disk[r].receipts[q].seq>>
  ELSE Nil

Ledger == INSTANCE ReceiptLedger
            WITH ledger  <- [r \in Recipients |-> [s \in Seqs |-> LedgerStatus(r, s)]],
                 bound   <- [q \in Requests |-> Binding(q)],
                 replies <- granted

ImplementsLedger == Ledger!Spec

\* Every deliverable message stops being so: it is written, or flushed.
EventuallyDelivered ==
  \A r \in Recipients, s \in Seqs :
    (mem[r].slots[s].stage = "enqueued") ~> (mem[r].slots[s].stage # "enqueued")
=============================================================================
