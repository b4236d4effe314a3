---------------------------- MODULE InboxProofs ----------------------------
(***************************************************************************)
(* Theorems of the durable inbox, for every set of recipients, requests,   *)
(* drainers and every bound.                                               *)
(***************************************************************************)
EXTENDS Inbox, FiniteSetTheorems, TLAPS

-----------------------------------------------------------------------------
(* What the queue operators return.                                        *)

LEMMA EmptyQueueType == EmptyQueue \in Queue
BY InboxAssumption DEF EmptyQueue, Queue, EmptySlot, NoReceipt, Slot, Receipt,
   Seqs, None, Stages, Priorities

LEMMA SetStageType ==
  ASSUME NEW q \in Queue, NEW s \in Seqs, NEW stage \in Stages
  PROVE  SetStage(q, s, stage) \in Queue
BY DEF SetStage, Queue, Slot

LEMMA PushType ==
  ASSUME NEW q \in Queue, q.nextSeq < MaxMessages, NEW prio \in Priorities,
         NEW req \in Requests \cup {Nil}, NEW sig \in Signatures, NEW stage \in Stages
  PROVE  Push(q, prio, req, sig, stage) \in Queue
<1>1. q.nextSeq \in Seqs /\ q.nextSeq + 1 \in 0 .. MaxMessages
  BY InboxAssumption DEF Queue, Seqs
<1>2. [stage |-> stage, prio |-> prio, req |-> req] \in Slot
  BY DEF Slot
<1>3. [x \in Requests |->
        IF x = req THEN [seq |-> q.nextSeq, sig |-> sig] ELSE q.receipts[x]]
          \in [Requests -> Receipt]
  BY <1>1 DEF Queue, Receipt
<1>. QED
  BY <1>1, <1>2, <1>3 DEF Push, Queue

LEMMA PopPushType ==
  ASSUME NEW q \in Queue, q.nextSeq < MaxMessages, NEW prio \in Priorities,
         NEW req \in Requests \cup {Nil}, NEW sig \in Signatures, NEW stage \in Stages
  PROVE  PopBack(Push(q, prio, req, sig, stage), q.nextSeq, req) \in Queue
<1>. DEFINE p == Push(q, prio, req, sig, stage)
<1>1. p \in Queue
  BY PushType
<1>2. q.nextSeq \in 0 .. MaxMessages /\ q.nextSeq \in Seqs
  BY InboxAssumption DEF Queue, Seqs
<1>3. EmptySlot \in Slot /\ NoReceipt \in Receipt
  BY DEF EmptySlot, NoReceipt, Slot, Receipt, Stages, Priorities
<1>4. [x \in Requests |-> IF x = req THEN NoReceipt ELSE p.receipts[x]]
        \in [Requests -> Receipt]
  BY <1>1, <1>3 DEF Queue
<1>. HIDE DEF p
<1>5. PopBack(p, q.nextSeq, req) \in Queue
  BY <1>1, <1>2, <1>3, <1>4 DEF PopBack, Queue
<1>. QED
  BY <1>5 DEF p

LEMMA CompactType ==
  ASSUME NEW q \in Queue
  PROVE  Compact(q) \in Queue
<1>1. EmptySlot \in Slot
  BY DEF EmptySlot, Slot, Stages, Priorities
<1>2. [s \in Seqs |-> IF Expired(q, s) THEN EmptySlot ELSE q.slots[s]] \in [Seqs -> Slot]
  BY <1>1 DEF Queue
<1>. QED
  BY <1>2 DEF Compact, Queue

LEMMA InflightType ==
  ASSUME NEW q \in Queue, NEW s \in Seqs \cup {None}
  PROVE  [q EXCEPT !.inflight = s] \in Queue
BY DEF Queue

LEMMA LoadType ==
  ASSUME NEW q \in Queue
  PROVE  Load(q) \in Queue
BY DEF Load, Queue

LEMMA FlushType ==
  ASSUME NEW q \in Queue
  PROVE  [q EXCEPT !.inflight = None, !.slots = [s \in Seqs |-> EmptySlot]] \in Queue
BY DEF Queue, EmptySlot, Slot, Stages, Priorities

LEMMA DeliveredType ==
  ASSUME NEW q \in Queue, NEW s \in Seqs
  PROVE  Delivered(q, s) \in Queue
<1>. DEFINE stage == IF q.slots[s].stage = "none" THEN "none" ELSE "delivered"
            p == SetStage(q, s, stage)
<1>1. p \in Queue
  BY SetStageType DEF Stages
<1>2. Delivered(q, s) = [p EXCEPT !.inflight = None,
                                  !.lastDrained = IF s >= @ THEN s ELSE @]
  BY DEF Delivered
<1>. HIDE DEF p
<1>. QED
  BY <1>1, <1>2 DEF Queue

-----------------------------------------------------------------------------
(* Type correctness.                                                       *)

LEMMA PersistType ==
  ASSUME TypeOK, NEW r \in Recipients, NEW q \in Queue, PersistBestEffort(r, q)
  PROVE  mem' \in [Recipients -> Queue] /\ disk' \in [Recipients -> Queue]
BY DEF PersistBestEffort, TypeOK

LEMMA RestartType ==
  ASSUME TypeOK, NEW d \in [Recipients -> Queue], Restart(d)
  PROVE  /\ mem' \in [Recipients -> Queue]
         /\ drain' = [x \in Drainers |-> Idle]
         /\ drain' \in [Drainers -> [phase : Phases, to : Recipients \cup {Nil},
                                     seq : Seqs \cup {None}]]
         /\ \A x \in Drainers : drain'[x].phase = "idle"
         /\ writes' \in [Recipients -> [Seqs -> Nat]]
         /\ crashes' \in 0 .. MaxCrashes
<1>1. mem' \in [Recipients -> Queue]
  BY LoadType DEF Restart
<1>2. Idle \in [phase : Phases, to : Recipients \cup {Nil}, seq : Seqs \cup {None}]
  BY DEF Idle, Phases
<1>3. Idle.phase = "idle"
  BY DEF Idle
<1>4. crashes' \in 0 .. MaxCrashes
  BY InboxAssumption DEF Restart, TypeOK
<1>. QED
  BY <1>1, <1>2, <1>3, <1>4 DEF Restart

LEMMA GrantType ==
  ASSUME TypeOK, NEW req, NEW r \in Recipients, NEW s \in Seqs, Grant(req, r, s)
  PROVE  /\ accepted' \in [Recipients -> SUBSET Seqs]
         /\ granted' \in [Requests -> SUBSET (Recipients \X Seqs)]
BY DEF Grant, TypeOK

LEMMA DoorType ==
  ASSUME NEW door \in Doors
  PROVE  door[1] \in Requests \cup {Nil} /\ door[2] \in {"enqueued", "held"}
         /\ door[2] \in Stages
BY DEF Doors, Stages

LEMMA InitTypeOK == Init => TypeOK
BY EmptyQueueType, InboxAssumption DEF Init, TypeOK, Idle, Phases

LEMMA StepTypeOK == TypeOK /\ [Next]_vars => TypeOK'
<1>. SUFFICES ASSUME TypeOK, [Next]_vars PROVE TypeOK'
  OBVIOUS
<1>. USE DEF TypeOK
<1>1. ASSUME NEW r \in Recipients, Produce(r) PROVE TypeOK'
  <2>0. PICK prio \in Priorities, door \in Doors, sig \in Signatures :
          \/ EnqueueReplay(r, door[1], sig)
          \/ Enqueue(r, prio, door[1], sig, door[2])
          \/ EnqueueRefused(r, prio, door[1], sig, door[2])
          \/ EnqueueCrash(r, prio, door[1], sig, door[2])
    BY <1>1 DEF Produce
  <2>. DEFINE req == door[1]
              stage == door[2]
              q == Push(mem[r], prio, req, sig, stage)
  <2>d. req \in Requests \cup {Nil} /\ stage \in Stages
    BY DoorType
  <2>a. ASSUME Admits(r, prio, req)
        PROVE  mem[r].nextSeq < MaxMessages /\ mem[r].nextSeq \in Seqs /\ q \in Queue
    <3>1. mem[r].nextSeq < MaxMessages /\ mem[r].nextSeq \in 0 .. MaxMessages
      BY <2>a DEF Admits, Queue
    <3>. QED
      BY <3>1, <2>d, PushType, InboxAssumption DEF Seqs
  <2>. HIDE DEF req, stage
  <2>1. CASE EnqueueReplay(r, req, sig)
    <3>1. mem[r].receipts[req].seq \in Seqs
      BY <2>1 DEF EnqueueReplay, BoundAt, Queue, Receipt
    <3>. QED
      BY <2>1, <3>1, GrantType DEF EnqueueReplay
  <2>2. CASE Enqueue(r, prio, req, sig, stage)
    <3>1. mem[r].nextSeq \in Seqs /\ q \in Queue
      BY <2>2, <2>a DEF Enqueue
    <3>2. /\ accepted' \in [Recipients -> SUBSET Seqs]
          /\ granted' \in [Requests -> SUBSET (Recipients \X Seqs)]
      BY <2>2, <3>1, GrantType DEF Enqueue
    <3>3. /\ mem' = [mem EXCEPT ![r] = q] /\ disk' = [disk EXCEPT ![r] = q]
          /\ UNCHANGED <<drain, writes, retired, purged, crashes>>
      BY <2>2 DEF Enqueue
    <3>. HIDE DEF q
    <3>4. mem' \in [Recipients -> Queue] /\ disk' \in [Recipients -> Queue]
      BY <3>1, <3>3
    <3>. QED
      BY <3>2, <3>3, <3>4
  <2>3. CASE EnqueueRefused(r, prio, req, sig, stage)
    <3>. DEFINE p == PopBack(q, mem[r].nextSeq, req)
    <3>1. p \in Queue
      BY <2>3, <2>a, <2>d, PopPushType DEF EnqueueRefused
    <3>2. mem' = [mem EXCEPT ![r] = p]
      BY <2>3 DEF EnqueueRefused
    <3>. HIDE DEF p
    <3>. QED
      BY <2>3, <3>1, <3>2 DEF EnqueueRefused, history
  <2>4. CASE EnqueueCrash(r, prio, req, sig, stage)
    <3>. DEFINE d == [disk EXCEPT ![r] = q]
    <3>0. q \in Queue
      BY <2>4, <2>a DEF EnqueueCrash
    <3>. HIDE DEF q
    <3>1. d \in [Recipients -> Queue]
      BY <3>0
    <3>2. disk' = d /\ Restart(d) /\ UNCHANGED history
      BY <2>4 DEF EnqueueCrash, q
    <3>. HIDE DEF d
    <3>. QED
      BY <3>1, <3>2, RestartType DEF history
  <2>. QED
    BY <2>0, <2>1, <2>2, <2>3, <2>4 DEF req, stage
<1>2. ASSUME NEW r \in Recipients, NEW req \in Requests, Activate(r, req) PROVE TypeOK'
  <2>. DEFINE s == mem[r].receipts[req].seq
              q == SetStage(mem[r], s, "enqueued")
              h == SetStage(q, s, "held")
  <2>1. s \in Seqs
    BY <1>2 DEF Activate, Queue, Receipt
  <2>2. q \in Queue /\ h \in Queue
    BY <2>1, SetStageType DEF Stages
  <2>3. \/ mem' = [mem EXCEPT ![r] = q] /\ disk' = [disk EXCEPT ![r] = q] /\ Grant(req, r, s)
        \/ mem' = [mem EXCEPT ![r] = h] /\ UNCHANGED <<disk, accepted, granted>>
    BY <1>2 DEF Activate
  <2>4. UNCHANGED <<drain, writes, retired, purged, crashes>>
    BY <1>2 DEF Activate
  <2>. HIDE DEF q, h, s
  <2>5. mem' \in [Recipients -> Queue] /\ disk' \in [Recipients -> Queue]
    BY <2>2, <2>3
  <2>6. /\ accepted' \in [Recipients -> SUBSET Seqs]
        /\ granted' \in [Requests -> SUBSET (Recipients \X Seqs)]
    BY <2>1, <2>3, GrantType
  <2>. QED
    BY <2>4, <2>5, <2>6
<1>3. ASSUME NEW r \in Recipients, NEW req \in Requests, ActivateReplay(r, req) PROVE TypeOK'
  <2>1. mem[r].receipts[req].seq \in Seqs
    BY <1>3 DEF ActivateReplay, Queue, Receipt
  <2>. QED
    BY <1>3, <2>1, GrantType DEF ActivateReplay
<1>4. ASSUME NEW d \in Drainers, NEW r \in Recipients, Claim(d, r) PROVE TypeOK'
  <2>0. PICK s \in Seqs :
          /\ PersistBestEffort(r, [mem[r] EXCEPT !.inflight = s])
          /\ drain' = [drain EXCEPT ![d] = [phase |-> "claimed", to |-> r, seq |-> s]]
    BY <1>4 DEF Claim
  <2>1. [mem[r] EXCEPT !.inflight = s] \in Queue
    BY InflightType
  <2>2. mem' \in [Recipients -> Queue] /\ disk' \in [Recipients -> Queue]
    BY <2>0, <2>1, PersistType
  <2>. QED
    BY <1>4, <2>0, <2>2 DEF Claim, history, Phases
<1>5. ASSUME NEW d \in Drainers, Write(d) PROVE TypeOK'
  <2>1. drain[d].to \in Recipients /\ drain[d].seq \in Seqs
    BY <1>5 DEF Write
  <2>2. writes' \in [Recipients -> [Seqs -> Nat]]
    BY <1>5, <2>1 DEF Write
  <2>3. /\ drain' \in [Drainers -> [phase : Phases, to : Recipients \cup {Nil},
                                    seq : Seqs \cup {None}]]
        /\ \A x \in Drainers : drain'[x].to = drain[x].to /\ drain'[x].seq = drain[x].seq
        /\ \A x \in Drainers : drain'[x].phase # "idle" => drain[x].phase # "idle"
    BY <1>5 DEF Write, Phases
  <2>4. UNCHANGED <<mem, disk, accepted, granted, retired, purged, crashes>>
    BY <1>5 DEF Write, history
  <2>. QED
    BY <2>2, <2>3, <2>4
<1>6. ASSUME NEW d \in Drainers, WriteError(d) PROVE TypeOK'
  BY <1>6 DEF WriteError, history, Phases
<1>7. ASSUME NEW d \in Drainers, Commit(d) PROVE TypeOK'
  <2>. DEFINE r == drain[d].to
              s == drain[d].seq
  <2>1. r \in Recipients /\ s \in Seqs
    BY <1>7 DEF Commit
  <2>2. Delivered(mem[r], s) \in Queue /\ [mem[r] EXCEPT !.inflight = None] \in Queue
    BY <2>1, DeliveredType, InflightType
  <2>3. mem' \in [Recipients -> Queue] /\ disk' \in [Recipients -> Queue]
    BY <1>7, <2>1, <2>2, PersistType DEF Commit
  <2>. QED
    BY <1>7, <2>3 DEF Commit, history, Idle, Phases
<1>8. ASSUME NEW r \in Recipients, NEW s \in Seqs, Ack(r, s) PROVE TypeOK'
  <2>1. Compact(SetStage(mem[r], s, "processed")) \in Queue
    BY SetStageType, CompactType DEF Stages
  <2>2. mem' \in [Recipients -> Queue] /\ disk' \in [Recipients -> Queue]
    BY <1>8, <2>1, PersistType DEF Ack
  <2>. QED
    BY <1>8, <2>2 DEF Ack
<1>9. ASSUME NEW r \in Recipients, Purge(r) PROVE TypeOK'
  <2>1. mem' \in [Recipients -> Queue] /\ disk' \in [Recipients -> Queue]
    BY <1>9, FlushType, PersistType DEF Purge
  <2>. QED
    BY <1>9, <2>1 DEF Purge, InStage
<1>10. CASE Crash
  <2>1. Restart(disk) /\ UNCHANGED <<disk, history>>
    BY <1>10 DEF Crash
  <2>. QED
    BY <2>1, RestartType DEF history
<1>11. CASE UNCHANGED vars
  BY <1>11 DEF vars
<1>. QED
  BY <1>1, <1>2, <1>3, <1>4, <1>5, <1>6, <1>7, <1>8, <1>9, <1>10, <1>11 DEF Next

\* The store's queues, segments and drains keep their shape whatever it is asked
\* (inbox.rs: every method of Inbox).
THEOREM TypeCorrect == Spec => []TypeOK
<1>. QED
  BY InitTypeOK, StepTypeOK, PTL DEF Spec

-----------------------------------------------------------------------------
(* Receipts.                                                               *)

ReceiptAt(q, req) == q.receipts[req].seq

\* Only enqueue_once touches the mint and the receipts, and it does so in memory and
\* on disk together; a request id is bound in one queue; a reply names its binding.
IndexSynced ==
  \A r \in Recipients :
    /\ mem[r].nextSeq = disk[r].nextSeq
    /\ \A req \in Requests : ReceiptAt(mem[r], req) = ReceiptAt(disk[r], req)

BoundOnce ==
  \A req \in Requests : \A x, y \in BoundAt(req) : x = y

GrantedIsBound ==
  \A req \in Requests, r \in Recipients, s \in Seqs :
    <<r, s>> \in granted[req] => ReceiptAt(mem[r], req) = s

ReceiptInv == TypeOK /\ IndexSynced /\ BoundOnce /\ GrantedIsBound

SameIndex(q, p) ==
  /\ q.nextSeq = p.nextSeq
  /\ \A req \in Requests : ReceiptAt(q, req) = ReceiptAt(p, req)

LEMMA SetStageIndex ==
  ASSUME NEW q \in Queue, NEW s \in Seqs, NEW stage \in Stages
  PROVE  SameIndex(SetStage(q, s, stage), q)
BY DEF SetStage, Queue, SameIndex, ReceiptAt

LEMMA CompactIndex ==
  ASSUME NEW q \in Queue
  PROVE  SameIndex(Compact(q), q)
BY DEF Compact, Queue, SameIndex, ReceiptAt

LEMMA InflightIndex ==
  ASSUME NEW q \in Queue, NEW s \in Seqs \cup {None}
  PROVE  SameIndex([q EXCEPT !.inflight = s], q)
BY DEF Queue, SameIndex, ReceiptAt

LEMMA LoadIndex ==
  ASSUME NEW q \in Queue
  PROVE  SameIndex(Load(q), q)
BY DEF Load, Queue, SameIndex, ReceiptAt

LEMMA FlushIndex ==
  ASSUME NEW q \in Queue
  PROVE  SameIndex([q EXCEPT !.inflight = None, !.slots = [s \in Seqs |-> EmptySlot]], q)
BY DEF Queue, SameIndex, ReceiptAt

LEMMA DeliveredIndex ==
  ASSUME NEW q \in Queue, NEW s \in Seqs
  PROVE  SameIndex(Delivered(q, s), q)
<1>. DEFINE stage == IF q.slots[s].stage = "none" THEN "none" ELSE "delivered"
            p == SetStage(q, s, stage)
<1>1. p \in Queue /\ SameIndex(p, q)
  BY SetStageType, SetStageIndex DEF Stages
<1>2. Delivered(q, s) = [p EXCEPT !.inflight = None,
                                  !.lastDrained = IF s >= @ THEN s ELSE @]
  BY DEF Delivered
<1>. HIDE DEF p
<1>. QED
  BY <1>1, <1>2 DEF Queue, SameIndex, ReceiptAt

LEMMA PushIndex ==
  ASSUME NEW q \in Queue, q.nextSeq < MaxMessages, NEW prio \in Priorities,
         NEW req \in Requests \cup {Nil}, NEW sig \in Signatures, NEW stage \in Stages
  PROVE  /\ Push(q, prio, req, sig, stage).nextSeq = q.nextSeq + 1
         /\ \A x \in Requests : ReceiptAt(Push(q, prio, req, sig, stage), x) =
                                  IF x = req THEN q.nextSeq ELSE ReceiptAt(q, x)
BY DEF Push, Queue, ReceiptAt

LEMMA PopPushIndex ==
  ASSUME NEW q \in Queue, q.nextSeq < MaxMessages, NEW prio \in Priorities,
         NEW req \in Requests \cup {Nil}, NEW sig \in Signatures, NEW stage \in Stages,
         req \in Requests => ReceiptAt(q, req) = None
  PROVE  SameIndex(PopBack(Push(q, prio, req, sig, stage), q.nextSeq, req), q)
<1>. DEFINE p == Push(q, prio, req, sig, stage)
<1>1. p \in Queue
  BY PushType
<1>2. \A x \in Requests : ReceiptAt(p, x) =
                            IF x = req THEN q.nextSeq ELSE ReceiptAt(q, x)
  BY PushIndex
<1>. HIDE DEF p
<1>3. SameIndex(PopBack(p, q.nextSeq, req), q)
  BY <1>1, <1>2 DEF PopBack, Queue, SameIndex, ReceiptAt, NoReceipt
<1>. QED
  BY <1>3 DEF p

\* A step that keeps the index of the queue it rewrites keeps the receipt invariant.
LEMMA QuietStep ==
  ASSUME ReceiptInv, TypeOK', NEW r \in Recipients, NEW q \in Queue, SameIndex(q, mem[r]),
         mem' = [mem EXCEPT ![r] = q],
         disk' \in {disk, [disk EXCEPT ![r] = q]}, granted' = granted
  PROVE  ReceiptInv'
<1>1. \A x \in Recipients : SameIndex(mem'[x], mem[x]) /\ SameIndex(disk'[x], disk[x])
  BY DEF ReceiptInv, IndexSynced, SameIndex, TypeOK
<1>2. IndexSynced'
  BY <1>1 DEF ReceiptInv, IndexSynced, SameIndex
<1>3. \A req \in Requests : BoundAt(req)' = BoundAt(req)
  BY <1>1 DEF BoundAt, SameIndex, ReceiptAt
<1>4. BoundOnce'
  BY <1>3 DEF ReceiptInv, BoundOnce
<1>5. GrantedIsBound'
  BY <1>1 DEF ReceiptInv, GrantedIsBound, SameIndex
<1>. QED
  BY <1>2, <1>4, <1>5 DEF ReceiptInv

LEMMA QuietPersist ==
  ASSUME ReceiptInv, TypeOK', NEW r \in Recipients, NEW q \in Queue, SameIndex(q, mem[r]),
         PersistBestEffort(r, q), granted' = granted
  PROVE  ReceiptInv'
BY QuietStep DEF PersistBestEffort

LEMMA NoneIsNoSeq == None \notin Seqs
BY InboxAssumption DEF None, Seqs

\* A reply that names the message the request id is bound to.
LEMMA ReplayStep ==
  ASSUME ReceiptInv, TypeOK', NEW r \in Recipients, NEW req \in Requests,
         Grant(req, r, ReceiptAt(mem[r], req)), mem' = mem, disk' = disk
  PROVE  ReceiptInv'
<1>1. GrantedIsBound'
  BY DEF ReceiptInv, GrantedIsBound, Grant, TypeOK
<1>2. IndexSynced' /\ BoundOnce'
  BY DEF ReceiptInv, IndexSynced, BoundOnce, BoundAt
<1>. QED
  BY <1>1, <1>2 DEF ReceiptInv

\* The push of a new message, in the segment and in the memory that survives.
LEMMA PushStep ==
  ASSUME ReceiptInv, TypeOK', NEW r \in Recipients, NEW prio \in Priorities,
         NEW req \in Requests \cup {Nil}, NEW sig \in Signatures, NEW stage \in Stages,
         Admits(r, prio, req),
         disk' = [disk EXCEPT ![r] = Push(mem[r], prio, req, sig, stage)],
         \A x \in Recipients : SameIndex(mem'[x], disk'[x]),
         \/ granted' = granted
         \/ Grant(req, r, mem[r].nextSeq)
  PROVE  ReceiptInv'
<1>. DEFINE p == Push(mem[r], prio, req, sig, stage)
<1>1. mem[r] \in Queue /\ mem[r].nextSeq < MaxMessages /\ mem[r].nextSeq \in Seqs
  <2>1. mem[r] \in Queue
    BY DEF ReceiptInv, TypeOK
  <2>2. mem[r].nextSeq < MaxMessages
    BY DEF Admits
  <2>. QED
    BY <2>1, <2>2, InboxAssumption DEF Queue, Seqs
<1>2. \A x \in Requests : ReceiptAt(p, x) =
                            IF x = req THEN mem[r].nextSeq ELSE ReceiptAt(mem[r], x)
  BY <1>1, PushIndex
<1>3. disk'[r] = p /\ \A x \in Recipients \ {r} : disk'[x] = disk[x]
  BY DEF ReceiptInv, TypeOK
<1>. HIDE DEF p
<1>4. \A x \in Recipients, q \in Requests :
        ReceiptAt(mem'[x], q) = IF x = r /\ q = req THEN mem[r].nextSeq
                                                   ELSE ReceiptAt(mem[x], q)
  BY <1>2, <1>3 DEF ReceiptInv, IndexSynced, SameIndex
<1>5. IndexSynced'
  BY DEF IndexSynced, SameIndex
<1>6. req \in Requests => \A x \in Recipients : ReceiptAt(mem[x], req) = None
  BY DEF Admits, BoundAt, ReceiptAt
<1>7. BoundOnce'
  <2>. SUFFICES ASSUME NEW q \in Requests, NEW x \in Recipients, NEW y \in Recipients,
                       ReceiptAt(mem'[x], q) # None, ReceiptAt(mem'[y], q) # None
                PROVE  x = y
    BY DEF BoundOnce, BoundAt, ReceiptAt
  <2>1. CASE q = req
    BY <2>1, <1>4, <1>6
  <2>2. CASE q # req
    <3>1. x \in BoundAt(q) /\ y \in BoundAt(q)
      BY <2>2, <1>4 DEF BoundAt, ReceiptAt
    <3>. QED
      BY <3>1 DEF ReceiptInv, BoundOnce
  <2>. QED
    BY <2>1, <2>2
<1>8. GrantedIsBound'
  <2>. SUFFICES ASSUME NEW q \in Requests, NEW x \in Recipients, NEW s \in Seqs,
                       <<x, s>> \in granted'[q]
                PROVE  ReceiptAt(mem'[x], q) = s
    BY DEF GrantedIsBound
  <2>1. <<x, s>> \in granted[q] \/ (q = req /\ x = r /\ s = mem[r].nextSeq)
    BY <1>1 DEF Grant, ReceiptInv, TypeOK
  <2>2. CASE <<x, s>> \in granted[q]
    <3>1. ReceiptAt(mem[x], q) = s
      BY <2>2 DEF ReceiptInv, GrantedIsBound
    <3>. QED
      BY <3>1, <1>4, <1>6, NoneIsNoSeq
  <2>. QED
    BY <2>1, <2>2, <1>4
<1>. QED
  BY <1>5, <1>7, <1>8 DEF ReceiptInv

LEMMA RestartIndex ==
  ASSUME NEW d \in [Recipients -> Queue], Restart(d)
  PROVE  \A r \in Recipients : SameIndex(mem'[r], d[r])
BY LoadIndex DEF Restart

LEMMA InitReceiptInv == Init => ReceiptInv
<1>. SUFFICES ASSUME Init PROVE ReceiptInv
  OBVIOUS
<1>1. \A r \in Recipients, req \in Requests : ReceiptAt(mem[r], req) = None
  BY DEF Init, ReceiptAt, EmptyQueue, NoReceipt
<1>2. IndexSynced
  BY DEF Init, IndexSynced
<1>3. BoundOnce
  BY <1>1 DEF BoundOnce, BoundAt, ReceiptAt
<1>4. GrantedIsBound
  BY DEF Init, GrantedIsBound
<1>. QED
  BY <1>2, <1>3, <1>4, InitTypeOK DEF ReceiptInv

LEMMA StepReceiptInv == ReceiptInv /\ [Next]_vars => ReceiptInv'
<1>. SUFFICES ASSUME ReceiptInv, [Next]_vars PROVE ReceiptInv'
  OBVIOUS
<1>t. TypeOK /\ TypeOK'
  BY StepTypeOK DEF ReceiptInv
<1>q. \A r \in Recipients : mem[r] \in Queue /\ disk[r] \in Queue
  BY <1>t DEF TypeOK
<1>1. ASSUME NEW r \in Recipients, Produce(r) PROVE ReceiptInv'
  <2>0. PICK prio \in Priorities, door \in Doors, sig \in Signatures :
          \/ EnqueueReplay(r, door[1], sig)
          \/ Enqueue(r, prio, door[1], sig, door[2])
          \/ EnqueueRefused(r, prio, door[1], sig, door[2])
          \/ EnqueueCrash(r, prio, door[1], sig, door[2])
    BY <1>1 DEF Produce
  <2>. DEFINE req == door[1]
              stage == door[2]
  <2>d. req \in Requests \cup {Nil} /\ stage \in Stages
    BY DoorType
  <2>. HIDE DEF req, stage
  <2>1. CASE EnqueueReplay(r, req, sig)
    BY <2>1, <1>t, ReplayStep DEF EnqueueReplay, ReceiptAt
  <2>2. CASE Enqueue(r, prio, req, sig, stage)
    <3>1. /\ mem' = [mem EXCEPT ![r] = Push(mem[r], prio, req, sig, stage)]
          /\ disk' = [disk EXCEPT ![r] = Push(mem[r], prio, req, sig, stage)]
          /\ Admits(r, prio, req) /\ Grant(req, r, mem[r].nextSeq)
      BY <2>2 DEF Enqueue
    <3>2. \A x \in Recipients : SameIndex(mem'[x], disk'[x])
      BY <3>1, <1>t DEF ReceiptInv, IndexSynced, SameIndex, TypeOK
    <3>. QED
      BY <3>1, <3>2, <2>d, <1>t, PushStep
  <2>3. CASE EnqueueRefused(r, prio, req, sig, stage)
    <3>. DEFINE p == PopBack(Push(mem[r], prio, req, sig, stage), mem[r].nextSeq, req)
    <3>1. Admits(r, prio, req) /\ mem' = [mem EXCEPT ![r] = p]
          /\ disk' = disk /\ granted' = granted
      BY <2>3 DEF EnqueueRefused, history
    <3>2. mem[r].nextSeq < MaxMessages /\ (req \in Requests => ReceiptAt(mem[r], req) = None)
      BY <3>1 DEF Admits, BoundAt, ReceiptAt
    <3>3. p \in Queue /\ SameIndex(p, mem[r])
      BY <3>2, <2>d, <1>q, PopPushType, PopPushIndex
    <3>. HIDE DEF p
    <3>. QED
      BY <3>1, <3>3, <1>t, QuietStep
  <2>4. CASE EnqueueCrash(r, prio, req, sig, stage)
    <3>. DEFINE p == Push(mem[r], prio, req, sig, stage)
                d == [disk EXCEPT ![r] = p]
    <3>1. Admits(r, prio, req) /\ disk' = d /\ Restart(d) /\ granted' = granted
      BY <2>4 DEF EnqueueCrash, history
    <3>2. d \in [Recipients -> Queue]
      BY <3>1, <1>t DEF TypeOK
    <3>3. \A x \in Recipients : SameIndex(mem'[x], disk'[x])
      BY <3>1, <3>2, RestartIndex
    <3>. QED
      BY <3>1, <3>3, <2>d, <1>t, PushStep
  <2>. QED
    BY <2>0, <2>1, <2>2, <2>3, <2>4 DEF req, stage
<1>2. ASSUME NEW r \in Recipients, NEW req \in Requests, Activate(r, req) PROVE ReceiptInv'
  <2>. DEFINE s == mem[r].receipts[req].seq
              q == SetStage(mem[r], s, "enqueued")
              h == SetStage(q, s, "held")
  <2>1. s \in Seqs
    BY <1>2, <1>q DEF Activate, Queue, Receipt
  <2>2. q \in Queue /\ SameIndex(q, mem[r])
    BY <2>1, <1>q, SetStageType, SetStageIndex DEF Stages
  <2>3. h \in Queue /\ SameIndex(h, mem[r])
    BY <2>1, <2>2, SetStageType, SetStageIndex DEF Stages, SameIndex
  <2>4. \/ mem' = [mem EXCEPT ![r] = q] /\ disk' = [disk EXCEPT ![r] = q] /\ Grant(req, r, s)
        \/ mem' = [mem EXCEPT ![r] = h] /\ disk' = disk /\ granted' = granted
    BY <1>2 DEF Activate
  <2>s. s = ReceiptAt(mem[r], req)
    BY DEF ReceiptAt
  <2>. HIDE DEF q, h, s
  <2>5. CASE mem' = [mem EXCEPT ![r] = h] /\ disk' = disk /\ granted' = granted
    BY <2>3, <2>5, <1>t, QuietStep
  <2>6. CASE mem' = [mem EXCEPT ![r] = q] /\ disk' = [disk EXCEPT ![r] = q] /\ Grant(req, r, s)
    <3>1. \A x \in Recipients : SameIndex(mem'[x], mem[x]) /\ SameIndex(disk'[x], disk[x])
      BY <2>2, <2>6, <1>t DEF ReceiptInv, IndexSynced, SameIndex, TypeOK
    <3>2. IndexSynced'
      BY <3>1 DEF ReceiptInv, IndexSynced, SameIndex
    <3>3. BoundOnce'
      <4>1. \A y \in Requests : BoundAt(y)' = BoundAt(y)
        BY <3>1 DEF BoundAt, SameIndex, ReceiptAt
      <4>. QED
        BY <4>1 DEF ReceiptInv, BoundOnce
    <3>4. GrantedIsBound'
      <4>. SUFFICES ASSUME NEW y \in Requests, NEW x \in Recipients, NEW z \in Seqs,
                           <<x, z>> \in granted'[y]
                    PROVE  ReceiptAt(mem'[x], y) = z
        BY DEF GrantedIsBound
      <4>1. <<x, z>> \in granted[y] \/ (y = req /\ x = r /\ z = s)
        BY <2>6 DEF Grant, ReceiptInv, TypeOK
      <4>. QED
        BY <4>1, <3>1, <2>s DEF ReceiptInv, GrantedIsBound, SameIndex
    <3>. QED
      BY <3>2, <3>3, <3>4, <1>t DEF ReceiptInv
  <2>. QED
    BY <2>4, <2>5, <2>6
<1>3. ASSUME NEW r \in Recipients, NEW req \in Requests, ActivateReplay(r, req)
      PROVE  ReceiptInv'
  BY <1>3, <1>t, ReplayStep DEF ActivateReplay, ReceiptAt
<1>4. ASSUME NEW d \in Drainers, NEW r \in Recipients, Claim(d, r) PROVE ReceiptInv'
  <2>1. PICK s \in Seqs : PersistBestEffort(r, [mem[r] EXCEPT !.inflight = s])
    BY <1>4 DEF Claim
  <2>2. granted' = granted
    BY <1>4 DEF Claim, history
  <2>. QED
    BY <2>1, <2>2, <1>t, <1>q, InflightType, InflightIndex, QuietPersist
<1>5. ASSUME NEW d \in Drainers, Write(d) \/ WriteError(d) PROVE ReceiptInv'
  BY <1>5, <1>t DEF Write, WriteError, history, ReceiptInv, IndexSynced, BoundOnce,
     BoundAt, GrantedIsBound
<1>6. ASSUME NEW d \in Drainers, Commit(d) PROVE ReceiptInv'
  <2>. DEFINE r == drain[d].to
              s == drain[d].seq
  <2>1. r \in Recipients /\ s \in Seqs
    BY <1>6, <1>t DEF Commit, TypeOK
  <2>2. \/ PersistBestEffort(r, Delivered(mem[r], s))
        \/ PersistBestEffort(r, [mem[r] EXCEPT !.inflight = None])
    BY <1>6 DEF Commit
  <2>3. granted' = granted
    BY <1>6 DEF Commit, history
  <2>. HIDE DEF r, s
  <2>. QED
    BY <2>1, <2>2, <2>3, <1>t, <1>q, DeliveredType, DeliveredIndex, InflightType,
       InflightIndex, QuietPersist
<1>7. ASSUME NEW r \in Recipients, NEW s \in Seqs, Ack(r, s) PROVE ReceiptInv'
  <2>. DEFINE q == SetStage(mem[r], s, "processed")
  <2>1. q \in Queue /\ SameIndex(q, mem[r])
    BY <1>q, SetStageType, SetStageIndex DEF Stages
  <2>2. PersistBestEffort(r, Compact(q)) /\ granted' = granted
    BY <1>7 DEF Ack
  <2>. HIDE DEF q
  <2>3. Compact(q) \in Queue /\ SameIndex(Compact(q), mem[r])
    BY <2>1, CompactType, CompactIndex DEF SameIndex
  <2>. QED
    BY <2>2, <2>3, <1>t, QuietPersist
<1>8. ASSUME NEW r \in Recipients, Purge(r) PROVE ReceiptInv'
  <2>1. granted' = granted
    BY <1>8 DEF Purge
  <2>. QED
    BY <1>8, <2>1, <1>t, <1>q, FlushType, FlushIndex, QuietPersist DEF Purge
<1>9. CASE Crash
  <2>1. Restart(disk) /\ disk' = disk /\ granted' = granted
    BY <1>9 DEF Crash, history
  <2>2. \A r \in Recipients : SameIndex(mem'[r], mem[r]) /\ SameIndex(mem'[r], disk[r])
    BY <2>1, <1>t, RestartIndex DEF TypeOK, ReceiptInv, IndexSynced, SameIndex
  <2>3. \A y \in Requests : BoundAt(y)' = BoundAt(y)
    BY <2>2 DEF BoundAt, SameIndex, ReceiptAt
  <2>. QED
    BY <2>1, <2>2, <2>3, <1>t DEF ReceiptInv, IndexSynced, SameIndex, BoundOnce,
       GrantedIsBound
<1>10. CASE UNCHANGED vars
  BY <1>10, <1>t DEF vars, ReceiptInv, IndexSynced, BoundOnce, BoundAt, GrantedIsBound
<1>. QED
  BY <1>1, <1>2, <1>3, <1>4, <1>5, <1>6, <1>7, <1>8, <1>9, <1>10 DEF Next

\* Whatever fails, restarts, is acknowledged or is flushed in between, a request id
\* never stands for two messages (inbox.rs: enqueue_once, activate_prepared).
THEOREM RequestsAreIdempotent == Spec => []OneMessagePerRequest
<1>1. ReceiptInv => OneMessagePerRequest
  <2>. SUFFICES ASSUME ReceiptInv, NEW q \in Requests, NEW m \in granted[q], NEW n \in granted[q]
                PROVE  m = n
    BY DEF OneMessagePerRequest
  <2>1. PICK r \in Recipients, s \in Seqs : m = <<r, s>>
    BY DEF ReceiptInv, TypeOK
  <2>2. PICK x \in Recipients, y \in Seqs : n = <<x, y>>
    BY DEF ReceiptInv, TypeOK
  <2>3. ReceiptAt(mem[r], q) = s /\ ReceiptAt(mem[x], q) = y
    BY <2>1, <2>2 DEF ReceiptInv, GrantedIsBound
  <2>4. r \in BoundAt(q) /\ x \in BoundAt(q)
    BY <2>3, NoneIsNoSeq DEF BoundAt, ReceiptAt
  <2>5. r = x
    BY <2>4 DEF ReceiptInv, BoundOnce
  <2>. QED
    BY <2>1, <2>2, <2>3, <2>5
<1>. QED
  BY <1>1, InitReceiptInv, StepReceiptInv, PTL DEF Spec

-----------------------------------------------------------------------------
(* Messages: what a queue, in memory or in its segment, says of them.      *)

\* One thread drains, as in the application, or nobody may flush a queue: a flush
\* clears the marker of a write under way, and a second drainer could then claim.
Solo == Operators = {} \/ \A d, e \in Drainers : d = e

\* How far a message can have come.
Reach(a, b) ==
  \/ a = b
  \/ b = "none"
  \/ a = "enqueued" /\ b \in {"delivered", "processed"}
  \/ a = "delivered" /\ b = "processed"
  \/ ~Solo /\ a = "processed" /\ b = "delivered"

\* Queue p is a later state of q that no message has entered.
Ages(p, q) ==
  /\ p.nextSeq = q.nextSeq
  /\ \A s \in Seqs :
       /\ Reach(q.slots[s].stage, p.slots[s].stage)
       /\ p.slots[s].stage # "none" =>
            p.slots[s].prio = q.slots[s].prio /\ p.slots[s].req = q.slots[s].req

\* A plain message of t's class waits before t.
Overtakes(q, t) ==
  \E s \in Seqs : /\ s < t
                  /\ q.slots[s].stage = "enqueued"
                  /\ q.slots[s].req = Nil
                  /\ q.slots[s].prio = q.slots[t].prio

StandardOpen(q) ==
  {s \in InStage(q, {"held", "enqueued", "delivered"}) : q.slots[s].prio = "standard"}

\* Nothing lies ahead of the mint, only a request's message is held, what was minted
\* is there or was retired or flushed, and order and depth are kept.
Minted(q)   == \A s \in Seqs : q.slots[s].stage # "none" => s < q.nextSeq
HeldHasId(q) == \A s \in Seqs : q.slots[s].stage = "held" => q.slots[s].req # Nil
Accounted(q, acc, ret, pur) ==
  /\ \A s \in acc : s < q.nextSeq
  /\ \A s \in Seqs : s < q.nextSeq => q.slots[s].stage # "none" \/ s \in ret \cup pur
  /\ \A s \in Seqs : q.slots[s].stage = "processed" => s \in ret
Shallow(q)  == Solo => Cardinality(StandardOpen(q)) <= MaxDepth

Sound(q, acc, ret, pur) ==
  Minted(q) /\ HeldHasId(q) /\ Accounted(q, acc, ret, pur) /\ InOrder(q) /\ Shallow(q)

\* A segment is an earlier state of its queue.
Stored ==
  \A r \in Recipients :
    /\ Sound(mem[r], accepted[r], retired[r], purged[r])
    /\ Sound(disk[r], accepted[r], retired[r], purged[r])
    /\ Ages(mem[r], disk[r])

Busy(d) == drain[d].phase # "idle"

\* What a drain knows of the message it has cloned and not yet committed.
Owns(b, q, f) ==
  LET s == b.seq IN
  /\ s < q.nextSeq
  /\ q.slots[s].stage # "none" => q.slots[s].stage # "held" /\ ~Overtakes(q, s)
  /\ Solo => q.slots[s].stage \in {"none", "enqueued"} /\ f.slots[s].stage \in {"none", "enqueued"}
  /\ Operators = {} => q.inflight = s

Owned ==
  /\ \A d \in Drainers : Busy(d) => Owns(drain[d], mem[drain[d].to], disk[drain[d].to])
  /\ Solo => \A d, e \in Drainers : Busy(d) /\ Busy(e) /\ drain[d].to = drain[e].to => d = e

\* A write is under way, or its message is past waiting.
Accountable(r, s) ==
  \/ \E d \in Drainers : drain[d].phase = "written" /\ drain[d].to = r /\ drain[d].seq = s
  \/ mem[r].slots[s].stage \notin {"held", "enqueued"}

Counted ==
  Solo =>
    /\ \A r \in Recipients, s \in Seqs :
         writes[r][s] # 0 => writes[r][s] = 1 /\ s < mem[r].nextSeq /\ Accountable(r, s)
    /\ \A d \in Drainers : drain[d].phase \in {"claimed", "failed"} => writes[drain[d].to][drain[d].seq] = 0

\* No receipt names a message that was never minted.
ReceiptsMinted ==
  \A r \in Recipients, req \in Requests : ReceiptAt(mem[r], req) < mem[r].nextSeq

MessageInv == ReceiptInv /\ ReceiptsMinted /\ Stored /\ Owned /\ Counted

-----------------------------------------------------------------------------
(* What the operators on a queue do to its messages.                       *)

LEMMA AgesSelf == ASSUME NEW q \in Queue PROVE Ages(q, q)
BY DEF Ages, Reach

LEMMA AgesOn ==
  ASSUME NEW q \in Queue, NEW p \in Queue, NEW o \in Queue, Ages(p, q), Ages(o, p)
  PROVE  Ages(o, q)
<1>1. o.nextSeq = q.nextSeq
  BY DEF Ages
<1>2. ASSUME NEW s \in Seqs
      PROVE  /\ Reach(q.slots[s].stage, o.slots[s].stage)
             /\ o.slots[s].stage # "none" =>
                  o.slots[s].prio = q.slots[s].prio /\ o.slots[s].req = q.slots[s].req
  <2>1. Reach(q.slots[s].stage, p.slots[s].stage) /\ Reach(p.slots[s].stage, o.slots[s].stage)
    BY DEF Ages
  <2>2. Reach(q.slots[s].stage, o.slots[s].stage)
    BY <2>1 DEF Reach
  <2>3. o.slots[s].stage # "none" => p.slots[s].stage # "none"
    BY <2>1 DEF Reach
  <2> QED BY <2>2, <2>3 DEF Ages
<1> QED BY <1>1, <1>2 DEF Ages

LEMMA SeqsFinite == IsFiniteSet(Seqs)
<1>1. 0 \in Int /\ MaxMessages - 1 \in Int
  BY InboxAssumption
<1> QED BY <1>1, FS_Interval DEF Seqs

LEMMA OpenFinite ==
  ASSUME NEW q \in Queue
  PROVE  IsFiniteSet(OpenRecords(q)) /\ IsFiniteSet(StandardOpen(q))
BY SeqsFinite, FS_Subset DEF OpenRecords, StandardOpen, InStage

\* A queue that only ages stays sound when what leaves it was retired or flushed, and
\* what is delivered overtakes nobody.
LEMMA AgedSound ==
  ASSUME NEW q \in Queue, NEW p \in Queue, NEW acc \in SUBSET Seqs,
         NEW ret \in SUBSET Seqs, NEW pur \in SUBSET Seqs,
         NEW ret2 \in SUBSET Seqs, NEW pur2 \in SUBSET Seqs,
         ret \subseteq ret2, pur \subseteq pur2,
         Sound(q, acc, ret, pur), Ages(p, q),
         \A s \in Seqs : p.slots[s].stage = "processed" => q.slots[s].stage = "processed" \/ s \in ret2,
         \A s \in Seqs : p.slots[s].stage = "none" =>
                          q.slots[s].stage = "none" \/ s \in ret2 \cup pur2,
         \A s \in Seqs : q.slots[s].stage = "enqueued" /\ p.slots[s].stage \in {"delivered", "processed"}
                           => ~Overtakes(q, s)
  PROVE  Sound(p, acc, ret2, pur2)
<1>1. Minted(p)
  BY DEF Sound, Minted, Ages, Reach
<1>2. HeldHasId(p)
  BY DEF Sound, HeldHasId, Ages, Reach
<1>3. Accounted(p, acc, ret2, pur2)
  BY DEF Sound, Accounted, Ages
<1>4. InOrder(p)
  <2> SUFFICES ASSUME NEW s \in Seqs, NEW t \in Seqs, s < t, p.slots[s].req = Nil,
                      p.slots[s].stage = "enqueued", p.slots[t].prio = p.slots[s].prio,
                      p.slots[t].stage \in {"delivered", "processed"}
               PROVE  FALSE
    BY DEF InOrder
  <2>1. q.slots[s].stage = "enqueued" /\ q.slots[s].req = Nil
    BY DEF Ages, Reach
  <2>2. q.slots[s].prio = q.slots[t].prio
    BY DEF Ages
  <2>3. q.slots[t].stage \in {"enqueued", "delivered", "processed"}
    BY DEF Ages, Reach
  <2>4. q.slots[t].stage = "enqueued"
    BY <2>1, <2>2, <2>3 DEF Sound, InOrder
  <2> QED BY <2>1, <2>2, <2>4 DEF Overtakes
<1>5. Shallow(p)
  <2> SUFFICES ASSUME Solo PROVE Cardinality(StandardOpen(p)) <= MaxDepth
    BY DEF Shallow
  <2>1. StandardOpen(p) \subseteq StandardOpen(q)
    BY DEF StandardOpen, InStage, Ages, Reach
  <2>2. Cardinality(StandardOpen(q)) <= MaxDepth
    BY DEF Sound, Shallow
  <2>3. Cardinality(StandardOpen(p)) <= Cardinality(StandardOpen(q))
    BY <2>1, OpenFinite, FS_Subset
  <2>4. Cardinality(StandardOpen(p)) \in Nat /\ Cardinality(StandardOpen(q)) \in Nat
    BY OpenFinite, FS_CardinalityType
  <2> QED BY <2>2, <2>3, <2>4, InboxAssumption
<1> QED BY <1>1, <1>2, <1>3, <1>4, <1>5 DEF Sound

\* What retire and flush more leaves a queue sound.
LEMMA LaterSound ==
  ASSUME NEW q \in Queue, NEW acc \in SUBSET Seqs,
         NEW ret \in SUBSET Seqs, NEW pur \in SUBSET Seqs,
         NEW ret2 \in SUBSET Seqs, NEW pur2 \in SUBSET Seqs,
         ret \subseteq ret2, pur \subseteq pur2, Sound(q, acc, ret, pur)
  PROVE  Sound(q, acc, ret2, pur2)
BY DEF Sound, Accounted

\* The queues and their segments after a step of r's queue that only ages it.
LEMMA AgeStep ==
  ASSUME TypeOK, TypeOK', Stored, NEW r \in Recipients, NEW p \in Queue, Ages(p, mem[r]),
         mem' = [mem EXCEPT ![r] = p], disk' \in {disk, [disk EXCEPT ![r] = p]},
         accepted' = accepted,
         \A x \in Recipients : retired[x] \subseteq retired'[x] /\ purged[x] \subseteq purged'[x],
         \A s \in Seqs : p.slots[s].stage = "processed" =>
                          mem[r].slots[s].stage = "processed" \/ s \in retired'[r],
         \A s \in Seqs : p.slots[s].stage = "none" =>
                          mem[r].slots[s].stage = "none" \/ s \in retired'[r] \cup purged'[r],
         \A s \in Seqs : mem[r].slots[s].stage = "enqueued" /\ p.slots[s].stage \in {"delivered", "processed"}
                           => ~Overtakes(mem[r], s)
  PROVE  Stored'
<1> SUFFICES ASSUME NEW x \in Recipients
             PROVE  /\ Sound(mem'[x], accepted'[x], retired'[x], purged'[x])
                    /\ Sound(disk'[x], accepted'[x], retired'[x], purged'[x])
                    /\ Ages(mem'[x], disk'[x])
  BY DEF Stored
<1>1. /\ mem[x] \in Queue /\ disk[x] \in Queue /\ accepted[x] \in SUBSET Seqs
      /\ retired[x] \in SUBSET Seqs /\ purged[x] \in SUBSET Seqs
      /\ retired'[x] \in SUBSET Seqs /\ purged'[x] \in SUBSET Seqs
      /\ retired[x] \subseteq retired'[x] /\ purged[x] \subseteq purged'[x]
  BY DEF TypeOK
<1>2. /\ Sound(mem[x], accepted[x], retired[x], purged[x])
      /\ Sound(disk[x], accepted[x], retired[x], purged[x])
      /\ Ages(mem[x], disk[x])
  BY DEF Stored
<1>3. /\ Sound(mem[x], accepted[x], retired'[x], purged'[x])
      /\ Sound(disk[x], accepted[x], retired'[x], purged'[x])
  BY <1>1, <1>2, LaterSound
<1>4. x # r => mem'[x] = mem[x] /\ disk'[x] = disk[x]
  BY DEF TypeOK
<1>5. CASE x = r
  <2>1. mem'[x] = p /\ (disk'[x] = disk[x] \/ disk'[x] = p)
    BY <1>5 DEF TypeOK
  <2>2. Sound(p, accepted[x], retired'[x], purged'[x])
    BY <1>1, <1>2, <1>5, AgedSound
  <2>3. Ages(p, p) /\ Ages(p, disk[x])
    BY <1>1, <1>2, <1>5, AgesSelf, AgesOn
  <2> QED BY <1>3, <2>1, <2>2, <2>3
<1> QED BY <1>2, <1>3, <1>4, <1>5

\* Nothing that waits is delivered by a step from q to p.
Calm(p, q) ==
  \A s \in Seqs : p.slots[s].stage # "none" /\ q.slots[s].stage \in {"held", "enqueued"}
                    => p.slots[s].stage = q.slots[s].stage

\* Queue p is q but for the stage of s.
Restaged(p, q, s, stage) ==
  /\ p.nextSeq = q.nextSeq /\ p.inflight = q.inflight
  /\ \A t \in Seqs : /\ p.slots[t].stage = IF t = s THEN stage ELSE q.slots[t].stage
                     /\ p.slots[t].prio = q.slots[t].prio
                     /\ p.slots[t].req = q.slots[t].req

LEMMA SetStageSlots ==
  ASSUME NEW q \in Queue, NEW s \in Seqs, NEW stage \in Stages,
         NEW p, p = SetStage(q, s, stage)
  PROVE  Restaged(p, q, s, stage)
BY DEF SetStage, Queue, Slot, Restaged

LEMMA InflightAges ==
  ASSUME NEW q \in Queue, NEW s \in Seqs \cup {None}, NEW p, p = [q EXCEPT !.inflight = s]
  PROVE  p.inflight = s /\ p.slots = q.slots /\ p.nextSeq = q.nextSeq /\ Ages(p, q) /\ Calm(p, q)
<1>1. p.inflight = s /\ p.slots = q.slots /\ p.nextSeq = q.nextSeq
  BY DEF Queue
<1> QED BY <1>1 DEF Ages, Reach, Calm

LEMMA FlushAges ==
  ASSUME NEW q \in Queue,
         NEW p, p = [q EXCEPT !.inflight = None, !.slots = [s \in Seqs |-> EmptySlot]]
  PROVE  Ages(p, q) /\ Calm(p, q) /\ \A s \in Seqs : p.slots[s].stage = "none"
<1>1. p.nextSeq = q.nextSeq /\ \A s \in Seqs : p.slots[s] = EmptySlot
  BY DEF Queue
<1>2. \A s \in Seqs : p.slots[s].stage = "none"
  BY <1>1 DEF EmptySlot
<1> QED BY <1>1, <1>2 DEF Ages, Reach, Calm

LEMMA CompactSlots ==
  ASSUME NEW q \in Queue, NEW p, p = Compact(q)
  PROVE  /\ p.nextSeq = q.nextSeq /\ p.inflight = q.inflight
         /\ \A s \in Seqs : \/ p.slots[s] = q.slots[s]
                            \/ q.slots[s].stage = "processed" /\ p.slots[s].stage = "none"
<1>1. /\ p.nextSeq = q.nextSeq /\ p.inflight = q.inflight
      /\ \A s \in Seqs : p.slots[s] = IF Expired(q, s) THEN EmptySlot ELSE q.slots[s]
  BY DEF Compact, Queue
<1>2. \A s \in Seqs : Expired(q, s) => q.slots[s].stage = "processed"
  BY DEF Expired
<1> QED BY <1>1, <1>2 DEF EmptySlot

LEMMA AckAges ==
  ASSUME NEW q \in Queue, NEW s \in Seqs, q.slots[s].stage = "delivered",
         NEW p, p = Compact(SetStage(q, s, "processed"))
  PROVE  /\ Ages(p, q) /\ Calm(p, q) /\ p.inflight = q.inflight
         /\ \A t \in Seqs : /\ p.slots[t].stage = "processed" => q.slots[t].stage = "processed" \/ t = s
                            /\ p.slots[t].stage = "none" => q.slots[t].stage \in {"none", "processed"} \/ t = s
                            /\ q.slots[t].stage = "enqueued" => p.slots[t].stage = "enqueued"
<1>1. PICK o : o = SetStage(q, s, "processed")
  OBVIOUS
<1>2. o \in Queue
  BY <1>1, SetStageType DEF Stages
<1>3. /\ o.nextSeq = q.nextSeq /\ o.inflight = q.inflight
      /\ \A t \in Seqs : /\ o.slots[t].stage = IF t = s THEN "processed" ELSE q.slots[t].stage
                         /\ o.slots[t].prio = q.slots[t].prio
                         /\ o.slots[t].req = q.slots[t].req
  <2>1. Restaged(o, q, s, "processed")
    BY <1>1, SetStageSlots DEF Stages
  <2> QED BY <2>1 DEF Restaged
<1>4. p = Compact(o)
  BY <1>1
<1>5. /\ p.nextSeq = o.nextSeq /\ p.inflight = o.inflight
      /\ \A t \in Seqs : \/ p.slots[t] = o.slots[t]
                         \/ o.slots[t].stage = "processed" /\ p.slots[t].stage = "none"
  BY <1>2, <1>4, CompactSlots
<1>6. Ages(p, q)
  BY <1>3, <1>5 DEF Ages, Reach
<1>7. Calm(p, q)
  BY <1>3, <1>5 DEF Calm
<1> QED BY <1>3, <1>5, <1>6, <1>7

LEMMA DeliveredAges ==
  ASSUME NEW q \in Queue, NEW s \in Seqs, q.slots[s].stage # "held",
         Solo => q.slots[s].stage \in {"none", "enqueued"},
         NEW p, p = Delivered(q, s)
  PROVE  /\ Ages(p, q) /\ p.slots[s].stage \in {"none", "delivered"}
         /\ p.slots[s].stage = "none" <=> q.slots[s].stage = "none"
         /\ \A t \in Seqs \ {s} : p.slots[t].stage = q.slots[t].stage
<1>1. PICK stage \in Stages : stage = IF q.slots[s].stage = "none" THEN "none" ELSE "delivered"
  BY DEF Stages
<1>2. PICK o : o = SetStage(q, s, stage)
  OBVIOUS
<1>3. o \in Queue
  BY <1>2, SetStageType
<1>4. /\ o.nextSeq = q.nextSeq
      /\ \A t \in Seqs : /\ o.slots[t].stage = IF t = s THEN stage ELSE q.slots[t].stage
                         /\ o.slots[t].prio = q.slots[t].prio
                         /\ o.slots[t].req = q.slots[t].req
  <2>1. Restaged(o, q, s, stage)
    BY <1>2, SetStageSlots
  <2> QED BY <2>1 DEF Restaged
<1>5. p = [o EXCEPT !.inflight = None, !.lastDrained = IF s >= @ THEN s ELSE @]
  BY <1>1, <1>2 DEF Delivered
<1>6. p.nextSeq = o.nextSeq /\ p.slots = o.slots
  BY <1>3, <1>5 DEF Queue
<1>7. Ages(p, q)
  <2>1. Reach(q.slots[s].stage, stage)
    <3>1. q.slots[s].stage \in Stages
      BY DEF Queue, Slot
    <3> QED BY <1>1, <3>1 DEF Reach, Stages
  <2>2. \A t \in Seqs \ {s} : Reach(q.slots[t].stage, p.slots[t].stage)
    BY <1>4, <1>6 DEF Reach
  <2> QED BY <1>4, <1>6, <2>1, <2>2 DEF Ages
<1> QED BY <1>1, <1>4, <1>6, <1>7

LEMMA PopPushAges ==
  ASSUME NEW q \in Queue, q.nextSeq < MaxMessages, NEW prio \in Priorities,
         NEW req \in Requests \cup {Nil}, NEW sig \in Signatures, NEW stage \in Stages,
         Minted(q), NEW p, p = PopBack(Push(q, prio, req, sig, stage), q.nextSeq, req)
  PROVE  /\ Ages(p, q) /\ Calm(p, q) /\ p.inflight = q.inflight
         /\ \A s \in Seqs : p.slots[s].stage = q.slots[s].stage
<1>1. PICK o : o = Push(q, prio, req, sig, stage)
  OBVIOUS
<1>2. o \in Queue
  BY <1>1, PushType
<1>3. q.nextSeq \in Seqs /\ q.slots[q.nextSeq].stage = "none"
  <2>1. q.nextSeq \in Seqs
    BY InboxAssumption DEF Queue, Seqs
  <2>2. ~(q.nextSeq < q.nextSeq)
    BY <2>1 DEF Seqs
  <2> QED BY <2>1, <2>2 DEF Minted
<1>4. o.inflight = q.inflight /\ \A s \in Seqs \ {q.nextSeq} : o.slots[s] = q.slots[s]
  BY <1>1, <1>3 DEF Push, Queue
<1>5. PICK n \in Seqs : n = q.nextSeq
  BY <1>3
<1>6. p = PopBack(o, n, req)
  BY <1>1, <1>5
<1>7. /\ p.nextSeq = n /\ p.inflight = o.inflight /\ p.slots[n] = EmptySlot
      /\ \A s \in Seqs \ {n} : p.slots[s] = o.slots[s]
  <2>1. PICK R : p = [o EXCEPT !.nextSeq = n, !.slots[n] = EmptySlot, !.receipts = R]
    BY <1>6 DEF PopBack
  <2>2. o.slots \in [Seqs -> Slot] /\ p.slots = [o.slots EXCEPT ![n] = EmptySlot]
    BY <1>2, <2>1 DEF Queue
  <2>3. p.nextSeq = n /\ p.inflight = o.inflight
    BY <1>2, <2>1 DEF Queue
  <2> QED BY <2>2, <2>3
<1>8. \A s \in Seqs \ {n} : p.slots[s] = q.slots[s]
  BY <1>4, <1>5, <1>7
<1>9. p.slots[n].stage = "none" /\ q.slots[n].stage = "none"
  BY <1>3, <1>5, <1>7 DEF EmptySlot
<1>10. Ages(p, q)
  BY <1>5, <1>7, <1>8, <1>9 DEF Ages, Reach
<1>11. Calm(p, q)
  BY <1>8, <1>9 DEF Calm
<1> QED BY <1>4, <1>7, <1>8, <1>9, <1>10, <1>11

-----------------------------------------------------------------------------
(* Steps that only age a queue: refusals, claims, commits, acks, flushes.  *)

LEMMA OwnsAges ==
  ASSUME NEW q \in Queue, NEW p \in Queue, NEW f \in Queue, NEW g \in Queue,
         NEW b, b.seq \in Seqs, Owns(b, q, f), Ages(p, q),
         Solo => Calm(p, q) /\ g \in {f, p},
         Operators = {} => p.inflight = q.inflight
  PROVE  Owns(b, p, g)
<1>1. PICK s \in Seqs : s = b.seq
  OBVIOUS
<1>2. /\ s < q.nextSeq
      /\ q.slots[s].stage # "none" => q.slots[s].stage # "held" /\ ~Overtakes(q, s)
      /\ Solo => q.slots[s].stage \in {"none", "enqueued"} /\ f.slots[s].stage \in {"none", "enqueued"}
      /\ Operators = {} => q.inflight = s
  BY <1>1 DEF Owns
<1>3. s < p.nextSeq
  BY <1>2 DEF Ages
<1>4. p.slots[s].stage # "none" => q.slots[s].stage # "none" /\ p.slots[s].stage # "held"
  BY <1>2 DEF Ages, Reach
<1>5. p.slots[s].stage # "none" => ~Overtakes(p, s)
  <2> SUFFICES ASSUME p.slots[s].stage # "none", NEW t \in Seqs, t < s,
                      p.slots[t].stage = "enqueued", p.slots[t].req = Nil,
                      p.slots[t].prio = p.slots[s].prio
               PROVE  FALSE
    BY DEF Overtakes
  <2>1. q.slots[t].stage = "enqueued" /\ q.slots[t].req = Nil /\ q.slots[t].prio = q.slots[s].prio
    BY DEF Ages, Reach
  <2>2. q.slots[s].stage # "none"
    BY <1>4
  <2> QED BY <1>2, <2>1, <2>2 DEF Overtakes
<1>6. Solo => p.slots[s].stage \in {"none", "enqueued"}
  BY <1>2, <1>4 DEF Calm
<1>7. Solo => g.slots[s].stage \in {"none", "enqueued"}
  BY <1>2, <1>6
<1> QED BY <1>1, <1>2, <1>3, <1>4, <1>5, <1>6, <1>7 DEF Owns

\* Where r's queue becomes p, the others stay and r's segment follows or not.
LEMMA OneQueue ==
  ASSUME TypeOK, NEW r \in Recipients, NEW p,
         mem' = [mem EXCEPT ![r] = p], disk' \in {disk, [disk EXCEPT ![r] = p]}
  PROVE  /\ mem'[r] = p /\ disk'[r] \in {disk[r], p}
         /\ \A x \in Recipients \ {r} : mem'[x] = mem[x] /\ disk'[x] = disk[x]
BY DEF TypeOK

LEMMA CalmDrains ==
  ASSUME TypeOK, TypeOK', Owned, Counted, NEW r \in Recipients, NEW p \in Queue,
         Ages(p, mem[r]), Calm(p, mem[r]), Operators = {} => p.inflight = mem[r].inflight,
         mem' = [mem EXCEPT ![r] = p], disk' \in {disk, [disk EXCEPT ![r] = p]},
         drain' = drain, writes' = writes
  PROVE  Owned' /\ Counted'
<1>1. /\ mem'[r] = p /\ disk'[r] \in {disk[r], p}
      /\ \A x \in Recipients \ {r} : mem'[x] = mem[x] /\ disk'[x] = disk[x]
  BY OneQueue
<1>2. ASSUME NEW d \in Drainers, Busy(d)
      PROVE  Owns(drain[d], mem'[drain[d].to], disk'[drain[d].to])
  <2>1. drain[d].to \in Recipients /\ drain[d].seq \in Seqs
    BY <1>2 DEF TypeOK, Busy
  <2>2. Owns(drain[d], mem[drain[d].to], disk[drain[d].to])
    BY <1>2 DEF Owned
  <2>3. CASE drain[d].to = r
    <3>1. PICK b, g : b = drain[d] /\ g = disk'[r]
      OBVIOUS
    <3>2. /\ mem[r] \in Queue /\ disk[r] \in Queue /\ g \in Queue /\ b.seq \in Seqs
          /\ Owns(b, mem[r], disk[r]) /\ g \in {disk[r], p}
      BY <1>1, <2>1, <2>2, <2>3, <3>1 DEF TypeOK
    <3>3. Owns(b, p, g)
      BY <3>2, OwnsAges
    <3> QED BY <1>1, <2>3, <3>1, <3>3
  <2> QED BY <1>1, <2>1, <2>2, <2>3
<1>3. Owned'
  BY <1>2 DEF Owned, Busy
<1>4. ASSUME NEW x \in Recipients, NEW s \in Seqs
      PROVE  /\ mem'[x].nextSeq = mem[x].nextSeq
             /\ mem[x].slots[s].stage \notin {"held", "enqueued"} => mem'[x].slots[s].stage \notin {"held", "enqueued"}
  BY <1>1 DEF Ages, Reach
<1>5. Counted'
  BY <1>4 DEF Counted, Accountable
<1> QED BY <1>3, <1>5

-----------------------------------------------------------------------------
(* Steps by which a message enters or becomes deliverable.                 *)

LEMMA PushSlots ==
  ASSUME NEW q \in Queue, q.nextSeq < MaxMessages, NEW prio \in Priorities,
         NEW req \in Requests \cup {Nil}, NEW sig \in Signatures, NEW stage \in Stages,
         NEW p, p = Push(q, prio, req, sig, stage)
  PROVE  /\ q.nextSeq \in Seqs /\ p.nextSeq = q.nextSeq + 1 /\ p.inflight = q.inflight
         /\ p.slots[q.nextSeq] = [stage |-> stage, prio |-> prio, req |-> req]
         /\ \A s \in Seqs \ {q.nextSeq} : p.slots[s] = q.slots[s]
<1>1. q.nextSeq \in Seqs
  BY InboxAssumption DEF Queue, Seqs
<1>2. PICK n \in Seqs : n = q.nextSeq
  BY <1>1
<1>3. PICK R : p = [q EXCEPT !.nextSeq = n + 1,
                             !.slots[n] = [stage |-> stage, prio |-> prio, req |-> req],
                             !.receipts = R]
  BY <1>2 DEF Push
<1>4. q.slots \in [Seqs -> Slot]
      /\ p.slots = [q.slots EXCEPT ![n] = [stage |-> stage, prio |-> prio, req |-> req]]
  BY <1>3 DEF Queue
<1>5. p.nextSeq = n + 1 /\ p.inflight = q.inflight
  BY <1>3 DEF Queue
<1> QED BY <1>1, <1>2, <1>4, <1>5

LEMMA PushSound ==
  ASSUME NEW q \in Queue, q.nextSeq < MaxMessages, NEW prio \in Priorities,
         NEW req \in Requests \cup {Nil}, NEW sig \in Signatures,
         NEW stage \in {"held", "enqueued"}, stage = "held" => req # Nil,
         prio = "emergency" \/ Cardinality(OpenRecords(q)) < MaxDepth,
         NEW acc \in SUBSET Seqs, NEW ret \in SUBSET Seqs, NEW pur \in SUBSET Seqs,
         Sound(q, acc, ret, pur),
         NEW acc2, acc2 \subseteq acc \cup {q.nextSeq},
         NEW p \in Queue, p = Push(q, prio, req, sig, stage)
  PROVE  Sound(p, acc2, ret, pur)
<1>0. stage \in Stages
  BY DEF Stages
<1>1. PICK n \in Seqs : n = q.nextSeq
  BY InboxAssumption DEF Queue, Seqs
<1>2. /\ p.nextSeq = n + 1
      /\ p.slots[n] = [stage |-> stage, prio |-> prio, req |-> req]
      /\ \A s \in Seqs \ {n} : p.slots[s] = q.slots[s]
  BY <1>0, <1>1, PushSlots
<1>3. p.slots[n].stage = stage /\ p.slots[n].prio = prio /\ p.slots[n].req = req
  BY <1>2
<1>4. n \in Nat /\ \A s \in Seqs : s \in Int
  BY InboxAssumption DEF Seqs
<1>5. Minted(p)
  BY <1>1, <1>2, <1>4 DEF Sound, Minted
<1>6. HeldHasId(p)
  BY <1>2, <1>3 DEF Sound, HeldHasId
<1>7. Accounted(p, acc2, ret, pur)
  <2>1. \A s \in acc2 : s < p.nextSeq
    BY <1>1, <1>2, <1>4 DEF Sound, Accounted
  <2>2. \A s \in Seqs : s < p.nextSeq => p.slots[s].stage # "none" \/ s \in ret \cup pur
    BY <1>1, <1>2, <1>3, <1>4 DEF Sound, Accounted
  <2>3. \A s \in Seqs : p.slots[s].stage = "processed" => s \in ret
    BY <1>1, <1>2, <1>3 DEF Sound, Accounted
  <2> QED BY <2>1, <2>2, <2>3 DEF Accounted
<1>8. InOrder(p)
  <2> SUFFICES ASSUME NEW s \in Seqs, NEW t \in Seqs, s < t, p.slots[s].req = Nil,
                      p.slots[s].stage = "enqueued", p.slots[t].prio = p.slots[s].prio,
                      p.slots[t].stage \in {"delivered", "processed"}
               PROVE  FALSE
    BY DEF InOrder
  <2>1. t # n /\ p.slots[t] = q.slots[t]
    BY <1>2, <1>3
  <2>2. t < n
    BY <1>1, <2>1 DEF Sound, Minted
  <2>3. s # n
    BY <1>4, <2>2
  <2> QED BY <1>2, <2>1, <2>3 DEF Sound, InOrder
<1>9. Shallow(p)
  <2> SUFFICES ASSUME Solo PROVE Cardinality(StandardOpen(p)) <= MaxDepth
    BY DEF Shallow
  <2>1. Cardinality(StandardOpen(q)) <= MaxDepth
    BY DEF Sound, Shallow
  <2>2. IsFiniteSet(OpenRecords(q)) /\ IsFiniteSet(StandardOpen(q))
    BY OpenFinite
  <2>3. CASE prio = "emergency"
    <3>1. StandardOpen(p) \subseteq StandardOpen(q)
      BY <1>2, <1>3, <2>3 DEF StandardOpen, InStage
    <3>2. Cardinality(StandardOpen(p)) <= Cardinality(StandardOpen(q))
      BY <2>2, <3>1, FS_Subset
    <3>3. Cardinality(StandardOpen(p)) \in Nat /\ Cardinality(StandardOpen(q)) \in Nat
      BY OpenFinite, FS_CardinalityType
    <3> QED BY <2>1, <3>2, <3>3, InboxAssumption
  <2>4. CASE Cardinality(OpenRecords(q)) < MaxDepth
    <3>1. StandardOpen(p) \subseteq OpenRecords(q) \cup {n}
      BY <1>2 DEF StandardOpen, OpenRecords, InStage
    <3>2. IsFiniteSet(OpenRecords(q) \cup {n})
      BY <2>2, FS_AddElement
    <3>3. Cardinality(OpenRecords(q) \cup {n}) <= Cardinality(OpenRecords(q)) + 1
      <4>1. PICK O : O = OpenRecords(q)
        OBVIOUS
      <4>2. IsFiniteSet(O) /\ Cardinality(O) \in Nat
        BY <2>2, <4>1, FS_CardinalityType
      <4>3. Cardinality(O \cup {n}) = IF n \in O THEN Cardinality(O) ELSE Cardinality(O) + 1
        BY <4>2, FS_AddElement
      <4> QED BY <4>1, <4>2, <4>3
    <3>4. Cardinality(StandardOpen(p)) <= Cardinality(OpenRecords(q) \cup {n})
      BY <3>1, <3>2, FS_Subset
    <3>5. /\ Cardinality(StandardOpen(p)) \in Nat /\ Cardinality(OpenRecords(q)) \in Nat
          /\ Cardinality(OpenRecords(q) \cup {n}) \in Nat
      BY OpenFinite, <3>2, FS_CardinalityType
    <3> QED BY <2>4, <3>3, <3>4, <3>5, InboxAssumption
  <2> QED BY <2>3, <2>4
<1> QED BY <1>5, <1>6, <1>7, <1>8, <1>9 DEF Sound

LEMMA ActivateSound ==
  ASSUME NEW q \in Queue, NEW n \in Seqs, q.slots[n].stage = "held",
         NEW acc \in SUBSET Seqs, NEW ret \in SUBSET Seqs, NEW pur \in SUBSET Seqs,
         Sound(q, acc, ret, pur), NEW acc2, acc2 \subseteq acc \cup {n},
         NEW p \in Queue, p = SetStage(q, n, "enqueued")
  PROVE  Sound(p, acc2, ret, pur)
<1>1. /\ p.nextSeq = q.nextSeq
      /\ \A t \in Seqs : /\ p.slots[t].stage = IF t = n THEN "enqueued" ELSE q.slots[t].stage
                         /\ p.slots[t].prio = q.slots[t].prio
                         /\ p.slots[t].req = q.slots[t].req
  <2>1. Restaged(p, q, n, "enqueued")
    BY SetStageSlots DEF Stages
  <2> QED BY <2>1 DEF Restaged
<1>2. q.slots[n].req # Nil /\ n < q.nextSeq
  BY DEF Sound, HeldHasId, Minted
<1>3. Minted(p) /\ HeldHasId(p)
  BY <1>1, <1>2 DEF Sound, Minted, HeldHasId
<1>4. Accounted(p, acc2, ret, pur)
  BY <1>1, <1>2 DEF Sound, Accounted
<1>5. InOrder(p)
  BY <1>1, <1>2 DEF Sound, InOrder
<1>6. Shallow(p)
  <2>1. StandardOpen(p) = StandardOpen(q)
    BY <1>1 DEF StandardOpen, InStage
  <2> QED BY <2>1 DEF Sound, Shallow
<1> QED BY <1>3, <1>4, <1>5, <1>6 DEF Sound

-----------------------------------------------------------------------------
(* One lemma per action.                                                   *)

LEMMA ReceiptsStay ==
  ASSUME TypeOK, ReceiptsMinted, NEW r \in Recipients, NEW p, SameIndex(p, mem[r]), mem' = [mem EXCEPT ![r] = p]
  PROVE  ReceiptsMinted'
<1>1. \A x \in Recipients : SameIndex(mem'[x], mem[x])
  BY DEF TypeOK, SameIndex
<1> QED BY <1>1 DEF ReceiptsMinted, SameIndex

\* Queue p is q with one more message, its receipt that message's.
Grown(p, q, req) ==
  /\ q.nextSeq \in Seqs /\ p.nextSeq = q.nextSeq + 1 /\ p.inflight = q.inflight
  /\ p.slots[q.nextSeq].req = req
  /\ \A s \in Seqs \ {q.nextSeq} : p.slots[s] = q.slots[s]
  /\ \A x \in Requests : ReceiptAt(p, x) < p.nextSeq

\* A new message in a sound queue, whether or not its producer is told.
LEMMA Admitted ==
  ASSUME MessageInv, NEW r \in Recipients, NEW prio \in Priorities,
         NEW door \in Doors, NEW sig \in Signatures, Admits(r, prio, door[1]),
         NEW p, p = Push(mem[r], prio, door[1], sig, door[2])
  PROVE  /\ p \in Queue /\ Sound(p, accepted[r], retired[r], purged[r])
         /\ Sound(p, accepted[r] \cup {mem[r].nextSeq}, retired[r], purged[r])
         /\ Grown(p, mem[r], door[1])
<1>1. PICK req, stage : req = door[1] /\ stage = door[2]
  OBVIOUS
<1>2. /\ req \in Requests \cup {Nil} /\ stage \in {"held", "enqueued"} /\ stage \in Stages
      /\ stage = "held" => req # Nil
  BY <1>1, InboxAssumption DEF Doors, Stages
<1>3. PICK q, acc, ret, pur : q = mem[r] /\ acc = accepted[r] /\ ret = retired[r] /\ pur = purged[r]
  OBVIOUS
<1>4. /\ q \in Queue /\ acc \in SUBSET Seqs /\ ret \in SUBSET Seqs /\ pur \in SUBSET Seqs
      /\ Sound(q, acc, ret, pur)
  BY <1>3 DEF MessageInv, ReceiptInv, TypeOK, Stored
<1>5. /\ q.nextSeq < MaxMessages
      /\ prio = "emergency" \/ Cardinality(OpenRecords(q)) < MaxDepth
  BY <1>3 DEF Admits
<1>6. p = Push(q, prio, req, sig, stage)
  BY <1>1, <1>3
<1>7. p \in Queue
  BY <1>2, <1>4, <1>5, <1>6, PushType
<1>8. Sound(p, acc, ret, pur) /\ Sound(p, acc \cup {q.nextSeq}, ret, pur)
  <2>1. ASSUME NEW acc2, acc2 \subseteq acc \cup {q.nextSeq} PROVE Sound(p, acc2, ret, pur)
    BY <1>2, <1>4, <1>5, <1>6, <1>7, <2>1, PushSound
  <2> QED BY <2>1
<1>9. /\ q.nextSeq \in Seqs /\ p.nextSeq = q.nextSeq + 1 /\ p.inflight = q.inflight
      /\ p.slots[q.nextSeq] = [stage |-> stage, prio |-> prio, req |-> req]
      /\ \A s \in Seqs \ {q.nextSeq} : p.slots[s] = q.slots[s]
  BY <1>2, <1>4, <1>5, <1>6, PushSlots
<1>10. \A x \in Requests : ReceiptAt(p, x) < p.nextSeq
  <2>1. \A x \in Requests : ReceiptAt(p, x) = IF x = req THEN q.nextSeq ELSE ReceiptAt(q, x)
    BY <1>2, <1>4, <1>5, <1>6, PushIndex
  <2>2. \A x \in Requests : ReceiptAt(q, x) < q.nextSeq /\ ReceiptAt(q, x) \in Int
    BY <1>3, <1>4, InboxAssumption DEF MessageInv, ReceiptsMinted, ReceiptAt, Queue, Receipt, Seqs, None
  <2>3. q.nextSeq \in Int
    BY <1>9, InboxAssumption DEF Seqs
  <2> QED BY <1>9, <2>1, <2>2, <2>3
<1>11. Grown(p, q, req)
  BY <1>9, <1>10 DEF Grown
<1> QED BY <1>1, <1>3, <1>7, <1>8, <1>11

LEMMA EnqueueStep ==
  ASSUME MessageInv, TypeOK', NEW r \in Recipients, NEW prio \in Priorities,
         NEW door \in Doors, NEW sig \in Signatures, Enqueue(r, prio, door[1], sig, door[2])
  PROVE  ReceiptsMinted' /\ Stored' /\ Owned' /\ Counted'
<1>1. PICK n, p : n = mem[r].nextSeq /\ p = Push(mem[r], prio, door[1], sig, door[2])
  OBVIOUS
<1>2. /\ mem' = [mem EXCEPT ![r] = p] /\ disk' = [disk EXCEPT ![r] = p]
      /\ accepted' = [accepted EXCEPT ![r] = @ \cup {n}]
      /\ Admits(r, prio, door[1])
      /\ drain' = drain /\ writes' = writes /\ retired' = retired /\ purged' = purged
  BY <1>1 DEF Enqueue, Grant
<1>3. TypeOK /\ Stored /\ Owned /\ Counted /\ ReceiptsMinted
  BY DEF MessageInv, ReceiptInv
<1>4. /\ mem'[r] = p /\ disk'[r] = p /\ accepted'[r] = accepted[r] \cup {n}
      /\ \A x \in Recipients \ {r} : mem'[x] = mem[x] /\ disk'[x] = disk[x] /\ accepted'[x] = accepted[x]
  BY <1>2, <1>3 DEF TypeOK
<1>5. /\ p \in Queue /\ Sound(p, accepted[r] \cup {n}, retired[r], purged[r])
      /\ n \in Seqs /\ p.nextSeq = n + 1 /\ p.inflight = mem[r].inflight
      /\ \A s \in Seqs \ {n} : p.slots[s] = mem[r].slots[s]
      /\ \A x \in Requests : ReceiptAt(p, x) < p.nextSeq
  <2>1. /\ p \in Queue /\ Sound(p, accepted[r], retired[r], purged[r])
        /\ Sound(p, accepted[r] \cup {mem[r].nextSeq}, retired[r], purged[r])
        /\ Grown(p, mem[r], door[1])
    BY <1>1, <1>2, Admitted
  <2>2. accepted[r] \cup {mem[r].nextSeq} = accepted[r] \cup {n}
    BY <1>1
  <2> QED BY <1>1, <2>1, <2>2 DEF Grown
<1>6. ReceiptsMinted'
  BY <1>3, <1>4, <1>5 DEF ReceiptsMinted
<1>7. Stored'
  BY <1>2, <1>3, <1>4, <1>5, AgesSelf DEF Stored
<1>8. n \in Int /\ \A s \in Seqs : s \in Int
  BY <1>5, InboxAssumption DEF Seqs
<1>9. ASSUME NEW d \in Drainers, Busy(d)
      PROVE  Owns(drain[d], mem'[drain[d].to], disk'[drain[d].to])
  <2>1. PICK s \in Seqs : s = drain[d].seq
    BY <1>3, <1>9 DEF TypeOK, Busy
  <2>2. drain[d].to \in Recipients /\ Owns(drain[d], mem[drain[d].to], disk[drain[d].to])
    BY <1>3, <1>9 DEF TypeOK, Busy, Owned
  <2>3. CASE drain[d].to = r
    <3>1. /\ s < n
          /\ mem[r].slots[s].stage # "none" => mem[r].slots[s].stage # "held" /\ ~Overtakes(mem[r], s)
          /\ Solo => mem[r].slots[s].stage \in {"none", "enqueued"}
          /\ Operators = {} => mem[r].inflight = s
      BY <1>1, <2>1, <2>2, <2>3 DEF Owns
    <3>2. \A t \in Seqs : t <= s => p.slots[t] = mem[r].slots[t]
      BY <1>5, <1>8, <3>1
    <3>3. Overtakes(p, s) => Overtakes(mem[r], s)
      BY <1>8, <3>2 DEF Overtakes
    <3>4. p.slots[s] = mem[r].slots[s] /\ s < p.nextSeq
      BY <1>5, <1>8, <3>1, <3>2
    <3>5. Owns(drain[d], p, p)
      BY <1>5, <2>1, <3>1, <3>3, <3>4 DEF Owns
    <3> QED BY <1>4, <2>3, <3>5
  <2> QED BY <1>4, <2>2, <2>3
<1>10. Owned'
  BY <1>2, <1>3, <1>9 DEF Owned, Busy
<1>11. Counted'
  <2> SUFFICES ASSUME Solo PROVE Counted'
    BY DEF Counted
  <2>1. ASSUME NEW x \in Recipients, NEW s \in Seqs, writes[x][s] # 0
        PROVE  /\ writes[x][s] = 1 /\ s < mem'[x].nextSeq
               /\ \/ \E d \in Drainers : drain[d].phase = "written" /\ drain[d].to = x /\ drain[d].seq = s
                  \/ mem'[x].slots[s].stage \notin {"held", "enqueued"}
    <3>1. writes[x][s] = 1 /\ s < mem[x].nextSeq /\ Accountable(x, s)
      BY <1>3, <2>1 DEF Counted
    <3>2. s < mem'[x].nextSeq /\ mem'[x].slots[s] = mem[x].slots[s]
      <4>1. CASE x # r
        BY <1>4, <3>1, <4>1
      <4>2. CASE x = r
        <5>1. s < n /\ s # n /\ s < n + 1
          BY <1>1, <1>8, <3>1, <4>2
        <5> QED BY <1>4, <1>5, <4>2, <5>1
      <4> QED BY <4>1, <4>2
    <3> QED BY <3>1, <3>2 DEF Accountable
  <2>2. \A d \in Drainers : drain[d].phase \in {"claimed", "failed"} => writes[drain[d].to][drain[d].seq] = 0
    BY <1>3 DEF Counted
  <2> QED BY <1>2, <2>1, <2>2 DEF Counted, Accountable
<1> QED BY <1>6, <1>7, <1>10, <1>11

LEMMA RefusedStep ==
  ASSUME MessageInv, TypeOK', NEW r \in Recipients, NEW prio \in Priorities,
         NEW door \in Doors, NEW sig \in Signatures, EnqueueRefused(r, prio, door[1], sig, door[2])
  PROVE  ReceiptsMinted' /\ Stored' /\ Owned' /\ Counted'
<1>1. PICK q, req, stage, p : /\ q = mem[r] /\ req = door[1] /\ stage = door[2]
                              /\ p = PopBack(Push(q, prio, req, sig, stage), q.nextSeq, req)
  OBVIOUS
<1>2. TypeOK /\ Stored /\ Owned /\ Counted /\ ReceiptsMinted
  BY DEF MessageInv, ReceiptInv
<1>3. /\ mem' = [mem EXCEPT ![r] = p] /\ disk' = disk
      /\ drain' = drain /\ writes' = writes /\ accepted' = accepted /\ retired' = retired /\ purged' = purged
      /\ Admits(r, prio, req)
  BY <1>1 DEF EnqueueRefused, history
<1>4. /\ q \in Queue /\ q.nextSeq < MaxMessages /\ Minted(q)
      /\ req \in Requests \cup {Nil} /\ stage \in Stages
      /\ req \in Requests => ReceiptAt(q, req) = None
  BY <1>1, <1>2, <1>3, DoorType DEF TypeOK, Stored, Sound, Admits, BoundAt, ReceiptAt
<1>5. /\ Ages(p, q) /\ Calm(p, q) /\ p.inflight = q.inflight
      /\ \A s \in Seqs : p.slots[s].stage = q.slots[s].stage
  BY <1>1, <1>4, PopPushAges
<1>6. p \in Queue /\ SameIndex(p, q)
  BY <1>1, <1>4, PopPushType, PopPushIndex
<1>7. Stored'
  <2>1. /\ Ages(p, mem[r])
        /\ \A s \in Seqs : p.slots[s].stage = "processed" =>
                          mem[r].slots[s].stage = "processed" \/ s \in retired'[r]
        /\ \A s \in Seqs : p.slots[s].stage = "none" =>
                          mem[r].slots[s].stage = "none" \/ s \in retired'[r] \cup purged'[r]
        /\ \A s \in Seqs : mem[r].slots[s].stage = "enqueued" /\ p.slots[s].stage \in {"delivered", "processed"}
                           => ~Overtakes(mem[r], s)
        /\ disk' \in {disk, [disk EXCEPT ![r] = p]}
        /\ \A x \in Recipients : retired[x] \subseteq retired'[x] /\ purged[x] \subseteq purged'[x]
    BY <1>1, <1>3, <1>5
  <2> QED BY <1>2, <1>3, <1>6, <2>1, AgeStep
<1>8. Owned' /\ Counted'
  BY <1>1, <1>2, <1>3, <1>5, <1>6, CalmDrains
<1> QED BY <1>1, <1>2, <1>3, <1>6, <1>7, <1>8, ReceiptsStay

\* A process that starts again from sound segments.
LEMMA RestartStep ==
  ASSUME TypeOK, TypeOK', NEW D \in [Recipients -> Queue], Restart(D), disk' = D,
         \A x \in Recipients : Sound(D[x], accepted[x], retired[x], purged[x]),
         \A x \in Recipients, q \in Requests : ReceiptAt(D[x], q) < D[x].nextSeq,
         UNCHANGED history
  PROVE  ReceiptsMinted' /\ Stored' /\ Owned' /\ Counted'
<1>1. ASSUME NEW x \in Recipients
      PROVE  /\ mem'[x].nextSeq = D[x].nextSeq /\ mem'[x].slots = D[x].slots
             /\ mem'[x].receipts = D[x].receipts
  <2>1. D[x] \in Queue /\ mem'[x] = [D[x] EXCEPT !.inflight = None]
    BY DEF Restart, Load
  <2> QED BY <2>1 DEF Queue
<1>2. ReceiptsMinted'
  BY <1>1 DEF ReceiptsMinted, ReceiptAt
<1>3. \A x \in Recipients : Ages(mem'[x], D[x])
  BY <1>1 DEF Ages, Reach
<1>4. ASSUME NEW x \in Recipients
      PROVE  Sound(mem'[x], accepted[x], retired[x], purged[x])
  <2>1. PICK q, p, acc, ret, pur : /\ q = D[x] /\ p = mem'[x]
                                   /\ acc = accepted[x] /\ ret = retired[x] /\ pur = purged[x]
    OBVIOUS
  <2>2. /\ q \in Queue /\ p \in Queue /\ acc \in SUBSET Seqs /\ ret \in SUBSET Seqs /\ pur \in SUBSET Seqs
        /\ Sound(q, acc, ret, pur) /\ Ages(p, q) /\ p.slots = q.slots
    BY <1>1, <1>3, <2>1 DEF TypeOK
  <2>3. Sound(p, acc, ret, pur)
    BY <2>2, AgedSound
  <2> QED BY <2>1, <2>3
<1>5. Stored'
  BY <1>3, <1>4 DEF Stored, history
<1>6. drain' = [x \in Drainers |-> Idle] /\ writes' = [r \in Recipients |-> [s \in Seqs |-> 0]]
  BY DEF Restart
<1>7. \A d \in Drainers : drain'[d].phase = "idle"
  BY <1>6 DEF Idle
<1>8. Owned' /\ Counted'
  BY <1>6, <1>7 DEF Owned, Counted, Busy
<1> QED BY <1>2, <1>5, <1>8

LEMMA EnqueueCrashStep ==
  ASSUME MessageInv, TypeOK', NEW r \in Recipients, NEW prio \in Priorities,
         NEW door \in Doors, NEW sig \in Signatures, EnqueueCrash(r, prio, door[1], sig, door[2])
  PROVE  ReceiptsMinted' /\ Stored' /\ Owned' /\ Counted'
<1>1. PICK p, D : /\ p = Push(mem[r], prio, door[1], sig, door[2])
                  /\ D = [disk EXCEPT ![r] = p]
  OBVIOUS
<1>2. TypeOK /\ Stored /\ ReceiptsMinted /\ IndexSynced
  BY DEF MessageInv, ReceiptInv
<1>3. disk' = D /\ Restart(D) /\ UNCHANGED history /\ Admits(r, prio, door[1])
  BY <1>1 DEF EnqueueCrash
<1>4. /\ p \in Queue /\ Sound(p, accepted[r], retired[r], purged[r])
      /\ \A x \in Requests : ReceiptAt(p, x) < p.nextSeq
  <2>1. p \in Queue /\ Sound(p, accepted[r], retired[r], purged[r]) /\ Grown(p, mem[r], door[1])
    BY <1>1, <1>3, Admitted
  <2> QED BY <2>1 DEF Grown
<1>5. D \in [Recipients -> Queue] /\ D[r] = p /\ \A x \in Recipients \ {r} : D[x] = disk[x]
  BY <1>1, <1>2, <1>4 DEF TypeOK
<1>6. \A x \in Recipients : Sound(D[x], accepted[x], retired[x], purged[x])
  BY <1>2, <1>4, <1>5 DEF Stored
<1>7. \A x \in Recipients, q \in Requests : ReceiptAt(D[x], q) < D[x].nextSeq
  BY <1>2, <1>4, <1>5 DEF ReceiptsMinted, IndexSynced
<1> QED BY <1>2, <1>3, <1>5, <1>6, <1>7, RestartStep

LEMMA CrashStep ==
  ASSUME MessageInv, TypeOK', Crash
  PROVE  ReceiptsMinted' /\ Stored' /\ Owned' /\ Counted'
<1>1. TypeOK /\ Stored /\ ReceiptsMinted /\ IndexSynced
  BY DEF MessageInv, ReceiptInv
<1>2. Restart(disk) /\ disk' = disk /\ UNCHANGED history
  BY DEF Crash
<1>3. disk \in [Recipients -> Queue] /\ \A x \in Recipients : Sound(disk[x], accepted[x], retired[x], purged[x])
  BY <1>1 DEF TypeOK, Stored
<1>4. \A x \in Recipients, q \in Requests : ReceiptAt(disk[x], q) < disk[x].nextSeq
  BY <1>1 DEF ReceiptsMinted, IndexSynced
<1> QED BY <1>1, <1>2, <1>3, <1>4, RestartStep

\* A message some receipt names is told to a producer again.
LEMMA ReplayKeeps ==
  ASSUME MessageInv, TypeOK', NEW r \in Recipients, NEW req \in Requests,
         ReceiptAt(mem[r], req) # None, Grant(req, r, ReceiptAt(mem[r], req)),
         UNCHANGED <<mem, disk, drain, writes, retired, purged, crashes>>
  PROVE  ReceiptsMinted' /\ Stored' /\ Owned' /\ Counted'
<1>1. TypeOK /\ Stored /\ Owned /\ Counted /\ ReceiptsMinted /\ IndexSynced
  BY DEF MessageInv, ReceiptInv
<1>2. PICK n : n = ReceiptAt(mem[r], req)
  OBVIOUS
<1>3. n < mem[r].nextSeq /\ n < disk[r].nextSeq
  BY <1>1, <1>2 DEF ReceiptsMinted, IndexSynced
<1>4. \A x \in Recipients : accepted'[x] = IF x = r THEN accepted[x] \cup {n} ELSE accepted[x]
  BY <1>1, <1>2 DEF Grant, TypeOK
<1>5. ASSUME NEW x \in Recipients, NEW q \in {mem[x], disk[x]}
      PROVE  Sound(q, accepted'[x], retired[x], purged[x])
  <2>1. Sound(q, accepted[x], retired[x], purged[x])
    BY <1>1 DEF Stored
  <2>2. \A s \in accepted'[x] : s < q.nextSeq
    BY <1>3, <1>4, <2>1 DEF Sound, Accounted
  <2> QED BY <2>1, <2>2 DEF Sound, Accounted
<1>6. Stored'
  BY <1>1, <1>5 DEF Stored
<1>7. ReceiptsMinted' /\ Owned' /\ Counted'
  BY <1>1 DEF ReceiptsMinted, Owned, Busy, Counted, Accountable
<1> QED BY <1>6, <1>7

LEMMA ActivateStep ==
  ASSUME MessageInv, TypeOK', NEW r \in Recipients, NEW req \in Requests, Activate(r, req)
  PROVE  ReceiptsMinted' /\ Stored' /\ Owned' /\ Counted'
<1>1. PICK q, n, p, h : /\ q = mem[r] /\ n = mem[r].receipts[req].seq
                        /\ p = SetStage(q, n, "enqueued") /\ h = SetStage(p, n, "held")
  OBVIOUS
<1>2. TypeOK /\ Stored /\ Owned /\ Counted /\ ReceiptsMinted
  BY DEF MessageInv, ReceiptInv
<1>3. /\ n # None /\ q.slots[n].stage = "held"
      /\ \/ mem' = [mem EXCEPT ![r] = p] /\ disk' = [disk EXCEPT ![r] = p] /\ Grant(req, r, n)
         \/ mem' = [mem EXCEPT ![r] = h] /\ disk' = disk /\ accepted' = accepted
      /\ drain' = drain /\ writes' = writes /\ retired' = retired /\ purged' = purged
  BY <1>1 DEF Activate
<1>4. q \in Queue /\ n \in Seqs /\ p \in Queue /\ h \in Queue
  <2>1. q \in Queue
    BY <1>1, <1>2 DEF TypeOK
  <2>2. n \in Seqs
    BY <1>1, <1>3, <2>1 DEF Queue, Receipt
  <2> QED BY <1>1, <2>1, <2>2, SetStageType DEF Stages
<1>0. "enqueued" \in Stages /\ "held" \in Stages
  BY DEF Stages
<1>5. /\ p.nextSeq = q.nextSeq /\ p.inflight = q.inflight
      /\ \A t \in Seqs : /\ p.slots[t].stage = IF t = n THEN "enqueued" ELSE q.slots[t].stage
                         /\ p.slots[t].prio = q.slots[t].prio
                         /\ p.slots[t].req = q.slots[t].req
  <2>1. Restaged(p, q, n, "enqueued")
    BY <1>1, <1>0, <1>4, SetStageSlots
  <2> QED BY <2>1 DEF Restaged
<1>6. SameIndex(p, q) /\ SameIndex(h, q)
  <2>1. SameIndex(p, q)
    BY <1>1, <1>4, SetStageIndex DEF Stages
  <2>2. SameIndex(h, p)
    BY <1>1, <1>4, SetStageIndex DEF Stages
  <2> QED BY <2>1, <2>2 DEF SameIndex
<1>7. CASE mem' = [mem EXCEPT ![r] = h] /\ disk' = disk /\ accepted' = accepted
  <2>1. /\ h.nextSeq = p.nextSeq /\ h.inflight = p.inflight
        /\ \A t \in Seqs : /\ h.slots[t].stage = IF t = n THEN "held" ELSE p.slots[t].stage
                           /\ h.slots[t].prio = p.slots[t].prio
                           /\ h.slots[t].req = p.slots[t].req
    <3>1. Restaged(h, p, n, "held")
      BY <1>1, <1>0, <1>4, SetStageSlots
    <3> QED BY <3>1 DEF Restaged
  <2>2. /\ h.nextSeq = q.nextSeq /\ h.inflight = q.inflight
        /\ \A t \in Seqs : /\ h.slots[t].stage = q.slots[t].stage
                           /\ h.slots[t].prio = q.slots[t].prio
                           /\ h.slots[t].req = q.slots[t].req
    BY <1>3, <1>5, <2>1
  <2>3. Ages(h, mem[r]) /\ Calm(h, mem[r]) /\ h.inflight = mem[r].inflight
    BY <1>1, <2>2 DEF Ages, Reach, Calm
  <2>4. /\ \A s \in Seqs : h.slots[s].stage = "processed" =>
                          mem[r].slots[s].stage = "processed" \/ s \in retired'[r]
        /\ \A s \in Seqs : h.slots[s].stage = "none" =>
                          mem[r].slots[s].stage = "none" \/ s \in retired'[r] \cup purged'[r]
        /\ \A s \in Seqs : mem[r].slots[s].stage = "enqueued" /\ h.slots[s].stage \in {"delivered", "processed"}
                           => ~Overtakes(mem[r], s)
        /\ disk' \in {disk, [disk EXCEPT ![r] = h]}
        /\ \A x \in Recipients : retired[x] \subseteq retired'[x] /\ purged[x] \subseteq purged'[x]
    BY <1>1, <1>3, <1>7, <2>2
  <2>5. Stored'
    BY <1>2, <1>4, <1>7, <2>3, <2>4, AgeStep
  <2>6. Owned' /\ Counted'
    BY <1>2, <1>3, <1>4, <1>7, <2>3, <2>4, CalmDrains
  <2> QED BY <1>1, <1>2, <1>6, <1>7, <2>5, <2>6, ReceiptsStay
<1>8. CASE mem' = [mem EXCEPT ![r] = p] /\ disk' = [disk EXCEPT ![r] = p] /\ Grant(req, r, n)
  <2>1. /\ mem'[r] = p /\ disk'[r] = p /\ accepted'[r] = accepted[r] \cup {n}
        /\ \A x \in Recipients \ {r} : mem'[x] = mem[x] /\ disk'[x] = disk[x] /\ accepted'[x] = accepted[x]
    BY <1>2, <1>8 DEF TypeOK, Grant
  <2>2. Sound(p, accepted'[r], retired[r], purged[r])
    <3>1. PICK acc, ret, pur, acc2 : /\ acc = accepted[r] /\ ret = retired[r] /\ pur = purged[r]
                                     /\ acc2 = accepted[r] \cup {n}
      OBVIOUS
    <3>2. /\ acc \in SUBSET Seqs /\ ret \in SUBSET Seqs /\ pur \in SUBSET Seqs
          /\ acc2 \subseteq acc \cup {n} /\ Sound(q, acc, ret, pur)
      BY <1>1, <1>2, <3>1 DEF TypeOK, Stored
    <3>3. Sound(p, acc2, ret, pur)
      BY <1>1, <1>3, <1>4, <3>2, ActivateSound
    <3> QED BY <2>1, <3>1, <3>3
  <2>3. Stored'
    BY <1>2, <1>3, <1>4, <2>1, <2>2, AgesSelf DEF Stored
  <2>4. q.slots[n].req # Nil
    BY <1>1, <1>2, <1>3, <1>4 DEF Stored, Sound, HeldHasId
  <2>5. ASSUME NEW d \in Drainers, Busy(d)
        PROVE  Owns(drain[d], mem'[drain[d].to], disk'[drain[d].to])
    <3>1. PICK s \in Seqs : s = drain[d].seq
      BY <1>2, <2>5 DEF TypeOK, Busy
    <3>2. drain[d].to \in Recipients /\ Owns(drain[d], mem[drain[d].to], disk[drain[d].to])
      BY <1>2, <2>5 DEF TypeOK, Busy, Owned
    <3>3. CASE drain[d].to = r
      <4>1. /\ s < q.nextSeq
            /\ q.slots[s].stage # "none" => q.slots[s].stage # "held" /\ ~Overtakes(q, s)
            /\ Solo => q.slots[s].stage \in {"none", "enqueued"}
            /\ Operators = {} => q.inflight = s
        BY <1>1, <3>1, <3>2, <3>3 DEF Owns
      <4>2. s # n /\ p.slots[s].stage = q.slots[s].stage
        BY <1>3, <1>5, <4>1
      <4>3. Overtakes(p, s) => Overtakes(q, s)
        BY <1>5, <2>4 DEF Overtakes
      <4>4. Owns(drain[d], p, p)
        BY <1>5, <3>1, <4>1, <4>2, <4>3 DEF Owns
      <4> QED BY <2>1, <3>3, <4>4
    <3> QED BY <2>1, <3>2, <3>3
  <2>6. Owned'
    BY <1>2, <1>3, <2>5 DEF Owned, Busy
  <2>7. Counted'
    <3> SUFFICES ASSUME Solo PROVE Counted'
      BY DEF Counted
    <3>1. ASSUME NEW x \in Recipients, NEW s \in Seqs, writes[x][s] # 0
          PROVE  /\ writes[x][s] = 1 /\ s < mem'[x].nextSeq
                 /\ \/ \E d \in Drainers : drain[d].phase = "written" /\ drain[d].to = x /\ drain[d].seq = s
                    \/ mem'[x].slots[s].stage \notin {"held", "enqueued"}
      <4>1. writes[x][s] = 1 /\ s < mem[x].nextSeq /\ Accountable(x, s)
        BY <1>2, <3>1 DEF Counted
      <4>2. CASE x # r
        BY <2>1, <4>1, <4>2 DEF Accountable
      <4>3. CASE x = r
        <5>1. s < mem'[x].nextSeq
          BY <1>1, <1>5, <2>1, <4>1, <4>3
        <5>2. mem[r].slots[s].stage \notin {"held", "enqueued"} => p.slots[s].stage \notin {"held", "enqueued"}
          BY <1>1, <1>3, <1>5
        <5> QED BY <2>1, <4>1, <4>3, <5>1, <5>2 DEF Accountable
      <4> QED BY <4>2, <4>3
    <3>2. \A d \in Drainers : drain[d].phase \in {"claimed", "failed"} => writes[drain[d].to][drain[d].seq] = 0
      BY <1>2 DEF Counted
    <3> QED BY <1>3, <3>1, <3>2 DEF Counted, Accountable
  <2>8. ReceiptsMinted'
    BY <1>1, <1>2, <1>6, <1>8, ReceiptsStay
  <2> QED BY <2>3, <2>6, <2>7, <2>8
<1> QED BY <1>3, <1>7, <1>8

LEMMA AckStep ==
  ASSUME MessageInv, TypeOK', NEW r \in Recipients, NEW n \in Seqs, Ack(r, n)
  PROVE  ReceiptsMinted' /\ Stored' /\ Owned' /\ Counted'
<1>1. PICK o, p : o = SetStage(mem[r], n, "processed") /\ p = Compact(o)
  OBVIOUS
<1>2. TypeOK /\ Stored /\ Owned /\ Counted /\ ReceiptsMinted /\ mem[r] \in Queue
  BY DEF MessageInv, ReceiptInv, TypeOK
<1>3. /\ mem[r].slots[n].stage = "delivered"
      /\ mem' = [mem EXCEPT ![r] = p] /\ disk' \in {disk, [disk EXCEPT ![r] = p]}
      /\ retired' = [retired EXCEPT ![r] = @ \cup {n}]
      /\ drain' = drain /\ writes' = writes /\ accepted' = accepted /\ purged' = purged
  BY <1>1 DEF Ack, PersistBestEffort
<1>4. o \in Queue /\ SameIndex(o, mem[r])
  BY <1>1, <1>2, SetStageType, SetStageIndex DEF Stages
<1>5. p \in Queue /\ SameIndex(p, o)
  BY <1>1, <1>4, CompactType, CompactIndex
<1>6. /\ Ages(p, mem[r]) /\ Calm(p, mem[r]) /\ p.inflight = mem[r].inflight
      /\ \A t \in Seqs : /\ p.slots[t].stage = "processed" => mem[r].slots[t].stage = "processed" \/ t = n
                         /\ p.slots[t].stage = "none" => mem[r].slots[t].stage \in {"none", "processed"} \/ t = n
                         /\ mem[r].slots[t].stage = "enqueued" => p.slots[t].stage = "enqueued"
  <2>1. PICK q : q = mem[r]
    OBVIOUS
  <2>2. q \in Queue /\ q.slots[n].stage = "delivered" /\ p = Compact(SetStage(q, n, "processed"))
    BY <1>1, <1>2, <1>3, <2>1
  <2> QED BY <2>1, <2>2, AckAges
<1>7. /\ n \in retired'[r] /\ \A x \in Recipients : retired[x] \subseteq retired'[x] /\ purged[x] \subseteq purged'[x]
  BY <1>2, <1>3 DEF TypeOK
<1>8. \A t \in Seqs : mem[r].slots[t].stage = "processed" => t \in retired'[r]
  BY <1>2, <1>7 DEF Stored, Sound, Accounted
<1>9. Stored'
  <2>1. /\ \A s \in Seqs : p.slots[s].stage = "processed" =>
                          mem[r].slots[s].stage = "processed" \/ s \in retired'[r]
        /\ \A s \in Seqs : p.slots[s].stage = "none" =>
                          mem[r].slots[s].stage = "none" \/ s \in retired'[r] \cup purged'[r]
        /\ \A s \in Seqs : mem[r].slots[s].stage = "enqueued" /\ p.slots[s].stage \in {"delivered", "processed"}
                           => ~Overtakes(mem[r], s)
    BY <1>6, <1>7, <1>8
  <2> QED BY <1>2, <1>3, <1>5, <1>6, <1>7, <2>1, AgeStep
<1>10. Owned' /\ Counted'
  BY <1>2, <1>3, <1>5, <1>6, CalmDrains
<1>11. SameIndex(p, mem[r])
  BY <1>4, <1>5 DEF SameIndex
<1> QED BY <1>2, <1>3, <1>9, <1>10, <1>11, ReceiptsStay

LEMMA PurgeStep ==
  ASSUME MessageInv, TypeOK', NEW r \in Recipients, Purge(r)
  PROVE  ReceiptsMinted' /\ Stored' /\ Owned' /\ Counted'
<1>1. PICK p : p = [mem[r] EXCEPT !.inflight = None, !.slots = [s \in Seqs |-> EmptySlot]]
  OBVIOUS
<1>2. TypeOK /\ Stored /\ Owned /\ Counted /\ ReceiptsMinted /\ mem[r] \in Queue
  BY DEF MessageInv, ReceiptInv, TypeOK
<1>3. /\ Operators # {}
      /\ mem' = [mem EXCEPT ![r] = p] /\ disk' \in {disk, [disk EXCEPT ![r] = p]}
      /\ purged' = [purged EXCEPT ![r] = @ \cup InStage(mem[r], Stages \ {"none"})]
      /\ drain' = drain /\ writes' = writes /\ accepted' = accepted /\ retired' = retired
  BY <1>1 DEF Purge, PersistBestEffort
<1>4. p \in Queue /\ SameIndex(p, mem[r])
  BY <1>1, <1>2, FlushType, FlushIndex
<1>5. Ages(p, mem[r]) /\ Calm(p, mem[r]) /\ \A s \in Seqs : p.slots[s].stage = "none"
  BY <1>1, <1>2, FlushAges
<1>6. \A x \in Recipients : retired[x] \subseteq retired'[x] /\ purged[x] \subseteq purged'[x]
  BY <1>2, <1>3 DEF TypeOK
<1>7. \A s \in Seqs : mem[r].slots[s].stage = "none" \/ s \in purged'[r]
  <2>1. \A s \in Seqs : mem[r].slots[s].stage \in Stages
    BY <1>2 DEF Queue, Slot
  <2>2. purged'[r] = purged[r] \cup InStage(mem[r], Stages \ {"none"})
    BY <1>2, <1>3 DEF TypeOK
  <2> QED BY <2>1, <2>2 DEF InStage
<1>8. Stored'
  <2>1. /\ \A s \in Seqs : p.slots[s].stage = "processed" =>
                          mem[r].slots[s].stage = "processed" \/ s \in retired'[r]
        /\ \A s \in Seqs : p.slots[s].stage = "none" =>
                          mem[r].slots[s].stage = "none" \/ s \in retired'[r] \cup purged'[r]
        /\ \A s \in Seqs : mem[r].slots[s].stage = "enqueued" /\ p.slots[s].stage \in {"delivered", "processed"}
                           => ~Overtakes(mem[r], s)
    BY <1>5, <1>7
  <2> QED BY <1>2, <1>3, <1>4, <1>5, <1>6, <2>1, AgeStep
<1>9. Owned' /\ Counted'
  BY <1>2, <1>3, <1>4, <1>5, CalmDrains
<1> QED BY <1>2, <1>3, <1>4, <1>8, <1>9, ReceiptsStay

-----------------------------------------------------------------------------
(* The three steps of a drain.                                             *)

\* While one thread drains, or none may flush, nobody else is busy with a queue whose
\* marker is clear.
LEMMA NobodyElse ==
  ASSUME TypeOK, Owned, Solo, NEW d \in Drainers, drain[d].phase = "idle",
         NEW r \in Recipients, mem[r].inflight = None,
         NEW e \in Drainers, Busy(e), drain[e].to = r
  PROVE  FALSE
<1>1. CASE Operators = {}
  <2>1. Owns(drain[e], mem[r], disk[r])
    BY DEF Owned
  <2>2. mem[r].inflight = drain[e].seq /\ drain[e].seq \in Seqs
    BY <1>1, <2>1 DEF Owns, TypeOK, Busy
  <2> QED BY <2>2, NoneIsNoSeq
<1>2. CASE \A x, y \in Drainers : x = y
  BY <1>2 DEF Busy
<1> QED BY <1>1, <1>2 DEF Solo

LEMMA ClaimStep ==
  ASSUME MessageInv, TypeOK', NEW d \in Drainers, NEW r \in Recipients, Claim(d, r)
  PROVE  ReceiptsMinted' /\ Stored' /\ Owned' /\ Counted'
<1>1. PICK n \in Seqs : /\ IsHead(mem[r], n)
                        /\ PersistBestEffort(r, [mem[r] EXCEPT !.inflight = n])
                        /\ drain' = [drain EXCEPT ![d] = [phase |-> "claimed", to |-> r, seq |-> n]]
  BY DEF Claim
<1>2. TypeOK /\ Stored /\ Owned /\ Counted /\ ReceiptsMinted /\ mem[r] \in Queue
  BY DEF MessageInv, ReceiptInv, TypeOK
<1>3. PICK p : p = [mem[r] EXCEPT !.inflight = n]
  OBVIOUS
<1>4. /\ drain[d].phase = "idle" /\ mem[r].inflight = None
      /\ mem' = [mem EXCEPT ![r] = p] /\ disk' \in {disk, [disk EXCEPT ![r] = p]}
      /\ writes' = writes /\ accepted' = accepted /\ retired' = retired /\ purged' = purged
  <2>1. drain[d] = Idle /\ mem[r].inflight = None /\ UNCHANGED <<writes, history, crashes>>
    BY DEF Claim
  <2>2. drain[d].phase = "idle"
    BY <2>1 DEF Idle
  <2>3. mem' = [mem EXCEPT ![r] = p] /\ disk' \in {disk, [disk EXCEPT ![r] = p]}
    BY <1>1, <1>3 DEF PersistBestEffort
  <2> QED BY <2>1, <2>2, <2>3 DEF history
<1>5. /\ p \in Queue /\ SameIndex(p, mem[r]) /\ p.inflight = n /\ p.slots = mem[r].slots
      /\ p.nextSeq = mem[r].nextSeq /\ Ages(p, mem[r]) /\ Calm(p, mem[r])
  BY <1>2, <1>3, InflightType, InflightIndex, InflightAges
<1>6. /\ mem'[r] = p /\ disk'[r] \in {disk[r], p}
      /\ \A x \in Recipients \ {r} : mem'[x] = mem[x] /\ disk'[x] = disk[x]
  BY <1>2, <1>4, OneQueue
<1>7. Stored'
  <2>1. /\ \A s \in Seqs : p.slots[s].stage = "processed" =>
                          mem[r].slots[s].stage = "processed" \/ s \in retired'[r]
        /\ \A s \in Seqs : p.slots[s].stage = "none" =>
                          mem[r].slots[s].stage = "none" \/ s \in retired'[r] \cup purged'[r]
        /\ \A s \in Seqs : mem[r].slots[s].stage = "enqueued" /\ p.slots[s].stage \in {"delivered", "processed"}
                           => ~Overtakes(mem[r], s)
        /\ \A x \in Recipients : retired[x] \subseteq retired'[x] /\ purged[x] \subseteq purged'[x]
    BY <1>4, <1>5
  <2> QED BY <1>2, <1>4, <1>5, <2>1, AgeStep
<1>8. mem[r].slots[n].stage = "enqueued" /\ ~Overtakes(mem[r], n)
  <2>1. n \in Int /\ \A s \in Seqs : s \in Int
    BY InboxAssumption DEF Seqs
  <2> QED BY <1>1, <2>1 DEF IsHead, InStage, Before, Overtakes
<1>9. n < mem[r].nextSeq
  BY <1>2, <1>8 DEF Stored, Sound, Minted
<1>10. disk[r].slots[n].stage = "enqueued"
  <2>1. Reach(disk[r].slots[n].stage, mem[r].slots[n].stage)
    BY <1>2 DEF Stored, Ages
  <2> QED BY <1>8, <2>1 DEF Reach
<1>11. drain' \in [Drainers -> [phase : Phases, to : Recipients \cup {Nil}, seq : Seqs \cup {None}]]
       /\ drain'[d].phase = "claimed" /\ drain'[d].to = r /\ drain'[d].seq = n
       /\ \A e \in Drainers \ {d} : drain'[e] = drain[e]
  <2>1. drain'[d] = [phase |-> "claimed", to |-> r, seq |-> n]
    BY <1>1, <1>2 DEF TypeOK
  <2> QED BY <1>1, <1>2, <2>1 DEF TypeOK
<1>12. Owns(drain'[d], mem'[r], disk'[r])
  <2>1. ~Overtakes(p, n)
    BY <1>5, <1>8 DEF Overtakes
  <2>2. p.slots[n].stage = "enqueued" /\ disk'[r].slots[n].stage = "enqueued" /\ n < p.nextSeq
    BY <1>5, <1>6, <1>8, <1>9, <1>10
  <2> QED BY <1>5, <1>6, <1>11, <2>1, <2>2 DEF Owns
<1>13. ASSUME NEW e \in Drainers \ {d}, Busy(e)
       PROVE  Owns(drain[e], mem'[drain[e].to], disk'[drain[e].to])
  <2>1. drain[e].to \in Recipients /\ drain[e].seq \in Seqs
    BY <1>2, <1>13 DEF TypeOK, Busy
  <2>2. Owns(drain[e], mem[drain[e].to], disk[drain[e].to])
    BY <1>2, <1>13 DEF Owned
  <2>3. CASE drain[e].to = r
    <3>1. ~Solo
      BY <1>2, <1>4, <1>13, <2>3, NobodyElse
    <3>2. Operators # {}
      BY <3>1 DEF Solo
    <3>3. PICK b, g : b = drain[e] /\ g = disk'[r]
      OBVIOUS
    <3>4. /\ mem[r] \in Queue /\ disk[r] \in Queue /\ g \in Queue /\ b.seq \in Seqs
          /\ Owns(b, mem[r], disk[r])
      BY <1>2, <2>1, <2>2, <2>3, <3>3 DEF TypeOK
    <3>5. Owns(b, p, g)
      BY <1>5, <3>1, <3>2, <3>4, OwnsAges
    <3> QED BY <1>6, <2>3, <3>3, <3>5
  <2> QED BY <1>6, <2>1, <2>2, <2>3
<1>14. Owned'
  <2>1. \A e \in Drainers : drain'[e].phase # "idle" => Owns(drain'[e], mem'[drain'[e].to], disk'[drain'[e].to])
    BY <1>11, <1>12, <1>13 DEF Busy
  <2>2. ASSUME Solo, NEW e \in Drainers, NEW f \in Drainers, drain'[e].phase # "idle", drain'[f].phase # "idle",
               drain'[e].to = drain'[f].to
        PROVE  e = f
    <3>1. CASE e # d /\ f # d
      BY <1>2, <1>11, <2>2, <3>1 DEF Owned, Busy
    <3>2. ASSUME NEW g \in Drainers, g # d, drain'[g].phase # "idle" PROVE drain'[g].to # r
      <4>1. Busy(g) /\ drain'[g].to = drain[g].to
        BY <1>11, <3>2 DEF Busy
      <4> QED BY <1>2, <1>4, <2>2, <4>1, NobodyElse
    <3> QED BY <1>11, <2>2, <3>1, <3>2
  <2> QED BY <2>1, <2>2 DEF Owned, Busy
<1>15. Counted'
  <2> SUFFICES ASSUME Solo PROVE Counted'
    BY DEF Counted
  <2>1. ASSUME NEW x \in Recipients, NEW s \in Seqs, writes[x][s] # 0
        PROVE  /\ writes[x][s] = 1 /\ s < mem'[x].nextSeq
               /\ \/ \E e \in Drainers : drain'[e].phase = "written" /\ drain'[e].to = x /\ drain'[e].seq = s
                  \/ mem'[x].slots[s].stage \notin {"held", "enqueued"}
    <3>1. writes[x][s] = 1 /\ s < mem[x].nextSeq /\ Accountable(x, s)
      BY <1>2, <2>1 DEF Counted
    <3>2. mem'[x].nextSeq = mem[x].nextSeq /\ mem'[x].slots = mem[x].slots
      BY <1>5, <1>6
    <3>3. ASSUME NEW e \in Drainers, drain[e].phase = "written" PROVE drain'[e] = drain[e]
      BY <1>4, <1>11, <3>3
    <3> QED BY <3>1, <3>2, <3>3 DEF Accountable
  <2>2. writes[r][n] = 0
    <3>1. SUFFICES ASSUME writes[r][n] # 0 PROVE FALSE
      OBVIOUS
    <3>2. Accountable(r, n)
      BY <1>2, <3>1 DEF Counted
    <3>3. PICK e \in Drainers : drain[e].phase = "written" /\ drain[e].to = r
      BY <1>8, <3>2 DEF Accountable
    <3>4. Busy(e)
      BY <3>3 DEF Busy
    <3> QED BY <1>2, <1>4, <3>3, <3>4, NobodyElse
  <2>3. \A e \in Drainers : drain'[e].phase \in {"claimed", "failed"} => writes[drain'[e].to][drain'[e].seq] = 0
    BY <1>2, <1>11, <2>2 DEF Counted
  <2> QED BY <1>4, <2>1, <2>3 DEF Counted, Accountable
<1> QED BY <1>2, <1>4, <1>5, <1>7, <1>14, <1>15, ReceiptsStay

\* The PTY write, or its failure: the store is not touched.
LEMMA WriteStep ==
  ASSUME MessageInv, TypeOK', NEW d \in Drainers, Write(d) \/ WriteError(d)
  PROVE  ReceiptsMinted' /\ Stored' /\ Owned' /\ Counted'
<1>1. TypeOK /\ Stored /\ Owned /\ Counted /\ ReceiptsMinted
  BY DEF MessageInv, ReceiptInv
<1>2. PICK r, n : r = drain[d].to /\ n = drain[d].seq
  OBVIOUS
<1>3. /\ drain[d].phase = "claimed" /\ mem' = mem /\ disk' = disk
      /\ accepted' = accepted /\ retired' = retired /\ purged' = purged
  BY DEF Write, WriteError, history
<1>4. r \in Recipients /\ n \in Seqs
  BY <1>1, <1>2, <1>3 DEF TypeOK
<1>5. /\ \A e \in Drainers : drain'[e].to = drain[e].to /\ drain'[e].seq = drain[e].seq
      /\ \A e \in Drainers \ {d} : drain'[e].phase = drain[e].phase
      /\ \/ drain'[d].phase = "written" /\ writes' = [writes EXCEPT ![r][n] = @ + 1]
         \/ drain'[d].phase = "failed" /\ writes' = writes
  <2>1. drain \in [Drainers -> [phase : Phases, to : Recipients \cup {Nil}, seq : Seqs \cup {None}]]
    BY <1>1 DEF TypeOK
  <2>2. CASE Write(d)
    <3>1. drain' = [drain EXCEPT ![d].phase = "written"] /\ writes' = [writes EXCEPT ![r][n] = @ + 1]
      BY <1>2, <2>2 DEF Write
    <3> QED BY <2>1, <3>1
  <2>3. CASE WriteError(d)
    <3>1. drain' = [drain EXCEPT ![d].phase = "failed"] /\ writes' = writes
      BY <2>3 DEF WriteError
    <3> QED BY <2>1, <3>1
  <2> QED BY <2>2, <2>3
<1>6. ReceiptsMinted' /\ Stored'
  BY <1>1, <1>3 DEF ReceiptsMinted, Stored
<1>7. \A e \in Drainers : drain'[e].phase # "idle" <=> Busy(e)
  BY <1>3, <1>5 DEF Busy
<1>8. ASSUME NEW e \in Drainers, Busy(e) PROVE Owns(drain'[e], mem[drain'[e].to], disk[drain'[e].to])
  <2>1. Owns(drain[e], mem[drain[e].to], disk[drain[e].to])
    BY <1>1, <1>8 DEF Owned
  <2> QED BY <1>5, <2>1 DEF Owns
<1>9. Owned'
  BY <1>1, <1>3, <1>5, <1>7, <1>8 DEF Owned, Busy
<1>10. Counted'
  <2> SUFFICES ASSUME Solo PROVE Counted'
    BY DEF Counted
  <2>1. writes[r][n] = 0 /\ n < mem[r].nextSeq
    <3>1. Owns(drain[d], mem[r], disk[r])
      BY <1>1, <1>2, <1>3 DEF Owned, Busy
    <3> QED BY <1>1, <1>2, <1>3, <3>1 DEF Counted, Owns
  <2>2. ASSUME NEW x \in Recipients, NEW s \in Seqs, writes'[x][s] # 0
        PROVE  /\ writes'[x][s] = 1 /\ s < mem[x].nextSeq
               /\ \/ \E e \in Drainers : drain'[e].phase = "written" /\ drain'[e].to = x /\ drain'[e].seq = s
                  \/ mem[x].slots[s].stage \notin {"held", "enqueued"}
    <3>1. CASE x = r /\ s = n
      <4>1. drain'[d].phase = "written" /\ writes'[r][n] = 1
        BY <1>1, <1>4, <1>5, <2>1, <2>2, <3>1 DEF TypeOK
      <4> QED BY <1>2, <1>5, <2>1, <3>1, <4>1
    <3>2. CASE ~(x = r /\ s = n)
      <4>1. writes'[x][s] = writes[x][s]
        BY <1>1, <1>4, <1>5, <3>2 DEF TypeOK
      <4>2. writes[x][s] = 1 /\ s < mem[x].nextSeq /\ Accountable(x, s)
        BY <1>1, <2>2, <4>1 DEF Counted
      <4>3. ASSUME NEW e \in Drainers, drain[e].phase = "written" PROVE drain'[e].phase = "written"
        BY <1>3, <1>5, <4>3
      <4> QED BY <1>5, <4>1, <4>2, <4>3 DEF Accountable
    <3> QED BY <3>1, <3>2
  <2>3. ASSUME NEW e \in Drainers, drain'[e].phase \in {"claimed", "failed"}
        PROVE  writes'[drain'[e].to][drain'[e].seq] = 0
    <3>1. CASE e = d
      <4>1. writes' = writes
        BY <1>5, <2>3, <3>1
      <4> QED BY <1>2, <1>5, <2>1, <3>1, <4>1
    <3>2. CASE e # d
      <4>1. Busy(e) /\ Busy(d) /\ drain[e].phase \in {"claimed", "failed"}
        BY <1>3, <1>5, <2>3, <3>2 DEF Busy
      <4>2. drain[e].to # r
        BY <1>1, <1>2, <3>2, <4>1 DEF Owned
      <4>3. drain[e].to \in Recipients /\ drain[e].seq \in Seqs
        BY <1>1, <4>1 DEF TypeOK
      <4>4. writes'[drain[e].to] = writes[drain[e].to]
        BY <1>1, <1>4, <1>5, <4>2, <4>3 DEF TypeOK
      <4>5. writes[drain[e].to][drain[e].seq] = 0
        BY <1>1, <4>1 DEF Counted
      <4> QED BY <1>5, <4>4, <4>5
    <3> QED BY <3>1, <3>2
  <2> QED BY <1>3, <2>2, <2>3 DEF Counted, Accountable
<1> QED BY <1>6, <1>9, <1>10

LEMMA CommitStep ==
  ASSUME MessageInv, TypeOK', NEW d \in Drainers, Commit(d)
  PROVE  ReceiptsMinted' /\ Stored' /\ Owned' /\ Counted'
<1>1. TypeOK /\ Stored /\ Owned /\ Counted /\ ReceiptsMinted
  BY DEF MessageInv, ReceiptInv
<1>2. PICK r, n : r = drain[d].to /\ n = drain[d].seq
  OBVIOUS
<1>3. drain[d].phase \in {"written", "failed"} /\ Busy(d) /\ r \in Recipients /\ n \in Seqs /\ mem[r] \in Queue
  BY <1>1, <1>2 DEF Commit, Busy, TypeOK
<1>4. Owns(drain[d], mem[r], disk[r])
  BY <1>1, <1>2, <1>3 DEF Owned
<1>5. /\ mem[r].slots[n].stage # "none" => mem[r].slots[n].stage # "held" /\ ~Overtakes(mem[r], n)
      /\ Solo => mem[r].slots[n].stage \in {"none", "enqueued"}
      /\ n < mem[r].nextSeq
  BY <1>2, <1>4 DEF Owns
<1>6. PICK p : /\ \/ drain[d].phase = "written" /\ p = Delivered(mem[r], n)
                  \/ drain[d].phase = "failed" /\ p = [mem[r] EXCEPT !.inflight = None]
               /\ PersistBestEffort(r, p)
  BY <1>2 DEF Commit
<1>7. /\ mem' = [mem EXCEPT ![r] = p] /\ disk' \in {disk, [disk EXCEPT ![r] = p]}
      /\ drain' = [drain EXCEPT ![d] = Idle]
      /\ writes' = writes /\ accepted' = accepted /\ retired' = retired /\ purged' = purged
  BY <1>6 DEF Commit, PersistBestEffort, history
<1>8. PICK q : q = mem[r]
  OBVIOUS
<1>9. /\ p \in Queue /\ SameIndex(p, q) /\ Ages(p, q)
      /\ p.slots[n].stage = "none" <=> q.slots[n].stage = "none"
      /\ \A t \in Seqs \ {n} : p.slots[t].stage = q.slots[t].stage
      /\ drain[d].phase = "written" => p.slots[n].stage \in {"none", "delivered"}
      /\ drain[d].phase = "failed" => p.slots[n].stage = q.slots[n].stage
  <2>0. /\ q \in Queue /\ q.slots[n].stage # "held" /\ n \in Seqs
        /\ Solo => q.slots[n].stage \in {"none", "enqueued"}
    BY <1>3, <1>5, <1>8
  <2>1. CASE drain[d].phase = "written" /\ p = Delivered(q, n)
    <3>1. /\ Ages(p, q) /\ p.slots[n].stage \in {"none", "delivered"}
          /\ p.slots[n].stage = "none" <=> q.slots[n].stage = "none"
          /\ \A t \in Seqs \ {n} : p.slots[t].stage = q.slots[t].stage
      BY <2>0, <2>1, DeliveredAges
    <3>2. p \in Queue /\ SameIndex(p, q)
      BY <2>0, <2>1, DeliveredType, DeliveredIndex
    <3> QED BY <2>1, <3>1, <3>2
  <2>2. CASE drain[d].phase = "failed" /\ p = [q EXCEPT !.inflight = None]
    <3>1. p \in Queue /\ SameIndex(p, q) /\ p.slots = q.slots /\ Ages(p, q)
      BY <2>0, <2>2, InflightType, InflightIndex, InflightAges
    <3> QED BY <2>2, <3>1
  <2> QED BY <1>6, <1>8, <2>1, <2>2
<1>10. /\ mem'[r] = p /\ disk'[r] \in {disk[r], p}
       /\ \A x \in Recipients \ {r} : mem'[x] = mem[x] /\ disk'[x] = disk[x]
  BY <1>1, <1>3, <1>7, OneQueue
<1>11. Stored'
  <2>1. Ages(p, mem[r])
    BY <1>8, <1>9
  <2>2. /\ \A s \in Seqs : p.slots[s].stage = "processed" =>
                          mem[r].slots[s].stage = "processed" \/ s \in retired'[r]
        /\ \A s \in Seqs : p.slots[s].stage = "none" =>
                          mem[r].slots[s].stage = "none" \/ s \in retired'[r] \cup purged'[r]
        /\ \A s \in Seqs : mem[r].slots[s].stage = "enqueued" /\ p.slots[s].stage \in {"delivered", "processed"}
                           => ~Overtakes(mem[r], s)
        /\ \A x \in Recipients : retired[x] \subseteq retired'[x] /\ purged[x] \subseteq purged'[x]
    BY <1>3, <1>5, <1>7, <1>8, <1>9
  <2> QED BY <1>1, <1>3, <1>7, <1>9, <2>1, <2>2, AgeStep
<1>12. drain'[d].phase = "idle" /\ \A e \in Drainers \ {d} : drain'[e] = drain[e]
  <2>1. drain'[d] = Idle /\ \A e \in Drainers \ {d} : drain'[e] = drain[e]
    BY <1>1, <1>7 DEF TypeOK
  <2> QED BY <2>1 DEF Idle
<1>13. ASSUME NEW e \in Drainers \ {d}, Busy(e)
       PROVE  Owns(drain[e], mem'[drain[e].to], disk'[drain[e].to])
  <2>1. drain[e].to \in Recipients /\ drain[e].seq \in Seqs
    BY <1>1, <1>13 DEF TypeOK, Busy
  <2>2. Owns(drain[e], mem[drain[e].to], disk[drain[e].to])
    BY <1>1, <1>13 DEF Owned
  <2>3. CASE drain[e].to = r
    <3>1. ~Solo
      BY <1>1, <1>2, <1>3, <1>13, <2>3 DEF Owned
    <3>2. Operators # {}
      BY <3>1 DEF Solo
    <3>3. PICK b, g : b = drain[e] /\ g = disk'[r]
      OBVIOUS
    <3>4. /\ q \in Queue /\ disk[r] \in Queue /\ g \in Queue /\ b.seq \in Seqs
          /\ Owns(b, q, disk[r])
      BY <1>1, <1>8, <2>1, <2>2, <2>3, <3>3 DEF TypeOK
    <3>5. Owns(b, p, g)
      BY <1>9, <3>1, <3>2, <3>4, OwnsAges
    <3> QED BY <1>10, <2>3, <3>3, <3>5
  <2> QED BY <1>10, <2>1, <2>2, <2>3
<1>14. Owned'
  <2>1. \A e \in Drainers : drain'[e].phase # "idle" => e # d /\ drain'[e] = drain[e] /\ Busy(e)
    BY <1>12 DEF Busy
  <2>2. \A e \in Drainers : drain'[e].phase # "idle" => Owns(drain'[e], mem'[drain'[e].to], disk'[drain'[e].to])
    BY <1>13, <2>1
  <2>3. ASSUME Solo, NEW e \in Drainers, NEW f \in Drainers, drain'[e].phase # "idle", drain'[f].phase # "idle",
               drain'[e].to = drain'[f].to
        PROVE  e = f
    BY <1>1, <2>1, <2>3 DEF Owned
  <2> QED BY <2>2, <2>3 DEF Owned, Busy
<1>15. Counted'
  <2> SUFFICES ASSUME Solo PROVE Counted'
    BY DEF Counted
  <2>1. ASSUME NEW x \in Recipients, NEW s \in Seqs, writes[x][s] # 0
        PROVE  /\ writes[x][s] = 1 /\ s < mem'[x].nextSeq
               /\ \/ \E e \in Drainers : drain'[e].phase = "written" /\ drain'[e].to = x /\ drain'[e].seq = s
                  \/ mem'[x].slots[s].stage \notin {"held", "enqueued"}
    <3>1. writes[x][s] = 1 /\ s < mem[x].nextSeq /\ Accountable(x, s)
      BY <1>1, <2>1 DEF Counted
    <3>2. mem'[x].nextSeq = mem[x].nextSeq
      BY <1>8, <1>9, <1>10 DEF Ages
    <3>3. CASE mem[x].slots[s].stage \notin {"held", "enqueued"}
      <4>1. mem'[x].slots[s].stage \notin {"held", "enqueued"}
        BY <1>8, <1>9, <1>10, <3>3 DEF Ages, Reach
      <4> QED BY <3>1, <3>2, <4>1
    <3>4. CASE \E e \in Drainers : drain[e].phase = "written" /\ drain[e].to = x /\ drain[e].seq = s
      <4>1. PICK e \in Drainers : drain[e].phase = "written" /\ drain[e].to = x /\ drain[e].seq = s
        BY <3>4
      <4>2. CASE e = d
        BY <1>2, <1>9, <1>10, <3>1, <3>2, <4>1, <4>2
      <4>3. CASE e # d
        BY <1>12, <3>1, <3>2, <4>1, <4>3
      <4> QED BY <4>2, <4>3
    <3> QED BY <3>1, <3>3, <3>4 DEF Accountable
  <2>2. \A e \in Drainers : drain'[e].phase \in {"claimed", "failed"} => writes[drain'[e].to][drain'[e].seq] = 0
    BY <1>1, <1>12 DEF Counted
  <2> QED BY <1>7, <2>1, <2>2 DEF Counted, Accountable
<1>16. SameIndex(p, mem[r])
  BY <1>8, <1>9
<1> QED BY <1>1, <1>3, <1>7, <1>11, <1>14, <1>15, <1>16, ReceiptsStay

-----------------------------------------------------------------------------
(* The invariant and what follows from it.                                 *)

LEMMA InitMessageInv == Init => MessageInv
<1> SUFFICES ASSUME Init PROVE MessageInv
  OBVIOUS
<1>1. ReceiptInv
  BY InitReceiptInv
<1>2. ASSUME NEW r \in Recipients
      PROVE  /\ mem[r] = EmptyQueue /\ disk[r] = EmptyQueue /\ accepted[r] = {}
  BY DEF Init
<1>3. EmptyQueue.nextSeq = 0 /\ \A s \in Seqs : EmptyQueue.slots[s].stage = "none"
  BY DEF EmptyQueue, EmptySlot
<1>4. ReceiptsMinted
  BY <1>2 DEF ReceiptsMinted, ReceiptAt, EmptyQueue, NoReceipt, None
<1>5. ASSUME NEW r \in Recipients PROVE Sound(EmptyQueue, {}, retired[r], purged[r])
  <2>1. Minted(EmptyQueue) /\ HeldHasId(EmptyQueue) /\ InOrder(EmptyQueue)
    BY <1>3 DEF Minted, HeldHasId, InOrder
  <2>2. Accounted(EmptyQueue, {}, retired[r], purged[r])
    BY <1>3, InboxAssumption DEF Accounted, Seqs
  <2>3. StandardOpen(EmptyQueue) = {}
    BY <1>3 DEF StandardOpen, InStage
  <2>4. Shallow(EmptyQueue)
    BY <2>3, FS_EmptySet, InboxAssumption DEF Shallow
  <2> QED BY <2>1, <2>2, <2>4 DEF Sound
<1>6. Stored
  BY <1>2, <1>5, AgesSelf, EmptyQueueType DEF Stored
<1>7. \A d \in Drainers : drain[d].phase = "idle"
  BY DEF Init, Idle
<1>8. Owned /\ Counted
  BY <1>7 DEF Owned, Counted, Busy, Init
<1> QED BY <1>1, <1>4, <1>6, <1>8 DEF MessageInv

LEMMA StepMessageInv == MessageInv /\ [Next]_vars => MessageInv'
<1> SUFFICES ASSUME MessageInv, [Next]_vars PROVE MessageInv'
  OBVIOUS
<1>1. ReceiptInv' /\ TypeOK'
  BY StepReceiptInv DEF MessageInv, ReceiptInv
<1> SUFFICES ReceiptsMinted' /\ Stored' /\ Owned' /\ Counted'
  BY <1>1 DEF MessageInv
<1>2. ASSUME NEW r \in Recipients, Produce(r)
      PROVE  ReceiptsMinted' /\ Stored' /\ Owned' /\ Counted'
  <2>1. PICK prio \in Priorities, door \in Doors, sig \in Signatures :
          \/ EnqueueReplay(r, door[1], sig)
          \/ Enqueue(r, prio, door[1], sig, door[2])
          \/ EnqueueRefused(r, prio, door[1], sig, door[2])
          \/ EnqueueCrash(r, prio, door[1], sig, door[2])
    BY <1>2 DEF Produce
  <2>2. CASE EnqueueReplay(r, door[1], sig)
    <3>1. PICK req \in Requests : req = door[1]
      BY <2>2 DEF EnqueueReplay
    <3>2. /\ ReceiptAt(mem[r], req) # None /\ Grant(req, r, ReceiptAt(mem[r], req))
          /\ UNCHANGED <<mem, disk, drain, writes, retired, purged, crashes>>
      BY <2>2, <3>1 DEF EnqueueReplay, BoundAt, ReceiptAt
    <3> QED BY <1>1, <3>2, ReplayKeeps
  <2> QED BY <1>1, <2>1, <2>2, EnqueueStep, RefusedStep, EnqueueCrashStep
<1>3. ASSUME NEW r \in Recipients, NEW req \in Requests, ActivateReplay(r, req)
      PROVE  ReceiptsMinted' /\ Stored' /\ Owned' /\ Counted'
  <2>1. /\ ReceiptAt(mem[r], req) # None /\ Grant(req, r, ReceiptAt(mem[r], req))
        /\ UNCHANGED <<mem, disk, drain, writes, retired, purged, crashes>>
    BY <1>3 DEF ActivateReplay, ReceiptAt
  <2> QED BY <1>1, <2>1, ReplayKeeps
<1>4. CASE UNCHANGED vars
  BY <1>4 DEF vars, MessageInv, ReceiptsMinted, Stored, Owned, Busy, Counted, Accountable
<1> QED BY <1>1, <1>2, <1>3, <1>4, ActivateStep, ClaimStep, WriteStep, CommitStep, AckStep,
           PurgeStep, CrashStep DEF Next

LEMMA MessageInvariance == Spec => []MessageInv
<1> QED BY InitMessageInv, StepMessageInv, PTL DEF Spec

\* A message a producer was told is persisted stays, in memory and in the segment, until a
\* recipient acknowledges it or an operator flushes it (inbox.rs: enqueue_once, persist).
THEOREM NothingIsLost == Spec => []NoSilentLoss
<1>1. MessageInv => NoSilentLoss
  <2> SUFFICES ASSUME MessageInv, NEW r \in Recipients, NEW s \in accepted[r], NEW q \in {mem[r], disk[r]}
               PROVE  Kept(q, r, s)
    BY DEF NoSilentLoss
  <2>1. s \in Seqs /\ Sound(q, accepted[r], retired[r], purged[r])
    BY DEF MessageInv, ReceiptInv, TypeOK, Stored
  <2> QED BY <2>1 DEF Kept, Sound, Accounted
<1> QED BY <1>1, MessageInvariance, PTL

\* No message is delivered before an earlier plain one of its class, in memory or in what a
\* restart reads back (inbox.rs: head_enqueued, drain_one).
THEOREM FirstComeFirstServed == Spec => []FifoWithinClass
<1>1. MessageInv => FifoWithinClass
  BY DEF MessageInv, Stored, Sound, FifoWithinClass
<1> QED BY <1>1, MessageInvariance, PTL

\* With one drainer, or none who may flush, a message reaches the terminal once in a life of
\* the process (inbox.rs: drain_one).
THEOREM OneWriteInALife ==
  ASSUME Solo
  PROVE  Spec => []AtMostOncePerBoot
<1>1. MessageInv => AtMostOncePerBoot
  BY DEF MessageInv, ReceiptInv, TypeOK, Counted, AtMostOncePerBoot
<1> QED BY <1>1, MessageInvariance, PTL

\* Under the same condition Standard traffic fills max_depth places at most (inbox.rs:
\* enqueue_once).
THEOREM DepthIsBounded ==
  ASSUME Solo
  PROVE  Spec => []StandardDepthBounded
<1>1. MessageInv => StandardDepthBounded
  <2> SUFFICES ASSUME MessageInv, NEW r \in Recipients, NEW q \in {mem[r], disk[r]}
               PROVE  Cardinality(StandardOpen(q)) <= MaxDepth
    BY DEF StandardDepthBounded, StandardOpen
  <2> QED BY DEF MessageInv, Stored, Sound, Shallow
<1> QED BY <1>1, MessageInvariance, PTL

\* Under the same condition no message is written whose Delivered mark is durable
\* (inbox.rs: drain_one, load_segments).
THEOREM DeliveredStaysUnwritten ==
  ASSUME Solo
  PROVE  Spec => NeverRewriteDurablyDelivered
<1>1. MessageInv /\ [Next]_vars => WritesFreshOnly
  <2> SUFFICES ASSUME MessageInv, [Next]_vars, NEW r \in Recipients, NEW s \in Seqs,
                      writes'[r][s] > writes[r][s]
               PROVE  disk[r].slots[s].stage \notin {"delivered", "processed"}
    BY DEF WritesFreshOnly
  <2>1. writes \in [Recipients -> [Seqs -> Nat]]
    BY DEF MessageInv, ReceiptInv, TypeOK
  <2>2. writes' # writes
    BY <2>1
  <2>3. ASSUME NEW D, Restart(D) PROVE FALSE
    <3>1. writes'[r][s] = 0
      BY <2>3 DEF Restart
    <3> QED BY <2>1, <3>1
  <2>4. \E d \in Drainers : Write(d)
    <3>1. ~UNCHANGED vars
      BY <2>2 DEF vars
    <3>2. ASSUME NEW x \in Recipients PROVE ~Produce(x)
      BY <2>2, <2>3 DEF Produce, EnqueueReplay, Enqueue, EnqueueRefused, EnqueueCrash
    <3>3. ~Crash
      BY <2>3 DEF Crash
    <3> QED BY <2>2, <3>1, <3>2, <3>3 DEF Next, Activate, ActivateReplay, Claim, WriteError, Commit, Ack, Purge
  <2>5. PICK d \in Drainers : Write(d)
    BY <2>4
  <2>6. /\ Busy(d) /\ drain[d].to \in Recipients /\ drain[d].seq \in Seqs
        /\ writes' = [writes EXCEPT ![drain[d].to][drain[d].seq] = @ + 1]
    BY <2>5 DEF Write, Busy, MessageInv, ReceiptInv, TypeOK
  <2>7. drain[d].to = r /\ drain[d].seq = s
    BY <2>1, <2>6
  <2>8. Owns(drain[d], mem[r], disk[r])
    BY <2>6, <2>7 DEF MessageInv, Owned
  <2> QED BY <2>7, <2>8 DEF Owns
<1> QED BY <1>1, MessageInvariance, PTL DEF Spec, NeverRewriteDurablyDelivered

-----------------------------------------------------------------------------
(* Refinement: the segments are the ledger.                                *)

published == [r \in Recipients |-> [s \in Seqs |-> LedgerStatus(r, s)]]
bindings  == [q \in Requests |-> Binding(q)]

\* The same of any segments d: what a message of f is, and what a request stands for.
StatusIn(f, s) ==
  IF s >= f.nextSeq THEN "free"
  ELSE IF f.slots[s].stage = "none" THEN "gone" ELSE f.slots[s].stage

BoundIn(d, q) == {r \in Recipients : ReceiptAt(d[r], q) # None}

BindingIn(d, q) ==
  IF BoundIn(d, q) = {} THEN Nil
  ELSE LET r == CHOOSE x \in BoundIn(d, q) : TRUE IN <<r, ReceiptAt(d[r], q)>>

Once(d, q) == \A x, y \in BoundIn(d, q) : x = y

\* The two mapped variables, of the segments before and after a step.
LEMMA PublishedIs ==
  /\ disk \in [Recipients -> Queue] =>
       published = [r \in Recipients |-> [s \in Seqs |-> StatusIn(disk[r], s)]]
  /\ disk' \in [Recipients -> Queue] =>
       published' = [r \in Recipients |-> [s \in Seqs |-> StatusIn(disk'[r], s)]]
<1>1. \A s \in Seqs : s \in Int
  BY InboxAssumption DEF Seqs
<1>2. ASSUME disk \in [Recipients -> Queue], NEW r \in Recipients, NEW s \in Seqs
      PROVE  LedgerStatus(r, s) = StatusIn(disk[r], s)
  <2>1. disk[r].nextSeq \in Int
    BY <1>2, InboxAssumption DEF Queue
  <2> QED BY <1>1, <2>1 DEF LedgerStatus, StatusIn
<1>3. ASSUME disk' \in [Recipients -> Queue], NEW r \in Recipients, NEW s \in Seqs
      PROVE  LedgerStatus(r, s)' = StatusIn(disk'[r], s)
  <2>1. disk'[r].nextSeq \in Int
    BY <1>3, InboxAssumption DEF Queue
  <2> QED BY <1>1, <2>1 DEF LedgerStatus, StatusIn
<1> QED BY <1>2, <1>3 DEF published

LEMMA BindingIs ==
  ASSUME NEW d, NEW q \in Requests, Once(d, q)
  PROVE  /\ BoundIn(d, q) = {} => BindingIn(d, q) = Nil
         /\ \A r \in BoundIn(d, q) : BindingIn(d, q) = <<r, ReceiptAt(d[r], q)>>
<1>1. ASSUME NEW r \in BoundIn(d, q) PROVE BindingIn(d, q) = <<r, ReceiptAt(d[r], q)>>
  <2>1. PICK c : c = CHOOSE x \in BoundIn(d, q) : TRUE
    OBVIOUS
  <2>2. c \in BoundIn(d, q)
    BY <1>1, <2>1
  <2>3. c = r
    BY <2>2, Once(d, q) DEF Once
  <2> QED BY <1>1, <2>1, <2>3 DEF BindingIn
<1> QED BY <1>1 DEF BindingIn

LEMMA BindingsAre ==
  /\ (\A q \in Requests : Once(disk, q)) => bindings = [q \in Requests |-> BindingIn(disk, q)]
  /\ (\A q \in Requests : Once(disk', q)) => bindings' = [q \in Requests |-> BindingIn(disk', q)]
<1>1. ASSUME NEW q \in Requests, Once(disk, q) PROVE Binding(q) = BindingIn(disk, q)
  <2>1. CASE BoundIn(disk, q) = {}
    BY <2>1 DEF Binding, BindingIn, BoundIn, ReceiptAt
  <2>2. ASSUME NEW r \in BoundIn(disk, q) PROVE Binding(q) = BindingIn(disk, q)
    <3>1. PICK c : c = CHOOSE x \in Recipients : disk[x].receipts[q].seq # None
      OBVIOUS
    <3>2. c \in BoundIn(disk, q)
      BY <2>2, <3>1 DEF BoundIn, ReceiptAt
    <3>3. Binding(q) = <<c, ReceiptAt(disk[c], q)>>
      BY <3>1, <3>2 DEF Binding, BoundIn, ReceiptAt
    <3> QED BY <1>1, <3>2, <3>3, BindingIs
  <2> QED BY <2>1, <2>2
<1>2. ASSUME NEW q \in Requests, Once(disk', q) PROVE Binding(q)' = BindingIn(disk', q)
  <2>1. CASE BoundIn(disk', q) = {}
    BY <2>1 DEF Binding, BindingIn, BoundIn, ReceiptAt
  <2>2. ASSUME NEW r \in BoundIn(disk', q) PROVE Binding(q)' = BindingIn(disk', q)
    <3>1. PICK c : c = CHOOSE x \in Recipients : disk'[x].receipts[q].seq # None
      OBVIOUS
    <3>2. c \in BoundIn(disk', q)
      BY <2>2, <3>1 DEF BoundIn, ReceiptAt
    <3>3. Binding(q)' = <<c, ReceiptAt(disk'[c], q)>>
      BY <3>1, <3>2 DEF Binding, BoundIn, ReceiptAt
    <3> QED BY <1>2, <3>2, <3>3, BindingIs
  <2> QED BY <2>1, <2>2
<1> QED BY <1>1, <1>2 DEF bindings

\* A request keeps its binding when no receipt of it changes.
LEMMA BindingStays ==
  ASSUME NEW d, NEW e, NEW q \in Requests, Once(d, q),
         \A r \in Recipients : ReceiptAt(e[r], q) = ReceiptAt(d[r], q)
  PROVE  Once(e, q) /\ BindingIn(e, q) = BindingIn(d, q)
<1>1. BoundIn(e, q) = BoundIn(d, q) /\ Once(e, q)
  BY DEF BoundIn, Once
<1>2. \A r \in BoundIn(d, q) : ReceiptAt(e[r], q) = ReceiptAt(d[r], q)
  BY DEF BoundIn
<1>3. ASSUME NEW r \in BoundIn(d, q) PROVE BindingIn(e, q) = BindingIn(d, q)
  <2>1. PICK m : m = <<r, ReceiptAt(d[r], q)>>
    OBVIOUS
  <2>2. BindingIn(e, q) = m
    BY <1>1, <1>2, <1>3, <2>1, BindingIs
  <2>3. BindingIn(d, q) = m
    BY <1>3, <2>1, BindingIs
  <2> QED BY <2>2, <2>3
<1>4. BoundIn(d, q) = {} => BindingIn(e, q) = BindingIn(d, q)
  BY <1>1, BindingIs
<1> QED BY <1>1, <1>3, <1>4

\* What MessageInv says of the segments.
LEMMA SegmentFacts ==
  ASSUME MessageInv
  PROVE  /\ mem \in [Recipients -> Queue] /\ disk \in [Recipients -> Queue]
         /\ \A r \in Recipients : Ages(mem[r], disk[r]) /\ SameIndex(mem[r], disk[r])
         /\ \A q \in Requests : /\ Once(disk, q) /\ BoundIn(disk, q) = BoundAt(q)
         /\ granted \in [Requests -> SUBSET (Recipients \X Seqs)]
         /\ bindings = [q \in Requests |-> BindingIn(disk, q)]
         /\ published = [r \in Recipients |-> [s \in Seqs |-> StatusIn(disk[r], s)]]
<1>1. /\ mem \in [Recipients -> Queue] /\ disk \in [Recipients -> Queue]
      /\ granted \in [Requests -> SUBSET (Recipients \X Seqs)]
  BY DEF MessageInv, ReceiptInv, TypeOK
<1>2. \A r \in Recipients : Ages(mem[r], disk[r]) /\ SameIndex(mem[r], disk[r])
  BY DEF MessageInv, ReceiptInv, Stored, IndexSynced, SameIndex
<1>3. \A q \in Requests : BoundIn(disk, q) = BoundAt(q)
  BY <1>2 DEF BoundIn, BoundAt, SameIndex, ReceiptAt
<1>4. \A q \in Requests : Once(disk, q)
  BY <1>3 DEF Once, MessageInv, ReceiptInv, BoundOnce
<1> QED BY <1>1, <1>2, <1>3, <1>4, PublishedIs, BindingsAre

-----------------------------------------------------------------------------
\* What only ages moves its messages forward.
LEMMA AgesLater ==
  ASSUME Solo, NEW q \in Queue, NEW p \in Queue, Ages(p, q), NEW s \in Seqs
  PROVE  StatusIn(p, s) \in Ledger!Later(StatusIn(q, s))
<1>1. p.nextSeq = q.nextSeq /\ Reach(q.slots[s].stage, p.slots[s].stage)
  BY DEF Ages
<1>2. q.slots[s].stage \in Stages /\ p.slots[s].stage \in Stages
  BY DEF Queue, Slot
<1>3. PICK a, b : a = q.slots[s].stage /\ b = p.slots[s].stage
  OBVIOUS
<1>4. a = b \/ b = "none" \/ (a = "enqueued" /\ b \in {"delivered", "processed"})
      \/ (a = "delivered" /\ b = "processed")
  BY <1>1, <1>3 DEF Reach
<1>5. CASE s >= q.nextSeq
  BY <1>1, <1>5 DEF StatusIn, Ledger!Later
<1>6. CASE ~ (s >= q.nextSeq)
  <2>1. /\ StatusIn(q, s) = IF a = "none" THEN "gone" ELSE a
        /\ StatusIn(p, s) = IF b = "none" THEN "gone" ELSE b
    BY <1>1, <1>3, <1>6 DEF StatusIn
  <2> QED BY <1>2, <1>3, <1>4, <2>1 DEF Stages, Ledger!Later
<1> QED BY <1>5, <1>6

LEMMA StatusType ==
  ASSUME NEW q \in Queue, NEW s \in Seqs
  PROVE  StatusIn(q, s) \in Ledger!Status
<1>1. q.slots[s].stage \in Stages
  BY DEF Queue, Slot
<1> QED BY <1>1 DEF StatusIn, Stages, Ledger!Status

\* A write of r's segment in which all but the messages of E move forward.
LEMMA Publishing ==
  ASSUME MessageInv, NEW r \in Recipients, NEW p \in Queue, disk' = [disk EXCEPT ![r] = p],
         NEW E, \A s \in Seqs \ E : StatusIn(p, s) \in Ledger!Later(StatusIn(disk[r], s))
  PROVE  Ledger!Forward(r, E)
<1>1. disk \in [Recipients -> Queue] /\ disk' \in [Recipients -> Queue]
  BY SegmentFacts
<1>2. /\ published = [x \in Recipients |-> [s \in Seqs |-> StatusIn(disk[x], s)]]
      /\ published' = [x \in Recipients |-> [s \in Seqs |-> StatusIn(disk'[x], s)]]
  BY <1>1, PublishedIs
<1>3. published' \in [Recipients -> [Ledger!Seqs -> Ledger!Status]]
  <2>1. \A x \in Recipients, s \in Seqs : StatusIn(disk'[x], s) \in Ledger!Status
    BY <1>1, StatusType
  <2> QED BY <1>2, <2>1 DEF Ledger!Seqs, Seqs
<1>4. \A o \in Recipients \ {r} : published'[o] = published[o]
  BY <1>1, <1>2
<1>5. \A s \in Ledger!Seqs \ E : published'[r][s] \in Ledger!Later(published[r][s])
  <2>1. \A s \in Seqs : published'[r][s] = StatusIn(p, s) /\ published[r][s] = StatusIn(disk[r], s)
    BY <1>1, <1>2
  <2>2. Ledger!Seqs = Seqs
    BY DEF Ledger!Seqs, Seqs
  <2> QED BY <2>1, <2>2
<1> QED BY <1>3, <1>4, <1>5 DEF Ledger!Forward, published

\* A step of the ledger, or none.
LedgerMoves == [Ledger!Next]_<<published, bindings, granted>>

LEMMA Stays ==
  ASSUME disk' = disk, granted' = granted
  PROVE  LedgerMoves
BY DEF LedgerMoves, published, bindings, LedgerStatus, Binding

\* A write of a queue that only ages moves its messages forward.
LEMMA Advances ==
  ASSUME MessageInv, Solo, NEW r \in Recipients, NEW p \in Queue, Ages(p, mem[r]),
         SameIndex(p, mem[r]), disk' = [disk EXCEPT ![r] = p], granted' = granted
  PROVE  Ledger!Next
<1>1. /\ mem[r] \in Queue /\ disk[r] \in Queue /\ disk \in [Recipients -> Queue]
      /\ Ages(mem[r], disk[r]) /\ SameIndex(mem[r], disk[r])
  BY SegmentFacts
<1>2. Ages(p, disk[r])
  BY <1>1, AgesOn
<1>3. \A s \in Seqs : StatusIn(p, s) \in Ledger!Later(StatusIn(disk[r], s))
  BY <1>1, <1>2, AgesLater
<1>4. Ledger!Forward(r, {})
  BY <1>3, Publishing
<1>5. \A q \in Requests, x \in Recipients : ReceiptAt(disk'[x], q) = ReceiptAt(disk[x], q)
  BY <1>1 DEF SameIndex
<1>6. bindings' = bindings
  <2>1. \A q \in Requests : Once(disk, q)
    BY SegmentFacts
  <2>2. \A q \in Requests : Once(disk', q) /\ BindingIn(disk', q) = BindingIn(disk, q)
    BY <1>5, <2>1, BindingStays
  <2> QED BY <2>1, <2>2, BindingsAre
<1>7. Ledger!Advance(r)
  BY <1>4, <1>6 DEF Ledger!Advance, bindings
<1>8. \E x \in Recipients : Ledger!Advance(x)
  BY <1>7
<1> QED BY <1>8 DEF Ledger!Next

\* A best-effort write of a queue that only ages is an advance, or nothing.
LEMMA Persists ==
  ASSUME MessageInv, Solo, NEW r \in Recipients, NEW p \in Queue, Ages(p, mem[r]),
         SameIndex(p, mem[r]), PersistBestEffort(r, p), granted' = granted
  PROVE  LedgerMoves
<1>1. CASE disk' = disk
  BY <1>1, Stays
<1>2. CASE disk' = [disk EXCEPT ![r] = p]
  <2>1. Ledger!Next
    BY <1>2, Advances
  <2> QED BY <2>1, Zenon DEF LedgerMoves
<1> QED BY <1>1, <1>2 DEF PersistBestEffort

\* A repeated request is told the message it stands for.
LEMMA Replays ==
  ASSUME MessageInv, NEW r \in Recipients, NEW req \in Requests,
         mem[r].receipts[req].seq # None, Grant(req, r, mem[r].receipts[req].seq), disk' = disk
  PROVE  Ledger!Next
<1>1. /\ SameIndex(mem[r], disk[r]) /\ Once(disk, req) /\ bindings[req] = BindingIn(disk, req)
      /\ granted \in [Requests -> SUBSET (Recipients \X Seqs)]
  BY SegmentFacts
<1>2. r \in BoundIn(disk, req) /\ ReceiptAt(disk[r], req) = ReceiptAt(mem[r], req)
  BY <1>1 DEF SameIndex, BoundIn, ReceiptAt
<1>3. BindingIn(disk, req) = <<r, ReceiptAt(disk[r], req)>>
  BY <1>1, <1>2, BindingIs
<1>4. PICK m : m = <<r, ReceiptAt(mem[r], req)>>
  OBVIOUS
<1>5. bindings[req] = m /\ m # Nil
  <2>1. mem[r].receipts[req].seq \in Seqs
    BY SegmentFacts DEF Queue, Receipt
  <2>2. m \in Recipients \X Nat
    BY <1>4, <2>1, InboxAssumption DEF Seqs, ReceiptAt
  <2> QED BY <1>1, <1>2, <1>3, <1>4, <2>2, InboxAssumption
<1>6. published' = published /\ bindings' = bindings
  BY DEF published, bindings, LedgerStatus, Binding
<1>7. granted' = [granted EXCEPT ![req] = @ \cup {m}]
  BY <1>1, <1>4 DEF Grant, ReceiptAt
<1>8. Ledger!Replay(req)
  BY <1>5, <1>6, <1>7 DEF Ledger!Replay, Ledger!Told, published, bindings
<1>9. \E q \in Requests : Ledger!Replay(q)
  BY <1>8
<1> QED BY <1>9 DEF Ledger!Next

LEMMA AcceptIsNext ==
  ASSUME NEW r \in Recipients, NEW n \in Seqs, NEW stage \in {"held", "enqueued"},
         NEW req \in Requests \cup {Nil}, Ledger!Accept(r, n, stage, req)
  PROVE  Ledger!Next
<1>1. \E x \in Recipients, s \in Ledger!Seqs, status \in {"held", "enqueued"},
         q \in Requests \cup {Nil} : Ledger!Accept(x, s, status, q)
  <2>1. n \in Ledger!Seqs
    BY DEF Ledger!Seqs, Seqs
  <2> QED BY <2>1, Zenon DEF LedgerMoves
<1> QED BY <1>1 DEF Ledger!Next

\* A new message reaches the segment, with or without a reply to its producer.
LEMMA Accepts ==
  ASSUME MessageInv, Solo, NEW r \in Recipients, NEW prio \in Priorities, NEW door \in Doors,
         NEW sig \in Signatures, Admits(r, prio, door[1]),
         disk' = [disk EXCEPT ![r] = Push(mem[r], prio, door[1], sig, door[2])],
         granted' = granted \/ Grant(door[1], r, mem[r].nextSeq)
  PROVE  Ledger!Next
<1>1. PICK req, stage, p, n, d, e :
        /\ req = door[1] /\ stage = door[2] /\ p = Push(mem[r], prio, req, sig, stage)
        /\ n = mem[r].nextSeq /\ d = disk /\ e = disk'
  OBVIOUS
<1>2. /\ req \in Requests \cup {Nil} /\ stage \in {"held", "enqueued"} /\ stage \in Stages
  BY <1>1, DoorType
<1>3. /\ mem[r] \in Queue /\ disk[r] \in Queue /\ disk \in [Recipients -> Queue]
      /\ Ages(mem[r], disk[r]) /\ SameIndex(mem[r], disk[r])
      /\ granted \in [Requests -> SUBSET (Recipients \X Seqs)]
  BY SegmentFacts
<1>4. n < MaxMessages /\ disk[r].nextSeq = n
  BY <1>1, <1>3 DEF Admits, Ages
<1>5. p \in Queue
  BY <1>1, <1>2, <1>3, <1>4, PushType
<1>6. /\ n \in Seqs /\ p.nextSeq = n + 1 /\ p.slots[n] = [stage |-> stage, prio |-> prio, req |-> req]
      /\ \A s \in Seqs \ {n} : p.slots[s] = mem[r].slots[s]
  BY <1>1, <1>2, <1>3, <1>4, PushSlots
<1>7. \A x \in Requests : ReceiptAt(p, x) = IF x = req THEN n ELSE ReceiptAt(mem[r], x)
  <2>1. PICK q \in Queue : q = mem[r]
    BY <1>3
  <2>2. p = Push(q, prio, req, sig, stage) /\ n = q.nextSeq
    BY <1>1, <2>1
  <2>3. \A x \in Requests : ReceiptAt(p, x) = IF x = req THEN q.nextSeq ELSE ReceiptAt(q, x)
    BY <1>2, <1>4, <2>2, PushIndex
  <2> QED BY <2>1, <2>2, <2>3
<1>8. disk' = [disk EXCEPT ![r] = p] /\ disk' \in [Recipients -> Queue]
  BY <1>1, <1>3, <1>5
<1>9. n \in Nat /\ \A s \in Seqs : s \in Nat
  BY <1>6 DEF Seqs
<1>10. \A s \in Seqs \ {n} : StatusIn(p, s) \in Ledger!Later(StatusIn(disk[r], s))
  <2> SUFFICES ASSUME NEW s \in Seqs \ {n} PROVE StatusIn(p, s) \in Ledger!Later(StatusIn(disk[r], s))
    OBVIOUS
  <2>1. StatusIn(mem[r], s) \in Ledger!Later(StatusIn(disk[r], s))
    BY <1>3, AgesLater
  <2>2. StatusIn(p, s) = StatusIn(mem[r], s)
    <3>1. (s >= n + 1) <=> (s >= n)
      BY <1>9
    <3> QED BY <1>1, <1>6, <3>1 DEF StatusIn
  <2> QED BY <2>1, <2>2
<1>11. Ledger!Forward(r, {n})
  BY <1>5, <1>8, <1>10, Publishing
<1>12. /\ \A s \in Seqs : published[r][s] = StatusIn(disk[r], s)
       /\ \A s \in Seqs : published'[r][s] = StatusIn(p, s)
  BY <1>3, <1>8, PublishedIs
<1>13. published'[r][n] = stage
  BY <1>2, <1>6, <1>9, <1>12 DEF StatusIn
<1>14. Ledger!FirstFree(published[r], n)
  <2>1. published[r][n] = "free"
    BY <1>4, <1>6, <1>9, <1>12 DEF StatusIn
  <2>2. \A t \in Seqs : t < n => published[r][t] # "free"
    <3> SUFFICES ASSUME NEW t \in Seqs, t < n PROVE StatusIn(disk[r], t) # "free"
      BY <1>12
    <3>1. ~ (t >= disk[r].nextSeq)
      BY <1>4, <1>9
    <3>2. disk[r].slots[t].stage \in Stages
      BY <1>3 DEF Queue, Slot
    <3> QED BY <3>1, <3>2 DEF StatusIn, Stages
  <2>3. Ledger!Seqs = Seqs
    BY DEF Ledger!Seqs, Seqs
  <2> QED BY <2>1, <2>2, <2>3 DEF Ledger!FirstFree
<1>15. \A q \in Requests \ {req} :
         Once(disk', q) /\ BindingIn(disk', q) = BindingIn(disk, q)
  <2> SUFFICES ASSUME NEW q \in Requests \ {req}
               PROVE  Once(disk', q) /\ BindingIn(disk', q) = BindingIn(disk, q)
    OBVIOUS
  <2>1. Once(disk, q)
    BY SegmentFacts
  <2>2. \A x \in Recipients : ReceiptAt(disk'[x], q) = ReceiptAt(disk[x], q)
    BY <1>3, <1>7, <1>8 DEF SameIndex
  <2> QED BY <2>1, <2>2, BindingStays
<1>16. CASE req = Nil
  <2>1. \A q \in Requests : Once(disk', q) /\ Once(disk, q) /\ BindingIn(disk', q) = BindingIn(disk, q)
    BY <1>15, <1>16, SegmentFacts, InboxAssumption
  <2>2. bindings' = bindings
    BY <2>1, BindingsAre
  <2>3. granted' = granted
    BY <1>1, <1>3, <1>16, InboxAssumption DEF Grant
  <2>4. Ledger!Accept(r, n, stage, Nil)
    BY <1>11, <1>13, <1>14, <2>2, <2>3 DEF Ledger!Accept, published, bindings
  <2> QED BY <1>2, <1>6, <2>4, AcceptIsNext
<1>17. CASE req \in Requests
  <2>1. /\ BoundIn(disk, req) = {} /\ Once(disk, req)
        /\ bindings = [q \in Requests |-> BindingIn(disk, q)]
    BY <1>1, <1>17, SegmentFacts DEF Admits
  <2>2. BoundIn(disk', req) = {r} /\ ReceiptAt(disk'[r], req) = n
    <3>1. ReceiptAt(disk'[r], req) = n /\ n # None
      BY <1>3, <1>6, <1>7, <1>8, <1>17, NoneIsNoSeq
    <3>2. \A x \in Recipients \ {r} : disk'[x] = disk[x]
      BY <1>3, <1>8
    <3> QED BY <2>1, <3>1, <3>2 DEF BoundIn
  <2>3. Once(disk', req)
    BY <2>2 DEF Once
  <2>4. PICK m : m = <<r, n>>
    OBVIOUS
  <2>5. BindingIn(disk', req) = m
    BY <1>17, <2>2, <2>3, <2>4, BindingIs
  <2>6. bindings[req] = Nil
    BY <1>17, <2>1, BindingIs
  <2>7. bindings' = [bindings EXCEPT ![req] = m]
    <3>1. \A q \in Requests : Once(disk', q)
      BY <1>15, <2>3
    <3>2. bindings' = [q \in Requests |-> BindingIn(disk', q)]
      BY <3>1, BindingsAre
    <3> QED BY <1>15, <2>1, <2>5, <3>2
  <2>8. bindings'[req] = m
    BY <1>17, <2>1, <2>7
  <2>9. granted' = granted \/ granted' = [granted EXCEPT ![req] = @ \cup {m}]
    BY <1>1, <1>3, <2>4 DEF Grant
  <2>10. granted' \in {granted, Ledger!Told(req)}
    BY <2>8, <2>9 DEF Ledger!Told, bindings
  <2>11. Ledger!Accept(r, n, stage, req)
    BY <1>11, <1>13, <1>14, <1>17, <2>4, <2>6, <2>7, <2>10 DEF Ledger!Accept, published, bindings
  <2> QED BY <1>2, <1>6, <2>11, AcceptIsNext
<1> QED BY <1>2, <1>16, <1>17

\* A prepared message becomes deliverable.
LEMMA Activates ==
  ASSUME MessageInv, Solo, NEW r \in Recipients, NEW req \in Requests, NEW n \in Seqs,
         n = mem[r].receipts[req].seq, mem[r].slots[n].stage = "held",
         disk' = [disk EXCEPT ![r] = SetStage(mem[r], n, "enqueued")], Grant(req, r, n)
  PROVE  Ledger!Next
<1>1. PICK p : p = SetStage(mem[r], n, "enqueued")
  OBVIOUS
<1>2. /\ mem[r] \in Queue /\ disk[r] \in Queue /\ disk \in [Recipients -> Queue]
      /\ Ages(mem[r], disk[r]) /\ SameIndex(mem[r], disk[r])
      /\ granted \in [Requests -> SUBSET (Recipients \X Seqs)]
  BY SegmentFacts
<1>3. "enqueued" \in Stages
  BY DEF Stages
<1>4. p \in Queue /\ SameIndex(p, mem[r])
  BY <1>1, <1>2, <1>3, SetStageType, SetStageIndex
<1>5. /\ p.nextSeq = mem[r].nextSeq
      /\ \A t \in Seqs : p.slots[t].stage = IF t = n THEN "enqueued" ELSE mem[r].slots[t].stage
  <2>1. Restaged(p, mem[r], n, "enqueued")
    BY <1>1, <1>2, <1>3, SetStageSlots
  <2> QED BY <2>1 DEF Restaged
<1>6. disk' = [disk EXCEPT ![r] = p] /\ disk' \in [Recipients -> Queue]
  BY <1>1, <1>2, <1>4
<1>7. disk[r].slots[n].stage = "held" /\ n < mem[r].nextSeq /\ disk[r].nextSeq = mem[r].nextSeq
  <2>1. Reach(disk[r].slots[n].stage, "held")
    BY <1>2 DEF Ages
  <2>2. n < mem[r].nextSeq
    BY DEF MessageInv, Stored, Sound, Minted
  <2> QED BY <1>2, <2>1, <2>2 DEF Reach, Ages
<1>8. \A s \in Seqs \ {n} : StatusIn(p, s) \in Ledger!Later(StatusIn(disk[r], s))
  <2>1. \A s \in Seqs \ {n} : StatusIn(p, s) = StatusIn(mem[r], s)
    BY <1>5 DEF StatusIn
  <2>2. \A s \in Seqs : StatusIn(mem[r], s) \in Ledger!Later(StatusIn(disk[r], s))
    BY <1>2, AgesLater
  <2> QED BY <2>1, <2>2
<1>9. Ledger!Forward(r, {n})
  BY <1>4, <1>6, <1>8, Publishing
<1>10. published[r][n] = "held" /\ published'[r][n] = "enqueued"
  <2>1. published[r][n] = StatusIn(disk[r], n) /\ published'[r][n] = StatusIn(p, n)
    BY <1>2, <1>6, PublishedIs
  <2>2. ~ (n >= mem[r].nextSeq)
    <3>1. mem[r].nextSeq \in Int /\ n \in Int
      BY <1>2, InboxAssumption DEF Queue, Seqs
    <3> QED BY <1>7, <3>1
  <2> QED BY <1>5, <1>7, <2>1, <2>2 DEF StatusIn
<1>11. bindings' = bindings
  <2>1. \A q \in Requests, x \in Recipients : ReceiptAt(disk'[x], q) = ReceiptAt(disk[x], q)
    BY <1>2, <1>4, <1>6 DEF SameIndex
  <2>2. \A q \in Requests : Once(disk, q)
    BY SegmentFacts
  <2>3. \A q \in Requests : Once(disk', q) /\ BindingIn(disk', q) = BindingIn(disk, q)
    BY <2>1, <2>2, BindingStays
  <2> QED BY <2>2, <2>3, BindingsAre
<1>12. PICK m : m = <<r, n>>
  OBVIOUS
<1>13. bindings[req] = m
  <2>1. Once(disk, req) /\ bindings[req] = BindingIn(disk, req)
    BY SegmentFacts
  <2>2. ReceiptAt(disk[r], req) = n /\ n # None
    BY <1>2, NoneIsNoSeq DEF SameIndex, ReceiptAt
  <2>3. r \in BoundIn(disk, req)
    BY <2>2 DEF BoundIn
  <2> QED BY <1>12, <2>1, <2>2, <2>3, BindingIs
<1>14. granted' = [granted EXCEPT ![req] = @ \cup {m}]
  BY <1>2, <1>12 DEF Grant
<1>15. Ledger!Activate(r, n, req)
  BY <1>9, <1>10, <1>11, <1>12, <1>13, <1>14 DEF Ledger!Activate, Ledger!Told, published, bindings
<1>16. \E x \in Recipients, s \in Ledger!Seqs, q \in Requests : Ledger!Activate(x, s, q)
  BY <1>15 DEF Ledger!Seqs, Seqs
<1> QED BY <1>16 DEF Ledger!Next

LEMMA LedgerStep ==
  ASSUME MessageInv, Solo, [Next]_vars
  PROVE  LedgerMoves
<1>0. \A r \in Recipients : mem[r] \in Queue
  BY SegmentFacts
<1>1. CASE UNCHANGED vars
  BY <1>1, Stays DEF vars
<1>2. ASSUME NEW r \in Recipients, Produce(r)
      PROVE  LedgerMoves
  <2>1. PICK prio \in Priorities, door \in Doors, sig \in Signatures :
          \/ EnqueueReplay(r, door[1], sig)
          \/ Enqueue(r, prio, door[1], sig, door[2])
          \/ EnqueueRefused(r, prio, door[1], sig, door[2])
          \/ EnqueueCrash(r, prio, door[1], sig, door[2])
    BY <1>2 DEF Produce
  <2>2. CASE EnqueueReplay(r, door[1], sig)
    <3>1. PICK req \in Requests : req = door[1]
      BY <2>2 DEF EnqueueReplay
    <3>2. /\ mem[r].receipts[req].seq # None /\ disk' = disk
          /\ Grant(req, r, mem[r].receipts[req].seq)
      BY <2>2, <3>1 DEF EnqueueReplay, BoundAt
    <3>3. Ledger!Next
      BY <3>2, Replays
    <3> QED BY <3>3, Zenon DEF LedgerMoves
  <2>3. CASE Enqueue(r, prio, door[1], sig, door[2]) \/ EnqueueCrash(r, prio, door[1], sig, door[2])
    <3>1. /\ Admits(r, prio, door[1])
          /\ disk' = [disk EXCEPT ![r] = Push(mem[r], prio, door[1], sig, door[2])]
          /\ granted' = granted \/ Grant(door[1], r, mem[r].nextSeq)
      BY <2>3 DEF Enqueue, EnqueueCrash, history
    <3>2. Ledger!Next
      BY <3>1, Accepts
    <3> QED BY <3>2, Zenon DEF LedgerMoves
  <2>4. CASE EnqueueRefused(r, prio, door[1], sig, door[2])
    <3>1. disk' = disk /\ granted' = granted
      BY <2>4 DEF EnqueueRefused, history
    <3> QED BY <3>1, Stays
  <2> QED BY <2>1, <2>2, <2>3, <2>4
<1>3. ASSUME NEW r \in Recipients, NEW req \in Requests, Activate(r, req)
      PROVE  LedgerMoves
  <2>1. PICK n : n = mem[r].receipts[req].seq
    OBVIOUS
  <2>2. n \in Seqs /\ mem[r].slots[n].stage = "held"
    BY <1>0, <1>3, <2>1 DEF Activate, Queue, Receipt
  <2>3. CASE disk' = [disk EXCEPT ![r] = SetStage(mem[r], n, "enqueued")] /\ Grant(req, r, n)
    <3>1. Ledger!Next
      BY <2>1, <2>2, <2>3, Activates
    <3> QED BY <3>1, Zenon DEF LedgerMoves
  <2>4. CASE disk' = disk /\ granted' = granted
    BY <2>4, Stays
  <2> QED BY <1>3, <2>1, <2>3, <2>4 DEF Activate
<1>4. ASSUME NEW r \in Recipients, NEW req \in Requests, ActivateReplay(r, req)
      PROVE  LedgerMoves
  <2>1. Ledger!Next
    BY <1>4, Replays DEF ActivateReplay
  <2> QED BY <2>1, Zenon DEF LedgerMoves
<1>5. ASSUME NEW d \in Drainers, NEW r \in Recipients, Claim(d, r)
      PROVE  LedgerMoves
  <2>0. PICK n \in Seqs : PersistBestEffort(r, [mem[r] EXCEPT !.inflight = n])
    BY <1>5 DEF Claim
  <2>1. PICK p : p = [mem[r] EXCEPT !.inflight = n] /\ PersistBestEffort(r, p)
    BY <2>0
  <2>2. p \in Queue /\ SameIndex(p, mem[r]) /\ Ages(p, mem[r])
    BY <1>0, <2>1, InflightType, InflightIndex, InflightAges
  <2>3. granted' = granted
    BY <1>5 DEF Claim, history
  <2> QED BY <2>1, <2>2, <2>3, Persists
<1>6. ASSUME NEW d \in Drainers, Write(d) \/ WriteError(d)
      PROVE  LedgerMoves
  BY <1>6, Stays DEF Write, WriteError, history
<1>7. ASSUME NEW d \in Drainers, Commit(d)
      PROVE  LedgerMoves
  <2>1. PICK r, n : r = drain[d].to /\ n = drain[d].seq
    OBVIOUS
  <2>2. Busy(d) /\ r \in Recipients /\ n \in Seqs
    BY <1>7, <2>1 DEF Commit, Busy, MessageInv, ReceiptInv, TypeOK
  <2>3. Owns(drain[d], mem[r], disk[r])
    BY <2>1, <2>2 DEF MessageInv, Owned
  <2>4. mem[r].slots[n].stage \in {"none", "enqueued"}
    BY <2>1, <2>3 DEF Owns
  <2>5. PICK p : /\ p = Delivered(mem[r], n) \/ p = [mem[r] EXCEPT !.inflight = None]
                 /\ PersistBestEffort(r, p)
    BY <1>7, <2>1 DEF Commit
  <2>6. granted' = granted
    BY <1>7 DEF Commit, history
  <2>7. CASE p = Delivered(mem[r], n)
    <3>1. p \in Queue /\ SameIndex(p, mem[r]) /\ Ages(p, mem[r])
      BY <1>0, <2>2, <2>4, <2>7, DeliveredType, DeliveredIndex, DeliveredAges
    <3> QED BY <2>2, <2>5, <2>6, <3>1, Persists
  <2>8. CASE p = [mem[r] EXCEPT !.inflight = None]
    <3>1. p \in Queue /\ SameIndex(p, mem[r]) /\ Ages(p, mem[r])
      BY <1>0, <2>2, <2>8, InflightType, InflightIndex, InflightAges
    <3> QED BY <2>2, <2>5, <2>6, <3>1, Persists
  <2> QED BY <2>5, <2>7, <2>8
<1>8. ASSUME NEW r \in Recipients, NEW s \in Seqs, Ack(r, s)
      PROVE  LedgerMoves
  <2>1. PICK q, o, p : q = mem[r] /\ o = SetStage(q, s, "processed") /\ p = Compact(o)
    OBVIOUS
  <2>2. q.slots[s].stage = "delivered" /\ PersistBestEffort(r, p) /\ granted' = granted
    BY <1>8, <2>1 DEF Ack
  <2>3. q \in Queue /\ o \in Queue /\ SameIndex(o, q)
    BY <1>0, <2>1, SetStageType, SetStageIndex DEF Stages
  <2>4. p \in Queue /\ SameIndex(p, o)
    BY <2>1, <2>3, CompactType, CompactIndex
  <2>5. SameIndex(p, q)
    BY <2>3, <2>4 DEF SameIndex
  <2>6. p = Compact(SetStage(q, s, "processed"))
    BY <2>1
  <2>7. Ages(p, q)
    BY <2>2, <2>3, <2>6, AckAges
  <2> QED BY <2>1, <2>2, <2>4, <2>5, <2>7, Persists
<1>9. ASSUME NEW r \in Recipients, Purge(r)
      PROVE  LedgerMoves
  <2>1. PICK p : p = [mem[r] EXCEPT !.inflight = None, !.slots = [s \in Seqs |-> EmptySlot]]
    OBVIOUS
  <2>2. PersistBestEffort(r, p) /\ granted' = granted
    BY <1>9, <2>1 DEF Purge
  <2>3. p \in Queue /\ SameIndex(p, mem[r]) /\ Ages(p, mem[r])
    BY <1>0, <2>1, FlushType, FlushIndex, FlushAges
  <2> QED BY <2>2, <2>3, Persists
<1>10. CASE Crash
  BY <1>10, Stays DEF Crash, history
<1>11. CASE Next
  <2>1. \/ \E r \in Recipients : Produce(r)
        \/ \E r \in Recipients, req \in Requests : Activate(r, req)
        \/ \E r \in Recipients, req \in Requests : ActivateReplay(r, req)
        \/ \E d \in Drainers, r \in Recipients : Claim(d, r)
        \/ \E d \in Drainers : Write(d) \/ WriteError(d)
        \/ \E d \in Drainers : Commit(d)
        \/ \E r \in Recipients, s \in Seqs : Ack(r, s)
        \/ \E r \in Recipients : Purge(r)
        \/ Crash
    BY <1>11, Zenon DEF Next
  <2> QED BY <2>1, <1>2, <1>3, <1>4, <1>5, <1>6, <1>7, <1>8, <1>9, <1>10, Zenon
<1> QED BY <1>1, <1>11

LEMMA LedgerInit == Init => Ledger!Init
<1> SUFFICES ASSUME Init PROVE Ledger!Init
  OBVIOUS
<1>1. disk = [r \in Recipients |-> EmptyQueue] /\ disk \in [Recipients -> Queue]
      /\ granted = [q \in Requests |-> {}]
  BY EmptyQueueType DEF Init
<1>2. \A r \in Recipients, s \in Seqs : StatusIn(disk[r], s) = "free"
  BY <1>1, InboxAssumption DEF StatusIn, EmptyQueue, Seqs
<1>3. published = [r \in Recipients |-> [s \in Ledger!Seqs |-> "free"]]
  BY <1>1, <1>2, PublishedIs DEF Ledger!Seqs, Seqs
<1>4. \A q \in Requests : BoundIn(disk, q) = {} /\ Once(disk, q)
  BY <1>1 DEF BoundIn, Once, ReceiptAt, EmptyQueue, NoReceipt
<1>5. bindings = [q \in Requests |-> Nil]
  BY <1>4, BindingsAre, BindingIs
<1> QED BY <1>1, <1>3, <1>5 DEF Ledger!Init, published, bindings

\* With one drainer, or none who may flush, the published segments are the ledger the
\* store's documentation promises, over failed segment writes, lost replies and deaths
\* (inbox.rs: module documentation).
THEOREM SegmentsAreTheLedger ==
  ASSUME Solo
  PROVE  Spec => ImplementsLedger
<1>1. MessageInv /\ [Next]_vars => [Ledger!Next]_<<published, bindings, granted>>
  BY LedgerStep DEF LedgerMoves
<1> QED BY <1>1, LedgerInit, MessageInvariance, PTL
        DEF Spec, ImplementsLedger, Ledger!Spec, Ledger!vars, published, bindings
=============================================================================
