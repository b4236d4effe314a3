------------------------------ MODULE Journal ------------------------------
(***************************************************************************)
(* The event journal (t-hub-agent/src/journal.rs): an append-only file of  *)
(* records and head.json, the published allocation state, shared by the    *)
(* long-lived agent and by one short-lived process per hook.               *)
(*                                                                         *)
(* Every method holds the interprocess lock from its first read to its     *)
(* last write, so a completed call is one action.  A process can be killed *)
(* inside the lock: mid-line, between the line and head.json, between the  *)
(* renamed compaction and head.json, or between a repair's truncation and  *)
(* head.json (an append whose head.json cannot be written answers Err and  *)
(* leaves the same files).  Each of those points has its own action.       *)
(*                                                                         *)
(* A record is one line.  Lengths are counted in half lines, so that a     *)
(* torn fragment is shorter than any line; payloads are left out, and so   *)
(* are the size limits and records written before seqs were persisted.     *)
(***************************************************************************)
EXTENDS Integers, Sequences, FiniteSets, SequencesExt

CONSTANTS
  Identities,   \* provider event ids
  NoId,          \* an event without one
  Window,       \* MAX_RECENT_EVENT_IDS
  MaxSeq        \* bound: sequence numbers handed out

ASSUME JournalAssumption ==
  /\ NoId \notin Identities
  /\ Window \in Nat \ {0}
  /\ MaxSeq \in Nat

VARIABLES
  log,      \* the complete records of events.ndjson
  torn,     \* whether a partial line follows them
  head,     \* head.json: HeadState
  stored    \* history: every record ever made durable

journalVars == <<log, torn, head, stored>>

Kinds  == {"event", "status"}
Record == [seq : 1 .. MaxSeq, kind : Kinds \cup {"mark"},
           id : Identities \cup {NoId}, size : {2, 3}]
Recent == [seq : 1 .. MaxSeq, id : Identities]

-----------------------------------------------------------------------------
(* What a scan of the file finds.                                          *)

\* The number a scan gives a record that follows one numbered n.
Numbered(n, r) == IF r.seq > n THEN r.seq ELSE n + 1

Others(recent, id) == RemoveFirstMatch(recent, LAMBDA k : k.id = id)

\* remember_event_id: the newest Window identities, oldest first.
Remember(recent, id, seq) ==
  IF id = NoId THEN recent
  ELSE LET all == Append(Others(recent, id), [seq |-> seq, id |-> id])
           n == Len(all)
       IN  SubSeq(all, IF n > Window THEN n - Window + 1 ELSE 1, n)

NoHead == [seq |-> 0, len |-> 0, recent |-> << >>]

\* What one more line makes of a head.
Advanced(h, r) ==
  LET n == Numbered(h.seq, r)
  IN  [seq |-> n, len |-> h.len + r.size, recent |-> Remember(h.recent, r.id, n)]

\* recover_head
Scanned(records) ==
  LET upTo[k \in 0 .. Len(records)] ==
        IF k = 0 THEN NoHead ELSE Advanced(upTo[k - 1], records[k])
  IN  upTo[Len(records)]

Bytes(records)   == Scanned(records).len
LastSeq(records) == Scanned(records).seq

FileLen == Bytes(log) + (IF torn THEN 1 ELSE 0)

\* authoritative_head_locked: head.json while it covers the file exactly, else a
\* scan; the scan also cuts the torn tail and publishes what it found.
Authoritative == IF head.len = FileLen THEN head ELSE Scanned(log)

Repaired == head' = Authoritative /\ torn' = (torn /\ head.len = FileLen)

Known(id) == id # NoId /\ \E i \in DOMAIN Authoritative.recent :
                            Authoritative.recent[i].id = id

Line(kind, id) ==
  [seq |-> Authoritative.seq + 1, kind |-> kind, id |-> id, size |-> 2]

Keep(kept, r) == IF r.kind = "event" THEN Append(kept, r) ELSE kept

Events(records) ==
  LET kept[k \in 0 .. Len(records)] ==
        IF k = 0 THEN << >> ELSE Keep(kept[k - 1], records[k])
  IN  kept[Len(records)]

CompactedUnmarked == Events(log)

\* What compact_dropping_status writes: status snapshots and old watermarks go, and a
\* watermark keeps the head's number when its record went, padded when the new file
\* would be as long as the old one.
Compacted ==
  LET kept == Events(log)
      last == LastSeq(log)
      mark == [seq |-> last, kind |-> "mark", id |-> NoId,
               size |-> IF Bytes(kept) + 2 = Bytes(log) THEN 3 ELSE 2]
  IN  IF LastSeq(kept) < last THEN Append(kept, mark) ELSE kept

-----------------------------------------------------------------------------
JournalInit ==
  /\ log = << >>
  /\ torn = FALSE
  /\ head = NoHead
  /\ stored = {}

\* The durable half of append, shared by the call that completes and the one that
\* is killed (or fails) before head.json is published.
Write(kind, id) ==
  /\ kind = "status" => id = NoId
  /\ ~Known(id)
  /\ Authoritative.seq < MaxSeq
  /\ log' = Append(log, Line(kind, id))
  /\ stored' = stored \cup {Line(kind, id)}

AppendForgetful(kind, id) ==
  /\ Write(kind, id)
  /\ torn' = FALSE
  /\ head' = [seq |-> Line(kind, id).seq, len |-> Bytes(log'),
              recent |-> Authoritative.recent]

\* append
AppendEntry(kind, id) ==
  /\ Write(kind, id)
  /\ torn' = FALSE
  /\ head' = [seq |-> Line(kind, id).seq, len |-> Bytes(log'),
              recent |-> Remember(Authoritative.recent, id, Line(kind, id).seq)]

RepairToHead ==
  /\ head.len < FileLen
  /\ log' \in {p \in Prefixes(log) : Bytes(p) = head.len}
  /\ torn' = FALSE
  /\ UNCHANGED <<head, stored>>

\* append of an identity still in the window answers its known sequence; that call,
\* open and head_seq_on_disk write nothing but the repair.
Repair ==
  /\ head.len # FileLen
  /\ Repaired
  /\ UNCHANGED <<log, stored>>

\* append, killed between the line and head.json.
AppendUnpublished(kind, id) ==
  /\ Write(kind, id)
  /\ Repaired

\* append, killed while the line is being written.
AppendTorn ==
  /\ Authoritative.seq < MaxSeq
  /\ head' = Authoritative
  /\ torn' = TRUE
  /\ UNCHANGED <<log, stored>>

\* authoritative_head_locked, killed between the truncation and head.json.
RepairCut ==
  /\ torn
  /\ head.len # FileLen
  /\ torn' = FALSE
  /\ UNCHANGED <<log, head, stored>>

\* compact_dropping_status, and the same killed after the rename.
Compact ==
  /\ log' = Compacted
  /\ torn' = FALSE
  /\ head' = Scanned(Compacted)
  /\ UNCHANGED stored

CompactUnpublished ==
  /\ log' = Compacted
  /\ Repaired
  /\ UNCHANGED stored

\* What hook processes do to the journal.
HookStep ==
  \/ \E kind \in Kinds, id \in Identities \cup {NoId} :
       AppendEntry(kind, id) \/ AppendUnpublished(kind, id)
  \/ AppendTorn
  \/ Repair
  \/ RepairCut

JournalNext == HookStep \/ Compact \/ CompactUnpublished

JournalSpec == JournalInit /\ [][JournalNext]_journalVars

-----------------------------------------------------------------------------
(* Properties.                                                             *)

JournalTypeOK ==
  /\ log \in Seq(Record)
  /\ torn \in BOOLEAN
  /\ head \in [seq : 0 .. MaxSeq, len : Nat, recent : Seq(Recent)]
  /\ stored \subseteq Record

\* Whenever head.json would be believed, it says what a scan of the file would:
\* the length check alone tells a stale head from a current one, in every crash
\* window of append and compaction (authoritative_head_locked).
BelievedHeadIsTrue ==
  head.len = FileLen => ~torn /\ head = Scanned(log)

\* No kill, repair or compaction loses a durable event; only status snapshots go
\* (compact_dropping_status).
EventsKept == \A r \in stored : r.kind = "event" => r \in ToSet(log)

\* A sequence number stands for one record for ever: the next one is above every
\* number handed out before, also when compaction has dropped the records that had
\* the highest ("Sequence numbers remain monotonic across compaction").
FreshNumbers ==
  \A r \in stored' \ stored : \A old \in stored : old.seq < r.seq

NumbersNeverReused == [][FreshNumbers]_journalVars

\* A provider event is journalled once while fewer than Window other identities
\* followed it, whoever retries it and whatever was killed in between (append).
IdentifiedBetween(i, j) == {log[k].id : k \in i + 1 .. j - 1} \ {NoId}

OnceWithinWindow ==
  \A i, j \in DOMAIN log :
    i < j /\ log[i].id # NoId /\ log[i].id = log[j].id
      => Cardinality(IdentifiedBetween(i, j)) >= Window

\* An event that was acknowledged is stored, and stored once, over kills, repairs,
\* compactions and retries.
StoredOnce == EventsKept /\ OnceWithinWindow
=============================================================================
