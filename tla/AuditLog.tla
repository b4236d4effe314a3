------------------------------- MODULE AuditLog -------------------------------
(***************************************************************************)
(* The audit sink (src-tauri/src/audit.rs).  A command that changes        *)
(* processes runs only after try_record has anchored its authorization,    *)
(* which takes four files: the day's segment, the head that counts every   *)
(* segment's records, the key state with a checkpoint of the head, and the *)
(* journal of the commit in flight, from which an interrupted commit is    *)
(* carried out by the next caller.                                         *)
(*                                                                         *)
(* A step is one durable file operation; before, during or after any of    *)
(* them the process can die, or the operation can fail, with or without    *)
(* its effect.  Each operation is synced before the next begins, so a      *)
(* crash loses nothing that an earlier step wrote.  A record's hash names  *)
(* the record, and the code that seals a head names the head.              *)
(***************************************************************************)
EXTENDS Naturals, Sequences, FiniteSets, FiniteSetsExt

CONSTANTS
  Records,     \* the calls of try_record, by the record each writes
  Nil,
  Days,        \* the local dates the clock may show, in any order
  SegmentCap,  \* AUDIT_SEGMENT_MAX_BYTES, in records
  MaxSegments, \* bound: segments of a day
  MaxFaults,   \* bound: file operations that fail
  MaxCrashes   \* bound: deaths of the process

Files == Days \X (0 .. MaxSegments - 1)

(* What a segment, a head and the journal hold. *)
Lines    == [rec : Records, prev : Records \cup {Nil}]
Segment  == [lines : Seq(Lines), torn : Records \cup {Nil}]
Entries  == [count : Nat, last : Records \cup {Nil}]
OnFiles(S) == UNION {[D -> S] : D \in SUBSET Files}
Heads    == [generation : Nat, entries : OnFiles(Entries)]
Anchors  == [file : Files, line : Lines]
Journals == [previous : Heads \cup {Nil}, record : Anchors \cup {Nil}, head : Heads]

ASSUME AuditAssumption ==
  /\ Nil \notin Records \cup Files \cup Heads \cup Anchors \cup Journals
  /\ "verify" \notin Records \cup {Nil}
  /\ Days \subseteq Nat
  /\ SegmentCap \in Nat \ {0} /\ {MaxSegments, MaxFaults, MaxCrashes} \subseteq Nat

VARIABLES
  disk,      \* the four kinds of file
  mem,       \* Inner: what the process has read, and whether it is quarantined
  call,      \* the call that holds the lock
  answer,    \* record -> what its caller was told
  faulty,    \* history: a file operation has failed in this process
  faults, crashes

vars == <<disk, mem, call, answer, faulty, faults, crashes>>

NoFile == [lines |-> << >>, torn |-> Nil]
NoKey(state) == [state |-> state, checkpoint |-> Nil]
Started == [key |-> NoKey("unread"), writer |-> Nil, verified |-> << >>, poisoned |-> FALSE]
Quiet == [op |-> Nil, day |-> 0, step |-> "idle", work |-> "none", pending |-> Nil]

Init ==
  /\ disk = [segments |-> << >>, head |-> Nil, key |-> NoKey("absent"), journal |-> Nil]
  /\ mem = Started /\ call = Quiet /\ answer = [r \in Records |-> "none"]
  /\ faulty = FALSE /\ faults = 0 /\ crashes = 0

-----------------------------------------------------------------------------
(* Reading the files. *)

Content(d, f) == IF f \in DOMAIN d.segments THEN d.segments[f] ELSE NoFile

Hash(lines) == IF lines = << >> THEN Nil ELSE lines[Len(lines)].rec

Chained(lines) == \A i \in DOMAIN lines : lines[i].prev = Hash(SubSeq(lines, 1, i - 1))

Entry(lines) == [count |-> Len(lines), last |-> Hash(lines)]

(* verify_core with the checkpoint: nothing to report. *)
Verifies(d, checkpoint) ==
  /\ d.head = checkpoint
  /\ DOMAIN d.segments = DOMAIN checkpoint.entries
  /\ \A f \in DOMAIN d.segments :
       /\ d.segments[f].torn = Nil
       /\ Chained(d.segments[f].lines)
       /\ checkpoint.entries[f] = Entry(d.segments[f].lines)

(* active_audit_file_id *)
Active(d, day) ==
  LET full == {n \in 0 .. MaxSegments - 1 : <<day, n>> \in DOMAIN d.segments}
      last == IF full = {} THEN 0 ELSE Max(full) IN
  IF Len(Content(d, <<day, last>>).lines) < SegmentCap THEN <<day, last>> ELSE <<day, last + 1>>

ExtendsOnly(j, checkpoint) == checkpoint = j.previous

(* recover_pending_commit accepts a journal that extends the checkpoint or *)
(* has already replaced it.                                                *)
Extends(j, checkpoint) == checkpoint \in {j.previous, j.head}

-----------------------------------------------------------------------------
(* The file operations of the call in flight. *)

Target == call.pending.record.file
Line == call.pending.record.line

(* Whether the code goes on with the step.  A live commit appends to the   *)
(* content it verified; a recovered one to the line its own follows, or    *)
(* finds its line there.                                                   *)
Fit ==
  CASE call.step = "append" /\ call.work = "record" ->
         Content(disk, Target) = IF Target \in DOMAIN mem.verified THEN mem.verified[Target] ELSE NoFile
    [] call.step = "append" /\ call.work = "recover" ->
         LET content == Content(disk, Target) IN
         \/ Hash(content.lines) = Line.rec /\ content.torn = Nil
         \/ content.torn \in {Nil, Line.rec} /\ Hash(content.lines) = Line.prev
    [] call.step = "checkpoint" -> disk.key = mem.key
    [] OTHER -> TRUE

AppendedAgain(lines) == Append(lines, Line)

(* write_all, or recover_record_append: the line is written once. *)
Appended(lines) == IF Hash(lines) = Line.rec THEN lines ELSE Append(lines, Line)

Segments(content) == [f \in DOMAIN disk.segments \cup {Target} |->
                        IF f = Target THEN content ELSE disk.segments[f]]

Written ==
  CASE call.step = "newkey" -> [disk EXCEPT !.key = NoKey("good")]
    [] call.step = "journal" -> [disk EXCEPT !.journal = call.pending]
    [] call.step = "open" -> [disk EXCEPT !.segments = Segments(Content(disk, Target))]
    [] call.step = "append" ->
         [disk EXCEPT !.segments =
            Segments([lines |-> Appended(Content(disk, Target).lines), torn |-> Nil])]
    [] call.step = "head" -> [disk EXCEPT !.head = call.pending.head]
    [] call.step = "checkpoint" -> [disk EXCEPT !.key.checkpoint = call.pending.head]
    [] call.step = "remove" -> [disk EXCEPT !.journal = Nil]

(* What an operation cut short leaves: write_private_atomic replaces the   *)
(* file or does not; a segment, and the key file when it is created, can   *)
(* keep a part.                                                            *)
CutShort ==
  {disk, Written} \cup
  CASE call.step = "newkey" -> {[disk EXCEPT !.key = NoKey("torn")]}
    [] call.step = "append" /\ Hash(Content(disk, Target).lines) # Line.rec ->
         {[disk EXCEPT !.segments = Segments([Content(disk, Target) EXCEPT !.torn = Line.rec])]}
    [] OTHER -> {}

WriteSteps == {"newkey", "journal", "open", "append", "head", "checkpoint", "remove"}

After(p, m, step) ==
  CASE step = "journal" /\ p.record # Nil -> IF m.writer = Nil THEN "open" ELSE "append"
    [] step = "journal" /\ p.record = Nil -> "head"
    [] step = "open" -> "append"
    [] step = "append" -> "head"
    [] step = "head" -> IF m.key.checkpoint = p.head THEN "remove" ELSE "checkpoint"
    [] step = "checkpoint" -> "remove"

-----------------------------------------------------------------------------
(* How a call ends. *)

Told(x) == IF call.op \in Records THEN [answer EXCEPT ![call.op] = x] ELSE answer

(* An error, or a report with breaks: the sink refuses every later record  *)
(* of this process.                                                        *)
Fails(key) ==
  /\ mem' = [mem EXCEPT !.key = key, !.writer = Nil, !.poisoned = TRUE]
  /\ answer' = Told("refused")
  /\ call' = Quiet

Begins(op, day) ==
  /\ call = Quiet
  /\ IF op = "verify" THEN TRUE ELSE answer[op] = "none"
  /\ IF op # "verify" /\ mem.poisoned
     THEN answer' = [answer EXCEPT ![op] = "refused"] /\ UNCHANGED call
     ELSE call' = [Quiet EXCEPT !.op = op, !.day = day, !.step = "key"] /\ UNCHANGED answer
  /\ UNCHANGED <<disk, mem, faulty, faults, crashes>>

(* key_for *)
ReadsKey ==
  /\ call.step = "key"
  /\ LET unread == mem.key.state = "unread" IN
     IF unread /\ disk.key.state = "absent"
       THEN call' = [call EXCEPT !.step = "newkey"] /\ UNCHANGED <<mem, answer>>
     ELSE IF disk.key.state = "good" /\ (unread \/ mem.key = disk.key)
       THEN /\ call' = [call EXCEPT !.step = "recover"]
            /\ mem' = [mem EXCEPT !.key = disk.key] /\ UNCHANGED answer
     ELSE Fails(IF unread THEN NoKey("bad") ELSE mem.key)
  /\ UNCHANGED <<disk, faulty, faults, crashes>>

(* recover_pending_commit *)
Recovers ==
  /\ call.step = "recover"
  /\ LET j == disk.journal IN
     IF j = Nil THEN call' = [call EXCEPT !.step = "prepare"] /\ UNCHANGED <<mem, answer>>
     ELSE IF ~Extends(j, mem.key.checkpoint) THEN Fails(mem.key)
     ELSE /\ call' = [call EXCEPT !.work = "recover", !.pending = j,
                                  !.step = IF j.record = Nil THEN "head" ELSE "append"]
          /\ UNCHANGED <<mem, answer>>
  /\ UNCHANGED <<disk, faulty, faults, crashes>>

(* The open segment is of the day and has room. *)
WriterServes ==
  /\ call.op \in Records /\ mem.writer # Nil
  /\ mem.writer[1] = call.day
  /\ Len(mem.verified[mem.writer].lines) < SegmentCap

(* initialize_checkpoint, on a directory without records *)
Initializes ==
  /\ call.step = "prepare" /\ ~WriterServes /\ mem.key.checkpoint = Nil
  /\ IF disk.head # Nil \/ disk.segments # << >> THEN Fails(mem.key)
     ELSE /\ call' = [call EXCEPT !.work = "init", !.step = "journal",
                        !.pending = [previous |-> Nil, record |-> Nil,
                                     head |-> [generation |-> 1, entries |-> << >>]]]
          /\ UNCHANGED <<mem, answer>>
  /\ UNCHANGED <<disk, faulty, faults, crashes>>

(* prepare_commit: lines are those of file f *)
Commits(f, lines, m) ==
  LET checkpoint == mem.key.checkpoint
      count == Len(lines) + 1 IN
  /\ mem' = m
  /\ call' = [call EXCEPT !.work = "record", !.step = "journal",
       !.pending = [previous |-> checkpoint,
                    record |-> [file |-> f, line |-> [rec |-> call.op, prev |-> Hash(lines)]],
                    head |-> [generation |-> checkpoint.generation + 1,
                              entries |-> [g \in DOMAIN checkpoint.entries \cup {f} |->
                                             IF g = f THEN [count |-> count, last |-> call.op]
                                             ELSE checkpoint.entries[g]]]]]
  /\ UNCHANGED answer

(* record_locked with its segment open: validate_audit_state *)
Continues ==
  /\ call.step = "prepare" /\ WriterServes
  /\ LET f == mem.writer IN
     IF /\ disk.head = mem.key.checkpoint /\ disk.segments = mem.verified
        /\ f \in DOMAIN disk.head.entries
        /\ disk.head.entries[f] = Entry(mem.verified[f].lines)
     THEN Commits(f, mem.verified[f].lines, mem) ELSE Fails(mem.key)
  /\ UNCHANGED <<disk, faulty, faults, crashes>>

(* A segment is opened only after all of them verify; verify_self only     *)
(* reports.                                                                *)
Checks ==
  /\ call.step = "prepare" /\ ~WriterServes /\ mem.key.checkpoint # Nil
  /\ IF ~Verifies(disk, mem.key.checkpoint) THEN Fails(mem.key)
     ELSE IF call.op = "verify" THEN call' = Quiet /\ UNCHANGED <<mem, answer>>
     ELSE LET f == Active(disk, call.day) IN
          /\ f \in Files
          /\ Commits(f, Content(disk, f).lines,
                     [mem EXCEPT !.writer = Nil, !.verified = disk.segments])
  /\ UNCHANGED <<disk, faulty, faults, crashes>>

Returned == call.step = "remove" /\ call.work = "record"

(* What a finished operation leaves in memory. *)
Noted ==
  CASE call.step = "newkey" -> [mem EXCEPT !.key = NoKey("good")]
    [] call.step = "open" -> [mem EXCEPT !.writer = Target]
    [] call.step = "checkpoint" -> [mem EXCEPT !.key.checkpoint = call.pending.head]
    [] call.step = "remove" /\ call.work = "recover" -> [mem EXCEPT !.writer = Nil, !.verified = << >>]
    [] Returned -> [mem EXCEPT !.verified = disk.segments]
    [] OTHER -> mem

Writes ==
  /\ call.step \in WriteSteps
  /\ IF ~Fit THEN Fails(mem.key) /\ UNCHANGED disk
     ELSE /\ disk' = Written /\ mem' = Noted
          /\ answer' = IF Returned THEN Told("allowed") ELSE answer
          /\ call' = IF Returned THEN Quiet
                     ELSE [call EXCEPT !.step =
                             IF @ = "newkey" THEN "recover"
                             ELSE IF @ = "remove" THEN "prepare"
                             ELSE After(call.pending, mem, @)]
  /\ UNCHANGED <<faulty, faults, crashes>>

WriteFails ==
  /\ call.step \in WriteSteps /\ Fit /\ faults < MaxFaults
  /\ faults' = faults + 1 /\ faulty' = TRUE
  /\ disk' \in CutShort
  /\ Fails(IF call.step = "newkey" THEN NoKey("bad") ELSE mem.key)
  /\ UNCHANGED crashes

Crash ==
  /\ crashes < MaxCrashes /\ crashes' = crashes + 1
  /\ disk' \in IF call.step \in WriteSteps /\ Fit THEN CutShort ELSE {disk}
  /\ mem' = Started /\ call' = Quiet /\ faulty' = FALSE
  /\ answer' = Told("lost")
  /\ UNCHANGED faults

Next ==
  \/ \E day \in Days, op \in Records \cup {"verify"} : Begins(op, day)
  \/ ReadsKey \/ Recovers \/ Initializes \/ Continues \/ Checks
  \/ Writes \/ WriteFails \/ Crash

Spec == Init /\ [][Next]_vars

-----------------------------------------------------------------------------
(* The sink never reports tampering, and never quarantines itself, unless  *)
(* a file operation has failed in this very process or the key file was    *)
(* torn when it was first made: whatever a crash interrupted, the next     *)
(* process verifies ("recover_pending_commit", audit.rs:803), so the       *)
(* startup recovery of fleet operations, which needs that, goes ahead.     *)
NoFalseAlarm == mem.poisoned => faulty \/ disk.key.state = "torn"

(* What the records would be after the journal is carried out. *)
Recoverable(f) ==
  LET lines == Content(disk, f).lines
      j == disk.journal
      due == j # Nil /\ j.record # Nil /\ j.record.file = f /\ Hash(lines) # j.record.line.rec
      recs == [i \in DOMAIN lines |-> lines[i].rec] IN
  IF due THEN Append(recs, j.record.line.rec) ELSE recs

Trail == INSTANCE AuditTrail WITH
  trail <- [f \in Files |-> Recoverable(f)],
  allowed <- {r \in Records : answer[r] = "allowed"}

(* The durable files keep the promise of AuditTrail: a record enters its   *)
(* file's trail once, at its journal, never leaves it or changes place,    *)
(* and try_record answers Ok only for the record that ends a trail.        *)
ImplementsTrail == Trail!Spec
=============================================================================
