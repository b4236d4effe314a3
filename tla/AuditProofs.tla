---------------------------- MODULE AuditProofs ----------------------------
(***************************************************************************)
(* AuditLog for every number of records, days and segments, and any number *)
(* of deaths and failed file operations: the files implement AuditTrail,   *)
(* and a crash alone never looks like tampering.                           *)
(***************************************************************************)
EXTENDS AuditLog, SequenceTheorems, TLAPS

Keys(states) == [state : states, checkpoint : Heads \cup {Nil}]

Disks == [segments : OnFiles(Segment), head : Heads \cup {Nil},
          key : Keys({"absent", "good", "torn"}), journal : Journals \cup {Nil}]
Mems  == [key : Keys({"unread", "good", "bad"}), writer : Files \cup {Nil},
          verified : OnFiles(Segment), poisoned : BOOLEAN]

Carrying == {"open", "append", "head", "checkpoint", "remove"}
Resting  == {"idle", "key", "newkey", "recover", "prepare"}
Calls    == [op : Records \cup {"verify", Nil}, day : Nat,
             step : Carrying \cup Resting \cup {"journal"},
             work : {"none", "record", "recover", "init"}, pending : Journals \cup {Nil}]

Typed ==
  /\ disk \in Disks /\ mem \in Mems /\ call \in Calls
  /\ answer \in [Records -> {"none", "refused", "allowed", "lost"}]

-----------------------------------------------------------------------------
(* What the files are between any two steps, in terms of their contents.   *)

Of(S, f) == IF f \in DOMAIN S THEN S[f] ELSE NoFile

\* Segment f is whole and is what head h says.
Clean(S, h, f) ==
  S[f].torn = Nil /\ Chained(S[f].lines) /\ h.entries[f] = Entry(S[f].lines)

Matches(S, h) == DOMAIN S = DOMAIN h.entries /\ \A f \in DOMAIN S : Clean(S, h, f)

\* No commit is in flight.
Settled(S, head, checkpoint) ==
  /\ head = checkpoint
  /\ IF checkpoint = Nil THEN S = << >> ELSE Matches(S, checkpoint)

\* Content c of the journal's file lacks its record, or holds a torn part of it.
Waits(c, j) ==
  /\ c.torn \in {Nil, j.record.line.rec}
  /\ Chained(c.lines)
  /\ Hash(c.lines) = j.record.line.prev /\ j.record.line.prev # j.record.line.rec
  /\ j.head.entries[j.record.file] = [count |-> Len(c.lines) + 1, last |-> j.record.line.rec]

Due(S, j) ==
  /\ DOMAIN S \cup {j.record.file} = DOMAIN j.head.entries
  /\ \A f \in DOMAIN S \ {j.record.file} : Clean(S, j.head, f)
  /\ Waits(Of(S, j.record.file), j)

Done(S, j) ==
  /\ Matches(S, j.head)
  /\ j.record.file \in DOMAIN S
  /\ Hash(S[j.record.file].lines) = j.record.line.rec

InFlight(S, head, checkpoint, j) ==
  /\ j.previous # j.head
  /\ {head, checkpoint} \subseteq {j.previous, j.head}
  /\ checkpoint = j.head => head = j.head
  /\ j.record = Nil => j.previous = Nil /\ j.head.entries = << >> /\ S = << >>
  /\ j.record # Nil => Due(S, j) \/ Done(S, j)
  /\ j.record # Nil /\ head = j.head => Done(S, j)

Sound(S, head, key, j) ==
  /\ key.state # "good" => j = Nil /\ key.checkpoint = Nil
  /\ j = Nil => Settled(S, head, key.checkpoint)
  /\ j # Nil => InFlight(S, head, key.checkpoint, j)

-----------------------------------------------------------------------------
(* Sequences of lines. *)

Recs(lines) == [i \in DOMAIN lines |-> lines[i].rec]

LEMMA NoRecs == Recs(<< >>) = << >>
  BY DEF Recs

LEMMA EmptyMap == /\ DOMAIN << >> = {}
                  /\ \A S : << >> \in [{} -> S]
OBVIOUS

LEMMA EmptySegments == << >> \in OnFiles(Segment) /\ << >> \in OnFiles(Entries)
  BY EmptyMap DEF OnFiles

LEMMA EmptyFile == NoFile \in Segment /\ Chained(NoFile.lines) /\ Hash(NoFile.lines) = Nil
                   /\ Len(NoFile.lines) = 0
  BY EmptySeq DEF NoFile, Segment, Chained, Hash

(* A line appended to the one it names continues the chain.                *)
LEMMA AppendChains ==
  ASSUME NEW lines \in Seq(Lines), NEW l \in Lines, Chained(lines), Hash(lines) = l.prev
  PROVE  /\ Append(lines, l) \in Seq(Lines)
         /\ Chained(Append(lines, l))
         /\ Hash(Append(lines, l)) = l.rec
         /\ Entry(Append(lines, l)) = [count |-> Len(lines) + 1, last |-> l.rec]
<1> DEFINE a == Append(lines, l)
           n == Len(lines)
<1>1. /\ a \in Seq(Lines) /\ a # << >> /\ Len(a) = n + 1 /\ a[n + 1] = l /\ n \in Nat
      /\ \A i \in 1 .. n : a[i] = lines[i]
      /\ DOMAIN a = 1 .. n + 1 /\ DOMAIN lines = 1 .. n
  BY AppendProperties, LenProperties
<1> HIDE DEF a, n
<1>2. ASSUME NEW i \in 1 .. n + 1
      PROVE  SubSeq(a, 1, i - 1) = SubSeq(lines, 1, i - 1)
  <2> DEFINE s == SubSeq(a, 1, i - 1)
             t == SubSeq(lines, 1, i - 1)
  <2>1. i - 1 \in Nat /\ i - 1 <= n
    BY <1>1
  <2>2. \A k \in 1 .. i - 1 : a[k] \in Lines /\ lines[k] \in Lines
    BY <1>1, <2>1, ElementOfSeq
  <2>3. /\ s \in Seq(Lines) /\ Len(s) = i - 1
        /\ \A k \in 1 .. i - 1 : s[k] = a[k]
    <3>1. /\ s \in Seq(Lines) /\ Len(s) = IF 1 <= i - 1 THEN i - 1 - 1 + 1 ELSE 0
          /\ \A k \in 1 .. i - 1 - 1 + 1 : s[k] = a[1 + k - 1]
      BY <2>1, <2>2, SubSeqProperties
    <3> QED BY <2>1, <3>1
  <2>4. /\ t \in Seq(Lines) /\ Len(t) = i - 1
        /\ \A k \in 1 .. i - 1 : t[k] = lines[k]
    <3>1. /\ t \in Seq(Lines) /\ Len(t) = IF 1 <= i - 1 THEN i - 1 - 1 + 1 ELSE 0
          /\ \A k \in 1 .. i - 1 - 1 + 1 : t[k] = lines[1 + k - 1]
      BY <2>1, <2>2, SubSeqProperties
    <3> QED BY <2>1, <3>1
  <2> HIDE DEF s, t
  <2>5. \A k \in 1 .. Len(s) : s[k] = t[k]
    BY <1>1, <2>1, <2>3, <2>4
  <2>6. s = t
    BY <2>3, <2>4, <2>5, SeqEqual
  <2> QED BY <2>6 DEF s, t
<1>3. SubSeq(lines, 1, n) = lines
  BY SubSeqFull DEF n
<1>4. Chained(a)
  <2> SUFFICES ASSUME NEW i \in 1 .. n + 1 PROVE a[i].prev = Hash(SubSeq(a, 1, i - 1))
    BY <1>1 DEF Chained
  <2>1. CASE i = n + 1
    <3>1. i - 1 = n
      BY <1>1, <2>1
    <3>2. SubSeq(a, 1, i - 1) = lines
      BY <1>2, <1>3, <3>1
    <3> QED BY <1>1, <2>1, <3>2
  <2>2. CASE i \in 1 .. n
    <3>1. lines[i].prev = Hash(SubSeq(lines, 1, i - 1))
      BY <1>1, <2>2 DEF Chained
    <3> QED BY <1>1, <1>2, <2>2, <3>1
  <2> QED BY <1>1, <2>1, <2>2
<1>5. Hash(a) = l.rec
  BY <1>1 DEF Hash
<1>6. Entry(a) = [count |-> n + 1, last |-> l.rec]
  BY <1>1, <1>5 DEF Entry
<1> QED BY <1>1, <1>4, <1>5, <1>6 DEF a, n

LEMMA RecsAppend ==
  ASSUME NEW lines \in Seq(Lines), NEW l \in Lines
  PROVE  /\ Recs(lines) \in Seq(Records)
         /\ Recs(Append(lines, l)) = Append(Recs(lines), l.rec)
<1> DEFINE n == Len(lines)
           a == Append(lines, l)
           x == Recs(a)
           y == Append(Recs(lines), l.rec)
<1>1. /\ a \in Seq(Lines) /\ Len(a) = n + 1 /\ a[n + 1] = l /\ n \in Nat
      /\ \A i \in 1 .. n : a[i] = lines[i] /\ lines[i] \in Lines
      /\ DOMAIN a = 1 .. n + 1 /\ DOMAIN lines = 1 .. n
  BY AppendProperties, LenProperties, ElementOfSeq
<1> HIDE DEF a, n
<1>2. /\ Recs(lines) \in Seq(Records) /\ Len(Recs(lines)) = n
      /\ \A i \in 1 .. n : Recs(lines)[i] = lines[i].rec
  BY <1>1 DEF Recs, Lines
<1>3. /\ x \in Seq(Records) /\ Len(x) = n + 1
      /\ \A i \in 1 .. n : x[i] = lines[i].rec
      /\ x[n + 1] = l.rec
  BY <1>1 DEF Recs, Lines
<1>4. l.rec \in Records
  BY DEF Lines
<1>5. /\ y \in Seq(Records) /\ Len(y) = n + 1
      /\ \A i \in 1 .. n : y[i] = lines[i].rec
      /\ y[n + 1] = l.rec
  <2> DEFINE r == Recs(lines)
  <2>1. r \in Seq(Records)
    BY <1>2
  <2> HIDE DEF r
  <2>2. /\ Append(r, l.rec) \in Seq(Records)
        /\ Len(Append(r, l.rec)) = Len(r) + 1
        /\ \A i \in 1 .. Len(r) : Append(r, l.rec)[i] = r[i]
        /\ Append(r, l.rec)[Len(r) + 1] = l.rec
    BY <1>4, <2>1, AppendProperties
  <2> QED BY <1>2, <2>2 DEF r
<1> HIDE DEF x, y
<1>6. \A i \in 1 .. Len(x) : x[i] = y[i]
  BY <1>1, <1>3, <1>5
<1>7. x = y
  BY <1>3, <1>5, <1>6, SeqEqual
<1> QED BY <1>2, <1>7 DEF x, y, a

-----------------------------------------------------------------------------
(* One segment written, and what that makes of the files.                  *)

Wrote(S, f, c, T) ==
  /\ T \in OnFiles(Segment) /\ DOMAIN T = DOMAIN S \cup {f}
  /\ T[f] = c /\ \A g \in DOMAIN S \ {f} : T[g] = S[g]

LEMMA OfTyped ==
  ASSUME NEW S \in OnFiles(Segment), NEW f
  PROVE  /\ Of(S, f) \in Segment /\ DOMAIN S \subseteq Files
         /\ Of(S, f).lines \in Seq(Lines)
<1>1. PICK D \in SUBSET Files : S \in [D -> Segment]
  BY DEF OnFiles
<1>2. Of(S, f) \in Segment /\ DOMAIN S \subseteq Files
  BY <1>1, EmptyFile DEF Of
<1> QED BY <1>2 DEF Segment

LEMMA WriteIs ==
  ASSUME NEW S \in OnFiles(Segment), NEW f \in Files, NEW c \in Segment
  PROVE  Wrote(S, f, c, [g \in DOMAIN S \cup {f} |-> IF g = f THEN c ELSE S[g]])
<1> DEFINE T == [g \in DOMAIN S \cup {f} |-> IF g = f THEN c ELSE S[g]]
<1>1. PICK D \in SUBSET Files : S \in [D -> Segment]
  BY DEF OnFiles
<1>2. T \in [D \cup {f} -> Segment] /\ D \cup {f} \in SUBSET Files
  BY <1>1
<1>3. T \in OnFiles(Segment)
  BY <1>2 DEF OnFiles
<1> QED BY <1>3 DEF Wrote

LEMMA AnchorTyped ==
  ASSUME NEW j \in Journals, j.record # Nil
  PROVE  /\ j.record.file \in Files /\ j.record.line \in Lines /\ j.head \in Heads
         /\ j.record.line.rec \in Records /\ j.record.line.prev \in Records \cup {Nil}
BY DEF Journals, Anchors, Lines

(* The file is made: nothing changes but that it is there.                 *)
LEMMA Opens ==
  ASSUME NEW S \in OnFiles(Segment), NEW j \in Journals, j.record # Nil,
         NEW f, f = j.record.file, NEW c, c = Of(S, f), NEW T, Wrote(S, f, c, T)
  PROVE  /\ T \in OnFiles(Segment) /\ f \in DOMAIN T
         /\ (Due(S, j) => Due(T, j)) /\ (Done(S, j) => Done(T, j))
<1>2. /\ T \in OnFiles(Segment) /\ DOMAIN T = DOMAIN S \cup {f} /\ T[f] = c
      /\ \A g \in DOMAIN S \ {f} : T[g] = S[g]
  BY DEF Wrote
<1>3. Of(T, f) = Of(S, f)
  <2>1. Of(T, f) = c
    BY <1>2 DEF Of
  <2> QED BY <2>1
<1>4. ASSUME Due(S, j) PROVE Due(T, j)
  <2>1. \A g \in DOMAIN T \ {f} : Clean(T, j.head, g)
    BY <1>2, <1>4 DEF Due, Clean
  <2> QED BY <1>2, <1>3, <1>4, <2>1 DEF Due
<1>5. ASSUME Done(S, j) PROVE Done(T, j)
  <2>1. f \in DOMAIN S /\ DOMAIN T = DOMAIN S /\ \A g \in DOMAIN S : T[g] = S[g]
    BY <1>2, <1>5 DEF Done, Of
  <2>2. Matches(T, j.head)
    BY <1>5, <2>1 DEF Done, Matches, Clean
  <2> QED BY <1>5, <2>1, <2>2 DEF Done
<1> QED BY <1>2, <1>4, <1>5

(* The line is written in part.                                            *)
LEMMA Tears ==
  ASSUME NEW S \in OnFiles(Segment), NEW j \in Journals, j.record # Nil, Due(S, j),
         NEW f, f = j.record.file, NEW b, b = Of(S, f),
         NEW c, c = [b EXCEPT !.torn = j.record.line.rec], NEW T, Wrote(S, f, c, T)
  PROVE  /\ T \in OnFiles(Segment) /\ Due(T, j)
         /\ c.lines = b.lines
<1>1. b \in Segment /\ f \in Files /\ j.record.line.rec \in Records
  BY AnchorTyped, OfTyped
<1>2. c \in Segment /\ c.lines = b.lines /\ c.torn = j.record.line.rec
  BY <1>1 DEF Segment
<1>3. /\ T \in OnFiles(Segment) /\ DOMAIN T = DOMAIN S \cup {f} /\ T[f] = c
      /\ \A g \in DOMAIN S \ {f} : T[g] = S[g]
  BY DEF Wrote
<1>4. Of(T, f) = c
  BY <1>3 DEF Of
<1>5. \A g \in DOMAIN T \ {f} : Clean(T, j.head, g)
  BY <1>3 DEF Due, Clean
<1>6. Waits(c, j)
  BY <1>2 DEF Due, Waits
<1>7. Due(T, j)
  BY <1>3, <1>4, <1>5, <1>6 DEF Due
<1> QED BY <1>2, <1>3, <1>7

(* The line is written, or found written: the record is in its file.       *)
LEMMA Lands ==
  ASSUME NEW S \in OnFiles(Segment), NEW j \in Journals, j.record # Nil,
         Due(S, j) \/ Done(S, j),
         NEW f, f = j.record.file, NEW l, l = j.record.line,
         NEW lines, lines = Of(S, f).lines,
         NEW c, c.torn = Nil,
         Hash(lines) = l.rec => c.lines = lines,
         Hash(lines) # l.rec => c.lines = Append(lines, l),
         NEW T, Wrote(S, f, c, T)
  PROVE  /\ T \in OnFiles(Segment) /\ Done(T, j)
         /\ Hash(lines) # l.rec => Due(S, j)
<1>1. Of(S, f) \in Segment /\ lines \in Seq(Lines) /\ f \in Files /\ l \in Lines /\ l.rec \in Records
  BY AnchorTyped, OfTyped
<1>2. CASE Hash(lines) = l.rec
  <2>1. Done(S, j)
    BY <1>2 DEF Due, Waits
  <2>2. c.lines = lines
    BY <1>2
  <2>3. DOMAIN S = DOMAIN S \cup {f} /\ Of(S, f) = S[f]
    BY <2>1 DEF Done, Of
  <2>4. /\ T \in OnFiles(Segment) /\ DOMAIN T = DOMAIN S \cup {f} /\ T[f] = c
        /\ \A g \in DOMAIN S \ {f} : T[g] = S[g]
    BY DEF Wrote
  <2>5. \A g \in DOMAIN T : Clean(T, j.head, g)
    BY <2>1, <2>2, <2>3, <2>4 DEF Done, Matches, Clean
  <2>6. Done(T, j)
    BY <1>2, <2>1, <2>2, <2>3, <2>4, <2>5 DEF Done, Matches
  <2> QED BY <1>2, <2>4, <2>6
<1>3. CASE Hash(lines) # l.rec
  <2>1. Due(S, j)
    BY <1>3 DEF Done, Of
  <2>2. Chained(lines) /\ Hash(lines) = l.prev
    BY <2>1 DEF Due, Waits
  <2>3. /\ Append(lines, l) \in Seq(Lines) /\ Chained(Append(lines, l))
        /\ Hash(Append(lines, l)) = l.rec
        /\ Entry(Append(lines, l)) = [count |-> Len(lines) + 1, last |-> l.rec]
    BY <1>1, <2>2, AppendChains
  <2>5. c.lines = Append(lines, l)
    BY <1>3
  <2>6. /\ T \in OnFiles(Segment) /\ DOMAIN T = DOMAIN S \cup {f} /\ T[f] = c
        /\ \A g \in DOMAIN S \ {f} : T[g] = S[g]
    BY DEF Wrote
  <2>7. Clean(T, j.head, f)
    <3>1. j.head.entries[f] = [count |-> Len(lines) + 1, last |-> l.rec]
      BY <2>1 DEF Due, Waits
    <3>2. T[f].torn = Nil /\ T[f].lines = Append(lines, l)
      BY <2>5, <2>6
    <3> QED BY <2>3, <3>1, <3>2 DEF Clean
  <2>8. \A g \in DOMAIN T : Clean(T, j.head, g)
    <3>1. \A g \in DOMAIN S \ {f} : Clean(S, j.head, g)
      BY <2>1 DEF Due
    <3>2. \A g \in DOMAIN S \ {f} : Clean(T, j.head, g)
      BY <2>6, <3>1 DEF Clean
    <3> QED BY <2>6, <2>7, <3>2
  <2>9. Done(T, j)
    BY <2>1, <2>3, <2>5, <2>6, <2>8 DEF Done, Matches, Due
  <2> QED BY <2>1, <2>6, <2>9
<1> QED BY <1>2, <1>3

(* prepare_commit: a new record for a file, over files that verify.        *)
LEMMA Commences ==
  ASSUME NEW S \in OnFiles(Segment), NEW P \in Heads, Matches(S, P),
         NEW f \in Files, NEW r \in Records,
         NEW lines, lines = Of(S, f).lines, Hash(lines) # r,
         NEW j,
         j = [previous |-> P,
              record |-> [file |-> f, line |-> [rec |-> r, prev |-> Hash(lines)]],
              head |-> [generation |-> P.generation + 1,
                        entries |-> [g \in DOMAIN P.entries \cup {f} |->
                                       IF g = f THEN [count |-> Len(lines) + 1, last |-> r]
                                       ELSE P.entries[g]]]]
  PROVE  /\ j \in Journals /\ j # Nil /\ j.record # Nil
         /\ j.record.file = f /\ j.record.line.rec = r
         /\ Due(S, j) /\ InFlight(S, P, P, j)
<1> DEFINE E == [g \in DOMAIN P.entries \cup {f} |->
                   IF g = f THEN [count |-> Len(lines) + 1, last |-> r] ELSE P.entries[g]]
           H == [generation |-> P.generation + 1, entries |-> E]
           l == [rec |-> r, prev |-> Hash(lines)]
           a == [file |-> f, line |-> l]
<1>1. lines \in Seq(Lines) /\ Len(lines) \in Nat /\ Of(S, f) \in Segment
  BY OfTyped, LenProperties
<1>2. Hash(lines) \in Records \cup {Nil}
  <2>1. CASE lines = << >>
    BY <2>1 DEF Hash
  <2>2. CASE lines # << >>
    <3>1. Len(lines) \in 1 .. Len(lines)
      BY <1>1, <2>2, EmptySeq
    <3>2. lines[Len(lines)] \in Lines
      BY <1>1, <3>1, ElementOfSeq
    <3> QED BY <2>2, <3>2 DEF Hash, Lines
  <2> QED BY <2>1, <2>2
<1>3. l \in Lines /\ l.rec = r /\ l.prev = Hash(lines)
  BY <1>2 DEF Lines
<1> HIDE DEF l
<1>4. a \in Anchors /\ a.file = f /\ a.line = l
  BY <1>3 DEF Anchors
<1> HIDE DEF a
<1>5. P.generation \in Nat /\ P.entries \in OnFiles(Entries)
  BY DEF Heads
<1>6. PICK D \in SUBSET Files : P.entries \in [D -> Entries]
  BY <1>5 DEF OnFiles
<1>7. E \in [D \cup {f} -> Entries] /\ D \cup {f} \in SUBSET Files
  <2>1. [count |-> Len(lines) + 1, last |-> r] \in Entries
    BY <1>1 DEF Entries
  <2> QED BY <1>6, <2>1
<1>8. /\ DOMAIN E = DOMAIN P.entries \cup {f}
      /\ E[f] = [count |-> Len(lines) + 1, last |-> r]
      /\ \A g \in DOMAIN P.entries \ {f} : E[g] = P.entries[g]
  OBVIOUS
<1> HIDE DEF E
<1>9. H \in Heads /\ H.entries = E /\ H.generation = P.generation + 1
  <2>1. E \in OnFiles(Entries)
    BY <1>7 DEF OnFiles
  <2> QED BY <1>5, <2>1 DEF Heads
<1> HIDE DEF H
<1>10. j = [previous |-> P, record |-> a, head |-> H]
  BY DEF a, l, H, E
<1>11. j \in Journals /\ j.previous = P /\ j.record = a /\ j.head = H
  BY <1>4, <1>9, <1>10 DEF Journals
<1>12. j # Nil /\ a # Nil
  BY <1>4, <1>11, AuditAssumption
<1>13. P # H
  BY <1>5, <1>9
<1>14. Waits(Of(S, f), j)
  <2>1. Of(S, f).torn = Nil /\ Chained(lines)
    BY EmptyFile DEF Of, Matches, Clean, NoFile
  <2> QED BY <1>3, <1>4, <1>8, <1>9, <1>11, <2>1 DEF Waits
<1>15. \A g \in DOMAIN S \ {f} : Clean(S, j.head, g)
  BY <1>8, <1>9, <1>11 DEF Matches, Clean
<1>16. Due(S, j)
  BY <1>4, <1>8, <1>9, <1>11, <1>14, <1>15 DEF Due, Matches
<1>17. InFlight(S, P, P, j)
  BY <1>11, <1>12, <1>13, <1>16 DEF InFlight
<1> QED BY <1>3, <1>4, <1>11, <1>12, <1>16, <1>17

-----------------------------------------------------------------------------
(* The invariant.                                                          *)

DiskSound == Sound(disk.segments, disk.head, disk.key, disk.journal)

(* How far the call has come, and what it finds.                           *)
Staged ==
  /\ call.step = "newkey" => disk.key.state = "absent"
  /\ call.step \notin {"idle", "key", "newkey"} => disk.key.state = "good" /\ mem.key = disk.key
  /\ call.step \in {"journal", "prepare"} => disk.journal = Nil
  /\ call.step = "journal" =>
       /\ call.pending # Nil
       /\ InFlight(disk.segments, disk.head, disk.key.checkpoint, call.pending)
  /\ call.step \in Carrying => disk.journal = call.pending /\ call.pending # Nil
  /\ call.step \in {"open", "append"} => call.pending.record # Nil
  /\ call.step \in {"head", "checkpoint", "remove"} /\ call.pending.record # Nil =>
       Done(disk.segments, call.pending)
  /\ call.step \in {"checkpoint", "remove"} => disk.head = call.pending.head
  /\ call.step = "remove" => disk.key.checkpoint = call.pending.head

(* A live commit appends to the content it verified.                       *)
Recording ==
  /\ call.work = "record" =>
       /\ call.op \in Records /\ call.step \in Carrying \cup {"journal"}
       /\ call.pending.record # Nil /\ Line.rec = call.op
       /\ call.step = "journal" => mem.writer \in {Nil, Target}
       /\ call.step \in Carrying \ {"open"} => mem.writer = Target
       /\ call.step \in {"journal", "open", "append"} =>
            Of(disk.segments, Target) = Of(mem.verified, Target)
  /\ call.work # "record" /\ call.step \in Carrying \cup {"journal"} => mem.writer = Nil
  /\ call.work # "record" /\ call.step = "journal" => call.pending.record = Nil
  /\ call.step = "open" => call.work = "record"
  /\ call.step # "idle" => call.op # Nil

(* Between commits memory agrees with the files, if a segment is open.     *)
Remembers ==
  mem.writer # Nil /\ call.step \in Resting =>
    /\ disk.journal = Nil /\ mem.verified = disk.segments
    /\ mem.writer \in DOMAIN disk.segments

(* A quarantined sink has no segment open and takes no record.             *)
Trusting ==
  /\ mem.poisoned => mem.writer = Nil /\ call.op \notin Records
  /\ ~ mem.poisoned /\ mem.key.state # "unread" => mem.key = disk.key
  /\ NoFalseAlarm

Held(S, j, r) ==
  \/ \E f \in DOMAIN S : \E i \in DOMAIN S[f].lines : S[f].lines[i].rec = r
  \/ j # Nil /\ j.record # Nil /\ j.record.line.rec = r
Present(r) == Held(disk.segments, disk.journal, r)

(* A record whose caller waits is in no file before its journal is.        *)
Fresh ==
  /\ call.op \in Records => answer[call.op] = "none"
  /\ \A r \in Records :
       answer[r] = "none" /\ Present(r) =>
         call.op = r /\ call.work = "record" /\ call.step \in Carrying

AuditInv ==
  Typed /\ DiskSound /\ Staged /\ Recording /\ Remembers /\ Trusting /\ Fresh

-----------------------------------------------------------------------------
(* What one file operation, or a part of it, makes of the disk.            *)

Carried ==
  /\ disk' \in Disks /\ DiskSound'
  /\ \A r \in Records : Present(r)' => Present(r) \/ (call.op = r /\ call.work = "record")
  /\ disk.key.state = "torn" => disk'.key.state = "torn"

Trailed(S, j, f) ==
  IF j # Nil /\ j.record # Nil /\ j.record.file = f /\ Hash(Of(S, f).lines) # j.record.line.rec
  THEN Append(Recs(Of(S, f).lines), j.record.line.rec)
  ELSE Recs(Of(S, f).lines)

LEMMA TrailedIs ==
  \A f : /\ Recoverable(f) = Trailed(disk.segments, disk.journal, f)
         /\ Recoverable(f)' = Trailed(disk'.segments, disk'.journal, f)
BY DEF Recoverable, Trailed, Content, Of, Recs

Same == \A f \in Files : Recoverable(f)' = Recoverable(f)

LEMMA DiskIs ==
  ASSUME Typed
  PROVE  /\ disk.segments \in OnFiles(Segment) /\ disk.head \in Heads \cup {Nil}
         /\ disk.key \in Keys({"absent", "good", "torn"}) /\ disk.journal \in Journals \cup {Nil}
         /\ disk.key.checkpoint \in Heads \cup {Nil}
         /\ disk = [segments |-> disk.segments, head |-> disk.head, key |-> disk.key,
                    journal |-> disk.journal]
         /\ disk.key = [state |-> disk.key.state, checkpoint |-> disk.key.checkpoint]
BY DEF Typed, Disks, Keys

LEMMA StaysSame == disk' = disk => Same
BY DEF Same, Recoverable, Content

LEMMA StaysCarried == AuditInv /\ disk' = disk => Carried
BY DEF AuditInv, Carried, Typed, DiskSound, Present

LEMMA KeyMade ==
  ASSUME AuditInv, call.step = "newkey", NEW s \in {"good", "torn"},
         disk' = [disk EXCEPT !.key = NoKey(s)]
  PROVE  Carried /\ Same
<1>1. /\ disk'.segments = disk.segments /\ disk'.head = disk.head /\ disk'.journal = disk.journal
      /\ disk'.key = [state |-> s, checkpoint |-> Nil] /\ disk' \in Disks
      /\ disk'.key.state = s /\ disk'.key.checkpoint = Nil
  BY DEF AuditInv, Typed, Disks, Keys, NoKey
<1>2. disk.key.state = "absent" /\ disk.journal = Nil /\ disk.key.checkpoint = Nil
      /\ Settled(disk.segments, disk.head, Nil)
  BY DEF AuditInv, Staged, DiskSound, Sound
<1>3. DiskSound'
  BY <1>1, <1>2 DEF DiskSound, Sound
<1>4. Carried
  BY <1>1, <1>2, <1>3 DEF Carried, Present
<1>5. Same
  BY <1>1, TrailedIs DEF Same
<1> QED BY <1>4, <1>5

\* The last record of a file is in it.
LEMMA HashHeld ==
  ASSUME NEW S \in OnFiles(Segment), NEW f, NEW r \in Records, Hash(Of(S, f).lines) = r
  PROVE  \E g \in DOMAIN S : \E i \in DOMAIN S[g].lines : S[g].lines[i].rec = r
<1>1. Of(S, f).lines \in Seq(Lines)
  BY OfTyped
<1>2. Of(S, f).lines # << >>
  BY AuditAssumption DEF Hash
<1>3. Len(Of(S, f).lines) \in DOMAIN Of(S, f).lines
  BY <1>1, <1>2, EmptySeq, LenProperties
<1>4. Of(S, f).lines[Len(Of(S, f).lines)].rec = r
  BY <1>2 DEF Hash
<1>5. f \in DOMAIN S
  BY <1>2 DEF Of, NoFile
<1>6. Of(S, f) = S[f]
  BY <1>5 DEF Of
<1> QED BY <1>3, <1>4, <1>5, <1>6

Enters(r, f) ==
  /\ f \in Files /\ r \in Records /\ ~ Present(r) /\ disk.journal = Nil
  /\ Recoverable(f)' = Append(Recoverable(f), r)
  /\ \A g \in Files \ {f} : Recoverable(g)' = Recoverable(g)

LEMMA JournalWritten ==
  ASSUME AuditInv, call.step = "journal", disk' = [disk EXCEPT !.journal = call.pending]
  PROVE  /\ Carried
         /\ Same \/ \E f \in Files : Enters(call.op, f)
<1> DEFINE p == call.pending
           S == disk.segments
<1>1. /\ S \in OnFiles(Segment) /\ p \in Journals /\ p # Nil /\ disk.journal = Nil
      /\ disk.key.state = "good"
      /\ InFlight(S, disk.head, disk.key.checkpoint, p)
  BY DEF AuditInv, Typed, Disks, Calls, Staged
<1>2. /\ disk'.segments = S /\ disk'.head = disk.head /\ disk'.journal = p
      /\ disk'.key = disk.key /\ disk' \in Disks
  BY <1>1 DEF AuditInv, Typed, Disks
<1>3. DiskSound'
  BY <1>1, <1>2 DEF DiskSound, Sound
<1>4. CASE call.work = "record"
  <2>1. /\ call.op \in Records /\ p.record # Nil /\ p.record.line.rec = call.op
        /\ answer[call.op] = "none"
    BY <1>4 DEF AuditInv, Recording, Line, Fresh
  <2>2. ~ Present(call.op)
    BY <1>1, <2>1 DEF AuditInv, Fresh, Carrying
  <2>3. Carried
    <3>1. \A r \in Records : Present(r)' => Present(r) \/ (call.op = r /\ call.work = "record")
      BY <1>1, <1>2, <1>4, <2>1 DEF Present, Held
    <3> QED BY <1>2, <1>3, <3>1 DEF Carried
  <2>40. PICK f : f = Target
    OBVIOUS
  <2>4. f \in Files /\ f = p.record.file
    BY <1>1, <2>1, <2>40, AnchorTyped DEF Target
  <2>5. Hash(Of(S, f).lines) # call.op
    <3> SUFFICES ASSUME Hash(Of(S, f).lines) = call.op PROVE FALSE
      OBVIOUS
    <3>1. \E g \in DOMAIN S : \E i \in DOMAIN S[g].lines : S[g].lines[i].rec = call.op
      BY <1>1, <2>1, HashHeld
    <3> QED BY <2>2, <3>1 DEF Present, Held
  <2>6. Recoverable(f)' = Append(Recoverable(f), call.op)
    <3>1. Trailed(disk'.segments, disk'.journal, f) = Append(Recs(Of(S, f).lines), call.op)
      BY <1>1, <1>2, <2>1, <2>4, <2>5 DEF Trailed
    <3>2. Trailed(S, disk.journal, f) = Recs(Of(S, f).lines)
      BY <1>1 DEF Trailed
    <3> QED BY <3>1, <3>2, TrailedIs
  <2>7. ASSUME NEW g \in Files \ {f} PROVE Recoverable(g)' = Recoverable(g)
    <3>1. Trailed(disk'.segments, disk'.journal, g) = Trailed(S, disk.journal, g)
      BY <1>1, <1>2, <2>4, <2>7 DEF Trailed
    <3> QED BY <3>1, TrailedIs
  <2> QED BY <1>1, <2>1, <2>2, <2>3, <2>4, <2>6, <2>7 DEF Enters
<1>5. CASE call.work # "record"
  <2>1. p.record = Nil
    BY <1>5 DEF AuditInv, Recording
  <2>2. Carried
    <3>1. \A r \in Records : Present(r)' => Present(r)
      BY <1>1, <1>2, <2>1 DEF Present, Held
    <3> QED BY <1>2, <1>3, <3>1 DEF Carried
  <2>3. ASSUME NEW g \in Files PROVE Recoverable(g)' = Recoverable(g)
    <3>1. Trailed(disk'.segments, disk'.journal, g) = Trailed(S, disk.journal, g)
      BY <1>1, <1>2, <2>1 DEF Trailed
    <3> QED BY <3>1, TrailedIs
  <2> QED BY <2>2, <2>3 DEF Same
<1> QED BY <1>4, <1>5

(* What the steps with a journal on disk have in common.                   *)
LEMMA Commit ==
  ASSUME AuditInv, call.step \in Carrying
  PROVE  /\ disk.segments \in OnFiles(Segment) /\ disk.journal \in Journals
         /\ disk.journal = call.pending /\ disk.journal # Nil /\ disk.key.state = "good"
         /\ InFlight(disk.segments, disk.head, disk.key.checkpoint, disk.journal)
         /\ disk.journal.head \in Heads /\ disk.journal.head # Nil
BY AuditAssumption DEF AuditInv, Typed, Disks, Staged, DiskSound, Sound, Carrying, Journals

LEMMA HeadWritten ==
  ASSUME AuditInv, call.step = "head", disk' = [disk EXCEPT !.head = call.pending.head]
  PROVE  Carried /\ Same
<1>1. /\ disk.journal \in Journals /\ disk.journal = call.pending /\ disk.journal # Nil
      /\ disk.key.state = "good"
      /\ InFlight(disk.segments, disk.head, disk.key.checkpoint, disk.journal)
      /\ disk.journal.head \in Heads
  BY Commit DEF Carrying
<1>2. /\ disk'.segments = disk.segments /\ disk'.head = disk.journal.head
      /\ disk'.journal = disk.journal /\ disk'.key = disk.key /\ disk' \in Disks
  BY <1>1 DEF AuditInv, Typed, Disks
<1>3. disk.journal.record # Nil => Done(disk.segments, disk.journal)
  BY <1>1 DEF AuditInv, Staged
<1>4. InFlight(disk.segments, disk.journal.head, disk.key.checkpoint, disk.journal)
  BY <1>1, <1>3 DEF InFlight
<1>5. DiskSound'
  BY <1>1, <1>2, <1>4 DEF DiskSound, Sound
<1> QED BY <1>2, <1>5, TrailedIs DEF Carried, Present, Same

LEMMA CheckpointWritten ==
  ASSUME AuditInv, call.step = "checkpoint",
         disk' = [disk EXCEPT !.key.checkpoint = call.pending.head]
  PROVE  Carried /\ Same
<1>1. /\ disk.journal \in Journals /\ disk.journal = call.pending /\ disk.journal # Nil
      /\ disk.key.state = "good"
      /\ InFlight(disk.segments, disk.head, disk.key.checkpoint, disk.journal)
      /\ disk.journal.head \in Heads
  BY Commit DEF Carrying
<1>2. /\ disk'.segments = disk.segments /\ disk'.head = disk.head
      /\ disk'.journal = disk.journal
      /\ disk'.key.state = "good" /\ disk'.key.checkpoint = disk.journal.head /\ disk' \in Disks
  BY <1>1 DEF AuditInv, Typed, Disks, Keys
<1>3. /\ disk.journal.record # Nil => Done(disk.segments, disk.journal)
      /\ disk.head = disk.journal.head
  BY <1>1 DEF AuditInv, Staged
<1>4. InFlight(disk.segments, disk.head, disk.journal.head, disk.journal)
  BY <1>1, <1>3 DEF InFlight
<1>5. DiskSound'
  BY <1>1, <1>2, <1>4 DEF DiskSound, Sound
<1> QED BY <1>1, <1>2, <1>5, TrailedIs DEF Carried, Present, Same

LEMMA JournalRemoved ==
  ASSUME AuditInv, call.step = "remove", disk' = [disk EXCEPT !.journal = Nil]
  PROVE  Carried /\ Same
<1> DEFINE S == disk.segments
           j == disk.journal
<1>1. /\ j \in Journals /\ j = call.pending /\ j # Nil /\ disk.key.state = "good"
      /\ InFlight(S, disk.head, disk.key.checkpoint, j)
      /\ j.head \in Heads /\ j.head # Nil
  BY Commit DEF Carrying
<1>2. /\ disk'.segments = S /\ disk'.head = disk.head /\ disk'.journal = Nil
      /\ disk'.key = disk.key /\ disk' \in Disks
  BY DEF AuditInv, Typed, Disks
<1>3. /\ j.record # Nil => Done(S, j)
      /\ disk.head = j.head /\ disk.key.checkpoint = j.head
  BY <1>1 DEF AuditInv, Staged
<1>4. Settled(S, disk.head, disk.key.checkpoint)
  <2>1. CASE j.record # Nil
    BY <1>1, <1>3, <2>1 DEF Done, Settled
  <2>2. CASE j.record = Nil
    <3>1. S = << >> /\ j.head.entries = << >>
      BY <1>1, <2>2 DEF InFlight
    <3>2. Matches(S, j.head)
      BY <3>1, EmptyMap DEF Matches
    <3> QED BY <1>1, <1>3, <3>2 DEF Settled
  <2> QED BY <2>1, <2>2
<1>5. DiskSound'
  BY <1>1, <1>2, <1>4 DEF DiskSound, Sound
<1>6. \A r \in Records : Present(r)' => Present(r)
  BY <1>2 DEF Present, Held
<1>7. ASSUME NEW f \in Files PROVE Recoverable(f)' = Recoverable(f)
  <2>1. Trailed(disk'.segments, disk'.journal, f) = Recs(Of(S, f).lines)
    BY <1>2 DEF Trailed
  <2>2. Trailed(S, j, f) = Recs(Of(S, f).lines)
    BY <1>1, <1>3 DEF Trailed, Done, Of
  <2> QED BY <2>1, <2>2, TrailedIs
<1> QED BY <1>2, <1>5, <1>6, <1>7 DEF Carried, Same

(* A write to the journal's segment: what it takes to be carried on.       *)
LEMMA SegmentWritten ==
  ASSUME AuditInv, call.step \in {"open", "append"}, NEW c \in Segment,
         disk' = [disk EXCEPT !.segments = Segments(c)]
  PROVE  /\ Wrote(disk.segments, disk.journal.record.file, c, disk'.segments)
         /\ disk' \in Disks /\ disk'.head = disk.head /\ disk'.key = disk.key
         /\ disk'.journal = disk.journal /\ disk.journal.record # Nil
         /\ Due(disk.segments, disk.journal) \/ Done(disk.segments, disk.journal)
<1>1. /\ disk.segments \in OnFiles(Segment) /\ disk.journal \in Journals
      /\ disk.journal = call.pending
      /\ InFlight(disk.segments, disk.head, disk.key.checkpoint, disk.journal)
  BY Commit DEF Carrying
<1>2. call.pending.record # Nil
  BY DEF AuditInv, Staged
<1>3. PICK f : f = disk.journal.record.file
  OBVIOUS
<1>4. f \in Files /\ f = Target
  BY <1>1, <1>2, <1>3, AnchorTyped DEF Target
<1>5. PICK S : S = disk.segments
  OBVIOUS
<1>6. Wrote(S, f, c, [g \in DOMAIN S \cup {f} |-> IF g = f THEN c ELSE S[g]])
  <2>1. S \in OnFiles(Segment)
    BY <1>1, <1>5
  <2> QED BY <1>4, <2>1, WriteIs
<1>7. disk'.segments = [g \in DOMAIN S \cup {f} |-> IF g = f THEN c ELSE S[g]]
  BY <1>4, <1>5 DEF Segments, AuditInv, Typed, Disks
<1>8. Wrote(disk.segments, disk.journal.record.file, c, disk'.segments)
  BY <1>3, <1>5, <1>6, <1>7
<1>9. disk'.segments \in OnFiles(Segment)
  BY <1>8 DEF Wrote
<1>10. /\ disk' \in Disks /\ disk'.head = disk.head /\ disk'.key = disk.key
       /\ disk'.journal = disk.journal
  BY <1>9 DEF AuditInv, Typed, Disks
<1> QED BY <1>1, <1>2, <1>8, <1>10 DEF InFlight

(* ... which it is if it leaves the file's lines, or ends them with the    *)
(* record of the journal.                                                  *)
LEMMA WriteCarried ==
  ASSUME AuditInv, call.step \in {"open", "append"}, NEW c \in Segment,
         disk' = [disk EXCEPT !.segments = Segments(c)],
         NEW f, f = disk.journal.record.file,
         NEW lines, lines = Of(disk.segments, f).lines,
         Due(disk.segments, disk.journal) => Due(disk'.segments, disk'.journal) \/ Done(disk'.segments, disk'.journal),
         Done(disk.segments, disk.journal) => Done(disk'.segments, disk'.journal),
         \/ c.lines = lines
         \/ /\ c.lines = Append(lines, disk.journal.record.line)
            /\ Hash(lines) # disk.journal.record.line.rec
            /\ Hash(c.lines) = disk.journal.record.line.rec
  PROVE  Carried /\ Same
<1> DEFINE S == disk.segments
           T == disk'.segments
           j == disk.journal
<1>1. /\ Wrote(S, f, c, T)
      /\ disk' \in Disks /\ disk'.head = disk.head /\ disk'.key = disk.key
      /\ disk'.journal = j /\ j.record # Nil
      /\ Due(S, j) \/ Done(S, j)
  BY SegmentWritten
<1>2. /\ S \in OnFiles(Segment) /\ j \in Journals /\ j # Nil /\ disk.key.state = "good"
      /\ InFlight(S, disk.head, disk.key.checkpoint, j)
  BY Commit DEF Carrying
<1>3. lines \in Seq(Lines) /\ j.record.line \in Lines /\ f \in Files
  BY <1>1, <1>2, OfTyped, AnchorTyped
<1>4. InFlight(T, disk.head, disk.key.checkpoint, j)
  BY <1>1, <1>2 DEF InFlight
<1>5. DiskSound'
  BY <1>1, <1>2, <1>4 DEF DiskSound, Sound
<1>6. /\ f \in DOMAIN T /\ T[f] = c /\ DOMAIN T = DOMAIN S \cup {f}
      /\ \A g \in DOMAIN S \ {f} : T[g] = S[g]
  BY <1>1 DEF Wrote
<1>7. ASSUME NEW i \in DOMAIN c.lines, c.lines[i].rec # j.record.line.rec
      PROVE  f \in DOMAIN S /\ i \in DOMAIN S[f].lines /\ S[f].lines[i].rec = c.lines[i].rec
  <2>1. i \in DOMAIN lines /\ c.lines[i] = lines[i]
    <3>1. CASE c.lines = lines
      BY <1>7, <3>1
    <3>2. CASE c.lines = Append(lines, j.record.line)
      <4>1. /\ Len(Append(lines, j.record.line)) = Len(lines) + 1
            /\ \A k \in 1 .. Len(lines) : Append(lines, j.record.line)[k] = lines[k]
            /\ Append(lines, j.record.line)[Len(lines) + 1] = j.record.line
            /\ Append(lines, j.record.line) \in Seq(Lines)
        BY <1>3, AppendProperties
      <4>2. DOMAIN c.lines = 1 .. Len(lines) + 1 /\ DOMAIN lines = 1 .. Len(lines) /\ Len(lines) \in Nat
        BY <1>3, <3>2, <4>1, LenProperties
      <4>3. i # Len(lines) + 1
        BY <1>7, <3>2, <4>1
      <4>4. i \in 1 .. Len(lines)
        BY <1>7, <4>2, <4>3
      <4> QED BY <3>2, <4>1, <4>2, <4>4
    <3> QED BY <3>1, <3>2
  <2>2. f \in DOMAIN S
    BY <2>1, EmptyMap DEF Of, NoFile
  <2> QED BY <2>1, <2>2 DEF Of
<1>8. ASSUME NEW r \in Records, Present(r)' PROVE Present(r)
  <2>1. CASE r = j.record.line.rec
    BY <1>1, <1>2, <2>1 DEF Present, Held
  <2>2. CASE r # j.record.line.rec
    <3>1. PICK g \in DOMAIN T : \E i \in DOMAIN T[g].lines : T[g].lines[i].rec = r
      BY <1>1, <1>8, <2>2 DEF Present, Held
    <3>2. PICK i \in DOMAIN T[g].lines : T[g].lines[i].rec = r
      BY <3>1
    <3>3. CASE g = f
      <4>1. i \in DOMAIN c.lines /\ c.lines[i].rec = r
        BY <1>6, <3>2, <3>3
      <4>2. f \in DOMAIN S /\ i \in DOMAIN S[f].lines /\ S[f].lines[i].rec = r
        BY <1>7, <2>2, <4>1
      <4> QED BY <4>2 DEF Present, Held
    <3>4. CASE g # f
      BY <1>6, <3>2, <3>4 DEF Present, Held
    <3> QED BY <3>3, <3>4
  <2> QED BY <2>1, <2>2
<1>9. Carried
  BY <1>1, <1>5, <1>8 DEF Carried
<1>10. Of(T, f) = c /\ \A g \in Files \ {f} : Of(T, g) = Of(S, g)
  BY <1>6 DEF Of
<1>11. Trailed(T, j, f) = Trailed(S, j, f)
  <2>1. CASE c.lines = lines
    BY <1>10, <2>1 DEF Trailed
  <2>2. CASE c.lines # lines
    <3>1. Recs(Append(lines, j.record.line)) = Append(Recs(lines), j.record.line.rec)
      BY <1>3, RecsAppend
    <3>2. Trailed(S, j, f) = Append(Recs(lines), j.record.line.rec)
      BY <1>1, <1>2, <2>2 DEF Trailed
    <3>3. Trailed(T, j, f) = Recs(c.lines)
      BY <1>10, <2>2 DEF Trailed
    <3> QED BY <2>2, <3>1, <3>2, <3>3
  <2> QED BY <2>1, <2>2
<1>12. ASSUME NEW g \in Files PROVE Recoverable(g)' = Recoverable(g)
  <2>1. CASE g = f
    BY <1>1, <1>11, <2>1, TrailedIs
  <2>2. CASE g # f
    <3>1. Trailed(T, j, g) = Trailed(S, j, g)
      BY <1>10, <2>2 DEF Trailed
    <3> QED BY <1>1, <3>1, TrailedIs
  <2> QED BY <2>1, <2>2
<1> QED BY <1>9, <1>12 DEF Same

LEMMA SegmentOpened ==
  ASSUME AuditInv, call.step = "open",
         disk' = [disk EXCEPT !.segments = Segments(Content(disk, Target))]
  PROVE  Carried /\ Same
<1>1. PICK f : f = disk.journal.record.file
  OBVIOUS
<1>2. PICK c : c = Of(disk.segments, f)
  OBVIOUS
<1>3. disk.segments \in OnFiles(Segment) /\ disk.journal \in Journals /\ disk.journal = call.pending
  BY Commit DEF Carrying
<1>4. c \in Segment
  BY <1>2, <1>3, OfTyped
<1>5. disk' = [disk EXCEPT !.segments = Segments(c)]
  BY <1>1, <1>2, <1>3 DEF Content, Of, Target
<1>6. /\ Wrote(disk.segments, f, c, disk'.segments)
      /\ disk'.journal = disk.journal /\ disk.journal.record # Nil
  BY <1>1, <1>4, <1>5, SegmentWritten
<1>7. /\ Due(disk.segments, disk.journal) => Due(disk'.segments, disk.journal)
      /\ Done(disk.segments, disk.journal) => Done(disk'.segments, disk.journal)
  BY <1>1, <1>2, <1>3, <1>6, Opens
<1> QED BY <1>1, <1>2, <1>4, <1>5, <1>6, <1>7, WriteCarried

LEMMA LineTorn ==
  ASSUME AuditInv, call.step = "append", Hash(Content(disk, Target).lines) # Line.rec,
         disk' = [disk EXCEPT !.segments = Segments([Content(disk, Target) EXCEPT !.torn = Line.rec])]
  PROVE  Carried /\ Same
<1>1. PICK f : f = disk.journal.record.file
  OBVIOUS
<1>2. PICK b : b = Of(disk.segments, f)
  OBVIOUS
<1>3. PICK c : c = [b EXCEPT !.torn = disk.journal.record.line.rec]
  OBVIOUS
<1>4. /\ disk.segments \in OnFiles(Segment) /\ disk.journal \in Journals
      /\ disk.journal = call.pending /\ disk.journal.record # Nil
  BY Commit DEF Carrying, AuditInv, Staged
<1>5. b \in Segment /\ disk.journal.record.line.rec \in Records
  BY <1>2, <1>4, OfTyped, AnchorTyped
<1>6. c \in Segment /\ c.lines = b.lines
  BY <1>3, <1>5 DEF Segment
<1>7. disk' = [disk EXCEPT !.segments = Segments(c)]
  BY <1>1, <1>2, <1>3, <1>4 DEF Content, Of, Target, Line
<1>8. /\ Wrote(disk.segments, f, c, disk'.segments) /\ disk'.journal = disk.journal
      /\ Due(disk.segments, disk.journal) \/ Done(disk.segments, disk.journal)
  BY <1>1, <1>6, <1>7, SegmentWritten
<1>9. ~ Done(disk.segments, disk.journal)
  BY <1>4 DEF Done, Content, Target, Line
<1>10. Due(disk'.segments, disk.journal)
  BY <1>1, <1>2, <1>3, <1>4, <1>8, <1>9, Tears
<1> QED BY <1>1, <1>2, <1>6, <1>7, <1>8, <1>9, <1>10, WriteCarried

LEMMA LineWritten ==
  ASSUME AuditInv, call.step = "append",
         disk' = [disk EXCEPT !.segments =
                    Segments([lines |-> Appended(Content(disk, Target).lines), torn |-> Nil])]
  PROVE  Carried /\ Same /\ Done(disk'.segments, disk.journal)
<1>1. PICK f : f = disk.journal.record.file
  OBVIOUS
<1>2. PICK l : l = disk.journal.record.line
  OBVIOUS
<1>3. PICK lines : lines = Of(disk.segments, f).lines
  OBVIOUS
<1>4. PICK c : c = [lines |-> IF Hash(lines) = l.rec THEN lines ELSE Append(lines, l), torn |-> Nil]
  OBVIOUS
<1>5. /\ disk.segments \in OnFiles(Segment) /\ disk.journal \in Journals
      /\ disk.journal = call.pending /\ disk.journal.record # Nil
  BY Commit DEF Carrying, AuditInv, Staged
<1>6. lines \in Seq(Lines) /\ l \in Lines
  BY <1>2, <1>3, <1>5, OfTyped, AnchorTyped
<1>7. Append(lines, l) \in Seq(Lines)
  BY <1>6, AppendProperties
<1>8. /\ c \in Segment /\ c.torn = Nil
      /\ Hash(lines) = l.rec => c.lines = lines
      /\ Hash(lines) # l.rec => c.lines = Append(lines, l)
  BY <1>4, <1>6, <1>7 DEF Segment
<1>9. disk' = [disk EXCEPT !.segments = Segments(c)]
  BY <1>1, <1>2, <1>3, <1>4, <1>5 DEF Appended, Content, Of, Target, Line
<1>10. /\ Wrote(disk.segments, f, c, disk'.segments) /\ disk'.journal = disk.journal
       /\ Due(disk.segments, disk.journal) \/ Done(disk.segments, disk.journal)
  BY <1>1, <1>8, <1>9, SegmentWritten
<1>11. /\ Done(disk'.segments, disk.journal)
       /\ Hash(lines) # l.rec => Due(disk.segments, disk.journal)
  <2>1. PICK S : S = disk.segments
    OBVIOUS
  <2>2. PICK j : j = disk.journal
    OBVIOUS
  <2>3. PICK T : T = disk'.segments
    OBVIOUS
  <2>4. /\ S \in OnFiles(Segment) /\ j \in Journals /\ j.record # Nil
        /\ Due(S, j) \/ Done(S, j)
        /\ f = j.record.file /\ l = j.record.line
        /\ lines = Of(S, f).lines /\ Wrote(S, f, c, T)
    BY <1>1, <1>2, <1>3, <1>5, <1>10, <2>1, <2>2, <2>3
  <2>5. Done(T, j) /\ (Hash(lines) # l.rec => Due(S, j))
    BY <1>8, <2>4, Lands
  <2> QED BY <2>1, <2>2, <2>3, <2>5
<1>12. Hash(lines) # l.rec => Hash(c.lines) = l.rec
  <2> SUFFICES ASSUME Hash(lines) # l.rec PROVE Hash(Append(lines, l)) = l.rec
    BY <1>8
  <2>1. Chained(lines) /\ Hash(lines) = l.prev
    BY <1>1, <1>2, <1>3, <1>11 DEF Due, Waits
  <2> QED BY <1>6, <2>1, AppendChains
<1>13. \/ c.lines = lines
       \/ c.lines = Append(lines, l) /\ Hash(lines) # l.rec /\ Hash(c.lines) = l.rec
  BY <1>8, <1>12
<1>14. Carried /\ Same
  BY <1>1, <1>2, <1>3, <1>8, <1>9, <1>10, <1>11, <1>13, WriteCarried
<1> QED BY <1>11, <1>14

(* Whatever an operation leaves can be carried on, and a record enters a   *)
(* trail with its journal only.                                            *)
LEMMA CutShortCarries ==
  ASSUME AuditInv, call.step \in WriteSteps, disk' \in CutShort
  PROVE  /\ Carried
         /\ Same \/ \E f \in Files : Enters(call.op, f)
<1>1. CASE disk' = disk
  BY <1>1, StaysSame, StaysCarried
<1>2. CASE call.step = "newkey" /\ disk' # disk
  <2>1. disk' = [disk EXCEPT !.key = NoKey("good")] \/ disk' = [disk EXCEPT !.key = NoKey("torn")]
    BY <1>2 DEF CutShort, Written
  <2> QED BY <1>2, <2>1, KeyMade
<1>3. CASE call.step = "journal" /\ disk' # disk
  <2>1. disk' = [disk EXCEPT !.journal = call.pending]
    BY <1>3 DEF CutShort, Written
  <2> QED BY <1>3, <2>1, JournalWritten
<1>4. CASE call.step = "open" /\ disk' # disk
  <2>1. disk' = [disk EXCEPT !.segments = Segments(Content(disk, Target))]
    BY <1>4 DEF CutShort, Written
  <2> QED BY <1>4, <2>1, SegmentOpened
<1>5. CASE call.step = "append" /\ disk' # disk
  <2>1. \/ disk' = [disk EXCEPT !.segments =
                      Segments([lines |-> Appended(Content(disk, Target).lines), torn |-> Nil])]
        \/ /\ Hash(Content(disk, Target).lines) # Line.rec
           /\ disk' = [disk EXCEPT !.segments =
                         Segments([Content(disk, Target) EXCEPT !.torn = Line.rec])]
    BY <1>5 DEF CutShort, Written
  <2>2. CASE disk' = [disk EXCEPT !.segments =
                        Segments([lines |-> Appended(Content(disk, Target).lines), torn |-> Nil])]
    BY <1>5, <2>2, LineWritten
  <2>3. CASE /\ Hash(Content(disk, Target).lines) # Line.rec
             /\ disk' = [disk EXCEPT !.segments =
                           Segments([Content(disk, Target) EXCEPT !.torn = Line.rec])]
    BY <1>5, <2>3, LineTorn
  <2> QED BY <2>1, <2>2, <2>3
<1>6. CASE call.step = "head" /\ disk' # disk
  <2>1. disk' = [disk EXCEPT !.head = call.pending.head]
    BY <1>6 DEF CutShort, Written
  <2> QED BY <1>6, <2>1, HeadWritten
<1>7. CASE call.step = "checkpoint" /\ disk' # disk
  <2>1. disk' = [disk EXCEPT !.key.checkpoint = call.pending.head]
    BY <1>7 DEF CutShort, Written
  <2> QED BY <1>7, <2>1, CheckpointWritten
<1>8. CASE call.step = "remove" /\ disk' # disk
  <2>1. disk' = [disk EXCEPT !.journal = Nil]
    BY <1>8 DEF CutShort, Written
  <2> QED BY <1>8, <2>1, JournalRemoved
<1> QED BY <1>1, <1>2, <1>3, <1>4, <1>5, <1>6, <1>7, <1>8 DEF WriteSteps

-----------------------------------------------------------------------------
(* How a call ends.                                                        *)

LEMMA QuietIs ==
  /\ Quiet \in Calls /\ Quiet.op = Nil /\ Quiet.step = "idle" /\ Quiet.work = "none"
  /\ Nil \notin Records
BY AuditAssumption DEF Quiet, Calls, Resting

\* Refused or lost: nothing is left of the call.
LEMMA EndKeeps ==
  ASSUME AuditInv, Carried, mem' \in Mems, mem'.writer = Nil, call' = Quiet,
         NEW x \in {"refused", "lost"}, answer' = Told(x), Trusting'
  PROVE  AuditInv'
<1>1. answer' \in [Records -> {"none", "refused", "allowed", "lost"}]
  BY DEF AuditInv, Typed, Told
<1>2. Typed'
  BY <1>1, QuietIs DEF Carried, Typed
<1>3. call'.op = Nil /\ call'.step = "idle" /\ call'.work = "none"
  BY QuietIs
<1>4. Staged' /\ Recording'
  BY <1>3 DEF Staged, Recording, Carrying
<1>5. Remembers'
  BY DEF Remembers
<1>6. Fresh'
  <2>1. ASSUME NEW r \in Records, answer'[r] = "none", Present(r)'
        PROVE  FALSE
    <3>1. answer[r] = "none" /\ r # call.op
      BY <2>1 DEF Told, AuditInv, Typed
    <3>2. Present(r)
      BY <2>1, <3>1 DEF Carried
    <3> QED BY <3>1, <3>2 DEF AuditInv, Fresh
  <2>2. call'.op \notin Records
    BY <1>3, QuietIs
  <2> QED BY <2>1, <2>2 DEF Fresh
<1>7. DiskSound'
  BY DEF Carried
<1> QED BY <1>2, <1>4, <1>5, <1>6, <1>7 DEF AuditInv

LEMMA FailKeeps ==
  ASSUME AuditInv, Carried, NEW key \in Keys({"unread", "good", "bad"}), Fails(key),
         faulty' \/ disk'.key.state = "torn"
  PROVE  AuditInv'
<1>1. mem' \in Mems /\ mem'.writer = Nil
  BY DEF AuditInv, Typed, Mems, Fails
<1>2. mem'.poisoned <=> TRUE
  BY DEF AuditInv, Typed, Mems, Fails
<1>3. call' = Quiet /\ answer' = Told("refused")
  BY DEF Fails
<1>4. call'.op \notin Records
  BY <1>3, QuietIs
<1>5. NoFalseAlarm'
  BY DEF NoFalseAlarm
<1>6. Trusting'
  BY <1>1, <1>2, <1>4, <1>5 DEF Trusting
<1> QED BY <1>1, <1>3, <1>6, EndKeeps

LEMMA KeyTyped ==
  ASSUME AuditInv
  PROVE  /\ mem.key \in Keys({"unread", "good", "bad"})
         /\ NoKey("bad") \in Keys({"unread", "good", "bad"})
         /\ NoKey("good") \in Keys({"unread", "good", "bad"})
         /\ mem.key.checkpoint \in Heads \cup {Nil}
         /\ mem.key.state \in {"unread", "good", "bad"}
         /\ mem.writer \in Files \cup {Nil} /\ mem.verified \in OnFiles(Segment)
BY DEF AuditInv, Typed, Mems, Keys, NoKey

LEMMA CrashStep == AuditInv /\ Crash => AuditInv'
<1> SUFFICES ASSUME AuditInv, Crash PROVE AuditInv'
  OBVIOUS
<1>1. Carried
  <2>1. disk' = disk \/ (call.step \in WriteSteps /\ disk' \in CutShort)
    BY DEF Crash
  <2> QED BY <2>1, CutShortCarries, StaysCarried
<1>2. mem' = Started /\ call' = Quiet /\ answer' = Told("lost")
  BY DEF Crash
<1>3. Started \in Mems /\ Started.writer = Nil /\ Started.key.state = "unread"
  BY EmptySegments DEF Started, Mems, Keys, NoKey
<1>4. Started.poisoned <=> FALSE
  BY DEF Started
<1>5. Trusting'
  BY <1>2, <1>3, <1>4 DEF Trusting, NoFalseAlarm
<1> QED BY <1>1, <1>2, <1>3, <1>5, EndKeeps

LEMMA WriteFailsStep == AuditInv /\ WriteFails => AuditInv'
<1> SUFFICES ASSUME AuditInv, WriteFails PROVE AuditInv'
  OBVIOUS
<1>1. Carried
  BY CutShortCarries DEF WriteFails
<1>2. faulty'
  BY DEF WriteFails
<1>3. PICK key : key = IF call.step = "newkey" THEN NoKey("bad") ELSE mem.key
  OBVIOUS
<1>4. Fails(key) /\ key \in Keys({"unread", "good", "bad"})
  BY <1>3, KeyTyped DEF WriteFails
<1> QED BY <1>1, <1>2, <1>4, FailKeeps

-----------------------------------------------------------------------------
(* A file operation that is carried out.                                   *)

\* The code never stops before an operation: what it verifies holds.
LEMMA FitHolds ==
  ASSUME AuditInv, call.step \in WriteSteps
  PROVE  Fit
<1>1. CASE call.step = "append"
  <2>1. /\ disk.journal = call.pending /\ call.pending.record # Nil
        /\ InFlight(disk.segments, disk.head, disk.key.checkpoint, disk.journal)
    BY <1>1, Commit DEF Carrying, AuditInv, Staged
  <2>2. Due(disk.segments, call.pending) \/ Done(disk.segments, call.pending)
    BY <2>1 DEF InFlight
  <2>3. CASE call.work = "record"
    BY <1>1, <2>3 DEF Fit, AuditInv, Recording, Content, Of
  <2>4. CASE call.work = "recover"
    <3>1. Content(disk, Target) = Of(disk.segments, call.pending.record.file)
      BY DEF Content, Of, Target
    <3>2. CASE Due(disk.segments, call.pending)
      BY <1>1, <2>4, <3>1, <3>2 DEF Fit, Due, Waits, Line
    <3>3. CASE Done(disk.segments, call.pending)
      BY <1>1, <2>4, <3>1, <3>3 DEF Fit, Done, Matches, Clean, Of, Line
    <3> QED BY <2>2, <3>2, <3>3
  <2>5. CASE call.work \notin {"record", "recover"}
    BY <1>1, <2>5 DEF Fit
  <2> QED BY <2>3, <2>4, <2>5
<1>2. CASE call.step = "checkpoint"
  BY <1>2 DEF Fit, AuditInv, Staged
<1>3. CASE call.step \notin {"append", "checkpoint"}
  BY <1>3 DEF Fit
<1> QED BY <1>1, <1>2, <1>3

LEMMA CallIs ==
  ASSUME AuditInv, NEW s \in Carrying \cup Resting \cup {"journal"},
         call' = [call EXCEPT !.step = s]
  PROVE  /\ call' \in Calls /\ call'.op = call.op /\ call'.work = call.work
         /\ call'.pending = call.pending /\ call'.step = s
BY DEF AuditInv, Typed, Calls

\* A record that is being written stays fresh for everyone else.
LEMMA StaysFresh ==
  ASSUME AuditInv, Carried, answer' = answer, call'.op = call.op, call'.work = call.work,
         call.work = "record" => call'.step \in Carrying
  PROVE  Fresh'
<1>1. ASSUME NEW r \in Records, answer'[r] = "none", Present(r)'
      PROVE  call.op = r /\ call.work = "record"
  BY <1>1 DEF Carried, AuditInv, Fresh
<1>2. call'.op \in Records => answer'[call'.op] = "none"
  BY DEF AuditInv, Fresh
<1> QED BY <1>1, <1>2 DEF Fresh

LEMMA WrittenIs ==
  ASSUME AuditInv, Writes
  PROVE  /\ call.step \in WriteSteps /\ disk' = Written /\ mem' = Noted /\ Carried
         /\ answer' = (IF Returned THEN Told("allowed") ELSE answer)
         /\ call' = IF Returned THEN Quiet
                    ELSE [call EXCEPT !.step = IF @ = "newkey" THEN "recover"
                                               ELSE IF @ = "remove" THEN "prepare"
                                               ELSE After(call.pending, mem, @)]
         /\ UNCHANGED <<faulty, faults, crashes>>
<1>1. Fit /\ call.step \in WriteSteps
  BY FitHolds DEF Writes
<1>2. disk' = Written
  BY <1>1 DEF Writes
<1>3. Carried
  BY <1>1, <1>2, CutShortCarries DEF CutShort
<1> QED BY <1>1, <1>3 DEF Writes

LEMMA NewkeyStep == AuditInv /\ Writes /\ call.step = "newkey" => AuditInv'
<1> SUFFICES ASSUME AuditInv, Writes, call.step = "newkey" PROVE AuditInv'
  OBVIOUS
<1>1. /\ Carried /\ answer' = answer /\ call' = [call EXCEPT !.step = "recover"]
      /\ disk' = [disk EXCEPT !.key = NoKey("good")] /\ mem' = [mem EXCEPT !.key = NoKey("good")]
      /\ faulty' = faulty
  BY WrittenIs DEF Returned, Written, Noted
<1>2. /\ call' \in Calls /\ call'.op = call.op /\ call'.work = call.work
      /\ call'.step = "recover"
  BY <1>1, CallIs DEF Resting
<1>3. /\ mem' \in Mems /\ mem'.key = NoKey("good") /\ mem'.writer = mem.writer
      /\ mem'.verified = mem.verified
  BY <1>1, KeyTyped DEF AuditInv, Typed, Mems
<1>4. mem'.poisoned <=> mem.poisoned
  BY <1>1 DEF AuditInv, Typed, Mems
<1>5. /\ disk'.key = NoKey("good") /\ disk'.journal = disk.journal
      /\ disk'.segments = disk.segments
  BY <1>1 DEF AuditInv, Typed, Disks
<1>6. call.work # "record"
  BY DEF AuditInv, Recording, Carrying
<1>7. Typed' /\ DiskSound'
  BY <1>1, <1>2, <1>3 DEF Carried, Typed, AuditInv
<1>8. Staged' /\ Recording'
  BY <1>2, <1>3, <1>5, <1>6 DEF AuditInv, Staged, Recording, Carrying, NoKey
<1>9. Remembers'
  BY <1>2, <1>3, <1>5 DEF AuditInv, Remembers, Resting
<1>10. Trusting'
  <2>1. NoFalseAlarm'
    BY <1>1, <1>4 DEF AuditInv, Trusting, NoFalseAlarm, Carried
  <2>2. mem.poisoned => mem'.writer = Nil /\ call'.op \notin Records
    BY <1>2, <1>3 DEF AuditInv, Trusting
  <2>3. mem'.key = disk'.key
    BY <1>3, <1>5
  <2> QED BY <1>4, <2>1, <2>2, <2>3 DEF Trusting
<1>11. Fresh'
  BY <1>1, <1>2, <1>6, StaysFresh
<1> QED BY <1>7, <1>8, <1>9, <1>10, <1>11 DEF AuditInv

\* Of the steps between journal and checkpoint memory notes at most the segment.
LEMMA TrustKept ==
  ASSUME AuditInv, Carried, UNCHANGED faulty, call'.op = call.op,
         disk'.key = disk.key, mem'.key = mem.key,
         mem'.poisoned <=> mem.poisoned,
         mem.poisoned => mem'.writer = Nil
  PROVE  Trusting'
<1>1. NoFalseAlarm'
  BY DEF AuditInv, Trusting, NoFalseAlarm, Carried
<1> QED BY <1>1 DEF AuditInv, Trusting

LEMMA JournalStep == AuditInv /\ Writes /\ call.step = "journal" => AuditInv'
<1> SUFFICES ASSUME AuditInv, Writes, call.step = "journal" PROVE AuditInv'
  OBVIOUS
<1>1. PICK s : s = After(call.pending, mem, "journal")
  OBVIOUS
<1>2. /\ call.pending.record # Nil => s = (IF mem.writer = Nil THEN "open" ELSE "append")
      /\ call.pending.record = Nil => s = "head"
  BY <1>1 DEF After
<1>3. /\ Carried /\ answer' = answer /\ call' = [call EXCEPT !.step = s]
      /\ disk' = [disk EXCEPT !.journal = call.pending] /\ mem' = mem /\ faulty' = faulty
  BY <1>1, WrittenIs DEF Returned, Written, Noted
<1>4. s \in {"open", "append", "head"}
  BY <1>2
<1>5. /\ call' \in Calls /\ call'.op = call.op /\ call'.work = call.work
      /\ call'.pending = call.pending /\ call'.step = s
  BY <1>3, <1>4, CallIs DEF Carrying
<1>6. /\ disk'.journal = call.pending /\ disk'.segments = disk.segments
      /\ disk'.key = disk.key /\ disk'.head = disk.head
  BY <1>3 DEF AuditInv, Typed, Disks
<1>7. Typed' /\ DiskSound'
  BY <1>3, <1>5 DEF Carried, Typed, AuditInv
<1>8. Staged'
  BY <1>2, <1>3, <1>4, <1>5, <1>6 DEF AuditInv, Staged, Carrying
<1>9. Recording'
  BY <1>2, <1>3, <1>4, <1>5, <1>6 DEF AuditInv, Recording, Carrying, Target, Line
<1>10. Remembers'
  BY <1>4, <1>5 DEF Remembers, Resting
<1>11. Trusting'
  BY <1>3, <1>5, <1>6, TrustKept DEF AuditInv, Trusting
<1>12. Fresh'
  BY <1>3, <1>4, <1>5, StaysFresh DEF Carrying
<1> QED BY <1>7, <1>8, <1>9, <1>10, <1>11, <1>12 DEF AuditInv

LEMMA OpenStep == AuditInv /\ Writes /\ call.step = "open" => AuditInv'
<1> SUFFICES ASSUME AuditInv, Writes, call.step = "open" PROVE AuditInv'
  OBVIOUS
<1>1. /\ Carried /\ answer' = answer /\ call' = [call EXCEPT !.step = "append"]
      /\ disk' = [disk EXCEPT !.segments = Segments(Content(disk, Target))]
      /\ mem' = [mem EXCEPT !.writer = Target] /\ faulty' = faulty
  BY WrittenIs DEF Returned, Written, Noted, After
<1>2. /\ call' \in Calls /\ call'.op = call.op /\ call'.work = call.work
      /\ call'.pending = call.pending /\ call'.step = "append"
  BY <1>1, CallIs DEF Carrying
<1>3. /\ disk.journal = call.pending /\ disk.journal \in Journals /\ call.pending.record # Nil
      /\ disk.segments \in OnFiles(Segment)
  BY Commit DEF Carrying, AuditInv, Staged
<1>4. Target \in Files
  BY <1>3, AnchorTyped DEF Target
<1>5. /\ mem' \in Mems /\ mem'.key = mem.key /\ mem'.writer = Target
      /\ mem'.verified = mem.verified
  BY <1>1, <1>4 DEF AuditInv, Typed, Mems
<1>6. mem'.poisoned <=> mem.poisoned
  BY <1>1 DEF AuditInv, Typed, Mems
<1>7. /\ disk'.journal = disk.journal /\ disk'.key = disk.key /\ disk'.head = disk.head
      /\ Of(disk'.segments, Target) = Of(disk.segments, Target)
  <2>1. PICK f : f = disk.journal.record.file
    OBVIOUS
  <2>2. PICK c : c = Of(disk.segments, f)
    OBVIOUS
  <2>3. c \in Segment
    BY <1>3, <2>2, OfTyped
  <2>4. disk' = [disk EXCEPT !.segments = Segments(c)]
    BY <1>1, <1>3, <2>1, <2>2 DEF Content, Of, Target
  <2>5. Wrote(disk.segments, f, c, disk'.segments)
    BY <2>1, <2>3, <2>4, SegmentWritten
  <2>6. Of(disk'.segments, f) = c
    BY <2>5 DEF Wrote, Of
  <2>7. f = Target
    BY <1>3, <2>1 DEF Target
  <2>8. /\ disk'.journal = disk.journal /\ disk'.key = disk.key /\ disk'.head = disk.head
    BY <2>1, <2>3, <2>4, SegmentWritten
  <2> QED BY <2>2, <2>6, <2>7, <2>8
<1>8. Typed' /\ DiskSound'
  BY <1>1, <1>2, <1>5 DEF Carried, Typed, AuditInv
<1>9. Staged'
  BY <1>2, <1>3, <1>5, <1>7 DEF AuditInv, Staged, Carrying
<1>10. call.work = "record"
  BY DEF AuditInv, Recording
<1>11. Recording'
  BY <1>2, <1>5, <1>7, <1>10 DEF AuditInv, Recording, Carrying, Target, Line
<1>12. Remembers'
  BY <1>2 DEF Remembers, Resting
<1>13. Trusting'
  <2>1. call.op \in Records
    BY <1>10 DEF AuditInv, Recording
  <2>2. ~ mem.poisoned
    BY <2>1 DEF AuditInv, Trusting
  <2> QED BY <1>1, <1>2, <1>5, <1>6, <1>7, <2>2, TrustKept
<1>14. Fresh'
  BY <1>1, <1>2, StaysFresh DEF Carrying
<1> QED BY <1>8, <1>9, <1>11, <1>12, <1>13, <1>14 DEF AuditInv

LEMMA AppendStep == AuditInv /\ Writes /\ call.step = "append" => AuditInv'
<1> SUFFICES ASSUME AuditInv, Writes, call.step = "append" PROVE AuditInv'
  OBVIOUS
<1>1. /\ Carried /\ answer' = answer /\ call' = [call EXCEPT !.step = "head"]
      /\ disk' = [disk EXCEPT !.segments =
                    Segments([lines |-> Appended(Content(disk, Target).lines), torn |-> Nil])]
      /\ mem' = mem /\ faulty' = faulty
  BY WrittenIs DEF Returned, Written, Noted, After
<1>2. /\ call' \in Calls /\ call'.op = call.op /\ call'.work = call.work
      /\ call'.pending = call.pending /\ call'.step = "head"
  BY <1>1, CallIs DEF Carrying
<1>3. disk.journal = call.pending /\ call.pending.record # Nil
  BY DEF Carrying, AuditInv, Staged
<1>4. Done(disk'.segments, disk.journal)
  BY <1>1, LineWritten
<1>5. disk'.journal = disk.journal /\ disk'.key = disk.key /\ disk'.head = disk.head
  BY <1>1 DEF AuditInv, Typed, Disks
<1>6. Typed' /\ DiskSound'
  BY <1>1, <1>2 DEF Carried, Typed, AuditInv
<1>7. Staged'
  BY <1>1, <1>2, <1>3, <1>4, <1>5 DEF AuditInv, Staged, Carrying
<1>8. Recording'
  BY <1>1, <1>2, <1>5 DEF AuditInv, Recording, Carrying, Target, Line
<1>9. Remembers'
  BY <1>2 DEF Remembers, Resting
<1>10. Trusting'
  BY <1>1, <1>2, <1>5, TrustKept DEF AuditInv, Trusting
<1>11. Fresh'
  BY <1>1, <1>2, StaysFresh DEF Carrying
<1> QED BY <1>6, <1>7, <1>8, <1>9, <1>10, <1>11 DEF AuditInv

LEMMA HeadStep == AuditInv /\ Writes /\ call.step = "head" => AuditInv'
<1> SUFFICES ASSUME AuditInv, Writes, call.step = "head" PROVE AuditInv'
  OBVIOUS
<1>1. PICK s : s = After(call.pending, mem, "head")
  OBVIOUS
<1>2. s = IF mem.key.checkpoint = call.pending.head THEN "remove" ELSE "checkpoint"
  BY <1>1 DEF After
<1>3. /\ Carried /\ answer' = answer /\ call' = [call EXCEPT !.step = s]
      /\ disk' = [disk EXCEPT !.head = call.pending.head] /\ mem' = mem /\ faulty' = faulty
  BY <1>1, WrittenIs DEF Returned, Written, Noted
<1>4. s \in {"remove", "checkpoint"}
  BY <1>2
<1>5. /\ call' \in Calls /\ call'.op = call.op /\ call'.work = call.work
      /\ call'.pending = call.pending /\ call'.step = s
  BY <1>3, <1>4, CallIs DEF Carrying
<1>6. /\ disk'.journal = disk.journal /\ disk'.segments = disk.segments
      /\ disk'.key = disk.key /\ disk'.head = call.pending.head
  BY <1>3 DEF AuditInv, Typed, Disks
<1>7. Typed' /\ DiskSound'
  BY <1>3, <1>5 DEF Carried, Typed, AuditInv
<1>8. Staged'
  BY <1>2, <1>3, <1>4, <1>5, <1>6 DEF AuditInv, Staged, Carrying
<1>9. Recording'
  BY <1>3, <1>4, <1>5, <1>6 DEF AuditInv, Recording, Carrying, Target, Line
<1>10. Remembers'
  BY <1>4, <1>5 DEF Remembers, Resting
<1>11. Trusting'
  BY <1>3, <1>5, <1>6, TrustKept DEF AuditInv, Trusting
<1>12. Fresh'
  BY <1>3, <1>4, <1>5, StaysFresh DEF Carrying
<1> QED BY <1>7, <1>8, <1>9, <1>10, <1>11, <1>12 DEF AuditInv

LEMMA CheckpointStep == AuditInv /\ Writes /\ call.step = "checkpoint" => AuditInv'
<1> SUFFICES ASSUME AuditInv, Writes, call.step = "checkpoint" PROVE AuditInv'
  OBVIOUS
<1>1. /\ Carried /\ answer' = answer /\ call' = [call EXCEPT !.step = "remove"]
      /\ disk' = [disk EXCEPT !.key.checkpoint = call.pending.head]
      /\ mem' = [mem EXCEPT !.key.checkpoint = call.pending.head] /\ faulty' = faulty
  BY WrittenIs DEF Returned, Written, Noted, After
<1>2. /\ call' \in Calls /\ call'.op = call.op /\ call'.work = call.work
      /\ call'.pending = call.pending /\ call'.step = "remove"
  BY <1>1, CallIs DEF Carrying
<1>3. disk.journal = call.pending /\ disk.journal.head \in Heads /\ mem.key = disk.key
      /\ disk.key.state = "good"
  BY Commit DEF Carrying, AuditInv, Staged
<1>4. /\ mem' \in Mems /\ mem'.writer = mem.writer /\ mem'.verified = mem.verified
      /\ mem'.key.state = mem.key.state /\ mem'.key.checkpoint = call.pending.head
  BY <1>1, <1>3 DEF AuditInv, Typed, Mems, Keys
<1>5. mem'.poisoned <=> mem.poisoned
  BY <1>1 DEF AuditInv, Typed, Mems
<1>6. /\ disk'.journal = disk.journal /\ disk'.head = disk.head
      /\ disk'.segments = disk.segments
      /\ disk'.key.state = disk.key.state /\ disk'.key.checkpoint = call.pending.head
  BY <1>1, <1>3 DEF AuditInv, Typed, Disks, Keys
<1>7. mem'.key = disk'.key
  <2>1. mem.key = [state |-> mem.key.state, checkpoint |-> mem.key.checkpoint]
    BY DEF AuditInv, Typed, Mems, Keys
  <2>2. mem'.key = [mem.key EXCEPT !.checkpoint = call.pending.head]
    BY <1>1 DEF AuditInv, Typed, Mems
  <2>3. disk'.key = [disk.key EXCEPT !.checkpoint = call.pending.head]
    BY <1>1 DEF AuditInv, Typed, Disks
  <2> QED BY <1>3, <2>2, <2>3
<1>8. Typed' /\ DiskSound'
  BY <1>1, <1>2, <1>4 DEF Carried, Typed, AuditInv
<1>9. Staged'
  BY <1>2, <1>3, <1>6, <1>7 DEF AuditInv, Staged, Carrying
<1>10. Recording'
  BY <1>2, <1>4, <1>6 DEF AuditInv, Recording, Carrying, Target, Line
<1>11. Remembers'
  BY <1>2 DEF Remembers, Resting
<1>12. Trusting'
  <2>1. NoFalseAlarm'
    BY <1>1, <1>5 DEF AuditInv, Trusting, NoFalseAlarm, Carried
  <2>2. mem'.poisoned => mem'.writer = Nil /\ call'.op \notin Records
    BY <1>2, <1>4, <1>5 DEF AuditInv, Trusting
  <2> QED BY <1>7, <2>1, <2>2 DEF Trusting
<1>13. Fresh'
  BY <1>1, <1>2, StaysFresh DEF Carrying
<1> QED BY <1>8, <1>9, <1>10, <1>11, <1>12, <1>13 DEF AuditInv

\* The commit of another process, or the first checkpoint, is complete.
LEMMA RemoveStep == AuditInv /\ Writes /\ call.step = "remove" => AuditInv'
<1> SUFFICES ASSUME AuditInv, Writes, call.step = "remove" PROVE AuditInv'
  OBVIOUS
<1>1. /\ Carried /\ disk' = [disk EXCEPT !.journal = Nil] /\ faulty' = faulty
  BY WrittenIs DEF Written
<1>2. /\ disk'.journal = Nil /\ disk'.segments = disk.segments
      /\ disk'.key = disk.key /\ disk'.head = disk.head
  BY <1>1 DEF AuditInv, Typed, Disks
<1>3. CASE call.work = "record"
  <2>1. Returned
    BY <1>3 DEF Returned
  <2>2. /\ call' = Quiet /\ answer' = Told("allowed")
        /\ mem' = [mem EXCEPT !.verified = disk.segments]
    BY <1>3, <2>1, WrittenIs DEF Noted
  <2>3. /\ call' \in Calls /\ call'.op = Nil /\ call'.step = "idle" /\ call'.work = "none"
    BY <2>2, QuietIs
  <2>4. /\ mem' \in Mems /\ mem'.key = mem.key /\ mem'.writer = mem.writer
        /\ mem'.verified = disk.segments
    BY <2>2, DiskIs DEF AuditInv, Typed, Mems
  <2>5. mem'.poisoned <=> mem.poisoned
    BY <2>2 DEF AuditInv, Typed, Mems
  <2>6. answer' \in [Records -> {"none", "refused", "allowed", "lost"}]
    BY <2>2 DEF AuditInv, Typed, Told
  <2>7. Typed' /\ DiskSound'
    BY <1>1, <2>3, <2>4, <2>6 DEF Carried, Typed
  <2>8. Staged' /\ Recording'
    BY <2>3 DEF Staged, Recording, Carrying
  <2>9. Remembers'
    <3>1. mem.writer = Target /\ Target \in DOMAIN disk.segments
      <4>1. mem.writer = Target /\ call.pending.record # Nil
        BY <1>3 DEF AuditInv, Recording, Carrying
      <4>2. Done(disk.segments, call.pending)
        BY <4>1 DEF AuditInv, Staged
      <4> QED BY <4>1, <4>2 DEF Done, Target
    <3> QED BY <1>2, <2>4, <3>1 DEF Remembers
  <2>10. Trusting'
    <3>1. NoFalseAlarm'
      BY <1>1, <2>5 DEF AuditInv, Trusting, NoFalseAlarm, Carried
    <3>2. mem'.poisoned => mem'.writer = Nil /\ call'.op \notin Records
      BY <2>3, <2>4, <2>5, QuietIs DEF AuditInv, Trusting
    <3>3. mem'.key = disk'.key
      BY <1>2, <2>4 DEF AuditInv, Staged
    <3> QED BY <3>1, <3>2, <3>3 DEF Trusting
  <2>11. Fresh'
    <3>1. ASSUME NEW r \in Records, answer'[r] = "none", Present(r)' PROVE FALSE
      <4>1. answer[r] = "none" /\ r # call.op
        BY <2>2, <3>1 DEF Told, AuditInv, Typed
      <4>2. Present(r)
        BY <1>1, <3>1, <4>1 DEF Carried
      <4> QED BY <4>1, <4>2 DEF AuditInv, Fresh
    <3>2. call'.op \notin Records
      BY <2>3, QuietIs
    <3> QED BY <3>1, <3>2 DEF Fresh
  <2> QED BY <2>7, <2>8, <2>9, <2>10, <2>11 DEF AuditInv
<1>4. CASE call.work # "record"
  <2>1. ~ Returned
    BY <1>4 DEF Returned
  <2>2. /\ call' = [call EXCEPT !.step = "prepare"] /\ answer' = answer
        /\ mem' = IF call.work = "recover" THEN [mem EXCEPT !.writer = Nil, !.verified = << >>]
                  ELSE mem
    BY <2>1, WrittenIs DEF Noted
  <2>3. /\ call' \in Calls /\ call'.op = call.op /\ call'.work = call.work
        /\ call'.step = "prepare"
    BY <2>2, CallIs DEF Resting
  <2>4. /\ mem' \in Mems /\ mem'.key = mem.key /\ mem'.writer = Nil
    <3>1. mem.writer = Nil
      BY <1>4 DEF AuditInv, Recording, Carrying
    <3> QED BY <2>2, <3>1, EmptySegments DEF AuditInv, Typed, Mems
  <2>5. mem'.poisoned <=> mem.poisoned
    BY <2>2 DEF AuditInv, Typed, Mems
  <2>6. Typed' /\ DiskSound'
    BY <1>1, <2>2, <2>3, <2>4 DEF Carried, Typed, AuditInv
  <2>7. Staged' /\ Recording'
    BY <1>2, <1>4, <2>3, <2>4 DEF AuditInv, Staged, Recording, Carrying
  <2>8. Remembers'
    BY <2>4 DEF Remembers
  <2>9. Trusting'
    BY <1>1, <1>2, <2>3, <2>4, <2>5, TrustKept
  <2>10. Fresh'
    BY <1>1, <1>4, <2>2, <2>3, StaysFresh
  <2> QED BY <2>6, <2>7, <2>8, <2>9, <2>10 DEF AuditInv
<1> QED BY <1>3, <1>4

LEMMA WritesStep == AuditInv /\ Writes => AuditInv'
BY NewkeyStep, JournalStep, OpenStep, AppendStep, HeadStep, CheckpointStep, RemoveStep
   DEF Writes, WriteSteps

-----------------------------------------------------------------------------
(* The steps that read.                                                    *)

\* Nothing on disk and nothing told: what a call that goes on must show.
LEMMA ReadKeeps ==
  ASSUME AuditInv, UNCHANGED <<disk, answer, faulty>>,
         call' \in Calls, call'.op \in {call.op, Nil}, call.work # "record",
         mem' \in Mems, mem'.poisoned <=> mem.poisoned,
         mem.poisoned => mem'.writer = Nil,
         mem'.key = mem.key \/ mem'.key = disk.key,
         Staged', Recording', Remembers'
  PROVE  AuditInv'
<1>1. Typed' /\ DiskSound'
  BY DEF AuditInv, Typed, DiskSound
<1>2. Trusting'
  <2>1. NoFalseAlarm'
    BY DEF AuditInv, Trusting, NoFalseAlarm
  <2> QED BY <2>1, QuietIs DEF AuditInv, Trusting
<1>3. Fresh'
  <2>1. ASSUME NEW r \in Records, answer[r] = "none" PROVE ~ Present(r)
    BY <2>1 DEF AuditInv, Fresh
  <2>2. ASSUME NEW r \in Records, answer'[r] = "none" PROVE ~ Present(r)'
    BY <2>1, <2>2 DEF Present
  <2> QED BY <2>2, QuietIs DEF AuditInv, Fresh
<1> QED BY <1>1, <1>2, <1>3 DEF AuditInv

LEMMA BeginsStep ==
  ASSUME AuditInv, NEW day \in Days, NEW op \in Records \cup {"verify"}, Begins(op, day)
  PROVE  AuditInv'
<1>1. /\ call = Quiet /\ UNCHANGED <<disk, mem, faulty>> /\ call.op = Nil /\ call.step = "idle"
      /\ call.work = "none" /\ Nil \notin Records /\ day \in Nat
      /\ op = "verify" => op \notin Records
      /\ op # Nil
  BY QuietIs, AuditAssumption DEF Begins
<1>2. CASE op # "verify" /\ mem.poisoned
  <2>1. /\ answer' = [answer EXCEPT ![op] = "refused"] /\ call' = call
    BY <1>2 DEF Begins
  <2>2. answer' \in [Records -> {"none", "refused", "allowed", "lost"}]
    BY <1>2, <2>1 DEF AuditInv, Typed
  <2>3. Typed' /\ DiskSound' /\ Staged' /\ Recording' /\ Remembers'
    BY <1>1, <2>1, <2>2 DEF AuditInv, Typed, DiskSound, Staged, Recording, Remembers, Carrying
  <2>4. Trusting'
    BY <1>1, <2>1 DEF AuditInv, Trusting, NoFalseAlarm
  <2>5. Fresh'
    <3>1. ASSUME NEW r \in Records, answer'[r] = "none" PROVE ~ Present(r)'
      <4>1. answer[r] = "none"
        BY <2>1, <3>1 DEF AuditInv, Typed
      <4>2. ~ Present(r)
        BY <1>1, <4>1 DEF AuditInv, Fresh
      <4> QED BY <1>1, <4>2 DEF Present
    <3> QED BY <1>1, <2>1, <3>1 DEF Fresh
  <2> QED BY <2>3, <2>4, <2>5 DEF AuditInv
<1>3. CASE ~ (op # "verify" /\ mem.poisoned)
  <2>1. /\ call' = [Quiet EXCEPT !.op = op, !.day = day, !.step = "key"] /\ answer' = answer
    BY <1>3 DEF Begins
  <2>2. /\ call' \in Calls /\ call'.op = op /\ call'.step = "key" /\ call'.work = "none"
    BY <1>1, <2>1 DEF Quiet, Calls, Resting
  <2>3. Typed' /\ DiskSound' /\ Staged' /\ Recording' /\ Remembers'
    BY <1>1, <2>1, <2>2 DEF AuditInv, Typed, DiskSound, Staged, Recording, Remembers, Carrying,
       Resting
  <2>4. Trusting'
    <3>1. mem.poisoned => op \notin Records
      BY <1>1, <1>3
    <3> QED BY <1>1, <2>2, <3>1 DEF AuditInv, Trusting, NoFalseAlarm
  <2>5. Fresh'
    <3>1. ASSUME NEW r \in Records, answer'[r] = "none" PROVE ~ Present(r)'
      <4>1. ~ Present(r)
        BY <1>1, <2>1, <3>1 DEF AuditInv, Fresh
      <4> QED BY <1>1, <4>1 DEF Present
    <3>2. op \in Records => answer[op] = "none"
      BY <1>1 DEF Begins
    <3> QED BY <2>1, <2>2, <3>1, <3>2 DEF Fresh
  <2> QED BY <2>3, <2>4, <2>5 DEF AuditInv
<1> QED BY <1>2, <1>3

LEMMA ReadsKeyStep == AuditInv /\ ReadsKey => AuditInv'
<1> SUFFICES ASSUME AuditInv, ReadsKey PROVE AuditInv'
  OBVIOUS
<1>1. /\ call.step = "key" /\ UNCHANGED <<disk, faulty>> /\ call.work # "record"
  BY DEF ReadsKey, AuditInv, Recording, Carrying
<1>2. CASE mem.key.state = "unread" /\ disk.key.state = "absent"
  <2>1. call' = [call EXCEPT !.step = "newkey"] /\ UNCHANGED <<mem, answer>>
    BY <1>2 DEF ReadsKey
  <2>2. /\ call' \in Calls /\ call'.op = call.op /\ call'.work = call.work
        /\ call'.step = "newkey"
    BY <2>1, CallIs DEF Resting
  <2>3. Staged' /\ Recording' /\ Remembers'
    BY <1>1, <1>2, <2>1, <2>2 DEF AuditInv, Staged, Recording, Remembers, Carrying, Resting
  <2>4. mem' \in Mems /\ (mem.poisoned => mem'.writer = Nil)
    BY <2>1 DEF AuditInv, Typed, Trusting
  <2> QED BY <1>1, <2>1, <2>2, <2>3, <2>4, ReadKeeps
<1>3. CASE /\ ~ (mem.key.state = "unread" /\ disk.key.state = "absent")
           /\ disk.key.state = "good" /\ (mem.key.state = "unread" \/ mem.key = disk.key)
  <2>1. /\ call' = [call EXCEPT !.step = "recover"] /\ mem' = [mem EXCEPT !.key = disk.key]
        /\ answer' = answer
    BY <1>3 DEF ReadsKey
  <2>2. /\ call' \in Calls /\ call'.op = call.op /\ call'.work = call.work
        /\ call'.step = "recover"
    BY <2>1, CallIs DEF Resting
  <2>3. disk.key \in Keys({"unread", "good", "bad"})
    BY <1>3, DiskIs DEF AuditInv, Keys
  <2>4. /\ mem' \in Mems /\ mem'.key = disk.key /\ mem'.writer = mem.writer
        /\ mem'.verified = mem.verified
    BY <2>1, <2>3 DEF AuditInv, Typed, Mems
  <2>5. mem'.poisoned <=> mem.poisoned
    BY <2>1 DEF AuditInv, Typed, Mems
  <2>6. Staged' /\ Recording' /\ Remembers'
    BY <1>1, <1>3, <2>2, <2>4 DEF AuditInv, Staged, Recording, Remembers, Carrying, Resting
  <2>7. mem.poisoned => mem'.writer = Nil
    BY <2>4 DEF AuditInv, Trusting
  <2> QED BY <1>1, <2>1, <2>2, <2>4, <2>5, <2>6, <2>7, ReadKeeps
<1>4. CASE /\ ~ (mem.key.state = "unread" /\ disk.key.state = "absent")
           /\ ~ (disk.key.state = "good" /\ (mem.key.state = "unread" \/ mem.key = disk.key))
  <2>1. PICK key : key = IF mem.key.state = "unread" THEN NoKey("bad") ELSE mem.key
    OBVIOUS
  <2>2. Fails(key) /\ key \in Keys({"unread", "good", "bad"})
    BY <1>4, <2>1, KeyTyped DEF ReadsKey
  <2>3. Carried
    BY <1>1, StaysCarried
  <2>4. faulty \/ disk.key.state = "torn"
    <3>1. CASE mem.poisoned
      BY <3>1 DEF AuditInv, Trusting, NoFalseAlarm
    <3>2. CASE ~ mem.poisoned /\ mem.key.state # "unread"
      <4>1. mem.key = disk.key
        BY <3>2 DEF AuditInv, Trusting
      <4>2. disk.key.state = "good"
        BY <4>1, KeyTyped, <3>2, DiskIs DEF AuditInv, Keys
      <4> QED BY <1>4, <4>1, <4>2
    <3>3. CASE mem.key.state = "unread"
      BY <1>4, <3>3, DiskIs DEF AuditInv, Keys
    <3> QED BY <3>1, <3>2, <3>3
  <2>5. faulty' \/ disk'.key.state = "torn"
    BY <1>1, <2>4
  <2> QED BY <2>2, <2>3, <2>5, FailKeeps
<1> QED BY <1>2, <1>3, <1>4

LEMMA RecoversStep == AuditInv /\ Recovers => AuditInv'
<1> SUFFICES ASSUME AuditInv, Recovers PROVE AuditInv'
  OBVIOUS
<1>1. /\ call.step = "recover" /\ UNCHANGED <<disk, faulty>> /\ call.work # "record"
      /\ mem.key = disk.key /\ disk.key.state = "good"
  BY DEF Recovers, AuditInv, Recording, Staged, Carrying
<1>2. CASE disk.journal = Nil
  <2>1. call' = [call EXCEPT !.step = "prepare"] /\ UNCHANGED <<mem, answer>>
    BY <1>2 DEF Recovers
  <2>2. /\ call' \in Calls /\ call'.op = call.op /\ call'.work = call.work
        /\ call'.step = "prepare"
    BY <2>1, CallIs DEF Resting
  <2>3. Staged' /\ Recording' /\ Remembers'
    BY <1>1, <1>2, <2>1, <2>2 DEF AuditInv, Staged, Recording, Remembers, Carrying, Resting
  <2>4. mem' \in Mems /\ (mem.poisoned => mem'.writer = Nil)
    BY <2>1 DEF AuditInv, Typed, Trusting
  <2> QED BY <1>1, <2>1, <2>2, <2>3, <2>4, ReadKeeps
<1>3. CASE disk.journal # Nil
  <2>0. PICK j : j = disk.journal
    OBVIOUS
  <2>1. InFlight(disk.segments, disk.head, disk.key.checkpoint, j) /\ j \in Journals
    BY <1>3, <2>0, DiskIs DEF AuditInv, DiskSound, Sound
  <2>2. Extends(j, mem.key.checkpoint)
    BY <1>1, <2>1 DEF InFlight, Extends
  <2>3. PICK s : s = IF j.record = Nil THEN "head" ELSE "append"
    OBVIOUS
  <2>4. /\ call' = [call EXCEPT !.work = "recover", !.pending = j, !.step = s]
        /\ UNCHANGED <<mem, answer>>
    BY <1>3, <2>0, <2>2, <2>3 DEF Recovers
  <2>5. s \in {"head", "append"} /\ (s = "head" <=> j.record = Nil)
    BY <2>3
  <2>6. /\ call' \in Calls /\ call'.op = call.op /\ call'.work = "recover"
        /\ call'.step = s /\ call'.pending = j
    BY <2>1, <2>4, <2>5 DEF AuditInv, Typed, Calls, Carrying
  <2>7. mem.writer = Nil
    BY <1>1, <1>3 DEF AuditInv, Remembers, Resting
  <2>8. Staged'
    BY <1>1, <1>3, <2>0, <2>4, <2>5, <2>6 DEF Staged, Carrying
  <2>9. Recording' /\ Remembers'
    BY <1>1, <2>4, <2>5, <2>6, <2>7 DEF AuditInv, Recording, Remembers, Carrying
  <2>10. mem' \in Mems /\ (mem.poisoned => mem'.writer = Nil)
    BY <2>4, <2>7 DEF AuditInv, Typed
  <2> QED BY <1>1, <2>4, <2>6, <2>8, <2>9, <2>10, ReadKeeps
<1> QED BY <1>2, <1>3

\* Before a commit is prepared, the files are as the checkpoint says.
LEMMA Prepared ==
  ASSUME AuditInv, call.step = "prepare"
  PROVE  /\ disk.segments \in OnFiles(Segment) /\ disk.journal = Nil /\ call.work # "record"
         /\ mem.key = disk.key /\ disk.key.state = "good"
         /\ disk.key.checkpoint \in Heads \cup {Nil}
         /\ Settled(disk.segments, disk.head, disk.key.checkpoint)
         /\ call.op # Nil
BY DiskIs DEF AuditInv, Staged, Recording, Carrying, DiskSound, Sound

LEMMA InitializesStep == AuditInv /\ Initializes => AuditInv'
<1> SUFFICES ASSUME AuditInv, Initializes PROVE AuditInv'
  OBVIOUS
<1>1. /\ call.step = "prepare" /\ UNCHANGED <<disk, faulty>> /\ mem.key.checkpoint = Nil
      /\ disk.journal = Nil /\ call.work # "record"
      /\ mem.key = disk.key /\ disk.key.state = "good"
      /\ disk.head = Nil /\ disk.segments = << >>
  BY Prepared DEF Initializes, Settled
<1>2. PICK p : p = [previous |-> Nil, record |-> Nil,
                    head |-> [generation |-> 1, entries |-> << >>]]
  OBVIOUS
<1>3. /\ call' = [call EXCEPT !.work = "init", !.step = "journal", !.pending = p]
      /\ UNCHANGED <<mem, answer>>
  BY <1>1, <1>2 DEF Initializes
<1>4. /\ p \in Journals /\ p.record = Nil /\ p.previous = Nil /\ p.head \in Heads
      /\ p.head.entries = << >>
  <2>1. [generation |-> 1, entries |-> << >>] \in Heads
    BY EmptySegments DEF Heads
  <2> QED BY <1>2, <2>1 DEF Journals
<1>5. p # Nil /\ p.head # Nil
  BY <1>4, AuditAssumption
<1>6. InFlight(disk.segments, disk.head, disk.key.checkpoint, p)
  BY <1>1, <1>4, <1>5 DEF InFlight
<1>7. /\ call' \in Calls /\ call'.op = call.op /\ call'.work = "init"
      /\ call'.step = "journal" /\ call'.pending = p
  BY <1>3, <1>4 DEF AuditInv, Typed, Calls
<1>8. mem.writer = Nil
  <2>1. mem.writer \notin DOMAIN disk.segments
    BY <1>1, EmptyMap
  <2> QED BY <1>1, <2>1 DEF AuditInv, Remembers, Resting
<1>9. Staged'
  BY <1>1, <1>3, <1>5, <1>6, <1>7 DEF Staged, Carrying
<1>10. Recording' /\ Remembers'
  BY <1>1, <1>3, <1>4, <1>7, <1>8, Prepared DEF Recording, Remembers, Carrying
<1>11. mem' \in Mems /\ (mem.poisoned => mem'.writer = Nil)
  BY <1>3, <1>8 DEF AuditInv, Typed
<1> QED BY <1>1, <1>3, <1>7, <1>9, <1>10, <1>11, ReadKeeps

LEMMA CommitsStep ==
  ASSUME AuditInv, call.step = "prepare", call.op \in Records, UNCHANGED <<disk, faulty>>,
         disk.key.checkpoint # Nil,
         NEW f \in Files, NEW lines, lines = Of(disk.segments, f).lines,
         NEW m \in Mems, Commits(f, lines, m),
         m.key = mem.key, m.poisoned <=> mem.poisoned, m.writer \in {Nil, f},
         m.verified = disk.segments
  PROVE  AuditInv'
<1>1. /\ disk.segments \in OnFiles(Segment) /\ disk.journal = Nil /\ call.work # "record"
      /\ mem.key = disk.key /\ disk.key.state = "good"
      /\ disk.head = disk.key.checkpoint /\ disk.key.checkpoint \in Heads
      /\ Matches(disk.segments, disk.key.checkpoint)
      /\ call.op # Nil
  BY Prepared DEF Settled
<1>2. PICK P : P = disk.key.checkpoint
  OBVIOUS
<1>3. PICK S : S = disk.segments
  OBVIOUS
<1>4. PICK r : r = call.op
  OBVIOUS
<1>5. PICK j : j = [previous |-> P,
                    record |-> [file |-> f, line |-> [rec |-> r, prev |-> Hash(lines)]],
                    head |-> [generation |-> P.generation + 1,
                              entries |-> [g \in DOMAIN P.entries \cup {f} |->
                                             IF g = f THEN [count |-> Len(lines) + 1, last |-> r]
                                             ELSE P.entries[g]]]]
  OBVIOUS
<1>6. /\ call' = [call EXCEPT !.work = "record", !.step = "journal", !.pending = j]
      /\ mem' = m /\ answer' = answer
  BY <1>1, <1>2, <1>4, <1>5 DEF Commits
<1>7. Hash(lines) # r
  <2> SUFFICES ASSUME Hash(lines) = r PROVE FALSE
    OBVIOUS
  <2>1. \E g \in DOMAIN S : \E i \in DOMAIN S[g].lines : S[g].lines[i].rec = r
    <3>1. S \in OnFiles(Segment) /\ r \in Records /\ Hash(Of(S, f).lines) = r
      BY <1>1, <1>3, <1>4
    <3> QED BY <3>1, HashHeld
  <2>2. Present(r)
    BY <1>3, <2>1 DEF Present, Held
  <2> QED BY <1>1, <1>4, <2>2 DEF AuditInv, Fresh
<1>8. /\ j \in Journals /\ j # Nil /\ j.record # Nil
      /\ j.record.file = f /\ j.record.line.rec = r
      /\ InFlight(S, P, P, j)
  <2>1. /\ S \in OnFiles(Segment) /\ P \in Heads /\ Matches(S, P) /\ r \in Records
        /\ lines = Of(S, f).lines
    BY <1>1, <1>2, <1>3, <1>4
  <2> QED BY <1>5, <1>7, <2>1, Commences
<1>9. /\ call' \in Calls /\ call'.op = call.op /\ call'.work = "record"
      /\ call'.step = "journal" /\ call'.pending = j
  BY <1>6, <1>8 DEF AuditInv, Typed, Calls
<1>10. Staged'
  BY <1>1, <1>2, <1>3, <1>6, <1>8, <1>9 DEF Staged, Carrying
<1>11. Recording' /\ Remembers'
  BY <1>1, <1>4, <1>6, <1>8, <1>9 DEF Recording, Remembers, Carrying, Resting, Target, Line
<1>12. ~ mem.poisoned
  BY DEF AuditInv, Trusting
<1> QED BY <1>1, <1>6, <1>9, <1>10, <1>11, <1>12, ReadKeeps

LEMMA ContinuesStep == AuditInv /\ Continues => AuditInv'
<1> SUFFICES ASSUME AuditInv, Continues PROVE AuditInv'
  OBVIOUS
<1>1. PICK f : f = mem.writer
  OBVIOUS
<1>2. /\ call.step = "prepare" /\ call.op \in Records /\ f # Nil /\ UNCHANGED <<disk, faulty>>
  BY <1>1 DEF Continues, WriterServes
<1>3. /\ mem.verified = disk.segments /\ f \in DOMAIN disk.segments
      /\ f \in Files
  BY <1>1, <1>2, KeyTyped DEF AuditInv, Remembers, Resting
<1>4. /\ mem.key = disk.key /\ Settled(disk.segments, disk.head, disk.key.checkpoint)
  BY <1>2, Prepared
<1>5. disk.key.checkpoint # Nil
  <2>1. disk.segments # << >>
    BY <1>3, EmptyMap
  <2> QED BY <1>4, <2>1 DEF Settled
<1>6. /\ disk.head = mem.key.checkpoint /\ f \in DOMAIN disk.head.entries
      /\ disk.head.entries[f] = Entry(mem.verified[f].lines)
  BY <1>3, <1>4, <1>5 DEF Settled, Matches, Clean
<1>7. PICK lines : lines = mem.verified[f].lines
  OBVIOUS
<1>8. lines = Of(disk.segments, f).lines
  BY <1>3, <1>7 DEF Of
<1>9. Commits(f, lines, mem)
  BY <1>1, <1>3, <1>6, <1>7 DEF Continues
<1>10. mem \in Mems
  BY DEF AuditInv, Typed
<1> QED BY <1>1, <1>2, <1>3, <1>5, <1>8, <1>9, <1>10, CommitsStep

LEMMA ChecksStep == AuditInv /\ Checks => AuditInv'
<1> SUFFICES ASSUME AuditInv, Checks PROVE AuditInv'
  OBVIOUS
<1>1. /\ call.step = "prepare" /\ UNCHANGED <<disk, faulty>> /\ mem.key.checkpoint # Nil
      /\ mem.key = disk.key /\ call.work # "record" /\ call.op # Nil /\ disk.journal = Nil
      /\ Settled(disk.segments, disk.head, disk.key.checkpoint)
      /\ disk.segments \in OnFiles(Segment)
  BY Prepared DEF Checks
<1>2. Verifies(disk, mem.key.checkpoint)
  BY <1>1 DEF Verifies, Settled, Matches, Clean
<1>3. CASE call.op = "verify"
  <2>1. call' = Quiet /\ UNCHANGED <<mem, answer>>
    BY <1>2, <1>3 DEF Checks
  <2>2. /\ call' \in Calls /\ call'.op = Nil /\ call'.work = "none" /\ call'.step = "idle"
    BY <2>1, QuietIs
  <2>3. Staged' /\ Recording'
    BY <2>2 DEF Staged, Recording, Carrying
  <2>4. Remembers'
    BY <1>1, <2>1 DEF AuditInv, Remembers, Resting
  <2>5. mem' \in Mems /\ (mem.poisoned => mem'.writer = Nil)
    BY <2>1 DEF AuditInv, Typed, Trusting
  <2> QED BY <1>1, <2>1, <2>2, <2>3, <2>4, <2>5, ReadKeeps
<1>4. CASE call.op # "verify"
  <2>1. call.op \in Records
    BY <1>1, <1>4 DEF AuditInv, Typed, Calls
  <2>2. PICK f : f = Active(disk, call.day)
    OBVIOUS
  <2>3. PICK m : m = [mem EXCEPT !.writer = Nil, !.verified = disk.segments]
    OBVIOUS
  <2>4. PICK lines : lines = Content(disk, f).lines
    OBVIOUS
  <2>5. f \in Files /\ Commits(f, lines, m)
    BY <1>2, <1>4, <2>2, <2>3, <2>4 DEF Checks
  <2>6. /\ m \in Mems /\ m.key = mem.key /\ m.writer = Nil /\ m.verified = disk.segments
    BY <1>1, <2>3 DEF AuditInv, Typed, Mems
  <2>7. m.poisoned <=> mem.poisoned
    BY <2>3 DEF AuditInv, Typed, Mems
  <2>8. lines = Of(disk.segments, f).lines
    BY <2>4 DEF Content, Of
  <2> QED BY <1>1, <2>1, <2>5, <2>6, <2>7, <2>8, CommitsStep
<1> QED BY <1>3, <1>4

LEMMA AuditInit == Init => AuditInv
<1> SUFFICES ASSUME Init PROVE AuditInv
  OBVIOUS
<1>1. /\ disk \in Disks /\ disk.segments = << >> /\ disk.head = Nil /\ disk.journal = Nil
      /\ disk.key.state = "absent" /\ disk.key.checkpoint = Nil
  BY EmptySegments DEF Init, Disks, Keys, NoKey
<1>2. mem \in Mems /\ mem.writer = Nil /\ mem.key.state = "unread"
  BY EmptySegments DEF Init, Started, Mems, Keys, NoKey
<1>3. mem.poisoned <=> FALSE
  BY DEF Init, Started
<1>4. call \in Calls /\ call.op = Nil /\ call.step = "idle" /\ call.work = "none"
      /\ Nil \notin Records
  BY QuietIs DEF Init
<1>5. Typed
  BY <1>1, <1>2, <1>4 DEF Init, Typed
<1>6. DiskSound
  BY <1>1 DEF DiskSound, Sound, Settled
<1>7. Staged /\ Recording /\ Remembers
  BY <1>2, <1>4 DEF Staged, Recording, Remembers, Carrying
<1>8. Trusting
  BY <1>2, <1>3 DEF Trusting, NoFalseAlarm
<1>9. Fresh
  BY <1>1, <1>4, EmptyMap DEF Fresh, Present, Held
<1> QED BY <1>5, <1>6, <1>7, <1>8, <1>9 DEF AuditInv

LEMMA AuditStep == AuditInv /\ [Next]_vars => AuditInv'
<1>1. ASSUME AuditInv, UNCHANGED vars PROVE AuditInv'
  BY <1>1 DEF vars, AuditInv, Typed, DiskSound, Staged, Recording, Remembers, Trusting,
     NoFalseAlarm, Fresh, Present, Target, Line
<1>2. ASSUME AuditInv, Next PROVE AuditInv'
  BY <1>2, BeginsStep, ReadsKeyStep, RecoversStep, InitializesStep, ContinuesStep, ChecksStep,
     WritesStep, WriteFailsStep, CrashStep DEF Next
<1> QED BY <1>1, <1>2

(* Between any two steps the files are those of a finished commit or of    *)
(* one that the journal describes, and memory, call and callers agree with *)
(* them.                                                                   *)
THEOREM AuditInvariance == Spec => []AuditInv
BY AuditInit, AuditStep, PTL DEF Spec

(* recover_pending_commit: no death of the process, at any file operation, *)
(* leaves files that a later process refuses; only a failed operation in   *)
(* this very process, or a torn key file, quarantines the sink.            *)
THEOREM CrashesRaiseNoAlarm == Spec => []NoFalseAlarm
<1>1. AuditInv => NoFalseAlarm
  BY DEF AuditInv, Trusting
<1> QED BY <1>1, AuditInvariance, PTL

-----------------------------------------------------------------------------
(* The files implement the abstract trail.                                 *)

Allowed == {r \in Records : answer[r] = "allowed"}
Kept == Allowed' = Allowed

LEMMA AnswersKept ==
  ASSUME AuditInv, answer' = answer \/ answer' = Told("refused") \/ answer' = Told("lost")
  PROVE  Kept
<1>1. CASE answer' = answer
  BY <1>1 DEF Kept, Allowed
<1>2. ASSUME NEW x \in {"refused", "lost"}, answer' = Told(x) PROVE Kept
  <2>1. ASSUME NEW r \in Records PROVE answer'[r] = "allowed" <=> answer[r] = "allowed"
    BY <1>2 DEF Told, AuditInv, Typed, Fresh
  <2> QED BY <2>1 DEF Kept, Allowed
<1> QED BY <1>1, <1>2

\* The record whose call returns ends the trail of its file.
LEMMA ReturnAllows ==
  ASSUME AuditInv, Writes, Returned
  PROVE  /\ call.op \in Records /\ Target \in Files /\ Same
         /\ Recoverable(Target) # << >>
         /\ Recoverable(Target)[Len(Recoverable(Target))] = call.op
         /\ Allowed' = Allowed \cup {call.op}
<1>1. /\ call.step = "remove" /\ call.work = "record"
      /\ call.op \in Records /\ Line.rec = call.op /\ call.pending.record # Nil
  BY DEF Returned, AuditInv, Recording
<1>2. /\ disk.segments \in OnFiles(Segment) /\ disk.journal \in Journals
      /\ disk.journal = call.pending /\ disk.journal # Nil
  BY <1>1, Commit DEF Carrying
<1>3. Done(disk.segments, call.pending)
  BY <1>1 DEF AuditInv, Staged
<1>4. disk' = [disk EXCEPT !.journal = Nil] /\ answer' = Told("allowed")
  BY <1>1, WrittenIs DEF Written
<1>5. Same
  BY <1>1, <1>4, JournalRemoved
<1>6. PICK f : f = Target
  OBVIOUS
<1>7. f \in Files /\ f \in DOMAIN disk.segments
  BY <1>1, <1>2, <1>3, <1>6, AnchorTyped DEF Target, Done
<1>8. PICK lines : lines = Of(disk.segments, f).lines
  OBVIOUS
<1>9. lines \in Seq(Lines) /\ Hash(lines) = call.op
  BY <1>1, <1>2, <1>3, <1>6, <1>7, <1>8, OfTyped DEF Done, Of, Target, Line
<1>10. Trailed(disk.segments, disk.journal, f) = Recs(lines)
  BY <1>1, <1>2, <1>8, <1>9 DEF Trailed, Line
<1>11. Recoverable(f) = Recs(lines)
  BY <1>10, TrailedIs
<1>12. lines # << >> /\ Len(lines) \in 1 .. Len(lines) /\ DOMAIN lines = 1 .. Len(lines)
       /\ Len(lines) \in Nat
  BY <1>1, <1>9, EmptySeq, LenProperties, AuditAssumption DEF Hash
<1>13. Recs(lines)[Len(lines)] = call.op
  BY <1>9, <1>12 DEF Recs, Hash
<1>14. Recs(lines) # << >> /\ Len(Recs(lines)) = Len(lines)
  BY <1>12, EmptyMap DEF Recs
<1>15. Allowed' = Allowed \cup {call.op}
  <2>1. ASSUME NEW r \in Records
        PROVE  answer'[r] = "allowed" <=> answer[r] = "allowed" \/ r = call.op
    BY <1>1, <1>4 DEF Told, AuditInv, Typed
  <2> QED BY <1>1, <2>1 DEF Allowed
<1> QED BY <1>1, <1>5, <1>6, <1>7, <1>11, <1>13, <1>14, <1>15

\* What a step may do to the trail.
LEMMA StepOnTrail ==
  ASSUME AuditInv, [Next]_vars
  PROVE  \/ Same /\ Kept
         \/ \E f \in Files : Enters(call.op, f) /\ Kept
         \/ /\ call.op \in Records /\ Target \in Files /\ Same
            /\ Recoverable(Target) # << >>
            /\ Recoverable(Target)[Len(Recoverable(Target))] = call.op
            /\ Allowed' = Allowed \cup {call.op}
<1>1. CASE UNCHANGED vars
  BY <1>1, StaysSame, AnswersKept DEF vars
<1>2. CASE Writes /\ Returned
  BY <1>2, ReturnAllows
<1>3. CASE Writes /\ ~ Returned
  <2>1. disk' \in CutShort /\ call.step \in WriteSteps /\ answer' = answer
    BY <1>3, WrittenIs DEF CutShort
  <2> QED BY <2>1, CutShortCarries, AnswersKept
<1>4. CASE WriteFails
  <2>1. disk' \in CutShort /\ call.step \in WriteSteps /\ answer' = Told("refused")
    BY <1>4 DEF WriteFails, Fails
  <2> QED BY <2>1, CutShortCarries, AnswersKept
<1>5. CASE Crash
  <2>1. answer' = Told("lost") /\ (disk' = disk \/ (disk' \in CutShort /\ call.step \in WriteSteps))
    BY <1>5 DEF Crash
  <2> QED BY <2>1, CutShortCarries, AnswersKept, StaysSame
<1>6. ASSUME NEW day \in Days, NEW op \in Records \cup {"verify"}, Begins(op, day)
      PROVE  Same /\ Kept
  <2>1. disk' = disk
    BY <1>6 DEF Begins
  <2>2. CASE answer' = answer
    BY <2>1, <2>2, StaysSame, AnswersKept
  <2>3. CASE answer' # answer
    <3>1. op \in Records /\ answer[op] = "none" /\ answer' = [answer EXCEPT ![op] = "refused"]
      BY <1>6, <2>3 DEF Begins
    <3>2. ASSUME NEW r \in Records PROVE answer'[r] = "allowed" <=> answer[r] = "allowed"
      BY <3>1 DEF AuditInv, Typed
    <3> QED BY <2>1, <3>2, StaysSame DEF Kept, Allowed
  <2> QED BY <2>2, <2>3
<1>7. CASE ReadsKey \/ Recovers \/ Initializes \/ Continues \/ Checks
  <2>1. disk' = disk
    BY <1>7 DEF ReadsKey, Recovers, Initializes, Continues, Checks
  <2>2. answer' = answer \/ answer' = Told("refused")
    BY <1>7 DEF ReadsKey, Recovers, Initializes, Continues, Checks, Fails, Commits
  <2> QED BY <2>1, <2>2, StaysSame, AnswersKept
<1> QED BY <1>1, <1>2, <1>3, <1>4, <1>5, <1>6, <1>7 DEF Next

trail == [f \in Files |-> Recoverable(f)]

\* Without a journal the trail has the records of the files and no others.
LEMMA RecordedIsHeld ==
  ASSUME AuditInv, disk.journal = Nil, NEW r \in Records,
         r \in UNION {{trail[f][i] : i \in DOMAIN trail[f]} : f \in Files}
  PROVE  Present(r)
<1>1. PICK f \in Files : \E i \in DOMAIN trail[f] : trail[f][i] = r
  OBVIOUS
<1>2. trail[f] = Recs(Of(disk.segments, f).lines)
  <2>1. trail[f] = Recoverable(f)
    BY DEF trail
  <2> QED BY <2>1, TrailedIs DEF Trailed
<1>3. PICK i \in DOMAIN Of(disk.segments, f).lines : Of(disk.segments, f).lines[i].rec = r
  BY <1>1, <1>2 DEF Recs
<1>4. f \in DOMAIN disk.segments
  BY <1>3, EmptyMap DEF Of, NoFile
<1> QED BY <1>3, <1>4 DEF Of, Present, Held

LEMMA TrailStep ==
  ASSUME AuditInv, [Next]_vars
  PROVE  [Trail!Next]_<<trail, Allowed>>
<1>1. CASE Same /\ Kept
  BY <1>1 DEF Same, Kept, trail
<1>2. CASE \E f \in Files : Enters(call.op, f) /\ Kept
  <2>1. PICK f \in Files : Enters(call.op, f) /\ Kept
    BY <1>2
  <2>2. PICK r : r = call.op
    OBVIOUS
  <2>3. r \in Records /\ ~ Present(r) /\ disk.journal = Nil
    BY <2>1, <2>2 DEF Enters
  <2>4. r \notin UNION {{trail[g][i] : i \in DOMAIN trail[g]} : g \in Files}
    BY <2>3, RecordedIsHeld
  <2>5. trail' = [trail EXCEPT ![f] = Append(@, r)]
    <3>1. trail' = [g \in Files |-> IF g = f THEN Append(Recoverable(f), r) ELSE Recoverable(g)]
      BY <2>1, <2>2 DEF Enters, trail
    <3> QED BY <3>1 DEF trail
  <2>6. Trail!Enter(r, f)
    BY <2>1, <2>4, <2>5 DEF Trail!Enter, Trail!Recorded, trail, Kept, Allowed
  <2>7. \E q \in Records : Trail!Allow(q) \/ \E g \in Files : Trail!Enter(q, g)
    BY <2>3, <2>6, Zenon
  <2>8. Trail!Next
    BY <2>7 DEF Trail!Next
  <2> QED BY <2>8, Zenon
<1>3. CASE /\ call.op \in Records /\ Target \in Files /\ Same
           /\ Recoverable(Target) # << >>
           /\ Recoverable(Target)[Len(Recoverable(Target))] = call.op
           /\ Allowed' = Allowed \cup {call.op}
  <2>1. trail' = trail
    BY <1>3 DEF Same, trail
  <2>2. PICK r : r = call.op
    OBVIOUS
  <2>3. r \in Records /\ Trail!Allow(r)
    BY <1>3, <2>1, <2>2 DEF Trail!Allow, trail, Allowed
  <2>4. \E q \in Records : Trail!Allow(q) \/ \E g \in Files : Trail!Enter(q, g)
    BY <2>3, Zenon
  <2>5. Trail!Next
    BY <2>4 DEF Trail!Next
  <2> QED BY <2>5, Zenon
<1> QED BY <1>1, <1>2, <1>3, StepOnTrail

LEMMA TrailInit == Init => Trail!Init
<1> SUFFICES ASSUME Init PROVE Trail!Init
  OBVIOUS
<1>1. ASSUME NEW f \in Files PROVE Recoverable(f) = << >>
  <2>1. disk.segments = << >> /\ disk.journal = Nil
    BY DEF Init
  <2>2. Of(disk.segments, f).lines = << >>
    BY <2>1, EmptyMap DEF Of, NoFile
  <2> QED BY <2>1, <2>2, NoRecs, TrailedIs DEF Trailed
<1>2. {r \in Records : answer[r] = "allowed"} = {}
  BY DEF Init
<1> QED BY <1>1, <1>2 DEF Trail!Init

(* The durable files keep AuditTrail's promise through every death and     *)
(* every failed operation: a record enters its file's trail once, with its *)
(* journal, and stays where it is, and try_record answers Ok only for the  *)
(* record that ends a trail.                                               *)
THEOREM FilesImplementTrail == Spec => ImplementsTrail
<1>1. AuditInv /\ [Next]_vars => [Trail!Next]_<<trail, Allowed>>
  BY TrailStep
<1>2. <<trail, Allowed>> = <<[f \in Files |-> Recoverable(f)], {r \in Records : answer[r] = "allowed"}>>
  BY DEF trail, Allowed
<1> QED BY <1>1, TrailInit, AuditInvariance, PTL DEF Spec, ImplementsTrail, Trail!Spec, trail, Allowed
=============================================================================
