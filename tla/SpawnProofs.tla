----------------------------- MODULE SpawnProofs -----------------------------
(***************************************************************************)
(* SpawnAdmission for every number of terminals and connections, every     *)
(* burst, every cap and every reservation: admissions exclude each other,  *)
(* no token is used twice and, while no probe mistakes a starting harness  *)
(* for a shell, the caps hold and Cortana's place is kept.                 *)
(***************************************************************************)
EXTENDS SpawnAdmission, FiniteSetTheorems, TLAPS

ThreadType ==
  thread \in [Threads -> [at : {"idle", "reserved", "admitted", "made"},
                          kind : Kinds \cup {"none"}, term : Terminals \cup {Nil}]]

OneAdmission ==
  \A th, o \in Threads : thread[th].at # "idle" /\ thread[o].at # "idle" => th = o

(* An attempt under way still has its token to its name; a captain's has   *)
(* taken none.                                                             *)
Lent ==
  \A th \in Threads :
    thread[th].at = "admitted" /\ thread[th].kind # "captain" => tokens + 1 <= spare

RateInv ==
  /\ ThreadType /\ OneAdmission
  /\ tokens \in Nat /\ spare \in Int
  /\ Lent /\ RateHolds

-----------------------------------------------------------------------------
(* How a step of one connection moves it. *)

Alone(th) == \A o \in Threads \ {th} : thread[o].at = "idle"

LEMMA HolderIsAlone ==
  ASSUME RateInv, NEW th \in Threads, thread[th].at # "idle"
  PROVE  Alone(th)
BY DEF RateInv, OneAdmission, Alone

LEMMA GoesFacts ==
  ASSUME RateInv, NEW th \in Threads, Alone(th),
         NEW at \in {"reserved", "admitted", "made"}, NEW kind \in Kinds \cup {"none"},
         NEW t \in Terminals \cup {Nil}, Goes(th, at, kind, t)
  PROVE  /\ ThreadType' /\ OneAdmission'
         /\ \A o \in Threads : thread'[o].at = "admitted" => at = "admitted" /\ thread'[o].kind = kind
<1>1. thread' = [thread EXCEPT ![th] = [at |-> at, kind |-> kind, term |-> t]]
  BY DEF Goes
<1>2. /\ thread'[th] = [at |-> at, kind |-> kind, term |-> t]
      /\ \A o \in Threads \ {th} : thread'[o] = thread[o] /\ thread'[o].at = "idle"
  BY <1>1 DEF RateInv, ThreadType, Alone
<1>3. ThreadType'
  BY <1>1 DEF RateInv, ThreadType
<1>4. OneAdmission'
  BY <1>2 DEF OneAdmission
<1> QED BY <1>2, <1>3, <1>4

LEMMA LeavesFacts ==
  ASSUME RateInv, NEW th \in Threads, Alone(th), Leaves(th)
  PROVE  /\ ThreadType' /\ OneAdmission'
         /\ \A o \in Threads : thread'[o].at = "idle"
<1>1. thread' = [thread EXCEPT ![th] = [at |-> "idle", kind |-> "none", term |-> Nil]]
  BY DEF Leaves, Idle
<1>2. \A o \in Threads : thread'[o].at = "idle"
  BY <1>1 DEF RateInv, ThreadType, Alone
<1>3. ThreadType'
  BY <1>1 DEF RateInv, ThreadType
<1>4. OneAdmission'
  BY <1>2 DEF OneAdmission
<1> QED BY <1>2, <1>3, <1>4

(* A token is taken by an attempt that goes on. *)
LEMMA TakenFacts ==
  ASSUME RateInv, NEW th \in Threads, Alone(th), NEW kind \in Kinds,
         NEW t \in Terminals \cup {Nil}, Goes(th, "admitted", kind, t),
         Charged, spare' = spare
  PROVE  RateInv'
<1>1. ThreadType' /\ OneAdmission'
  BY GoesFacts
<1>2. /\ tokens' \in Nat /\ spare' \in Int /\ RateHolds'
      /\ tokens' + 1 <= spare'
  BY AdmissionAssumption DEF RateInv, RateHolds, Charged
<1> QED BY <1>1, <1>2 DEF RateInv, Lent

(* An attempt ends and the bucket is as it was. *)
LEMMA EndedFacts ==
  ASSUME RateInv, NEW th \in Threads, Alone(th), Leaves(th),
         UNCHANGED <<tokens, spare>>
  PROVE  RateInv'
<1>1. ThreadType' /\ OneAdmission' /\ \A o \in Threads : thread'[o].at = "idle"
  BY LeavesFacts
<1> QED BY <1>1 DEF RateInv, Lent, RateHolds

(* An attempt goes on and the bucket is as it was. *)
LEMMA MovedFacts ==
  ASSUME RateInv, NEW th \in Threads, Alone(th), NEW at \in {"reserved", "admitted", "made"},
         NEW kind \in Kinds, NEW t \in Terminals \cup {Nil}, Goes(th, at, kind, t),
         at = "admitted" => kind = "captain",
         UNCHANGED <<tokens, spare>>
  PROVE  RateInv'
<1>1. /\ ThreadType' /\ OneAdmission'
      /\ \A o \in Threads : thread'[o].at = "admitted" => at = "admitted" /\ thread'[o].kind = kind
  BY GoesFacts
<1> QED BY <1>1 DEF RateInv, Lent, RateHolds

(* An admitted attempt uses its token up. *)
LEMMA PaidFacts ==
  ASSUME RateInv, NEW th \in Threads, thread[th].at = "admitted",
         spare' = Paid(thread[th].kind), tokens' = tokens
  PROVE  tokens' \in Nat /\ spare' \in Int /\ RateHolds'
<1>1. CASE thread[th].kind = "captain"
  BY <1>1 DEF RateInv, Paid, RateHolds
<1>2. CASE thread[th].kind # "captain"
  BY <1>2 DEF RateInv, Lent, Paid, RateHolds
<1> QED BY <1>1, <1>2

-----------------------------------------------------------------------------
LEMMA RateInit == Init => RateInv
<1> SUFFICES ASSUME Init PROVE RateInv
  OBVIOUS
<1>1. \A th \in Threads : thread[th].at = "idle"
  BY DEF Init, Idle
<1>2. ThreadType
  BY DEF Init, Idle, ThreadType
<1>3. tokens \in Nat /\ spare \in Int /\ RateHolds
  BY AdmissionAssumption DEF Init, RateHolds
<1> QED BY <1>1, <1>2, <1>3 DEF RateInv, OneAdmission, Lent

(* The steps that let an attempt in, or refuse it. *)
LEMMA AdmissionStep ==
  ASSUME RateInv, NEW th \in Threads,
         \/ \E kind \in Plain : PlainAdmitted(th, kind)
         \/ \E purpose \in {"ordinary", "recovery"} : AgentAdmitted(th, purpose)
         \/ ResumeReserved(th) \/ ResumeAdmitted(th) \/ ResumeRetried(th)
         \/ CaptainAdmitted(th) \/ CortanaAdmitted(th)
  PROVE  RateInv'
<1>1. ASSUME NEW kind \in Plain, PlainAdmitted(th, kind) PROVE RateInv'
  <2>1. kind \in Kinds /\ Alone(th)
    BY <1>1 DEF Plain, Kinds, PlainAdmitted, Evaluated, Free, Alone
  <2> QED BY <1>1, <2>1, TakenFacts DEF PlainAdmitted
<1>2. ASSUME NEW purpose \in {"ordinary", "recovery"}, AgentAdmitted(th, purpose) PROVE RateInv'
  <2>1. "agent" \in Kinds /\ Alone(th)
    BY <1>2 DEF Kinds, AgentAdmitted, Evaluated, Free, Alone
  <2>2. ASSUME NEW t \in Terminals, Goes(th, "admitted", "agent", t), UNCHANGED spare PROVE RateInv'
    BY <1>2, <2>1, <2>2, TakenFacts DEF AgentAdmitted
  <2>3. CASE spare' = spare - 1 /\ UNCHANGED thread
    <3>1. \A o \in Threads : thread[o].at = "idle"
      BY <1>2, <2>1 DEF AgentAdmitted, Alone
    <3>2. tokens' \in Nat /\ spare' \in Int /\ RateHolds'
      BY <1>2, <2>3, AdmissionAssumption DEF AgentAdmitted, Charged, RateInv, RateHolds
    <3> QED BY <2>3, <3>1, <3>2 DEF RateInv, ThreadType, OneAdmission, Lent
  <2> QED BY <1>2, <2>2, <2>3 DEF AgentAdmitted
<1>3. ASSUME ResumeReserved(th) PROVE RateInv'
  <2>1. "resume" \in Kinds /\ Alone(th)
    BY <1>3 DEF Kinds, ResumeReserved, Free, Alone
  <2> QED BY <1>3, <2>1, MovedFacts DEF ResumeReserved
<1>4. ASSUME ResumeAdmitted(th) PROVE RateInv'
  <2>1. "resume" \in Kinds /\ Alone(th) /\ thread[th].term \in Terminals \cup {Nil}
    BY <1>4, HolderIsAlone DEF Kinds, ResumeAdmitted, RateInv, ThreadType
  <2> QED BY <1>4, <2>1, TakenFacts DEF ResumeAdmitted
<1>5. ASSUME ResumeRetried(th) PROVE RateInv'
  <2>1. "resume" \in Kinds /\ Alone(th)
    BY <1>5 DEF Kinds, ResumeRetried, Evaluated, Free, Alone
  <2> QED BY <1>5, <2>1, TakenFacts DEF ResumeRetried
<1>6. ASSUME CaptainAdmitted(th) PROVE RateInv'
  <2>1. "captain" \in Kinds /\ Alone(th)
    BY <1>6 DEF Kinds, CaptainAdmitted, Evaluated, Free, Alone
  <2> QED BY <1>6, <2>1, MovedFacts DEF CaptainAdmitted
<1>7. ASSUME CortanaAdmitted(th) PROVE RateInv'
  <2>1. "cortana" \in Kinds /\ Alone(th)
    BY <1>7 DEF Kinds, CortanaAdmitted, Evaluated, Free, Alone
  <2> QED BY <1>7, <2>1, TakenFacts DEF CortanaAdmitted
<1> QED BY <1>1, <1>2, <1>3, <1>4, <1>5, <1>6, <1>7

(* The steps of an attempt that was let in. *)
LEMMA AttemptStep ==
  ASSUME RateInv, NEW th \in Threads,
         \/ PlainUnaudited(th) \/ AgentStarted(th)
         \/ ResumeTurned(th) \/ ResumeRecorded(th)
         \/ CaptainClaimed(th) \/ CortanaCommitted(th) \/ Made(th)
         \/ \E stays, stored \in BOOLEAN : GivesUp(th, stays, stored)
  PROVE  RateInv'
<1>1. Alone(th)
  BY HolderIsAlone DEF PlainUnaudited, AgentStarted, ResumeTurned, ResumeRecorded,
                       CaptainClaimed, CortanaCommitted, Made, GivesUp
<1>2. CASE PlainUnaudited(th)
  <2>1. tokens + 1 <= spare
    BY <1>2 DEF PlainUnaudited, Plain, RateInv, Lent
  <2>2. tokens' \in Nat /\ spare' \in Int /\ RateHolds'
    BY <1>2, <2>1, AdmissionAssumption
       DEF PlainUnaudited, GivenBack, Overflow, RateInv, RateHolds
  <2> QED BY <1>1, <1>2, <2>2, LeavesFacts DEF PlainUnaudited, RateInv, Lent
<1>3. CASE AgentStarted(th) \/ ResumeTurned(th) \/ ResumeRecorded(th)
           \/ CaptainClaimed(th) \/ CortanaCommitted(th)
  BY <1>1, <1>3, EndedFacts DEF AgentStarted, ResumeTurned, ResumeRecorded,
                                CaptainClaimed, CortanaCommitted
<1>4. CASE Made(th)
  <2>1. tokens' \in Nat /\ spare' \in Int /\ RateHolds'
    BY <1>4, PaidFacts DEF Made
  <2>2. CASE Leaves(th)
    BY <1>1, <2>1, <2>2, LeavesFacts DEF RateInv, Lent
  <2>3. CASE thread[th].kind \notin Plain /\ Goes(th, "made", thread[th].kind, thread[th].term)
    <3>1. thread[th].kind \in Kinds \cup {"none"} /\ thread[th].term \in Terminals \cup {Nil}
      BY DEF RateInv, ThreadType
    <3> QED BY <1>1, <2>1, <2>3, <3>1, GoesFacts DEF RateInv, Lent
  <2> QED BY <1>4, <2>2, <2>3 DEF Made
<1>5. ASSUME NEW stays \in BOOLEAN, NEW stored \in BOOLEAN, GivesUp(th, stays, stored)
      PROVE  RateInv'
  <2>1. tokens' \in Nat /\ spare' \in Int /\ RateHolds'
    <3>1. CASE thread[th].at = "made"
      BY <1>5, <3>1 DEF GivesUp, RateInv, RateHolds
    <3>2. CASE thread[th].at = "admitted"
      BY <1>5, <3>2, PaidFacts DEF GivesUp
    <3> QED BY <1>5, <3>1, <3>2 DEF GivesUp
  <2> QED BY <1>1, <1>5, <2>1, LeavesFacts DEF GivesUp, RateInv, Lent
<1> QED BY <1>2, <1>3, <1>4, <1>5

(* What happens without the lock. *)
LEMMA OutsideStep ==
  ASSUME RateInv,
         \/ \E th \in Threads : Turned(th)
         \/ \E t \in Terminals :
              \/ ResumeFound(t) \/ ResumeReaped(t) \/ Starts(t) \/ Quits(t) \/ Ends(t)
              \/ Reconciled(t) \/ Completed(t) \/ TakenUp(t) \/ Stopped(t)
         \/ Refilled \/ Crash \/ UNCHANGED vars
  PROVE  RateInv'
<1>1. CASE UNCHANGED <<thread, tokens, spare>>
  BY <1>1 DEF RateInv, ThreadType, OneAdmission, Lent, RateHolds
<1>2. CASE Refilled
  <2>1. tokens' = tokens + 1 /\ spare' = spare + 1 /\ tokens' <= Burst /\ thread' = thread
    BY <1>2, AdmissionAssumption DEF Refilled, GivenBack, RateInv
  <2> QED BY <2>1 DEF RateInv, ThreadType, OneAdmission, Lent, RateHolds
<1>3. CASE Crash
  <2>1. \A th \in Threads : thread'[th].at = "idle"
    BY <1>3 DEF Crash, Idle
  <2>2. ThreadType'
    BY <1>3 DEF Crash, Idle, ThreadType
  <2>3. tokens' \in Nat /\ spare' \in Int /\ RateHolds'
    BY <1>3, AdmissionAssumption DEF Crash, RateHolds
  <2> QED BY <2>1, <2>2, <2>3 DEF RateInv, OneAdmission, Lent
<1> QED BY <1>1, <1>2, <1>3 DEF Turned, ResumeFound, ResumeReaped, Starts, Quits, Ends,
                                Reconciled, Completed, TakenUp, Stopped, vars

LEMMA RateNext == RateInv /\ [Next]_vars => RateInv'
BY AdmissionStep, AttemptStep, OutsideStep DEF Next

(* Whatever connections interleave, fail and are killed, the spawn bucket  *)
(* stays within its burst and no token admits two attempts                 *)
(* (TokenBucket, check_spawn and refund_spawn of governor.rs).             *)
THEOREM RateAlwaysHolds == Spec => []RateHolds
<1>1. RateInv => RateHolds
  BY DEF RateInv
<1> QED BY <1>1, RateInit, RateNext, PTL DEF Spec

-----------------------------------------------------------------------------
(* The rest of the type invariant: panes, records, reservations. *)

RecordType == [work : {"none", "held", "complete"}, starting : BOOLEAN, recovery : BOOLEAN]

StateType ==
  /\ term \in [Terminals -> Pane] /\ agents \in [Terminals -> RecordType]
  /\ resumes \subseteq Terminals /\ cortana \in Terminals \cup {Nil}

LEMMA ProbedType ==
  ASSUME StateType, NEW gone
  PROVE  Probed(gone) \in [Terminals -> Pane]
<1> SUFFICES ASSUME NEW t \in Live PROVE Remarked(t, gone) \in Pane
  BY DEF Probed, StateType
<1>1. term[t] \in Pane
  BY DEF StateType, Live
<1>2. \/ Remarked(t, gone) = term[t]
      \/ Remarked(t, gone) = [term[t] EXCEPT !.marker = "alive"]
      \/ Remarked(t, gone) = [term[t] EXCEPT !.marker = "none"]
  BY <1>1 DEF Remarked, Pane
<1> QED BY <1>1, <1>2 DEF Pane

LEMMA TypeNext ==
  ASSUME StateType, ThreadType, [Next]_vars
  PROVE  StateType'
<1>1. ASSUME NEW th \in Threads, NEW purpose, NEW lane, NEW x, Evaluated(th, purpose, lane, x)
      PROVE  term' \in [Terminals -> Pane]
  BY <1>1, ProbedType DEF Evaluated
<1>2. ASSUME NEW th \in Threads, Turned(th) \/ ResumeTurned(th)
      PROVE  StateType'
  BY <1>2, ProbedType DEF Turned, ResumeTurned, StateType
<1>3. ASSUME NEW th \in Threads,
             \/ \E kind \in Plain : PlainAdmitted(th, kind)
             \/ ResumeAdmitted(th) \/ ResumeRetried(th) \/ CaptainAdmitted(th) \/ CortanaAdmitted(th)
      PROVE  StateType'
  BY <1>1, <1>3 DEF PlainAdmitted, ResumeAdmitted, ResumeRetried, CaptainAdmitted, CortanaAdmitted,
                    StateType
<1>4. ASSUME NEW th \in Threads, NEW purpose \in {"ordinary", "recovery"}, AgentAdmitted(th, purpose)
      PROVE  StateType'
  <2>1. term' \in [Terminals -> Pane] /\ UNCHANGED <<resumes, cortana>>
    BY <1>1, <1>4 DEF AgentAdmitted
  <2>2. agents' \in [Terminals -> RecordType]
    <3> DEFINE b == purpose = "recovery"
    <3>1. b \in BOOLEAN
      OBVIOUS
    <3>2. \/ agents' = agents
          \/ \E t \in Terminals :
               agents' = [agents EXCEPT ![t] = [work |-> "held", starting |-> TRUE, recovery |-> b]]
      BY <1>4 DEF AgentAdmitted
    <3> HIDE DEF b
    <3>3. [work |-> "held", starting |-> TRUE, recovery |-> b] \in RecordType
      BY <3>1, Zenon DEF RecordType
    <3> QED BY <3>2, <3>3 DEF StateType
  <2> QED BY <2>1, <2>2 DEF StateType
<1>5. ASSUME NEW th \in Threads,
             \/ PlainUnaudited(th) \/ ResumeReserved(th) \/ ResumeRecorded(th)
             \/ CaptainClaimed(th) \/ CortanaCommitted(th)
      PROVE  StateType'
  BY <1>5 DEF PlainUnaudited, ResumeReserved, ResumeRecorded, CaptainClaimed, CortanaCommitted,
              StateType, ThreadType
<1>6. ASSUME NEW th \in Threads, AgentStarted(th) PROVE StateType'
  BY <1>6 DEF AgentStarted, StateType, RecordType
<1>7. \A k : Opened(k) \in Pane \/ k \notin Kinds \cup {"none"}
  BY DEF Opened, Sort, Pane, Kinds
<1>8. ASSUME NEW th \in Threads, Made(th) PROVE StateType'
  BY <1>7, <1>8 DEF Made, StateType, ThreadType
<1>9. ASSUME NEW th \in Threads, NEW stays \in BOOLEAN, NEW stored \in BOOLEAN, GivesUp(th, stays, stored)
      PROVE  StateType'
  <2> DEFINE t == thread[th].term
             k == thread[th].kind
  <2>1. Opened(k) \in Pane
    BY <1>7 DEF ThreadType
  <2>2. \/ term' = [term EXCEPT ![t] = @] \/ term' = [term EXCEPT ![t] = Opened(k)]
        \/ term' = [term EXCEPT ![t] = Vacant]
    BY <1>9 DEF GivesUp
  <2>3. agents' = agents \/ agents' = [agents EXCEPT ![t] = NoAgent]
    BY <1>9 DEF GivesUp
  <2>4. resumes' \subseteq resumes /\ cortana' = cortana
    BY <1>9 DEF GivesUp
  <2>5. Vacant \in Pane /\ NoAgent \in RecordType
    BY DEF Vacant, NoAgent, Pane, RecordType
  <2> HIDE DEF t, k
  <2> QED BY <2>1, <2>2, <2>3, <2>4, <2>5 DEF StateType
<1>10. ASSUME NEW t \in Terminals,
              \/ ResumeFound(t) \/ ResumeReaped(t) \/ Starts(t) \/ Quits(t) \/ Ends(t)
       PROVE  StateType'
  BY <1>10 DEF ResumeFound, ResumeReaped, Starts, Quits, Ends, Vacant, Pane, StateType
<1>11. ASSUME NEW t \in Terminals, Reconciled(t) \/ Completed(t) \/ TakenUp(t) \/ Stopped(t)
       PROVE  StateType'
  <2>1. CASE Reconciled(t)
    BY <2>1 DEF Reconciled, RecordType, StateType
  <2>2. CASE Completed(t)
    BY <2>2 DEF Completed, RecordType, StateType
  <2>3. CASE TakenUp(t)
    BY <2>3 DEF TakenUp, RecordType, StateType
  <2>4. CASE Stopped(t)
    BY <2>4 DEF Stopped, NoAgent, RecordType, StateType
  <2> QED BY <1>11, <2>1, <2>2, <2>3, <2>4
<1>12. CASE Refilled \/ Crash \/ UNCHANGED vars
  BY <1>12 DEF Refilled, Crash, vars, StateType
<1> QED BY <1>2, <1>3, <1>4, <1>5, <1>6, <1>8, <1>9, <1>10, <1>11, <1>12 DEF Next

(* Every state is well formed, with one holder of dispatch_admission at a  *)
(* time (control.rs, SpawnAdmissionGuard).                                 *)
THEOREM TypeCorrect == Spec => []TypeOK
<1>1. Init => StateType
  BY DEF Init, StateType, Vacant, NoAgent, Pane, RecordType
<1>2. StateType /\ RateInv /\ [Next]_vars => StateType'
  BY TypeNext DEF RateInv
<1>3. StateType /\ RateInv => TypeOK
  BY AdmissionAssumption
     DEF StateType, RateInv, ThreadType, OneAdmission, RateHolds, TypeOK, RecordType
<1> QED BY <1>1, <1>2, <1>3, RateInit, RateNext, PTL DEF Spec

-----------------------------------------------------------------------------
(* The caps.  The argument counts the places that are taken or promised:   *)
(* an admission promises one, and making the pane, a failure or a crash    *)
(* promises no more.                                                       *)

PromisedTo(kinds) ==
  {t \in Terminals : \E th \in Threads : /\ thread[th].at = "admitted"
                                         /\ thread[th].kind \in kinds
                                         /\ thread[th].term = t}

LaneKinds == {"tool", "agent", "resume", "captain"}
Running == {t \in Live : term[t].sort = "lane" /\ term[t].prog # "shell"}

Places == Live \cup PromisedTo(Kinds \cup {"none"})
Hers == {t \in Live : term[t].sort = "cortana"} \cup PromisedTo({"cortana"})
Providers == Running \cup PromisedTo(LaneKinds)

Reserved == Reserve.cortana > 0 /\ Reserve.cortana <= MaxSessions

CapsHold ==
  /\ Cardinality(Places) <= MaxSessions
  /\ Reserved => Cardinality(Places \ Hers) < MaxSessions
  /\ Cardinality(Providers) <= ProviderCap

(* What a connection knows of the terminal it asked for. *)
Knows(r) ==
  /\ r.at # "idle" => r.term \in Terminals /\ r.kind \in Kinds
  /\ r.at \in {"reserved", "admitted"} => r.term \notin Live /\ r.term # cortana
  /\ r.at # "idle" /\ r.kind = "cortana" =>
       r.term \notin resumes /\ (r.term \in Live => term[r.term].sort = "cortana")

(* A harness that runs or starts in a lane bears a marker that counts, and *)
(* Cortana's terminal is nobody else's.                                    *)
PaneInv ==
  /\ term \in [Terminals -> Pane]
  /\ resumes \subseteq Terminals
  /\ cortana \in Terminals \cup {Nil} /\ cortana \notin resumes
  /\ cortana \in Live => term[cortana].sort = "cortana"
  /\ \A t \in Running : term[t].marker \in {"pending", "alive"}
  /\ \A th \in Threads : Knows(thread[th])

CapsInv == RateInv /\ PaneInv /\ CapsHold

-----------------------------------------------------------------------------
LEMMA FinitePlaces ==
  /\ \A S \in SUBSET Terminals : IsFiniteSet(S) /\ Cardinality(S) \in Nat
  /\ \A S \in SUBSET Terminals : \A T : T \subseteq S => Cardinality(T) <= Cardinality(S)
<1>1. ASSUME NEW S \in SUBSET Terminals PROVE IsFiniteSet(S) /\ Cardinality(S) \in Nat
  BY AdmissionAssumption, FS_Subset, FS_CardinalityType
<1>2. ASSUME NEW S \in SUBSET Terminals, NEW T, T \subseteq S
      PROVE  Cardinality(T) <= Cardinality(S)
  BY <1>1, <1>2, FS_Subset
<1> QED BY <1>1, <1>2

LEMMA OneMore ==
  ASSUME NEW S \in SUBSET Terminals, NEW t \in Terminals, t \notin S
  PROVE  Cardinality(S \cup {t}) = Cardinality(S) + 1
BY FinitePlaces, FS_AddElement

LEMMA OneLess ==
  ASSUME NEW S \in SUBSET Terminals, NEW t \in S
  PROVE  Cardinality(S \ {t}) = Cardinality(S) - 1
BY FinitePlaces, FS_RemoveElement

LEMMA ConstantFacts ==
  /\ MaxSessions \in Nat /\ ProviderCap \in Nat
  /\ Reserve.cortana \in Nat /\ Reserve.recovery \in Nat
  /\ Nil \notin Terminals
BY AdmissionAssumption

(* Fewer places, fewer that are not hers and fewer providers: the caps     *)
(* still hold.                                                             *)
LEMMA CapsShrink ==
  ASSUME CapsHold, Places \subseteq Terminals, Providers \subseteq Terminals,
         Places' \subseteq Places, (Places \ Hers)' \subseteq Places \ Hers,
         Providers' \subseteq Providers
  PROVE  CapsHold'
<1>1. /\ Cardinality(Places') <= Cardinality(Places)
      /\ Cardinality((Places \ Hers)') <= Cardinality(Places \ Hers)
      /\ Cardinality(Providers') <= Cardinality(Providers)
  BY FinitePlaces
<1>2. /\ Cardinality(Places) \in Nat /\ Cardinality(Places \ Hers) \in Nat
      /\ Cardinality(Providers) \in Nat
      /\ Cardinality(Places') \in Nat /\ Cardinality((Places \ Hers)') \in Nat
      /\ Cardinality(Providers') \in Nat
  BY FinitePlaces
<1> QED BY <1>1, <1>2, ConstantFacts DEF CapsHold, Reserved

LEMMA PlacesType ==
  /\ Live \subseteq Terminals /\ Places \subseteq Terminals
  /\ Running \subseteq Live /\ Providers \subseteq Terminals
BY DEF Live, Places, Running, Providers, PromisedTo

-----------------------------------------------------------------------------
(* Panes end, or go on as what they were; a connection leaves or stays.    *)

Milder(t) ==
  \/ term'[t].prog = "none"
  \/ /\ term[t].prog # "none" /\ term'[t].sort = term[t].sort
     /\ term'[t].sort = "lane" /\ term'[t].prog # "shell" =>
          term[t].prog # "shell" /\ term'[t].marker \in {"pending", "alive"}

LEMMA FallFacts ==
  ASSUME CapsInv, term' \in [Terminals -> Pane], \A t \in Terminals : Milder(t),
         resumes' \subseteq resumes, cortana' = cortana,
         thread' = thread \/ \A th \in Threads : thread'[th].at = "idle"
  PROVE  PaneInv' /\ CapsHold'
<1>1. /\ Live' \subseteq Live
      /\ \A t \in Live' : term'[t].sort = term[t].sort
      /\ Running' \subseteq Running
      /\ \A t \in Running' : term'[t].marker \in {"pending", "alive"}
  BY DEF Live, Running, Milder, Pane, CapsInv, PaneInv
<1>2. \A kinds : PromisedTo(kinds)' \subseteq PromisedTo(kinds)
  BY DEF PromisedTo
<1>3. \A th \in Threads : Knows(thread[th])'
  BY <1>1 DEF CapsInv, PaneInv, Knows
<1>4. PaneInv'
  BY <1>1, <1>3 DEF CapsInv, PaneInv
<1>5. Places' \subseteq Places /\ Providers' \subseteq Providers
  BY <1>1, <1>2 DEF Places, Providers
<1>6. (Places \ Hers)' \subseteq Places \ Hers
  <2> SUFFICES ASSUME NEW t \in Places', t \notin Hers' PROVE t \notin Hers
    BY <1>5
  <2>1. CASE t \in Live'
    BY <1>1, <2>1 DEF Hers, CapsInv, PaneInv, Knows, PromisedTo
  <2>2. CASE t \in PromisedTo(Kinds \cup {"none"})' /\ thread' = thread
    BY <2>2 DEF Hers, CapsInv, PaneInv, Knows, PromisedTo
  <2>3. CASE t \in PromisedTo(Kinds \cup {"none"})' /\ \A th \in Threads : thread'[th].at = "idle"
    BY <2>3 DEF PromisedTo
  <2> QED BY <2>1, <2>2, <2>3 DEF Places
<1> QED BY <1>4, <1>5, <1>6, CapsShrink, PlacesType DEF CapsInv

-----------------------------------------------------------------------------
(* What an admission has been told. *)

LEMMA DeficitFacts ==
  ASSUME NEW required \in Nat, NEW live \in Nat
  PROVE  /\ Deficit(required, live) \in Nat
         /\ live = 0 => Deficit(required, live) = required
BY DEF Deficit

LEMMA ProtectedFacts ==
  ASSUME NEW purpose \in {"ordinary", "recovery", "cortana"}
  PROVE  /\ Protected(purpose) \in Nat
         /\ purpose # "cortana" /\ CortanaLive = 0 => Protected(purpose) >= Reserve.cortana
<1> DEFINE c == Deficit(Reserve.cortana, CortanaLive)
           r == Deficit(Reserve.recovery, RecoveryLive)
<1>1. CortanaLive \in Nat /\ RecoveryLive \in Nat
  <2>1. CortanaLive \in Nat
    BY DEF CortanaLive
  <2>2. RecoveryLive \in Nat
    BY FinitePlaces DEF RecoveryLive
  <2> QED BY <2>1, <2>2
<1>2. c \in Nat /\ r \in Nat /\ (CortanaLive = 0 => c = Reserve.cortana)
  BY <1>1, DeficitFacts, ConstantFacts
<1>3. Protected(purpose) =
        CASE purpose = "cortana" /\ c > 0 -> 0
          [] purpose = "recovery" /\ r > 0 -> c
          [] OTHER -> c + r
  BY DEF Protected
<1> HIDE DEF c, r
<1> QED BY <1>2, <1>3, ConstantFacts

(* Every session counts, and every provider that is there. *)
LEMMA CountFacts ==
  ASSUME CapsInv, NEW x
  PROVE  /\ Demand(x) \in Nat /\ Cardinality(Live) <= Demand(x)
         /\ Lanes(x, {}) \in Nat /\ Cardinality(Running) <= Lanes(x, {})
<1> DEFINE D == Live \cup {t \in Terminals : agents[t].starting} \cup (resumes \ {x})
           C == {t \in Live : Counted(t, {})}
           L == C \cup {t \in Terminals \ Live : Intends(t) \/ t \in resumes \ {x}}
<1>1. D \in SUBSET Terminals /\ Live \subseteq D
  BY PlacesType DEF CapsInv, PaneInv
<1>2. Running \subseteq C
  BY DEF Running, Live, Counted, Answer, CapsInv, PaneInv, Pane
<1>3. L \in SUBSET Terminals /\ Running \subseteq L
  BY <1>2, PlacesType
<1>4. Demand(x) = Cardinality(D) /\ Lanes(x, {}) = Cardinality(L)
  BY DEF Demand, Lanes
<1> HIDE DEF D, C, L
<1> QED BY <1>1, <1>3, <1>4, FinitePlaces

(* The probes change markers alone. *)
LEMMA ProbedFacts ==
  ASSUME CapsInv, term' = Probed({})
  PROVE  /\ term' \in [Terminals -> Pane]
         /\ \A t \in Terminals : /\ Milder(t)
                                /\ term'[t].prog = term[t].prog /\ term'[t].sort = term[t].sort
         /\ Live' = Live /\ Running' = Running
<1>1. ASSUME NEW t \in Terminals
      PROVE  /\ term'[t] \in Pane
             /\ term'[t].prog = term[t].prog /\ term'[t].sort = term[t].sort
             /\ t \in Running => term'[t].marker \in {"pending", "alive"}
  <2>1. term[t] \in Pane
    BY DEF CapsInv, PaneInv
  <2>2. CASE t \notin Live
    BY <2>1, <2>2, PlacesType DEF Probed
  <2>3. CASE t \in Live
    <3>1. term'[t] = Remarked(t, {})
      BY <2>3 DEF Probed
    <3>2. \/ term'[t] = term[t]
          \/ term'[t] = [term[t] EXCEPT !.marker = "alive"]
          \/ term'[t] = [term[t] EXCEPT !.marker = "none"] /\ Answer(t, {}) = "gone"
      BY <3>1, <2>1 DEF Remarked, Answer, Pane
    <3>3. t \in Running => Answer(t, {}) # "gone" /\ term[t].marker \in {"pending", "alive"}
      BY <2>1 DEF Running, Answer, CapsInv, PaneInv, Pane
    <3> QED BY <2>1, <3>2, <3>3 DEF Pane
  <2> QED BY <2>2, <2>3
<1>2. term' = [t \in Terminals |-> term'[t]]
  BY DEF Probed
<1>3. Live' = Live /\ Running' = Running
  BY <1>1 DEF Live, Running
<1> QED BY <1>1, <1>2, <1>3 DEF Milder, Running, Live, CapsInv, PaneInv, Pane

-----------------------------------------------------------------------------
(* The steps that let an attempt in. *)

LEMMA AdmittedFacts ==
  ASSUME CapsInv, Races = {}, NEW th \in Threads, Alone(th), thread[th].at \in {"idle", "reserved"},
         NEW kind \in Kinds, NEW lane \in BOOLEAN, lane <=> kind \in LaneKinds,
         NEW purpose \in {"ordinary", "recovery", "cortana"},
         purpose = "cortana" => kind = "cortana",
         NEW x, Evaluated(th, purpose, lane, x),
         NEW t \in Terminals, t \notin Live, t # cortana, kind = "cortana" => t \notin resumes,
         Goes(th, "admitted", kind, t), resumes' = resumes, cortana' = cortana
  PROVE  PaneInv' /\ CapsHold'
<1>1. /\ term' = Probed({})
      /\ Demand(x) + 1 + Protected(purpose) <= MaxSessions
      /\ lane => Lanes(x, {}) + 1 + Protected(purpose) <= ProviderCap
  BY DEF Evaluated, Looks, Fits
<1>2. /\ term' \in [Terminals -> Pane] /\ Live' = Live /\ Running' = Running
      /\ \A u \in Terminals : Milder(u) /\ term'[u].sort = term[u].sort
  BY <1>1, ProbedFacts
<1>3. /\ thread'[th] = [at |-> "admitted", kind |-> kind, term |-> t]
      /\ \A o \in Threads \ {th} : thread'[o].at = "idle"
  BY DEF Goes, Alone, CapsInv, RateInv, ThreadType
<1>4. PaneInv'
  <2>1. \A o \in Threads : Knows(thread[o])'
    BY <1>2, <1>3 DEF Knows
  <2>2. \A u \in Running' : term'[u].marker \in {"pending", "alive"}
    BY <1>2 DEF Milder, Running, Live, CapsInv, PaneInv
  <2> QED BY <1>2, <2>1, <2>2, PlacesType DEF CapsInv, PaneInv
<1> DEFINE H == {u \in Live : term[u].sort = "cortana"}
<1>5. /\ Places = Live /\ Places' = Live \cup {t}
      /\ Hers = H /\ H \subseteq Hers' /\ (kind = "cortana" => t \in Hers')
      /\ Providers = Running
      /\ Providers' = Running \cup (IF lane THEN {t} ELSE {})
  <2>1. \A kinds : PromisedTo(kinds) = {}
    BY DEF PromisedTo, Alone
  <2>2. \A kinds : PromisedTo(kinds)' = IF kind \in kinds THEN {t} ELSE {}
    BY <1>3 DEF PromisedTo
  <2>3. {u \in Live : term[u].sort = "cortana"}' = H
    BY <1>2, PlacesType
  <2>4. Hers' = H \cup PromisedTo({"cortana"})'
    BY <2>3 DEF Hers
  <2> QED BY <1>2, <2>1, <2>2, <2>4 DEF Places, Hers, Providers
<1>6. /\ Demand(x) \in Nat /\ Cardinality(Live) <= Demand(x) /\ Cardinality(Live) \in Nat
      /\ Lanes(x, {}) \in Nat /\ Cardinality(Running) <= Lanes(x, {}) /\ Cardinality(Running) \in Nat
      /\ Protected(purpose) \in Nat
  <2>1. Running \in SUBSET Terminals /\ Live \in SUBSET Terminals
    BY PlacesType
  <2> QED BY <2>1, CountFacts, ProtectedFacts, FinitePlaces
<1>7. Cardinality(Places') <= MaxSessions
  <2>1. Cardinality(Live \cup {t}) = Cardinality(Live) + 1
    BY OneMore, PlacesType
  <2> QED BY <1>1, <1>5, <1>6, <2>1, ConstantFacts
<1>8. Cardinality(Providers') <= ProviderCap
  <2>1. CASE lane
    <3>1. Cardinality(Running \cup {t}) = Cardinality(Running) + 1
      BY OneMore, PlacesType
    <3> QED BY <1>1, <1>5, <1>6, <2>1, <3>1, ConstantFacts
  <2>2. CASE ~lane
    BY <1>5, <2>2 DEF CapsInv, CapsHold
  <2> QED BY <2>1, <2>2
<1>9. ASSUME Reserved PROVE Cardinality((Places \ Hers)') < MaxSessions
  <2>1. (Places \ Hers)' \subseteq (Live \ H) \cup {t}
    BY <1>5
  <2>2. /\ Live \ H \in SUBSET Terminals /\ (Live \ H) \cup {t} \in SUBSET Terminals
        /\ t \notin Live \ H
    BY PlacesType
  <2>3. /\ Cardinality((Places \ Hers)') \in Nat /\ Cardinality(Live \ H) \in Nat
        /\ Cardinality((Places \ Hers)') <= Cardinality((Live \ H) \cup {t})
        /\ Cardinality((Live \ H) \cup {t}) = Cardinality(Live \ H) + 1
    BY <2>1, <2>2, FinitePlaces, OneMore
  <2>4. CASE kind = "cortana"
    <3>1. (Places \ Hers)' \subseteq Live \ H
      BY <1>5, <2>4
    <3>2. Cardinality((Places \ Hers)') <= Cardinality(Live \ H)
      BY <2>2, <3>1, FinitePlaces
    <3>3. Cardinality(Live \ H) < MaxSessions
      BY <1>5, <1>9 DEF CapsInv, CapsHold
    <3> QED BY <2>3, <3>2, <3>3, ConstantFacts
  <2>5. CASE kind # "cortana" /\ CortanaLive = 0
    <3>1. Protected(purpose) >= Reserve.cortana
      BY <2>5, ProtectedFacts
    <3>2. Cardinality(Live \ H) <= Cardinality(Live)
      BY PlacesType, FinitePlaces
    <3> QED BY <1>1, <1>6, <1>9, <2>3, <3>1, <3>2, ConstantFacts DEF Reserved
  <2>6. CASE kind # "cortana" /\ CortanaLive # 0
    <3>1. cortana \in H
      BY <2>6, PlacesType DEF CortanaLive, Live, CapsInv, PaneInv
    <3>2. Live \ H \subseteq Live \ {cortana} /\ Live \ {cortana} \in SUBSET Terminals
      BY <3>1, PlacesType
    <3>3. Cardinality(Live \ {cortana}) = Cardinality(Live) - 1
      BY <3>1, OneLess, PlacesType
    <3>4. Cardinality(Live \ H) <= Cardinality(Live) - 1
      BY <3>2, <3>3, FinitePlaces
    <3> QED BY <1>1, <1>6, <2>3, <3>4, ConstantFacts
  <2> QED BY <2>4, <2>5, <2>6
<1>10. Reserved' <=> Reserved
  BY DEF Reserved
<1> QED BY <1>4, <1>7, <1>8, <1>9, <1>10 DEF CapsHold

LEMMA ReservedFacts ==
  ASSUME CapsInv, NEW th \in Threads, ResumeReserved(th)
  PROVE  PaneInv' /\ CapsHold'
<1>1. Alone(th) /\ thread[th].at = "idle"
  BY DEF ResumeReserved, Free, Alone
<1>2. PICK t \in Terminals : Fresh(t) /\ resumes' = resumes \cup {t} /\ Goes(th, "reserved", "resume", t)
  BY DEF ResumeReserved
<1>3. /\ thread'[th] = [at |-> "reserved", kind |-> "resume", term |-> t]
      /\ \A o \in Threads \ {th} : thread'[o].at = "idle"
  BY <1>1, <1>2 DEF Goes, Alone, CapsInv, RateInv, ThreadType
<1>4. term' = term /\ cortana' = cortana /\ Live' = Live /\ Running' = Running
  BY DEF ResumeReserved, Live, Running
<1>5. PaneInv'
  <2>1. t \notin Live /\ t # cortana
    BY <1>2 DEF Fresh, Live
  <2>2. \A o \in Threads : Knows(thread[o])'
    BY <1>3, <1>4, <2>1 DEF Knows, Kinds
  <2> QED BY <1>2, <1>4, <2>1, <2>2 DEF CapsInv, PaneInv
<1>6. \A kinds : PromisedTo(kinds) = {} /\ PromisedTo(kinds)' = {}
  BY <1>1, <1>3 DEF PromisedTo, Alone
<1>7. Places' = Places /\ Hers' = Hers /\ Providers' = Providers
  BY <1>4, <1>6 DEF Places, Hers, Providers
<1> QED BY <1>5, <1>7, CapsShrink, PlacesType DEF CapsInv

-----------------------------------------------------------------------------
(* A promise is made good, and Cortana's terminal is recorded. *)

LEMMA OpenedFacts ==
  ASSUME CapsInv, NEW th \in Threads, thread[th].at = "admitted",
         term' = [term EXCEPT ![thread[th].term] = Opened(thread[th].kind)],
         resumes' \subseteq resumes, cortana' = cortana,
         Leaves(th) \/ Goes(th, "made", thread[th].kind, thread[th].term)
  PROVE  PaneInv' /\ CapsHold'
<1> DEFINE t == thread[th].term
           k == thread[th].kind
<1>1. /\ Alone(th) /\ t \in Terminals /\ k \in Kinds /\ t \notin Live /\ t # cortana
      /\ k = "cortana" => t \notin resumes
  BY HolderIsAlone DEF CapsInv, PaneInv, Knows
<1>2. /\ thread'[th].at \in {"idle", "made"}
      /\ thread'[th].at = "made" => thread'[th].term = t /\ thread'[th].kind = k
      /\ \A o \in Threads \ {th} : thread'[o].at = "idle"
  BY <1>1 DEF Leaves, Goes, Idle, Alone, CapsInv, RateInv, ThreadType
<1>3. /\ Opened(k) \in Pane
      /\ Opened(k).prog \in {"shell", "starting"}
      /\ Opened(k).sort = "cortana" <=> k = "cortana"
      /\ Opened(k).sort = "lane" => k \in LaneKinds /\ Opened(k).marker = "pending"
  BY <1>1 DEF Opened, Sort, Pane, Kinds, LaneKinds
<1>4. /\ term' \in [Terminals -> Pane]
      /\ term'[t] = Opened(k)
      /\ \A u \in Terminals \ {t} : term'[u] = term[u]
  BY <1>1, <1>3 DEF CapsInv, PaneInv
<1> HIDE DEF t, k
<1>5. /\ Live' = Live \cup {t}
      /\ Running' \subseteq Running \cup (IF k \in LaneKinds THEN {t} ELSE {})
  BY <1>1, <1>3, <1>4 DEF Live, Running
<1>6. PaneInv'
  <2>1. \A o \in Threads : Knows(thread[o])'
    BY <1>1, <1>2, <1>3, <1>4 DEF Knows
  <2>2. \A u \in Running' : term'[u].marker \in {"pending", "alive"}
    BY <1>3, <1>4, <1>5 DEF CapsInv, PaneInv, Running, Live
  <2>3. cortana \in Live' => term'[cortana].sort = "cortana"
    BY <1>1, <1>4, <1>5, PlacesType DEF CapsInv, PaneInv
  <2> QED BY <1>4, <2>1, <2>2, <2>3 DEF CapsInv, PaneInv
<1>7. /\ \A kinds : PromisedTo(kinds)' = {}
      /\ \A kinds : PromisedTo(kinds) = IF k \in kinds THEN {t} ELSE {}
  BY <1>1, <1>2 DEF PromisedTo, Alone, t, k
<1>8. Places' \subseteq Places /\ Providers' \subseteq Providers
  BY <1>1, <1>5, <1>7 DEF Places, Providers
<1>9. (Places \ Hers)' \subseteq Places \ Hers
  <2> SUFFICES ASSUME NEW u \in Places', u \notin Hers' PROVE u \notin Hers
    BY <1>8
  <2>1. u \in Live'
    BY <1>7 DEF Places
  <2>2. CASE u = t
    BY <1>1, <1>3, <1>4, <1>5, <1>7, <2>1, <2>2 DEF Hers
  <2>3. CASE u # t
    BY <1>4, <1>5, <1>7, <2>1, <2>3, PlacesType DEF Hers
  <2> QED BY <2>2, <2>3
<1> QED BY <1>6, <1>8, <1>9, CapsShrink, PlacesType DEF CapsInv

LEMMA CommittedFacts ==
  ASSUME CapsInv, NEW th \in Threads, CortanaCommitted(th)
  PROVE  PaneInv' /\ CapsHold'
<1>1. /\ thread[th].at = "made" /\ thread[th].kind = "cortana" /\ cortana' = thread[th].term
      /\ term' = term /\ resumes' = resumes
  BY DEF CortanaCommitted
<1>2. Alone(th)
  BY <1>1, HolderIsAlone DEF CapsInv
<1>3. \A o \in Threads : thread'[o].at = "idle"
  BY <1>2, LeavesFacts DEF CortanaCommitted, CapsInv
<1>4. /\ cortana' \in Terminals /\ cortana' \notin resumes
      /\ cortana' \in Live => term[cortana'].sort = "cortana"
  BY <1>1 DEF CapsInv, PaneInv, Knows
<1>5. Live' = Live /\ Running' = Running
  BY <1>1 DEF Live, Running
<1>6. PaneInv'
  BY <1>1, <1>3, <1>4, <1>5 DEF CapsInv, PaneInv, Knows
<1>7. \A kinds : PromisedTo(kinds) = {} /\ PromisedTo(kinds)' = {}
  BY <1>1, <1>2, <1>3 DEF PromisedTo, Alone
<1>8. Places' = Places /\ Hers' = Hers /\ Providers' = Providers
  BY <1>1, <1>5, <1>7 DEF Places, Hers, Providers
<1> QED BY <1>6, <1>8, CapsShrink, PlacesType DEF CapsInv

-----------------------------------------------------------------------------
LEMMA CapsInit == Init => CapsInv
<1> SUFFICES ASSUME Init PROVE CapsInv
  OBVIOUS
<1>1. term \in [Terminals -> Pane]
  BY DEF Init, Vacant, Pane
<1>2. Live = {} /\ \A th \in Threads : thread[th].at = "idle"
  BY DEF Init, Live, Vacant, Idle
<1>3. PaneInv
  BY <1>1, <1>2 DEF Init, PaneInv, Running, Knows
<1>4. Places = {} /\ Places \ Hers = {} /\ Providers = {}
  BY <1>2 DEF Places, Hers, Providers, Running, PromisedTo
<1>5. CapsHold
  BY <1>4, FS_EmptySet, ConstantFacts DEF CapsHold, Reserved
<1> QED BY <1>3, <1>5, RateInit DEF CapsInv

LEMMA FreshFacts ==
  ASSUME NEW t \in Terminals, Fresh(t)
  PROVE  t \notin Live /\ t # cortana /\ t \notin resumes
BY DEF Fresh, Live

LEMMA CapsAdmission ==
  ASSUME CapsInv, Races = {}, NEW th \in Threads,
         \/ \E kind \in Plain : PlainAdmitted(th, kind)
         \/ \E purpose \in {"ordinary", "recovery"} : AgentAdmitted(th, purpose)
         \/ ResumeReserved(th) \/ ResumeAdmitted(th) \/ ResumeRetried(th)
         \/ CaptainAdmitted(th) \/ CortanaAdmitted(th)
  PROVE  PaneInv' /\ CapsHold'
<1>1. ASSUME NEW kind \in Plain, PlainAdmitted(th, kind) PROVE PaneInv' /\ CapsHold'
  <2>1. PICK t \in Terminals : Fresh(t) /\ Goes(th, "admitted", kind, t)
    BY <1>1 DEF PlainAdmitted
  <2>2. /\ Alone(th) /\ kind \in Kinds /\ kind # "cortana" /\ ((kind = "tool") <=> kind \in LaneKinds)
    BY <1>1 DEF PlainAdmitted, Evaluated, Free, Alone, Plain, Kinds, LaneKinds
  <2> QED BY <1>1, <2>1, <2>2, FreshFacts, AdmittedFacts DEF PlainAdmitted
<1>2. ASSUME NEW purpose \in {"ordinary", "recovery"}, AgentAdmitted(th, purpose)
      PROVE  PaneInv' /\ CapsHold'
  <2>1. Alone(th) /\ "agent" \in Kinds /\ "agent" \in LaneKinds
    BY <1>2 DEF AgentAdmitted, Evaluated, Free, Alone, Kinds, LaneKinds
  <2>2. ASSUME NEW t \in Terminals, Fresh(t), Goes(th, "admitted", "agent", t)
        PROVE  PaneInv' /\ CapsHold'
    BY <1>2, <2>1, <2>2, FreshFacts, AdmittedFacts DEF AgentAdmitted
  <2>3. CASE UNCHANGED thread
    <3>1. term' = Probed({}) /\ resumes' = resumes /\ cortana' = cortana
      BY <1>2 DEF AgentAdmitted, Evaluated, Looks
    <3> QED BY <2>3, <3>1, ProbedFacts, FallFacts
  <2> QED BY <1>2, <2>2, <2>3 DEF AgentAdmitted
<1>3. CASE ResumeReserved(th)
  BY <1>3, ReservedFacts
<1>4. CASE ResumeAdmitted(th)
  <2> DEFINE t == thread[th].term
  <2>1. t \in Terminals /\ t \notin Live /\ t # cortana
    BY <1>4 DEF ResumeAdmitted, CapsInv, PaneInv, Knows
  <2>2. Alone(th) /\ "resume" \in Kinds /\ "resume" \in LaneKinds
    BY <1>4, HolderIsAlone DEF ResumeAdmitted, Kinds, LaneKinds, CapsInv
  <2>3. /\ thread[th].at = "reserved" /\ Evaluated(th, "ordinary", TRUE, t)
        /\ Goes(th, "admitted", "resume", t) /\ resumes' = resumes /\ cortana' = cortana
    BY <1>4 DEF ResumeAdmitted
  <2> HIDE DEF t
  <2> QED BY <2>1, <2>2, <2>3, AdmittedFacts
<1>5. CASE ResumeRetried(th)
  <2>1. PICK t \in Terminals : /\ t \in resumes /\ t \notin Live
                               /\ Evaluated(th, "ordinary", TRUE, t)
                               /\ Goes(th, "admitted", "resume", t)
    BY <1>5 DEF ResumeRetried, Unclaimed
  <2>2. /\ Alone(th) /\ "resume" \in Kinds /\ "resume" \in LaneKinds /\ t # cortana
        /\ thread[th].at = "idle" /\ resumes' = resumes /\ cortana' = cortana
    BY <1>5, <2>1 DEF ResumeRetried, Evaluated, Free, Alone, Kinds, LaneKinds, CapsInv, PaneInv
  <2> QED BY <2>1, <2>2, AdmittedFacts
<1>6. CASE CaptainAdmitted(th)
  <2>1. PICK t \in Terminals : Fresh(t) /\ Goes(th, "admitted", "captain", t)
    BY <1>6 DEF CaptainAdmitted
  <2>2. Alone(th) /\ "captain" \in Kinds /\ "captain" \in LaneKinds
    BY <1>6 DEF CaptainAdmitted, Evaluated, Free, Alone, Kinds, LaneKinds
  <2> QED BY <1>6, <2>1, <2>2, FreshFacts, AdmittedFacts DEF CaptainAdmitted
<1>7. CASE CortanaAdmitted(th)
  <2>1. PICK t \in Terminals : Fresh(t) /\ Goes(th, "admitted", "cortana", t)
    BY <1>7 DEF CortanaAdmitted
  <2>2. Alone(th) /\ "cortana" \in Kinds /\ "cortana" \notin LaneKinds
    BY <1>7 DEF CortanaAdmitted, Evaluated, Free, Alone, Kinds, LaneKinds
  <2> QED BY <1>7, <2>1, <2>2, FreshFacts, AdmittedFacts DEF CortanaAdmitted
<1> QED BY <1>1, <1>2, <1>3, <1>4, <1>5, <1>6, <1>7

LEMMA CapsAttempt ==
  ASSUME CapsInv, Races = {}, NEW th \in Threads,
         \/ PlainUnaudited(th) \/ AgentStarted(th)
         \/ ResumeTurned(th) \/ ResumeRecorded(th)
         \/ CaptainClaimed(th) \/ CortanaCommitted(th) \/ Made(th)
         \/ \E stays, stored \in BOOLEAN : GivesUp(th, stays, stored)
  PROVE  PaneInv' /\ CapsHold'
<1>1. Alone(th)
  BY HolderIsAlone DEF PlainUnaudited, AgentStarted, ResumeTurned, ResumeRecorded,
                       CaptainClaimed, CortanaCommitted, Made, GivesUp, CapsInv
<1>2. Leaves(th) => \A o \in Threads : thread'[o].at = "idle"
  BY <1>1, LeavesFacts DEF CapsInv
<1>3. term' = term => term' \in [Terminals -> Pane] /\ \A t \in Terminals : Milder(t)
  BY DEF Milder, CapsInv, PaneInv, Running, Live, Pane
<1>4. CASE PlainUnaudited(th) \/ AgentStarted(th) \/ ResumeRecorded(th) \/ CaptainClaimed(th)
  BY <1>2, <1>3, <1>4, FallFacts DEF PlainUnaudited, AgentStarted, ResumeRecorded, CaptainClaimed
<1>5. CASE ResumeTurned(th)
  <2>1. term' = term \/ term' = Probed({})
    BY <1>5 DEF ResumeTurned, Looks
  <2>2. term' \in [Terminals -> Pane] /\ \A t \in Terminals : Milder(t)
    BY <1>3, <2>1, ProbedFacts
  <2>3. resumes' \subseteq resumes /\ cortana' = cortana /\ Leaves(th)
    BY <1>5 DEF ResumeTurned
  <2> QED BY <1>2, <2>2, <2>3, FallFacts
<1>6. CASE CortanaCommitted(th)
  BY <1>6, CommittedFacts
<1>7. CASE Made(th)
  BY <1>7, OpenedFacts DEF Made
<1>8. ASSUME NEW stays \in BOOLEAN, NEW stored \in BOOLEAN, GivesUp(th, stays, stored)
      PROVE  PaneInv' /\ CapsHold'
  <2>1. resumes' \subseteq resumes /\ cortana' = cortana /\ Leaves(th)
    BY <1>8 DEF GivesUp
  <2>2. CASE stays /\ thread[th].at = "admitted"
    BY <1>8, <2>1, <2>2, OpenedFacts DEF GivesUp
  <2>3. CASE ~(stays /\ thread[th].at = "admitted")
    <3>1. \/ term' = [term EXCEPT ![thread[th].term] = Vacant]
          \/ term' = [term EXCEPT ![thread[th].term] = @]
      BY <1>8, <2>3 DEF GivesUp
    <3>2. term' \in [Terminals -> Pane] /\ \A t \in Terminals : term'[t] \in {term[t], Vacant}
      BY <3>1 DEF Vacant, Pane, CapsInv, PaneInv
    <3>3. \A t \in Terminals : Milder(t)
      BY <3>2 DEF Milder, Vacant, CapsInv, PaneInv, Running, Live, Pane
    <3> QED BY <1>2, <2>1, <3>2, <3>3, FallFacts
  <2> QED BY <2>2, <2>3
<1> QED BY <1>4, <1>5, <1>6, <1>7, <1>8

LEMMA CapsOutside ==
  ASSUME CapsInv, Races = {},
         \/ \E th \in Threads : Turned(th)
         \/ \E t \in Terminals :
              \/ ResumeFound(t) \/ ResumeReaped(t) \/ Starts(t) \/ Quits(t) \/ Ends(t)
              \/ Reconciled(t) \/ Completed(t) \/ TakenUp(t) \/ Stopped(t)
         \/ Refilled \/ Crash \/ UNCHANGED vars
  PROVE  PaneInv' /\ CapsHold'
<1>1. ASSUME term' = term \/ \E u \in Terminals :
               \/ term' = [term EXCEPT ![u] = Vacant]
               \/ term' = [term EXCEPT ![u].prog = "shell"] /\ term[u].prog # "none"
               \/ /\ term' = [term EXCEPT ![u].prog = "harness"]
                  /\ \/ term[u].prog = "starting"
                     \/ term[u].prog = "shell" /\ term[u].sort = "cortana"
      PROVE  term' \in [Terminals -> Pane] /\ \A t \in Terminals : Milder(t)
  <2>1. ASSUME NEW t \in Terminals
        PROVE  \/ term'[t] = term[t]
               \/ term'[t] = Vacant
               \/ term'[t] = [term[t] EXCEPT !.prog = "shell"] /\ term[t].prog # "none"
               \/ /\ term'[t] = [term[t] EXCEPT !.prog = "harness"]
                  /\ \/ term[t].prog = "starting"
                     \/ term[t].prog = "shell" /\ term[t].sort = "cortana"
    BY <1>1 DEF CapsInv, PaneInv
  <2>2. term' = [t \in Terminals |-> term'[t]]
    BY <1>1 DEF CapsInv, PaneInv
  <2>3. ASSUME NEW t \in Terminals PROVE term'[t] \in Pane /\ Milder(t)
    <3>1. term[t] \in Pane /\ (t \in Running => term[t].marker \in {"pending", "alive"})
      BY DEF CapsInv, PaneInv
    <3>2. CASE term'[t] = term[t]
      BY <3>1, <3>2 DEF Milder, Running, Live, Pane
    <3>3. CASE term'[t] = Vacant
      BY <3>3 DEF Milder, Vacant, Pane
    <3>4. CASE term'[t] = [term[t] EXCEPT !.prog = "shell"] /\ term[t].prog # "none"
      BY <3>1, <3>4 DEF Milder, Pane
    <3>5. CASE /\ term'[t] = [term[t] EXCEPT !.prog = "harness"]
               /\ \/ term[t].prog = "starting"
                  \/ term[t].prog = "shell" /\ term[t].sort = "cortana"
      BY <3>1, <3>5 DEF Milder, Running, Live, Pane
    <3> QED BY <2>1, <3>2, <3>3, <3>4, <3>5
  <2> QED BY <2>2, <2>3
<1>2. CASE \E th \in Threads : Turned(th)
  <2>1. term' = Probed({}) /\ UNCHANGED <<resumes, cortana, thread>>
    BY <1>2 DEF Turned, Looks
  <2> QED BY <2>1, ProbedFacts, FallFacts
<1>3. ASSUME NEW t \in Terminals,
             \/ ResumeFound(t) \/ ResumeReaped(t) \/ Starts(t) \/ Quits(t) \/ Ends(t)
             \/ Reconciled(t) \/ Completed(t) \/ TakenUp(t) \/ Stopped(t)
      PROVE  PaneInv' /\ CapsHold'
  <2>1. resumes' \subseteq resumes /\ cortana' = cortana /\ thread' = thread
    BY <1>3 DEF ResumeFound, ResumeReaped, Starts, Quits, Ends, Reconciled, Completed, TakenUp, Stopped
  <2>2. \/ term' = term
        \/ term' = [term EXCEPT ![t] = Vacant]
        \/ term' = [term EXCEPT ![t].prog = "shell"] /\ term[t].prog # "none"
        \/ /\ term' = [term EXCEPT ![t].prog = "harness"]
           /\ \/ term[t].prog = "starting"
              \/ term[t].prog = "shell" /\ term[t].sort = "cortana"
    BY <1>3 DEF ResumeFound, ResumeReaped, Starts, Quits, Ends, Reconciled, Completed, TakenUp, Stopped
  <2> QED BY <1>1, <2>1, <2>2, FallFacts
<1>4. CASE Refilled \/ UNCHANGED vars
  BY <1>1, <1>4, FallFacts DEF Refilled, vars
<1>5. CASE Crash
  <2>1. \A th \in Threads : thread'[th].at = "idle"
    BY <1>5 DEF Crash, Idle
  <2> QED BY <1>1, <1>5, <2>1, FallFacts DEF Crash
<1> QED BY <1>2, <1>3, <1>4, <1>5

LEMMA CapsNext ==
  ASSUME Races = {}, CapsInv, [Next]_vars
  PROVE  CapsInv'
<1>1. RateInv'
  BY RateNext DEF CapsInv
<1>2. PaneInv' /\ CapsHold'
  BY CapsAdmission, CapsAttempt, CapsOutside DEF Next
<1> QED BY <1>1, <1>2 DEF CapsInv

LEMMA CapsMean == CapsInv => WithinCaps /\ CortanaCanReturn
<1> SUFFICES ASSUME CapsInv PROVE WithinCaps /\ CortanaCanReturn
  OBVIOUS
<1>1. WithinCaps
  <2>1. Cardinality(Live) <= Cardinality(Places) /\ Cardinality(Running) <= Cardinality(Providers)
    BY PlacesType, FinitePlaces DEF Places, Providers
  <2>2. /\ Cardinality(Live) \in Nat /\ Cardinality(Places) \in Nat
        /\ Cardinality(Running) \in Nat /\ Cardinality(Providers) \in Nat
    BY PlacesType, FinitePlaces
  <2> QED BY <2>1, <2>2, ConstantFacts DEF WithinCaps, Running, CapsInv, CapsHold
<1>2. ASSUME Reserved, \A t \in Live : term[t].sort # "cortana"
      PROVE  Cardinality(Live) < MaxSessions
  <2>1. Live \subseteq Places \ Hers
    BY <1>2 DEF Places, Hers, PromisedTo, CapsInv, PaneInv, Knows
  <2>2. Cardinality(Live) <= Cardinality(Places \ Hers)
    BY <2>1, PlacesType, FinitePlaces
  <2>3. Cardinality(Live) \in Nat /\ Cardinality(Places \ Hers) \in Nat
    BY PlacesType, FinitePlaces
  <2> QED BY <1>2, <2>2, <2>3, ConstantFacts DEF CapsInv, CapsHold
<1> QED BY <1>1, <1>2 DEF CortanaCanReturn, Reserved

-----------------------------------------------------------------------------
(* If no probe falls between a pane's start and its harness's, the session *)
(* cap and the provider cap hold for ever, whatever interleaves, fails,    *)
(* ends or is killed (validate_capacity and SpawnAdmissionGuard).          *)
THEOREM CapsAlwaysHold ==
  ASSUME Races = {}
  PROVE  Spec => []WithinCaps
<1>1. CapsInv => WithinCaps
  BY CapsMean
<1>2. CapsInv /\ [Next]_vars => CapsInv'
  BY CapsNext
<1> QED BY <1>1, <1>2, CapsInit, PTL DEF Spec

(* Under the same condition the place reserved for Cortana is free         *)
(* whenever no shell of hers lives (reservation_deficit_protected_from).   *)
THEOREM CortanaCanAlwaysReturn ==
  ASSUME Races = {}
  PROVE  Spec => []CortanaCanReturn
<1>1. CapsInv => CortanaCanReturn
  BY CapsMean
<1>2. CapsInv /\ [Next]_vars => CapsInv'
  BY CapsNext
<1> QED BY <1>1, <1>2, CapsInit, PTL DEF Spec
=============================================================================
