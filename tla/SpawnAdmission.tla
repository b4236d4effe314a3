--------------------------- MODULE SpawnAdmission ---------------------------
(***************************************************************************)
(* How the control plane admits new terminals: the spawn governor          *)
(* (src-tauri/src/governor.rs), the evidence it is given                   *)
(* (src-tauri/src/control.rs and control/handlers_spawn.rs), and the       *)
(* operations that open a pane: spawn_terminal from the socket or the      *)
(* webview, start_agent, history_resume, commission_captain and            *)
(* reconcile_cortana.                                                      *)
(*                                                                         *)
(* An admission holds dispatch_admission until its pane is there; what     *)
(* panes do, what is recorded of agents, and a restart need no lock.       *)
(* Missing administrators and a loaded machine only make the governor      *)
(* refuse more, and any request may be refused for want of evidence.       *)
(***************************************************************************)
EXTENDS Integers, FiniteSets

CONSTANTS
  Terminals,    \* ids of terminals that something knows of
  Threads,      \* connections that ask for a terminal
  Nil,
  MaxSessions,  \* SpawnGovernor.max_sessions
  ProviderCap,  \* provider_session_capacity
  Burst,        \* capacity of the spawn bucket
  Reserve,      \* ReservationPolicy: [cortana |-> _, recovery |-> _]
  CortanaNamed, \* the registry file names Cortana's harness
  Races         \* windows of the code left open: "probe"

ASSUME AdmissionAssumption ==
  /\ IsFiniteSet(Terminals) /\ Nil \notin Terminals
  /\ {MaxSessions, ProviderCap} \subseteq Nat /\ Burst \in Nat \ {0}
  /\ Reserve \in [cortana : Nat, recovery : Nat]
  /\ CortanaNamed \in BOOLEAN /\ Races \subseteq {"probe"}

VARIABLES
  term,     \* terminal -> what runs in its pane and its T_HUB_PROVIDER_SESSION
  agents,   \* terminal -> the durable AgentSessionRecord
  resumes,  \* terminals of the pending_resumes of the History catalogue
  cortana,  \* the terminal of the Cortana identity, or Nil
  thread,   \* where each connection stands
  tokens,   \* SpawnGovernor.spawn
  spare     \* history: what the bucket was given and no attempt used up

vars == <<term, agents, resumes, cortana, thread, tokens, spare>>

Pane == [prog : {"none", "shell", "starting", "harness"},
         marker : {"none", "pending", "alive"}, sort : {"shell", "lane", "cortana"}]
Vacant == [prog |-> "none", marker |-> "none", sort |-> "shell"]
NoAgent == [work |-> "none", starting |-> FALSE, recovery |-> FALSE]
Idle == [at |-> "idle", kind |-> "none", term |-> Nil]

Kinds == {"shell", "tool", "agent", "resume", "captain", "cortana"}
Plain == {"shell", "tool"}
Sort(kind) == IF kind \in {"shell", "cortana"} THEN kind ELSE "lane"

Live == {t \in Terminals : term[t].prog \in {"shell", "starting", "harness"}}
(* agent_has_durable_provider_intent: not stopped, nor complete and integrated *)
Intends(t) == agents[t].work = "held"
(* A new id, or one that nothing knows of any more. *)
Fresh(t) ==
  /\ term[t].prog = "none" /\ agents[t] = NoAgent /\ t \notin resumes \cup {cortana}
  /\ \A th \in Threads : thread[th].term # t

FreeOnceChecked(th) == \A o \in Threads \ {th} : thread[o].at # "made"

(* dispatch_admission is free for th. *)
Free(th) == \A o \in Threads \ {th} : thread[o].at = "idle"

-----------------------------------------------------------------------------
(* The evidence.  x is the reservation of the resume that asks, or Nil.    *)

(* live_session_evidence: what runs and what was promised a pane *)
Demand(x) ==
  Cardinality(Live \cup {t \in Terminals : agents[t].starting} \cup (resumes \ {x}))

(* harness_liveness; a login shell that has yet to exec the harness looks  *)
(* like the shell that is left when the harness has ended.                 *)
Looks == IF "probe" \in Races
         THEN SUBSET {t \in Live : term[t].prog = "starting"} ELSE {{}}
Answer(t, gone) ==
  IF term[t].prog = "harness" THEN "alive"
  ELSE IF term[t].prog = "shell" \/ t \in gone THEN "gone" ELSE "unknown"

(* inspect_provider_live_sessions, with the intents that have no pane *)
Counted(t, gone) ==
  \/ Intends(t)
  \/ term[t].marker = "pending"
  \/ term[t].marker = "alive" /\ Answer(t, gone) # "gone"
Lanes(x, gone) ==
  Cardinality({t \in Live : Counted(t, gone)}
              \cup {t \in Terminals \ Live : Intends(t) \/ t \in resumes \ {x}})

(* ... and what it writes: a harness seen running is marked, one seen gone *)
(* is counted once more and then forgotten.                                *)
Remarked(t, gone) ==
  [term[t] EXCEPT !.marker =
     IF @ # "pending" \/ Intends(t) \/ Answer(t, gone) = "unknown" THEN @
     ELSE IF Answer(t, gone) = "alive" THEN "alive" ELSE "none"]
Probed(gone) == [t \in Terminals |-> IF t \in Live THEN Remarked(t, gone) ELSE term[t]]

(* ReservationClassReport *)
Deficit(required, live) == IF required > live THEN required - live ELSE 0
CortanaLive ==
  IF CortanaNamed /\ cortana # Nil /\ term[cortana].prog = "harness" THEN 1 ELSE 0
RecoveryLive == Cardinality({t \in Terminals : agents[t].recovery /\ Intends(t)})

ProtectedByOwn(purpose) ==
  LET c == Deficit(Reserve.cortana, CortanaLive)
      r == Deficit(Reserve.recovery, RecoveryLive) IN
  CASE purpose = "cortana" /\ c > 0 -> 0
    [] purpose = "recovery" /\ r > 0 -> 0
    [] OTHER -> c + r

(* reservation_deficit_protected_from *)
Protected(purpose) ==
  LET c == Deficit(Reserve.cortana, CortanaLive)
      r == Deficit(Reserve.recovery, RecoveryLive) IN
  CASE purpose = "cortana" /\ c > 0 -> 0
    [] purpose = "recovery" /\ r > 0 -> c
    [] OTHER -> c + r

(* capacity_report and validate_capacity for one lane *)
Fits(purpose, lane, x, gone) ==
  /\ Demand(x) + 1 + Protected(purpose) <= MaxSessions
  /\ lane => Lanes(x, gone) + 1 + Protected(purpose) <= ProviderCap

(* evaluate_spawn_capacity without its token *)
Evaluated(th, purpose, lane, x) ==
  /\ Free(th)
  /\ \E gone \in Looks : Fits(purpose, lane, x, gone) /\ term' = Probed(gone)

(* check_spawn: capacity first, so that a refusal for it costs no token *)
Charged == tokens >= 1 /\ tokens' = tokens - 1

GivenBackUncapped == tokens + 1

GivenBack == IF tokens = Burst THEN Burst ELSE tokens + 1
Overflow == IF tokens = Burst THEN 1 ELSE 0

-----------------------------------------------------------------------------
Init ==
  /\ term = [t \in Terminals |-> Vacant]
  /\ agents = [t \in Terminals |-> NoAgent]
  /\ resumes = {} /\ cortana = Nil
  /\ thread = [th \in Threads |-> Idle]
  /\ tokens = Burst /\ spare = Burst

Goes(th, at, kind, t) ==
  thread' = [thread EXCEPT ![th] = [at |-> at, kind |-> kind, term |-> t]]
Leaves(th) == thread' = [thread EXCEPT ![th] = Idle]

(* A request is refused after the probes were made. *)
Turned(th) ==
  /\ thread[th].at = "idle" /\ Free(th)
  /\ \E gone \in Looks : term' = Probed(gone)
  /\ UNCHANGED <<agents, resumes, cortana, thread, tokens, spare>>

(* admit_spawn for spawn_terminal, create_worktree and the webview *)
PlainAdmitted(th, kind) ==
  /\ thread[th].at = "idle"
  /\ Evaluated(th, "ordinary", kind = "tool", Nil)
  /\ Charged
  /\ \E t \in Terminals : Fresh(t) /\ Goes(th, "admitted", kind, t)
  /\ UNCHANGED <<agents, resumes, cortana, spare>>

(* The audit log is unavailable: rollback. *)
PlainUnaudited(th) ==
  /\ thread[th].at = "admitted" /\ thread[th].kind \in Plain
  /\ tokens' = GivenBack /\ spare' = spare - Overflow
  /\ Leaves(th)
  /\ UNCHANGED <<term, agents, resumes, cortana>>

(* start_agent: a token is taken and the record inserted; when it cannot   *)
(* be stored the token is gone.                                            *)
AgentAdmitted(th, purpose) ==
  /\ thread[th].at = "idle"
  /\ Evaluated(th, purpose, TRUE, Nil)
  /\ Charged
  /\ \/ \E t \in Terminals :
          /\ Fresh(t)
          /\ agents' = [agents EXCEPT ![t] =
               [work |-> "held", starting |-> TRUE, recovery |-> purpose = "recovery"]]
          /\ Goes(th, "admitted", "agent", t) /\ UNCHANGED spare
     \/ spare' = spare - 1 /\ UNCHANGED <<agents, thread>>
  /\ UNCHANGED <<resumes, cortana>>

AgentStarted(th) ==
  /\ thread[th].at = "made" /\ thread[th].kind = "agent"
  /\ agents' = [agents EXCEPT ![thread[th].term].starting = FALSE]
  /\ Leaves(th)
  /\ UNCHANGED <<term, resumes, cortana, tokens, spare>>

(* history_resume reserves before it is admitted, in the same hold. *)
ResumeReserved(th) ==
  /\ thread[th].at = "idle" /\ Free(th)
  /\ \E t \in Terminals : /\ Fresh(t)
                          /\ resumes' = resumes \cup {t}
                          /\ Goes(th, "reserved", "resume", t)
  /\ UNCHANGED <<term, agents, cortana, tokens, spare>>

ResumeAdmitted(th) ==
  /\ thread[th].at = "reserved"
  /\ Evaluated(th, "ordinary", TRUE, thread[th].term)
  /\ Charged
  /\ Goes(th, "admitted", "resume", thread[th].term)
  /\ UNCHANGED <<agents, resumes, cortana, spare>>

(* The cancellation may fail to be stored. *)
ResumeTurned(th) ==
  /\ thread[th].at = "reserved"
  /\ term' \in {term} \cup {Probed(gone) : gone \in Looks}
  /\ resumes' \in {resumes, resumes \ {thread[th].term}}
  /\ Leaves(th)
  /\ UNCHANGED <<agents, cortana, tokens, spare>>

Unclaimed(t) == t \in resumes /\ \A th \in Threads : thread[th].term # t

(* A retry of a reservation whose terminal is gone, or never came. *)
ResumeRetried(th) ==
  /\ thread[th].at = "idle"
  /\ \E t \in Terminals : /\ Unclaimed(t) /\ t \notin Live
                          /\ Evaluated(th, "ordinary", TRUE, t)
                          /\ Goes(th, "admitted", "resume", t)
  /\ Charged
  /\ UNCHANGED <<agents, resumes, cortana, spare>>

ResumeRecorded(th) ==
  /\ thread[th].at = "made" /\ thread[th].kind = "resume"
  /\ resumes' = resumes \ {thread[th].term}
  /\ Leaves(th)
  /\ UNCHANGED <<term, agents, cortana, tokens, spare>>

(* A retry finds the conversation running, or gives it up and closes it. *)
ResumeFound(t) ==
  /\ Unclaimed(t) /\ term[t].prog = "harness"
  /\ resumes' = resumes \ {t}
  /\ UNCHANGED <<term, agents, cortana, thread, tokens, spare>>

ResumeReaped(t) ==
  /\ Unclaimed(t)
  /\ term' = [term EXCEPT ![t] = Vacant]
  /\ resumes' \in {resumes, resumes \ {t}}
  /\ UNCHANGED <<agents, cortana, thread, tokens, spare>>

(* commission_captain is evaluated for a new ship and takes no token. *)
CaptainAdmitted(th) ==
  /\ thread[th].at = "idle"
  /\ Evaluated(th, "ordinary", TRUE, Nil)
  /\ \E t \in Terminals : Fresh(t) /\ Goes(th, "admitted", "captain", t)
  /\ UNCHANGED <<agents, resumes, cortana, tokens, spare>>

(* wait_for_harness_started, then the claim *)
CaptainClaimed(th) ==
  /\ thread[th].at = "made" /\ thread[th].kind = "captain"
  /\ term[thread[th].term].prog = "harness"
  /\ Leaves(th)
  /\ UNCHANGED <<term, agents, resumes, cortana, tokens, spare>>

(* create_shell of reconcile_cortana: the recorded terminal is gone. *)
CortanaAdmitted(th) ==
  /\ thread[th].at = "idle"
  /\ cortana \notin Live
  /\ Evaluated(th, "cortana", FALSE, Nil)
  /\ Charged
  /\ \E t \in Terminals : Fresh(t) /\ Goes(th, "admitted", "cortana", t)
  /\ UNCHANGED <<agents, resumes, cortana, spare>>

CortanaCommitted(th) ==
  /\ thread[th].at = "made" /\ thread[th].kind = "cortana"
  /\ cortana' = thread[th].term
  /\ Leaves(th)
  /\ UNCHANGED <<term, agents, resumes, tokens, spare>>

-----------------------------------------------------------------------------
(* From the admission to the pane, alike for every operation. *)

Opened(kind) == [prog |-> IF Sort(kind) = "lane" THEN "starting" ELSE "shell",
                 marker |-> IF Sort(kind) = "lane" THEN "pending" ELSE "none",
                 sort |-> Sort(kind)]

Paid(kind) == IF kind = "captain" THEN spare ELSE spare - 1

(* spawn_tmux_terminal_with_id *)
Made(th) ==
  LET k == thread[th].kind IN
  /\ thread[th].at = "admitted"
  /\ term' = [term EXCEPT ![thread[th].term] = Opened(k)]
  /\ spare' = Paid(k)
  /\ IF k \in Plain THEN Leaves(th) ELSE Goes(th, "made", k, thread[th].term)
  /\ UNCHANGED <<agents, resumes, cortana, tokens>>

(* The pane could not be opened, verified, placed or recorded.  It is      *)
(* killed, unless that fails too (stays); what was written for it is taken *)
(* back, unless that cannot be stored.                                     *)
GivesUp(th, stays, stored) ==
  LET t == thread[th].term
      k == thread[th].kind
      made == thread[th].at = "made" IN
  /\ thread[th].at \in {"admitted", "made"}
  /\ term' = [term EXCEPT ![t] =
       IF stays THEN IF made THEN @ ELSE Opened(k)
       ELSE IF made THEN Vacant ELSE @]
  /\ spare' = IF made THEN spare ELSE Paid(k)
  /\ agents' = IF k = "agent" /\ stored
               THEN [agents EXCEPT ![t] = NoAgent] ELSE agents
  /\ resumes' = IF stored /\ ~stays THEN resumes \ {t} ELSE resumes
  /\ Leaves(th)
  /\ UNCHANGED <<cortana, tokens>>

-----------------------------------------------------------------------------
(* What happens without the lock. *)

(* The pane's program starts the harness, or the harness ends and leaves   *)
(* a shell.  In Cortana's shell the user starts it.                        *)
Starts(t) ==
  /\ \/ term[t].prog = "starting"
     \/ term[t].prog = "shell" /\ term[t].sort = "cortana"
  /\ term' = [term EXCEPT ![t].prog = "harness"]
  /\ UNCHANGED <<agents, resumes, cortana, thread, tokens, spare>>

Quits(t) ==
  /\ term[t].prog \in {"starting", "harness"}
  /\ term' = [term EXCEPT ![t].prog = "shell"]
  /\ UNCHANGED <<agents, resumes, cortana, thread, tokens, spare>>

(* close_terminal, or the session ends by itself. *)
Ends(t) ==
  /\ t \in Live
  /\ term' = [term EXCEPT ![t] = Vacant]
  /\ UNCHANGED <<agents, resumes, cortana, thread, tokens, spare>>

(* reconcile_agent_runtime, by list_agents and get_agent *)
Reconciled(t) ==
  /\ agents[t].starting
  /\ term[t].prog # "starting" \/ "probe" \in Races
  /\ agents' = [agents EXCEPT ![t].starting = FALSE]
  /\ UNCHANGED <<term, resumes, cortana, thread, tokens, spare>>

(* record_agent_delivery, agent_checkpoint: work is complete and integrated, *)
(* a later checkpoint may take it up again, and stopped is final.           *)
Completed(t) ==
  /\ agents[t].work = "held"
  /\ agents' = [agents EXCEPT ![t].work = "complete"]
  /\ UNCHANGED <<term, resumes, cortana, thread, tokens, spare>>

TakenUp(t) ==
  /\ agents[t].work = "complete"
  /\ agents' = [agents EXCEPT ![t].work = "held"]
  /\ UNCHANGED <<term, resumes, cortana, thread, tokens, spare>>

Stopped(t) ==
  /\ agents[t].work # "none"
  /\ agents' = [agents EXCEPT ![t] = [NoAgent EXCEPT !.starting = agents[t].starting]]
  /\ UNCHANGED <<term, resumes, cortana, thread, tokens, spare>>

(* The bucket is refilled.  try_take does so when it is next asked, with   *)
(* the same result.                                                        *)
Refilled ==
  /\ tokens < Burst
  /\ tokens' = GivenBack /\ spare' = spare + 1
  /\ UNCHANGED <<term, agents, resumes, cortana, thread>>

(* The core dies: panes, records and reservations stay, the bucket is new. *)
Crash ==
  /\ thread' = [th \in Threads |-> Idle]
  /\ tokens' = Burst /\ spare' = Burst
  /\ UNCHANGED <<term, agents, resumes, cortana>>

Next ==
  \/ \E th \in Threads :
       \/ Turned(th) \/ PlainUnaudited(th)
       \/ \E kind \in Plain : PlainAdmitted(th, kind)
       \/ \E purpose \in {"ordinary", "recovery"} : AgentAdmitted(th, purpose)
       \/ AgentStarted(th)
       \/ ResumeReserved(th) \/ ResumeAdmitted(th) \/ ResumeTurned(th)
       \/ ResumeRetried(th) \/ ResumeRecorded(th)
       \/ CaptainAdmitted(th) \/ CaptainClaimed(th)
       \/ CortanaAdmitted(th) \/ CortanaCommitted(th)
       \/ Made(th)
       \/ \E stays, stored \in BOOLEAN : GivesUp(th, stays, stored)
  \/ \E t \in Terminals :
       \/ ResumeFound(t) \/ ResumeReaped(t)
       \/ Starts(t) \/ Quits(t) \/ Ends(t)
       \/ Reconciled(t) \/ Completed(t) \/ TakenUp(t) \/ Stopped(t)
  \/ Refilled \/ Crash

Spec == Init /\ [][Next]_vars

-----------------------------------------------------------------------------
(* The state is well formed, and dispatch_admission has one holder. *)
TypeOK ==
  /\ term \in [Terminals -> Pane]
  /\ agents \in [Terminals -> [work : {"none", "held", "complete"},
                               starting : BOOLEAN, recovery : BOOLEAN]]
  /\ resumes \subseteq Terminals /\ cortana \in Terminals \cup {Nil}
  /\ thread \in [Threads -> [at : {"idle", "reserved", "admitted", "made"},
                             kind : Kinds \cup {"none"}, term : Terminals \cup {Nil}]]
  /\ tokens \in 0..Burst /\ spare \in Int
  /\ \A th, o \in Threads : thread[th].at # "idle" /\ thread[o].at # "idle" => th = o

(* Never are there more sessions than the cap allows, nor more providers   *)
(* running or about to than their capacity, however requests, failures,    *)
(* endings and a restart interleave (governor.rs, validate_capacity).      *)
WithinCaps ==
  /\ Cardinality(Live) <= MaxSessions
  /\ Cardinality({t \in Live : term[t].sort = "lane" /\ term[t].prog # "shell"}) <= ProviderCap

(* While no shell of Cortana lives there is room to open one: no admission *)
(* of another kind, and nothing left by a crash, takes the slot reserved   *)
(* for it (governor.rs, reservation_deficit_protected_from).               *)
CortanaCanReturn ==
  (/\ Reserve.cortana > 0 /\ Reserve.cortana <= MaxSessions
   /\ \A t \in Live : term[t].sort # "cortana") => Cardinality(Live) < MaxSessions

(* The rate holds: the bucket never exceeds its burst, also when a token is *)
(* given back after a refill, and what it holds was used up by no attempt,  *)
(* whether that opened a pane or failed after the audit (governor.rs,       *)
(* give_back and check_spawn).                                              *)
RateHolds == tokens <= Burst /\ tokens <= spare

=============================================================================
