---------------------------- MODULE RequestCache ----------------------------
(***************************************************************************)
(* Idempotent control commands (control/idempotency.rs, RequestCache, and  *)
(* the part of the dispatch path of control.rs that drives it): a requestId*)
(* is reserved, the command runs on the thread of its connection, and the  *)
(* outcome is kept for replay.                                             *)
(*                                                                         *)
(* Each method of the cache is one critical section and one action; between*)
(* them a handler probes, is admitted and runs without the lock, as slowly *)
(* as it likes, or dies.  Time is the age of each slot, which saturates at *)
(* the longer of the two windows.  A signature stands for one command with *)
(* one argument set, so it also names the artefact that command makes.     *)
(***************************************************************************)
EXTENDS Integers, Sequences, FiniteSets

CONSTANTS
  Ids,              \* client-supplied request ids
  Signatures,       \* command and argument sets
  Probeable,        \* those whose artefact reprobe_reaped_request can look for
  Handlers,         \* connection threads
  Nil,              \* no id, no signature
  Capacity,         \* order entries before completed ones are evicted
  Ttl, Reap,        \* windows of a Done and of an InFlight slot, in ticks
  MaxReservations   \* bound: reservations minted

ASSUME CacheAssumption ==
  /\ Probeable \subseteq Signatures
  /\ Nil \notin Ids \cup Signatures
  /\ Capacity \in Nat
  /\ Ttl \in Nat \ {0}
  /\ Reap \in Nat \ {0}
  /\ MaxReservations \in Nat

VARIABLES
  slots,    \* RequestCacheInner.slots
  order,    \* RequestCacheInner.order: ids, oldest first
  minted,   \* RequestCacheInner.next_reservation
  handler,  \* where each connection thread stands in the dispatch path
  landed,   \* history: the runs whose side effect happened
  answers,  \* history: outcomes told to the callers of each (id, signature)
  lapsed    \* history: ids the cache has forgotten at least once

vars == <<slots, order, minted, handler, landed, answers, lapsed>>

MaxAge  == IF Ttl > Reap THEN Ttl ELSE Reap
Tokens  == 1 .. MaxReservations
Results == {"none", "ok", "err", "reprobed"}
Phases  == {"idle", "probe", "gate", "running", "finish"}

Slot == [state : {"inflight"}, age : 0 .. MaxAge, sig : Signatures, token : Tokens,
         res : {"none"}]
        \cup [state : {"done"}, age : 0 .. MaxAge, sig : Signatures, token : Tokens,
              res : Results \ {"none"}]
Outcome == [token : Tokens, res : Results]
Thread  == [phase : Phases, id : Ids \cup {Nil}, sig : Signatures \cup {Nil},
            token : Tokens \cup {0}, res : Results]

Vacant == [state |-> "vacant", age |-> 0, sig |-> Nil, token |-> 0, res |-> "none"]
Idle   == [phase |-> "idle", id |-> Nil, sig |-> Nil, token |-> 0, res |-> "none"]

Listed(o) == {o[i] : i \in DOMAIN o}

\* The order with some ids taken out; a recursive function, which the provers can
\* unfold, where SelectSeq is closed to them.
Without(o, gone) ==
  LET kept[k \in 0 .. Len(o)] ==
        IF k = 0 THEN << >>
        ELSE IF o[k] \in gone THEN kept[k - 1] ELSE Append(kept[k - 1], o[k])
  IN  kept[Len(o)]

-----------------------------------------------------------------------------
(* The cache.                                                              *)

ExpiredWhenDone(id) == slots[id].state = "done" /\ slots[id].age >= Ttl

\* evict_expired looks at the ids in order, and at no other slot.
Expired(id) ==
  \/ slots[id].state = "done" /\ slots[id].age >= Ttl
  \/ slots[id].state = "inflight" /\ slots[id].age >= Reap

Evictable == {id \in Listed(order) : slots[id].state = "vacant" \/ Expired(id)}

SlotsEvicted == [id \in Ids |-> IF id \in Evictable THEN Vacant ELSE slots[id]]
OrderEvicted == Without(order, Evictable)
Forgotten    == {id \in Evictable : slots[id].state # "vacant"}

\* The capacity loop of begin: completed entries leave at the front of the order
\* until it fits or a running one stands there.
Excess(s, o) ==
  LET Stops(k) == \/ Len(o) - k <= Capacity
                  \/ k < Len(o) /\ s[o[k + 1]].state = "inflight"
  IN  CHOOSE k \in 0 .. Len(o) : Stops(k) /\ \A j \in 0 .. k - 1 : ~Stops(j)

Reserved(id, sig) ==
  [SlotsEvicted EXCEPT ![id] = [state |-> "inflight", age |-> 0, sig |-> sig,
                                token |-> minted + 1, res |-> "none"]]

\* Every begin starts by evicting what has expired.
Evict ==
  /\ slots'  = SlotsEvicted
  /\ order'  = OrderEvicted
  /\ lapsed' = lapsed \cup Forgotten

Told(id, sig, token, res) ==
  answers' = [answers EXCEPT ![id][sig] = @ \cup {[token |-> token, res |-> res]}]

\* cancel_reserved: the slot is released if it is still this reservation's.
Release(id, token) ==
  IF slots[id].state = "inflight" /\ slots[id].token = token
  THEN /\ slots' = [slots EXCEPT ![id] = Vacant]
       /\ order' = Without(order, {id})
  ELSE UNCHANGED <<slots, order>>

\* The artefact of sig exists.
Made(sig) == \E run \in landed : run.sig = sig

-----------------------------------------------------------------------------
Init ==
  /\ slots   = [id \in Ids |-> Vacant]
  /\ order   = << >>
  /\ minted  = 0
  /\ handler = [h \in Handlers |-> Idle]
  /\ landed  = {}
  /\ answers = [id \in Ids |-> [sig \in Signatures |-> {}]]
  /\ lapsed  = {}

BeginReplayUnbound(h, id, sig) ==
  /\ handler[h].phase = "idle"
  /\ SlotsEvicted[id].state = "done"
  /\ Evict
  /\ Told(id, sig, slots[id].token, slots[id].res)
  /\ UNCHANGED <<minted, handler, landed>>

\* begin, Done under the same signature: the stored outcome is replayed.
BeginReplay(h, id, sig) ==
  /\ handler[h].phase = "idle"
  /\ SlotsEvicted[id].state = "done"
  /\ SlotsEvicted[id].sig = sig
  /\ Evict
  /\ Told(id, sig, slots[id].token, slots[id].res)
  /\ UNCHANGED <<minted, handler, landed>>

\* begin, InFlight, or bound to another signature: the caller is refused.
BeginRefused(h, id, sig) ==
  /\ handler[h].phase = "idle"
  /\ \/ SlotsEvicted[id].state = "inflight"
     \/ SlotsEvicted[id].state = "done" /\ SlotsEvicted[id].sig # sig
  /\ Evict
  /\ UNCHANGED <<minted, handler, landed, answers>>

\* begin, no slot: Fresh, or FreshAfterReap when this very call reaped the slot.
BeginFresh(h, id, sig) ==
  /\ handler[h].phase = "idle"
  /\ SlotsEvicted[id].state = "vacant"
  /\ minted < MaxReservations
  /\ minted' = minted + 1
  /\ LET s == Reserved(id, sig)
         o == Append(OrderEvicted, id)
         k == Excess(s, o)
         out == {o[i] : i \in 1 .. k}
     IN  /\ slots'  = [x \in Ids |-> IF x \in out THEN Vacant ELSE s[x]]
         /\ order'  = SubSeq(o, k + 1, Len(o))
         /\ lapsed' = lapsed \cup Forgotten \cup out
  /\ handler' = [handler EXCEPT ![h] =
       [phase |-> IF slots[id].state = "inflight" THEN "probe" ELSE "gate",
        id |-> id, sig |-> sig, token |-> minted + 1, res |-> "none"]]
  /\ UNCHANGED <<landed, answers>>

\* After a reap: a probeable command whose artefact exists, or whose caller may no
\* longer ask, is settled without running; otherwise (nothing there, the listing
\* failed, or nothing to look for) it goes on.
Probe(h) ==
  LET sig == handler[h].sig IN
  /\ handler[h].phase = "probe"
  /\ \/ /\ sig \in Probeable
        /\ \/ /\ Made(sig)
              /\ handler' = [handler EXCEPT ![h].phase = "finish", ![h].res = "reprobed"]
           \/ handler' = [handler EXCEPT ![h].phase = "finish", ![h].res = "err"]
     \/ handler' = [handler EXCEPT ![h].phase = "gate"]
  /\ UNCHANGED <<slots, order, minted, landed, answers, lapsed>>

\* The governor and the audit log admit the command.
Admit(h) ==
  /\ handler[h].phase = "gate"
  /\ handler' = [handler EXCEPT ![h].phase = "running"]
  /\ UNCHANGED <<slots, order, minted, landed, answers, lapsed>>

CancelLate(h) ==
  /\ handler[h].phase \in {"gate", "running", "finish"}
  /\ Release(handler[h].id, handler[h].token)
  /\ handler' = [handler EXCEPT ![h] = Idle]
  /\ UNCHANGED <<minted, landed, answers, lapsed>>

\* A gate refuses it, or the run ends in a retryable error: nothing was applied and
\* the reservation is cancelled.
Cancel(h) ==
  /\ handler[h].phase \in {"gate", "running"}
  /\ Release(handler[h].id, handler[h].token)
  /\ handler' = [handler EXCEPT ![h] = Idle]
  /\ UNCHANGED <<minted, landed, answers, lapsed>>

\* The side effect happens; the command may still report an error after it.
Land(h) ==
  /\ handler[h].phase = "running"
  /\ landed' = landed \cup {[id |-> handler[h].id, sig |-> handler[h].sig,
                           token |-> handler[h].token]}
  /\ \E res \in {"ok", "err"} :
       handler' = [handler EXCEPT ![h].phase = "finish", ![h].res = res]
  /\ UNCHANGED <<slots, order, minted, answers, lapsed>>

\* The command fails before it has any effect.
Fail(h) ==
  /\ handler[h].phase = "running"
  /\ handler' = [handler EXCEPT ![h].phase = "finish", ![h].res = "err"]
  /\ UNCHANGED <<slots, order, minted, landed, answers, lapsed>>

\* A late completion gives a slot the cache had lost its place in the order back.
RelistNever(id) == order

Relist(id) == IF id \in Listed(order) THEN order ELSE Append(order, id)

\* A handler settles the slot it still owns, or one that nobody has taken since.
MaySettleAny(h) == TRUE

MaySettle(h) ==
  LET s == slots[handler[h].id] IN
  s.state = "vacant" \/ (s.state = "inflight" /\ s.token = handler[h].token)

\* finish_reserved: a replaced handler changes nothing; each answers its own caller.
Finish(h) ==
  LET id == handler[h].id IN
  /\ handler[h].phase = "finish"
  /\ IF MaySettle(h)
     THEN /\ slots' = [slots EXCEPT ![id] =
               [state |-> "done", age |-> 0, sig |-> handler[h].sig,
                token |-> handler[h].token, res |-> handler[h].res]]
          /\ order' = Relist(id)
     ELSE UNCHANGED <<slots, order>>
  /\ Told(id, handler[h].sig, handler[h].token, handler[h].res)
  /\ handler' = [handler EXCEPT ![h] = Idle]
  /\ UNCHANGED <<minted, landed, lapsed>>

\* The handler thread panics: its reservation stays behind.
Die(h) ==
  /\ handler[h].phase # "idle"
  /\ handler' = [handler EXCEPT ![h] = Idle]
  /\ UNCHANGED <<slots, order, minted, landed, answers, lapsed>>

\* status (get_request_status) evicts before it looks.
Status(id) ==
  /\ Evict
  /\ IF SlotsEvicted[id].state = "done"
     THEN Told(id, slots[id].sig, slots[id].token, slots[id].res)
     ELSE UNCHANGED answers
  /\ UNCHANGED <<minted, handler, landed>>

Tick ==
  /\ slots' = [id \in Ids |->
       IF slots[id].state = "vacant" \/ slots[id].age = MaxAge THEN slots[id]
       ELSE [slots[id] EXCEPT !.age = @ + 1]]
  /\ UNCHANGED <<order, minted, handler, landed, answers, lapsed>>

Next ==
  \/ \E h \in Handlers, id \in Ids, sig \in Signatures :
       \/ BeginReplay(h, id, sig)
       \/ BeginRefused(h, id, sig)
       \/ BeginFresh(h, id, sig)
  \/ \E h \in Handlers :
       Probe(h) \/ Admit(h) \/ Cancel(h) \/ Land(h) \/ Fail(h) \/ Finish(h) \/ Die(h)
  \/ \E id \in Ids : Status(id)
  \/ Tick

Spec == Init /\ [][Next]_vars

\* Time passes, and a client that was told "in flight" polls get_request_status;
\* no handler is ever assumed to return.
Fairness == WF_vars(Tick) /\ \A id \in Ids : WF_vars(Status(id))

FairSpec == Spec /\ Fairness

-----------------------------------------------------------------------------
(* Properties.                                                             *)

\* Every slot is in the order exactly once, late completions included: an entry the
\* order does not list could never be evicted (finish_reserved, "M2").
OrderListsSlots ==
  /\ Listed(order) = {id \in Ids : slots[id].state # "vacant"}
  /\ Cardinality(Listed(order)) = Len(order)

TypeOK ==
  /\ slots \in [Ids -> Slot \cup {Vacant}]
  /\ order \in Seq(Ids)
  /\ minted \in 0 .. MaxReservations
  /\ handler \in [Handlers -> Thread]
  /\ landed \subseteq [id : Ids, sig : Signatures, token : Tokens]
  /\ answers \in [Ids -> [Signatures -> SUBSET Outcome]]
  /\ lapsed \subseteq Ids
  /\ OrderListsSlots

\* While the cache remembers an id, its command takes effect at most once and every
\* caller that is given an outcome is given the same one (RequestCache: "the server
\* applies the side effect exactly once per id").
ExactlyOnceWhileRemembered ==
  \A id \in Ids : id \notin lapsed =>
    /\ Cardinality({run \in landed : run.id = id}) <= 1
    /\ Cardinality(UNION {answers[id][sig] : sig \in Signatures}) <= 1

\* An "ok" a caller is given, live or from the cache, is the outcome of a run of the
\* very command it asked for (begin: request_conflict).
AnswersAreEarned ==
  \A id \in Ids, sig \in Signatures : \A a \in answers[id][sig] :
    /\ a.res = "ok" => [id |-> id, sig |-> sig, token |-> a.token] \in landed
    /\ a.res = "reprobed" => Made(sig)

\* A slot belongs to its reservation.  Until it is reaped, a reservation is taken away
\* by nobody but its own handler, neither by a stale handler's completion or
\* cancellation nor by capacity eviction; and a settled outcome is replayed as it is
\* until it is evicted, never overwritten by a handler that was reaped and replaced
\* (finish_reserved, cancel_reserved, evict_expired).
ReservationGuarded(id) ==
  slots[id].state = "inflight" /\ slots[id].age < Reap
    => \/ slots'[id].state = "inflight" /\ slots'[id].token = slots[id].token
       \/ \E h \in Handlers : handler[h].token = slots[id].token
                              /\ handler'[h].phase = "idle"

OutcomeFixed(id) ==
  slots[id].state = "done" /\ slots'[id].state = "done"
    => slots'[id].token = slots[id].token /\ slots'[id].res = slots[id].res

SlotsAreOwned == [][\A id \in Ids : ReservationGuarded(id) /\ OutcomeFixed(id)]_vars

\* A reservation whose handler hung or died does not block its id forever.
ReservationEnds ==
  \A id \in Ids, n \in Tokens :
    (slots[id].state = "inflight" /\ slots[id].token = n)
      ~> ~(slots[id].state = "inflight" /\ slots[id].token = n)
=============================================================================
