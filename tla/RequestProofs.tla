---------------------------- MODULE RequestProofs ----------------------------
(***************************************************************************)
(* RequestCache for every number of ids, commands and handlers, and every  *)
(* capacity and window: what the cache remembers is exactly what happened, *)
(* and a slot is its reservation's.                                        *)
(***************************************************************************)
EXTENDS RequestCache, FiniteSetTheorems, SequenceTheorems, WellFoundedInduction, TLAPS

Once(o) == \A i, j \in DOMAIN o : o[i] = o[j] => i = j

(* Induction over the naturals, as the provers can use it: the least        *)
(* counterexample.                                                         *)
LEMMA LeastNatural ==
  ASSUME NEW T \in SUBSET Nat, T # {}
  PROVE  \E x \in T : \A y \in T : x <= y
<1>1. PICK x \in T : \A y \in T : <<y, x>> \notin OpToRel(<,Nat)
  BY NatLessThanWellFounded, WFMin, Zenon
<1>2. \A y \in T : ~(y < x)
  BY <1>1 DEF OpToRel
<1> QED BY <1>2

(* The recursive function of Without exists.                               *)
LEMMA WithoutUnfolds ==
  ASSUME NEW o, NEW gone, Len(o) \in Nat
  PROVE  \E f : /\ \A k \in 0 .. Len(o) :
                      f[k] = IF k = 0 THEN << >>
                             ELSE IF o[k] \in gone THEN f[k - 1] ELSE Append(f[k - 1], o[k])
                /\ Without(o, gone) = f[Len(o)]
<1> DEFINE F(f, k) == IF k = 0 THEN << >>
                      ELSE IF o[k] \in gone THEN f[k - 1] ELSE Append(f[k - 1], o[k])
           Good(f, m) == f = [k \in 0 .. m |-> F(f, k)]
           T == {m \in 0 .. Len(o) : ~ \E f : Good(f, m)}
<1>1. T = {}
  <2> SUFFICES ASSUME T # {} PROVE FALSE
    OBVIOUS
  <2>1. PICK m \in T : \A y \in T : m <= y
    <3>1. T \in SUBSET Nat
      OBVIOUS
    <3> HIDE DEF T
    <3> QED BY <3>1, LeastNatural
  <2>2. m \in 0 .. Len(o) /\ ~ \E f : Good(f, m)
    OBVIOUS
  <2>3. Good([k \in 0 .. 0 |-> << >>], 0)
    OBVIOUS
  <2>4. m # 0 /\ m - 1 \in 0 .. Len(o) /\ m - 1 \notin T
    <3> HIDE DEF Good
    <3>1. m # 0
      BY <2>2, <2>3
    <3> QED BY <2>1, <2>2, <3>1
  <2>5. PICK g : Good(g, m - 1)
    BY <2>4
  <2> DEFINE h == [k \in 0 .. m |-> IF k = m THEN F(g, m) ELSE g[k]]
  <2>6. \A k \in 0 .. m - 1 : g[k] = F(g, k)
    BY <2>5
  <2>7. \A k \in 0 .. m : h[k] = F(h, k)
    BY <2>2, <2>4, <2>6
  <2>8. Good(h, m)
    <3>1. h = [k \in 0 .. m |-> h[k]]
      OBVIOUS
    <3> HIDE DEF h, F
    <3> QED BY <2>7, <3>1
  <2> QED BY <2>2, <2>8
<1>2. PICK g : Good(g, Len(o))
  BY <1>1
<1> DEFINE kept == CHOOSE f : Good(f, Len(o))
<1>3. Good(kept, Len(o))
  BY <1>2
<1>4. Without(o, gone) = kept[Len(o)]
  BY DEF Without
<1> HIDE DEF kept
<1>5. \A k \in 0 .. Len(o) : kept[k] = F(kept, k)
  BY <1>3
<1> QED BY <1>4, <1>5

(* It keeps the rest of the order, and lists no id twice if o does not.    *)
LEMMA WithoutIs ==
  ASSUME NEW S, NEW o \in Seq(S), NEW gone
  PROVE  /\ Without(o, gone) \in Seq(S)
         /\ Listed(Without(o, gone)) = Listed(o) \ gone
         /\ Once(o) => Once(Without(o, gone))
<1>0. Len(o) \in Nat /\ DOMAIN o = 1 .. Len(o) /\ \A i \in 1 .. Len(o) : o[i] \in S
  OBVIOUS
<1>1. PICK f : /\ \A k \in 0 .. Len(o) :
                    f[k] = IF k = 0 THEN << >>
                           ELSE IF o[k] \in gone THEN f[k - 1] ELSE Append(f[k - 1], o[k])
               /\ Without(o, gone) = f[Len(o)]
  BY <1>0, WithoutUnfolds
<1>2. /\ f[0] = << >>
      /\ \A k \in 1 .. Len(o) :
           f[k] = IF o[k] \in gone THEN f[k - 1] ELSE Append(f[k - 1], o[k])
  BY <1>0, <1>1
<1> DEFINE Upto(k) == {o[i] : i \in 1 .. k} \ gone
           Good(k) == f[k] \in Seq(S) /\ Listed(f[k]) = Upto(k) /\ (Once(o) => Once(f[k]))
           T == {k \in 0 .. Len(o) : ~Good(k)}
<1>3. Good(0)
  BY <1>2 DEF Listed, Once
<1>4. ASSUME NEW k \in 1 .. Len(o), Good(k - 1) PROVE Good(k)
  <2>1. CASE o[k] \in gone
    <3>1. f[k] = f[k - 1]
      BY <1>2, <2>1
    <3>2. Upto(k) = Upto(k - 1)
      BY <1>0, <2>1
    <3> QED BY <1>4, <3>1, <3>2
  <2>2. CASE o[k] \notin gone
    <3> DEFINE g == f[k - 1]
    <3>1. /\ f[k] = Append(g, o[k]) /\ g \in Seq(S) /\ o[k] \in S /\ Listed(g) = Upto(k - 1)
          /\ Once(o) => Once(g)
      BY <1>0, <1>2, <1>4, <2>2
    <3> HIDE DEF g
    <3>2. /\ f[k] \in Seq(S) /\ DOMAIN f[k] = 1 .. Len(g) + 1 /\ DOMAIN g = 1 .. Len(g)
          /\ Len(g) \in Nat
          /\ f[k][Len(g) + 1] = o[k] /\ \A i \in 1 .. Len(g) : f[k][i] = g[i]
      BY <3>1, AppendProperties, LenProperties
    <3>3. Listed(f[k]) = Listed(g) \cup {o[k]}
      BY <3>2 DEF Listed
    <3>4. Upto(k) = Upto(k - 1) \cup {o[k]}
      BY <1>0, <2>2
    <3>5. Once(o) => o[k] \notin Upto(k - 1)
      BY <1>0 DEF Once
    <3>6. Once(o) => Once(f[k])
      <4> SUFFICES ASSUME Once(o), NEW i \in DOMAIN f[k], NEW j \in DOMAIN f[k], f[k][i] = f[k][j]
                   PROVE  i = j
        BY DEF Once
      <4>1. \A n \in 1 .. Len(g) : g[n] # o[k]
        BY <3>1, <3>2, <3>5 DEF Listed
      <4>2. \A m, n \in 1 .. Len(g) : g[m] = g[n] => m = n
        BY <3>1, <3>2 DEF Once
      <4> QED BY <3>2, <4>1, <4>2
    <3> QED BY <3>1, <3>2, <3>3, <3>4, <3>6
  <2> QED BY <2>1, <2>2
<1>5. T = {}
  <2> SUFFICES ASSUME T # {} PROVE FALSE
    OBVIOUS
  <2>1. PICK k \in T : \A y \in T : k <= y
    <3>1. T \in SUBSET Nat
      BY <1>0
    <3> HIDE DEF T
    <3> QED BY <3>1, LeastNatural
  <2> HIDE DEF Good
  <2>2. k \in 1 .. Len(o) /\ ~Good(k)
    BY <1>3
  <2>3. Good(k - 1)
    BY <1>0, <2>1, <2>2
  <2> QED BY <1>4, <2>2, <2>3
<1>6. Good(Len(o))
  <2> HIDE DEF Good
  <2> QED BY <1>0, <1>5
<1>7. Upto(Len(o)) = Listed(o) \ gone
  BY <1>0 DEF Listed
<1> QED BY <1>1, <1>6, <1>7
-----------------------------------------------------------------------------
(* The inductive invariant.                                                *)

SlotType == Slot \cup {Vacant}

Typed ==
  /\ slots \in [Ids -> SlotType]
  /\ order \in Seq(Ids)
  /\ minted \in 0 .. MaxReservations
  /\ handler \in [Handlers -> Thread]
  /\ landed \subseteq [id : Ids, sig : Signatures, token : Tokens]
  /\ answers \in [Ids -> [Signatures -> SUBSET Outcome]]
  /\ lapsed \subseteq Ids

Ordered == Once(order) /\ Listed(order) = {id \in Ids : slots[id].state # "vacant"}

Busy(h) == handler[h].phase # "idle"

(* A handler at work has a reservation of its own.                         *)
Minted ==
  /\ \A h \in Handlers : Busy(h) => /\ handler[h].id \in Ids /\ handler[h].sig \in Signatures
                                    /\ handler[h].token \in 1 .. minted
  /\ \A h, g \in Handlers :
       Busy(h) /\ Busy(g) /\ handler[h].token = handler[g].token => h = g

(* What a result says has happened.                                        *)
Earns(id, sig, token, res) ==
  /\ res = "ok" => [id |-> id, sig |-> sig, token |-> token] \in landed
  /\ res = "reprobed" => Made(sig)

ThreadEarns(h) ==
  handler[h].phase = "finish" =>
    /\ handler[h].res # "none"
    /\ Earns(handler[h].id, handler[h].sig, handler[h].token, handler[h].res)

SlotEarns(id) ==
  slots[id].state = "done" => Earns(id, slots[id].sig, slots[id].token, slots[id].res)

Earned ==
  /\ \A h \in Handlers : ThreadEarns(h)
  /\ \A id \in Ids : SlotEarns(id)
  /\ AnswersAreEarned

(* While an id is remembered, its slot tells all that was done and said    *)
(* under it.                                                               *)
Remembered(id) ==
  /\ \A h \in Handlers : Busy(h) /\ handler[h].id = id =>
       /\ slots[id].state = "inflight"
       /\ slots[id].token = handler[h].token /\ slots[id].sig = handler[h].sig
       /\ handler[h].phase # "finish" => \A run \in landed : run.id # id
  /\ \A run \in landed : run.id = id =>
       slots[id].state # "vacant" /\ run.token = slots[id].token /\ run.sig = slots[id].sig
  /\ \A sig \in Signatures : \A a \in answers[id][sig] :
       slots[id].state = "done" /\ a.token = slots[id].token /\ a.res = slots[id].res

RequestInv ==
  Typed /\ Ordered /\ Minted /\ Earned /\ \A id \in Ids \ lapsed : Remembered(id)

LEMMA SlotFacts ==
  ASSUME NEW s \in SlotType
  PROVE  /\ s.state \in {"vacant", "inflight", "done"}
         /\ s.state = "vacant" => s = Vacant
         /\ s.state # "vacant" => s.sig \in Signatures /\ s.token \in Tokens
         /\ s.state = "done" => s.res \in Results \ {"none"}
         /\ s.age \in 0 .. MaxAge
<1>1. MaxAge \in Nat
  BY CacheAssumption DEF MaxAge
<1> QED BY <1>1 DEF SlotType, Slot, Vacant

LEMMA VacantFacts == Vacant \in SlotType /\ Vacant.state = "vacant"
BY DEF SlotType, Vacant

LEMMA IdleFacts == Idle \in Thread /\ Idle.phase = "idle"
BY DEF Idle, Thread, Phases, Results

(* More runs earn no less.                                                 *)
LEMMA EarnsKept ==
  ASSUME NEW id, NEW sig, NEW token, NEW res, Earns(id, sig, token, res), landed \subseteq landed'
  PROVE  Earns(id, sig, token, res)'
BY DEF Earns, Made

(* An id whose slot, runs and answers a step leaves alone is as well       *)
(* remembered as before.                                                   *)
LEMMA RememberedKept ==
  ASSUME NEW id, Remembered(id),
         slots'[id].state = slots[id].state, slots'[id].sig = slots[id].sig,
         slots'[id].token = slots[id].token, slots'[id].res = slots[id].res,
         answers'[id] = answers[id],
         \A run \in landed' : run.id = id => run \in landed,
         \A h \in Handlers : Busy(h)' /\ handler'[h].id = id =>
           /\ Busy(h) /\ handler[h].id = id
           /\ handler'[h].token = handler[h].token /\ handler'[h].sig = handler[h].sig
           /\ handler'[h].phase # "finish" => handler[h].phase # "finish"
  PROVE  Remembered(id)'
<1>1. ASSUME NEW h \in Handlers, Busy(h)', handler'[h].id = id
      PROVE  /\ slots'[id].state = "inflight"
             /\ slots'[id].token = handler'[h].token /\ slots'[id].sig = handler'[h].sig
             /\ handler'[h].phase # "finish" => \A run \in landed' : run.id # id
  BY <1>1 DEF Remembered
<1>2. ASSUME NEW run \in landed', run.id = id
      PROVE  /\ slots'[id].state # "vacant"
             /\ run.token = slots'[id].token /\ run.sig = slots'[id].sig
  BY <1>2 DEF Remembered
<1>3. ASSUME NEW sig \in Signatures, NEW a \in answers'[id][sig]
      PROVE  slots'[id].state = "done" /\ a.token = slots'[id].token /\ a.res = slots'[id].res
  BY <1>3 DEF Remembered
<1> QED BY <1>1, <1>2, <1>3 DEF Remembered

-----------------------------------------------------------------------------
(* The steps.                                                              *)

LEMMA EvictionIs ==
  ASSUME RequestInv
  PROVE  /\ SlotsEvicted \in [Ids -> SlotType] /\ OrderEvicted \in Seq(Ids)
         /\ Once(OrderEvicted)
         /\ Listed(OrderEvicted) = {id \in Ids : SlotsEvicted[id].state # "vacant"}
         /\ Forgotten \subseteq Ids
         /\ \A id \in Ids : \/ SlotsEvicted[id] = slots[id]
                            \/ SlotsEvicted[id] = Vacant /\ id \in Forgotten /\ Expired(id)
<1>1. /\ slots \in [Ids -> SlotType] /\ order \in Seq(Ids) /\ Once(order)
      /\ Listed(order) = {id \in Ids : slots[id].state # "vacant"}
  BY DEF RequestInv, Typed, Ordered
<1>2. /\ Evictable \subseteq Ids
      /\ \A id \in Evictable : id \in Forgotten /\ Expired(id)
  BY <1>1 DEF Evictable, Forgotten
<1>3. /\ SlotsEvicted \in [Ids -> SlotType]
      /\ \A id \in Ids : SlotsEvicted[id] = IF id \in Evictable THEN Vacant ELSE slots[id]
  BY <1>1, VacantFacts DEF SlotsEvicted
<1>4. /\ OrderEvicted \in Seq(Ids) /\ Once(OrderEvicted)
      /\ Listed(OrderEvicted) = Listed(order) \ Evictable
  BY <1>1, WithoutIs DEF OrderEvicted
<1>5. Listed(OrderEvicted) = {id \in Ids : SlotsEvicted[id].state # "vacant"}
  BY <1>1, <1>3, <1>4, VacantFacts
<1>6. Forgotten \subseteq Ids
  BY <1>2 DEF Forgotten
<1> QED BY <1>2, <1>3, <1>4, <1>5, <1>6

(* A call that only evicts, and may tell a stored outcome.                 *)
LEMMA EvictKeepsInv ==
  ASSUME RequestInv, Evict, UNCHANGED <<minted, handler, landed>>,
         NEW k \in Ids,
         \/ answers' = answers
         \/ SlotsEvicted[k].state = "done" /\ Told(k, slots[k].sig, slots[k].token, slots[k].res)
  PROVE  RequestInv'
<1>0. /\ Typed /\ Ordered /\ Minted /\ Earned /\ AnswersAreEarned
      /\ \A id \in Ids \ lapsed : Remembered(id)
      /\ slots' = SlotsEvicted /\ order' = OrderEvicted /\ lapsed' = lapsed \cup Forgotten
      /\ slots \in [Ids -> SlotType] /\ answers \in [Ids -> [Signatures -> SUBSET Outcome]]
  BY DEF RequestInv, Evict, Typed, Earned
<1>1. /\ slots' \in [Ids -> SlotType] /\ order' \in Seq(Ids) /\ Ordered'
      /\ lapsed' \subseteq Ids
      /\ \A id \in Ids \ lapsed' : id \notin lapsed /\ slots'[id] = slots[id]
      /\ \A id \in Ids : slots'[id].state = "done" => slots'[id] = slots[id]
  BY <1>0, EvictionIs, VacantFacts DEF Ordered, Typed
<1> DEFINE a == [token |-> slots[k].token, res |-> slots[k].res]
           told == slots'[k].state = "done"
<1>2. \/ answers' = answers
      \/ told /\ answers' = [answers EXCEPT ![k][slots[k].sig] = @ \cup {a}]
  BY <1>0 DEF Told
<1>3. told => /\ slots[k].sig \in Signatures /\ a \in Outcome
              /\ slots'[k] = slots[k] /\ slots[k].state = "done"
              /\ Earns(k, slots[k].sig, a.token, a.res)
  BY <1>0, <1>1, SlotFacts DEF Outcome, Earned, SlotEarns
<1>4. /\ answers' \in [Ids -> [Signatures -> SUBSET Outcome]]
      /\ \A id \in Ids, sig \in Signatures :
           answers'[id][sig] = answers[id][sig]
             \cup (IF told /\ id = k /\ sig = slots[k].sig /\ answers' # answers THEN {a} ELSE {})
  BY <1>0, <1>2, <1>3
<1> HIDE DEF a
<1>5. Typed'
  BY <1>0, <1>1, <1>4 DEF Typed
<1>6. Minted'
  BY <1>0 DEF Minted, Busy
<1>7. AnswersAreEarned'
  <2>1. ASSUME NEW id \in Ids, NEW sig \in Signatures, NEW x \in answers'[id][sig]
        PROVE  Earns(id, sig, x.token, x.res)
    BY <1>0, <1>3, <1>4, <2>1 DEF AnswersAreEarned, Earns
  <2> QED BY <1>0, <2>1 DEF AnswersAreEarned, Earns, Made
<1>8. Earned'
  BY <1>0, <1>1, <1>7 DEF Earned, ThreadEarns, SlotEarns, Earns, Made
<1>9. ASSUME NEW id \in Ids \ lapsed' PROVE Remembered(id)'
  <2>1. Remembered(id) /\ slots'[id] = slots[id]
    BY <1>0, <1>1
  <2>2. ASSUME NEW sig \in Signatures, NEW x \in answers'[id][sig]
        PROVE  slots[id].state = "done" /\ x.token = slots[id].token /\ x.res = slots[id].res
    <3>1. CASE x \in answers[id][sig]
      BY <2>1, <3>1 DEF Remembered
    <3>2. CASE x \notin answers[id][sig]
      <4>1. told /\ id = k /\ x = a
        BY <1>4, <2>2, <3>2
      <4> QED BY <1>3, <4>1 DEF a
    <3> QED BY <3>1, <3>2
  <2> QED BY <1>0, <2>1, <2>2 DEF Remembered, Busy
<1> QED BY <1>1, <1>5, <1>6, <1>8, <1>9 DEF RequestInv

(* A handler goes on, or stops, and nothing else happens.                  *)
LEMMA HandlerKeepsInv ==
  ASSUME RequestInv, NEW h \in Handlers, NEW v \in Thread,
         handler' = [handler EXCEPT ![h] = v],
         UNCHANGED <<slots, order, minted, landed, answers, lapsed>>,
         v.phase # "idle" =>
           /\ Busy(h) /\ v.id = handler[h].id /\ v.sig = handler[h].sig
           /\ v.token = handler[h].token
           /\ v.phase # "finish" => handler[h].phase # "finish"
           /\ v.phase = "finish" => v.res # "none" /\ Earns(v.id, v.sig, v.token, v.res)
  PROVE  RequestInv'
<1>0. /\ Typed /\ Ordered /\ Minted /\ Earned /\ \A id \in Ids \ lapsed : Remembered(id)
      /\ handler \in [Handlers -> Thread]
  BY DEF RequestInv, Typed
<1>1. /\ handler' \in [Handlers -> Thread] /\ handler'[h] = v
      /\ \A g \in Handlers \ {h} : handler'[g] = handler[g]
  BY <1>0
<1>2. Typed' /\ Ordered'
  BY <1>0, <1>1 DEF Typed, Ordered
<1>3. Minted'
  BY <1>0, <1>1 DEF Minted, Busy
<1>4. Earned'
  BY <1>0, <1>1 DEF Earned, ThreadEarns, SlotEarns, Earns, Made, AnswersAreEarned
<1>5. ASSUME NEW id \in Ids \ lapsed' PROVE Remembered(id)'
  <2>1. Remembered(id)
    BY <1>0
  <2>2. ASSUME NEW g \in Handlers, Busy(g)', handler'[g].id = id
        PROVE  /\ Busy(g) /\ handler[g].id = id
               /\ handler'[g].token = handler[g].token /\ handler'[g].sig = handler[g].sig
               /\ handler'[g].phase # "finish" => handler[g].phase # "finish"
    BY <1>1, <2>2 DEF Busy
  <2> QED BY <2>1, <2>2, RememberedKept
<1> QED BY <1>2, <1>3, <1>4, <1>5 DEF RequestInv

(* Every entry that capacity pushes out is settled.                        *)
LEMMA ExcessIs ==
  ASSUME NEW s, NEW o \in Seq(Ids)
  PROVE  /\ Excess(s, o) \in 0 .. Len(o)
         /\ \A j \in 1 .. Excess(s, o) : s[o[j]].state # "inflight"
<1> DEFINE Stops(k) == \/ Len(o) - k <= Capacity
                       \/ k < Len(o) /\ s[o[k + 1]].state = "inflight"
           T == {k \in 0 .. Len(o) : Stops(k)}
           k == Excess(s, o)
<1>1. Len(o) \in Nat /\ Capacity \in Nat
  BY CacheAssumption
<1>2. Len(o) \in T
  BY <1>1
<1>3. PICK m \in T : \A y \in T : m <= y
  <2>1. T \in SUBSET Nat
    BY <1>1
  <2> HIDE DEF T
  <2> QED BY <1>2, <2>1, LeastNatural
<1>4. m \in 0 .. Len(o) /\ Stops(m) /\ \A j \in 0 .. m - 1 : ~Stops(j)
  <2>1. m \in 0 .. Len(o) /\ Stops(m)
    OBVIOUS
  <2>2. ASSUME NEW j \in 0 .. m - 1 PROVE ~Stops(j)
    <3>1. j \in 0 .. Len(o) /\ ~(m <= j)
      BY <1>1, <2>1
    <3> HIDE DEF Stops
    <3> QED BY <1>3, <3>1
  <2> QED BY <2>1, <2>2
<1>5. k = CHOOSE x \in 0 .. Len(o) : Stops(x) /\ \A j \in 0 .. x - 1 : ~Stops(j)
  BY DEF Excess
<1> HIDE DEF k, Stops
<1>6. k \in 0 .. Len(o) /\ Stops(k) /\ \A j \in 0 .. k - 1 : ~Stops(j)
  BY <1>4, <1>5
<1>7. ASSUME NEW j \in 1 .. k PROVE s[o[j]].state # "inflight"
  <2>1. j - 1 \in 0 .. k - 1 /\ j - 1 < Len(o) /\ (j - 1) + 1 = j
    BY <1>1, <1>6
  <2> QED BY <1>6, <2>1 DEF Stops
<1> QED BY <1>6, <1>7 DEF k

(* An order without its first k entries.                                   *)
LEMMA RestIs ==
  ASSUME NEW o \in Seq(Ids), Once(o), NEW k \in 0 .. Len(o)
  PROVE  /\ SubSeq(o, k + 1, Len(o)) \in Seq(Ids) /\ Once(SubSeq(o, k + 1, Len(o)))
         /\ Listed(SubSeq(o, k + 1, Len(o))) = Listed(o) \ {o[i] : i \in 1 .. k}
<1> DEFINE r == SubSeq(o, k + 1, Len(o))
<1>1. Len(o) \in Nat /\ DOMAIN o = 1 .. Len(o) /\ \A i \in 1 .. Len(o) : o[i] \in Ids
  BY LenProperties
<1>2. /\ r \in Seq(Ids) /\ Len(r) = Len(o) - k /\ DOMAIN r = 1 .. Len(o) - k
      /\ \A i \in 1 .. Len(o) - k : r[i] = o[k + i]
  <2>1. \A i \in k + 1 .. Len(o) : o[i] \in Ids
    BY <1>1
  <2>2. /\ r \in Seq(Ids) /\ Len(r) = IF k + 1 <= Len(o) THEN Len(o) - (k + 1) + 1 ELSE 0
        /\ \A i \in 1 .. Len(o) - (k + 1) + 1 : r[i] = o[(k + 1) + i - 1]
    BY <1>1, <2>1, SubSeqProperties
  <2> HIDE DEF r
  <2>3. Len(r) = Len(o) - k
    <3>1. k \in Nat /\ k <= Len(o)
      BY <1>1
    <3>2. CASE k + 1 <= Len(o)
      BY <1>1, <2>2, <3>1, <3>2
    <3>3. CASE k = Len(o)
      <4>1. ~(k + 1 <= Len(o)) /\ Len(o) - k = 0
        BY <1>1, <3>3
      <4> QED BY <2>2, <4>1
    <3>4. Len(o) \in Nat
      BY <1>1
    <3>5. k + 1 <= Len(o) \/ k = Len(o)
      BY <3>1, <3>4
    <3> QED BY <3>2, <3>3, <3>5
  <2>4. DOMAIN r = 1 .. Len(o) - k
    BY <2>2, <2>3, LenProperties
  <2>5. ASSUME NEW i \in 1 .. Len(o) - k PROVE r[i] = o[k + i]
    <3>1. i \in 1 .. Len(o) - (k + 1) + 1 /\ (k + 1) + i - 1 = k + i
      BY <1>1
    <3> QED BY <2>2, <3>1
  <2> QED BY <2>2, <2>3, <2>4, <2>5
<1> HIDE DEF r
<1>3. Once(r)
  <2> SUFFICES ASSUME NEW i \in 1 .. Len(o) - k, NEW j \in 1 .. Len(o) - k, r[i] = r[j]
               PROVE  i = j
    BY <1>2 DEF Once
  <2>1. k + i \in 1 .. Len(o) /\ k + j \in 1 .. Len(o) /\ o[k + i] = o[k + j]
    BY <1>1, <1>2
  <2>2. k + i = k + j
    BY <1>1, <2>1 DEF Once
  <2> QED BY <1>1, <2>2
<1>4. Listed(r) = Listed(o) \ {o[i] : i \in 1 .. k}
  <2>1. ASSUME NEW x \in Listed(r) PROVE x \in Listed(o) \ {o[i] : i \in 1 .. k}
    <3>1. PICK i \in 1 .. Len(o) - k : x = o[k + i]
      BY <1>2 DEF Listed
    <3>2. k + i \in 1 .. Len(o) /\ \A j \in 1 .. k : j # k + i /\ j \in 1 .. Len(o)
      BY <1>1
    <3> QED BY <1>1, <3>1, <3>2 DEF Listed, Once
  <2>2. ASSUME NEW x \in Listed(o), x \notin {o[i] : i \in 1 .. k} PROVE x \in Listed(r)
    <3>1. PICK i \in 1 .. Len(o) : x = o[i]
      BY <1>1 DEF Listed
    <3>2. i - k \in 1 .. Len(o) - k /\ k + (i - k) = i
      BY <1>1, <2>2, <3>1
    <3> QED BY <1>2, <3>1, <3>2 DEF Listed
  <2> QED BY <2>1, <2>2
<1> QED BY <1>2, <1>3, <1>4 DEF r

(* What a fresh reservation makes of the cache.                            *)
LEMMA FreshIs ==
  ASSUME RequestInv, NEW h \in Handlers, NEW k \in Ids, NEW sig \in Signatures,
         BeginFresh(h, k, sig)
  PROVE  /\ slots' \in [Ids -> SlotType] /\ order' \in Seq(Ids) /\ Ordered'
         /\ lapsed \cup Forgotten \subseteq lapsed' /\ lapsed' \subseteq Ids
         /\ minted' = minted + 1 /\ minted + 1 \in Tokens
         /\ slots'[k] = [state |-> "inflight", age |-> 0, sig |-> sig, token |-> minted + 1,
                         res |-> "none"]
         /\ \A id \in Ids \ {k} :
              \/ slots'[id] = SlotsEvicted[id]
              \/ slots'[id] = Vacant /\ SlotsEvicted[id].state # "inflight" /\ id \in lapsed'
<1> DEFINE new == [state |-> "inflight", age |-> 0, sig |-> sig, token |-> minted + 1,
                   res |-> "none"]
           s == [SlotsEvicted EXCEPT ![k] = new]
           o == Append(OrderEvicted, k)
           n == Excess(s, o)
           out == {o[i] : i \in 1 .. n}
<1>0. /\ SlotsEvicted \in [Ids -> SlotType] /\ OrderEvicted \in Seq(Ids) /\ Once(OrderEvicted)
      /\ Listed(OrderEvicted) = {id \in Ids : SlotsEvicted[id].state # "vacant"}
      /\ Forgotten \subseteq Ids /\ lapsed \subseteq Ids
      /\ minted \in 0 .. MaxReservations /\ MaxReservations \in Nat
  BY EvictionIs, CacheAssumption DEF RequestInv, Typed
<1>1. /\ SlotsEvicted[k].state = "vacant" /\ minted < MaxReservations /\ minted' = minted + 1
      /\ slots' = [x \in Ids |-> IF x \in out THEN Vacant ELSE s[x]]
      /\ order' = SubSeq(o, n + 1, Len(o))
      /\ lapsed' = lapsed \cup Forgotten \cup out
  BY DEF BeginFresh, Reserved
<1>2. minted + 1 \in Tokens
  BY <1>0, <1>1 DEF Tokens
<1>3. new \in SlotType /\ new.state = "inflight"
  <2>1. 0 \in 0 .. MaxAge
    BY CacheAssumption DEF MaxAge
  <2> QED BY <1>2, <2>1 DEF SlotType, Slot
<1> HIDE DEF new
<1>4. /\ s \in [Ids -> SlotType] /\ s[k] = new
      /\ \A id \in Ids \ {k} : s[id] = SlotsEvicted[id]
  BY <1>0, <1>3
<1>5. /\ o \in Seq(Ids) /\ Once(o) /\ Listed(o) = Listed(OrderEvicted) \cup {k}
  <2>1. /\ o \in Seq(Ids) /\ Len(o) = Len(OrderEvicted) + 1 /\ o[Len(OrderEvicted) + 1] = k
        /\ \A i \in 1 .. Len(OrderEvicted) : o[i] = OrderEvicted[i]
    BY <1>0, AppendProperties
  <2>2. /\ DOMAIN o = 1 .. Len(OrderEvicted) + 1 /\ Len(OrderEvicted) \in Nat
        /\ DOMAIN OrderEvicted = 1 .. Len(OrderEvicted)
    BY <1>0, <2>1, LenProperties
  <2> HIDE DEF o
  <2>3. k \notin Listed(OrderEvicted)
    BY <1>0, <1>1
  <2>4. \A i \in 1 .. Len(OrderEvicted) : OrderEvicted[i] # k
    BY <2>2, <2>3 DEF Listed
  <2>5. Once(o)
    BY <1>0, <2>1, <2>2, <2>4 DEF Once
  <2> QED BY <2>1, <2>2, <2>5 DEF Listed
<1> HIDE DEF s, o
<1>6. n \in 0 .. Len(o) /\ \A j \in 1 .. n : s[o[j]].state # "inflight"
  BY <1>5, ExcessIs
<1> HIDE DEF n
<1>7. /\ order' \in Seq(Ids) /\ Once(order') /\ Listed(order') = Listed(o) \ out
  BY <1>1, <1>5, <1>6, RestIs
<1>8. out \subseteq Ids /\ k \notin out /\ \A id \in out : s[id].state # "inflight"
  <2>1. \A j \in 1 .. n : o[j] \in Ids
    BY <1>5, <1>6
  <2> QED BY <1>3, <1>4, <1>6, <2>1
<1> HIDE DEF out
<1>9. /\ slots' \in [Ids -> SlotType]
      /\ \A id \in Ids : slots'[id] = IF id \in out THEN Vacant ELSE s[id]
  BY <1>1, <1>4, VacantFacts
<1>10. Listed(order') = {id \in Ids : slots'[id].state # "vacant"}
  BY <1>0, <1>3, <1>4, <1>5, <1>7, <1>9, VacantFacts
<1>11. slots'[k] = new
  BY <1>4, <1>8, <1>9
<1>12. ASSUME NEW id \in Ids \ {k}
       PROVE  \/ slots'[id] = SlotsEvicted[id]
              \/ slots'[id] = Vacant /\ SlotsEvicted[id].state # "inflight" /\ id \in lapsed'
  BY <1>1, <1>4, <1>8, <1>9
<1> QED BY <1>0, <1>1, <1>2, <1>7, <1>8, <1>9, <1>10, <1>11, <1>12 DEF Ordered, new

LEMMA FreshKeepsInv ==
  ASSUME RequestInv, NEW h \in Handlers, NEW k \in Ids, NEW sig \in Signatures,
         BeginFresh(h, k, sig)
  PROVE  RequestInv'
<1> DEFINE v == [phase |-> IF slots[k].state = "inflight" THEN "probe" ELSE "gate",
                 id |-> k, sig |-> sig, token |-> minted + 1, res |-> "none"]
<1>0. /\ Typed /\ Minted /\ Earned /\ AnswersAreEarned /\ slots \in [Ids -> SlotType]
      /\ \A id \in Ids \ lapsed : Remembered(id)
      /\ handler \in [Handlers -> Thread] /\ minted \in 0 .. MaxReservations
      /\ MaxReservations \in Nat
  BY CacheAssumption DEF RequestInv, Typed, Earned
<1>1. /\ slots' \in [Ids -> SlotType] /\ order' \in Seq(Ids) /\ Ordered'
      /\ lapsed \cup Forgotten \subseteq lapsed' /\ lapsed' \subseteq Ids
      /\ minted' = minted + 1 /\ minted + 1 \in Tokens
      /\ slots'[k] = [state |-> "inflight", age |-> 0, sig |-> sig, token |-> minted + 1,
                      res |-> "none"]
      /\ \A id \in Ids \ {k} :
           \/ slots'[id] = SlotsEvicted[id]
           \/ slots'[id] = Vacant /\ SlotsEvicted[id].state # "inflight" /\ id \in lapsed'
  BY FreshIs
<1>2. /\ handler[h].phase = "idle" /\ SlotsEvicted[k].state = "vacant"
      /\ handler' = [handler EXCEPT ![h] = v]
      /\ landed' = landed /\ answers' = answers
  BY DEF BeginFresh
<1>3. v \in Thread /\ v.phase \in {"probe", "gate"} /\ v.id = k /\ v.sig = sig
      /\ v.token = minted + 1
  BY <1>1 DEF Thread, Phases, Results
<1> HIDE DEF v
<1>4. /\ handler' \in [Handlers -> Thread] /\ handler'[h] = v
      /\ \A g \in Handlers \ {h} : handler'[g] = handler[g]
  BY <1>0, <1>2, <1>3
<1>5. Typed'
  BY <1>0, <1>1, <1>2, <1>4 DEF Typed, Tokens
<1>6. Minted'
  BY <1>0, <1>1, <1>3, <1>4 DEF Minted, Busy
<1>7. AnswersAreEarned'
  BY <1>0, <1>2 DEF AnswersAreEarned, Made
<1>8. ASSUME NEW id \in Ids, slots'[id].state = "done"
      PROVE  slots'[id] = slots[id]
  BY <1>1, <1>8, EvictionIs, VacantFacts
<1>9. Earned'
  BY <1>0, <1>2, <1>3, <1>4, <1>7, <1>8 DEF Earned, ThreadEarns, SlotEarns, Earns, Made
<1>10. ASSUME NEW id \in Ids \ lapsed' PROVE Remembered(id)'
  <2>0. id \notin lapsed /\ id \notin Forgotten /\ Remembered(id)
        /\ SlotsEvicted[id] = slots[id]
    BY <1>0, <1>1, EvictionIs
  <2>1. CASE id = k
    <3>1. slots[k].state = "vacant"
      BY <1>2, <2>0, <2>1
    <3>2. /\ \A g \in Handlers : Busy(g) => handler[g].id # k
          /\ \A run \in landed : run.id # k
          /\ \A s \in Signatures : answers[k][s] = {}
      BY <2>0, <2>1, <3>1 DEF Remembered
    <3>3. ASSUME NEW g \in Handlers, Busy(g)', handler'[g].id = k
          PROVE  /\ slots'[k].state = "inflight"
                 /\ slots'[k].token = handler'[g].token /\ slots'[k].sig = handler'[g].sig
                 /\ \A run \in landed' : run.id # k
      <4>1. g = h
        BY <1>4, <3>2, <3>3 DEF Busy
      <4> QED BY <1>1, <1>2, <1>3, <1>4, <3>2, <4>1
    <3> QED BY <1>2, <2>1, <3>2, <3>3 DEF Remembered
  <2>2. CASE id # k
    <3>1. slots'[id] = slots[id]
      BY <1>1, <2>0, <2>2
    <3>2. ASSUME NEW g \in Handlers, Busy(g)', handler'[g].id = id
          PROVE  g # h /\ handler'[g] = handler[g] /\ Busy(g)
      BY <1>3, <1>4, <2>2, <3>2 DEF Busy
    <3> QED BY <1>2, <2>0, <3>1, <3>2, RememberedKept
  <2> QED BY <2>1, <2>2
<1> QED BY <1>1, <1>5, <1>6, <1>9, <1>10 DEF RequestInv

LEMMA ReleaseIs ==
  ASSUME RequestInv, NEW k \in Ids, NEW t, Release(k, t)
  PROVE  /\ slots' \in [Ids -> SlotType] /\ order' \in Seq(Ids) /\ Ordered'
         /\ \A id \in Ids \ {k} : slots'[id] = slots[id]
         /\ \/ slots'[k] = Vacant /\ slots[k].state = "inflight" /\ slots[k].token = t
            \/ slots'[k] = slots[k] /\ ~(slots[k].state = "inflight" /\ slots[k].token = t)
<1>0. /\ Ordered /\ slots \in [Ids -> SlotType] /\ order \in Seq(Ids)
  BY DEF RequestInv, Typed
<1>1. CASE slots[k].state = "inflight" /\ slots[k].token = t
  <2>1. slots' = [slots EXCEPT ![k] = Vacant] /\ order' = Without(order, {k})
    BY <1>1 DEF Release
  <2>2. /\ slots' \in [Ids -> SlotType] /\ slots'[k] = Vacant
        /\ \A id \in Ids \ {k} : slots'[id] = slots[id]
    BY <1>0, <2>1, VacantFacts
  <2>3. order' \in Seq(Ids) /\ Once(order') /\ Listed(order') = Listed(order) \ {k}
    BY <1>0, <2>1, WithoutIs DEF Ordered
  <2> QED BY <1>0, <1>1, <2>2, <2>3, VacantFacts DEF Ordered
<1>2. CASE ~(slots[k].state = "inflight" /\ slots[k].token = t)
  <2>1. slots' = slots /\ order' = order
    BY <1>2 DEF Release
  <2> QED BY <1>0, <1>2, <2>1 DEF Ordered
<1> QED BY <1>1, <1>2

LEMMA CancelKeepsInv ==
  ASSUME RequestInv, NEW h \in Handlers, Cancel(h)
  PROVE  RequestInv'
<1>0. /\ Typed /\ Minted /\ Earned /\ AnswersAreEarned /\ slots \in [Ids -> SlotType]
      /\ \A id \in Ids \ lapsed : Remembered(id)
      /\ handler \in [Handlers -> Thread]
  BY DEF RequestInv, Typed, Earned
<1>1. PICK k : k = handler[h].id
  OBVIOUS
<1>2. PICK t : t = handler[h].token
  OBVIOUS
<1>3. /\ handler[h].phase \in {"gate", "running"} /\ Release(k, t) /\ Busy(h)
      /\ handler' = [handler EXCEPT ![h] = Idle]
      /\ UNCHANGED <<minted, landed, answers, lapsed>>
  BY <1>1, <1>2 DEF Cancel, Busy
<1>4. k \in Ids
  BY <1>0, <1>1, <1>3 DEF Minted
<1>5. /\ slots' \in [Ids -> SlotType] /\ order' \in Seq(Ids) /\ Ordered'
      /\ \A id \in Ids \ {k} : slots'[id] = slots[id]
      /\ \/ slots'[k] = Vacant /\ slots[k].state = "inflight" /\ slots[k].token = t
         \/ slots'[k] = slots[k] /\ ~(slots[k].state = "inflight" /\ slots[k].token = t)
  BY <1>3, <1>4, ReleaseIs
<1>6. /\ handler' \in [Handlers -> Thread] /\ handler'[h].phase = "idle"
      /\ \A g \in Handlers \ {h} : handler'[g] = handler[g]
  BY <1>0, <1>3, IdleFacts
<1>7. Typed'
  BY <1>0, <1>3, <1>5, <1>6 DEF Typed
<1>8. Minted'
  BY <1>0, <1>3, <1>6 DEF Minted, Busy
<1>9. Earned'
  BY <1>0, <1>3, <1>5, <1>6, VacantFacts DEF Earned, ThreadEarns, SlotEarns, Earns, Made, AnswersAreEarned
<1>10. ASSUME NEW id \in Ids \ lapsed' PROVE Remembered(id)'
  <2>0. Remembered(id)
    BY <1>0, <1>3
  <2>1. ASSUME NEW g \in Handlers, Busy(g)', handler'[g].id = id
        PROVE  g # h /\ handler'[g] = handler[g] /\ Busy(g)
    BY <1>6, <2>1 DEF Busy
  <2>2. CASE id = k
    <3>1. /\ slots[k].state = "inflight" /\ slots[k].token = t
          /\ \A run \in landed : run.id # k
      BY <1>1, <1>2, <1>3, <2>0, <2>2 DEF Remembered
    <3>2. \A s \in Signatures : answers[k][s] = {}
      BY <2>0, <2>2, <3>1 DEF Remembered
    <3>3. ASSUME NEW g \in Handlers, Busy(g)', handler'[g].id = k PROVE FALSE
      <4>1. g # h /\ Busy(g) /\ handler[g].id = k
        BY <2>1, <2>2, <3>3
      <4>2. slots[k].token = handler[g].token
        BY <2>0, <2>2, <4>1 DEF Remembered
      <4> QED BY <1>0, <1>2, <1>3, <3>1, <4>1, <4>2 DEF Minted
    <3> QED BY <1>3, <2>2, <3>1, <3>2, <3>3 DEF Remembered
  <2>3. CASE id # k
    <3>1. slots'[id] = slots[id]
      BY <1>5, <2>3
    <3> QED BY <1>3, <2>0, <2>1, <3>1, RememberedKept
  <2> QED BY <2>2, <2>3
<1> QED BY <1>5, <1>7, <1>8, <1>9, <1>10 DEF RequestInv

LEMMA LandKeepsInv ==
  ASSUME RequestInv, NEW h \in Handlers, Land(h)
  PROVE  RequestInv'
<1>0. /\ Typed /\ Ordered /\ Minted /\ Earned /\ AnswersAreEarned /\ slots \in [Ids -> SlotType]
      /\ \A id \in Ids \ lapsed : Remembered(id)
      /\ handler \in [Handlers -> Thread] /\ minted \in 0 .. MaxReservations
  BY DEF RequestInv, Typed, Earned
<1>1. PICK k, s, t : k = handler[h].id /\ s = handler[h].sig /\ t = handler[h].token
  OBVIOUS
<1>2. PICK res \in {"ok", "err"} :
        handler' = [handler EXCEPT ![h].phase = "finish", ![h].res = res]
  BY DEF Land
<1> DEFINE run == [id |-> k, sig |-> s, token |-> t]
           v == [handler[h] EXCEPT !.phase = "finish", !.res = res]
<1>3. /\ handler[h].phase = "running" /\ Busy(h) /\ landed' = landed \cup {run}
      /\ handler' = [handler EXCEPT ![h] = v]
      /\ UNCHANGED <<slots, order, minted, answers, lapsed>>
  BY <1>0, <1>1, <1>2 DEF Land, Busy
<1>4. k \in Ids /\ s \in Signatures /\ t \in Tokens
  BY <1>0, <1>1, <1>3, CacheAssumption DEF Minted, Tokens
<1>5. run \in [id : Ids, sig : Signatures, token : Tokens]
      /\ run.id = k /\ run.sig = s /\ run.token = t
  BY <1>4
<1>6. /\ v \in Thread /\ v.phase = "finish" /\ v.res = res
      /\ v.id = k /\ v.sig = s /\ v.token = t
  BY <1>0, <1>1, <1>2 DEF Thread, Phases, Results
<1> HIDE DEF v
<1>7. /\ handler' \in [Handlers -> Thread] /\ handler'[h] = v
      /\ \A g \in Handlers \ {h} : handler'[g] = handler[g]
  BY <1>0, <1>3, <1>6
<1>8. Typed' /\ Ordered'
  BY <1>0, <1>3, <1>5, <1>7 DEF Typed, Ordered
<1>9. Minted'
  BY <1>0, <1>1, <1>3, <1>6, <1>7 DEF Minted, Busy
<1>10. landed \subseteq landed' /\ run \in landed'
  BY <1>3
<1>11. Earned'
  <2>1. ASSUME NEW g \in Handlers PROVE ThreadEarns(g)'
    <3>1. CASE g = h
      <4>1. /\ handler'[g].res = res /\ handler'[g].id = k /\ handler'[g].sig = s
            /\ handler'[g].token = t
        BY <1>6, <1>7, <3>1
      <4>2. res # "none" /\ res # "reprobed" /\ run \in landed'
        BY <1>2, <1>10
      <4> QED BY <4>1, <4>2 DEF ThreadEarns, Earns
    <3>2. CASE g # h
      <4>1. handler'[g] = handler[g] /\ ThreadEarns(g)
        BY <1>0, <1>7, <3>2 DEF Earned
      <4> QED BY <1>10, <4>1 DEF ThreadEarns, Earns, Made
    <3> QED BY <3>1, <3>2
  <2>2. AnswersAreEarned'
    BY <1>0, <1>3, <1>10 DEF AnswersAreEarned, Made
  <2>3. \A id \in Ids : SlotEarns(id)'
    BY <1>0, <1>3, <1>10 DEF Earned, SlotEarns, Earns, Made
  <2> QED BY <2>1, <2>2, <2>3 DEF Earned
<1> HIDE DEF run
<1>12. ASSUME NEW id \in Ids \ lapsed' PROVE Remembered(id)'
  <2>0. Remembered(id)
    BY <1>0, <1>3
  <2>1. CASE id = k
    <3>1. /\ slots[k].state = "inflight" /\ slots[k].token = t /\ slots[k].sig = s
      BY <1>1, <1>3, <2>0, <2>1 DEF Remembered
    <3>2. ASSUME NEW g \in Handlers, Busy(g)', handler'[g].id = k PROVE g = h
      <4> SUFFICES ASSUME g # h PROVE FALSE
        OBVIOUS
      <4>1. Busy(g) /\ handler[g].id = k
        BY <1>7, <3>2 DEF Busy
      <4>2. slots[k].token = handler[g].token
        BY <2>0, <2>1, <4>1 DEF Remembered
      <4> QED BY <1>0, <1>1, <1>3, <3>1, <4>1, <4>2 DEF Minted
    <3>3. ASSUME NEW r \in landed', r.id = k
          PROVE  slots[k].state # "vacant" /\ r.token = slots[k].token /\ r.sig = slots[k].sig
      BY <1>3, <1>5, <2>0, <2>1, <3>1, <3>3 DEF Remembered
    <3>4. ASSUME NEW x \in Signatures PROVE answers'[k][x] = {}
      BY <1>3, <2>0, <2>1, <3>1 DEF Remembered
    <3> QED BY <1>3, <1>6, <1>7, <2>1, <3>1, <3>2, <3>3, <3>4 DEF Remembered, Busy
  <2>2. CASE id # k
    <3>1. \A r \in landed' : r.id = id => r \in landed
      BY <1>3, <1>5, <2>2
    <3>2. ASSUME NEW g \in Handlers, Busy(g)', handler'[g].id = id
          PROVE  g # h /\ handler'[g] = handler[g] /\ Busy(g)
      BY <1>6, <1>7, <2>2, <3>2 DEF Busy
    <3> QED BY <1>3, <2>0, <3>1, <3>2, RememberedKept
  <2> QED BY <2>1, <2>2
<1> QED BY <1>8, <1>9, <1>11, <1>12 DEF RequestInv

(* What a completion makes of the cache.                                   *)
LEMMA SettledIs ==
  ASSUME RequestInv, NEW h \in Handlers, Finish(h), NEW k, k = handler[h].id
  PROVE  /\ k \in Ids /\ slots' \in [Ids -> SlotType] /\ order' \in Seq(Ids) /\ Ordered'
         /\ \A id \in Ids \ {k} : slots'[id] = slots[id]
         /\ \/ /\ slots[k].state \in {"vacant", "inflight"}
               /\ slots[k].state = "inflight" => slots[k].token = handler[h].token
               /\ slots'[k].state = "done" /\ slots'[k].sig = handler[h].sig
               /\ slots'[k].token = handler[h].token /\ slots'[k].res = handler[h].res
            \/ /\ slots'[k] = slots[k] /\ slots[k].state # "vacant"
               /\ slots[k].state = "inflight" => slots[k].token # handler[h].token
<1> DEFINE d == [state |-> "done", age |-> 0, sig |-> handler[h].sig,
                 token |-> handler[h].token, res |-> handler[h].res]
<1>0. /\ Minted /\ Earned /\ Ordered /\ slots \in [Ids -> SlotType] /\ order \in Seq(Ids)
      /\ handler \in [Handlers -> Thread] /\ handler[h].phase = "finish" /\ Busy(h)
      /\ handler[h].res \in Results /\ minted \in 0 .. MaxReservations
      /\ MaxReservations \in Nat
  BY CacheAssumption DEF RequestInv, Typed, Finish, Busy, Thread
<1>1. /\ k \in Ids /\ handler[h].sig \in Signatures /\ handler[h].token \in Tokens
      /\ handler[h].res \in Results \ {"none"}
  BY <1>0 DEF Minted, Earned, ThreadEarns, Tokens
<1>2. CASE MaySettle(h)
  <2>1. slots' = [slots EXCEPT ![k] = d] /\ order' = Relist(k)
    BY <1>2 DEF Finish
  <2>2. d \in SlotType /\ d.state = "done"
    <3>1. 0 \in 0 .. MaxAge
      BY CacheAssumption DEF MaxAge
    <3> QED BY <1>1, <3>1 DEF SlotType, Slot
  <2>3. /\ d.sig = handler[h].sig /\ d.token = handler[h].token /\ d.res = handler[h].res
    OBVIOUS
  <2> HIDE DEF d
  <2>4. /\ slots' \in [Ids -> SlotType] /\ slots'[k] = d
        /\ \A id \in Ids \ {k} : slots'[id] = slots[id]
    BY <1>0, <1>1, <2>1, <2>2
  <2>5. order' \in Seq(Ids) /\ Once(order') /\ Listed(order') = Listed(order) \cup {k}
    <3>1. CASE k \in Listed(order)
      BY <1>0, <2>1, <3>1 DEF Relist, Ordered
    <3>2. CASE k \notin Listed(order)
      <4>1. order' = Append(order, k)
        BY <2>1, <3>2 DEF Relist
      <4>2. /\ order' \in Seq(Ids) /\ Len(order') = Len(order) + 1
            /\ order'[Len(order) + 1] = k
            /\ \A i \in 1 .. Len(order) : order'[i] = order[i]
        BY <1>0, <1>1, <4>1, AppendProperties
      <4>3. /\ DOMAIN order' = 1 .. Len(order) + 1 /\ Len(order) \in Nat
            /\ DOMAIN order = 1 .. Len(order)
        BY <1>0, <4>2, LenProperties
      <4>4. \A i \in 1 .. Len(order) : order[i] # k
        BY <3>2, <4>3 DEF Listed
      <4>5. Once(order)
        BY <1>0 DEF Ordered
      <4>6. Once(order')
        BY <4>2, <4>3, <4>4, <4>5 DEF Once
      <4> QED BY <4>2, <4>3, <4>6 DEF Listed
    <3> QED BY <3>1, <3>2
  <2>6. Ordered'
    BY <1>0, <1>1, <2>2, <2>4, <2>5 DEF Ordered
  <2> QED BY <1>1, <1>2, <2>2, <2>3, <2>4, <2>5, <2>6 DEF MaySettle
<1>3. CASE ~MaySettle(h)
  <2>1. slots' = slots /\ order' = order
    BY <1>3 DEF Finish
  <2> QED BY <1>0, <1>1, <1>3, <2>1 DEF MaySettle, Ordered
<1> QED BY <1>2, <1>3

LEMMA FinishKeepsInv ==
  ASSUME RequestInv, NEW h \in Handlers, Finish(h)
  PROVE  RequestInv'
<1>0. /\ Typed /\ Minted /\ Earned /\ AnswersAreEarned /\ slots \in [Ids -> SlotType]
      /\ \A id \in Ids \ lapsed : Remembered(id)
      /\ handler \in [Handlers -> Thread] /\ minted \in 0 .. MaxReservations
      /\ answers \in [Ids -> [Signatures -> SUBSET Outcome]] /\ MaxReservations \in Nat
  BY CacheAssumption DEF RequestInv, Typed, Earned
<1>1. PICK k, s, t, res : /\ k = handler[h].id /\ s = handler[h].sig /\ t = handler[h].token
                          /\ res = handler[h].res
  OBVIOUS
<1> DEFINE a == [token |-> t, res |-> res]
<1>2. /\ handler[h].phase = "finish" /\ Busy(h) /\ handler' = [handler EXCEPT ![h] = Idle]
      /\ answers' = [answers EXCEPT ![k][s] = @ \cup {a}]
      /\ UNCHANGED <<minted, landed, lapsed>>
  BY <1>1 DEF Finish, Told, Busy
<1>3. /\ k \in Ids /\ s \in Signatures /\ t \in Tokens /\ res \in Results /\ res # "none"
      /\ Earns(k, s, t, res)
  BY <1>0, <1>1, <1>2 DEF Minted, Earned, ThreadEarns, Tokens, Thread
<1>4. a \in Outcome /\ a.token = t /\ a.res = res
  BY <1>3 DEF Outcome
<1> HIDE DEF a
<1>5. /\ slots' \in [Ids -> SlotType] /\ order' \in Seq(Ids) /\ Ordered'
      /\ \A id \in Ids \ {k} : slots'[id] = slots[id]
      /\ \/ /\ slots[k].state \in {"vacant", "inflight"}
            /\ slots[k].state = "inflight" => slots[k].token = t
            /\ slots'[k].state = "done" /\ slots'[k].sig = s
            /\ slots'[k].token = t /\ slots'[k].res = res
         \/ /\ slots'[k] = slots[k] /\ slots[k].state # "vacant"
            /\ slots[k].state = "inflight" => slots[k].token # t
  BY <1>1, SettledIs
<1>6. /\ handler' \in [Handlers -> Thread] /\ handler'[h].phase = "idle"
      /\ \A g \in Handlers \ {h} : handler'[g] = handler[g]
  BY <1>0, <1>2, IdleFacts
<1>7. /\ answers' \in [Ids -> [Signatures -> SUBSET Outcome]]
      /\ \A id \in Ids, sig \in Signatures :
           answers'[id][sig] =
             answers[id][sig] \cup (IF id = k /\ sig = s THEN {a} ELSE {})
      /\ \A id \in Ids \ {k} : answers'[id] = answers[id]
  BY <1>0, <1>2, <1>3, <1>4
<1>8. Typed'
  BY <1>0, <1>2, <1>5, <1>6, <1>7 DEF Typed
<1>9. Minted'
  BY <1>0, <1>2, <1>6 DEF Minted, Busy
<1>10. AnswersAreEarned'
  <2>1. ASSUME NEW id \in Ids, NEW sig \in Signatures, NEW x \in answers'[id][sig]
        PROVE  Earns(id, sig, x.token, x.res)
    BY <1>0, <1>3, <1>4, <1>7, <2>1 DEF AnswersAreEarned, Earns
  <2> QED BY <1>2, <2>1 DEF AnswersAreEarned, Earns, Made
<1>11. Earned'
  <2>1. \A g \in Handlers : ThreadEarns(g)'
    BY <1>0, <1>2, <1>6 DEF Earned, ThreadEarns, Earns, Made
  <2>2. ASSUME NEW id \in Ids PROVE SlotEarns(id)'
    <3>1. CASE slots'[id] = slots[id]
      BY <1>0, <1>2, <3>1 DEF Earned, SlotEarns, Earns, Made
    <3>2. CASE slots'[id] # slots[id]
      <4>1. id = k /\ slots'[k].sig = s /\ slots'[k].token = t /\ slots'[k].res = res
        BY <1>5, <3>2
      <4> QED BY <1>2, <1>3, <4>1 DEF SlotEarns, Earns, Made
    <3> QED BY <3>1, <3>2
  <2> QED BY <1>10, <2>1, <2>2 DEF Earned
<1>12. ASSUME NEW id \in Ids \ lapsed' PROVE Remembered(id)'
  <2>0. Remembered(id)
    BY <1>0, <1>2
  <2>1. ASSUME NEW g \in Handlers, Busy(g)', handler'[g].id = id
        PROVE  g # h /\ handler'[g] = handler[g] /\ Busy(g)
    BY <1>6, <2>1 DEF Busy
  <2>2. CASE id = k
    <3>1. slots[k].state = "inflight" /\ slots[k].token = t /\ slots[k].sig = s
      BY <1>1, <1>2, <2>0, <2>2 DEF Remembered
    <3>2. /\ slots'[k].state = "done" /\ slots'[k].sig = s
          /\ slots'[k].token = t /\ slots'[k].res = res
      BY <1>5, <3>1
    <3>3. ASSUME NEW sig \in Signatures, NEW x \in answers'[k][sig]
          PROVE  x.token = t /\ x.res = res
      <4>1. answers[k][sig] = {}
        BY <2>0, <2>2, <3>1 DEF Remembered
      <4> QED BY <1>3, <1>4, <1>7, <3>3, <4>1
    <3>4. ASSUME NEW g \in Handlers, Busy(g)', handler'[g].id = k PROVE FALSE
      <4>1. g # h /\ Busy(g) /\ handler[g].id = k
        BY <2>1, <2>2, <3>4
      <4>2. slots[k].token = handler[g].token
        BY <2>0, <2>2, <4>1 DEF Remembered
      <4> QED BY <1>0, <1>1, <1>2, <3>1, <4>1, <4>2 DEF Minted
    <3>5. \A run \in landed : run.id = k => run.token = t /\ run.sig = s
      BY <2>0, <2>2, <3>1 DEF Remembered
    <3> QED BY <1>2, <2>2, <3>2, <3>3, <3>4, <3>5 DEF Remembered
  <2>3. CASE id # k
    <3>1. slots'[id] = slots[id] /\ answers'[id] = answers[id]
      BY <1>5, <1>7, <2>3
    <3> QED BY <1>2, <2>0, <2>1, <3>1, RememberedKept
  <2> QED BY <2>2, <2>3
<1> QED BY <1>5, <1>8, <1>9, <1>11, <1>12 DEF RequestInv

LEMMA TickIs ==
  ASSUME RequestInv, Tick
  PROVE  /\ slots' \in [Ids -> SlotType]
         /\ \A id \in Ids : /\ slots'[id].state = slots[id].state
                            /\ slots'[id].sig = slots[id].sig
                            /\ slots'[id].token = slots[id].token
                            /\ slots'[id].res = slots[id].res
<1>0. slots \in [Ids -> SlotType] /\ MaxAge \in Nat
  BY CacheAssumption DEF RequestInv, Typed, MaxAge
<1>1. slots' = [id \in Ids |->
        IF slots[id].state = "vacant" \/ slots[id].age = MaxAge THEN slots[id]
        ELSE [slots[id] EXCEPT !.age = @ + 1]]
  BY DEF Tick
<1>2. ASSUME NEW id \in Ids
      PROVE  /\ slots'[id] \in SlotType
             /\ slots'[id].state = slots[id].state /\ slots'[id].sig = slots[id].sig
             /\ slots'[id].token = slots[id].token /\ slots'[id].res = slots[id].res
  <2>1. CASE slots[id].state = "vacant" \/ slots[id].age = MaxAge
    BY <1>0, <1>1, <2>1
  <2>2. CASE ~(slots[id].state = "vacant" \/ slots[id].age = MaxAge)
    <3> DEFINE v == [slots[id] EXCEPT !.age = slots[id].age + 1]
    <3>1. slots'[id] = v
      BY <1>1, <2>2
    <3>2. slots[id] \in Slot /\ slots[id].age + 1 \in 0 .. MaxAge
      BY <1>0, <2>2, SlotFacts DEF SlotType, Vacant
    <3>3. v \in Slot /\ v.state = slots[id].state /\ v.sig = slots[id].sig
          /\ v.token = slots[id].token /\ v.res = slots[id].res
      BY <3>2 DEF Slot
    <3> HIDE DEF v
    <3> QED BY <3>1, <3>3 DEF SlotType
  <2> QED BY <2>1, <2>2
<1> QED BY <1>1, <1>2

LEMMA TickKeepsInv ==
  ASSUME RequestInv, Tick
  PROVE  RequestInv'
<1>0. /\ Typed /\ Ordered /\ Minted /\ Earned /\ AnswersAreEarned
      /\ \A id \in Ids \ lapsed : Remembered(id)
      /\ UNCHANGED <<order, minted, handler, landed, answers, lapsed>>
  BY DEF RequestInv, Earned, Tick
<1>1. Typed' /\ Ordered'
  BY <1>0, TickIs DEF Typed, Ordered
<1>2. Minted' /\ Earned'
  BY <1>0, TickIs DEF Minted, Busy, Earned, ThreadEarns, SlotEarns, Earns, Made, AnswersAreEarned
<1>3. ASSUME NEW id \in Ids \ lapsed' PROVE Remembered(id)'
  BY <1>0, TickIs, RememberedKept DEF Busy
<1> QED BY <1>1, <1>2, <1>3 DEF RequestInv

(* Every method of the cache and every step of a handler keeps the         *)
(* invariant.                                                              *)
LEMMA RequestStep ==
  ASSUME RequestInv, [Next]_vars
  PROVE  RequestInv'
<1>0. /\ Minted /\ handler \in [Handlers -> Thread] /\ slots \in [Ids -> SlotType]
  BY DEF RequestInv, Typed
<1>1. ASSUME NEW h \in Handlers, NEW id \in Ids, NEW sig \in Signatures,
             BeginReplay(h, id, sig) \/ BeginRefused(h, id, sig)
      PROVE  RequestInv'
  <2>1. CASE BeginReplay(h, id, sig)
    <3>1. /\ SlotsEvicted[id].state = "done" /\ SlotsEvicted[id].sig = sig
          /\ Evict /\ UNCHANGED <<minted, handler, landed>>
          /\ Told(id, sig, slots[id].token, slots[id].res)
      BY <2>1 DEF BeginReplay
    <3>2. SlotsEvicted[id] = slots[id]
      BY <3>1, EvictionIs, VacantFacts
    <3> QED BY <3>1, <3>2, EvictKeepsInv
  <2>2. CASE BeginRefused(h, id, sig)
    BY <2>2, EvictKeepsInv DEF BeginRefused
  <2> QED BY <1>1, <2>1, <2>2
<1>2. ASSUME NEW id \in Ids, Status(id) PROVE RequestInv'
  BY <1>2, EvictKeepsInv DEF Status
<1>3. ASSUME NEW h \in Handlers, NEW phase \in Phases, NEW res \in Results, Busy(h),
             handler' = [handler EXCEPT ![h].phase = phase, ![h].res = res],
             UNCHANGED <<slots, order, minted, landed, answers, lapsed>>,
             phase = "finish" => /\ res \in {"err", "reprobed"}
                                 /\ res = "reprobed" => Made(handler[h].sig),
             phase # "finish" => handler[h].phase # "finish"
      PROVE  RequestInv'
  <2> DEFINE v == [handler[h] EXCEPT !.phase = phase, !.res = res]
  <2>1. v \in Thread /\ v.phase = phase /\ v.res = res /\ v.id = handler[h].id
        /\ v.sig = handler[h].sig /\ v.token = handler[h].token
    BY <1>0 DEF Thread
  <2>2. handler' = [handler EXCEPT ![h] = v]
    BY <1>0, <1>3
  <2> HIDE DEF v
  <2>3. v.phase = "finish" => v.res # "none" /\ Earns(v.id, v.sig, v.token, v.res)
    BY <1>3, <2>1 DEF Earns
  <2> QED BY <1>3, <2>1, <2>2, <2>3, HandlerKeepsInv
<1>4. ASSUME NEW h \in Handlers, Probe(h) \/ Admit(h) \/ Fail(h) PROVE RequestInv'
  <2>1. Busy(h) /\ handler[h].phase # "finish" /\ handler[h].res \in Results
        /\ UNCHANGED <<slots, order, minted, landed, answers, lapsed>>
    BY <1>0, <1>4 DEF Probe, Admit, Fail, Busy, Thread
  <2>2. handler[h] \in Thread
    BY <1>0
  <2>3. ASSUME NEW phase \in Phases, handler' = [handler EXCEPT ![h].phase = phase]
        PROVE  handler' = [handler EXCEPT ![h].phase = phase, ![h].res = handler[h].res]
    <3>1. [handler[h] EXCEPT !.phase = phase]
            = [handler[h] EXCEPT !.phase = phase, !.res = handler[h].res]
      BY <2>2 DEF Thread
    <3> QED BY <1>0, <2>3, <3>1
  <2>4. ASSUME NEW phase \in Phases \ {"finish"}, handler' = [handler EXCEPT ![h].phase = phase]
        PROVE  RequestInv'
    BY <1>3, <2>1, <2>3, <2>4
  <2>5. CASE handler' = [handler EXCEPT ![h].phase = "gate"]
    BY <2>4, <2>5 DEF Phases
  <2>6. CASE handler' = [handler EXCEPT ![h].phase = "running"]
    BY <2>4, <2>6 DEF Phases
  <2>7. CASE handler' = [handler EXCEPT ![h].phase = "finish", ![h].res = "err"]
    <3>1. "finish" \in Phases /\ "err" \in Results
      BY DEF Phases, Results
    <3> QED BY <1>3, <2>1, <2>7, <3>1
  <2>8. CASE /\ Made(handler[h].sig)
             /\ handler' = [handler EXCEPT ![h].phase = "finish", ![h].res = "reprobed"]
    <3>1. "finish" \in Phases /\ "reprobed" \in Results
      BY DEF Phases, Results
    <3> QED BY <1>3, <2>1, <2>8, <3>1
  <2> QED BY <1>4, <2>5, <2>6, <2>7, <2>8 DEF Probe, Admit, Fail
<1>5. ASSUME NEW h \in Handlers, Die(h) PROVE RequestInv'
  BY <1>5, IdleFacts, HandlerKeepsInv DEF Die
<1>6. CASE UNCHANGED vars
  BY <1>6 DEF vars, RequestInv, Typed, Ordered, Minted, Busy, Earned, ThreadEarns, SlotEarns,
     Earns, Made, AnswersAreEarned, Remembered
<1> QED BY <1>1, <1>2, <1>4, <1>5, <1>6, FreshKeepsInv, CancelKeepsInv, LandKeepsInv,
        FinishKeepsInv, TickKeepsInv DEF Next

LEMMA RequestInit == Init => RequestInv
<1> SUFFICES ASSUME Init PROVE RequestInv
  OBVIOUS
<1>1. /\ \A id \in Ids : slots[id] = Vacant /\ \A sig \in Signatures : answers[id][sig] = {}
      /\ \A h \in Handlers : handler[h] = Idle
      /\ order = << >> /\ landed = {} /\ lapsed = {} /\ minted = 0
  BY DEF Init
<1>2. Typed
  <2>1. order \in Seq(Ids)
    BY <1>1
  <2> QED BY <1>1, <2>1, VacantFacts, IdleFacts, CacheAssumption DEF Init, Typed
<1>3. Ordered
  BY <1>1, VacantFacts DEF Ordered, Once, Listed
<1>4. Minted /\ Earned
  BY <1>1, VacantFacts, IdleFacts
     DEF Minted, Busy, Earned, ThreadEarns, SlotEarns, AnswersAreEarned
<1>5. \A id \in Ids \ lapsed : Remembered(id)
  BY <1>1, IdleFacts DEF Remembered, Busy
<1> QED BY <1>2, <1>3, <1>4, <1>5 DEF RequestInv

(* An order that lists no id twice is as long as what it lists.            *)
LEMMA OnceCounts ==
  ASSUME NEW o \in Seq(Ids), Once(o)
  PROVE  Cardinality(Listed(o)) = Len(o)
<1>1. /\ Len(o) \in Nat /\ DOMAIN o = 1 .. Len(o) /\ o \in [1 .. Len(o) -> Ids]
  BY LenProperties
<1>2. o \in [1 .. Len(o) -> Listed(o)]
  BY <1>1 DEF Listed
<1>3. o \in Injection(1 .. Len(o), Listed(o))
  BY <1>1, <1>2 DEF Injection, IsInjective, Once
<1>4. o \in Surjection(1 .. Len(o), Listed(o))
  BY <1>1, <1>2 DEF Surjection, Listed
<1>5. ExistsBijection(1 .. Len(o), Listed(o))
  BY <1>3, <1>4 DEF ExistsBijection, Bijection
<1> QED BY <1>1, <1>5, FS_CountingElements

LEMMA AtMostOne ==
  ASSUME NEW S, \A x, y \in S : x = y
  PROVE  Cardinality(S) <= 1
<1>1. CASE S = {}
  BY <1>1, FS_EmptySet
<1>2. CASE S # {}
  <2>1. PICK x : S = {x}
    BY <1>2
  <2> QED BY <2>1, FS_Singleton
<1> QED BY <1>1, <1>2

-----------------------------------------------------------------------------
(* Each reservation is one handler's, a stored outcome has happened, and   *)
(* the slot of an id that was never forgotten tells all that was done and  *)
(* said under it.                                                          *)
THEOREM RequestInvariance == Spec => []RequestInv
<1>1. RequestInv /\ [Next]_vars => RequestInv'
  BY RequestStep
<1> QED BY <1>1, RequestInit, PTL DEF Spec

(* The cache is well typed, and its order lists every slot exactly once,   *)
(* so that eviction can reach each of them (finish_reserved, "M2").        *)
THEOREM TypeCorrect == Spec => []TypeOK
<1>1. ASSUME RequestInv PROVE TypeOK
  <2>1. Typed /\ Ordered
    BY <1>1 DEF RequestInv
  <2>2. OrderListsSlots
    BY <2>1, OnceCounts DEF Typed, Ordered, OrderListsSlots
  <2> QED BY <2>1, <2>2 DEF TypeOK, Typed, SlotType
<1> QED BY <1>1, RequestInvariance, PTL

(* RequestCache: while an id is remembered its command takes effect at     *)
(* most once and all its callers are told the same outcome, with any       *)
(* number of retries, hung or dead handlers and late completions.          *)
THEOREM ExactlyOnce == Spec => []ExactlyOnceWhileRemembered
<1>1. ASSUME RequestInv PROVE ExactlyOnceWhileRemembered
  <2> SUFFICES ASSUME NEW id \in Ids, id \notin lapsed
               PROVE  /\ Cardinality({run \in landed : run.id = id}) <= 1
                      /\ Cardinality(UNION {answers[id][sig] : sig \in Signatures}) <= 1
    BY DEF ExactlyOnceWhileRemembered
  <2>1. Remembered(id) /\ Typed
    BY <1>1 DEF RequestInv
  <2>2. \A x, y \in {run \in landed : run.id = id} : x = y
    <3> SUFFICES ASSUME NEW x \in landed, NEW y \in landed, x.id = id, y.id = id
                 PROVE  x = y
      OBVIOUS
    <3>1. x.token = y.token /\ x.sig = y.sig
      BY <2>1 DEF Remembered
    <3>2. /\ x \in [id : Ids, sig : Signatures, token : Tokens]
          /\ y \in [id : Ids, sig : Signatures, token : Tokens]
      BY <2>1 DEF Typed
    <3> QED BY <3>1, <3>2
  <2>3. \A x, y \in UNION {answers[id][sig] : sig \in Signatures} : x = y
    <3> SUFFICES ASSUME NEW s \in Signatures, NEW r \in Signatures,
                        NEW x \in answers[id][s], NEW y \in answers[id][r]
                 PROVE  x = y
      OBVIOUS
    <3>1. x.token = y.token /\ x.res = y.res
      BY <2>1 DEF Remembered
    <3>2. x \in Outcome /\ y \in Outcome
      BY <2>1 DEF Typed
    <3> QED BY <3>1, <3>2 DEF Outcome
  <2> QED BY <2>2, <2>3, AtMostOne
<1> QED BY <1>1, RequestInvariance, PTL

(* begin, finish_reserved and status: an outcome is only ever told to a    *)
(* caller of the command that earned it.                                   *)
THEOREM AnswersEarned == Spec => []AnswersAreEarned
<1>1. RequestInv => AnswersAreEarned
  BY DEF RequestInv, Earned
<1> QED BY <1>1, RequestInvariance, PTL

(* finish_reserved, cancel_reserved, evict_expired and the capacity loop:  *)
(* until it is reaped a reservation is ended by its own handler only, and  *)
(* a settled outcome is never written over.                                *)
THEOREM SlotsOwned == Spec => SlotsAreOwned
<1> DEFINE Owned == \A id \in Ids : ReservationGuarded(id) /\ OutcomeFixed(id)
<1>1. ASSUME RequestInv, [Next]_vars PROVE [Owned]_vars
  <2>0. /\ \A id \in Ids : slots[id] \in SlotType
        /\ handler \in [Handlers -> Thread]
    BY <1>1 DEF RequestInv, Typed
  <2>1. ASSUME NEW id \in Ids, slots[id].state = "inflight", slots[id].age < Reap
        PROVE  SlotsEvicted[id] = slots[id]
    <3>1. slots[id].age \in Nat /\ Reap \in Nat
      BY <2>0, SlotFacts, CacheAssumption DEF MaxAge
    <3> QED BY <1>1, <2>1, <3>1, EvictionIs DEF Expired
  <2>2. ASSUME NEW id \in Ids, slots'[id] = SlotsEvicted[id] \/ slots'[id] = slots[id]
        PROVE  ReservationGuarded(id) /\ OutcomeFixed(id)
    BY <1>1, <2>1, <2>2, EvictionIs, VacantFacts DEF ReservationGuarded, OutcomeFixed
  <2>3. CASE Evict
    BY <2>2, <2>3 DEF Evict
  <2>4. CASE slots' = slots
    BY <2>2, <2>4
  <2>5. ASSUME NEW h \in Handlers, NEW k \in Ids, NEW sig \in Signatures, BeginFresh(h, k, sig)
        PROVE  Owned
    <3>1. SlotsEvicted[k].state = "vacant"
      BY <2>5 DEF BeginFresh
    <3>2. ASSUME NEW id \in Ids PROVE ReservationGuarded(id) /\ OutcomeFixed(id)
      <4>1. CASE id = k
        <5>1. slots'[k] = [state |-> "inflight", age |-> 0, sig |-> sig, token |-> minted + 1,
                           res |-> "none"]
          BY <1>1, <2>5, FreshIs
        <5>2. slots'[k].state = "inflight"
          BY <5>1
        <5> QED BY <2>1, <3>1, <4>1, <5>2, VacantFacts DEF ReservationGuarded, OutcomeFixed
      <4>2. CASE id # k
        <5>1. \/ slots'[id] = SlotsEvicted[id]
              \/ slots'[id] = Vacant /\ SlotsEvicted[id].state # "inflight"
          BY <1>1, <2>5, <4>2, FreshIs
        <5>2. CASE slots'[id] = Vacant /\ SlotsEvicted[id].state # "inflight"
          BY <2>1, <5>2, VacantFacts DEF ReservationGuarded, OutcomeFixed
        <5> QED BY <2>2, <5>1, <5>2
      <4> QED BY <4>1, <4>2
    <3> QED BY <3>2
  <2>6. ASSUME NEW h \in Handlers, Cancel(h) PROVE Owned
    <3>1. /\ handler[h].id \in Ids /\ Release(handler[h].id, handler[h].token)
          /\ handler'[h].phase = "idle"
      BY <1>1, <2>0, <2>6, IdleFacts DEF Cancel, RequestInv, Minted, Busy
    <3>2. ASSUME NEW id \in Ids PROVE ReservationGuarded(id) /\ OutcomeFixed(id)
      <4>1. CASE slots'[id] = slots[id]
        BY <2>2, <4>1
      <4>2. CASE slots'[id] # slots[id]
        <5>1. slots[id].state = "inflight" /\ slots[id].token = handler[h].token
          BY <1>1, <3>1, <4>2, ReleaseIs
        <5> QED BY <3>1, <5>1 DEF ReservationGuarded, OutcomeFixed
      <4> QED BY <4>1, <4>2
    <3> QED BY <3>2
  <2>7. ASSUME NEW h \in Handlers, Finish(h) PROVE Owned
    <3>1. handler'[h].phase = "idle"
      BY <2>0, <2>7, IdleFacts DEF Finish
    <3>2. ASSUME NEW id \in Ids PROVE ReservationGuarded(id) /\ OutcomeFixed(id)
      <4>1. CASE slots'[id] = slots[id]
        BY <2>2, <4>1
      <4>2. CASE slots'[id] # slots[id]
        <5>1. /\ slots[id].state \in {"vacant", "inflight"}
              /\ slots[id].state = "inflight" => slots[id].token = handler[h].token
          BY <1>1, <2>7, <4>2, SettledIs
        <5> QED BY <3>1, <5>1 DEF ReservationGuarded, OutcomeFixed
      <4> QED BY <4>1, <4>2
    <3> QED BY <3>2
  <2>8. CASE Tick
    BY <1>1, <2>8, TickIs DEF ReservationGuarded, OutcomeFixed
  <2>9. CASE UNCHANGED vars
    BY <2>4, <2>9 DEF vars
  <2> QED BY <1>1, <2>3, <2>4, <2>5, <2>6, <2>7, <2>8, <2>9
          DEF Next, BeginReplay, BeginRefused, Probe, Admit, Land, Fail, Die, Status
<1> QED BY <1>1, RequestInvariance, PTL DEF Spec, SlotsAreOwned
=============================================================================
