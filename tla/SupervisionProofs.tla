-------------------------- MODULE SupervisionProofs --------------------------
(***************************************************************************)
(* Supervision for every number of sessions, subagents and tasks, every    *)
(* cap and every set of waiters: what it knows and logs is well-formed and *)
(* bounded, a session waits only for what is outstanding, and a caller     *)
(* that waits is told what happened.                                       *)
(***************************************************************************)
EXTENDS Supervision, FiniteSetTheorems, SequenceTheorems, WellFoundedInduction, TLAPS

(* A well-formed entry.  The subagents that run are finitely many, whether *)
(* or not there are finitely many to start.                                *)
IsEntry(e) ==
  /\ e \in Entries
  /\ e.overdue \subseteq e.running /\ IsFiniteSet(e.running)
  /\ e.running \cap ToSet(e.done) = {}
  /\ IsInjective(e.done)

Short(e) == Len(e.done) <= DoneCap

Earned(e) == e.status = "waiting" => e.stopped /\ ~Idle(e)

(* The inductive invariant, part by part; an unknown session has the fresh *)
(* entry.                                                                  *)
Kept ==
  /\ sessions \in [Sessions -> Entries \cup {Nil}]
  /\ \A s \in Sessions : IsEntry(Entry(s)) /\ Short(Entry(s)) /\ Earned(Entry(s))

Recent ==
  /\ recency \in Seq(Sessions) /\ IsInjective(recency) /\ Len(recency) <= SessionCap
  /\ {s \in Sessions : sessions[s] # Nil} = ToSet(recency)

Logged == log \in Seq(Sessions \X Statuses) /\ Len(log) <= LogCap

Wait == [on : Sessions \cup {Nil}, since : 0 .. LogCap + 1, entered : SUBSET Targets,
         held : SUBSET Targets, reply : Statuses \cup {"none", "timeout"}]

Polled == waiter \in [Waiters -> Wait]

(* The waiter r of session r.on, at a log q and a status st of its         *)
(* session: what the session entered is still in the part of the log that  *)
(* the waiter has to look through, unless that is more than the log holds, *)
(* and what it would find there, or in the status, the session has been.   *)
Window(r, q) == {i \in DOMAIN q : i + r.since > Len(q)}

Watches(r, q, st) ==
  /\ \A x \in r.entered : r.since > LogCap \/ \E i \in Window(r, q) : q[i] = <<r.on, x>>
  /\ \A i \in Window(r, q) : q[i][1] = r.on /\ q[i][2] \in Targets => q[i][2] \in r.held
  /\ st \in Targets => st \in r.held

Watching == \A w \in Waiters : waiter[w].on # Nil => Watches(waiter[w], log, Status(waiter[w].on))

SupervisionInv == Kept /\ Recent /\ Logged /\ Polled /\ Watching

-----------------------------------------------------------------------------
(* Numbers, and sequences that list something once.                        *)

LEMMA LeastNatural ==
  ASSUME NEW T \in SUBSET Nat, T # {}
  PROVE  \E x \in T : \A y \in T : x <= y
<1>1. PICK x \in T : \A y \in T : <<y, x>> \notin OpToRel(<,Nat)
  BY NatLessThanWellFounded, WFMin, Zenon
<1>2. \A y \in T : ~(y < x)
  BY <1>1 DEF OpToRel
<1> QED BY <1>2

LEMMA NewestIs ==
  ASSUME NEW S, NEW q \in Seq(S), NEW n \in Nat
  PROVE  /\ Newest(q, n) \in Seq(S)
         /\ Len(Newest(q, n)) = IF Len(q) > n THEN n ELSE Len(q)
         /\ \A i \in 1 .. Len(Newest(q, n)) : Newest(q, n)[i] = q[i + (Len(q) - Len(Newest(q, n)))]
<1> DEFINE m == IF Len(q) > n THEN Len(q) - n + 1 ELSE 1
<1>1. Len(q) \in Nat /\ m \in 1 .. Len(q) + 1
  OBVIOUS
<1>2. Newest(q, n) = SubSeq(q, m, Len(q))
  BY DEF Newest
<1>3. m \in Int /\ Len(q) \in Int /\ \A i \in m .. Len(q) : q[i] \in S
  BY <1>1
<1>4. m = (IF Len(q) > n THEN Len(q) - n + 1 ELSE 1)
  OBVIOUS
<1> HIDE DEF m
<1>5. /\ Newest(q, n) \in Seq(S)
      /\ Len(Newest(q, n)) = IF m <= Len(q) THEN Len(q) - m + 1 ELSE 0
      /\ \A i \in 1 .. Len(q) - m + 1 : Newest(q, n)[i] = q[m + i - 1]
  BY <1>2, <1>3, SubSeqProperties
<1>6. Len(Newest(q, n)) = IF Len(q) > n THEN n ELSE Len(q)
  <2>1. Len(Newest(q, n)) = IF m <= Len(q) THEN Len(q) - m + 1 ELSE 0
    BY <1>5
  <2>2. CASE Len(q) > n
    BY <1>1, <1>4, <2>1, <2>2
  <2>3. CASE ~(Len(q) > n)
    <3>1. m = 1
      BY <1>4, <2>3
    <3> QED BY <1>1, <2>1, <2>3, <3>1
  <2> QED BY <2>2, <2>3
<1>7. ASSUME NEW i \in 1 .. Len(Newest(q, n))
      PROVE  Newest(q, n)[i] = q[i + (Len(q) - Len(Newest(q, n)))]
  <2>1. i \in 1 .. Len(q) - m + 1 /\ m + i - 1 = i + (Len(q) - Len(Newest(q, n)))
    BY <1>1, <1>4, <1>6, <1>7
  <2> QED BY <1>5, <2>1
<1> QED BY <1>5, <1>6, <1>7

LEMMA NewestLists ==
  ASSUME NEW S, NEW q \in Seq(S), NEW n \in Nat, IsInjective(q)
  PROVE  /\ ToSet(Newest(q, n)) \subseteq ToSet(q)
         /\ IsInjective(Newest(q, n))
<1> DEFINE r == Newest(q, n)
           d == Len(q) - Len(r)
<1>1. /\ r \in Seq(S) /\ Len(r) \in Nat /\ Len(q) \in Nat /\ d \in Nat
      /\ DOMAIN r = 1 .. Len(r) /\ DOMAIN q = 1 .. Len(q)
      /\ \A i \in 1 .. Len(r) : r[i] = q[i + d]
  BY NewestIs
<1> HIDE DEF r
<1>2. \A i \in DOMAIN r : i + d \in DOMAIN q /\ r[i] = q[i + d]
  BY <1>1
<1>3. ToSet(r) \subseteq ToSet(q)
  BY <1>2 DEF ToSet
<1>4. ASSUME NEW i \in DOMAIN r, NEW j \in DOMAIN r, r[i] = r[j] PROVE i = j
  BY <1>1, <1>2, <1>4 DEF IsInjective
<1> QED BY <1>3, <1>4 DEF r, IsInjective

LEMMA AppendLists ==
  ASSUME NEW S, NEW q \in Seq(S), NEW x \in S, IsInjective(q), x \notin ToSet(q)
  PROVE  /\ Append(q, x) \in Seq(S)
         /\ ToSet(Append(q, x)) = ToSet(q) \cup {x}
         /\ IsInjective(Append(q, x))
<1> DEFINE r == Append(q, x)
<1>1. /\ r \in Seq(S) /\ DOMAIN r = 1 .. Len(q) + 1 /\ DOMAIN q = 1 .. Len(q) /\ Len(q) \in Nat
      /\ r[Len(q) + 1] = x /\ \A i \in 1 .. Len(q) : r[i] = q[i]
  BY AppendProperties, LenProperties
<1> HIDE DEF r
<1>2. ToSet(r) = ToSet(q) \cup {x}
  BY <1>1 DEF ToSet
<1>3. \A i \in DOMAIN q : q[i] # x
  BY DEF ToSet
<1>4. ASSUME NEW i \in DOMAIN r, NEW j \in DOMAIN r, r[i] = r[j] PROVE i = j
  BY <1>1, <1>3, <1>4 DEF IsInjective
<1> QED BY <1>1, <1>2, <1>4 DEF r, IsInjective

LEMMA RemoveFirstIs ==
  ASSUME NEW S, NEW q \in Seq(S), NEW x, IsInjective(q)
  PROVE  /\ RemoveFirst(q, x) \in Seq(S)
         /\ ToSet(RemoveFirst(q, x)) = ToSet(q) \ {x}
         /\ IsInjective(RemoveFirst(q, x))
<1>0. Len(q) \in Nat /\ DOMAIN q = 1 .. Len(q)
  OBVIOUS
<1>1. CASE \A i \in 1 .. Len(q) : q[i] # x
  <2>1. RemoveFirst(q, x) = q
    BY <1>1, Zenon DEF RemoveFirst
  <2>2. x \notin ToSet(q)
    BY <1>0, <1>1 DEF ToSet
  <2> QED BY <2>1, <2>2
<1>2. ASSUME NEW k \in 1 .. Len(q), q[k] = x
      PROVE  /\ RemoveFirst(q, x) \in Seq(S)
             /\ ToSet(RemoveFirst(q, x)) = ToSet(q) \ {x}
             /\ IsInjective(RemoveFirst(q, x))
  <2> DEFINE P == {i \in 1 .. Len(q) : q[i] = x}
             r == RemoveAt(q, k)
  <2>1. P = {k}
    BY <1>0, <1>2 DEF IsInjective
  <2>2. SelectInSeq(q, LAMBDA v : v = x) = Min(P)
    BY <1>2 DEF SelectInSeq
  <2>3. Min({k}) = k
    BY DEF Min
  <2>4. RemoveFirst(q, x) = r
    BY <1>2, <2>1, <2>2, <2>3, Zenon DEF RemoveFirst
  <2>5. /\ r \in Seq(S) /\ DOMAIN r = 1 .. Len(q) - 1
        /\ \A i \in 1 .. Len(q) - 1 : r[i] = IF i < k THEN q[i] ELSE q[i + 1]
    <3> DEFINE a == SubSeq(q, 1, k - 1)
               b == SubSeq(q, k + 1, Len(q))
    <3>0. /\ {1, k - 1, k + 1, Len(q)} \subseteq Int
          /\ \A i \in 1 .. k - 1 : q[i] \in S
          /\ \A i \in k + 1 .. Len(q) : q[i] \in S
      BY <1>0
    <3>1. a \in Seq(S) /\ Len(a) = k - 1 /\ \A i \in 1 .. k - 1 : a[i] = q[i]
      <4>1. /\ a \in Seq(S)
            /\ Len(a) = IF 1 <= k - 1 THEN k - 1 - 1 + 1 ELSE 0
            /\ \A i \in 1 .. k - 1 - 1 + 1 : a[i] = q[1 + i - 1]
        BY <3>0, SubSeqProperties
      <4> HIDE DEF a
      <4> QED BY <1>0, <4>1
    <3>2. b \in Seq(S) /\ Len(b) = Len(q) - k /\ \A i \in 1 .. Len(q) - k : b[i] = q[k + i]
      <4>1. /\ b \in Seq(S)
            /\ Len(b) = IF k + 1 <= Len(q) THEN Len(q) - (k + 1) + 1 ELSE 0
            /\ \A i \in 1 .. Len(q) - (k + 1) + 1 : b[i] = q[k + 1 + i - 1]
        BY <3>0, SubSeqProperties
      <4> HIDE DEF b
      <4>2. Len(q) - (k + 1) + 1 = Len(q) - k
        BY <1>0
      <4>3. Len(b) = Len(q) - k
        <5>1. PICK n \in Nat : n = Len(q)
          BY <1>0
        <5>2. PICK m : m = Len(b)
          OBVIOUS
        <5>3. k \in 1 .. n /\ m = IF k + 1 <= n THEN n - (k + 1) + 1 ELSE 0
          BY <1>2, <4>1, <5>1, <5>2
        <5>4. m = n - k
          BY <5>3
        <5> QED BY <5>1, <5>2, <5>4
      <4>4. ASSUME NEW i \in 1 .. Len(q) - k PROVE b[i] = q[k + i]
        <5>1. k + 1 + i - 1 = k + i
          BY <1>0
        <5> QED BY <4>1, <4>2, <5>1
      <4> QED BY <4>1, <4>3, <4>4
    <3>3. r = a \o b
      BY DEF RemoveAt
    <3> HIDE DEF a, b, r
    <3>4. /\ r \in Seq(S) /\ Len(r) = Len(q) - 1
          /\ \A i \in 1 .. Len(r) : r[i] = IF i <= Len(a) THEN a[i] ELSE b[i - Len(a)]
      <4>1. /\ r \in Seq(S) /\ Len(r) = Len(a) + Len(b)
            /\ \A i \in 1 .. Len(a) + Len(b) : r[i] = IF i <= Len(a) THEN a[i] ELSE b[i - Len(a)]
        BY <3>1, <3>2, <3>3, ConcatProperties
      <4>2. Len(a) + Len(b) = Len(q) - 1
        BY <1>0, <3>1, <3>2
      <4> QED BY <4>1, <4>2
    <3>5. DOMAIN r = 1 .. Len(q) - 1
      BY <3>4
    <3>6. ASSUME NEW i \in 1 .. Len(q) - 1 PROVE r[i] = IF i < k THEN q[i] ELSE q[i + 1]
      <4>1. CASE i < k
        BY <1>0, <3>1, <3>4, <4>1
      <4>2. CASE ~(i < k)
        <5>1. r[i] = b[i - (k - 1)] /\ i - (k - 1) \in 1 .. Len(q) - k
          BY <1>0, <3>1, <3>4, <4>2
        <5>2. b[i - (k - 1)] = q[k + (i - (k - 1))] /\ k + (i - (k - 1)) = i + 1
          BY <1>0, <3>2, <5>1
        <5> QED BY <4>2, <5>1, <5>2
      <4> QED BY <4>1, <4>2
    <3> QED BY <3>4, <3>5, <3>6
  <2> HIDE DEF r
  <2>6. ToSet(r) = ToSet(q) \ {x}
    <3>1. ASSUME NEW i \in DOMAIN r PROVE r[i] \in ToSet(q) \ {x}
      <4>1. CASE i < k
        <5>1. r[i] = q[i] /\ i \in DOMAIN q /\ i # k
          BY <1>0, <2>5, <3>1, <4>1
        <5> QED BY <1>0, <1>2, <5>1 DEF ToSet, IsInjective
      <4>2. CASE ~(i < k)
        <5>1. r[i] = q[i + 1] /\ i + 1 \in DOMAIN q /\ i + 1 # k
          BY <1>0, <2>5, <3>1, <4>2
        <5> QED BY <1>0, <1>2, <5>1 DEF ToSet, IsInjective
      <4> QED BY <4>1, <4>2
    <3>2. ASSUME NEW j \in DOMAIN q, q[j] # x PROVE q[j] \in ToSet(r)
      <4>1. CASE j < k
        <5>1. j \in DOMAIN r /\ r[j] = q[j]
          BY <1>0, <2>5, <4>1
        <5> QED BY <5>1 DEF ToSet
      <4>2. CASE k < j
        <5>1. j - 1 \in DOMAIN r /\ r[j - 1] = q[j]
          BY <1>0, <2>5, <4>2
        <5> QED BY <5>1 DEF ToSet
      <4> QED BY <1>0, <1>2, <3>2, <4>1, <4>2
    <3> QED BY <3>1, <3>2 DEF ToSet
  <2>7. ASSUME NEW i \in DOMAIN r, NEW j \in DOMAIN r, r[i] = r[j] PROVE i = j
    <3> DEFINE f(n) == IF n < k THEN n ELSE n + 1
    <3>1. \A n \in DOMAIN r : f(n) \in DOMAIN q /\ r[n] = q[f(n)]
      BY <1>0, <2>5
    <3>2. f(i) = f(j)
      <4> HIDE DEF f
      <4> QED BY <2>7, <3>1 DEF IsInjective
    <3> QED BY <1>0, <2>5, <3>2
  <2> QED BY <2>4, <2>5, <2>6, <2>7 DEF IsInjective
<1> QED BY <1>1, <1>2

(* What was listed anywhere is listed last. *)
LEMMA MovedLast ==
  ASSUME NEW S, NEW q \in Seq(S), NEW x \in S, IsInjective(q)
  PROVE  LET r == Append(RemoveFirst(q, x), x) IN
           r \in Seq(S) /\ ToSet(r) = ToSet(q) \cup {x} /\ IsInjective(r)
<1> DEFINE p == RemoveFirst(q, x)
<1>1. p \in Seq(S) /\ ToSet(p) = ToSet(q) \ {x} /\ IsInjective(p)
  BY RemoveFirstIs
<1> HIDE DEF p
<1>2. /\ Append(p, x) \in Seq(S)
      /\ ToSet(Append(p, x)) = ToSet(p) \cup {x}
      /\ IsInjective(Append(p, x))
  BY <1>1, AppendLists
<1> QED BY <1>1, <1>2 DEF p

LEMMA SetToSeqIs ==
  ASSUME NEW K, IsFiniteSet(K)
  PROVE  SetToSeq(K) \in Seq(K) /\ ToSet(SetToSeq(K)) = K /\ IsInjective(SetToSeq(K))
<1> DEFINE n == Cardinality(K)
           Lists(f) == f \in [1 .. n -> K] /\ IsInjective(f)
<1>1. n \in Nat
  BY FS_CardinalityType
<1>2. PICK g \in Bijection(1 .. n, K) : TRUE
  BY FS_CardinalityType DEF ExistsBijection
<1>3. Lists(g)
  BY <1>2 DEF Bijection, Injection, IsInjective
<1> DEFINE f == SetToSeq(K)
<1>4. f \in [1 .. n -> K] /\ IsInjective(f)
  <2>1. f = CHOOSE h \in [1 .. n -> K] : IsInjective(h)
    BY DEF SetToSeq
  <2> QED BY <1>3, <2>1, Zenon
<1> HIDE DEF f
<1>5. f \in Seq(K)
  BY <1>1, <1>4
<1>6. ToSet(f) = K
  <2>1. f \in Injection(1 .. n, K)
    BY <1>4 DEF Injection, IsInjective
  <2>2. Cardinality(1 .. n) = n
    BY <1>1, FS_Interval
  <2>3. f \in Surjection(1 .. n, K)
    BY <1>1, <2>1, <2>2, FS_Injection
  <2> QED BY <1>4, <2>3 DEF Surjection, ToSet
<1> QED BY <1>4, <1>5, <1>6 DEF f

LEMMA JoinLists ==
  ASSUME NEW S, NEW p \in Seq(S), NEW q \in Seq(S), IsInjective(p), IsInjective(q),
         ToSet(p) \cap ToSet(q) = {}
  PROVE  p \o q \in Seq(S) /\ ToSet(p \o q) = ToSet(p) \cup ToSet(q) /\ IsInjective(p \o q)
<1> DEFINE r == p \o q
<1>1. /\ r \in Seq(S) /\ Len(r) = Len(p) + Len(q) /\ Len(p) \in Nat /\ Len(q) \in Nat
      /\ \A i \in 1 .. Len(p) + Len(q) : r[i] = IF i <= Len(p) THEN p[i] ELSE q[i - Len(p)]
  BY ConcatProperties
<1> HIDE DEF r
<1>2. /\ DOMAIN r = 1 .. Len(p) + Len(q) /\ DOMAIN p = 1 .. Len(p) /\ DOMAIN q = 1 .. Len(q)
      /\ \A i \in DOMAIN p : i \in DOMAIN r /\ r[i] = p[i]
      /\ \A i \in DOMAIN q : i + Len(p) \in DOMAIN r /\ r[i + Len(p)] = q[i]
  <2>1. DOMAIN r = 1 .. Len(p) + Len(q)
    BY <1>1
  <2>2. ASSUME NEW i \in DOMAIN q PROVE r[i + Len(p)] = q[i]
    <3>1. /\ i \in 1 .. Len(q) /\ i + Len(p) \in 1 .. Len(p) + Len(q)
          /\ ~(i + Len(p) <= Len(p)) /\ (i + Len(p)) - Len(p) = i
      BY <1>1
    <3> QED BY <1>1, <3>1
  <2> QED BY <1>1, <2>1, <2>2
<1>3. ASSUME NEW i \in DOMAIN r
      PROVE  \/ i \in DOMAIN p /\ r[i] = p[i]
             \/ i - Len(p) \in DOMAIN q /\ r[i] = q[i - Len(p)] /\ i - Len(p) + Len(p) = i
  BY <1>1, <1>2
<1>4. ToSet(r) = ToSet(p) \cup ToSet(q)
  BY <1>2, <1>3 DEF ToSet
<1>5. ASSUME NEW i \in DOMAIN r, NEW j \in DOMAIN r, r[i] = r[j] PROVE i = j
  <2>1. \A m \in DOMAIN p, n \in DOMAIN q : p[m] # q[n]
    BY DEF ToSet
  <2>2. \A m, n \in DOMAIN p : p[m] = p[n] => m = n
    BY DEF IsInjective
  <2>3. \A m, n \in DOMAIN q : q[m] = q[n] => m = n
    BY DEF IsInjective
  <2>4. CASE i \in DOMAIN p /\ r[i] = p[i]
    BY <1>3, <1>5, <2>1, <2>2, <2>4
  <2>5. CASE i - Len(p) \in DOMAIN q /\ r[i] = q[i - Len(p)]
    <3>1. j - Len(p) \in DOMAIN q /\ r[j] = q[j - Len(p)]
      BY <1>3, <1>5, <2>1, <2>5
    <3>2. i - Len(p) = j - Len(p)
      BY <1>5, <2>3, <2>5, <3>1
    <3> QED BY <1>1, <1>2, <3>2
  <2> QED BY <1>3, <2>4, <2>5
<1> QED BY <1>1, <1>4, <1>5 DEF r, IsInjective

-----------------------------------------------------------------------------
(* The operators on an entry. *)

LEMMA FreshEntry == IsEntry(Fresh) /\ Short(Fresh) /\ Earned(Fresh)
<1>1. /\ Fresh \in Entries
      /\ Fresh.overdue = {} /\ Fresh.running = {} /\ Fresh.done = << >> /\ Fresh.status = "unknown"
  BY SupervisionAssumption DEF Fresh, Entries, Statuses
<1>2. ToSet(<< >>) = {} /\ IsInjective(<< >>) /\ Len(<< >>) = 0
  BY DEF ToSet, IsInjective
<1>3. IsEntry(Fresh)
  BY <1>1, <1>2, FS_EmptySet DEF IsEntry
<1>4. Short(Fresh)
  BY <1>1, <1>2, SupervisionAssumption DEF Short
<1> QED BY <1>1, <1>3, <1>4 DEF Earned

(* What the arms leave alone does not make an entry ill-formed. *)
LEMMA SameChildren ==
  ASSUME NEW e, IsEntry(e), NEW f \in Entries,
         f.running = e.running, f.overdue = e.overdue, f.done = e.done
  PROVE  IsEntry(f)
BY DEF IsEntry

LEMMA FinishedFacts ==
  ASSUME NEW e, IsEntry(e), NEW kids, kids \subseteq e.running
  PROVE  /\ IsEntry(Finished(e, kids))
         /\ Finished(e, kids).status = e.status
         /\ Finished(e, kids).running = e.running \ kids
         /\ Finished(e, kids).tasks = e.tasks
         /\ Finished(e, kids).stopped = e.stopped
<1> DEFINE k == SetToSeq(kids)
           d == e.done \o k
<1>1. Finished(e, kids) = [e EXCEPT !.running = @ \ kids, !.overdue = @ \ kids, !.done = d]
  BY DEF Finished
<1>2. e.done \in Seq(Agents) /\ e.running \subseteq Agents /\ IsFiniteSet(e.running)
  BY DEF IsEntry, Entries
<1>3. IsFiniteSet(kids) /\ IsFiniteSet(e.running \ kids)
  BY <1>2, FS_Subset, FS_Difference
<1>4. k \in Seq(kids) /\ ToSet(k) = kids /\ IsInjective(k)
  BY <1>3, SetToSeqIs
<1> HIDE DEF k
<1>5. k \in Seq(Agents)
  BY <1>2, <1>4
<1>6. d \in Seq(Agents) /\ ToSet(d) = ToSet(e.done) \cup kids /\ IsInjective(d)
  <2>1. IsInjective(e.done) /\ ToSet(e.done) \cap ToSet(k) = {}
    BY <1>4 DEF IsEntry
  <2> QED BY <1>2, <1>4, <1>5, <2>1, JoinLists
<1> HIDE DEF d
<1> DEFINE f == [e EXCEPT !.running = @ \ kids, !.overdue = @ \ kids, !.done = d]
<1>7. /\ f \in Entries /\ f.running = e.running \ kids /\ f.overdue = e.overdue \ kids /\ f.done = d
      /\ f.status = e.status /\ f.tasks = e.tasks /\ f.stopped = e.stopped
  BY <1>6 DEF IsEntry, Entries
<1> HIDE DEF f
<1>8. IsEntry(f)
  BY <1>3, <1>6, <1>7 DEF IsEntry
<1> QED BY <1>1, <1>7, <1>8 DEF f

(* To finish nobody adds nobody. *)
LEMMA FinishedNone ==
  ASSUME NEW e, IsEntry(e)
  PROVE  Len(Finished(e, {}).done) = Len(e.done)
<1> DEFINE k == SetToSeq({})
<1>1. k \in Seq({}) /\ ToSet(k) = {}
  BY SetToSeqIs, FS_EmptySet
<1>2. e.done \in Seq(Agents) /\ e \in Entries
  BY DEF IsEntry, Entries
<1>3. Finished(e, {}).done = e.done \o k
  BY <1>2 DEF Finished, Entries
<1> HIDE DEF k
<1>4. k = << >>
  BY <1>1 DEF ToSet
<1>5. e.done \o << >> = e.done
  BY <1>2, ConcatEmptySeq
<1> QED BY <1>3, <1>4, <1>5

LEMMA StoppedFacts ==
  ASSUME NEW e, IsEntry(e), NEW a \in Agents
  PROVE  /\ IsEntry(Stopped(e, a))
         /\ Stopped(e, a).status = e.status
         /\ Stopped(e, a).stopped = e.stopped
<1> DEFINE d == Append(RemoveFirst(e.done, a), a)
<1>1. Stopped(e, a) = [e EXCEPT !.running = @ \ {a}, !.overdue = @ \ {a}, !.done = d]
  BY DEF Stopped
<1>2. e.done \in Seq(Agents) /\ IsInjective(e.done)
  BY DEF IsEntry, Entries
<1>3. d \in Seq(Agents) /\ ToSet(d) = ToSet(e.done) \cup {a} /\ IsInjective(d)
  BY <1>2, MovedLast
<1>4. IsFiniteSet(e.running \ {a})
  BY FS_Difference DEF IsEntry
<1> HIDE DEF d
<1> DEFINE f == [e EXCEPT !.running = @ \ {a}, !.overdue = @ \ {a}, !.done = d]
<1>5. /\ f \in Entries /\ f.running = e.running \ {a} /\ f.overdue = e.overdue \ {a} /\ f.done = d
      /\ f.status = e.status /\ f.stopped = e.stopped
  BY <1>3 DEF IsEntry, Entries
<1> HIDE DEF f
<1>6. IsEntry(f)
  BY <1>3, <1>4, <1>5 DEF IsEntry
<1> QED BY <1>1, <1>5, <1>6 DEF f

LEMMA PrunedFacts ==
  ASSUME NEW e, IsEntry(e)
  PROVE  /\ IsEntry(Pruned(e)) /\ Short(Pruned(e))
         /\ Pruned(e).status = e.status
         /\ Pruned(e).running = e.running
         /\ Pruned(e).tasks = e.tasks
         /\ Pruned(e).stopped = e.stopped
<1> DEFINE d == Newest(e.done, DoneCap)
<1>1. Pruned(e) = [e EXCEPT !.done = d]
  BY DEF Pruned
<1>2. e.done \in Seq(Agents) /\ IsInjective(e.done) /\ DoneCap \in Nat
  BY SupervisionAssumption DEF IsEntry, Entries
<1>3. d \in Seq(Agents) /\ ToSet(d) \subseteq ToSet(e.done) /\ IsInjective(d)
  BY <1>2, NewestIs, NewestLists
<1>4. Len(d) <= DoneCap
  <2>1. Len(d) = IF Len(e.done) > DoneCap THEN DoneCap ELSE Len(e.done)
    BY <1>2, NewestIs
  <2>2. Len(e.done) \in Nat
    BY <1>2
  <2> HIDE DEF d
  <2> QED BY <1>2, <2>1, <2>2
<1> HIDE DEF d
<1> DEFINE f == [e EXCEPT !.done = d]
<1>5. /\ f \in Entries /\ f.running = e.running /\ f.overdue = e.overdue /\ f.done = d
      /\ f.status = e.status /\ f.tasks = e.tasks /\ f.stopped = e.stopped
  BY <1>3 DEF IsEntry, Entries
<1> HIDE DEF f
<1>6. IsEntry(f) /\ Short(f)
  BY <1>3, <1>4, <1>5 DEF IsEntry, Short
<1> QED BY <1>1, <1>5, <1>6 DEF f

(* A session that may be waiting for nothing is put right. *)
LEMMA RecomputedFacts ==
  ASSUME NEW e, IsEntry(e), e.status = "waiting" => e.stopped
  PROVE  /\ IsEntry(Recomputed(e))
         /\ Earned(Recomputed(e))
         /\ Short(e) => Short(Recomputed(e))
<1> DEFINE f == Recomputed(e)
<1>1. /\ f \in Entries /\ f.running = e.running /\ f.overdue = e.overdue /\ f.done = e.done
      /\ f.tasks = e.tasks /\ f.stopped = e.stopped
      /\ f.status = IF e.stopped /\ Idle(e) /\ e.status = "waiting" THEN "completed" ELSE e.status
  <2>1. e \in Entries
    BY DEF IsEntry
  <2> QED BY <2>1 DEF Entries, Statuses, Recomputed
<1> HIDE DEF f
<1>2. IsEntry(f)
  BY <1>1, SameChildren
<1> QED BY <1>1, <1>2 DEF f, Earned, Short, Idle

LEMMA PrunedEarned ==
  ASSUME NEW e, IsEntry(e), Earned(e)
  PROVE  IsEntry(Pruned(e)) /\ Short(Pruned(e)) /\ Earned(Pruned(e))
BY PrunedFacts DEF Earned, Idle

-----------------------------------------------------------------------------
(* An arm of ingest.  What it makes of the entry must be short and earned, *)
(* except that a sweep may have emptied a waiting entry and added to what  *)
(* finished: Swept then sees to it.                                        *)

Sound(s, new) ==
  /\ IsEntry(new)
  /\ new.status = "waiting" => new.stopped
  /\ Entry(s).overdue = {} => Short(new) /\ Earned(new)

LEMMA SweptFacts ==
  ASSUME NEW s, NEW new, Sound(s, new)
  PROVE  LET e == Swept(Entry(s), new) IN IsEntry(e) /\ Short(e) /\ Earned(e)
<1>1. CASE Entry(s).overdue = {}
  BY <1>1 DEF Swept, Sound
<1>2. CASE Entry(s).overdue # {}
  <2>1. IsEntry(Recomputed(new)) /\ Earned(Recomputed(new))
    BY RecomputedFacts DEF Sound
  <2> QED BY <1>2, <2>1, PrunedEarned DEF Swept
<1> QED BY <1>1, <1>2

LEMMA TouchedIs ==
  ASSUME NEW s \in Sessions, Recent
  PROVE  /\ Touched(s) \in Seq(Sessions) /\ IsInjective(Touched(s)) /\ Len(Touched(s)) <= SessionCap
         /\ ToSet(Touched(s)) \subseteq ToSet(recency) \cup {s}
<1> DEFINE r == Append(RemoveFirst(recency, s), s)
<1>1. r \in Seq(Sessions) /\ ToSet(r) = ToSet(recency) \cup {s} /\ IsInjective(r)
  BY MovedLast DEF Recent
<1>2. Touched(s) = Newest(r, SessionCap)
  BY DEF Touched
<1> HIDE DEF r
<1>3. SessionCap \in Nat
  BY SupervisionAssumption
<1>4. /\ Newest(r, SessionCap) \in Seq(Sessions)
      /\ Len(Newest(r, SessionCap)) = IF Len(r) > SessionCap THEN SessionCap ELSE Len(r)
  BY <1>1, <1>3, NewestIs
<1>5. Len(r) \in Nat
  BY <1>1
<1>6. Len(Newest(r, SessionCap)) <= SessionCap
  BY <1>3, <1>4, <1>5
<1>7. ToSet(Newest(r, SessionCap)) \subseteq ToSet(r) /\ IsInjective(Newest(r, SessionCap))
  BY <1>1, <1>3, NewestLists
<1> QED BY <1>1, <1>2, <1>4, <1>6, <1>7

(* What ingest does to the sessions and their order. *)
LEMMA IngestKeepsSessions ==
  ASSUME NEW s \in Sessions, NEW new, Kept, Recent, Sound(s, new), Ingest(s, new)
  PROVE  /\ Kept' /\ Recent'
         /\ Status(s)' \in {Swept(Entry(s), new).status, "unknown"}
         /\ \A x \in Sessions \ {s} : Status(x)' \in {Status(x), "unknown"}
<1> DEFINE e == Swept(Entry(s), new)
           r == Touched(s)
           kept == ToSet(r)
<1>1. IsEntry(e) /\ Short(e) /\ Earned(e)
  BY SweptFacts
<1>2. /\ recency' = r
      /\ sessions' = [x \in Sessions |-> IF x \notin kept THEN Nil ELSE IF x = s THEN e ELSE sessions[x]]
  BY DEF Ingest
<1>3. /\ r \in Seq(Sessions) /\ IsInjective(r) /\ Len(r) <= SessionCap
      /\ kept \subseteq ToSet(recency) \cup {s}
  BY TouchedIs
<1>4. kept \subseteq Sessions
  <2>1. r \in Seq(Sessions)
    BY <1>3
  <2> HIDE DEF r
  <2> QED BY <2>1 DEF ToSet
<1> HIDE DEF e, r
<1>5. e \in Entries /\ e # Nil
  BY <1>1, SupervisionAssumption DEF IsEntry
<1>6. sessions' \in [Sessions -> Entries \cup {Nil}]
  BY <1>2, <1>5 DEF Kept
<1>7. {x \in Sessions : sessions[x] # Nil} = ToSet(recency)
  BY DEF Recent
<1>8. {x \in Sessions : sessions'[x] # Nil} = kept
  BY <1>2, <1>3, <1>4, <1>5, <1>7
<1>9. ASSUME NEW x \in Sessions
      PROVE  Entry(x)' \in {Fresh, IF x = s THEN e ELSE Entry(x)}
  BY <1>2, <1>5 DEF Entry
<1>10. ASSUME NEW x \in Sessions
       PROVE  (IsEntry(Entry(x)) /\ Short(Entry(x)) /\ Earned(Entry(x)))'
  <2>1. IsEntry(Entry(x)) /\ Short(Entry(x)) /\ Earned(Entry(x))
    BY DEF Kept
  <2>2. PICK f \in {Fresh, e, Entry(x)} : Entry(x)' = f
    BY <1>9
  <2>3. IsEntry(f) /\ Short(f) /\ Earned(f)
    BY <1>1, <2>1, <2>2, FreshEntry
  <2> QED BY <2>2, <2>3 DEF IsEntry, Short, Earned, Idle
<1>11. Kept'
  BY <1>6, <1>10 DEF Kept
<1>12. Recent'
  BY <1>2, <1>3, <1>8 DEF Recent
<1>13. Fresh.status = "unknown"
  BY DEF Fresh
<1>14. Status(s)' \in {e.status, "unknown"}
  BY <1>9, <1>13 DEF Status
<1>15. ASSUME NEW x \in Sessions \ {s} PROVE Status(x)' \in {Status(x), "unknown"}
  BY <1>9, <1>13 DEF Status
<1> QED BY <1>11, <1>12, <1>14, <1>15 DEF e

-----------------------------------------------------------------------------
(* An edge that is logged, and those that wait. *)

LEMMA WatchedFacts ==
  ASSUME NEW r \in Wait, NEW s \in Sessions, NEW st \in Statuses
  PROVE  LET n == Watched(r, s, st) IN
         /\ n \in Wait /\ n.on = r.on
         /\ n.since = IF r.since > LogCap THEN r.since ELSE r.since + 1
         /\ n.entered = IF r.on = s THEN r.entered \cup ({st} \cap Targets) ELSE r.entered
         /\ n.held = IF r.on = s THEN r.held \cup ({st} \cap Targets) ELSE r.held
<1> DEFINE si == IF r.since > LogCap THEN r.since ELSE r.since + 1
           en == IF r.on = s THEN r.entered \cup ({st} \cap Targets) ELSE r.entered
           he == IF r.on = s THEN r.held \cup ({st} \cap Targets) ELSE r.held
<1>1. Watched(r, s, st) = [r EXCEPT !.since = si, !.entered = en, !.held = he]
  BY DEF Watched
<1>2. LogCap \in Nat
  BY SupervisionAssumption
<1>3. si \in 0 .. LogCap + 1 /\ en \in SUBSET Targets /\ he \in SUBSET Targets
  BY <1>2 DEF Wait
<1> HIDE DEF si, en, he
<1>4. LET n == Watched(r, s, st) IN n \in Wait /\ n.on = r.on /\ n.since = si /\ n.entered = en /\ n.held = he
  BY <1>1, <1>3 DEF Wait
<1> QED BY <1>4 DEF si, en, he

LEMMA EdgeKeepsWatch ==
  ASSUME NEW q \in Seq(Sessions \X Statuses), Len(q) <= LogCap,
         NEW r \in Wait, NEW s \in Sessions, NEW st \in Statuses, NEW old, Watches(r, q, old),
         NEW new, new \in Targets => new \in Watched(r, s, st).held
  PROVE  Watches(Watched(r, s, st), Newest(Append(q, <<s, st>>), LogCap), new)
<1> DEFINE n == Watched(r, s, st)
           b == Append(q, <<s, st>>)
           l == Newest(b, LogCap)
<1>1. /\ n.on = r.on
      /\ n.since = IF r.since > LogCap THEN r.since ELSE r.since + 1
      /\ n.entered = IF r.on = s THEN r.entered \cup ({st} \cap Targets) ELSE r.entered
      /\ n.held = IF r.on = s THEN r.held \cup ({st} \cap Targets) ELSE r.held
  BY WatchedFacts
<1>2. /\ LogCap \in Nat /\ LogCap > 0 /\ Len(q) \in Nat /\ r.since \in 0 .. LogCap + 1
  BY SupervisionAssumption DEF Wait
<1>a. PICK cap, before, since : cap = LogCap /\ before = Len(q) /\ since = r.since
  OBVIOUS
<1>b. cap \in Nat /\ cap > 0 /\ before \in Nat /\ before <= cap /\ since \in 0 .. cap + 1
  BY <1>2, <1>a
<1>3. /\ b \in Seq(Sessions \X Statuses) /\ Len(b) = before + 1 /\ b[before + 1] = <<s, st>>
      /\ \A i \in 1 .. before : b[i] = q[i]
  BY <1>a, AppendProperties
<1> HIDE DEF b
<1>4. /\ l \in Seq(Sessions \X Statuses)
      /\ Len(l) = IF Len(b) > LogCap THEN LogCap ELSE Len(b)
      /\ \A i \in 1 .. Len(l) : l[i] = b[i + (Len(b) - Len(l))]
  BY <1>2, <1>3, NewestIs
<1>c. PICK after, first : after = Len(l) /\ first = before + 1 - after
  OBVIOUS
<1>5. DOMAIN l = 1 .. after /\ DOMAIN q = 1 .. before
  BY <1>a, <1>c, <1>4
<1> HIDE DEF l, n
<1>6. after = IF before + 1 > cap THEN cap ELSE before + 1
  BY <1>a, <1>c, <1>3, <1>4
<1>7. /\ after \in 1 .. cap /\ first \in 0 .. 1 /\ after + first = before + 1
      /\ first = 1 => before = cap
  BY <1>b, <1>c, <1>6
<1>8. \A i \in 1 .. after : l[i] = b[i + first]
  <2>1. PICK len : len = Len(b)
    OBVIOUS
  <2>2. len - after = first
    <3>1. len = before + 1
      BY <1>3, <2>1, Zenon
    <3> QED BY <1>b, <1>7, <3>1
  <2>3. Len(b) - Len(l) = first
    BY <1>c, <2>1, <2>2, Zenon
  <2> QED BY <1>4, <1>c, <2>3
<1>9. l[after] = <<s, st>>
  <2>1. after \in 1 .. after
    BY <1>7
  <2> QED BY <1>3, <1>7, <1>8, <2>1
<1>10. ASSUME NEW i \in 1 .. after, i # after PROVE i + first \in 1 .. before /\ l[i] = q[i + first]
  <2>1. i + first \in 1 .. before
    BY <1>b, <1>7, <1>10
  <2> QED BY <1>3, <1>8, <1>10, <2>1
<1>11. PICK later : later = n.since /\ later = IF since > cap THEN since ELSE since + 1
  BY <1>1, <1>a
<1>12. ASSUME NEW x \in n.entered, ~(n.since > LogCap)
       PROVE  \E i \in Window(n, l) : l[i] = <<n.on, x>>
  <2>1. ~(since > cap) /\ later = since + 1 /\ since < cap
    <3>1. ~(later > cap)
      BY <1>a, <1>11, <1>12
    <3> QED BY <1>b, <1>11, <3>1
  <2>2. CASE x = st /\ r.on = s
    <3>1. after \in 1 .. after /\ after + later > after
      BY <1>b, <1>7, <2>1
    <3>2. after \in Window(n, l)
      BY <1>5, <1>c, <1>11, <3>1 DEF Window
    <3> QED BY <1>1, <1>9, <2>2, <3>2
  <2>3. CASE x \in r.entered
    <3>1. PICK j \in Window(r, q) : q[j] = <<r.on, x>>
      BY <1>a, <2>1, <2>3 DEF Watches
    <3>2. j \in 1 .. before /\ j + since > before
      BY <1>a, <1>5, <3>1 DEF Window
    <3>3. PICK k \in Int : k = j - first
      BY <1>7, <3>2
    <3>4. k \in 1 .. after /\ k # after /\ k + first = j /\ k + later > after
      BY <1>b, <1>7, <2>1, <3>2, <3>3
    <3>5. k \in Window(n, l)
      BY <1>5, <1>c, <1>11, <3>4 DEF Window
    <3>6. l[k] = q[j]
      BY <1>10, <3>4
    <3> QED BY <1>1, <3>1, <3>5, <3>6
  <2> QED BY <1>1, <1>12, <2>2, <2>3
<1>13. ASSUME NEW i \in Window(n, l), l[i][1] = n.on, l[i][2] \in Targets
       PROVE  l[i][2] \in n.held
  <2>1. i \in 1 .. after /\ i + later > after
    BY <1>5, <1>c, <1>11 DEF Window
  <2>2. CASE i = after
    <3>1. l[i][1] = s /\ l[i][2] = st
      BY <1>9, <2>2
    <3> QED BY <1>1, <1>13, <3>1
  <2>3. CASE i # after
    <3>1. PICK k \in 1 .. before : k = i + first /\ l[i] = q[k]
      BY <1>10, <2>1, <2>3
    <3>2. k + since > before
      BY <1>b, <1>7, <1>11, <2>1, <3>1
    <3>3. k \in Window(r, q)
      BY <1>a, <1>5, <3>1, <3>2 DEF Window
    <3>4. q[k][1] = r.on /\ q[k][2] \in Targets
      BY <1>1, <1>13, <3>1
    <3>5. q[k][2] \in r.held
      BY <3>3, <3>4 DEF Watches
    <3> QED BY <1>1, <3>1, <3>5
  <2> QED BY <2>2, <2>3
<1>14. new \in Targets => new \in n.held
  BY DEF n
<1>15. Watches(n, l, new)
  BY <1>12, <1>13, <1>14 DEF Watches
<1> QED BY <1>15 DEF n, l, b

LEMMA IngestKeepsInv ==
  ASSUME NEW s \in Sessions, NEW new, SupervisionInv, Sound(s, new), Ingest(s, new)
  PROVE  SupervisionInv'
<1> DEFINE e == Swept(Entry(s), new)
<1>1. Kept /\ Recent /\ Logged /\ Polled /\ Watching
  BY DEF SupervisionInv
<1>2. /\ Kept' /\ Recent' /\ Status(s)' \in {e.status, "unknown"}
      /\ \A x \in Sessions \ {s} : Status(x)' \in {Status(x), "unknown"}
  BY <1>1, IngestKeepsSessions
<1>3. e.status \in Statuses /\ "unknown" \notin Targets
  BY SweptFacts, SupervisionAssumption DEF IsEntry, Entries
<1>4. \/ e.status = Status(s) /\ UNCHANGED <<log, waiter>>
      \/ /\ e.status # Status(s)
         /\ log' = Newest(Append(log, <<s, e.status>>), LogCap)
         /\ waiter' = [w \in Waiters |-> IF waiter[w].on = Nil THEN waiter[w]
                                         ELSE Watched(waiter[w], s, e.status)]
  BY DEF Ingest
<1> HIDE DEF e
<1>5. CASE e.status = Status(s) /\ UNCHANGED <<log, waiter>>
  <2>1. Logged' /\ Polled'
    BY <1>1, <1>5 DEF Logged, Polled
  <2>2. ASSUME NEW w \in Waiters, (waiter[w].on # Nil)'
        PROVE  Watches(waiter[w], log, Status(waiter[w].on))'
    <3> DEFINE r == waiter[w]
    <3>1. r.on \in Sessions /\ Watches(r, log, Status(r.on)) /\ waiter'[w] = r /\ log' = log
      BY <1>1, <1>5, <2>2 DEF Polled, Wait, Watching
    <3>2. PICK x \in Sessions : x = r.on
      BY <3>1
    <3>3. Status(x)' \in {Status(x), "unknown"}
      BY <1>2, <1>5
    <3>4. Status(waiter[w].on)' = Status(x)'
      BY <3>1, <3>2 DEF Status, Entry
    <3> QED BY <1>3, <3>1, <3>2, <3>3, <3>4 DEF Watches, Window
  <2>3. Watching'
    BY <2>2 DEF Watching
  <2> QED BY <1>2, <2>1, <2>3 DEF SupervisionInv
<1>6. CASE /\ log' = Newest(Append(log, <<s, e.status>>), LogCap)
           /\ waiter' = [w \in Waiters |-> IF waiter[w].on = Nil THEN waiter[w]
                                           ELSE Watched(waiter[w], s, e.status)]
  <2> DEFINE b == Append(log, <<s, e.status>>)
  <2>1. b \in Seq(Sessions \X Statuses) /\ LogCap \in Nat /\ Len(b) \in Nat
    BY <1>1, <1>3, SupervisionAssumption, AppendProperties, LenProperties DEF Logged
  <2>2. Logged'
    <3> HIDE DEF b
    <3>1. /\ Newest(b, LogCap) \in Seq(Sessions \X Statuses)
          /\ Len(Newest(b, LogCap)) = IF Len(b) > LogCap THEN LogCap ELSE Len(b)
      BY <2>1, NewestIs
    <3>2. Len(Newest(b, LogCap)) <= LogCap
      BY <2>1, <3>1
    <3> QED BY <1>6, <3>1, <3>2 DEF Logged, b
  <2>3. ASSUME NEW w \in Waiters PROVE waiter[w] \in Wait /\ Watched(waiter[w], s, e.status) \in Wait
    <3>1. waiter[w] \in Wait
      BY <1>1 DEF Polled
    <3> QED BY <1>3, <3>1, WatchedFacts
  <2>4. Polled'
    BY <1>6, <2>3 DEF Polled
  <2>5. ASSUME NEW w \in Waiters, (waiter[w].on # Nil)'
        PROVE  Watches(waiter[w], log, Status(waiter[w].on))'
    <3>1. PICK r, v, q : r = waiter[w] /\ v = e.status /\ q = log
      OBVIOUS
    <3>2. r \in Wait /\ v \in Statuses
      BY <1>3, <2>3, <3>1
    <3>3. PICK n : n = Watched(r, s, v)
      OBVIOUS
    <3>4. n.on = r.on /\ n.held = IF r.on = s THEN r.held \cup ({v} \cap Targets) ELSE r.held
      BY <3>2, <3>3, WatchedFacts
    <3>5. r.on # Nil /\ waiter'[w] = n
      BY <1>6, <2>5, <3>1, <3>3
    <3>6. r.on \in Sessions /\ Watches(r, q, Status(r.on))
      BY <1>1, <3>1, <3>2, <3>5 DEF Wait, Watching
    <3>7. PICK x \in Sessions : x = r.on
      BY <3>6
    <3>8. PICK old, st : old = Status(x) /\ st = Status(x)'
      OBVIOUS
    <3>9. Watches(r, q, old)
      BY <3>6, <3>7, <3>8
    <3>10. st \in Targets => st \in n.held
      <4>1. CASE x = s
        BY <1>2, <1>3, <3>1, <3>4, <3>7, <3>8, <4>1
      <4>2. CASE x # s
        <5>1. st \in {old, "unknown"}
          BY <1>2, <3>8, <4>2
        <5>2. old \in Targets => old \in r.held
          BY <3>9 DEF Watches
        <5> QED BY <1>3, <3>4, <3>7, <4>2, <5>1, <5>2
      <4> QED BY <4>1, <4>2
    <3>11. q \in Seq(Sessions \X Statuses) /\ Len(q) <= LogCap
      BY <1>1, <3>1 DEF Logged
    <3>12. Watches(n, Newest(Append(q, <<s, v>>), LogCap), st)
      BY <3>2, <3>3, <3>9, <3>10, <3>11, EdgeKeepsWatch
    <3>13. log' = Newest(Append(q, <<s, v>>), LogCap)
      BY <1>6, <3>1
    <3>14. Status(waiter[w].on)' = st
      BY <3>4, <3>5, <3>7, <3>8 DEF Status, Entry
    <3> QED BY <3>5, <3>12, <3>13, <3>14 DEF Watches, Window
  <2>6. Watching'
    BY <2>5 DEF Watching
  <2> QED BY <1>2, <2>2, <2>4, <2>6 DEF SupervisionInv
<1> QED BY <1>4, <1>5, <1>6

-----------------------------------------------------------------------------
(* The arms. *)

(* The entry that an event finds. *)
LEMMA CurrentFacts ==
  ASSUME NEW s \in Sessions, Kept
  PROVE  /\ Sound(s, Current(s))
         /\ Current(s) \in Entries
         /\ Current(s).tasks = Entry(s).tasks
<1> DEFINE c == Current(s)
<1>1. IsEntry(Entry(s)) /\ Short(Entry(s)) /\ Earned(Entry(s)) /\ Entry(s).overdue \subseteq Entry(s).running
  BY DEF Kept, IsEntry
<1>2. /\ IsEntry(c)
      /\ c.status = Entry(s).status
      /\ c.running = Entry(s).running \ Entry(s).overdue
      /\ c.tasks = Entry(s).tasks
      /\ c.stopped = Entry(s).stopped
  BY <1>1, FinishedFacts DEF Current
<1>3. Entry(s).overdue = {} => Len(c.done) = Len(Entry(s).done)
  <2> SUFFICES ASSUME Entry(s).overdue = {} PROVE Len(c.done) = Len(Entry(s).done)
    OBVIOUS
  <2>1. c = Finished(Entry(s), {})
    BY DEF Current
  <2> QED BY <1>1, <2>1, FinishedNone
<1> HIDE DEF c
<1>4. Sound(s, c) /\ c \in Entries
  BY <1>1, <1>2, <1>3 DEF Sound, Short, Earned, Idle, IsEntry
<1> QED BY <1>2, <1>4 DEF c

(* An arm that leaves the children as it finds them. *)
LEMMA SameSound ==
  ASSUME NEW s, NEW c, Sound(s, c),
         NEW e \in Entries, e.running = c.running, e.overdue = c.overdue, e.done = c.done,
         e.status = "waiting" => e.stopped, Earned(c) => Earned(e)
  PROVE  Sound(s, e)
BY SameChildren DEF Sound, Short

(* An arm that cuts what finished and does not leave it waiting. *)
LEMMA PrunedSound ==
  ASSUME NEW s, NEW e, IsEntry(e), e.status # "waiting"
  PROVE  Sound(s, Pruned(e))
BY PrunedFacts DEF Sound, Earned

LEMMA WorkingFacts ==
  ASSUME NEW s, NEW e, IsEntry(e), e.status = "waiting" => e.stopped,
         Entry(s).overdue = {} => Short(e) /\ (Earned(e) \/ ~e.stopped \/ ~Idle(e))
  PROVE  Sound(s, Working(e))
<1> DEFINE f == Working(e)
<1>1. /\ f \in Entries /\ f.running = e.running /\ f.overdue = e.overdue /\ f.done = e.done
      /\ f.stopped = e.stopped /\ f.tasks = e.tasks
      /\ f.status = IF e.stopped THEN e.status ELSE "working"
  <2>1. e \in Entries
    BY DEF IsEntry
  <2> QED BY <2>1 DEF Entries, Statuses, Working
<1> HIDE DEF f
<1>2. IsEntry(f)
  BY <1>1, SameChildren
<1>3. Sound(s, f)
  BY <1>1, <1>2 DEF Sound, Short, Earned, Idle
<1> QED BY <1>3 DEF f

LEMMA StopKeepsInv ==
  ASSUME NEW s \in Sessions, SupervisionInv, Stop(s)
  PROVE  SupervisionInv'
<1> DEFINE c == Current(s)
           new == [c EXCEPT !.asked = Nil, !.stopped = TRUE,
                            !.status = IF Idle(c) THEN "completed" ELSE "waiting"]
<1>1. Sound(s, c) /\ c \in Entries
  BY CurrentFacts DEF SupervisionInv
<1> HIDE DEF c
<1>2. /\ new \in Entries /\ new.running = c.running /\ new.overdue = c.overdue /\ new.done = c.done
      /\ new.status = "waiting" => new.stopped /\ ~Idle(new)
  BY <1>1 DEF Entries, Statuses, Idle
<1>3. Ingest(s, new)
  BY DEF Stop, c
<1> HIDE DEF new
<1>4. Sound(s, new)
  BY <1>1, <1>2, SameSound DEF Earned
<1> QED BY <1>3, <1>4, IngestKeepsInv

LEMMA SubagentsKeepInv ==
  ASSUME NEW s \in Sessions, NEW a \in Agents, SupervisionInv,
         SubagentStart(s, a) \/ SubagentStop(s, a)
  PROVE  SupervisionInv'
<1> DEFINE c == Current(s)
<1>1. Sound(s, c) /\ c \in Entries
  BY CurrentFacts DEF SupervisionInv
<1> HIDE DEF c
<1>2. CASE SubagentStart(s, a)
  <2> DEFINE e == IF a \in ToSet(c.done) THEN c ELSE [c EXCEPT !.running = @ \cup {a}]
  <2>1. /\ IsEntry(e)
        /\ e.status = "waiting" => e.stopped
        /\ Entry(s).overdue = {} => Short(e) /\ (Earned(e) \/ ~e.stopped \/ ~Idle(e))
    <3>1. CASE a \in ToSet(c.done)
      BY <1>1, <3>1 DEF Sound
    <3>2. CASE a \notin ToSet(c.done)
      <4> DEFINE f == [c EXCEPT !.running = @ \cup {a}]
      <4>1. /\ f \in Entries /\ f.running = c.running \cup {a} /\ f.overdue = c.overdue
            /\ f.done = c.done /\ f.status = c.status /\ f.stopped = c.stopped /\ f.tasks = c.tasks
        BY <1>1 DEF Entries
      <4>2. e = f
        BY <3>2
      <4> HIDE DEF e, f
      <4>3. IsFiniteSet(c.running \cup {a})
        BY <1>1, FS_AddElement DEF Sound, IsEntry
      <4>4. IsEntry(f)
        BY <1>1, <3>2, <4>1, <4>3 DEF Sound, IsEntry
      <4>5. ~Idle(f)
        BY <4>1 DEF Idle
      <4> QED BY <1>1, <4>1, <4>2, <4>4, <4>5 DEF Sound, Short
    <3> QED BY <3>1, <3>2
  <2>2. Ingest(s, Working(e))
    BY <1>2 DEF SubagentStart, c
  <2> HIDE DEF e
  <2>3. Sound(s, Working(e))
    BY <2>1, WorkingFacts
  <2> QED BY <2>2, <2>3, IngestKeepsInv
<1>3. CASE SubagentStop(s, a)
  <2> DEFINE f == Pruned(Stopped(c, a))
  <2>1. IsEntry(f) /\ Short(f) /\ (f.status = "waiting" => f.stopped)
    <3>1. /\ IsEntry(Stopped(c, a))
          /\ Stopped(c, a).status = c.status
          /\ Stopped(c, a).stopped = c.stopped
      BY <1>1, StoppedFacts DEF Sound
    <3> QED BY <1>1, <3>1, PrunedFacts DEF Sound
  <2>2. Ingest(s, Recomputed(f))
    BY <1>3 DEF SubagentStop, c
  <2> HIDE DEF f
  <2>3. Sound(s, Recomputed(f))
    BY <2>1, RecomputedFacts DEF Sound, Earned
  <2> QED BY <2>2, <2>3, IngestKeepsInv
<1> QED BY <1>2, <1>3

LEMMA TasksKeepInv ==
  ASSUME NEW s \in Sessions, SupervisionInv, TaskCreated(s) \/ TaskCompleted(s)
  PROVE  SupervisionInv'
<1> DEFINE c == Current(s)
<1>1. Sound(s, c) /\ c \in Entries /\ c.tasks = Entry(s).tasks
  BY CurrentFacts DEF SupervisionInv
<1>2. IsEntry(c) /\ c.tasks \in 0 .. MaxTasks /\ MaxTasks \in Nat
  BY <1>1, SupervisionAssumption DEF Sound, Entries
<1> HIDE DEF c
<1>3. CASE TaskCreated(s)
  <2> DEFINE e == [c EXCEPT !.tasks = @ + 1]
  <2>1. c.tasks + 1 \in 0 .. MaxTasks /\ c.tasks + 1 # 0
    BY <1>1, <1>2, <1>3 DEF TaskCreated
  <2>2. /\ e \in Entries /\ e.running = c.running /\ e.overdue = c.overdue /\ e.done = c.done
        /\ e.status = c.status /\ e.stopped = c.stopped /\ e.tasks # 0
    BY <1>1, <2>1 DEF Entries
  <2>3. Ingest(s, Working(e))
    BY <1>3 DEF TaskCreated, c
  <2> HIDE DEF e
  <2>4. IsEntry(e) /\ ~Idle(e) /\ (Short(c) => Short(e)) /\ (e.status = "waiting" => e.stopped)
    BY <1>1, <1>2, <2>2, SameChildren DEF Sound, Idle, Short
  <2>5. Sound(s, Working(e))
    BY <1>1, <2>4, WorkingFacts DEF Sound
  <2> QED BY <2>3, <2>5, IngestKeepsInv
<1>4. CASE TaskCompleted(s)
  <2> DEFINE n == IF c.tasks = 0 THEN 0 ELSE c.tasks - 1
             e == [c EXCEPT !.tasks = n]
  <2>1. n \in 0 .. MaxTasks
    BY <1>2
  <2>2. Ingest(s, Recomputed(e))
    BY <1>4 DEF TaskCompleted, c
  <2> HIDE DEF n
  <2>3. /\ e \in Entries /\ e.running = c.running /\ e.overdue = c.overdue /\ e.done = c.done
        /\ e.status = c.status /\ e.stopped = c.stopped
    BY <1>1, <2>1 DEF Entries
  <2> HIDE DEF e
  <2>4. IsEntry(e) /\ (Short(c) => Short(e)) /\ (e.status = "waiting" => e.stopped)
    BY <1>1, <1>2, <2>3, SameChildren DEF Sound, Short
  <2>5. Sound(s, Recomputed(e))
    <3>1. IsEntry(Recomputed(e)) /\ Earned(Recomputed(e)) /\ (Short(e) => Short(Recomputed(e)))
      BY <2>4, RecomputedFacts
    <3> QED BY <1>1, <2>4, <3>1 DEF Sound, Earned
  <2> QED BY <2>2, <2>5, IngestKeepsInv
<1> QED BY <1>3, <1>4

(* A new turn. *)
LEMMA PromptKeepsInv ==
  ASSUME NEW s \in Sessions, SupervisionInv, UserPromptSubmit(s)
  PROVE  SupervisionInv'
<1> DEFINE e == [Fresh EXCEPT !.status = "working", !.tasks = Entry(s).tasks]
<1>1. Entry(s).tasks \in 0 .. MaxTasks
  BY DEF SupervisionInv, Kept, IsEntry, Entries
<1>2. IsEntry(Fresh) /\ Short(Fresh) /\ Fresh \in Entries
  BY FreshEntry DEF IsEntry
<1>3. Ingest(s, e)
  BY DEF UserPromptSubmit
<1>4. /\ e \in Entries /\ e.running = Fresh.running /\ e.overdue = Fresh.overdue /\ e.done = Fresh.done
      /\ e.status = "working"
  BY <1>1, <1>2 DEF Entries, Statuses
<1> HIDE DEF e
<1>5. IsEntry(e) /\ Short(e)
  BY <1>2, <1>4, SameChildren DEF Short
<1>6. Sound(s, e)
  BY <1>4, <1>5 DEF Sound, Earned
<1> QED BY <1>3, <1>6, IngestKeepsInv

(* The arms that set a status of their own, or leave the entry as found. *)
LEMMA PlainArmsKeepInv ==
  ASSUME NEW s \in Sessions, SupervisionInv,
         \/ SessionStart(s) \/ Elicitation(s) \/ OtherEvent(s)
         \/ PermissionNotification(s) \/ OtherNotification(s)
         \/ \E r \in Permissions \cup {Nil} : PermissionRequest(s, r)
  PROVE  SupervisionInv'
<1> DEFINE c == Current(s)
           Plain(e) == /\ e \in Entries /\ e.running = c.running /\ e.overdue = c.overdue
                       /\ e.done = c.done /\ e.status # "waiting"
<1>1. Sound(s, c) /\ c \in Entries
  BY CurrentFacts DEF SupervisionInv
<1>2. ASSUME NEW e, Plain(e), Ingest(s, e) PROVE SupervisionInv'
  <2>1. Sound(s, e)
    BY <1>1, <1>2, SameSound DEF Earned
  <2> QED BY <1>2, <2>1, IngestKeepsInv
<1>3. CASE SessionStart(s)
  <2> DEFINE e == [c EXCEPT !.status = "working", !.stopped = FALSE, !.asked = Nil]
  <2>1. Ingest(s, e)
    BY <1>3 DEF SessionStart
  <2> HIDE DEF c
  <2>2. Plain(e)
    BY <1>1 DEF Entries, Statuses
  <2> HIDE DEF e, Plain
  <2> QED BY <1>2, <2>1, <2>2
<1>4. CASE Elicitation(s)
  <2> DEFINE e == [c EXCEPT !.asked = Nil, !.status = "question"]
  <2>1. Ingest(s, e)
    BY <1>4 DEF Elicitation
  <2> HIDE DEF c
  <2>2. Plain(e)
    BY <1>1 DEF Entries, Statuses
  <2> HIDE DEF e, Plain
  <2> QED BY <1>2, <2>1, <2>2
<1>5. CASE OtherEvent(s)
  <2>1. Ingest(s, c)
    BY <1>5 DEF OtherEvent
  <2> QED BY <1>1, <2>1, IngestKeepsInv
<1>6. CASE PermissionNotification(s)
  <2> DEFINE e == [c EXCEPT !.status = "permission"]
  <2>1. Ingest(s, e)
    BY <1>6 DEF PermissionNotification
  <2> HIDE DEF c
  <2>2. Plain(e)
    BY <1>1 DEF Entries, Statuses
  <2> HIDE DEF e, Plain
  <2> QED BY <1>2, <2>1, <2>2
<1>7. CASE OtherNotification(s)
  <2> DEFINE e == [c EXCEPT !.status = IF @ = "permission" THEN @ ELSE "question"]
  <2>1. Ingest(s, e)
    BY <1>7 DEF OtherNotification
  <2> HIDE DEF c
  <2>2. Plain(e)
    BY <1>1 DEF Entries, Statuses
  <2> HIDE DEF e, Plain
  <2> QED BY <1>2, <2>1, <2>2
<1>8. ASSUME NEW r \in Permissions \cup {Nil}, PermissionRequest(s, r)
      PROVE  SupervisionInv'
  <2> DEFINE e == [c EXCEPT !.asked = r, !.status = "permission"]
  <2>1. Ingest(s, e)
    BY <1>8 DEF PermissionRequest
  <2> HIDE DEF c
  <2>2. Plain(e)
    BY <1>1 DEF Entries, Statuses
  <2> HIDE DEF e, Plain
  <2> QED BY <1>2, <2>1, <2>2
<1> QED BY <1>3, <1>4, <1>5, <1>6, <1>7, <1>8

(* A permission or a question that was answered. *)
LEMMA ResolvedKeepInv ==
  ASSUME NEW s \in Sessions, SupervisionInv,
         QuestionResolved(s) \/ \E r \in Permissions : PermissionResolved(s, r)
  PROVE  SupervisionInv'
<1> DEFINE c == Current(s)
<1>1. Sound(s, c) /\ c \in Entries
  BY CurrentFacts DEF SupervisionInv
<1>2. CASE QuestionResolved(s)
  <2>1. Ingest(s, Working(c)) \/ Ingest(s, c)
    BY <1>2 DEF QuestionResolved
  <2> HIDE DEF c
  <2>2. Sound(s, Working(c))
    BY <1>1, WorkingFacts DEF Sound
  <2> QED BY <1>1, <2>1, <2>2, IngestKeepsInv
<1>3. ASSUME NEW r \in Permissions, PermissionResolved(s, r)
      PROVE  SupervisionInv'
  <2> DEFINE e == [c EXCEPT !.asked = Nil]
  <2>1. Ingest(s, Working(e)) \/ Ingest(s, c)
    BY <1>3 DEF PermissionResolved
  <2> HIDE DEF c
  <2>2. /\ e \in Entries /\ e.running = c.running /\ e.overdue = c.overdue /\ e.done = c.done
        /\ e.status = c.status /\ e.stopped = c.stopped /\ e.tasks = c.tasks
    BY <1>1 DEF Entries
  <2> HIDE DEF e
  <2>3. Sound(s, e)
    BY <1>1, <2>2, SameSound DEF Sound, Earned, Idle
  <2>4. Sound(s, Working(e))
    BY <2>3, WorkingFacts DEF Sound
  <2> QED BY <1>1, <2>1, <2>4, IngestKeepsInv
<1> QED BY <1>2, <1>3

LEMMA EndingsKeepInv ==
  ASSUME NEW s \in Sessions, SupervisionInv, StopFailure(s) \/ SessionEnd(s)
  PROVE  SupervisionInv'
<1> DEFINE c == Ended(s)
           Closed(e) == /\ e \in Entries /\ e.running = c.running /\ e.overdue = c.overdue
                        /\ e.done = c.done /\ e.status # "waiting"
<1>1. IsEntry(c) /\ c \in Entries
  <2>1. IsEntry(Current(s))
    BY CurrentFacts DEF Sound, SupervisionInv
  <2> QED BY <2>1, FinishedFacts DEF Ended, IsEntry
<1>2. ASSUME NEW e, Closed(e), Ingest(s, Pruned(e)) PROVE SupervisionInv'
  <2>1. IsEntry(e)
    BY <1>1, <1>2, SameChildren
  <2>2. Sound(s, Pruned(e))
    BY <1>2, <2>1, PrunedSound
  <2> QED BY <1>2, <2>2, IngestKeepsInv
<1>3. CASE StopFailure(s)
  <2> DEFINE e == [c EXCEPT !.asked = Nil, !.status = "failed"]
  <2>1. Ingest(s, Pruned(e))
    BY <1>3 DEF StopFailure
  <2> HIDE DEF c
  <2>2. Closed(e)
    BY <1>1 DEF Entries, Statuses
  <2> HIDE DEF e, Closed
  <2> QED BY <1>2, <2>1, <2>2
<1>4. CASE SessionEnd(s)
  <2> DEFINE e == [c EXCEPT !.asked = Nil, !.status = IF @ = "completed" THEN @ ELSE "failed"]
  <2>1. Ingest(s, Pruned(e))
    BY <1>4 DEF SessionEnd
  <2> HIDE DEF c
  <2>2. Closed(e)
    BY <1>1 DEF Entries, Statuses
  <2> HIDE DEF e, Closed
  <2> QED BY <1>2, <2>1, <2>2
<1> QED BY <1>3, <1>4

LEMMA HourKeepsInv ==
  ASSUME NEW s \in Sessions, NEW a \in Agents, SupervisionInv, HourPasses(s, a)
  PROVE  SupervisionInv'
<1> DEFINE old == sessions[s]
           e == [old EXCEPT !.overdue = @ \cup {a}]
<1>1. Entry(s) = old /\ old # Nil /\ a \in old.running
  BY DEF HourPasses, Entry, Fresh
<1>2. IsEntry(old) /\ Short(old) /\ Earned(old) /\ old \in Entries
  BY <1>1 DEF SupervisionInv, Kept, IsEntry
<1>3. sessions' = [sessions EXCEPT ![s] = e] /\ UNCHANGED <<recency, log, waiter>>
  BY DEF HourPasses
<1> HIDE DEF old
<1>4. /\ e \in Entries /\ e.running = old.running /\ e.overdue = old.overdue \cup {a}
      /\ e.done = old.done /\ e.status = old.status /\ e.stopped = old.stopped /\ e.tasks = old.tasks
  BY <1>1, <1>2 DEF IsEntry, Entries
<1> HIDE DEF e
<1>5. IsEntry(e) /\ Short(e) /\ Earned(e) /\ e # Nil
  BY <1>1, <1>2, <1>4, SupervisionAssumption DEF IsEntry, Short, Earned, Idle
<1>6. sessions' = [x \in Sessions |-> IF x = s THEN e ELSE sessions[x]]
  BY <1>3 DEF SupervisionInv, Kept
<1>7. ASSUME NEW x \in Sessions
      PROVE  /\ (IsEntry(Entry(x)) /\ Short(Entry(x)) /\ Earned(Entry(x)))'
             /\ Status(x)' = Status(x)
             /\ sessions'[x] # Nil <=> sessions[x] # Nil
  <2>1. IsEntry(Entry(x)) /\ Short(Entry(x)) /\ Earned(Entry(x))
    BY DEF SupervisionInv, Kept
  <2>2. Entry(x)' = IF x = s THEN e ELSE Entry(x)
    BY <1>5, <1>6 DEF Entry
  <2>3. PICK f : f = (IF x = s THEN e ELSE Entry(x)) /\ Entry(x)' = f
    BY <2>2
  <2>4. IsEntry(f) /\ Short(f) /\ Earned(f) /\ f.status = Status(x)
    BY <1>1, <1>4, <1>5, <2>1, <2>3 DEF Status
  <2>5. Status(x)' = Status(x)
    BY <2>3, <2>4 DEF Status
  <2>6. sessions'[x] # Nil <=> sessions[x] # Nil
    BY <1>1, <1>5, <1>6 DEF old
  <2> QED BY <2>3, <2>4, <2>5, <2>6 DEF IsEntry, Short, Earned, Idle
<1>8. Kept'
  <2>1. sessions' \in [Sessions -> Entries \cup {Nil}]
    BY <1>4, <1>6 DEF SupervisionInv, Kept
  <2> QED BY <1>7, <2>1 DEF Kept
<1>9. Recent'
  BY <1>3, <1>7 DEF SupervisionInv, Recent
<1>10. Logged' /\ Polled'
  BY <1>3 DEF SupervisionInv, Logged, Polled
<1>11. ASSUME NEW w \in Waiters, (waiter[w].on # Nil)'
       PROVE  Watches(waiter[w], log, Status(waiter[w].on))'
  <2>1. waiter' = waiter /\ log' = log /\ waiter[w].on \in Sessions
    BY <1>3, <1>11 DEF SupervisionInv, Polled, Wait
  <2>2. PICK x \in Sessions : x = waiter[w].on
    BY <2>1
  <2>3. Watches(waiter[w], log, Status(waiter[w].on))
    BY <1>11, <2>1 DEF SupervisionInv, Watching
  <2>4. Status(x)' = Status(x)
    BY <1>7
  <2>5. Status(waiter[w].on)' = Status(x)'
    BY <2>1, <2>2 DEF Status, Entry
  <2> QED BY <2>1, <2>2, <2>3, <2>4, <2>5 DEF Watches, Window
<1>12. Watching'
  BY <1>11 DEF Watching
<1> QED BY <1>8, <1>9, <1>10, <1>12 DEF SupervisionInv

-----------------------------------------------------------------------------
(* Those that wait. *)

(* A waiter that begins, or was answered. *)
LEMMA WaiterKeepsInv ==
  ASSUME SupervisionInv, NEW w \in Waiters, NEW r \in Wait,
         waiter' = [waiter EXCEPT ![w] = r], UNCHANGED <<sessions, recency, log>>,
         r.on # Nil => Watches(r, log, Status(r.on))
  PROVE  SupervisionInv'
<1>1. Kept' /\ Recent' /\ Logged'
  BY DEF SupervisionInv, Kept, Recent, Logged, Entry, IsEntry, Short, Earned, Idle
<1>2. Polled'
  BY DEF SupervisionInv, Polled
<1>3. ASSUME NEW v \in Waiters, (waiter[v].on # Nil)'
      PROVE  Watches(waiter[v], log, Status(waiter[v].on))'
  <2>1. waiter'[v] = (IF v = w THEN r ELSE waiter[v]) /\ log' = log /\ sessions' = sessions
    BY DEF SupervisionInv, Polled
  <2>2. PICK x : x = IF v = w THEN r ELSE waiter[v]
    OBVIOUS
  <2>3. x.on # Nil /\ waiter'[v] = x
    BY <1>3, <2>1, <2>2
  <2>4. Watches(x, log, Status(x.on))
    BY <2>2, <2>3 DEF SupervisionInv, Watching
  <2>5. Status(waiter[v].on)' = Status(x.on)
    BY <2>1, <2>3 DEF Status, Entry
  <2> QED BY <2>1, <2>3, <2>4, <2>5 DEF Watches, Window
<1>4. Watching'
  BY <1>3 DEF Watching
<1> QED BY <1>1, <1>2, <1>4 DEF SupervisionInv

LEMMA ToldIs ==
  ASSUME NEW x \in Statuses \cup {"none", "timeout"}
  PROVE  Told(x) \in Wait /\ Told(x).on = Nil /\ Told(x).reply = x
<1>1. LogCap \in Nat
  BY SupervisionAssumption
<1> QED BY <1>1 DEF Told, Wait

(* The answer of a poll: an edge to a target, or the status. *)
LEMMA AnswerIs ==
  ASSUME SupervisionInv, NEW w \in Waiters, WaitMatches(w)
  PROVE  \E x \in Targets : /\ waiter' = [waiter EXCEPT ![w] = Told(x)]
                            /\ x \in waiter[w].held
<1> DEFINE r == waiter[w]
           q == Unread(w)
<1>1. /\ r \in Wait /\ r.on # Nil /\ Watches(r, log, Status(r.on))
      /\ log \in Seq(Sessions \X Statuses)
  BY DEF WaitMatches, SupervisionInv, Polled, Watching, Logged
<1>2. CASE Edges(w) # {} /\ waiter' = [waiter EXCEPT ![w] = Told(q[Min(Edges(w))][2])]
  <2>1. PICK n \in Nat : n = r.since
    BY <1>1, SupervisionAssumption DEF Wait
  <2>2. q = Newest(log, n)
    BY <2>1 DEF Unread
  <2>3. /\ q \in Seq(Sessions \X Statuses)
        /\ Len(q) = IF Len(log) > n THEN n ELSE Len(log)
        /\ \A i \in 1 .. Len(q) : q[i] = log[i + (Len(log) - Len(q))]
    BY <1>1, <2>2, NewestIs
  <2>4. /\ Edges(w) = {i \in DOMAIN q : q[i][1] = r.on /\ q[i][2] \in Targets}
        /\ DOMAIN q = 1 .. Len(q) /\ DOMAIN log = 1 .. Len(log)
    BY <1>1, <2>3 DEF Edges
  <2> HIDE DEF q, r
  <2>5. PICK k \in Edges(w) : k = Min(Edges(w))
    <3>1. Edges(w) \in SUBSET Nat
      BY <2>4
    <3>2. \E x \in Edges(w) : \A y \in Edges(w) : x <= y
      BY <1>2, <3>1, LeastNatural
    <3> QED BY <3>2, Zenon DEF Min
  <2>6. PICK before, after, j : before = Len(log) /\ after = Len(q) /\ j = k + (before - after)
    OBVIOUS
  <2>7. /\ before \in Nat /\ after = (IF before > n THEN n ELSE before) /\ k \in 1 .. after
        /\ j = k + (before - after)
    BY <1>1, <2>3, <2>4, <2>5, <2>6
  <2>8. j \in 1 .. before /\ j + n > before
    <3>1. CASE before > n
      BY <2>7, <3>1
    <3>2. CASE ~(before > n)
      BY <2>7, <3>2
    <3> QED BY <3>1, <3>2
  <2>9. j \in Window(r, log)
    BY <2>1, <2>4, <2>6, <2>8 DEF Window
  <2>10. q[k] = log[j]
    BY <2>3, <2>6, <2>7
  <2>11. q[k][1] = r.on /\ q[k][2] \in Targets
    BY <2>4, <2>5
  <2>12. q[k][2] \in r.held
    BY <1>1, <2>9, <2>10, <2>11 DEF Watches
  <2> QED BY <1>2, <2>5, <2>11, <2>12 DEF r
<1>3. CASE Status(r.on) \in Targets /\ waiter' = [waiter EXCEPT ![w] = Told(Status(r.on))]
  BY <1>1, <1>3 DEF Watches
<1> QED BY <1>2, <1>3 DEF WaitMatches

(* It gives up with nothing to report, in the log or in the status. *)
LEMMA NothingMissed ==
  ASSUME SupervisionInv, NEW w \in Waiters, WaitTimesOut(w)
  PROVE  waiter[w].entered = {} \/ waiter[w].since > LogCap
<1> DEFINE r == waiter[w]
           q == Unread(w)
<1> SUFFICES ASSUME NEW x \in r.entered, ~(r.since > LogCap) PROVE FALSE
  OBVIOUS
<1>1. /\ r \in Wait /\ r.on # Nil /\ Watches(r, log, Status(r.on)) /\ Edges(w) = {}
      /\ log \in Seq(Sessions \X Statuses)
  BY DEF WaitTimesOut, SupervisionInv, Polled, Watching, Logged
<1>2. PICK n \in Nat : n = r.since
  BY <1>1, SupervisionAssumption DEF Wait
<1>3. x \in Targets
  BY <1>1 DEF Wait
<1>4. q = Newest(log, n)
  BY <1>2 DEF Unread
<1>5. /\ q \in Seq(Sessions \X Statuses)
      /\ Len(q) = IF Len(log) > n THEN n ELSE Len(log)
      /\ \A i \in 1 .. Len(q) : q[i] = log[i + (Len(log) - Len(q))]
  BY <1>1, <1>4, NewestIs
<1>6. /\ Edges(w) = {i \in DOMAIN q : q[i][1] = r.on /\ q[i][2] \in Targets}
      /\ DOMAIN q = 1 .. Len(q) /\ DOMAIN log = 1 .. Len(log)
  BY <1>1, <1>5 DEF Edges
<1> HIDE DEF q, r
<1>7. PICK j \in Window(r, log) : log[j] = <<r.on, x>>
  BY <1>1 DEF Watches
<1>8. PICK before, after, k : before = Len(log) /\ after = Len(q) /\ k = j - (before - after)
  OBVIOUS
<1>9. /\ before \in Nat /\ after = (IF before > n THEN n ELSE before)
      /\ j \in 1 .. before /\ j + n > before
  BY <1>1, <1>2, <1>5, <1>6, <1>7, <1>8 DEF Window
<1>10. k \in 1 .. after /\ k + (before - after) = j
  BY <1>8, <1>9
<1>11. q[k] = <<r.on, x>>
  BY <1>5, <1>7, <1>8, <1>10
<1>12. k \in Edges(w)
  BY <1>3, <1>6, <1>8, <1>10, <1>11
<1> QED BY <1>1, <1>12

LEMMA WaitersKeepInv ==
  ASSUME SupervisionInv, NEW w \in Waiters,
         WaitMatches(w) \/ WaitTimesOut(w) \/ \E s \in Sessions : WaitBegins(w, s)
  PROVE  SupervisionInv'
<1>1. CASE WaitMatches(w)
  <2>1. PICK x \in Targets : waiter' = [waiter EXCEPT ![w] = Told(x)]
    BY <1>1, AnswerIs
  <2>2. Told(x) \in Wait /\ Told(x).on = Nil
    BY ToldIs, SupervisionAssumption
  <2>3. UNCHANGED <<sessions, recency, log>>
    BY <1>1 DEF WaitMatches
  <2> QED BY <2>1, <2>2, <2>3, WaiterKeepsInv
<1>2. CASE WaitTimesOut(w)
  <2>1. Told("timeout") \in Wait /\ Told("timeout").on = Nil
    BY ToldIs
  <2>2. waiter' = [waiter EXCEPT ![w] = Told("timeout")] /\ UNCHANGED <<sessions, recency, log>>
    BY <1>2 DEF WaitTimesOut
  <2> QED BY <2>1, <2>2, WaiterKeepsInv
<1>3. ASSUME NEW s \in Sessions, WaitBegins(w, s) PROVE SupervisionInv'
  <2>1. PICK st : st = Status(s)
    OBVIOUS
  <2>2. PICK r : r = Waiting(s)
    OBVIOUS
  <2>3. /\ r \in Wait /\ r.on = s /\ r.since = 0 /\ r.entered = {} /\ r.held = {st} \cap Targets
    <3>1. LogCap \in Nat
      BY SupervisionAssumption
    <3> QED BY <2>1, <2>2, <3>1 DEF Waiting, Wait
  <2>4. PICK q : q = log /\ q \in Seq(Sessions \X Statuses)
    BY DEF SupervisionInv, Logged
  <2>5. Window(r, q) = {}
    <3>1. DOMAIN q = 1 .. Len(q) /\ Len(q) \in Nat
      BY <2>4
    <3> QED BY <2>3, <3>1 DEF Window
  <2>6. Watches(r, q, st)
    BY <2>3, <2>5 DEF Watches
  <2>7. waiter' = [waiter EXCEPT ![w] = r] /\ UNCHANGED <<sessions, recency, log>>
    BY <1>3, <2>2 DEF WaitBegins
  <2>8. Watches(r, log, Status(r.on))
    BY <2>1, <2>3, <2>4, <2>6
  <2> QED BY <2>3, <2>7, <2>8, WaiterKeepsInv
<1> QED BY <1>1, <1>2, <1>3

-----------------------------------------------------------------------------
LEMMA InitMakesInv == Init => SupervisionInv
<1> SUFFICES ASSUME Init PROVE SupervisionInv
  OBVIOUS
<1>1. SessionCap \in Nat /\ LogCap \in Nat
  BY SupervisionAssumption
<1>2. ToSet(<< >>) = {} /\ IsInjective(<< >>)
  BY DEF ToSet, IsInjective
<1>3. \A s \in Sessions : Entry(s) = Fresh
  BY DEF Init, Entry
<1>4. Kept
  BY <1>3, FreshEntry DEF Init, Kept
<1>5. Recent /\ Logged
  BY <1>1, <1>2 DEF Init, Recent, Logged
<1>6. Told("none") \in Wait /\ Told("none").on = Nil
  BY ToldIs
<1>7. Polled /\ Watching
  BY <1>6 DEF Init, Polled, Watching
<1> QED BY <1>4, <1>5, <1>7 DEF SupervisionInv

LEMMA NextKeepsInv == SupervisionInv /\ [Next]_vars => SupervisionInv'
<1> SUFFICES ASSUME SupervisionInv, [Next]_vars PROVE SupervisionInv'
  OBVIOUS
<1>1. CASE UNCHANGED vars
  BY <1>1 DEF vars, SupervisionInv, Kept, Recent, Logged, Polled, Watching, Entry, Status, IsEntry,
              Short, Earned, Idle, Watches, Window
<1>2. ASSUME NEW w \in Waiters,
             WaitMatches(w) \/ WaitTimesOut(w) \/ \E s \in Sessions : WaitBegins(w, s)
      PROVE  SupervisionInv'
  BY <1>2, WaitersKeepInv
<1>3. ASSUME NEW s \in Sessions, UserPromptSubmit(s) PROVE SupervisionInv'
  BY <1>3, PromptKeepsInv
<1>4. ASSUME NEW s \in Sessions,
             \/ SessionStart(s) \/ Elicitation(s) \/ OtherEvent(s)
             \/ PermissionNotification(s) \/ OtherNotification(s)
             \/ \E r \in Permissions \cup {Nil} : PermissionRequest(s, r)
      PROVE  SupervisionInv'
  BY <1>4, PlainArmsKeepInv
<1>5. ASSUME NEW s \in Sessions, TaskCreated(s) \/ TaskCompleted(s)
      PROVE  SupervisionInv'
  BY <1>5, TasksKeepInv
<1>6. ASSUME NEW s \in Sessions, Stop(s)
      PROVE  SupervisionInv'
  BY <1>6, StopKeepsInv
<1>7. ASSUME NEW s \in Sessions,
             QuestionResolved(s) \/ \E r \in Permissions : PermissionResolved(s, r)
      PROVE  SupervisionInv'
  BY <1>7, ResolvedKeepInv
<1>8. ASSUME NEW s \in Sessions, StopFailure(s) \/ SessionEnd(s)
      PROVE  SupervisionInv'
  BY <1>8, EndingsKeepInv
<1>9. ASSUME NEW s \in Sessions, NEW a \in Agents, SubagentStart(s, a) \/ SubagentStop(s, a)
      PROVE  SupervisionInv'
  BY <1>9, SubagentsKeepInv
<1>10. ASSUME NEW s \in Sessions, NEW a \in Agents, HourPasses(s, a)
       PROVE  SupervisionInv'
  BY <1>10, HourKeepsInv
<1> QED
  BY <1>1, <1>2, <1>3, <1>4, <1>5, <1>6, <1>7, <1>8, <1>9, <1>10 DEF Next

LEMMA InvHolds == Spec => []SupervisionInv
BY InitMakesInv, NextKeepsInv, PTL DEF Spec

(* What the reducer knows and logs is well-formed and within its caps,     *)
(* whatever events come: the sessions it knows are those it has in order,  *)
(* no subagent both runs and has finished, none finished twice.            *)
THEOREM TypeCorrect == Spec => []TypeOK
<1>1. SupervisionInv => TypeOK
  <2> SUFFICES ASSUME SupervisionInv PROVE TypeOK
    OBVIOUS
  <2>1. ASSUME NEW s \in ToSet(recency)
        PROVE  /\ sessions[s].overdue \subseteq sessions[s].running
               /\ sessions[s].running \cap ToSet(sessions[s].done) = {}
               /\ IsInjective(sessions[s].done) /\ Len(sessions[s].done) <= DoneCap
    <3>1. s \in Sessions /\ sessions[s] # Nil
      BY DEF SupervisionInv, Recent
    <3>2. Entry(s) = sessions[s]
      BY <3>1 DEF Entry
    <3>3. IsEntry(Entry(s)) /\ Short(Entry(s))
      BY <3>1 DEF SupervisionInv, Kept
    <3> QED BY <3>2, <3>3 DEF IsEntry, Short
  <2> QED BY <2>1 DEF SupervisionInv, Kept, Recent, Logged, Polled, Wait, TypeOK
<1> QED BY <1>1, InvHolds, PTL

(* A session is never shown waiting for nothing: not for any number of     *)
(* sessions and subagents, any caps, and any order of the events.          *)
THEOREM NothingWaitsForNothing == Spec => []WaitingIsEarned
<1>1. SupervisionInv => WaitingIsEarned
  BY DEF SupervisionInv, Kept, WaitingIsEarned, Earned, Status
<1> QED BY <1>1, InvHolds, PTL

-----------------------------------------------------------------------------
(* Every step tells a waiter the truth. *)
Fair(w) == LET x == waiter'[w].reply IN
  (waiter[w].on # Nil /\ waiter'[w].on = Nil) =>
     /\ x \in Targets => x \in waiter[w].held
     /\ x = "timeout" => waiter[w].entered = {} \/ waiter[w].since > LogCap

(* No event ends a wait. *)
LEMMA IngestTellsNobody ==
  ASSUME SupervisionInv, NEW s, NEW new, Ingest(s, new), NEW w \in Waiters,
         waiter[w].on # Nil
  PROVE  waiter'[w].on # Nil
<1> DEFINE st == Swept(Entry(s), new).status
<1>1. waiter[w] \in Wait
  BY DEF SupervisionInv, Polled
<1>2. waiter'[w] \in {waiter[w], Watched(waiter[w], s, st)}
  BY DEF Ingest
<1>3. Watched(waiter[w], s, st).on = waiter[w].on
  BY <1>1 DEF Watched, Wait
<1> QED BY <1>2, <1>3

LEMMA StepTellsTheTruth ==
  ASSUME SupervisionInv, [Next]_vars, NEW w \in Waiters
  PROVE  Fair(w)
<1> SUFFICES ASSUME waiter[w].on # Nil, waiter'[w].on = Nil
             PROVE  /\ waiter'[w].reply \in Targets => waiter'[w].reply \in waiter[w].held
                    /\ waiter'[w].reply = "timeout" => waiter[w].entered = {} \/ waiter[w].since > LogCap
  BY DEF Fair
<1>1. waiter \in [Waiters -> Wait] /\ "timeout" \notin Targets /\ Nil \notin Sessions
      /\ Targets \subseteq Statuses
  BY SupervisionAssumption DEF SupervisionInv, Polled, Statuses
<1>2. ASSUME NEW v \in Waiters, WaitMatches(v) PROVE
             /\ waiter'[w].reply \in Targets => waiter'[w].reply \in waiter[w].held
             /\ waiter'[w].reply = "timeout" => waiter[w].entered = {} \/ waiter[w].since > LogCap
  <2>1. PICK x \in Targets : waiter' = [waiter EXCEPT ![v] = Told(x)] /\ x \in waiter[v].held
    BY <1>2, AnswerIs
  <2>2. v = w
    BY <1>1, <2>1
  <2>3. waiter'[w].reply = x
    BY <1>1, <2>1, <2>2, ToldIs
  <2> QED BY <1>1, <2>1, <2>2, <2>3
<1>3. ASSUME NEW v \in Waiters, WaitTimesOut(v) PROVE
             /\ waiter'[w].reply \in Targets => waiter'[w].reply \in waiter[w].held
             /\ waiter'[w].reply = "timeout" => waiter[w].entered = {} \/ waiter[w].since > LogCap
  <2>1. waiter' = [waiter EXCEPT ![v] = Told("timeout")]
    BY <1>3 DEF WaitTimesOut
  <2>2. v = w
    BY <1>1, <2>1
  <2>3. waiter'[w].reply = "timeout"
    BY <1>1, <2>1, <2>2, ToldIs
  <2>4. waiter[w].entered = {} \/ waiter[w].since > LogCap
    BY <1>3, <2>2, NothingMissed
  <2> QED BY <1>1, <2>3, <2>4
<1>4. ASSUME NEW v \in Waiters, NEW s \in Sessions, WaitBegins(v, s) PROVE FALSE
  <2>1. waiter' = [waiter EXCEPT ![v] = Waiting(s)] /\ Waiting(s).on = s
    BY <1>4 DEF WaitBegins, Waiting
  <2> QED BY <1>1, <2>1
<1>5. ASSUME NEW s \in Sessions, NEW new, Ingest(s, new) PROVE FALSE
  BY <1>5, IngestTellsNobody
<1>6. ASSUME NEW s \in Sessions,
             \/ SessionStart(s) \/ UserPromptSubmit(s) \/ TaskCreated(s) \/ TaskCompleted(s)
             \/ Stop(s) \/ Elicitation(s) \/ QuestionResolved(s)
             \/ PermissionNotification(s) \/ OtherNotification(s)
             \/ StopFailure(s) \/ SessionEnd(s) \/ OtherEvent(s)
             \/ \E a \in Agents : SubagentStart(s, a) \/ SubagentStop(s, a)
             \/ \E r \in Permissions : PermissionResolved(s, r)
             \/ \E r \in Permissions \cup {Nil} : PermissionRequest(s, r)
      PROVE  FALSE
  <2>1. \E new : Ingest(s, new)
    BY <1>6, Zenon
       DEF SessionStart, UserPromptSubmit, TaskCreated, TaskCompleted, Stop, Elicitation,
           QuestionResolved, PermissionNotification, OtherNotification, StopFailure, SessionEnd,
           OtherEvent, SubagentStart, SubagentStop, PermissionResolved, PermissionRequest
  <2> QED BY <1>5, <2>1
<1>7. CASE UNCHANGED waiter
  BY <1>7
<1>8. ASSUME NEW s \in Sessions, NEW a \in Agents, HourPasses(s, a) PROVE FALSE
  BY <1>8 DEF HourPasses
<1>9. CASE UNCHANGED vars
  BY <1>7, <1>9 DEF vars
<1> QED BY <1>2, <1>3, <1>4, <1>6, <1>8, <1>9, Zenon DEF Next

(* A caller of wait_for_status is told a status that its session has had   *)
(* since it called, and no edge to one it waits for is missed, unless more *)
(* edges came between two polls than the log holds.                        *)
THEOREM WaitersHearTheTruth == Spec => WaitersAreTold
<1>1. SupervisionInv /\ [Next]_vars => \A w \in Waiters : Fair(w)
  BY StepTellsTheTruth
<1>2. (\A w \in Waiters : Fair(w)) =>
        \A w \in Waiters : LET x == waiter'[w].reply IN
          (waiter[w].on # Nil /\ waiter'[w].on = Nil) =>
             /\ x \in Targets => x \in waiter[w].held
             /\ x = "timeout" => waiter[w].entered = {} \/ waiter[w].since > LogCap
  BY DEF Fair
<1> QED BY <1>1, <1>2, InvHolds, PTL DEF Spec, WaitersAreTold
=============================================================================
