----------------------------- MODULE EventProofs -----------------------------
(***************************************************************************)
(* The path of an event: Journal, which stores it, EventSpine, which       *)
(* carries it to the core, and FleetWake, which wakes who waits for it.    *)
(* For every instance, kills, repairs and compactions lose no event, reuse *)
(* no number and believe no stale head; the core reduces every event once, *)
(* whatever is replayed and however often it reconnects; no wake is lost,  *)
(* and none is typed twice in one idle window.                             *)
(***************************************************************************)
EXTENDS EventSpine, FleetWake, FiniteSetTheorems, SequenceTheorems,
        WellFoundedInduction, TLAPS


-----------------------------------------------------------------------------
(* Induction, as the provers can use it: the least counterexample.          *)

LEMMA LeastNatural ==
  ASSUME NEW T \in SUBSET Nat, T # {}
  PROVE  \E x \in T : \A y \in T : x <= y
<1>1. PICK x \in T : \A y \in T : <<y, x>> \notin OpToRel(<,Nat)
  BY NatLessThanWellFounded, WFMin, Zenon
<1>2. \A y \in T : ~(y < x)
  BY <1>1 DEF OpToRel
<1> QED BY <1>2

LEMMA NaturalsFrom ==
  ASSUME NEW N \in Nat, NEW P, 0 \in P,
         \A k \in 1 .. N : k - 1 \in P => k \in P
  PROVE  0 .. N \subseteq P
<1> DEFINE T == {k \in 0 .. N : k \notin P}
<1> SUFFICES ASSUME T # {} PROVE FALSE
  OBVIOUS
<1>1. PICK k \in T : \A y \in T : k <= y
  <2>1. T \in SUBSET Nat
    OBVIOUS
  <2> HIDE DEF T
  <2> QED BY <2>1, LeastNatural
<1>2. k \in 1 .. N /\ k \notin P
  OBVIOUS
<1>3. k - 1 \in 0 .. N /\ k - 1 \notin T
  BY <1>1, <1>2
<1> QED BY <1>2, <1>3

(* What holds of the empty sequence and is kept by Append holds of all.    *)
LEMMA SequencesFrom ==
  ASSUME NEW S, NEW P, << >> \in P,
         \A s \in Seq(S), x \in S : s \in P => Append(s, x) \in P
  PROVE  Seq(S) \subseteq P
<1> SUFFICES ASSUME NEW s \in Seq(S) PROVE s \in P
  OBVIOUS
<1> DEFINE Obeys == {k \in 0 .. Len(s) : SubSeq(s, 1, k) \in P}
<1>1. Len(s) \in Nat /\ \A i \in 1 .. Len(s) : s[i] \in S
  OBVIOUS
<1>2. 0 \in Obeys
  <2>1. SubSeq(s, 1, 0) = << >>
    BY SubSeqEmpty
  <2>2. SubSeq(s, 1, 0) \in P
    BY <2>1, Zenon
  <2>3. 0 \in 0 .. Len(s)
    BY <1>1
  <2> QED BY <2>2, <2>3, Zenon
<1>3. ASSUME NEW k \in 1 .. Len(s), k - 1 \in Obeys PROVE k \in Obeys
  <2>1. SubSeq(s, 1, k - 1) \in Seq(S) /\ SubSeq(s, 1, k - 1) \in P
    BY <1>1, <1>3
  <2>2. SubSeq(s, 1, k) = Append(SubSeq(s, 1, k - 1), s[k])
    BY <1>1, <1>3
  <2>3. SubSeq(s, 1, k) \in P
    BY <1>1, <2>1, <2>2
  <2> QED BY <1>1, <2>3
<1>4. 0 .. Len(s) \subseteq Obeys
  <2> HIDE DEF Obeys
  <2> QED BY <1>1, <1>2, <1>3, NaturalsFrom
<1>5. SubSeq(s, 1, Len(s)) = s
  BY SubSeqFull, Zenon
<1>6. Len(s) \in Obeys
  BY <1>1, <1>4
<1> QED BY <1>5, <1>6, Zenon

(* A function defined by recursion on 0 .. N exists.                       *)
Steps(N, D) == [1 .. N -> [D -> D]]
Iterates(N, D, start, step) ==
  \E f \in [0 .. N -> D] : f[0] = start /\ \A k \in 1 .. N : f[k] = step[k][f[k - 1]]

LEMMA RecursionExists ==
  ASSUME NEW N \in Nat, NEW D, NEW start \in D, NEW step \in Steps(N, D)
  PROVE  Iterates(N, D, start, step)
<1> USE DEF Steps, Iterates
<1> DEFINE Obeys(f, m) == f[0] = start /\ \A k \in 1 .. m : f[k] = step[k][f[k - 1]]
           P == {m \in 0 .. N : \E f \in [0 .. m -> D] : Obeys(f, m)}
<1>1. 0 \in P
  <2>1. PICK h : h = [k \in 0 .. 0 |-> start]
    OBVIOUS
  <2>2. h \in [0 .. 0 -> D] /\ Obeys(h, 0)
    BY <2>1
  <2>3. \E f \in [0 .. 0 -> D] : Obeys(f, 0)
    BY <2>2, Zenon
  <2> QED BY <2>3
<1>2. ASSUME NEW m \in 1 .. N, m - 1 \in P PROVE m \in P
  <2>1. PICK g \in [0 .. m - 1 -> D] : Obeys(g, m - 1)
    BY <1>2
  <2>2. step[m] \in [D -> D] /\ g[m - 1] \in D
    BY <1>2, <2>1
  <2>3. PICK d \in D : d = step[m][g[m - 1]]
    BY <2>2
  <2>4. PICK h : h = [k \in 0 .. m |-> IF k = m THEN d ELSE g[k]]
    OBVIOUS
  <2>5. h \in [0 .. m -> D]
    BY <1>2, <2>1, <2>3, <2>4
  <2>6. h[0] = g[0] /\ h[m] = d /\ \A k \in 0 .. m - 1 : h[k] = g[k]
    BY <1>2, <2>4
  <2>7. ASSUME NEW k \in 1 .. m PROVE h[k] = step[k][h[k - 1]]
    <3>1. CASE k = m
      <4>1. h[k - 1] = g[m - 1]
        BY <1>2, <2>6, <3>1
      <4> QED BY <2>3, <2>6, <3>1, <4>1
    <3>2. CASE k # m
      <4>1. k \in 1 .. m - 1 /\ k \in 0 .. m - 1 /\ k - 1 \in 0 .. m - 1
        BY <1>2, <3>2
      <4> QED BY <2>1, <2>6, <4>1
    <3> QED BY <3>1, <3>2
  <2>8. Obeys(h, m)
    BY <2>1, <2>6, <2>7
  <2>9. \E f \in [0 .. m -> D] : Obeys(f, m)
    BY <2>5, <2>8, Zenon
  <2>10. m \in 0 .. N
    BY <1>2
  <2> QED BY <2>9, <2>10, Zenon
<1>3. 0 .. N \subseteq P
  <2> HIDE DEF P
  <2> QED BY <1>1, <1>2, NaturalsFrom
<1>4. N \in P
  BY <1>3
<1> QED BY <1>4

-----------------------------------------------------------------------------
(* The scan of the file.                                                   *)

Memory == Seq([seq : Nat, id : Identities])
Distinct(m) == \A i, j \in DOMAIN m : m[i].id = m[j].id => i = j
Heads == {h \in [seq : Nat, len : Nat, recent : Memory] : Distinct(h.recent)}

\* The identities that m holds after place p.
After(m, p) == {m[i].id : i \in p + 1 .. Len(m)}

\* The identity x is in m, with only later ones of L behind it.
Holds(m, x, L) == \E p \in DOMAIN m : m[p].id = x /\ After(m, p) \subseteq L

\* Or it has left the window, and L shows why.
Remembers(m, x, L) == Holds(m, x, L) \/ Cardinality(L) >= Window

LEMMA RemoveAtIs ==
  ASSUME NEW S, NEW q \in Seq(S), NEW k \in 1 .. Len(q), NEW r, r = RemoveAt(q, k)
  PROVE  /\ r \in Seq(S) /\ Len(r) = Len(q) - 1
         /\ \A i \in 1 .. Len(r) : r[i] = IF i < k THEN q[i] ELSE q[i + 1]
<1> DEFINE a == SubSeq(q, 1, k - 1)
           b == SubSeq(q, k + 1, Len(q))
<1>1. /\ {1, k - 1, k + 1, Len(q)} \subseteq Int
      /\ \A i \in 1 .. k - 1 : q[i] \in S
      /\ \A i \in k + 1 .. Len(q) : q[i] \in S
  OBVIOUS
<1>2. a \in Seq(S) /\ Len(a) = k - 1 /\ \A i \in 1 .. k - 1 : a[i] = q[i]
  <2>1. /\ a \in Seq(S)
        /\ Len(a) = IF 1 <= k - 1 THEN k - 1 - 1 + 1 ELSE 0
        /\ \A i \in 1 .. k - 1 - 1 + 1 : a[i] = q[1 + i - 1]
    BY <1>1, SubSeqProperties
  <2> HIDE DEF a
  <2> QED BY <2>1
<1>3. b \in Seq(S) /\ Len(b) = Len(q) - k /\ \A i \in 1 .. Len(q) - k : b[i] = q[k + i]
  <2>1. /\ b \in Seq(S)
        /\ Len(b) = IF k + 1 <= Len(q) THEN Len(q) - (k + 1) + 1 ELSE 0
        /\ \A i \in 1 .. Len(q) - (k + 1) + 1 : b[i] = q[k + 1 + i - 1]
    BY <1>1, SubSeqProperties
  <2> HIDE DEF b
  <2> QED BY <2>1
<1>4. r = a \o b
  BY DEF RemoveAt
<1> HIDE DEF a, b
<1>5. PICK n \in Nat : n = Len(q)
  OBVIOUS
<1>6. /\ r \in Seq(S) /\ Len(r) = Len(a) + Len(b)
      /\ \A i \in 1 .. Len(a) + Len(b) : r[i] = IF i <= Len(a) THEN a[i] ELSE b[i - Len(a)]
  <2>1. a \in Seq(S) /\ b \in Seq(S)
    BY <1>2, <1>3
  <2>2. /\ a \o b \in Seq(S) /\ Len(a \o b) = Len(a) + Len(b)
        /\ \A i \in 1 .. Len(a) + Len(b) : (a \o b)[i] = IF i <= Len(a) THEN a[i] ELSE b[i - Len(a)]
    BY <2>1, ConcatProperties, Zenon
  <2> QED BY <1>4, <2>2, Zenon
<1>7. Len(r) = n - 1
  BY <1>2, <1>3, <1>5, <1>6
<1>8. ASSUME NEW i \in 1 .. n - 1 PROVE r[i] = IF i < k THEN q[i] ELSE q[i + 1]
  <2>1. r[i] = IF i <= k - 1 THEN a[i] ELSE b[i - (k - 1)]
    BY <1>2, <1>3, <1>5, <1>6
  <2>2. CASE i < k
    BY <1>2, <2>1, <2>2
  <2>3. CASE ~(i < k)
    <3>1. i - (k - 1) \in 1 .. n - k /\ k + (i - (k - 1)) = i + 1
      BY <1>5, <2>3
    <3>2. b[i - (k - 1)] = q[k + (i - (k - 1))]
      BY <1>3, <1>5, <3>1
    <3> QED BY <2>1, <2>3, <3>1, <3>2
  <2> QED BY <2>2, <2>3
<1> QED BY <1>5, <1>6, <1>7, <1>8

LEMMA OthersAre ==
  ASSUME NEW m \in Memory, Distinct(m), NEW x \in Identities, NEW r, r = Others(m, x)
  PROVE  /\ r \in Memory /\ Distinct(r)
         /\ \A i \in DOMAIN r : r[i].id # x /\ \E j \in DOMAIN m : r[i] = m[j]
         /\ \A y \in Identities \ {x} : \A L : Holds(m, y, L) => Holds(r, y, L)
<1>0. Len(m) \in Nat /\ DOMAIN m = 1 .. Len(m)
  BY DEF Memory
<1>1. CASE \A i \in 1 .. Len(m) : m[i].id # x
  <2>1. r = m
    BY <1>1, Zenon DEF Others, RemoveFirstMatch
  <2> QED BY <1>0, <1>1, <2>1
<1>2. ASSUME NEW k \in 1 .. Len(m), m[k].id = x
      PROVE  /\ r \in Memory /\ Distinct(r)
             /\ \A i \in DOMAIN r : r[i].id # x /\ \E j \in DOMAIN m : r[i] = m[j]
             /\ \A y \in Identities \ {x} : \A L : Holds(m, y, L) => Holds(r, y, L)
  <2> DEFINE P == {i \in 1 .. Len(m) : m[i].id = x}
  <2>1. P = {k}
    BY <1>0, <1>2 DEF Distinct
  <2>2. SelectInSeq(m, LAMBDA e : e.id = x) = Min(P)
    BY <1>2 DEF SelectInSeq
  <2>3. Min({k}) = k
    BY DEF Min
  <2>4. r = RemoveAt(m, k)
    BY <1>2, <2>1, <2>2, <2>3, Zenon DEF Others, RemoveFirstMatch
  <2>5. /\ r \in Memory /\ Len(r) = Len(m) - 1
        /\ \A i \in 1 .. Len(r) : r[i] = IF i < k THEN m[i] ELSE m[i + 1]
    BY <2>4, RemoveAtIs DEF Memory
  <2>6. DOMAIN r = 1 .. Len(m) - 1
    BY <1>0, <2>5 DEF Memory
  <2>7. Distinct(r)
    <3> SUFFICES ASSUME NEW i \in 1 .. Len(m) - 1, NEW j \in 1 .. Len(m) - 1, r[i].id = r[j].id PROVE i = j
      BY <2>6 DEF Distinct
    <3> DEFINE u == IF i < k THEN i ELSE i + 1
               v == IF j < k THEN j ELSE j + 1
    <3>1. u \in 1 .. Len(m) /\ v \in 1 .. Len(m) /\ r[i] = m[u] /\ r[j] = m[v]
      BY <1>0, <2>5
    <3>2. u = v
      <4> HIDE DEF u, v
      <4> QED BY <1>0, <3>1 DEF Distinct
    <3> QED BY <3>2
  <2>8. ASSUME NEW i \in DOMAIN r PROVE r[i].id # x /\ \E j \in DOMAIN m : r[i] = m[j]
    <3> DEFINE u == IF i < k THEN i ELSE i + 1
    <3>1. u \in 1 .. Len(m) /\ u # k /\ r[i] = m[u]
      BY <1>0, <2>5, <2>6
    <3> HIDE DEF u
    <3> QED BY <1>0, <1>2, <3>1 DEF Distinct
  <2>9. ASSUME NEW y \in Identities \ {x}, NEW L, Holds(m, y, L) PROVE Holds(r, y, L)
    <3>1. PICK p \in 1 .. Len(m) : m[p].id = y /\ After(m, p) \subseteq L
      BY <1>0, <2>9 DEF Holds
    <3>2. p # k
      BY <1>2, <2>9, <3>1
    <3> DEFINE w == IF p < k THEN p ELSE p - 1
    <3>3. w \in 1 .. Len(m) - 1 /\ r[w] = m[p]
      BY <1>0, <2>5, <3>2
    <3>4. ASSUME NEW i \in w + 1 .. Len(r) PROVE r[i].id \in L
      <4> DEFINE u == IF i < k THEN i ELSE i + 1
      <4>1. u \in p + 1 .. Len(m) /\ r[i] = m[u]
        BY <1>0, <2>5, <3>2, <3>4
      <4> HIDE DEF u
      <4> QED BY <3>1, <4>1 DEF After
    <3>5. After(r, w) \subseteq L
      BY <3>4 DEF After
    <3> HIDE DEF w
    <3> QED BY <2>6, <3>1, <3>3, <3>5 DEF Holds
  <2> QED BY <2>5, <2>7, <2>8, <2>9
<1> QED BY <1>1, <1>2

LEMMA FiniteFacts ==
  ASSUME NEW L, NEW x, IsFiniteSet(L)
  PROVE  IsFiniteSet(L \cup {x}) /\ Cardinality(L) \in Nat /\ Cardinality(L) <= Cardinality(L \cup {x})
<1>1. IsFiniteSet(L \cup {x})
  BY FS_AddElement
<1>2. L \subseteq L \cup {x}
  OBVIOUS
<1> QED BY <1>1, <1>2, FS_Subset, FS_CardinalityType

\* Distinct entries behind a place are as many as the identities there.
LEMMA AfterCount ==
  ASSUME NEW m \in Memory, Distinct(m), NEW p \in 0 .. Len(m)
  PROVE  IsFiniteSet(After(m, p)) /\ Cardinality(After(m, p)) = Len(m) - p
<1>0. PICK n \in Nat : n = Len(m) /\ DOMAIN m = 1 .. n
  BY DEF Memory
<1> DEFINE I == p + 1 .. n
           f == [i \in I |-> m[i].id]
<1>1. IsFiniteSet(I) /\ Cardinality(I) = n - p
  <2>1. p + 1 \in Int /\ n \in Int
    BY <1>0
  <2>2. IsFiniteSet(I) /\ Cardinality(I) = IF p + 1 > n THEN 0 ELSE n - (p + 1) + 1
    BY <2>1, FS_Interval, Zenon
  <2> QED BY <1>0, <2>2
<1>2. f \in Bijection(I, After(m, p))
  <2>1. f \in [I -> After(m, p)]
    BY <1>0 DEF After
  <2>2. \A i, j \in I : f[i] = f[j] => i = j
    BY <1>0 DEF Distinct
  <2>3. \A y \in After(m, p) : \E i \in I : f[i] = y
    BY <1>0 DEF After
  <2> QED BY <2>1, <2>2, <2>3 DEF Bijection, Injection, Surjection, IsInjective
<1> HIDE DEF f, I
<1>3. IsFiniteSet(After(m, p)) /\ Cardinality(After(m, p)) = Cardinality(I)
  BY <1>1, <1>2, FS_Bijection, Zenon DEF ExistsBijection
<1> QED BY <1>0, <1>1, <1>3

LEMMA RememberIs ==
  ASSUME NEW m \in Memory, Distinct(m), NEW x \in Identities, NEW k \in Nat, NEW q, q = Remember(m, x, k)
  PROVE  /\ q \in Memory /\ Distinct(q) /\ Holds(q, x, {})
         /\ \A i \in DOMAIN q : q[i] = [seq |-> k, id |-> x] \/ \E j \in DOMAIN m : q[i] = m[j]
         /\ \A y \in Identities \ {x} : \A L :
              IsFiniteSet(L) /\ Remembers(m, y, L) => Remembers(q, y, L \cup {x})
<1>1. PICK e : e = [seq |-> k, id |-> x]
  OBVIOUS
<1>2. PICK r : r = Others(m, x)
  OBVIOUS
<1>3. /\ r \in Memory /\ Distinct(r)
      /\ \A i \in DOMAIN r : r[i].id # x /\ \E j \in DOMAIN m : r[i] = m[j]
      /\ \A y \in Identities \ {x} : \A L : Holds(m, y, L) => Holds(r, y, L)
  BY <1>2, OthersAre
<1>4. PICK all : all = Append(r, e)
  OBVIOUS
<1>5. PICK n \in Nat : n = Len(r) /\ DOMAIN r = 1 .. n
  BY <1>3 DEF Memory
<1>6. /\ all \in Memory /\ Len(all) = n + 1 /\ DOMAIN all = 1 .. n + 1
      /\ all[n + 1] = e /\ \A i \in 1 .. n : all[i] = r[i]
  BY <1>1, <1>3, <1>4, <1>5 DEF Memory
<1>7. PICK z \in Nat \ {0} : z = n + 1
  BY <1>5
<1>8. PICK a : a = IF z > Window THEN z - Window + 1 ELSE 1
  OBVIOUS
<1>9. Window \in Nat \ {0} /\ a \in 1 .. z
  BY <1>7, <1>8, JournalAssumption
<1>10. q \in Memory /\ Len(q) = n + 2 - a /\ \A i \in 1 .. n + 2 - a : q[i] = all[a + i - 1]
  <2> DEFINE S == [seq : Nat, id : Identities]
  <2>1. x # NoId /\ Len(all) = z
    BY <1>6, <1>7, JournalAssumption
  <2>2. q = SubSeq(all, IF Len(all) > Window THEN Len(all) - Window + 1 ELSE 1, Len(all))
    BY <1>1, <1>2, <1>4, <2>1, Zenon DEF Remember
  <2>3. q = SubSeq(all, a, z)
    BY <1>8, <2>1, <2>2, Zenon
  <2>4. all \in Seq(S)
    BY <1>6 DEF Memory
  <2> HIDE DEF S
  <2>5. \A i \in a .. z : all[i] \in S
    BY <1>9, <2>1, <2>4
  <2>6. /\ q \in Seq(S) /\ Len(q) = IF a <= z THEN z - a + 1 ELSE 0
        /\ \A i \in 1 .. z - a + 1 : q[i] = all[a + i - 1]
    BY <1>9, <2>3, <2>5, SubSeqProperties
  <2> QED BY <1>7, <1>9, <2>6 DEF Memory, S
<1>11. DOMAIN q = 1 .. n + 2 - a
  BY <1>10 DEF Memory
<1>12. Distinct(all)
  <2>1. \A i \in 1 .. n : all[i].id # x
    BY <1>3, <1>5, <1>6
  <2>2. all[n + 1].id = x
    BY <1>1, <1>6
  <2>3. \A i, j \in 1 .. n : all[i].id = all[j].id => i = j
    BY <1>3, <1>5, <1>6 DEF Distinct
  <2> QED BY <1>6, <2>1, <2>2, <2>3 DEF Distinct
<1>13. Distinct(q)
  <2> SUFFICES ASSUME NEW i \in 1 .. n + 2 - a, NEW j \in 1 .. n + 2 - a, q[i].id = q[j].id PROVE i = j
    BY <1>11 DEF Distinct
  <2>1. PICK u, v \in 1 .. n + 1 : u = a + i - 1 /\ v = a + j - 1
    BY <1>5, <1>7, <1>9
  <2>2. all[u].id = all[v].id
    BY <1>10, <2>1
  <2>3. u = v
    BY <1>6, <1>12, <2>2 DEF Distinct
  <2> QED BY <1>5, <1>9, <2>1, <2>3
<1>14. Holds(q, x, {})
  <2>1. n + 2 - a \in 1 .. n + 2 - a /\ q[n + 2 - a].id = x
    BY <1>1, <1>6, <1>7, <1>9, <1>10
  <2>2. After(q, n + 2 - a) = {}
    BY <1>7, <1>9, <1>10 DEF After
  <2> QED BY <1>11, <2>1, <2>2 DEF Holds
<1>15. ASSUME NEW i \in DOMAIN q PROVE q[i] = e \/ \E j \in DOMAIN m : q[i] = m[j]
  <2>1. PICK u \in 1 .. n + 1 : q[i] = all[u]
    BY <1>7, <1>9, <1>10, <1>11
  <2> QED BY <1>3, <1>5, <1>6, <2>1
<1>16. ASSUME NEW y \in Identities \ {x}, NEW L, IsFiniteSet(L), Remembers(m, y, L)
       PROVE  Remembers(q, y, L \cup {x})
  <2>1. /\ IsFiniteSet(L \cup {x}) /\ Cardinality(L) \in Nat /\ Cardinality(L \cup {x}) \in Nat
        /\ Cardinality(L) <= Cardinality(L \cup {x})
    BY <1>16, FiniteFacts, FS_CardinalityType
  <2>2. CASE Cardinality(L) >= Window
    BY <1>9, <2>1, <2>2 DEF Remembers
  <2>3. CASE Holds(m, y, L)
    <3>1. PICK p \in 1 .. n : r[p].id = y /\ After(r, p) \subseteq L
      BY <1>3, <1>5, <2>3 DEF Holds
    <3>2. all[p].id = y
      BY <1>6, <3>1
    <3>3. After(all, p) \subseteq L \cup {x}
      <4> SUFFICES ASSUME NEW i \in p + 1 .. n + 1 PROVE all[i].id \in L \cup {x}
        BY <1>6 DEF After
      <4>1. CASE i = n + 1
        BY <1>1, <1>6, <4>1
      <4>2. CASE i # n + 1
        <5>1. i \in p + 1 .. n /\ i \in 1 .. n
          BY <4>2
        <5> QED BY <1>5, <1>6, <3>1, <5>1 DEF After
      <4> QED BY <4>1, <4>2
    <3>4. CASE p >= a
      <4>1. PICK w : w = p - a + 1
        OBVIOUS
      <4>2. w \in 1 .. n + 2 - a /\ a + w - 1 = p
        BY <1>7, <1>9, <3>4, <4>1
      <4>3. q[w].id = y
        BY <1>10, <3>2, <4>2
      <4>4. After(q, w) \subseteq After(all, p)
        <5> SUFFICES ASSUME NEW i \in w + 1 .. n + 2 - a PROVE q[i].id \in After(all, p)
          BY <1>10 DEF After
        <5>1. i \in 1 .. n + 2 - a /\ a + i - 1 \in p + 1 .. n + 1
          BY <1>7, <1>9, <4>2
        <5> QED BY <1>6, <1>10, <5>1 DEF After
      <4> QED BY <1>11, <3>3, <4>2, <4>3, <4>4 DEF Holds, Remembers
    <3>5. CASE p < a
      <4>1. n + 1 - p >= Window
        BY <1>7, <1>8, <1>9, <3>1, <3>5
      <4>2. IsFiniteSet(After(all, p)) /\ Cardinality(After(all, p)) = n + 1 - p
        BY <1>6, <1>12, AfterCount
      <4>3. Cardinality(After(all, p)) <= Cardinality(L \cup {x})
        BY <2>1, <3>3, FS_Subset
      <4> QED BY <1>9, <2>1, <4>1, <4>2, <4>3 DEF Remembers
    <3> QED BY <1>9, <3>4, <3>5
  <2> QED BY <1>16, <2>2, <2>3 DEF Remembers
<1> QED BY <1>1, <1>10, <1>13, <1>14, <1>15, <1>16

LEMMA AdvancedIs ==
  ASSUME NEW h \in Heads, NEW r \in Record
  PROVE  /\ Advanced(h, r) \in Heads
         /\ Advanced(h, r).seq = Numbered(h.seq, r) /\ Advanced(h, r).len = h.len + r.size
         /\ Advanced(h, r).recent = Remember(h.recent, r.id, Numbered(h.seq, r))
<1>1. PICK k : k = Numbered(h.seq, r)
  OBVIOUS
<1>2. k \in Nat
  BY <1>1 DEF Numbered, Record, Heads
<1>3. PICK q : q = Remember(h.recent, r.id, k)
  OBVIOUS
<1>4. q \in Memory /\ Distinct(q)
  <2>1. h.recent \in Memory /\ Distinct(h.recent) /\ r.id \in Identities \cup {NoId}
    BY DEF Heads, Record
  <2>2. CASE r.id = NoId
    BY <1>3, <2>1, <2>2 DEF Remember
  <2>3. CASE r.id \in Identities
    BY <1>2, <1>3, <2>1, <2>3, RememberIs
  <2> QED BY <2>1, <2>2, <2>3
<1>5. Advanced(h, r) = [seq |-> k, len |-> h.len + r.size, recent |-> q]
  BY <1>1, <1>3 DEF Advanced
<1>6. h.len + r.size \in Nat
  BY DEF Heads, Record
<1> HIDE DEF Memory, Distinct
<1> QED BY <1>1, <1>2, <1>3, <1>4, <1>5, <1>6 DEF Heads

LEMMA NoHeadIs == NoHead \in Heads
BY DEF NoHead, Heads, Memory, Distinct

LEMMA ScanUnfolds ==
  ASSUME NEW s \in Seq(Record)
  PROVE  \E f \in [0 .. Len(s) -> Heads] :
           /\ f[0] = NoHead /\ \A k \in 1 .. Len(s) : f[k] = Advanced(f[k - 1], s[k])
           /\ Scanned(s) = f[Len(s)]
<1>0. PICK n \in Nat : n = Len(s) /\ \A k \in 1 .. n : s[k] \in Record
  OBVIOUS
<1> DEFINE step == [k \in 1 .. n |-> [h \in Heads |-> Advanced(h, s[k])]]
           Obeys(f) == f = [k \in 0 .. n |-> IF k = 0 THEN NoHead ELSE Advanced(f[k - 1], s[k])]
           upTo == CHOOSE f : Obeys(f)
<1>1. step \in [1 .. n -> [Heads -> Heads]]
  BY <1>0, AdvancedIs
<1>2. PICK f \in [0 .. n -> Heads] : f[0] = NoHead /\ \A k \in 1 .. n : f[k] = step[k][f[k - 1]]
  <2>1. step \in Steps(n, Heads)
    BY <1>1 DEF Steps
  <2> HIDE DEF step
  <2>2. Iterates(n, Heads, NoHead, step)
    BY <2>1, NoHeadIs, RecursionExists
  <2> QED BY <2>2 DEF Iterates
<1>3. ASSUME NEW k \in 1 .. n PROVE f[k] = Advanced(f[k - 1], s[k])
  <2>1. f[k - 1] \in Heads
    BY <1>2
  <2> QED BY <1>2, <2>1
<1>4. Obeys(f)
  <2>1. f = [k \in 0 .. n |-> f[k]]
    BY <1>2
  <2>2. \A k \in 0 .. n : f[k] = IF k = 0 THEN NoHead ELSE Advanced(f[k - 1], s[k])
    BY <1>2, <1>3
  <2> QED BY <2>1, <2>2
<1>5. Obeys(upTo)
  <2> HIDE DEF Obeys
  <2> QED BY <1>4
<1>6. Scanned(s) = upTo[n]
  BY <1>0 DEF Scanned
<1> HIDE DEF upTo
<1>7. upTo[0] = NoHead /\ \A k \in 1 .. n : upTo[k] = Advanced(upTo[k - 1], s[k])
  BY <1>5
<1>8. upTo \in [0 .. n -> Heads]
  <2> DEFINE P == {k \in 0 .. n : upTo[k] \in Heads}
  <2>1. 0 \in P
    BY <1>7, NoHeadIs
  <2>2. ASSUME NEW k \in 1 .. n, k - 1 \in P PROVE k \in P
    BY <1>0, <1>7, <2>2, AdvancedIs
  <2>3. 0 .. n \subseteq P
    <3> HIDE DEF P
    <3> QED BY <2>1, <2>2, NaturalsFrom
  <2>4. upTo = [k \in 0 .. n |-> upTo[k]]
    BY <1>5
  <2> QED BY <2>3, <2>4
<1> QED BY <1>0, <1>6, <1>7, <1>8

LEMMA ScanEmpty == Scanned(<< >>) = NoHead
<1>1. << >> \in Seq(Record) /\ Len(<< >>) = 0
  OBVIOUS
<1> QED BY <1>1, ScanUnfolds

LEMMA ScanAppend ==
  ASSUME NEW s \in Seq(Record), NEW r \in Record
  PROVE  Scanned(s) \in Heads /\ Scanned(Append(s, r)) = Advanced(Scanned(s), r)
<1>1. PICK t : t = Append(s, r)
  OBVIOUS
<1>2. PICK n \in Nat : n = Len(s)
  OBVIOUS
<1>3. t \in Seq(Record) /\ Len(t) = n + 1 /\ t[n + 1] = r /\ \A k \in 1 .. n : t[k] = s[k] /\ s[k] \in Record
  BY <1>1, <1>2
<1>4. PICK f \in [0 .. n -> Heads] :
        /\ f[0] = NoHead /\ \A k \in 1 .. n : f[k] = Advanced(f[k - 1], s[k])
        /\ Scanned(s) = f[n]
  BY <1>2, ScanUnfolds
<1>5. PICK g \in [0 .. n + 1 -> Heads] :
        /\ g[0] = NoHead /\ \A k \in 1 .. n + 1 : g[k] = Advanced(g[k - 1], t[k])
        /\ Scanned(t) = g[n + 1]
  BY <1>3, ScanUnfolds
<1> DEFINE P == {k \in 0 .. n : f[k] = g[k]}
<1>6. 0 \in P
  BY <1>4, <1>5
<1>7. ASSUME NEW k \in 1 .. n, k - 1 \in P PROVE k \in P
  <2>1. g[k] = Advanced(g[k - 1], t[k]) /\ f[k] = Advanced(f[k - 1], s[k])
    BY <1>4, <1>5
  <2> QED BY <1>3, <1>7, <2>1
<1>8. 0 .. n \subseteq P
  <2> HIDE DEF P
  <2> QED BY <1>6, <1>7, NaturalsFrom
<1>9. f[n] = g[n] /\ g[n + 1] = Advanced(g[n], t[n + 1])
  <2>1. n + 1 \in 1 .. n + 1 /\ (n + 1) - 1 = n
    OBVIOUS
  <2>2. g[n + 1] = Advanced(g[(n + 1) - 1], t[n + 1])
    BY <1>5, <2>1
  <2> QED BY <1>8, <2>1, <2>2
<1>10. f[n] \in Heads
  BY <1>4
<1> QED BY <1>1, <1>3, <1>4, <1>5, <1>9, <1>10

Rising(s) == \A i, j \in DOMAIN s : i < j => s[i].seq < s[j].seq

\* The identities journalled after place i.
Since(s, i) == {s[k].id : k \in i + 1 .. Len(s)} \ {NoId}

\* What the head h knows of the records s it stands for.
Knows(h, s) ==
  /\ h \in Heads
  /\ h.seq \in 0 .. MaxSeq
  /\ h.recent \in Seq(Recent)
  /\ h.seq = 0 \/ \E i \in DOMAIN s : h.seq = s[i].seq
  /\ \A i \in DOMAIN s : s[i].seq <= h.seq
  /\ \A i \in DOMAIN s : s[i].id # NoId => Remembers(h.recent, s[i].id, Since(s, i))

LEMMA SinceFinite ==
  ASSUME NEW s \in Seq(Record), NEW i \in 0 .. Len(s)
  PROVE  IsFiniteSet(Since(s, i))
<1>0. PICK n \in Nat : n = Len(s)
  OBVIOUS
<1> DEFINE I == i + 1 .. n
           f == [k \in I |-> s[k].id]
<1>1. IsFiniteSet(I)
  <2>1. i + 1 \in Int /\ n \in Int
    BY <1>0
  <2> QED BY <2>1, FS_Interval, Zenon
<1>2. {s[k].id : k \in I} = {f[k] : k \in I}
  OBVIOUS
<1>3. IsFiniteSet({s[k].id : k \in I})
  <2>1. f \in Surjection(I, {s[k].id : k \in I})
    BY DEF Surjection
  <2> HIDE DEF f, I
  <2> QED BY <1>1, <2>1, FS_Surjection
<1>4. Since(s, i) \subseteq {s[k].id : k \in I}
  BY <1>0 DEF Since
<1> HIDE DEF I
<1> QED BY <1>3, <1>4, FS_Subset

LEMMA HeadFollows ==
  ASSUME NEW s \in Seq(Record), NEW r \in Record, NEW t, t = Append(s, r), Rising(t),
         NEW h, Knows(h, s), NEW g, g = Advanced(h, r)
  PROVE  Knows(g, t) /\ g.seq = r.seq
<1>1. PICK n \in Nat : n = Len(s) /\ DOMAIN s = 1 .. n
  OBVIOUS
<1>2. /\ t \in Seq(Record) /\ Len(t) = n + 1 /\ DOMAIN t = 1 .. n + 1 /\ t[n + 1] = r
      /\ \A k \in 1 .. n : t[k] = s[k] /\ s[k] \in Record
  BY <1>1
<1>3. r.seq \in 1 .. MaxSeq /\ r.id \in Identities \cup {NoId} /\ MaxSeq \in Nat /\ h.seq \in Nat
  BY JournalAssumption DEF Record, Knows
<1>4. r.seq > h.seq
  <2>1. ASSUME NEW i \in 1 .. n PROVE s[i].seq < r.seq
    <3>1. i \in DOMAIN t /\ n + 1 \in DOMAIN t /\ i < n + 1
      BY <1>2
    <3>2. t[i].seq < t[n + 1].seq
      BY <3>1 DEF Rising
    <3> QED BY <1>2, <3>2
  <2>2. h.seq = 0 \/ \E i \in 1 .. n : h.seq = s[i].seq
    BY <1>1 DEF Knows
  <2> QED BY <1>3, <2>1, <2>2
<1>5. Numbered(h.seq, r) = r.seq
  BY <1>4 DEF Numbered
<1>6. /\ g \in Heads /\ g.seq = r.seq
      /\ g.recent = Remember(h.recent, r.id, r.seq)
  <2>1. h \in Heads
    BY DEF Knows
  <2> QED BY <1>5, <2>1, AdvancedIs
<1>7. PICK m, q : m = h.recent /\ q = g.recent
  OBVIOUS
<1>8. /\ m \in Memory /\ Distinct(m) /\ m \in Seq(Recent)
      /\ \A i \in 1 .. n : s[i].id # NoId => Remembers(m, s[i].id, Since(s, i))
  BY <1>1, <1>7 DEF Heads, Knows
<1>9. \A i \in 1 .. n : Since(t, i) = Since(s, i) \cup ({r.id} \ {NoId})
  <2> SUFFICES ASSUME NEW i \in 1 .. n PROVE Since(t, i) = Since(s, i) \cup ({r.id} \ {NoId})
    OBVIOUS
  <2>1. i + 1 .. n + 1 = (i + 1 .. n) \cup {n + 1} /\ i + 1 .. n \subseteq 1 .. n
    OBVIOUS
  <2> QED BY <1>1, <1>2, <2>1 DEF Since
<1>10. Since(t, n + 1) = {}
  BY <1>2 DEF Since
<1>11. q \in Seq(Recent)
       /\ \A i \in 1 .. n + 1 : t[i].id # NoId => Remembers(q, t[i].id, Since(t, i))
  <2>1. CASE r.id = NoId
    <3>1. q = m
      BY <1>6, <1>7, <2>1 DEF Remember
    <3>2. \A i \in 1 .. n : Since(t, i) = Since(s, i)
      BY <1>9, <2>1
    <3> QED BY <1>2, <1>8, <2>1, <3>1, <3>2
  <2>2. CASE r.id \in Identities
    <3>1. PICK x, k : x = r.id /\ k = r.seq /\ x \in Identities /\ k \in 1 .. MaxSeq
      BY <1>3, <2>2
    <3>2. q = Remember(m, x, k) /\ k \in Nat
      BY <1>3, <1>6, <1>7, <3>1
    <3>3. /\ q \in Memory /\ Distinct(q) /\ Holds(q, x, {})
          /\ \A i \in DOMAIN q : q[i] = [seq |-> k, id |-> x] \/ \E j \in DOMAIN m : q[i] = m[j]
          /\ \A y \in Identities \ {x} : \A L :
               IsFiniteSet(L) /\ Remembers(m, y, L) => Remembers(q, y, L \cup {x})
      BY <1>8, <3>1, <3>2, RememberIs
    <3>4. q \in Seq(Recent)
      <4>1. [seq |-> k, id |-> x] \in Recent
        BY <3>1 DEF Recent
      <4>2. \A j \in DOMAIN m : m[j] \in Recent
        BY <1>8
      <4>3. \A i \in DOMAIN q : q[i] \in Recent
        BY <3>3, <4>1, <4>2
      <4>4. Len(q) \in Nat /\ q = [i \in 1 .. Len(q) |-> q[i]] /\ DOMAIN q = 1 .. Len(q)
        BY <3>3 DEF Memory
      <4> QED BY <4>3, <4>4
    <3>5. ASSUME NEW L PROVE Holds(q, x, L)
      BY <3>3 DEF Holds
    <3>6. ASSUME NEW i \in 1 .. n, s[i].id # NoId PROVE Remembers(q, s[i].id, Since(t, i))
      <4>1. s[i].id \in Identities
        BY <1>2, <3>6 DEF Record
      <4>2. IsFiniteSet(Since(s, i)) /\ Remembers(m, s[i].id, Since(s, i))
        BY <1>1, <1>8, <3>6, SinceFinite
      <4>3. Since(t, i) = Since(s, i) \cup {x}
        <5>1. x # NoId
          BY <3>1, JournalAssumption
        <5> QED BY <1>9, <3>1, <5>1
      <4>4. CASE s[i].id = x
        BY <3>5, <4>4 DEF Remembers
      <4>5. CASE s[i].id # x
        BY <3>3, <4>1, <4>2, <4>3, <4>5, Zenon
      <4> QED BY <4>4, <4>5
    <3>7. Remembers(q, t[n + 1].id, Since(t, n + 1))
      BY <1>2, <3>1, <3>5 DEF Remembers
    <3> QED BY <1>2, <3>4, <3>6, <3>7
  <2> QED BY <1>3, <2>1, <2>2
<1>12. \A i \in 1 .. n + 1 : t[i].seq <= g.seq
  <2>1. \A i \in 1 .. n : t[i].seq <= h.seq /\ t[i].seq \in Nat
    <3>1. \A i \in 1 .. n : s[i].seq <= h.seq
      BY <1>1 DEF Knows
    <3>2. \A i \in 1 .. n : t[i] = s[i] /\ s[i].seq \in Nat
      BY <1>2 DEF Record
    <3> QED BY <3>1, <3>2, Zenon
  <2> QED BY <1>2, <1>3, <1>4, <1>6, <2>1
<1>13. \E i \in 1 .. n + 1 : g.seq = t[i].seq
  <2>1. n + 1 \in 1 .. n + 1 /\ g.seq = t[n + 1].seq
    BY <1>2, <1>6
  <2> QED BY <2>1, Zenon
<1>14. g.seq \in 0 .. MaxSeq /\ g.recent \in Seq(Recent)
  BY <1>3, <1>6, <1>7, <1>11
<1>15. \A i \in 1 .. n + 1 : t[i].id # NoId => Remembers(g.recent, t[i].id, Since(t, i))
  BY <1>7, <1>11, Zenon
<1> QED BY <1>2, <1>6, <1>12, <1>13, <1>14, <1>15, Zenon DEF Knows

LEMMA ScanIs ==
  ASSUME NEW s \in Seq(Record), Rising(s)
  PROVE  Knows(Scanned(s), s)
<1> DEFINE P == {x \in Seq(Record) : Rising(x) => Knows(Scanned(x), x)}
<1>1. << >> \in P
  <2>1. << >> \in Seq(Record) /\ DOMAIN << >> = {}
    OBVIOUS
  <2>2. 0 \in 0 .. MaxSeq /\ << >> \in Seq(Recent)
    BY JournalAssumption
  <2>3. Knows(NoHead, << >>)
    BY <2>1, <2>2, NoHeadIs DEF Knows, NoHead
  <2> QED BY <2>1, <2>3, ScanEmpty
<1>2. ASSUME NEW x \in Seq(Record), NEW r \in Record, x \in P PROVE Append(x, r) \in P
  <2>1. PICK t, g, h : t = Append(x, r) /\ g = Scanned(t) /\ h = Scanned(x)
    OBVIOUS
  <2>2. t \in Seq(Record) /\ g = Advanced(h, r)
    BY <2>1, ScanAppend
  <2>3. ASSUME Rising(t) PROVE Knows(g, t)
    <3>1. Rising(x)
      <4>1. \A i \in DOMAIN x : i \in DOMAIN t /\ t[i] = x[i]
        BY <2>1
      <4> QED BY <2>3, <4>1 DEF Rising
    <3>2. Knows(h, x)
      BY <1>2, <2>1, <3>1
    <3> QED BY <2>1, <2>2, <2>3, <3>2, HeadFollows
  <2> QED BY <2>1, <2>2, <2>3
<1>3. Seq(Record) \subseteq P
  <2> HIDE DEF P
  <2> QED BY <1>1, <1>2, SequencesFrom
<1> QED BY <1>3

-----------------------------------------------------------------------------
(* What compaction keeps.                                                  *)

Lists == Seq(Record)

LEMMA KeepIs ==
  ASSUME NEW h \in Lists, NEW r \in Record
  PROVE  Keep(h, r) \in Lists
BY DEF Keep, Lists

LEMMA EmptyList == << >> \in Lists
BY DEF Lists

LEMMA EventsUnfold ==
  ASSUME NEW s \in Seq(Record)
  PROVE  \E f \in [0 .. Len(s) -> Lists] :
           /\ f[0] = << >> /\ \A k \in 1 .. Len(s) : f[k] = Keep(f[k - 1], s[k])
           /\ Events(s) = f[Len(s)]
<1>0. PICK n \in Nat : n = Len(s) /\ \A k \in 1 .. n : s[k] \in Record
  OBVIOUS
<1> DEFINE step == [k \in 1 .. n |-> [h \in Lists |-> Keep(h, s[k])]]
           Obeys(f) == f = [k \in 0 .. n |-> IF k = 0 THEN << >> ELSE Keep(f[k - 1], s[k])]
           upTo == CHOOSE f : Obeys(f)
<1>1. step \in [1 .. n -> [Lists -> Lists]]
  BY <1>0, KeepIs
<1>2. PICK f \in [0 .. n -> Lists] : f[0] = << >> /\ \A k \in 1 .. n : f[k] = step[k][f[k - 1]]
  <2>1. step \in Steps(n, Lists)
    BY <1>1 DEF Steps
  <2> HIDE DEF step
  <2>2. Iterates(n, Lists, << >>, step)
    BY <2>1, EmptyList, RecursionExists
  <2> QED BY <2>2 DEF Iterates
<1>3. ASSUME NEW k \in 1 .. n PROVE f[k] = Keep(f[k - 1], s[k])
  <2>1. f[k - 1] \in Lists
    BY <1>2
  <2> QED BY <1>2, <2>1
<1>4. Obeys(f)
  <2>1. f = [k \in 0 .. n |-> f[k]]
    BY <1>2
  <2>2. \A k \in 0 .. n : f[k] = IF k = 0 THEN << >> ELSE Keep(f[k - 1], s[k])
    BY <1>2, <1>3
  <2> QED BY <2>1, <2>2
<1>5. Obeys(upTo)
  <2> HIDE DEF Obeys
  <2> QED BY <1>4
<1>6. Events(s) = upTo[n]
  BY <1>0 DEF Events
<1> HIDE DEF upTo
<1>7. upTo[0] = << >> /\ \A k \in 1 .. n : upTo[k] = Keep(upTo[k - 1], s[k])
  BY <1>5
<1>8. upTo \in [0 .. n -> Lists]
  <2> DEFINE P == {k \in 0 .. n : upTo[k] \in Lists}
  <2>1. 0 \in P
    BY <1>7, EmptyList
  <2>2. ASSUME NEW k \in 1 .. n, k - 1 \in P PROVE k \in P
    BY <1>0, <1>7, <2>2, KeepIs
  <2>3. 0 .. n \subseteq P
    <3> HIDE DEF P
    <3> QED BY <2>1, <2>2, NaturalsFrom
  <2>4. upTo = [k \in 0 .. n |-> upTo[k]]
    BY <1>5
  <2> QED BY <2>3, <2>4
<1> QED BY <1>0, <1>6, <1>7, <1>8

LEMMA EventsEmpty == Events(<< >>) = << >>
<1>1. << >> \in Seq(Record) /\ Len(<< >>) = 0
  OBVIOUS
<1> QED BY <1>1, EventsUnfold

LEMMA EventsAppend ==
  ASSUME NEW s \in Seq(Record), NEW r \in Record
  PROVE  Events(s) \in Lists /\ Events(Append(s, r)) = Keep(Events(s), r)
<1>1. PICK t : t = Append(s, r)
  OBVIOUS
<1>2. PICK n \in Nat : n = Len(s)
  OBVIOUS
<1>3. t \in Seq(Record) /\ Len(t) = n + 1 /\ t[n + 1] = r /\ \A k \in 1 .. n : t[k] = s[k] /\ s[k] \in Record
  BY <1>1, <1>2
<1>4. PICK f \in [0 .. n -> Lists] :
        /\ f[0] = << >> /\ \A k \in 1 .. n : f[k] = Keep(f[k - 1], s[k])
        /\ Events(s) = f[n]
  BY <1>2, EventsUnfold
<1>5. PICK g \in [0 .. n + 1 -> Lists] :
        /\ g[0] = << >> /\ \A k \in 1 .. n + 1 : g[k] = Keep(g[k - 1], t[k])
        /\ Events(t) = g[n + 1]
  BY <1>3, EventsUnfold
<1> DEFINE P == {k \in 0 .. n : f[k] = g[k]}
<1>6. 0 \in P
  BY <1>4, <1>5
<1>7. ASSUME NEW k \in 1 .. n, k - 1 \in P PROVE k \in P
  <2>1. g[k] = Keep(g[k - 1], t[k]) /\ f[k] = Keep(f[k - 1], s[k])
    BY <1>4, <1>5
  <2> QED BY <1>3, <1>7, <2>1
<1>8. 0 .. n \subseteq P
  <2> HIDE DEF P
  <2> QED BY <1>6, <1>7, NaturalsFrom
<1>9. f[n] = g[n] /\ g[n + 1] = Keep(g[n], t[n + 1])
  <2>1. n + 1 \in 1 .. n + 1 /\ (n + 1) - 1 = n
    OBVIOUS
  <2>2. g[n + 1] = Keep(g[(n + 1) - 1], t[n + 1])
    BY <1>5, <2>1
  <2> QED BY <1>8, <2>1, <2>2
<1>10. f[n] \in Lists
  BY <1>4
<1> QED BY <1>1, <1>3, <1>4, <1>5, <1>9, <1>10

LEMMA BytesAre ==
  ASSUME NEW s \in Seq(Record), NEW r \in Record
  PROVE  /\ Bytes(s) \in Nat /\ r.size \in {2, 3}
         /\ Bytes(Append(s, r)) = Bytes(s) + r.size
<1>1. PICK h : h = Scanned(s)
  OBVIOUS
<1>2. h \in Heads /\ Scanned(Append(s, r)) = Advanced(h, r)
  BY <1>1, ScanAppend
<1>3. h.len \in Nat /\ Advanced(h, r).len = h.len + r.size
  BY <1>2, AdvancedIs DEF Heads
<1> QED BY <1>1, <1>2, <1>3 DEF Bytes, Record

\* Dropping a line makes the file shorter.
LEMMA EventsAreShorter ==
  ASSUME NEW s \in Seq(Record)
  PROVE  Events(s) = s \/ Bytes(Events(s)) < Bytes(s)
<1> DEFINE P == {x \in Seq(Record) : Events(x) = x \/ Bytes(Events(x)) < Bytes(x)}
<1>1. << >> \in P
  BY EventsEmpty
<1>2. ASSUME NEW x \in Seq(Record), NEW r \in Record, x \in P PROVE Append(x, r) \in P
  <2>1. PICK t, q : t = Append(x, r) /\ q = Events(x)
    OBVIOUS
  <2>2. t \in Seq(Record) /\ q \in Seq(Record) /\ Events(t) = Keep(q, r)
    BY <2>1, EventsAppend DEF Lists
  <2>3. Bytes(x) \in Nat /\ Bytes(q) \in Nat /\ r.size \in {2, 3} /\ Bytes(t) = Bytes(x) + r.size
    BY <2>1, <2>2, BytesAre
  <2>4. q = x \/ Bytes(q) < Bytes(x)
    BY <1>2, <2>1
  <2>5. CASE r.kind = "event"
    <3>1. PICK u : u = Append(q, r)
      OBVIOUS
    <3>2. Bytes(u) = Bytes(q) + r.size /\ Events(t) = u
      BY <2>2, <2>5, <3>1, BytesAre DEF Keep
    <3>3. u = t \/ Bytes(u) < Bytes(t)
      BY <2>1, <2>3, <2>4, <3>1, <3>2
    <3> QED BY <2>1, <2>2, <3>2, <3>3
  <2>6. CASE r.kind # "event"
    <3>1. Events(t) = q
      BY <2>2, <2>6 DEF Keep
    <3>2. Bytes(q) < Bytes(t)
      BY <2>3, <2>4
    <3> QED BY <2>1, <2>2, <3>1, <3>2
  <2> QED BY <2>5, <2>6
<1>3. Seq(Record) \subseteq P
  <2> HIDE DEF P
  <2> QED BY <1>1, <1>2, SequencesFrom
<1> QED BY <1>3

\* The places of s that q keeps, in order: all that hold events, and only those.
Places(e, q, s) ==
  /\ e \in [1 .. Len(q) -> 1 .. Len(s)]
  /\ \A i, j \in 1 .. Len(q) : i < j => e[i] < e[j]
  /\ \A i \in 1 .. Len(q) : q[i] = s[e[i]] /\ q[i].kind = "event"
  /\ \A k \in 1 .. Len(s) : s[k].kind = "event" => \E i \in 1 .. Len(q) : e[i] = k

LEMMA EventsAre ==
  ASSUME NEW s \in Seq(Record)
  PROVE  Events(s) \in Seq(Record) /\ \E e : Places(e, Events(s), s)
<1> DEFINE P == {x \in Seq(Record) : Events(x) \in Seq(Record) /\ \E e : Places(e, Events(x), x)}
<1>1. << >> \in P
  <2>1. PICK z, e : z = << >> /\ e = [i \in 1 .. 0 |-> i]
    OBVIOUS
  <2>4. z \in Seq(Record) /\ Len(z) = 0
    BY <2>1
  <2>2. Places(e, z, z)
    BY <2>1, <2>4 DEF Places
  <2>3. Events(z) = z
    BY <2>1, EventsEmpty
  <2> QED BY <2>1, <2>2, <2>3, <2>4
<1>2. ASSUME NEW x \in Seq(Record), NEW r \in Record, x \in P PROVE Append(x, r) \in P
  <2>1. PICK t, q : t = Append(x, r) /\ q = Events(x)
    OBVIOUS
  <2>2. t \in Seq(Record) /\ q \in Seq(Record) /\ Events(t) = Keep(q, r)
    BY <2>1, EventsAppend DEF Lists
  <2>3. PICK n, l \in Nat : n = Len(x) /\ l = Len(q)
    BY <2>2
  <2>4. Len(t) = n + 1 /\ t[n + 1] = r /\ \A k \in 1 .. n : t[k] = x[k]
    BY <2>1, <2>3
  <2>5. PICK e : Places(e, q, x)
    BY <1>2, <2>1
  <2>6. /\ e \in [1 .. l -> 1 .. n]
        /\ \A i, j \in 1 .. l : i < j => e[i] < e[j]
        /\ \A i \in 1 .. l : q[i] = x[e[i]] /\ q[i].kind = "event"
        /\ \A k \in 1 .. n : x[k].kind = "event" => \E i \in 1 .. l : e[i] = k
    BY <2>3, <2>5 DEF Places
  <2>7. CASE r.kind = "event"
    <3>1. PICK u : u = Append(q, r)
      OBVIOUS
    <3>2. Events(t) = u /\ u \in Seq(Record)
      BY <2>2, <2>7, <3>1 DEF Keep
    <3>3. Len(u) = l + 1 /\ u[l + 1] = r /\ \A i \in 1 .. l : u[i] = q[i]
      BY <2>2, <2>3, <3>1
    <3>4. PICK f : f = [i \in 1 .. l + 1 |-> IF i = l + 1 THEN n + 1 ELSE e[i]]
      OBVIOUS
    <3>5. f[l + 1] = n + 1 /\ \A i \in 1 .. l : f[i] = e[i] /\ e[i] \in 1 .. n
      BY <2>6, <3>4
    <3>6. f \in [1 .. l + 1 -> 1 .. n + 1]
      <4>1. \A i \in 1 .. l + 1 : (IF i = l + 1 THEN n + 1 ELSE e[i]) \in 1 .. n + 1
        <5> SUFFICES ASSUME NEW i \in 1 .. l + 1, i # l + 1 PROVE e[i] \in 1 .. n + 1
          OBVIOUS
        <5>1. i \in 1 .. l
          OBVIOUS
        <5> QED BY <3>5, <5>1
      <4> QED BY <3>4, <4>1
    <3>7. ASSUME NEW i \in 1 .. l + 1, NEW j \in 1 .. l + 1, i < j PROVE f[i] < f[j]
      <4>1. i \in 1 .. l /\ f[i] = e[i] /\ e[i] \in 1 .. n
        <5>1. i \in 1 .. l
          BY <3>7
        <5> QED BY <3>5, <5>1
      <4>2. CASE j = l + 1
        BY <3>5, <4>1, <4>2
      <4>3. CASE j # l + 1
        <5>1. j \in 1 .. l
          BY <4>3
        <5>2. e[i] < e[j] /\ f[j] = e[j]
          BY <2>6, <3>5, <3>7, <4>1, <5>1
        <5> QED BY <4>1, <5>2
      <4> QED BY <4>2, <4>3
    <3>8. \A i \in 1 .. l + 1 : u[i] = t[f[i]] /\ u[i].kind = "event"
      <4> SUFFICES ASSUME NEW i \in 1 .. l + 1 PROVE u[i] = t[f[i]] /\ u[i].kind = "event"
        OBVIOUS
      <4>1. CASE i = l + 1
        BY <2>4, <2>7, <3>3, <3>5, <4>1
      <4>2. CASE i # l + 1
        <5>1. i \in 1 .. l
          BY <4>2
        <5>2. u[i] = q[i] /\ f[i] = e[i] /\ e[i] \in 1 .. n
          BY <3>3, <3>5, <5>1
        <5>3. q[i] = x[e[i]] /\ q[i].kind = "event"
          BY <2>6, <5>1
        <5>4. t[e[i]] = x[e[i]]
          BY <2>4, <5>2
        <5> QED BY <5>2, <5>3, <5>4, Zenon
      <4> QED BY <4>1, <4>2
    <3>9. ASSUME NEW k \in 1 .. n + 1, t[k].kind = "event" PROVE \E i \in 1 .. l + 1 : f[i] = k
      <4>1. CASE k = n + 1
        BY <3>5, <4>1
      <4>2. CASE k # n + 1
        <5>1. k \in 1 .. n
          BY <4>2
        <5>2. PICK i \in 1 .. l : e[i] = k
          BY <2>4, <2>6, <3>9, <5>1
        <5> QED BY <3>5, <5>2
      <4> QED BY <4>1, <4>2
    <3>10. Places(f, u, t)
      BY <2>4, <3>3, <3>6, <3>7, <3>8, <3>9 DEF Places
    <3> QED BY <2>1, <2>2, <3>2, <3>10
  <2>8. CASE r.kind # "event"
    <3>1. Events(t) = q
      BY <2>2, <2>8 DEF Keep
    <3>2. e \in [1 .. l -> 1 .. n + 1]
      BY <2>6
    <3>3. \A i \in 1 .. l : q[i] = t[e[i]] /\ q[i].kind = "event"
      BY <2>4, <2>6
    <3>4. ASSUME NEW k \in 1 .. n + 1, t[k].kind = "event" PROVE \E i \in 1 .. l : e[i] = k
      <4>1. k # n + 1
        BY <2>4, <2>8, <3>4
      <4>2. k \in 1 .. n
        BY <4>1
      <4>3. x[k].kind = "event"
        BY <2>4, <3>4, <4>2
      <4> QED BY <2>6, <4>2, <4>3
    <3>5. Places(e, q, t)
      BY <2>3, <2>4, <2>6, <3>2, <3>3, <3>4 DEF Places
    <3> QED BY <2>1, <2>2, <3>1, <3>5
  <2> QED BY <2>7, <2>8
<1>3. Seq(Record) \subseteq P
  <2> HIDE DEF P
  <2> QED BY <1>1, <1>2, SequencesFrom
<1> QED BY <1>3

-----------------------------------------------------------------------------
(* Records in order: numbers rise, only events are identified, and an      *)
(* identity comes back only behind Window others.                          *)

Between(s, i, j) == {s[k].id : k \in i + 1 .. j - 1} \ {NoId}

Spaced(s) ==
  \A i, j \in DOMAIN s :
    i < j /\ s[i].id # NoId /\ s[i].id = s[j].id => Cardinality(Between(s, i, j)) >= Window

OnlyEventsNamed(s) == \A i \in DOMAIN s : s[i].id # NoId => s[i].kind = "event"

Orderly(s) == s \in Seq(Record) /\ Rising(s) /\ OnlyEventsNamed(s) /\ Spaced(s)

LEMMA BetweenFinite ==
  ASSUME NEW s \in Seq(Record), NEW i \in DOMAIN s, NEW j \in DOMAIN s
  PROVE  IsFiniteSet(Between(s, i, j)) /\ Cardinality(Between(s, i, j)) \in Nat
<1>0. PICK n \in Nat : n = Len(s) /\ DOMAIN s = 1 .. n
  OBVIOUS
<1>1. IsFiniteSet(Since(s, i))
  BY <1>0, SinceFinite
<1>2. Between(s, i, j) \subseteq Since(s, i)
  BY <1>0 DEF Between, Since
<1> QED BY <1>1, <1>2, FS_Subset, FS_CardinalityType

LEMMA EventsOrderly ==
  ASSUME NEW s, Orderly(s), NEW q, q = Events(s)
  PROVE  /\ Orderly(q)
         /\ \A k \in DOMAIN s : s[k].kind = "event" => \E i \in DOMAIN q : q[i] = s[k]
         /\ \A i \in DOMAIN q : \E k \in DOMAIN s : q[i] = s[k]
<1>1. s \in Seq(Record) /\ q \in Seq(Record)
  BY EventsAre DEF Orderly
<1>2. PICK e : Places(e, q, s)
  BY <1>1, EventsAre
<1>3. PICK n, l \in Nat : n = Len(s) /\ l = Len(q) /\ DOMAIN s = 1 .. n /\ DOMAIN q = 1 .. l
  BY <1>1
<1>4. /\ \A i \in 1 .. l : e[i] \in 1 .. n
      /\ \A i, j \in 1 .. l : i < j => e[i] < e[j]
      /\ \A i \in 1 .. l : q[i] = s[e[i]] /\ q[i].kind = "event"
      /\ \A k \in 1 .. n : s[k].kind = "event" => \E i \in 1 .. l : e[i] = k
  BY <1>2, <1>3 DEF Places
<1>5. Rising(q)
  <2> SUFFICES ASSUME NEW i \in 1 .. l, NEW j \in 1 .. l, i < j PROVE q[i].seq < q[j].seq
    BY <1>3 DEF Rising
  <2>1. PICK u, v \in 1 .. n : u = e[i] /\ v = e[j] /\ u < v /\ q[i] = s[u] /\ q[j] = s[v]
    BY <1>4
  <2> QED BY <1>3, <2>1 DEF Orderly, Rising
<1>6. OnlyEventsNamed(q)
  BY <1>3, <1>4 DEF OnlyEventsNamed
<1>7. Spaced(q)
  <2> SUFFICES ASSUME NEW i \in 1 .. l, NEW j \in 1 .. l, i < j, q[i].id # NoId, q[i].id = q[j].id
               PROVE  Cardinality(Between(q, i, j)) >= Window
    BY <1>3 DEF Spaced
  <2>1. PICK u, v \in 1 .. n : u = e[i] /\ v = e[j] /\ u < v /\ q[i] = s[u] /\ q[j] = s[v]
    BY <1>4
  <2>2. Cardinality(Between(s, u, v)) >= Window
    BY <1>3, <2>1 DEF Orderly, Spaced
  <2>3. ASSUME NEW k \in u + 1 .. v - 1, s[k].id # NoId PROVE s[k].id \in Between(q, i, j)
    <3>1. k \in 1 .. n /\ s[k].kind = "event"
      <4>1. k \in 1 .. n
        OBVIOUS
      <4> QED BY <1>3, <2>3, <4>1 DEF Orderly, OnlyEventsNamed
    <3>2. PICK m \in 1 .. l : e[m] = k
      BY <1>4, <3>1
    <3>3. e[m] \in Int /\ e[i] \in Int /\ e[j] \in Int /\ e[i] < e[m] /\ e[m] < e[j]
      BY <2>1, <3>2
    <3>4. i < m
      <4>1. m < i => e[m] < e[i]
        BY <1>4
      <4> QED BY <3>3, <4>1
    <3>5. m < j
      <4>1. j < m => e[j] < e[m]
        BY <1>4
      <4> QED BY <3>3, <4>1
    <3>6. m \in i + 1 .. j - 1 /\ q[m] = s[k]
      BY <1>4, <3>2, <3>4, <3>5
    <3> QED BY <2>3, <3>6 DEF Between
  <2>4. Between(s, u, v) \subseteq Between(q, i, j)
    BY <2>3 DEF Between
  <2>5. /\ IsFiniteSet(Between(q, i, j)) /\ Cardinality(Between(q, i, j)) \in Nat
        /\ Cardinality(Between(s, u, v)) \in Nat
    BY <1>1, <1>3, BetweenFinite
  <2>6. Cardinality(Between(s, u, v)) <= Cardinality(Between(q, i, j))
    BY <2>4, <2>5, FS_Subset
  <2> QED BY <2>2, <2>5, <2>6, JournalAssumption
<1>8. \A k \in DOMAIN s : s[k].kind = "event" => \E i \in DOMAIN q : q[i] = s[k]
  BY <1>3, <1>4
<1>9. \A i \in DOMAIN q : \E k \in DOMAIN s : q[i] = s[k]
  BY <1>3, <1>4
<1> QED BY <1>1, <1>5, <1>6, <1>7, <1>8, <1>9 DEF Orderly

LEMMA LastNumber ==
  ASSUME NEW t \in Seq(Record), Rising(t), NEW n \in Nat, Len(t) = n + 1, NEW h, Knows(h, t)
  PROVE  h.seq = t[n + 1].seq
<1>1. DOMAIN t = 1 .. n + 1 /\ \A i \in 1 .. n + 1 : t[i] \in Record
  OBVIOUS
<1>2. \A i \in 1 .. n + 1 : t[i].seq \in Nat /\ t[i].seq > 0
  BY <1>1 DEF Record
<1>3. \A i \in 1 .. n + 1 : i # n + 1 => t[i].seq < t[n + 1].seq
  BY <1>1 DEF Rising
<1>4. n + 1 \in 1 .. n + 1
  OBVIOUS
<1>5. /\ h.seq \in Nat /\ (h.seq = 0 \/ \E i \in 1 .. n + 1 : h.seq = t[i].seq)
      /\ t[n + 1].seq <= h.seq
  <2>1. h.seq \in 0 .. MaxSeq /\ MaxSeq \in Nat
    BY JournalAssumption DEF Knows
  <2>2. h.seq = 0 \/ \E i \in 1 .. n + 1 : h.seq = t[i].seq
    BY <1>1 DEF Knows
  <2>3. t[n + 1].seq <= h.seq
    BY <1>1, <1>4 DEF Knows
  <2> QED BY <2>1, <2>2, <2>3
<1> QED BY <1>2, <1>3, <1>4, <1>5

\* A new line keeps the order if it is numbered above the scan and named as nothing the
\* scan remembers.
LEMMA AppendOrderly ==
  ASSUME NEW s \in Seq(Record), Orderly(s), NEW r \in Record, NEW t, t = Append(s, r),
         NEW h, h = Scanned(s),
         r.seq > h.seq, r.id # NoId => r.kind = "event",
         r.id # NoId => \A i \in DOMAIN h.recent : h.recent[i].id # r.id
  PROVE  /\ Orderly(t) /\ Knows(Scanned(t), t) /\ Scanned(t) = Advanced(h, r)
         /\ LastSeq(t) = r.seq /\ Bytes(t) = Bytes(s) + r.size
<1>1. s \in Seq(Record) /\ Rising(s) /\ OnlyEventsNamed(s) /\ Spaced(s) /\ Knows(h, s)
  BY ScanIs DEF Orderly
<1>2. PICK n \in Nat : n = Len(s) /\ DOMAIN s = 1 .. n
  BY <1>1
<1>3. /\ t \in Seq(Record) /\ Len(t) = n + 1 /\ DOMAIN t = 1 .. n + 1 /\ t[n + 1] = r
      /\ \A k \in 1 .. n : t[k] = s[k] /\ s[k] \in Record
  BY <1>1, <1>2
<1>4. Rising(t)
  <2>1. \A i \in 1 .. n : s[i].seq <= h.seq /\ s[i].seq \in Nat /\ h.seq \in Nat /\ r.seq \in Nat
    <3>1. \A i \in 1 .. n : s[i].seq <= h.seq
      BY <1>1, <1>2 DEF Knows
    <3>2. \A i \in 1 .. n : s[i].seq \in Nat
      BY <1>3 DEF Record
    <3>3. h.seq \in Nat /\ r.seq \in Nat
      BY <1>1, JournalAssumption DEF Knows, Record
    <3> QED BY <3>1, <3>2, <3>3
  <2> SUFFICES ASSUME NEW i \in 1 .. n + 1, NEW j \in 1 .. n + 1, i < j PROVE t[i].seq < t[j].seq
    BY <1>3 DEF Rising
  <2>2. i \in 1 .. n
    OBVIOUS
  <2>3. CASE j = n + 1
    BY <1>3, <2>1, <2>2, <2>3
  <2>4. CASE j # n + 1
    <3>1. j \in 1 .. n
      BY <2>4
    <3> QED BY <1>1, <1>2, <1>3, <2>2, <3>1 DEF Rising
  <2> QED BY <2>3, <2>4
<1>5. OnlyEventsNamed(t)
  <2> SUFFICES ASSUME NEW i \in 1 .. n + 1, t[i].id # NoId PROVE t[i].kind = "event"
    BY <1>3 DEF OnlyEventsNamed
  <2>1. CASE i = n + 1
    BY <1>3, <2>1
  <2>2. CASE i # n + 1
    <3>1. i \in 1 .. n
      BY <2>2
    <3> QED BY <1>1, <1>2, <1>3, <3>1 DEF OnlyEventsNamed
  <2> QED BY <2>1, <2>2
<1>6. Spaced(t)
  <2> SUFFICES ASSUME NEW i \in 1 .. n + 1, NEW j \in 1 .. n + 1, i < j, t[i].id # NoId, t[i].id = t[j].id
               PROVE  Cardinality(Between(t, i, j)) >= Window
    BY <1>3 DEF Spaced
  <2>1. i \in 1 .. n /\ t[i] = s[i]
    <3>1. i \in 1 .. n
      OBVIOUS
    <3> QED BY <1>3, <3>1
  <2>2. \A k \in i + 1 .. j - 1 : k \in 1 .. n /\ t[k] = s[k]
    <3> SUFFICES ASSUME NEW k \in i + 1 .. j - 1 PROVE k \in 1 .. n /\ t[k] = s[k]
      OBVIOUS
    <3>1. k \in 1 .. n
      OBVIOUS
    <3> QED BY <1>3, <3>1
  <2>3. CASE j = n + 1
    <3>1. Remembers(h.recent, s[i].id, Since(s, i))
      BY <1>1, <1>2, <2>1 DEF Knows
    <3>2. ~Holds(h.recent, s[i].id, Since(s, i))
      BY <1>3, <2>1, <2>3 DEF Holds
    <3>3. Between(t, i, j) = Since(s, i)
      BY <1>2, <2>2, <2>3 DEF Between, Since
    <3> QED BY <3>1, <3>2, <3>3 DEF Remembers
  <2>4. CASE j # n + 1
    <3>1. j \in 1 .. n
      BY <2>4
    <3>2. t[j] = s[j]
      BY <1>3, <3>1
    <3>3. Between(t, i, j) = Between(s, i, j)
      BY <2>2 DEF Between
    <3> QED BY <1>1, <1>2, <2>1, <3>1, <3>2, <3>3 DEF Spaced
  <2> QED BY <2>3, <2>4
<1>7. Knows(Scanned(t), t)
  BY <1>3, <1>4, ScanIs
<1>8. Scanned(t) = Advanced(h, r)
  BY <1>1, ScanAppend
<1>9. Scanned(t).seq = r.seq
  <2>1. Scanned(t).seq = t[n + 1].seq
    BY <1>3, <1>4, <1>7, LastNumber
  <2>2. t[n + 1] = r
    BY <1>3
  <2> QED BY <2>1, <2>2, Zenon
<1>10. Bytes(t) = Bytes(s) + r.size
  BY <1>1, BytesAre
<1> QED BY <1>3, <1>4, <1>5, <1>6, <1>7, <1>8, <1>9, <1>10 DEF Orderly, LastSeq

\* What compaction makes of an orderly file: nothing, or a file of another length; the
\* same last number; all its events.
LEMMA CompactedIs ==
  ASSUME NEW s, s = log, Orderly(s), NEW c, c = Compacted
  PROVE  /\ Orderly(c) /\ Knows(Scanned(c), c)
         /\ LastSeq(c) = LastSeq(s)
         /\ c = s \/ Bytes(c) # Bytes(s)
         /\ \A k \in DOMAIN s : s[k].kind = "event" => \E i \in DOMAIN c : c[i] = s[k]
<1>1. PICK q, g, h : q = Events(s) /\ g = Scanned(q) /\ h = Scanned(s)
  OBVIOUS
<1>2. /\ Orderly(q) /\ s \in Seq(Record) /\ q \in Seq(Record)
      /\ \A k \in DOMAIN s : s[k].kind = "event" => \E i \in DOMAIN q : q[i] = s[k]
      /\ \A i \in DOMAIN q : \E k \in DOMAIN s : q[i] = s[k]
  BY <1>1, EventsOrderly DEF Orderly
<1>3. Knows(g, q) /\ Knows(h, s)
  BY <1>1, <1>2, ScanIs DEF Orderly
<1>4. g.seq \in Nat /\ h.seq \in 0 .. MaxSeq /\ h.seq \in Nat /\ g.seq <= h.seq
  <2>1. g.seq \in Nat /\ h.seq \in 0 .. MaxSeq /\ h.seq \in Nat
    BY <1>3, JournalAssumption DEF Knows
  <2>2. g.seq = 0 \/ \E i \in DOMAIN q : g.seq = q[i].seq
    BY <1>3 DEF Knows
  <2>3. \A i \in DOMAIN q : q[i].seq <= h.seq
    <3>1. \A k \in DOMAIN s : s[k].seq <= h.seq
      BY <1>3 DEF Knows
    <3> QED BY <1>2, <3>1
  <2> QED BY <2>1, <2>2, <2>3
<1>5. PICK mark : mark = [seq |-> h.seq, kind |-> "mark", id |-> NoId,
                          size |-> IF Bytes(q) + 2 = Bytes(s) THEN 3 ELSE 2]
  OBVIOUS
<1>6. c = IF g.seq < h.seq THEN Append(q, mark) ELSE q
  BY <1>1, <1>5 DEF Compacted, LastSeq
<1>7. Bytes(q) \in Nat /\ Bytes(s) \in Nat /\ (q = s \/ Bytes(q) < Bytes(s))
  <2>1. Bytes(q) \in Nat /\ Bytes(s) \in Nat
    <3>1. Scanned(q).len \in Nat /\ Scanned(s).len \in Nat
      BY <1>1, <1>3 DEF Knows, Heads
    <3> QED BY <3>1 DEF Bytes
  <2>2. q = s \/ Bytes(q) < Bytes(s)
    BY <1>1, <1>2, EventsAreShorter
  <2> QED BY <2>1, <2>2
<1>8. CASE ~(g.seq < h.seq)
  <2>1. c = q /\ LastSeq(c) = LastSeq(s)
    BY <1>1, <1>4, <1>6, <1>8 DEF LastSeq
  <2>2. Knows(Scanned(c), c)
    BY <1>1, <1>3, <2>1
  <2> QED BY <1>2, <1>7, <2>1, <2>2
<1>9. CASE g.seq < h.seq
  <2>1. c = Append(q, mark)
    BY <1>6, <1>9
  <2>2. mark \in Record
    BY <1>4, <1>5, <1>9, JournalAssumption DEF Record
  <2>3. mark.seq = h.seq /\ mark.id = NoId /\ mark.size = IF Bytes(q) + 2 = Bytes(s) THEN 3 ELSE 2
    BY <1>5
  <2>4. /\ Orderly(c) /\ Knows(Scanned(c), c)
        /\ LastSeq(c) = mark.seq /\ Bytes(c) = Bytes(q) + mark.size
    <3>0. q \in Seq(Record)
      BY <1>2
    <3>1. Orderly(q) /\ mark.seq > g.seq
      BY <1>2, <1>4, <1>9, <2>3
    <3>2. mark.id # NoId => mark.kind = "event"
      BY <2>3
    <3>3. mark.id # NoId => \A i \in DOMAIN g.recent : g.recent[i].id # mark.id
      BY <2>3
    <3>4. g = Scanned(q)
      BY <1>1
    <3> QED BY <2>1, <2>2, <3>0, <3>1, <3>2, <3>3, <3>4, AppendOrderly, Zenon
  <2>5. Bytes(c) # Bytes(s)
    BY <1>7, <2>3, <2>4
  <2>6. LastSeq(c) = LastSeq(s)
    BY <1>1, <2>3, <2>4 DEF LastSeq
  <2>7. \A k \in DOMAIN s : s[k].kind = "event" => \E i \in DOMAIN c : c[i] = s[k]
    <3>1. \A i \in DOMAIN q : i \in DOMAIN c /\ c[i] = q[i]
      BY <1>2, <2>1
    <3> QED BY <1>2, <3>1
  <2> QED BY <2>4, <2>5, <2>6, <2>7
<1> QED BY <1>8, <1>9

-----------------------------------------------------------------------------
(* The inductive invariant.  A head that covers the complete lines exactly *)
(* is the one a scan finds, and only such a head is followed by a torn     *)
(* line; so the length tells a stale head from a true one.                 *)

FileHeads == [seq : 0 .. MaxSeq, len : Nat, recent : Seq(Recent)]

Coherent(s, t, h, all) ==
  /\ s \in Seq(Record) /\ Orderly(s)
  /\ t \in BOOLEAN
  /\ h \in FileHeads
  /\ all \subseteq Record
  /\ t => h.len = Bytes(s)
  /\ h.len = Bytes(s) => h = Scanned(s)
  /\ \A r \in all : r.kind = "event" => \E i \in DOMAIN s : s[i] = r
  /\ \A r \in all : r.seq <= LastSeq(s)

JournalInv == Coherent(log, torn, head, stored)

LEMMA ScanTyped ==
  ASSUME NEW s \in Seq(Record), Orderly(s), NEW h, h = Scanned(s)
  PROVE  Knows(h, s) /\ h \in FileHeads /\ h.len = Bytes(s) /\ h.seq = LastSeq(s)
<1>1. Knows(h, s)
  BY ScanIs DEF Orderly
<1>2. h.len = Bytes(s) /\ h.seq = LastSeq(s)
  BY DEF Bytes, LastSeq
<1>3. h \in FileHeads
  BY <1>1 DEF Knows, Heads, FileHeads
<1> QED BY <1>1, <1>2, <1>3

\* A scan may be published at any time, a torn line may follow it, and one that a stale
\* head does not vouch for may be cut.
LEMMA PublishKeepsInv ==
  ASSUME NEW s, NEW t, NEW h, NEW all, Coherent(s, t, h, all), NEW g, g = Scanned(s)
  PROVE  Coherent(s, FALSE, g, all) /\ Coherent(s, TRUE, g, all) /\ Coherent(s, FALSE, h, all)
<1>1. g \in FileHeads /\ g.len = Bytes(s)
  BY ScanTyped DEF Coherent
<1> QED BY <1>1 DEF Coherent

\* The line r may follow a file whose scan is g.
Admissible(r, g) ==
  /\ r.seq = g.seq + 1
  /\ r.id # NoId => /\ r.kind = "event"
                    /\ \A i \in DOMAIN g.recent : g.recent[i].id # r.id

\* What the line r makes of the file and of the history, with the head g left behind or
\* the new one, f, published.
Grown(u, g, f, r, all) ==
  /\ Coherent(u, FALSE, g, all \cup {r})
  /\ Coherent(u, FALSE, f, all \cup {r})
  /\ f = Advanced(g, r)
  /\ \A old \in all : old.seq < r.seq

LEMMA AppendKeepsInv ==
  ASSUME NEW s, NEW t, NEW h, NEW all, Coherent(s, t, h, all), NEW g, g = Scanned(s),
         NEW r \in Record, Admissible(r, g), NEW u, u = Append(s, r), NEW f, f = Scanned(u)
  PROVE  Grown(u, g, f, r, all)
<1>1. s \in Seq(Record) /\ Orderly(s)
  BY DEF Coherent
<1>2. Knows(g, s) /\ g \in FileHeads /\ g.len = Bytes(s) /\ g.seq = LastSeq(s)
  BY <1>1, ScanTyped
<1>3. r.seq > g.seq /\ g.seq \in Nat /\ r.seq \in Nat
  BY <1>2, JournalAssumption DEF FileHeads, Admissible
<1>4. /\ Orderly(u) /\ f = Advanced(g, r)
      /\ LastSeq(u) = r.seq /\ Bytes(u) = Bytes(s) + r.size
  BY <1>1, <1>3, AppendOrderly DEF Admissible
<1>5. u \in Seq(Record)
  BY <1>4 DEF Orderly
<1>6. f \in FileHeads /\ f.len = Bytes(u)
  BY <1>4, <1>5, ScanTyped
<1>7. g.len # Bytes(u)
  BY <1>2, <1>4 DEF Record, FileHeads
<1>8. ASSUME NEW x \in all \cup {r} PROVE /\ x.kind = "event" => \E i \in DOMAIN u : u[i] = x
                                          /\ x.seq <= LastSeq(u)
  <2>1. CASE x = r
    <3>1. Len(s) + 1 \in DOMAIN u /\ u[Len(s) + 1] = r
      BY <1>1
    <3> QED BY <1>3, <1>4, <2>1, <3>1
  <2>2. CASE x \in all
    <3>1. \A i \in DOMAIN s : i \in DOMAIN u /\ u[i] = s[i]
      BY <1>1
    <3>2. x.kind = "event" => \E i \in DOMAIN s : s[i] = x
      BY <2>2 DEF Coherent
    <3>3. x.seq <= g.seq /\ x.seq \in Nat
      BY <1>2, <2>2 DEF Coherent, Record
    <3>4. x.seq <= LastSeq(u)
      BY <1>3, <1>4, <3>3
    <3> QED BY <3>1, <3>2, <3>4
  <2> QED BY <2>1, <2>2
<1>9. all \cup {r} \subseteq Record
  BY DEF Coherent
<1>10. \A old \in all : old.seq < r.seq
  <2> SUFFICES ASSUME NEW old \in all PROVE old.seq < r.seq
    OBVIOUS
  <2>1. old.seq <= g.seq /\ old.seq \in Nat
    BY <1>2 DEF Coherent, Record
  <2> QED BY <1>3, <2>1
<1>11. Coherent(u, FALSE, g, all \cup {r})
  BY <1>2, <1>4, <1>5, <1>7, <1>8, <1>9 DEF Coherent
<1>12. Coherent(u, FALSE, f, all \cup {r})
  BY <1>4, <1>5, <1>6, <1>8, <1>9 DEF Coherent
<1> QED BY <1>4, <1>10, <1>11, <1>12 DEF Grown

LEMMA CompactKeepsInv ==
  ASSUME NEW s, s = log, NEW t, NEW h, NEW all, Coherent(s, t, h, all), NEW g, g = Scanned(s),
         NEW c, c = Compacted, NEW f, f = Scanned(c)
  PROVE  Coherent(c, FALSE, g, all) /\ Coherent(c, FALSE, f, all)
<1>1. s \in Seq(Record) /\ Orderly(s) /\ all \subseteq Record
  BY DEF Coherent
<1>2. g \in FileHeads /\ g.len = Bytes(s) /\ g.seq = LastSeq(s)
  BY <1>1, ScanTyped
<1>3. /\ Orderly(c) /\ LastSeq(c) = LastSeq(s)
      /\ c = s \/ Bytes(c) # Bytes(s)
      /\ \A k \in DOMAIN s : s[k].kind = "event" => \E i \in DOMAIN c : c[i] = s[k]
  BY <1>1, CompactedIs
<1>4. c \in Seq(Record)
  BY <1>3 DEF Orderly
<1>5. f \in FileHeads /\ f.len = Bytes(c)
  BY <1>3, <1>4, ScanTyped
<1>6. \A r \in all : r.seq <= LastSeq(c)
  BY <1>3 DEF Coherent
<1>7. \A r \in all : r.kind = "event" => \E i \in DOMAIN c : c[i] = r
  <2> SUFFICES ASSUME NEW r \in all, r.kind = "event" PROVE \E i \in DOMAIN c : c[i] = r
    OBVIOUS
  <2>1. PICK k \in DOMAIN s : s[k] = r
    BY DEF Coherent
  <2>2. \E i \in DOMAIN c : c[i] = s[k]
    BY <1>3, <2>1
  <2> QED BY <2>1, <2>2
<1>8. g.len = Bytes(c) => g = Scanned(c)
  BY <1>2, <1>3
<1>9. Coherent(c, FALSE, g, all)
  BY <1>1, <1>2, <1>3, <1>4, <1>6, <1>7, <1>8 DEF Coherent
<1>10. Coherent(c, FALSE, f, all)
  BY <1>1, <1>3, <1>4, <1>5, <1>6, <1>7 DEF Coherent
<1> QED BY <1>9, <1>10

LEMMA AuthoritativeIs ==
  ASSUME JournalInv
  PROVE  Authoritative = Scanned(log) /\ (head.len = FileLen => ~torn)
<1>1. PICK s, n : s = log /\ n = Bytes(log)
  OBVIOUS
<1>2. s \in Seq(Record) /\ Orderly(s) /\ torn \in BOOLEAN /\ (torn => head.len = n) /\ (head.len = n => head = Scanned(s))
  BY <1>1 DEF JournalInv, Coherent
<1>3. n \in Nat
  <2>1. PICK h : h = Scanned(s)
    OBVIOUS
  <2>2. h.len = Bytes(s) /\ h \in FileHeads
    BY <1>2, <2>1, ScanTyped
  <2> QED BY <1>1, <2>2 DEF FileHeads
<1>4. FileLen = n + (IF torn THEN 1 ELSE 0)
  BY <1>1 DEF FileLen
<1>5. head.len = FileLen => ~torn /\ head.len = n
  BY <1>2, <1>3, <1>4
<1> QED BY <1>1, <1>2, <1>5 DEF Authoritative

\* The durable half of an append, with the head published or not.
LEMMA WriteKeepsInv ==
  ASSUME JournalInv, NEW kind \in Kinds, NEW id \in Identities \cup {NoId}, Write(kind, id)
  PROVE  /\ Coherent(log', FALSE, Scanned(log), stored')
         /\ Coherent(log', FALSE, Scanned(log'), stored')
         /\ Scanned(log') = Advanced(Scanned(log), Line(kind, id))
         /\ Line(kind, id).seq = Scanned(log).seq + 1
         /\ \A old \in stored, new \in stored' \ stored : old.seq < new.seq
<1>1. PICK s, g, r, u, f : /\ s = log /\ g = Scanned(log) /\ r = Line(kind, id)
                           /\ u = log' /\ f = Scanned(log')
  OBVIOUS
<1>2. Coherent(s, torn, head, stored) /\ g = Scanned(s) /\ f = Scanned(u)
  BY <1>1 DEF JournalInv
<1>3. Authoritative = g
  BY <1>1, AuthoritativeIs
<1>4. g \in FileHeads
  BY <1>2, ScanTyped DEF Coherent
<1>5. r = [seq |-> g.seq + 1, kind |-> kind, id |-> id, size |-> 2]
  BY <1>1, <1>3 DEF Line
<1>6. r \in Record
  <2>1. g.seq < MaxSeq
    BY <1>3 DEF Write
  <2>2. g.seq + 1 \in 1 .. MaxSeq
    BY <1>4, <2>1, JournalAssumption DEF FileHeads
  <2> QED BY <1>5, <2>2 DEF Record
<1>7. r.seq = g.seq + 1 /\ r.id = id /\ r.kind = kind
  BY <1>5
<1>8. r.id # NoId => r.kind = "event"
  BY <1>7 DEF Write, Kinds
<1>9. r.id # NoId => \A i \in DOMAIN g.recent : g.recent[i].id # r.id
  <2>1. ~(id # NoId /\ \E i \in DOMAIN g.recent : g.recent[i].id = id)
    BY <1>3 DEF Write, Known
  <2> QED BY <1>7, <2>1
<1>10. u = Append(s, r) /\ stored' = stored \cup {r}
  BY <1>1 DEF Write
<1>11. /\ Coherent(u, FALSE, g, stored \cup {r}) /\ Coherent(u, FALSE, f, stored \cup {r})
       /\ f = Advanced(g, r) /\ \A old \in stored : old.seq < r.seq
  <2>0. PICK t, h, all : t = torn /\ h = head /\ all = stored
    OBVIOUS
  <2>1. Coherent(s, t, h, all)
    BY <1>2, <2>0
  <2>2. g = Scanned(s)
    BY <1>2
  <2>3. f = Scanned(u)
    BY <1>2
  <2>4. Admissible(r, g)
    BY <1>7, <1>8, <1>9 DEF Admissible
  <2>5. u = Append(s, r)
    BY <1>10
  <2>6. Grown(u, g, f, r, all)
    BY <2>1, <2>2, <1>6, <2>4, <2>5, <2>3, AppendKeepsInv, Zenon
  <2> QED BY <2>0, <2>6, Zenon DEF Grown
<1> QED BY <1>1, <1>7, <1>10, <1>11

LEMMA JournalStarts ==
  ASSUME JournalInit
  PROVE  JournalInv
<1>1. PICK s, h : s = << >> /\ h = NoHead
  OBVIOUS
<1>2. s \in Seq(Record) /\ DOMAIN s = {} /\ h = Scanned(s)
  BY <1>1, ScanEmpty
<1>3. Orderly(s)
  BY <1>2 DEF Orderly, Rising, OnlyEventsNamed, Spaced
<1>4. h \in FileHeads
  BY <1>2, <1>3, ScanTyped
<1>5. Coherent(s, FALSE, h, {})
  BY <1>2, <1>3, <1>4 DEF Coherent
<1> QED BY <1>1, <1>5 DEF JournalInit, JournalInv

LEMMA RepairKeepsInv ==
  ASSUME JournalInv, Repaired, UNCHANGED <<log, stored>>
  PROVE  JournalInv'
<1>1. PICK g : g = Scanned(log)
  OBVIOUS
<1>2. head' = g /\ torn' = FALSE
  <2>1. torn \in BOOLEAN
    BY DEF JournalInv, Coherent
  <2> QED BY <1>1, <2>1, AuthoritativeIs DEF Repaired
<1>3. Coherent(log, FALSE, g, stored)
  BY <1>1, PublishKeepsInv DEF JournalInv
<1> QED BY <1>2, <1>3 DEF JournalInv

LEMMA JournalSteps ==
  ASSUME JournalInv, [JournalNext]_journalVars
  PROVE  JournalInv' /\ FreshNumbers
<1> USE DEF JournalInv
<1>1. CASE UNCHANGED journalVars
  BY <1>1 DEF journalVars, FreshNumbers
<1>2. ASSUME NEW kind \in Kinds, NEW id \in Identities \cup {NoId}, AppendEntry(kind, id)
      PROVE  JournalInv' /\ FreshNumbers
  <2>1. PICK g, r, u, f : g = Scanned(log) /\ r = Line(kind, id) /\ u = log' /\ f = Scanned(log')
    OBVIOUS
  <2>2. Write(kind, id)
    BY <1>2 DEF AppendEntry
  <2>3. /\ Coherent(u, FALSE, f, stored') /\ f = Advanced(g, r) /\ r.seq = g.seq + 1
        /\ \A old \in stored, new \in stored' \ stored : old.seq < new.seq
    BY <2>1, <2>2, WriteKeepsInv
  <2>4. head' = f
    <3>1. Authoritative = g
      BY <2>1, AuthoritativeIs
    <3>2. head' = [seq |-> r.seq, len |-> Bytes(u), recent |-> Remember(g.recent, id, r.seq)]
      BY <1>2, <2>1, <3>1 DEF AppendEntry
    <3>3. r.id = id
      BY <2>1 DEF Line
    <3>4. g.seq \in Nat
      <4>1. g \in FileHeads
        BY <2>1, ScanTyped DEF Coherent
      <4> QED BY <4>1 DEF FileHeads
    <3>5. Numbered(g.seq, r) = r.seq
      BY <2>3, <3>4 DEF Numbered
    <3>6. f = [seq |-> r.seq, len |-> g.len + r.size, recent |-> Remember(g.recent, id, r.seq)]
      BY <2>3, <3>3, <3>5 DEF Advanced
    <3>7. Bytes(u) = f.len
      BY <2>1 DEF Bytes
    <3> QED BY <3>2, <3>6, <3>7
  <2>5. torn' = FALSE
    BY <1>2 DEF AppendEntry
  <2> QED BY <2>1, <2>3, <2>4, <2>5 DEF FreshNumbers
<1>3. ASSUME NEW kind \in Kinds, NEW id \in Identities \cup {NoId}, AppendUnpublished(kind, id)
      PROVE  JournalInv' /\ FreshNumbers
  <2>1. Write(kind, id) /\ Repaired
    BY <1>3 DEF AppendUnpublished
  <2>2. PICK g : g = Scanned(log)
    OBVIOUS
  <2>3. /\ Coherent(log', FALSE, g, stored')
        /\ \A old \in stored, new \in stored' \ stored : old.seq < new.seq
    BY <2>1, <2>2, WriteKeepsInv
  <2>4. head' = g /\ torn' = FALSE
    <3>1. torn \in BOOLEAN
      BY DEF Coherent
    <3> QED BY <2>1, <2>2, <3>1, AuthoritativeIs DEF Repaired
  <2> QED BY <2>3, <2>4 DEF FreshNumbers
<1>4. CASE AppendTorn
  <2>1. PICK g : g = Scanned(log)
    OBVIOUS
  <2>2. Coherent(log, TRUE, g, stored)
    BY <2>1, PublishKeepsInv
  <2>3. head' = g /\ torn' = TRUE /\ UNCHANGED <<log, stored>>
    BY <1>4, <2>1, AuthoritativeIs DEF AppendTorn
  <2> QED BY <2>2, <2>3 DEF FreshNumbers
<1>5. CASE Repair
  <2>1. Repaired /\ UNCHANGED <<log, stored>>
    BY <1>5 DEF Repair
  <2> QED BY <2>1, RepairKeepsInv DEF FreshNumbers
<1>6. CASE RepairCut
  <2>1. PICK g : g = Scanned(log)
    OBVIOUS
  <2>2. Coherent(log, FALSE, head, stored)
    BY <2>1, PublishKeepsInv
  <2> QED BY <1>6, <2>2 DEF RepairCut, FreshNumbers
<1>7. PICK c, f, g : c = Compacted /\ f = Scanned(Compacted) /\ g = Scanned(log)
  OBVIOUS
<1>8. Coherent(c, FALSE, g, stored) /\ Coherent(c, FALSE, f, stored)
  <2>1. PICK s : s = log
    OBVIOUS
  <2>2. Coherent(s, torn, head, stored) /\ g = Scanned(s) /\ f = Scanned(c)
    BY <1>7, <2>1
  <2> QED BY <1>7, <2>1, <2>2, CompactKeepsInv
<1>9. CASE Compact
  <2>1. log' = c /\ torn' = FALSE /\ head' = f /\ stored' = stored
    BY <1>7, <1>9 DEF Compact
  <2> QED BY <1>8, <2>1 DEF FreshNumbers
<1>10. CASE CompactUnpublished
  <2>1. torn \in BOOLEAN
    BY DEF Coherent
  <2>2. log' = c /\ torn' = FALSE /\ head' = g /\ stored' = stored
    BY <1>7, <1>10, <2>1, AuthoritativeIs DEF CompactUnpublished, Repaired
  <2> QED BY <1>8, <2>2 DEF FreshNumbers
<1> QED BY <1>1, <1>2, <1>3, <1>4, <1>5, <1>6, <1>9, <1>10 DEF JournalNext, HookStep

LEMMA JournalInvIs ==
  ASSUME JournalInv
  PROVE  JournalTypeOK /\ BelievedHeadIsTrue /\ StoredOnce
<1>1. JournalTypeOK
  BY DEF JournalInv, Coherent, FileHeads, JournalTypeOK
<1>2. BelievedHeadIsTrue
  <2>1. head.len = FileLen => head = Authoritative
    BY DEF Authoritative
  <2> QED BY <2>1, AuthoritativeIs DEF BelievedHeadIsTrue
<1>3. EventsKept
  <2>1. \A i \in DOMAIN log : log[i] \in ToSet(log)
    BY DEF ToSet
  <2> QED BY <2>1 DEF EventsKept, JournalInv, Coherent
<1>4. OnceWithinWindow
  BY DEF OnceWithinWindow, IdentifiedBetween, JournalInv, Coherent, Orderly, Spaced, Between
<1> QED BY <1>1, <1>2, <1>3, <1>4 DEF StoredOnce

LEMMA JournalAlways == JournalSpec => []JournalInv
<1>1. JournalInit => JournalInv
  BY JournalStarts
<1>2. JournalInv /\ [JournalNext]_journalVars => JournalInv'
  BY JournalSteps
<1> QED BY <1>1, <1>2, PTL DEF JournalSpec

\* A head.json that would be believed says what a scan of the file would
\* (authoritative_head_locked), whatever was killed between two writes.
THEOREM JournalHeadIsTrue == JournalSpec => [](JournalTypeOK /\ BelievedHeadIsTrue)
<1>1. JournalInv => JournalTypeOK /\ BelievedHeadIsTrue
  BY JournalInvIs
<1> QED BY <1>1, JournalAlways, PTL

\* No event is lost, and none is journalled again while the window remembers it (append,
\* compact_dropping_status).
THEOREM JournalStoresOnce == JournalSpec => []StoredOnce
<1>1. JournalInv => StoredOnce
  BY JournalInvIs
<1> QED BY <1>1, JournalAlways, PTL

\* Sequence numbers rise over kills, repairs and compactions.
THEOREM JournalNumbersRise == JournalSpec => NumbersNeverReused
<1>1. JournalInv /\ [JournalNext]_journalVars => FreshNumbers
  BY JournalSteps
<1>2. [FreshNumbers]_journalVars <=> (FreshNumbers \/ UNCHANGED journalVars)
  OBVIOUS
<1>3. JournalInv /\ [JournalNext]_journalVars => [FreshNumbers]_journalVars
  BY <1>1
<1> QED BY <1>3, JournalAlways, PTL DEF JournalSpec, NumbersNeverReused

-----------------------------------------------------------------------------
(* The bridge and the core use the journal only as its operations allow.   *)

LEMMA SpineJournalStep ==
  ASSUME JournalInv, SpineNext
  PROVE  [JournalNext]_journalVars
<1> USE DEF journalVars
<1>1. Repaired /\ UNCHANGED <<log, stored>> => [JournalNext]_journalVars
  <2>1. head.len = FileLen /\ Repaired /\ UNCHANGED <<log, stored>> => UNCHANGED journalVars
    <3>1. torn \in BOOLEAN
      BY DEF JournalInv, Coherent
    <3> QED BY <3>1 DEF Repaired, Authoritative
  <2>2. head.len # FileLen /\ Repaired /\ UNCHANGED <<log, stored>> => Repair
    BY DEF Repair
  <2> QED BY <2>1, <2>2 DEF JournalNext, HookStep
<1>2. CASE Hook
  BY <1>2 DEF Hook, JournalNext
<1>3. CASE AgentStep
  <2>1. CASE AgentOpen
    BY <1>1, <2>1 DEF AgentOpen
  <2>2. CASE AgentSeedTail
    BY <1>1, <2>2 DEF AgentSeedTail
  <2>3. CASE AgentCompact
    BY <2>3 DEF AgentCompact, JournalNext
  <2>4. CASE AgentSizeTail \/ AgentTail \/ AgentHello \/ AgentReplay
    BY <2>4 DEF AgentSizeTail, AgentTail, AgentHello, AgentReplay
  <2> QED BY <1>3, <2>1, <2>2, <2>3, <2>4 DEF AgentStep
<1>4. CASE AgentCommand
  <2>1. AppendEntry("event", NoId)
    BY <1>4 DEF AgentCommand
  <2>2. "event" \in Kinds
    BY DEF Kinds
  <2> QED BY <2>1, <2>2 DEF JournalNext, HookStep
<1>5. CASE AgentDies \/ AgentDiesCompacting
  BY <1>5 DEF AgentDies, AgentDiesCompacting, JournalNext
<1>6. CASE ReaderStep
  BY <1>6 DEF ReaderStep, ReaderReady, ReaderLive, ReaderReplay, ReaderBoundary,
              ReaderComplete, ReaderExits, ReaderSetsFailed
<1>7. CASE Connect \/ ConnectFails \/ TimesOut
  BY <1>7 DEF Connect, ConnectFails, TimesOut, FailConnection
<1>8. CASE ConnectStep
  BY <1>8 DEF ConnectStep, HandshakeFails, ReplayFails, FailConnection, GoLive, BeginReplay,
              RequestReplay, FinishReplay
<1> QED BY <1>2, <1>3, <1>4, <1>5, <1>6, <1>7, <1>8 DEF SpineNext

\* The agent's bridge and the core, hooks beside them, are a use of the journal: each of
\* their steps is an operation of the journal or leaves its files alone.
THEOREM SpineUsesJournal == SpineSpec => JournalSpec
<1>1. SpineInit => JournalInit
  BY DEF SpineInit
<1>2. JournalInv /\ [SpineNext]_spineVars => [JournalNext]_journalVars
  <2>1. UNCHANGED spineVars => UNCHANGED journalVars
    BY DEF spineVars
  <2> QED BY <2>1, SpineJournalStep
<1>3. JournalInit => JournalInv
  BY JournalStarts
<1>4. JournalInv /\ [JournalNext]_journalVars => JournalInv'
  BY JournalSteps
<1> QED BY <1>1, <1>2, <1>3, <1>4, PTL DEF SpineSpec, JournalSpec

-----------------------------------------------------------------------------
(* What the agent reads of the file.                                       *)

Readings == [last : Nat, frames : Seq(Frames0)]
Unread(n) == [last |-> n, frames |-> << >>]

LEMMA ReadLineIs ==
  ASSUME NEW type \in FrameTypes, NEW after, NEW read \in Readings, NEW r \in Record
  PROVE  ReadLine(type, after, read, r) \in Readings
<1>1. PICK n : n = Numbered(read.last, r)
  OBVIOUS
<1>2. n \in Nat /\ r.seq \in 0 .. MaxSeq
  BY <1>1, JournalAssumption DEF Numbered, Readings, Record
<1>3. Frame(type, n, r.seq) \in Frames0
  BY <1>2 DEF Frame, Frames0
<1>4. read.frames \in Seq(Frames0) /\ Append(read.frames, Frame(type, n, r.seq)) \in Seq(Frames0)
  <2>1. read.frames \in Seq(Frames0)
    BY DEF Readings
  <2> HIDE DEF Frames0
  <2> QED BY <1>3, <2>1
<1> QED BY <1>1, <1>2, <1>4 DEF ReadLine, Readings

Unrolls(type, first, after, s) ==
  \E f \in [0 .. Len(s) -> Readings] :
    /\ f[0] = Unread(first)
    /\ \A k \in 1 .. Len(s) : f[k] = ReadLine(type, after, f[k - 1], s[k])
    /\ ReadOn(type, first, after, s) = f[Len(s)]

LEMMA ReadOnUnfolds ==
  ASSUME NEW type \in FrameTypes, NEW after, NEW first \in Nat, NEW s \in Seq(Record)
  PROVE  Unrolls(type, first, after, s)
<1>0. PICK n \in Nat : n = Len(s) /\ \A k \in 1 .. n : s[k] \in Record
  OBVIOUS
<1>10. PICK start : start = Unread(first)
  OBVIOUS
<1>11. start \in Readings
  <2>1. << >> \in Seq(Frames0)
    OBVIOUS
  <2> QED BY <1>10, <2>1 DEF Readings, Unread
<1> DEFINE step == [k \in 1 .. n |-> [h \in Readings |-> ReadLine(type, after, h, s[k])]]
           Obeys(f) == f = [k \in 0 .. n |-> IF k = 0 THEN start
                                             ELSE ReadLine(type, after, f[k - 1], s[k])]
           upTo == CHOOSE f : Obeys(f)
<1>1. step \in [1 .. n -> [Readings -> Readings]]
  BY <1>0, ReadLineIs
<1>2. PICK f \in [0 .. n -> Readings] : f[0] = start /\ \A k \in 1 .. n : f[k] = step[k][f[k - 1]]
  <2>1. step \in Steps(n, Readings)
    BY <1>1 DEF Steps
  <2> HIDE DEF step
  <2>2. Iterates(n, Readings, start, step)
    BY <2>1, <1>11, RecursionExists
  <2> QED BY <2>2 DEF Iterates
<1>3. ASSUME NEW k \in 1 .. n PROVE f[k] = ReadLine(type, after, f[k - 1], s[k])
  <2>1. f[k - 1] \in Readings
    BY <1>2
  <2> QED BY <1>2, <2>1
<1>4. Obeys(f)
  <2>1. f = [k \in 0 .. n |-> f[k]]
    BY <1>2
  <2>2. \A k \in 0 .. n : f[k] = IF k = 0 THEN start ELSE ReadLine(type, after, f[k - 1], s[k])
    BY <1>2, <1>3
  <2> QED BY <2>1, <2>2
<1>5. Obeys(upTo)
  <2> HIDE DEF Obeys
  <2> QED BY <1>4
<1>6. ReadOn(type, first, after, s) = upTo[n]
  BY <1>0, <1>10 DEF ReadOn, Unread
<1> HIDE DEF upTo
<1>7. upTo[0] = start /\ \A k \in 1 .. n : upTo[k] = ReadLine(type, after, upTo[k - 1], s[k])
  BY <1>5
<1>8. upTo \in [0 .. n -> Readings]
  <2> DEFINE P == {k \in 0 .. n : upTo[k] \in Readings}
  <2>1. 0 \in P
    BY <1>7, <1>11
  <2>2. ASSUME NEW k \in 1 .. n, k - 1 \in P PROVE k \in P
    BY <1>0, <1>7, <2>2, ReadLineIs
  <2>3. 0 .. n \subseteq P
    <3> HIDE DEF P
    <3> QED BY <2>1, <2>2, NaturalsFrom
  <2>4. upTo = [k \in 0 .. n |-> upTo[k]]
    BY <1>5
  <2> QED BY <2>3, <2>4
<1> QED BY <1>0, <1>6, <1>7, <1>8, <1>10 DEF Unrolls

LEMMA ReadOnEmpty ==
  ASSUME NEW type \in FrameTypes, NEW after, NEW first \in Nat
  PROVE  ReadOn(type, first, after, << >>) = Unread(first)
<1>1. << >> \in Seq(Record) /\ Len(<< >>) = 0
  OBVIOUS
<1>2. Unrolls(type, first, after, << >>)
  BY <1>1, ReadOnUnfolds, Zenon
<1> QED BY <1>1, <1>2 DEF Unrolls

LEMMA ReadOnAppend ==
  ASSUME NEW type \in FrameTypes, NEW after, NEW first \in Nat,
         NEW s \in Seq(Record), NEW r \in Record
  PROVE  /\ ReadOn(type, first, after, s) \in Readings
         /\ ReadOn(type, first, after, Append(s, r))
              = ReadLine(type, after, ReadOn(type, first, after, s), r)
<1>1. PICK t : t = Append(s, r)
  OBVIOUS
<1>2. PICK n \in Nat : n = Len(s)
  OBVIOUS
<1>3. t \in Seq(Record) /\ Len(t) = n + 1 /\ t[n + 1] = r /\ \A k \in 1 .. n : t[k] = s[k] /\ s[k] \in Record
  BY <1>1, <1>2
<1>12. PICK start : start = Unread(first)
  OBVIOUS
<1>4. PICK f \in [0 .. n -> Readings] :
        /\ f[0] = start /\ \A k \in 1 .. n : f[k] = ReadLine(type, after, f[k - 1], s[k])
        /\ ReadOn(type, first, after, s) = f[n]
  <2>1. Unrolls(type, first, after, s)
    BY ReadOnUnfolds, Zenon
  <2> QED BY <1>2, <1>12, <2>1 DEF Unrolls
<1>5. PICK g \in [0 .. n + 1 -> Readings] :
        /\ g[0] = start /\ \A k \in 1 .. n + 1 : g[k] = ReadLine(type, after, g[k - 1], t[k])
        /\ ReadOn(type, first, after, t) = g[n + 1]
  <2>1. Unrolls(type, first, after, t)
    BY <1>3, ReadOnUnfolds, Zenon
  <2> QED BY <1>3, <1>12, <2>1 DEF Unrolls
<1> DEFINE P == {k \in 0 .. n : f[k] = g[k]}
<1>6. 0 \in P
  BY <1>4, <1>5
<1>7. ASSUME NEW k \in 1 .. n, k - 1 \in P PROVE k \in P
  <2>1. g[k] = ReadLine(type, after, g[k - 1], t[k]) /\ f[k] = ReadLine(type, after, f[k - 1], s[k])
    BY <1>4, <1>5
  <2>2. f[k - 1] = g[k - 1] /\ t[k] = s[k] /\ k \in 0 .. n
    BY <1>3, <1>7
  <2>3. f[k] = g[k]
    BY <2>1, <2>2, Zenon
  <2> QED BY <2>2, <2>3
<1>8. 0 .. n \subseteq P
  <2> HIDE DEF P
  <2> QED BY <1>6, <1>7, NaturalsFrom
<1>9. f[n] = g[n] /\ g[n + 1] = ReadLine(type, after, g[n], t[n + 1])
  <2>1. n + 1 \in 1 .. n + 1 /\ (n + 1) - 1 = n
    OBVIOUS
  <2>2. g[n + 1] = ReadLine(type, after, g[(n + 1) - 1], t[n + 1])
    BY <1>5, <2>1
  <2> QED BY <1>8, <2>1, <2>2
<1>10. f[n] \in Readings
  BY <1>4
<1> QED BY <1>1, <1>3, <1>4, <1>5, <1>9, <1>10

\* What was read of records numbered in order above first: their last number, and in order
\* a frame for each above after that is not a watermark.
Reads(g, type, first, after, s) ==
  /\ g \in Readings
  /\ g.last = IF Len(s) = 0 THEN first ELSE s[Len(s)].seq
  /\ g.last >= first
  /\ \A i \in 1 .. Len(g.frames) :
       LET f == g.frames[i] IN
       /\ f = Frame(type, f.seq, f.seq)
       /\ first < f.seq /\ after < f.seq /\ f.seq <= g.last
  /\ \A i, j \in 1 .. Len(g.frames) : i < j => g.frames[i].seq < g.frames[j].seq
  /\ \A k \in 1 .. Len(s) : s[k].kind # "mark" /\ after < s[k].seq =>
       \E i \in 1 .. Len(g.frames) : g.frames[i] = Frame(type, s[k].seq, s[k].seq)

Above(s, first) == \A i \in 1 .. Len(s) : first < s[i].seq

LEMMA ReadsOn ==
  ASSUME NEW type \in FrameTypes, NEW first \in Nat, NEW after \in Nat,
         NEW s \in Seq(Record), NEW r \in Record, NEW n, n = Len(s), NEW t,
         t \in Seq(Record), Len(t) = n + 1, t[n + 1] = r, \A k \in 1 .. n : t[k] = s[k],
         Rising(t), Above(t, first), NEW h, Reads(h, type, first, after, s),
         NEW g, g = ReadLine(type, after, h, r)
  PROVE  Reads(g, type, first, after, t)
<1>1. n \in Nat /\ DOMAIN t = 1 .. n + 1 /\ n + 1 \in 1 .. n + 1 /\ \A k \in 1 .. n + 1 : t[k] \in Record
  OBVIOUS
<1>2. \A k \in 1 .. n + 1 : t[k].seq \in Nat /\ first < t[k].seq
  <2>1. \A k \in 1 .. n + 1 : t[k].seq \in Nat
    BY <1>1 DEF Record
  <2> QED BY <2>1 DEF Above
<1>3. h.last \in Nat /\ h.frames \in Seq(Frames0) /\ h.last < r.seq /\ first < r.seq /\ r.seq \in 1 .. MaxSeq
  <2>1. h.last \in Nat /\ h.frames \in Seq(Frames0) /\ r.seq \in 1 .. MaxSeq
    BY DEF Reads, Readings, Record
  <2>2. first < r.seq
    BY <1>1, <1>2
  <2>3. CASE n = 0
    BY <2>1, <2>2, <2>3 DEF Reads
  <2>4. CASE n # 0
    <3>1. n \in 1 .. n /\ n \in 1 .. n + 1 /\ t[n] = s[n]
      BY <1>1, <2>4
    <3>2. t[n].seq < t[n + 1].seq
      BY <1>1, <3>1 DEF Rising
    <3>3. h.last = s[n].seq
      BY <2>4 DEF Reads
    <3> QED BY <2>1, <2>2, <3>1, <3>2, <3>3
  <2> QED BY <2>1, <2>2, <2>3, <2>4
<1>4. PICK q \in Nat : q = r.seq
  BY <1>3
<1>5. Numbered(h.last, r) = q
  BY <1>3, <1>4 DEF Numbered
<1>6. g = [last |-> q, frames |-> IF r.kind = "mark" \/ q <= after THEN h.frames
                                  ELSE Append(h.frames, Frame(type, q, q))]
  BY <1>4, <1>5 DEF ReadLine
<1>7. g \in Readings
  BY ReadLineIs DEF Reads
<1>8. g.last = t[n + 1].seq /\ g.last = q /\ g.last >= first /\ n + 1 # 0
  BY <1>1, <1>3, <1>4, <1>6
<1>9. PICK m \in Nat : m = Len(h.frames)
  BY <1>3
<1>10. \A i \in 1 .. m : /\ h.frames[i] = Frame(type, h.frames[i].seq, h.frames[i].seq)
                         /\ first < h.frames[i].seq /\ after < h.frames[i].seq
                         /\ h.frames[i].seq \in Nat /\ h.frames[i].seq < q
  <2>0. \A i \in 1 .. m : h.frames[i] \in Frames0
    BY <1>3, <1>9
  <2>1. \A i \in 1 .. m : h.frames[i].seq \in Nat
    BY <2>0 DEF Frames0
  <2> QED BY <1>3, <1>4, <1>9, <2>1 DEF Reads
<1>11. \A k \in 1 .. n : t[k].kind # "mark" /\ after < t[k].seq =>
         \E i \in 1 .. m : h.frames[i] = Frame(type, t[k].seq, t[k].seq)
  BY <1>9 DEF Reads
<1>12. CASE r.kind = "mark" \/ q <= after
  <2>1. g.frames = h.frames
    BY <1>6, <1>12
  <2>2. ASSUME NEW k \in 1 .. n + 1, t[k].kind # "mark", after < t[k].seq
        PROVE \E i \in 1 .. m : h.frames[i] = Frame(type, t[k].seq, t[k].seq)
    <3>1. k # n + 1
      BY <1>3, <1>4, <1>12, <2>2
    <3>2. k \in 1 .. n
      BY <1>1, <3>1
    <3> QED BY <1>11, <2>2, <3>2
  <2>3. \A i \in 1 .. m : h.frames[i].seq <= q
    BY <1>10
  <2>4. \A i, j \in 1 .. m : i < j => h.frames[i].seq < h.frames[j].seq
    BY <1>9 DEF Reads
  <2> HIDE DEF Frame
  <2> QED BY <1>7, <1>8, <1>9, <1>10, <2>1, <2>2, <2>3, <2>4 DEF Reads
<1>13. CASE ~(r.kind = "mark" \/ q <= after)
  <2>0. PICK u, f : u = g.frames /\ f = Frame(type, q, q)
    OBVIOUS
  <2>1. u = Append(h.frames, f)
    BY <1>6, <1>13, <2>0
  <2>2. Len(u) = m + 1 /\ u[m + 1] = f /\ \A i \in 1 .. m : u[i] = h.frames[i]
    <3>1. f \in Frames0
      BY <1>3, <1>4, <2>0 DEF Frame, Frames0
    <3> HIDE DEF Frames0
    <3> QED BY <1>3, <1>9, <2>1, <3>1
  <2>3. f.seq = q /\ after < q
    BY <1>4, <1>13, <2>0 DEF Frame
  <2>4. \A i \in 1 .. m + 1 : i = m + 1 \/ i \in 1 .. m
    BY <1>9
  <2>5. ASSUME NEW i \in 1 .. m + 1
        PROVE u[i] = Frame(type, u[i].seq, u[i].seq) /\ first < u[i].seq /\ after < u[i].seq /\ u[i].seq <= q
    <3>1. CASE i = m + 1
      <4>1. u[i] = f /\ u[i].seq = q
        BY <2>2, <2>3, <3>1
      <4> QED BY <1>3, <1>4, <2>0, <2>3, <4>1
    <3>2. CASE i \in 1 .. m
      <4>1. u[i] = h.frames[i]
        BY <2>2, <3>2
      <4> QED BY <1>4, <1>10, <3>2, <4>1
    <3> QED BY <2>4, <3>1, <3>2
  <2>6. ASSUME NEW i \in 1 .. m + 1, NEW j \in 1 .. m + 1, i < j PROVE u[i].seq < u[j].seq
    <3>1. i \in 1 .. m
      BY <1>9, <2>6
    <3>2. CASE j = m + 1
      BY <1>10, <2>2, <2>3, <3>1, <3>2
    <3>3. CASE j \in 1 .. m
      BY <1>9, <2>2, <2>6, <3>1, <3>3 DEF Reads
    <3> QED BY <2>4, <3>2, <3>3
  <2>7. ASSUME NEW k \in 1 .. n + 1, t[k].kind # "mark", after < t[k].seq
        PROVE \E i \in 1 .. m + 1 : u[i] = Frame(type, t[k].seq, t[k].seq)
    <3>1. CASE k = n + 1
      <4>1. m + 1 \in 1 .. m + 1
        BY <1>9
      <4>2. t[k].seq = q
        BY <1>4, <3>1
      <4> QED BY <2>0, <2>2, <4>1, <4>2
    <3>2. CASE k # n + 1
      <4>1. k \in 1 .. n
        BY <1>1, <3>2
      <4>2. PICK i \in 1 .. m : h.frames[i] = Frame(type, t[k].seq, t[k].seq)
        BY <1>11, <2>7, <4>1
      <4>3. i \in 1 .. m + 1
        BY <1>9
      <4> QED BY <2>2, <4>2, <4>3
    <3> QED BY <3>1, <3>2
  <2> HIDE DEF Frame
  <2> QED BY <1>7, <1>8, <2>0, <2>2, <2>5, <2>6, <2>7 DEF Reads
<1> QED BY <1>12, <1>13

LEMMA ReadOnIs ==
  ASSUME NEW type \in FrameTypes, NEW first \in Nat, NEW after \in Nat,
         NEW s \in Seq(Record), Rising(s), Above(s, first)
  PROVE  Reads(ReadOn(type, first, after, s), type, first, after, s)
<1> DEFINE P == {x \in Seq(Record) : Rising(x) /\ Above(x, first) =>
                   Reads(ReadOn(type, first, after, x), type, first, after, x)}
<1>1. << >> \in P
  <2>1. PICK z, g : z = << >> /\ g = ReadOn(type, first, after, z)
    OBVIOUS
  <2>2. z \in Seq(Record) /\ Len(z) = 0 /\ z \in Seq(Frames0)
    BY <2>1
  <2>3. g = [last |-> first, frames |-> z]
    BY <2>1, ReadOnEmpty DEF Unread
  <2>4. Reads(g, type, first, after, z)
    BY <2>2, <2>3 DEF Reads, Readings
  <2> QED BY <2>1, <2>2, <2>4
<1>2. ASSUME NEW x \in Seq(Record), NEW r \in Record, x \in P PROVE Append(x, r) \in P
  <2>1. PICK t, g, h, n : /\ t = Append(x, r) /\ n = Len(x)
                          /\ g = ReadOn(type, first, after, t) /\ h = ReadOn(type, first, after, x)
    OBVIOUS
  <2>2. t \in Seq(Record) /\ g = ReadLine(type, after, h, r)
    BY <2>1, ReadOnAppend
  <2>3. n \in Nat /\ Len(t) = n + 1 /\ t[n + 1] = r /\ \A k \in 1 .. n : t[k] = x[k]
    BY <2>1
  <2>4. ASSUME Rising(t), Above(t, first) PROVE Reads(g, type, first, after, t)
    <3>1. Rising(x) /\ Above(x, first)
      <4>1. \A i \in DOMAIN x : i \in DOMAIN t /\ i \in 1 .. Len(t) /\ i \in 1 .. n /\ t[i] = x[i]
        BY <2>1
      <4> QED BY <2>1, <2>3, <2>4, <4>1 DEF Rising, Above
    <3>2. Reads(h, type, first, after, x)
      BY <1>2, <2>1, <3>1
    <3>3. n = Len(x) /\ t[n + 1] = r /\ g = ReadLine(type, after, h, r)
      BY <2>1, <2>2, <2>3
    <3> QED BY <2>2, <2>3, <2>4, <3>2, <3>3, ReadsOn, Zenon
  <2> QED BY <2>1, <2>2, <2>4
<1>3. Seq(Record) \subseteq P
  <2> HIDE DEF P
  <2> QED BY <1>1, <1>2, SequencesFrom
<1> QED BY <1>3

LEMMA LastIs ==
  ASSUME NEW s \in Seq(Record), Rising(s)
  PROVE  /\ LastSeq(s) = IF Len(s) = 0 THEN 0 ELSE s[Len(s)].seq
         /\ LastSeq(s) \in 0 .. MaxSeq
<1>1. PICK n, h : n = Len(s) /\ n \in Nat /\ h = Scanned(s)
  <2>1. Len(s) \in Nat
    OBVIOUS
  <2> QED BY <2>1, Zenon
<1>2. Knows(h, s) /\ LastSeq(s) = h.seq
  BY <1>1, ScanIs DEF LastSeq
<1>3. h.seq \in 0 .. MaxSeq
  BY <1>2 DEF Knows
<1>4. CASE n = 0
  <2>1. s = << >>
    BY <1>1, <1>4, EmptySeq
  <2> QED BY <1>1, <1>2, <1>3, <1>4, <2>1, ScanEmpty DEF NoHead
<1>5. CASE n # 0
  <2>1. PICK m \in Nat : n = m + 1
    BY <1>1, <1>5
  <2>2. h.seq = s[m + 1].seq
    BY <1>1, <1>2, <2>1, LastNumber
  <2> QED BY <1>1, <1>2, <1>3, <1>5, <2>1, <2>2
<1> QED BY <1>4, <1>5

LEMMA PrefixIs ==
  ASSUME NEW S, NEW s \in Seq(S), NEW p \in 0 .. Len(s), NEW t, t = SubSeq(s, 1, p)
  PROVE  t \in Seq(S) /\ Len(t) = p /\ \A i \in 1 .. p : t[i] = s[i] /\ i \in 1 .. Len(s)
<1>1. \A i \in 1 .. p : s[i] \in S /\ i \in 1 .. Len(s)
  OBVIOUS
<1>2. 1 \in Int /\ p \in Int /\ p >= 0
  OBVIOUS
<1> QED BY <1>1, <1>2, SubSeqProperties

LEMMA SuffixIs ==
  ASSUME NEW S, NEW s \in Seq(S), NEW p \in 0 .. Len(s), NEW t, t = SubSeq(s, p + 1, Len(s))
  PROVE  /\ t \in Seq(S) /\ Len(t) = Len(s) - p
         /\ \A i \in 1 .. Len(s) - p : t[i] = s[p + i] /\ p + i \in 1 .. Len(s)
<1>1. Len(s) \in Nat /\ p \in Nat /\ p + 1 \in Int /\ Len(s) \in Int /\ p <= Len(s)
  OBVIOUS
<1>2. \A i \in p + 1 .. Len(s) : s[i] \in S
  OBVIOUS
<1>3. /\ t \in Seq(S)
      /\ Len(t) = IF p + 1 <= Len(s) THEN Len(s) - (p + 1) + 1 ELSE 0
      /\ \A i \in 1 .. Len(s) - (p + 1) + 1 : t[i] = s[p + 1 + i - 1]
  BY <1>1, <1>2, SubSeqProperties
<1>4. \A i \in 1 .. Len(s) - p : i \in 1 .. Len(s) - (p + 1) + 1 /\ p + 1 + i - 1 = p + i
  BY <1>1
<1> QED BY <1>1, <1>3, <1>4

\* A longer prefix has more bytes.
LEMMA BytesRise ==
  ASSUME NEW s \in Seq(Record), NEW n, n = Len(s),
         NEW b, b = [k \in 0 .. n |-> Bytes(SubSeq(s, 1, k))]
  PROVE  b \in [0 .. n -> Nat] /\ \A i, j \in 0 .. n : i < j => b[i] < b[j]
<1>0. n \in Nat
  OBVIOUS
<1>1. ASSUME NEW k \in 0 .. n PROVE b[k] \in Nat
  <2>1. PICK t : t = SubSeq(s, 1, k)
    OBVIOUS
  <2>2. t \in Seq(Record)
    BY <2>1, PrefixIs
  <2>3. Bytes(t) \in Nat
    <3>1. PICK h : h = Scanned(t)
      OBVIOUS
    <3>2. Scanned(t) \in Heads
      <4>1. \E f \in [0 .. Len(t) -> Heads] : Scanned(t) = f[Len(t)]
        BY <2>2, ScanUnfolds
      <4>2. Len(t) \in 0 .. Len(t)
        BY <2>2
      <4> QED BY <4>1, <4>2
    <3> QED BY <3>1, <3>2 DEF Bytes, Heads
  <2> QED BY <2>1, <2>3
<1>2. ASSUME NEW k \in 1 .. n PROVE b[k - 1] < b[k]
  <2>1. PICK t, u, r : t = SubSeq(s, 1, k - 1) /\ u = SubSeq(s, 1, k) /\ r = s[k]
    OBVIOUS
  <2>2. k - 1 \in 0 .. n /\ k \in 0 .. n
    BY <1>0
  <2>3. t \in Seq(Record) /\ r \in Record
    BY <2>1, <2>2, PrefixIs
  <2>4. u = Append(t, r)
    BY <1>0, <2>1
  <2>5. Bytes(t) \in Nat /\ r.size \in {2, 3} /\ Bytes(u) = Bytes(t) + r.size
    BY <2>3, <2>4, BytesAre
  <2>6. b[k - 1] = Bytes(t) /\ b[k] = Bytes(u)
    BY <2>1, <2>2
  <2> QED BY <2>5, <2>6
<1>3. b \in [0 .. n -> Nat]
  BY <1>1
<1> DEFINE P == {j \in 0 .. n : \A i \in 0 .. n : i < j => b[i] < b[j]}
<1>4. 0 \in P
  BY <1>0
<1>5. ASSUME NEW j \in 1 .. n, j - 1 \in P PROVE j \in P
  <2>1. j \in 0 .. n /\ j - 1 \in 0 .. n /\ b[j - 1] \in Nat /\ b[j] \in Nat /\ b[j - 1] < b[j]
    BY <1>0, <1>1, <1>2
  <2>2. ASSUME NEW i \in 0 .. n, i < j PROVE b[i] < b[j]
    <3>1. i = j - 1 \/ i < j - 1
      BY <1>0, <2>2
    <3>2. b[i] \in Nat
      BY <1>1
    <3>3. i < j - 1 => b[i] < b[j - 1]
      BY <1>5
    <3> QED BY <2>1, <3>1, <3>2, <3>3
  <2> QED BY <2>1, <2>2
<1>6. 0 .. n \subseteq P
  <2> HIDE DEF P
  <2> QED BY <1>0, <1>4, <1>5, NaturalsFrom
<1> QED BY <1>3, <1>6

\* From the end of a prefix, what follows is read.
LEMMA LinesAre ==
  ASSUME NEW s \in Seq(Record), NEW p \in 0 .. Len(s)
  PROVE  LinesFrom(s, Bytes(SubSeq(s, 1, p))) = SubSeq(s, p + 1, Len(s))
<1>1. PICK n \in Nat : n = Len(s)
  OBVIOUS
<1>2. PICK b : b = [k \in 0 .. n |-> Bytes(SubSeq(s, 1, k))]
  OBVIOUS
<1>3. b \in [0 .. n -> Nat] /\ \A i, j \in 0 .. n : i < j => b[i] < b[j]
  BY <1>1, <1>2, BytesRise
<1> DEFINE whole == {i \in DOMAIN s : Bytes(SubSeq(s, 1, i - 1)) >= Bytes(SubSeq(s, 1, p))}
<1>4. whole = p + 1 .. n
  <2>1. DOMAIN s = 1 .. n /\ p \in 0 .. n
    BY <1>1
  <2>2. ASSUME NEW i \in 1 .. n
        PROVE  Bytes(SubSeq(s, 1, i - 1)) >= Bytes(SubSeq(s, 1, p)) <=> i \in p + 1 .. n
    <3>1. i - 1 \in 0 .. n
      BY <1>1
    <3>2. Bytes(SubSeq(s, 1, i - 1)) = b[i - 1] /\ Bytes(SubSeq(s, 1, p)) = b[p]
      BY <1>2, <2>1, <3>1
    <3>3. b[i - 1] \in Nat /\ b[p] \in Nat
      BY <1>3, <2>1, <3>1
    <3>4. CASE i - 1 < p
      BY <1>3, <2>1, <3>1, <3>2, <3>3, <3>4
    <3>5. CASE i - 1 = p
      <4>1. i \in p + 1 .. n
        BY <1>1, <2>1, <3>5
      <4> QED BY <3>2, <3>3, <3>5, <4>1
    <3>6. CASE p < i - 1
      <4>1. b[p] < b[i - 1]
        BY <1>3, <2>1, <3>1, <3>6
      <4>2. i \in p + 1 .. n
        BY <1>1, <2>1, <3>6
      <4> QED BY <3>2, <3>3, <4>1, <4>2
    <3> QED BY <1>1, <2>1, <3>4, <3>5, <3>6
  <2>3. \A i \in p + 1 .. n : i \in 1 .. n
    BY <1>1, <2>1
  <2> QED BY <2>1, <2>2, <2>3
<1>5. Cardinality(p + 1 .. n) = n - p
  <2>1. p + 1 \in Int /\ n \in Int /\ p <= n
    BY <1>1
  <2>2. Cardinality(p + 1 .. n) = IF p + 1 > n THEN 0 ELSE n - (p + 1) + 1
    BY <2>1, FS_Interval
  <2> QED BY <2>1, <2>2
<1>6. n - (n - p) + 1 = p + 1
  BY <1>1
<1>7. LinesFrom(s, Bytes(SubSeq(s, 1, p))) = SubSeq(s, Len(s) - Cardinality(whole) + 1, Len(s))
  BY DEF LinesFrom
<1> HIDE DEF whole
<1>8. Len(s) - Cardinality(whole) + 1 = p + 1
  BY <1>1, <1>4, <1>5, <1>6
<1> QED BY <1>7, <1>8, Zenon

\* Nothing of the file is shorter than a prefix of it.
LEMMA PrefixShorter ==
  ASSUME NEW s \in Seq(Record), NEW p \in 0 .. Len(s)
  PROVE  Bytes(SubSeq(s, 1, p)) \in Nat /\ Bytes(SubSeq(s, 1, p)) <= Bytes(s) /\ Bytes(s) \in Nat
<1>1. PICK n \in Nat : n = Len(s)
  OBVIOUS
<1>2. PICK b : b = [k \in 0 .. n |-> Bytes(SubSeq(s, 1, k))]
  OBVIOUS
<1>3. b \in [0 .. n -> Nat] /\ \A i, j \in 0 .. n : i < j => b[i] < b[j]
  BY <1>1, <1>2, BytesRise
<1>4. SubSeq(s, 1, n) = s
  BY <1>1, SubSeqFull
<1>5. p \in 0 .. n /\ n \in 0 .. n
  BY <1>1
<1>6. b[p] = Bytes(SubSeq(s, 1, p)) /\ b[n] = Bytes(SubSeq(s, 1, n))
  BY <1>2, <1>5
<1>7. b[n] = Bytes(s)
  BY <1>4, <1>6
<1>8. b[p] \in Nat /\ b[n] \in Nat /\ (p < n => b[p] < b[n])
  BY <1>3, <1>5
<1>9. p < n \/ p = n
  BY <1>5
<1>10. b[p] <= b[n]
  BY <1>8, <1>9
<1> QED BY <1>6, <1>7, <1>8, <1>10

\* Events of the file numbered above from are among the frames; the others are, too, in order.
Fetched(g, type, from, after, s) ==
  /\ g \in Readings
  /\ g.last = LastSeq(s)
  /\ \A i \in 1 .. Len(g.frames) :
       LET f == g.frames[i] IN
       /\ f = Frame(type, f.seq, f.seq)
       /\ from < f.seq /\ after < f.seq /\ f.seq <= g.last
  /\ \A i, j \in 1 .. Len(g.frames) : i < j => g.frames[i].seq < g.frames[j].seq
  /\ \A k \in 1 .. Len(s) : s[k].kind # "mark" /\ after < s[k].seq /\ from < s[k].seq =>
       \E i \in 1 .. Len(g.frames) : g.frames[i] = Frame(type, s[k].seq, s[k].seq)

LEMMA TailFetches ==
  ASSUME NEW s \in Seq(Record), Rising(s), NEW p \in 0 .. Len(s),
         NEW from, from = LastSeq(SubSeq(s, 1, p)), NEW type \in FrameTypes, NEW after \in Nat,
         NEW g, g = ReadOn(type, from, after, LinesFrom(s, Bytes(SubSeq(s, 1, p))))
  PROVE  from \in 0 .. MaxSeq /\ Fetched(g, type, from, after, s)
<1>1. PICK n, q, t : /\ n = Len(s) /\ n \in Nat
                     /\ q = SubSeq(s, 1, p) /\ t = SubSeq(s, p + 1, Len(s))
  <2>1. Len(s) \in Nat
    OBVIOUS
  <2> QED BY <2>1, Zenon
<1>2. q \in Seq(Record) /\ Len(q) = p /\ \A i \in 1 .. p : q[i] = s[i] /\ i \in 1 .. n
  BY <1>1, PrefixIs
<1>3. t \in Seq(Record) /\ Len(t) = n - p /\ \A i \in 1 .. n - p : t[i] = s[p + i] /\ p + i \in 1 .. n
  BY <1>1, SuffixIs
<1>4. p \in 0 .. n /\ DOMAIN s = 1 .. n /\ DOMAIN q = 1 .. p /\ DOMAIN t = 1 .. n - p
  BY <1>1, <1>2, <1>3
<1>5. \A i \in 1 .. n : s[i] \in Record /\ s[i].seq \in 1 .. MaxSeq
  <2>1. \A i \in 1 .. n : s[i] \in Record
    BY <1>1
  <2> QED BY <2>1 DEF Record
<1>6. Rising(q)
  BY <1>2, <1>4 DEF Rising
<1>7. Rising(t)
  <2> SUFFICES ASSUME NEW i \in 1 .. n - p, NEW j \in 1 .. n - p, i < j PROVE t[i].seq < t[j].seq
    BY <1>4 DEF Rising
  <2>1. p + i \in 1 .. n /\ p + j \in 1 .. n /\ p + i < p + j
    BY <1>3, <1>4
  <2> QED BY <1>3, <1>4, <2>1 DEF Rising
<1>8. from = (IF p = 0 THEN 0 ELSE s[p].seq) /\ from \in 0 .. MaxSeq
  <2>1. from = (IF p = 0 THEN 0 ELSE q[p].seq) /\ from \in 0 .. MaxSeq
    BY <1>1, <1>2, <1>6, LastIs
  <2>2. p # 0 => p \in 1 .. p
    BY <1>4
  <2> QED BY <1>2, <2>1, <2>2
<1>9. ASSUME NEW k \in 1 .. n PROVE from < s[k].seq <=> p < k
  <2>1. CASE p = 0
    BY <1>4, <1>5, <1>8, <2>1
  <2>2. CASE p # 0
    <3>1. p \in 1 .. n
      BY <1>4, <2>2
    <3>2. (p < k => s[p].seq < s[k].seq) /\ (k < p => s[k].seq < s[p].seq)
      BY <1>4, <3>1 DEF Rising
    <3>3. s[p].seq \in Nat /\ s[k].seq \in Nat
      BY <1>5, <3>1
    <3>4. p < k \/ p = k \/ k < p
      BY <3>1
    <3> QED BY <1>8, <2>2, <3>1, <3>2, <3>3, <3>4
  <2> QED BY <2>1, <2>2
<1>10. Above(t, from)
  <2> SUFFICES ASSUME NEW i \in 1 .. n - p PROVE from < t[i].seq
    BY <1>3 DEF Above
  <2>1. p + i \in 1 .. n /\ p < p + i /\ t[i] = s[p + i]
    BY <1>3, <1>4
  <2> QED BY <1>9, <2>1
<1>11. from \in Nat
  BY <1>8, JournalAssumption
<1>12. Reads(g, type, from, after, t)
  <2>1. g = ReadOn(type, from, after, t)
    BY <1>1, LinesAre
  <2>2. Reads(ReadOn(type, from, after, t), type, from, after, t)
    BY <1>3, <1>7, <1>10, <1>11, ReadOnIs, Zenon
  <2> QED BY <2>1, <2>2
<1>13. g.last = LastSeq(s)
  <2>1. g.last = IF n - p = 0 THEN from ELSE t[n - p].seq
    BY <1>3, <1>12 DEF Reads
  <2>2. LastSeq(s) = IF n = 0 THEN 0 ELSE s[n].seq
    BY <1>1, LastIs
  <2>3. CASE p = n
    BY <1>8, <2>1, <2>2, <2>3
  <2>4. CASE p # n
    <3>1. n - p \in 1 .. n - p /\ p + (n - p) = n /\ n # 0 /\ n - p # 0
      BY <1>1, <1>4, <2>4
    <3>2. t[n - p] = s[p + (n - p)]
      BY <1>3, <3>1
    <3> QED BY <2>1, <2>2, <3>1, <3>2
  <2> QED BY <2>3, <2>4
<1>14. ASSUME NEW k \in 1 .. n, s[k].kind # "mark", after < s[k].seq, from < s[k].seq
       PROVE  \E i \in 1 .. Len(g.frames) : g.frames[i] = Frame(type, s[k].seq, s[k].seq)
  <2>1. p < k
    BY <1>9, <1>14
  <2>2. PICK i \in 1 .. n - p : p + i = k
    <3>1. k - p \in 1 .. n - p /\ p + (k - p) = k
      BY <1>1, <1>4, <2>1
    <3> QED BY <3>1
  <2>3. t[i] = s[k] /\ i \in 1 .. Len(t)
    BY <1>3, <2>2
  <2> QED BY <1>12, <1>14, <2>3 DEF Reads
<1>15. /\ g \in Readings
       /\ \A i \in 1 .. Len(g.frames) :
            LET f == g.frames[i] IN
            /\ f = Frame(type, f.seq, f.seq)
            /\ from < f.seq /\ after < f.seq /\ f.seq <= g.last
       /\ \A i, j \in 1 .. Len(g.frames) : i < j => g.frames[i].seq < g.frames[j].seq
  BY <1>12 DEF Reads
<1> HIDE DEF Frame
<1> QED BY <1>1, <1>8, <1>13, <1>14, <1>15 DEF Fetched

\* A replay scans the file from its start.
LEMMA ScanFetches ==
  ASSUME NEW s \in Seq(Record), Rising(s), NEW type \in FrameTypes, NEW after \in Nat,
         NEW g, g = ReadOn(type, 0, after, s)
  PROVE  Fetched(g, type, 0, after, s)
<1>1. \A i \in 1 .. Len(s) : s[i].seq \in 1 .. MaxSeq
  <2>1. \A i \in 1 .. Len(s) : s[i] \in Record
    OBVIOUS
  <2> QED BY <2>1 DEF Record
<1>2. Above(s, 0)
  BY <1>1 DEF Above
<1>3. Reads(g, type, 0, after, s)
  <2>1. 0 \in Nat
    OBVIOUS
  <2> QED BY <1>2, <2>1, ReadOnIs, Zenon
<1>4. g.last = LastSeq(s)
  BY <1>3, LastIs DEF Reads
<1> HIDE DEF Frame
<1> QED BY <1>3, <1>4 DEF Reads, Fetched

-----------------------------------------------------------------------------
(* The bridge's inductive invariant, in parts.  h is the journal's last    *)
(* number, E the numbers of its events, and b the number from which on the *)
(* tail of this connection owes every event: where its agent seeded it.    *)

Flows   == [state : {"buffering", "replaying", "live", "cancelled"},
            history : SUBSET Frames0, live : SUBSET Frames0, verified : Nat,
            boundary : BOOLEAN, complete : BOOLEAN, error : BOOLEAN]
Answers == [is : {"nothing", "ok", "error"}, seq : Nat]
Agents  == [phase : {"none", "spawned", "opened", "compacted", "sized", "serving", "dead"},
            head : 0 .. MaxSeq, offset : Nat, last : Nat]

SpineTypes ==
  /\ agent \in Agents
  /\ toAgent \in Seq(Frames0)
  /\ pipe \in Seq(Frames0)
  /\ attempt \in {"idle", "hello", "begun", "await"}
  /\ reading \in BOOLEAN /\ current \in BOOLEAN
  /\ conn \in {"disconnected", "handshaking", "replaying", "live", "failed"}
  /\ flow \in Flows
  /\ ready \in Answers
  /\ replayed \in Answers
  /\ failing \in Nat /\ connects \in Nat
  /\ cursor \in Nat
  /\ seen \in [1 .. MaxSeq -> Nat]

\* How the agent, the connecting thread and the reader stand to each other.
Control ==
  /\ ~reading => pipe = << >> /\ flow.state = "cancelled" /\ agent.phase \in {"none", "dead"}
  /\ agent.phase = "none" => ~reading /\ attempt = "idle"
  /\ agent.phase \in {"none", "dead"} => toAgent = << >>
  /\ reading => /\ attempt = "hello" <=> flow.state = "buffering"
                /\ attempt \in {"begun", "await"} <=> flow.state = "replaying"
                /\ attempt = "idle" <=> flow.state = "live"
  /\ flow.state \in {"live", "cancelled"} => flow.live = {}
  /\ ~flow.error
  /\ failing + (IF reading THEN 1 ELSE 0) <= connects /\ connects <= MaxConnects
  /\ agent.phase \in {"spawned", "opened", "compacted", "sized"} =>
       pipe = << >> /\ flow.live = {} /\ ready.is = "nothing" /\ reading /\ attempt = "hello"

Positioned(offset, number, s) ==
  \E p \in 0 .. Len(s) : offset = Bytes(SubSeq(s, 1, p)) /\ number = LastSeq(SubSeq(s, 1, p))

\* The tail stands between two records; while it is being seeded, no hook runs.
Synced(h) ==
  /\ agent.phase \in {"opened", "compacted", "sized"} => torn = FALSE /\ agent.head = h
  /\ agent.phase = "sized" => agent.offset = Bytes(log)
  /\ agent.phase = "serving" => /\ agent.head <= h /\ agent.last <= h
                                /\ Positioned(agent.offset, agent.last, log)

\* One question is under way at a time, and is answered once.
Talk(h) ==
  /\ Len(toAgent) <= 1
  /\ \A i \in 1 .. Len(toAgent) :
       \/ /\ toAgent[i].type = "hello" /\ attempt = "hello" /\ ready.is # "ok"
          /\ \A j \in 1 .. Len(pipe) : pipe[j].type # "ready"
       \/ toAgent[i].type = "replay" /\ toAgent[i].seq = cursor /\ attempt = "await"
  /\ \A i \in 1 .. Len(pipe) : pipe[i].type = "ready" =>
       /\ attempt = "hello" /\ ready.is # "ok"
       /\ \A j \in 1 .. Len(pipe) : pipe[j].type = "ready" => i = j
  /\ flow.state \in {"replaying", "live"} => ready.is = "ok"
  /\ ready.is = "ok" => ready.seq <= h
  /\ attempt \in {"hello", "begun"} => replayed.is # "ok"

\* Frames carry the numbers of records of the journal.
Sane(h) ==
  /\ \A i \in 1 .. Len(pipe) :
       /\ pipe[i].type \in {"ready", "live", "replay", "boundary", "complete"}
       /\ pipe[i].seq <= h
       /\ pipe[i].type \in {"live", "replay"} =>
            pipe[i] = Frame(pipe[i].type, pipe[i].seq, pipe[i].seq) /\ pipe[i].seq > 0
  /\ \A f \in flow.live : f = Frame("live", f.seq, f.seq) /\ 0 < f.seq /\ f.seq <= h
  /\ \A f \in flow.history : /\ f = Frame("replay", f.seq, f.seq)
                             /\ cursor < f.seq /\ f.seq <= flow.verified

\* A replay is a run of rising numbers, a boundary that covers them and every event up to
\* it, and a completion that matches.
Replaying(h, E) ==
  /\ flow.state = "replaying" => cursor <= flow.verified /\ flow.verified <= h
  /\ flow.state # "replaying" => flow.history = {} /\ ~flow.boundary /\ ~flow.complete
  /\ \A i \in 1 .. Len(pipe) : pipe[i].type \in {"replay", "boundary", "complete"} =>
       attempt = "await" /\ toAgent = << >> /\ ~flow.complete /\ replayed.is # "ok"
  /\ reading /\ (attempt = "begun" \/ (attempt = "await" /\ toAgent # << >>)) =>
       flow.history = {} /\ ~flow.boundary /\ flow.verified = cursor /\ replayed.is # "ok"
  /\ \A i \in 1 .. Len(pipe) : pipe[i].type = "replay" =>
       /\ ~flow.boundary /\ flow.verified < pipe[i].seq
       /\ \A j \in 1 .. Len(pipe) : pipe[j].type = "replay" /\ i < j => pipe[i].seq < pipe[j].seq
  /\ \A i \in 1 .. Len(pipe) : pipe[i].type = "boundary" =>
       /\ ~flow.boundary /\ flow.verified <= pipe[i].seq /\ ready.seq <= pipe[i].seq
       /\ \A j \in 1 .. Len(pipe) :
            /\ pipe[j].type = "replay" => j < i /\ pipe[j].seq <= pipe[i].seq
            /\ pipe[j].type = "boundary" => i = j
       /\ \A e \in E : cursor < e /\ e <= pipe[i].seq =>
            \/ Frame("replay", e, e) \in flow.history
            \/ \E j \in 1 .. Len(pipe) : pipe[j] = Frame("replay", e, e)
  /\ \A i \in 1 .. Len(pipe) : pipe[i].type = "complete" =>
       /\ \A j \in 1 .. Len(pipe) : pipe[j].type \in {"replay", "boundary", "complete"} => j <= i
       /\ flow.boundary => flow.verified = pipe[i].seq
       /\ ~flow.boundary => \E j \in 1 .. Len(pipe) :
                              j < i /\ pipe[j].type = "boundary" /\ pipe[j].seq = pipe[i].seq
  /\ flow.boundary => /\ ready.seq <= flow.verified
                      /\ \A e \in E : cursor < e /\ e <= flow.verified =>
                           Frame("replay", e, e) \in flow.history
  /\ flow.complete => flow.boundary
  /\ replayed.is = "ok" /\ flow.state = "replaying" => flow.complete

\* The core has the event e from the tail, buffered or behind it.
Came(e) == Frame("live", e, e) \in flow.live \/ (flow.state = "live" /\ e <= cursor)

\* From b on the tail leaves no event out.
Tailed(b, E) ==
  /\ agent.phase = "serving" => b <= agent.head /\ b <= agent.last
  /\ \A i \in 1 .. Len(pipe) : pipe[i].type = "ready" => b <= pipe[i].seq
  /\ ready.is = "ok" => b <= ready.seq
  /\ \A f \in flow.live : \A e \in E : b < e /\ e < f.seq => Frame("live", e, e) \in flow.live
  /\ \A k \in 1 .. Len(pipe) : pipe[k].type = "live" =>
       \A e \in E : b < e /\ e < pipe[k].seq =>
         Came(e) \/ \E j \in 1 .. Len(pipe) : j < k /\ pipe[j] = Frame("live", e, e)
  /\ agent.phase = "serving" =>
       \A e \in E : b < e /\ e <= agent.last =>
         Came(e) \/ \E j \in 1 .. Len(pipe) : pipe[j] = Frame("live", e, e)

\* What was consumed is what the cursor has passed.
Consumed(h, E) ==
  /\ \A n \in 1 .. MaxSeq : seen[n] \in {0, 1} /\ (seen[n] = 1 => n <= cursor)
  /\ \A e \in E : e <= cursor => seen[e] = 1
  /\ flow.state = "live" => ready.seq <= cursor
  /\ cursor <= h

Bridge(h, E, b) ==
  /\ SpineTypes /\ Control /\ Synced(h) /\ Talk(h) /\ Sane(h)
  /\ Replaying(h, E) /\ Tailed(b, E) /\ Consumed(h, E)

EventNumbers(all) == {r.seq : r \in {x \in all : x.kind = "event"}}
Counts(h, E, s, all) == h = LastSeq(s) /\ E = EventNumbers(all)

SpineInv ==
  /\ JournalInv
  /\ \E h \in 0 .. MaxSeq, b \in 0 .. MaxSeq : \E E \in SUBSET (1 .. h) :
       Counts(h, E, log, stored) /\ Bridge(h, E, b)

-----------------------------------------------------------------------------
(* Connections are made and torn down.                                     *)

LEMMA NoAgentIs ==
  /\ NoAgent \in Agents /\ NoAgent.phase = "none"
  /\ [NoAgent EXCEPT !.phase = "spawned"] \in Agents
  /\ [NoAgent EXCEPT !.phase = "spawned"].phase = "spawned"
  /\ [NoAgent EXCEPT !.phase = "dead"] \in Agents
  /\ [NoAgent EXCEPT !.phase = "dead"].phase = "dead"
BY JournalAssumption DEF NoAgent, Agents

\* A flow with nothing in it.
Blank(fl, state) ==
  /\ fl \in Flows /\ fl.state = state /\ fl.history = {} /\ fl.live = {}
  /\ ~fl.boundary /\ ~fl.complete /\ ~fl.error

LEMMA NewFlowIs ==
  /\ Blank(NewFlow, "buffering") /\ Blank(Gone, "cancelled")
  /\ Blank([NewFlow EXCEPT !.state = "live"], "live")
BY DEF Blank, NewFlow, Gone, Flows

LEMMA HelloIs ==
  ASSUME NEW s, s = <<Frame("hello", 0, 0)>>
  PROVE  s \in Seq(Frames0) /\ Len(s) = 1 /\ s[1].type = "hello" /\ s # << >>
<1>1. PICK f : f = Frame("hello", 0, 0)
  OBVIOUS
<1>2. f \in Frames0 /\ f.type = "hello"
  BY <1>1, JournalAssumption DEF Frame, Frames0, FrameTypes
<1>3. s = <<f>>
  BY <1>1
<1> HIDE DEF Frames0
<1> QED BY <1>2, <1>3

LEMMA EmptyIs ==
  ASSUME NEW s, s = << >>
  PROVE  s \in Seq(Frames0) /\ Len(s) = 0
OBVIOUS

\* The connection is over: nothing is under way any more.
LEMMA OverKeeps ==
  ASSUME NEW h, NEW E, NEW b, Bridge(h, E, b),
         pipe' = << >>, toAgent' = << >>, reading' = FALSE, Blank(flow', "cancelled"),
         agent' \in Agents,
         \/ agent'.phase = "none" /\ attempt' = "idle"
         \/ agent'.phase = "dead" /\ attempt' = attempt,
         current' \in BOOLEAN,
         conn' \in {"disconnected", "handshaking", "replaying", "live", "failed"},
         ready' \in Answers, replayed' \in Answers,
         ready' = ready \/ ready'.is # "ok",
         replayed' = replayed \/ replayed'.is # "ok",
         failing' \in Nat, connects' \in Nat,
         failing' <= connects', connects' <= MaxConnects,
         UNCHANGED <<log, cursor, seen>>
  PROVE  Bridge(h, E, b)'
<1> USE DEF Bridge
<1>0. pipe' \in Seq(Frames0) /\ Len(pipe') = 0 /\ toAgent' \in Seq(Frames0) /\ Len(toAgent') = 0
  BY EmptyIs
<1>1. SpineTypes'
  BY <1>0 DEF SpineTypes, Blank
<1>2. Control'
  <2>1. failing' + (IF reading' THEN 1 ELSE 0) <= connects'
    <3>1. PICK f, c : f = failing' /\ c = connects'
      OBVIOUS
    <3>2. f \in Nat /\ c \in Nat /\ f <= c
      BY <3>1
    <3>3. f + (IF reading' THEN 1 ELSE 0) <= c
      BY <3>2
    <3> QED BY <3>1, <3>3, Zenon
  <2>2. flow'.state = "cancelled" /\ flow'.live = {} /\ ~flow'.error
    BY DEF Blank
  <2> QED BY <2>1, <2>2 DEF Control
<1>3. Synced(h)'
  BY DEF SpineTypes, Synced
<1>4. Talk(h)'
  BY <1>0 DEF SpineTypes, Talk, Control, Blank
<1>5. Sane(h)'
  BY <1>0 DEF Sane, Blank
<1>6. Replaying(h, E)'
  BY <1>0 DEF Replaying, Blank
<1>7. Tailed(b, E)'
  BY <1>0 DEF Tailed, Blank, SpineTypes
<1>8. Consumed(h, E)'
  BY DEF Consumed, Blank
<1> QED BY <1>1, <1>2, <1>3, <1>4, <1>5, <1>6, <1>7, <1>8

LEMMA FailConnectionKeeps ==
  ASSUME NEW h, NEW E, NEW b, Bridge(h, E, b), FailConnection
  PROVE  Bridge(h, E, b)'
<1>1. /\ pipe' = << >> /\ toAgent' = << >> /\ reading' = FALSE /\ flow' = Gone /\ agent' = NoAgent
      /\ attempt' = "idle" /\ current' = FALSE /\ UNCHANGED <<log, cursor, seen>>
      /\ UNCHANGED <<ready, replayed, failing, connects>>
  BY DEF FailConnection, Shutdown, journalVars
<1>2. conn' \in {"disconnected", "handshaking", "replaying", "live", "failed"}
  BY DEF FailConnection, Bridge, SpineTypes
<1>3. failing' \in Nat /\ connects' \in Nat /\ failing' <= connects' /\ connects' <= MaxConnects
  BY <1>1, SpineAssumption DEF Bridge, SpineTypes, Control
<1>4. ready' \in Answers /\ replayed' \in Answers
  BY <1>1 DEF Bridge, SpineTypes
<1>5. Blank(flow', "cancelled") /\ agent' \in Agents /\ agent'.phase = "none"
  BY <1>1, NewFlowIs, NoAgentIs
<1>6. current' \in BOOLEAN
  BY <1>1
<1> QED BY <1>1, <1>2, <1>3, <1>4, <1>5, <1>6, OverKeeps

LEMMA ConnectFailsKeeps ==
  ASSUME NEW h, NEW E, NEW b, Bridge(h, E, b), ConnectFails
  PROVE  Bridge(h, E, b)'
<1>1. /\ pipe' = << >> /\ toAgent' = << >> /\ reading' = FALSE /\ flow' = Gone /\ agent' = NoAgent
      /\ attempt' = "idle" /\ current' = FALSE /\ UNCHANGED <<log, cursor, seen>>
      /\ UNCHANGED <<ready, replayed, failing>>
  BY DEF ConnectFails, Shutdown, journalVars
<1>2. conn' \in {"disconnected", "handshaking", "replaying", "live", "failed"}
  BY DEF ConnectFails
<1>3. failing' \in Nat /\ connects' \in Nat /\ failing' <= connects' /\ connects' <= MaxConnects
  BY <1>1, SpineAssumption DEF ConnectFails, Bridge, SpineTypes, Control
<1>4. ready' \in Answers /\ replayed' \in Answers
  BY <1>1 DEF Bridge, SpineTypes
<1>5. Blank(flow', "cancelled") /\ agent' \in Agents /\ agent'.phase = "none"
  BY <1>1, NewFlowIs, NoAgentIs
<1>6. current' \in BOOLEAN
  BY <1>1
<1> QED BY <1>1, <1>2, <1>3, <1>4, <1>5, <1>6, OverKeeps

LEMMA ReaderExitsKeeps ==
  ASSUME NEW h, NEW E, NEW b, Bridge(h, E, b), ReaderExits
  PROVE  Bridge(h, E, b)'
<1>1. /\ pipe' = << >> /\ reading' = FALSE /\ flow' = Gone
      /\ UNCHANGED <<log, cursor, seen, agent, toAgent, attempt, conn, connects>>
      /\ current' = FALSE /\ failing' = failing + 1 /\ reading /\ agent.phase = "dead"
  BY DEF ReaderExits, journalVars, agentVars
<1>2. conn' \in {"disconnected", "handshaking", "replaying", "live", "failed"}
  BY <1>1 DEF Bridge, SpineTypes
<1>3. failing' \in Nat /\ connects' \in Nat /\ failing' <= connects' /\ connects' <= MaxConnects
  BY <1>1, SpineAssumption DEF Bridge, SpineTypes, Control
<1>4. /\ ready' \in Answers /\ replayed' \in Answers
      /\ ready' = ready \/ ready'.is # "ok"
      /\ replayed' = replayed \/ replayed'.is # "ok"
  BY DEF ReaderExits, Bridge, SpineTypes, Answers, Failure
<1>5. Blank(flow', "cancelled") /\ agent' \in Agents /\ agent'.phase = "dead" /\ toAgent' = << >>
  BY <1>1, NewFlowIs DEF Bridge, SpineTypes, Control
<1>6. current' \in BOOLEAN
  BY <1>1
<1> QED BY <1>1, <1>2, <1>3, <1>4, <1>5, <1>6, OverKeeps

LEMMA ReaderSetsFailedKeeps ==
  ASSUME NEW h, NEW E, NEW b, Bridge(h, E, b), ReaderSetsFailed
  PROVE  Bridge(h, E, b)'
<1> USE DEF Bridge
<1>1. /\ UNCHANGED <<log, torn, agent, toAgent, pipe, attempt, current, connects,
                     reading, ready, replayed, flow, cursor, seen>>
      /\ failing' = failing - 1 /\ failing > 0 /\ conn' = "failed"
  BY DEF ReaderSetsFailed, journalVars, agentVars, dataVars
<1>2. SpineTypes'
  BY <1>1 DEF SpineTypes
<1>3. Control'
  BY <1>1, SpineAssumption DEF SpineTypes, Control
<1>4. Synced(h)'
  BY <1>1 DEF Synced
<1>5. Talk(h)' /\ Sane(h)'
  BY <1>1 DEF Talk, Sane
<1>6. Replaying(h, E)'
  BY <1>1 DEF Replaying
<1>7. Tailed(b, E)'
  BY <1>1 DEF Tailed, Came
<1>8. Consumed(h, E)'
  BY <1>1 DEF Consumed
<1> QED BY <1>2, <1>3, <1>4, <1>5, <1>6, <1>7, <1>8

\* A new connection: what the tail owes starts over.
LEMMA ConnectKeeps ==
  ASSUME NEW h, NEW E, NEW b, Bridge(h, E, b), Connect
  PROVE  Bridge(h, E, b)'
<1> USE DEF Bridge
<1>1. /\ pipe' = << >> /\ toAgent' = <<Frame("hello", 0, 0)>> /\ reading' = TRUE
      /\ flow' = NewFlow /\ agent' = [NoAgent EXCEPT !.phase = "spawned"]
      /\ ready' = Silent /\ replayed' = Silent /\ current' = TRUE /\ conn' = "handshaking"
      /\ attempt' = "hello" /\ connects < MaxConnects /\ connects' = connects + 1
      /\ attempt = "idle"
      /\ UNCHANGED <<log, failing, cursor, seen>>
  BY DEF Connect, journalVars
<1>2. /\ pipe' \in Seq(Frames0) /\ Len(pipe') = 0 /\ toAgent' \in Seq(Frames0) /\ Len(toAgent') = 1
      /\ toAgent'[1].type = "hello" /\ toAgent' # << >>
  BY <1>1, EmptyIs, HelloIs
<1>3. Blank(flow', "buffering") /\ agent' \in Agents /\ agent'.phase = "spawned"
  BY <1>1, NewFlowIs, NoAgentIs
<1>4. ready' \in Answers /\ replayed' \in Answers /\ ready'.is = "nothing" /\ replayed'.is = "nothing"
  BY <1>1 DEF Silent, Answers
<1>5. SpineTypes'
  BY <1>1, <1>2, <1>3, <1>4 DEF SpineTypes, Blank
<1>6. Control'
  BY <1>1, <1>2, <1>3, <1>4, SpineAssumption DEF SpineTypes, Control, Blank
<1>7. Synced(h)'
  BY <1>3 DEF Synced
<1>8. Talk(h)'
  BY <1>1, <1>2, <1>3, <1>4 DEF Talk, Blank
<1>9. Sane(h)'
  BY <1>2, <1>3 DEF Sane, Blank
<1>10. Replaying(h, E)'
  BY <1>1, <1>2, <1>3, <1>4 DEF Replaying, Blank
<1>11. Tailed(b, E)'
  BY <1>2, <1>3, <1>4 DEF Tailed, Blank
<1>12. Consumed(h, E)'
  BY <1>1, <1>3 DEF Consumed, Blank
<1> QED BY <1>5, <1>6, <1>7, <1>8, <1>9, <1>10, <1>11, <1>12

-----------------------------------------------------------------------------
(* What is consumed.                                                       *)

LEMMA MaxIs ==
  ASSUME NEW N \in Nat, NEW S \in SUBSET (0 .. N), S # {}
  PROVE  Max(S) \in S /\ \A y \in S : y <= Max(S)
<1>1. PICK x \in S : \A y \in S : x >= y
  <2> DEFINE T == {N - y : y \in S}
  <2>0. \A y \in S : y \in Nat /\ N - y \in Nat
    OBVIOUS
  <2>1. T \in SUBSET Nat /\ T # {}
    BY <2>0
  <2>2. PICK m \in T : \A k \in T : m <= k
    <3> HIDE DEF T
    <3> QED BY <2>1, LeastNatural
  <2>3. PICK x \in S : m = N - x
    BY <2>2
  <2>4. \A y \in S : N - x <= N - y
    BY <2>2, <2>3
  <2>5. \A y \in S : x >= y
    BY <2>4
  <2> QED BY <2>5
<1>2. Max(S) = CHOOSE z \in S : \A y \in S : z >= y
  BY DEF Max
<1>3. Max(S) \in S /\ \A y \in S : Max(S) >= y
  BY <1>1, <1>2, Zenon
<1>4. PICK m : m = Max(S)
  OBVIOUS
<1>5. m \in S /\ \A y \in S : y <= m
  BY <1>3, <1>4
<1> QED BY <1>4, <1>5

\* Frames of different records, each under the record's own number.
Apart(F) ==
  /\ F \subseteq Frames0
  /\ \A f \in F : f.rec = f.seq
  /\ \A f, g \in F : f.seq = g.seq => f = g

LEMMA CountIs ==
  ASSUME NEW F, Apart(F), NEW n
  PROVE  Cardinality({f \in F : f.rec = n}) = IF \E f \in F : f.seq = n THEN 1 ELSE 0
<1>1. CASE \E f \in F : f.seq = n
  <2>1. PICK f \in F : f.seq = n
    BY <1>1
  <2>2. {g \in F : g.rec = n} = {f}
    BY <2>1 DEF Apart
  <2>3. Cardinality({f}) = 1
    BY FS_Singleton
  <2> QED BY <1>1, <2>2, <2>3
<1>2. CASE ~\E f \in F : f.seq = n
  <2>1. {g \in F : g.rec = n} = {}
    BY <1>2 DEF Apart
  <2> QED BY <1>2, <2>1, FS_EmptySet
<1> QED BY <1>1, <1>2

\* The counts sn are right for the cursor c and the events E.
Right(sn, c, E) ==
  /\ sn \in [1 .. MaxSeq -> Nat]
  /\ \A n \in 1 .. MaxSeq : sn[n] \in {0, 1} /\ (sn[n] = 1 => n <= c)
  /\ \A e \in E : e <= c => sn[e] = 1

LEMMA CountKeeps ==
  ASSUME NEW c \in Nat, NEW d \in Nat, c <= d, NEW E \in SUBSET (1 .. MaxSeq), NEW sn, Right(sn, c, E),
         NEW G, Apart(G), \A f \in G : c < f.seq /\ f.seq <= d,
         \A e \in E : c < e /\ e <= d => \E f \in G : f.seq = e,
         NEW tn, tn = [n \in 1 .. MaxSeq |-> sn[n] + Cardinality({f \in G : f.rec = n})]
  PROVE  Right(tn, d, E)
<1>0. \A f \in G : f.seq \in Nat
  BY DEF Apart, Frames0
<1>1. ASSUME NEW n \in 1 .. MaxSeq
      PROVE  /\ n \in Nat /\ sn[n] \in {0, 1} /\ (sn[n] = 1 => n <= c)
             /\ tn[n] = sn[n] + (IF \E f \in G : f.seq = n THEN 1 ELSE 0)
  <2>1. Cardinality({f \in G : f.rec = n}) = IF \E f \in G : f.seq = n THEN 1 ELSE 0
    BY CountIs
  <2>2. tn[n] = sn[n] + Cardinality({f \in G : f.rec = n})
    OBVIOUS
  <2>3. n \in Nat /\ sn[n] \in {0, 1} /\ (sn[n] = 1 => n <= c)
    BY DEF Right
  <2> QED BY <2>1, <2>2, <2>3
<1>2. ASSUME NEW n \in 1 .. MaxSeq PROVE tn[n] \in {0, 1} /\ (tn[n] = 1 => n <= d)
  <2>1. CASE \E f \in G : f.seq = n
    <3>1. c < n /\ n <= d
      BY <2>1
    <3>2. sn[n] = 0
      <4>1. n \in Nat /\ sn[n] \in {0, 1} /\ (sn[n] = 1 => n <= c)
        BY <1>1
      <4> QED BY <3>1, <4>1
    <3> QED BY <1>1, <2>1, <3>1, <3>2
  <2>2. CASE ~\E f \in G : f.seq = n
    BY <1>1, <2>2
  <2> QED BY <2>1, <2>2
<1>3. ASSUME NEW e \in E, e <= d PROVE tn[e] = 1
  <2>1. e \in 1 .. MaxSeq /\ e \in Nat
    OBVIOUS
  <2>2. CASE e <= c
    <3>1. sn[e] = 1
      BY <2>2 DEF Right
    <3>2. ~\E f \in G : f.seq = e
      BY <1>0, <2>1, <2>2
    <3> QED BY <1>1, <2>1, <3>1, <3>2
  <2>3. CASE ~(e <= c)
    <3>1. c < e
      BY <2>1, <2>3
    <3>2. \E f \in G : f.seq = e
      BY <1>3, <3>1
    <3>3. sn[e] = 0
      BY <1>1, <2>1, <2>3
    <3> QED BY <1>1, <2>1, <3>2, <3>3
  <2> QED BY <2>2, <2>3
<1>4. \A n \in 1 .. MaxSeq : tn[n] \in {0, 1}
  BY <1>2
<1>5. tn \in [1 .. MaxSeq -> Nat]
  <2>1. \A n \in 1 .. MaxSeq : sn[n] + Cardinality({f \in G : f.rec = n}) \in {0, 1}
    BY <1>4
  <2> QED BY <2>1
<1> QED BY <1>2, <1>3, <1>5 DEF Right

\* The cursor moves from c over the frames F to d.
Passes(F, c, d) ==
  /\ d \in Nat /\ c <= d
  /\ \A f \in F : f.seq <= d
  /\ d = c \/ \E f \in F : f.seq = d

LEMMA CursorMoves ==
  ASSUME NEW N \in Nat, NEW c \in 0 .. N, NEW F \in SUBSET Frames0, \A f \in F : f.seq <= N,
         NEW fresh, fresh = {f \in F : f.seq > c}
  PROVE  /\ fresh # {} => Passes(F, c, Max({f.seq : f \in fresh}))
         /\ fresh = {} => Passes(F, c, c)
         /\ Passes(F, c, Max({c} \cup {f.seq : f \in fresh}))
<1>1. \A f \in F : f.seq \in 0 .. N
  BY DEF Frames0
<1>2. fresh = {} => Passes(F, c, c)
  BY <1>1 DEF Passes
<1>3. ASSUME fresh # {} PROVE Passes(F, c, Max({f.seq : f \in fresh}))
  <2>1. PICK S : S = {f.seq : f \in fresh}
    OBVIOUS
  <2>2. S \in SUBSET (0 .. N) /\ S # {}
    BY <1>1, <1>3, <2>1
  <2>3. PICK m : m = Max(S)
    OBVIOUS
  <2>4. m \in S /\ \A y \in S : y <= m
    BY <2>2, <2>3, MaxIs
  <2>5. PICK f \in F : f.seq = m /\ m > c
    BY <2>1, <2>4
  <2>6. m \in Nat /\ c <= m
    BY <1>1, <2>5
  <2>7. \A g \in F : g.seq <= m
    <3> SUFFICES ASSUME NEW g \in F PROVE g.seq <= m
      OBVIOUS
    <3>1. CASE g.seq > c
      BY <2>1, <2>4, <3>1
    <3>2. CASE ~(g.seq > c)
      BY <1>1, <2>6, <3>2
    <3> QED BY <3>1, <3>2
  <2>8. Passes(F, c, m)
    BY <2>5, <2>6, <2>7 DEF Passes
  <2> QED BY <2>1, <2>3, <2>8
<1>4. Passes(F, c, Max({c} \cup {f.seq : f \in fresh}))
  <2>1. PICK S : S = {c} \cup {f.seq : f \in fresh}
    OBVIOUS
  <2>2. S \in SUBSET (0 .. N) /\ S # {}
    BY <1>1, <2>1
  <2>3. PICK m : m = Max(S)
    OBVIOUS
  <2>4. m \in S /\ \A y \in S : y <= m
    BY <2>2, <2>3, MaxIs
  <2>5. m = c \/ \E f \in F : f.seq = m
    BY <2>1, <2>4
  <2>6. m \in Nat /\ c <= m
    <3>1. c \in S
      BY <2>1
    <3> QED BY <2>2, <2>4, <3>1
  <2>7. \A g \in F : g.seq <= m
    <3> SUFFICES ASSUME NEW g \in F PROVE g.seq <= m
      OBVIOUS
    <3>1. CASE g.seq > c
      BY <2>1, <2>4, <3>1
    <3>2. CASE ~(g.seq > c)
      BY <1>1, <2>6, <3>2
    <3> QED BY <3>1, <3>2
  <2>8. Passes(F, c, m)
    BY <2>5, <2>6, <2>7 DEF Passes
  <2> QED BY <2>1, <2>3, <2>8
<1> QED BY <1>2, <1>3, <1>4

\* Entries whose numbers leave no event out between the cursor and the last of them.
LEMMA ConsumeIs ==
  ASSUME NEW h \in 0 .. MaxSeq, NEW E \in SUBSET (1 .. h), NEW c \in 0 .. h, c = cursor,
         NEW sn, sn = seen, Right(sn, c, E),
         NEW F, Apart(F), \A f \in F : f.seq <= h,
         \A e \in E, f \in F : c < e /\ e <= f.seq => \E g \in F : g.seq = e,
         Consume(F)
  PROVE  \E d \in 0 .. h : d = cursor' /\ Passes(F, c, d) /\ Right(seen', d, E)
<1>1. PICK G : G = {f \in F : f.seq > c}
  OBVIOUS
<1>2. F \in SUBSET Frames0 /\ h \in Nat
  BY JournalAssumption DEF Apart
<1>3. PICK d : d = IF G = {} THEN c ELSE Max({f.seq : f \in G})
  OBVIOUS
<1>4. cursor' = d
  <2>1. cursor' = IF {f \in F : f.seq > c} = {} THEN c ELSE Max({f.seq : f \in {g \in F : g.seq > c}})
    BY DEF Consume
  <2> QED BY <1>1, <1>3, <2>1, Zenon
<1>5. Passes(F, c, d)
  <2>1. /\ G # {} => Passes(F, c, Max({f.seq : f \in G}))
        /\ G = {} => Passes(F, c, c)
    BY <1>1, <1>2, CursorMoves
  <2> QED BY <1>3, <2>1
<1>6. \A f \in F : f.seq \in Nat
  BY <1>2 DEF Frames0
<1>7. d \in 0 .. h
  BY <1>2, <1>5 DEF Passes
<1>8. Apart(G)
  BY <1>1 DEF Apart
<1>9. \A f \in G : c < f.seq /\ f.seq <= d
  BY <1>1, <1>5, <1>6 DEF Passes
<1>10. \A e \in E : c < e /\ e <= d => \E f \in G : f.seq = e
  <2> SUFFICES ASSUME NEW e \in E, c < e, e <= d PROVE \E f \in G : f.seq = e
    OBVIOUS
  <2>1. e \in Nat /\ d # c
    BY <1>7
  <2>2. PICK f \in F : f.seq = d
    BY <1>5, <2>1 DEF Passes
  <2>3. PICK g \in F : g.seq = e
    BY <2>2
  <2> QED BY <1>1, <2>3
<1>11. PICK tn : tn = [n \in 1 .. MaxSeq |-> sn[n] + Cardinality({f \in G : f.rec = n})]
  OBVIOUS
<1>12. seen' = tn
  <2>1. seen' = [n \in 1 .. MaxSeq |-> sn[n] + Cardinality({f \in {g \in F : g.seq > c} : f.rec = n})]
    BY DEF Consume
  <2> QED BY <1>1, <1>11, <2>1
<1>13. Right(tn, d, E)
  <2>1. c \in Nat /\ d \in Nat /\ c <= d
    BY <1>5, <1>7 DEF Passes
  <2>2. E \in SUBSET (1 .. MaxSeq)
    BY <1>2, JournalAssumption
  <2> QED BY <1>8, <1>9, <1>10, <1>11, <2>1, <2>2, CountKeeps
<1> QED BY <1>4, <1>5, <1>7, <1>12, <1>13

-----------------------------------------------------------------------------
(* The connecting thread.                                                  *)

LEMMA NothingIsEmpty ==
  ASSUME NEW S, NEW s \in Seq(S), \A i \in 1 .. Len(s) : FALSE
  PROVE  s = << >> /\ Len(s) = 0
<1>1. Len(s) \in Nat
  OBVIOUS
<1>2. Len(s) = 0
  <2>1. Len(s) # 0 => 1 \in 1 .. Len(s)
    BY <1>1
  <2> QED BY <1>1, <2>1
<1> QED BY <1>2, EmptySeq

\* Ready has been answered, and nothing else is under way.
LEMMA QuietIs ==
  ASSUME NEW h, NEW E, NEW b, Bridge(h, E, b), ready.is = "ok", attempt \in {"hello", "begun"},
         flow.state \in {"buffering", "replaying"}
  PROVE  /\ reading /\ toAgent = << >> /\ Len(toAgent) = 0
         /\ agent.phase \in {"serving", "dead"}
         /\ \A i \in 1 .. Len(pipe) : pipe[i].type = "live"
<1> USE DEF Bridge
<1>1. reading
  BY DEF Control, SpineTypes
<1>2. toAgent = << >> /\ Len(toAgent) = 0
  <2>1. \A i \in 1 .. Len(toAgent) : FALSE
    BY DEF Talk
  <2>2. toAgent \in Seq(Frames0)
    BY DEF SpineTypes
  <2> HIDE DEF Bridge
  <2> QED BY <2>1, <2>2, NothingIsEmpty
<1>3. agent.phase \in {"serving", "dead"}
  BY <1>1 DEF Control, SpineTypes, Agents
<1>4. \A i \in 1 .. Len(pipe) : pipe[i].type = "live"
  BY DEF Talk, Sane, Replaying
<1> QED BY <1>1, <1>2, <1>3, <1>4

LEMMA BeginReplayKeeps ==
  ASSUME NEW h, NEW E, NEW b, Bridge(h, E, b), BeginReplay
  PROVE  Bridge(h, E, b)'
<1> USE DEF Bridge
<1>1. /\ attempt = "hello" /\ ready.is = "ok" /\ flow.state = "buffering" /\ attempt' = "begun"
      /\ flow' = [flow EXCEPT !.state = "replaying", !.verified = cursor]
      /\ UNCHANGED <<log, torn, agent, toAgent, pipe, reading, ready, replayed, failing, current,
                     conn, connects, cursor, seen>>
  BY DEF BeginReplay, journalVars, agentVars, readerVars
<1>2. /\ reading /\ toAgent = << >> /\ Len(toAgent) = 0 /\ agent.phase \in {"serving", "dead"}
      /\ \A i \in 1 .. Len(pipe) : pipe[i].type = "live"
  BY <1>1, QuietIs
<1>3. flow \in Flows /\ cursor \in Nat
  BY DEF SpineTypes
<1>4. /\ flow' \in Flows /\ flow'.state = "replaying" /\ flow'.verified = cursor
      /\ flow'.history = flow.history /\ flow'.live = flow.live
      /\ flow'.boundary = flow.boundary /\ flow'.complete = flow.complete /\ flow'.error = flow.error
  BY <1>1, <1>3 DEF Flows
<1>5. flow.history = {} /\ ~flow.boundary /\ ~flow.complete
  BY <1>1 DEF Replaying
<1>6. SpineTypes'
  BY <1>1, <1>4 DEF SpineTypes
<1>7. Control'
  BY <1>1, <1>2, <1>4 DEF SpineTypes, Control
<1>8. Synced(h)'
  BY <1>1 DEF Synced
<1>9. Talk(h)'
  BY <1>1, <1>2, <1>4 DEF Talk
<1>10. Sane(h)'
  BY <1>1, <1>4, <1>5 DEF Sane
<1>11. Replaying(h, E)'
  <2>1. cursor <= flow'.verified /\ flow'.verified <= h
    BY <1>3, <1>4 DEF Consumed
  <2>2. replayed'.is # "ok"
    BY <1>1 DEF Talk
  <2>3. \A i \in 1 .. Len(pipe') : pipe'[i].type = "live"
    BY <1>1, <1>2
  <2> QED BY <1>1, <1>2, <1>4, <1>5, <2>1, <2>2, <2>3 DEF Replaying
<1>12. Tailed(b, E)'
  <2>1. \A e \in E : Came(e) => Frame("live", e, e) \in flow'.live
    BY <1>1, <1>4 DEF Came
  <2> QED BY <1>1, <1>4, <2>1 DEF Tailed, Came
<1>13. Consumed(h, E)'
  BY <1>1, <1>4 DEF Consumed
<1> QED BY <1>6, <1>7, <1>8, <1>9, <1>10, <1>11, <1>12, <1>13

LEMMA RequestReplayKeeps ==
  ASSUME NEW h, NEW E, NEW b, Bridge(h, E, b), RequestReplay
  PROVE  Bridge(h, E, b)'
<1> USE DEF Bridge
<1>1. /\ attempt = "begun" /\ attempt' = "await" /\ conn' = "replaying"
      /\ toAgent' = IF agent.phase = "dead" THEN << >> ELSE Append(toAgent, Frame("replay", cursor, 0))
      /\ UNCHANGED <<log, torn, agent, pipe, reading, ready, replayed, failing, flow, cursor, seen,
                     current, connects>>
  BY DEF RequestReplay, journalVars, readerVars, dataVars
<1>2. toAgent = << >>
  <2>1. \A i \in 1 .. Len(toAgent) : FALSE
    BY <1>1 DEF Talk
  <2>2. toAgent \in Seq(Frames0)
    BY DEF SpineTypes
  <2> HIDE DEF Bridge
  <2> QED BY <2>1, <2>2, NothingIsEmpty
<1>3. /\ toAgent' \in Seq(Frames0) /\ Len(toAgent') <= 1
      /\ \A i \in 1 .. Len(toAgent') : toAgent'[i].type = "replay" /\ toAgent'[i].seq = cursor
      /\ agent.phase = "dead" => toAgent' = << >>
  <2>1. PICK f, t : f = Frame("replay", cursor, 0) /\ t = toAgent'
    OBVIOUS
  <2>2. f \in Frames0 /\ f.type = "replay" /\ f.seq = cursor
    BY <2>1, JournalAssumption DEF SpineTypes, Frame, Frames0, FrameTypes
  <2>3. t = << >> \/ t = <<f>>
    BY <1>1, <1>2, <2>1
  <2> HIDE DEF Frames0
  <2>4. /\ t \in Seq(Frames0) /\ Len(t) <= 1
        /\ \A i \in 1 .. Len(t) : t[i].type = "replay" /\ t[i].seq = cursor
    <3>1. CASE t = << >>
      BY <3>1, EmptyIs
    <3>2. CASE t = <<f>>
      BY <2>2, <3>2
    <3> QED BY <2>3, <3>1, <3>2
  <2> QED BY <1>1, <2>1, <2>4, Zenon
<1>4. SpineTypes'
  BY <1>1, <1>3 DEF SpineTypes
<1>5. agent.phase # "none"
  BY <1>1 DEF Control
<1>6. Control'
  BY <1>1, <1>3, <1>5 DEF Control
<1>7. Synced(h)'
  BY <1>1 DEF Synced
<1>8. Talk(h)'
  BY <1>1, <1>3 DEF Talk
<1>9. Sane(h)'
  BY <1>1 DEF Sane
<1>10. Replaying(h, E)'
  BY <1>1 DEF Replaying, Talk
<1>11. Tailed(b, E)'
  BY <1>1 DEF Tailed, Came
<1>12. Consumed(h, E)'
  BY <1>1 DEF Consumed
<1> QED BY <1>4, <1>6, <1>7, <1>8, <1>9, <1>10, <1>11, <1>12

LEMMA LiveApart ==
  ASSUME NEW h, NEW E, NEW b, Bridge(h, E, b)
  PROVE  /\ Apart(flow.live) /\ Apart(flow.history)
         /\ \A f \in flow.live : f.seq <= h
<1>1. flow \in Flows
  BY DEF Bridge, SpineTypes
<1>2. flow.live \subseteq Frames0 /\ flow.history \subseteq Frames0
  BY <1>1 DEF Flows
<1>3. \A f \in flow.live : f = Frame("live", f.seq, f.seq) /\ f.seq <= h
  BY DEF Bridge, Sane
<1>4. \A f \in flow.history : f = Frame("replay", f.seq, f.seq)
  BY DEF Bridge, Sane
<1>5. \A f \in flow.live \cup flow.history : f.rec = f.seq
  BY <1>3, <1>4 DEF Frame
<1>6. (\A f, g \in flow.live : f.seq = g.seq => f = g) /\ (\A f, g \in flow.history : f.seq = g.seq => f = g)
  BY <1>3, <1>4, Zenon
<1> QED BY <1>2, <1>3, <1>5, <1>6 DEF Apart

LEMMA RightNow ==
  ASSUME NEW h \in Nat, NEW E, NEW b, Bridge(h, E, b)
  PROVE  cursor \in 0 .. h /\ Right(seen, cursor, E)
<1>1. cursor \in Nat /\ cursor <= h /\ seen \in [1 .. MaxSeq -> Nat]
  BY DEF Bridge, SpineTypes, Consumed
<1> QED BY <1>1 DEF Bridge, Consumed, Right

\* The cursor has moved over all that came from the tail, and the flow is live.
LEMMA LiveKeeps ==
  ASSUME NEW h \in 0 .. MaxSeq, NEW E \in SUBSET (1 .. h), NEW b, Bridge(h, E, b),
         reading, ready.is = "ok", Len(toAgent) = 0,
         agent.phase \in {"serving", "dead"},
         \A i \in 1 .. Len(pipe) : pipe[i].type = "live",
         attempt' = "idle", conn' = "live", Blank(flow', "live"),
         UNCHANGED <<log, torn, agent, toAgent, pipe, reading, ready, replayed, failing, current,
                     connects>>,
         NEW d \in 0 .. h, d = cursor', Right(seen', d, E), cursor <= d, ready.seq <= d,
         \A f \in flow.live : f.seq <= d
  PROVE  Bridge(h, E, b)'
<1> USE DEF Bridge
<1>1. SpineTypes'
  <2>1. d \in Nat /\ seen' \in [1 .. MaxSeq -> Nat]
    BY DEF Right
  <2> QED BY <2>1 DEF SpineTypes, Blank
<1>2. Control'
  BY DEF SpineTypes, Control, Blank
<1>3. Synced(h)'
  BY DEF Synced
<1>4. Talk(h)'
  BY DEF Talk, Blank
<1>5. Sane(h)'
  BY DEF Sane, Blank
<1>6. Replaying(h, E)'
  BY DEF Replaying, Blank
<1>7. Tailed(b, E)'
  <2>1. \A e \in E : Came(e) => e <= d
    <3> SUFFICES ASSUME NEW e \in E, Came(e) PROVE e <= d
      OBVIOUS
    <3>1. CASE Frame("live", e, e) \in flow.live
      BY <3>1 DEF Frame
    <3>2. CASE e <= cursor
      <4>1. cursor \in Nat /\ e \in Nat
        BY DEF SpineTypes
      <4> QED BY <3>2, <4>1
    <3> QED BY <3>1, <3>2 DEF Came
  <2>2. \A e \in E : Came(e) => Came(e)'
    BY <2>1 DEF Came, Blank
  <2>3. flow'.live = {}
    BY DEF Blank
  <2> HIDE DEF Came
  <2> QED BY <2>2, <2>3 DEF Tailed
<1>8. Consumed(h, E)'
  <2>1. d <= h
    OBVIOUS
  <2> QED BY <2>1 DEF Consumed, Right
<1> QED BY <1>1, <1>2, <1>3, <1>4, <1>5, <1>6, <1>7, <1>8

LEMMA GoLiveKeeps ==
  ASSUME NEW h \in 0 .. MaxSeq, NEW E \in SUBSET (1 .. h), NEW b \in Nat, Bridge(h, E, b), GoLive
  PROVE  Bridge(h, E, b)'
<1>1. /\ attempt = "hello" /\ ready.is = "ok" /\ ready.seq <= cursor /\ flow.state = "buffering"
      /\ attempt' = "idle" /\ conn' = "live"
      /\ flow' = [NewFlow EXCEPT !.state = "live"] /\ Consume(flow.live)
      /\ UNCHANGED <<log, torn, agent, toAgent, pipe, reading, ready, replayed, failing,
                     current, connects>>
  BY DEF GoLive, journalVars, agentVars, readerVars
<1>2. /\ reading /\ Len(toAgent) = 0 /\ agent.phase \in {"serving", "dead"}
      /\ \A i \in 1 .. Len(pipe) : pipe[i].type = "live"
  BY <1>1, QuietIs
<1>3. PICK c, F, sn : c = cursor /\ F = flow.live /\ sn = seen
  OBVIOUS
<1>4. h \in Nat
  BY JournalAssumption
<1>5. c \in 0 .. h /\ Right(sn, c, E)
  BY <1>3, <1>4, RightNow
<1>6. Apart(F) /\ \A f \in F : f.seq <= h
  BY <1>3, LiveApart
<1>7. \A f \in F : f.seq \in Nat
  BY <1>6 DEF Apart, Frames0
<1>8. ready.seq \in Nat /\ b <= ready.seq /\ ready.seq <= c
  BY <1>1, <1>3 DEF Bridge, SpineTypes, Answers, Tailed
<1>9. \A e \in E, f \in F : c < e /\ e <= f.seq => \E g \in F : g.seq = e
  <2> SUFFICES ASSUME NEW e \in E, NEW f \in F, c < e, e <= f.seq PROVE \E g \in F : g.seq = e
    OBVIOUS
  <2>1. e \in Nat /\ c \in Nat /\ f.seq \in Nat
    BY <1>4, <1>5, <1>7
  <2>2. CASE e = f.seq
    BY <2>2
  <2>3. CASE e # f.seq
    <3>1. b < e /\ e < f.seq
      BY <1>8, <2>1, <2>3
    <3>2. Frame("live", e, e) \in F
      BY <1>3, <3>1 DEF Bridge, Tailed
    <3>3. Frame("live", e, e).seq = e
      BY DEF Frame
    <3> QED BY <3>2, <3>3
  <2> QED BY <2>2, <2>3
<1>10. PICK d \in 0 .. h : d = cursor' /\ Passes(F, c, d) /\ Right(seen', d, E)
  <2>1. Consume(F)
    BY <1>1, <1>3
  <2>2. \E d \in 0 .. h : d = cursor' /\ Passes(F, c, d) /\ Right(seen', d, E)
    BY <1>3, <1>5, <1>6, <1>9, <2>1, ConsumeIs, Zenon
  <2> QED BY <2>2
<1>11. /\ cursor <= d /\ ready.seq <= d /\ \A f \in flow.live : f.seq <= d
  BY <1>3, <1>4, <1>5, <1>8, <1>10 DEF Passes
<1>12. Blank(flow', "live")
  BY <1>1, NewFlowIs
<1> QED BY <1>1, <1>2, <1>10, <1>11, <1>12, LiveKeeps

LEMMA FinishReplayKeeps ==
  ASSUME NEW h \in 0 .. MaxSeq, NEW E \in SUBSET (1 .. h), NEW b \in Nat, Bridge(h, E, b), FinishReplay
  PROVE  Bridge(h, E, b)'
<1>1. PICK c, F, K, v, sn :
        c = cursor /\ F = flow.live /\ K = flow.history /\ v = flow.verified /\ sn = seen
  OBVIOUS
<1>2. PICK fresh, late, upTo :
        /\ fresh = {f \in K : f.seq > c}
        /\ upTo = IF v > c THEN v ELSE c
        /\ late = {f \in F : f.seq > upTo}
  OBVIOUS
<1>3. /\ attempt = "await" /\ replayed.is = "ok" /\ flow.state = "replaying"
      /\ flow.boundary /\ flow.complete
      /\ attempt' = "idle" /\ conn' = "live"
      /\ flow' = [NewFlow EXCEPT !.state = "live"]
      /\ UNCHANGED <<log, torn, agent, toAgent, pipe, reading, ready, replayed, failing,
                     current, connects>>
  BY DEF FinishReplay, Verified, journalVars, agentVars, readerVars
<1>4. PICK d : d = Max({upTo} \cup {f.seq : f \in late})
  OBVIOUS
<1>5. cursor' = d
  BY <1>1, <1>2, <1>4, Zenon DEF FinishReplay
<1>6. PICK G : G = fresh \cup late
  OBVIOUS
<1>7. PICK tn : tn = [n \in 1 .. MaxSeq |-> sn[n] + Cardinality({f \in G : f.rec = n})]
  OBVIOUS
<1>8. seen' = tn
  BY <1>1, <1>2, <1>6, <1>7, Zenon DEF FinishReplay
<1>9. h \in Nat
  BY JournalAssumption
<1>10. c \in 0 .. h /\ Right(sn, c, E)
  BY <1>1, <1>9, RightNow
<1>11. v \in Nat /\ c <= v /\ v <= h /\ upTo = v
  <2>1. v \in Nat /\ c <= v /\ v <= h
    BY <1>1, <1>3 DEF Bridge, SpineTypes, Flows, Replaying
  <2> QED BY <1>2, <1>10, <2>1
<1>12. /\ reading /\ toAgent = << >> /\ Len(toAgent) = 0 /\ agent.phase \in {"serving", "dead"}
       /\ ready.is = "ok" /\ ready.seq \in Nat /\ b <= ready.seq /\ ready.seq <= v
  <2>1. reading
    BY <1>3 DEF Bridge, SpineTypes, Control
  <2>2. toAgent = << >>
    BY <1>3, <2>1 DEF Bridge, Replaying
  <2>3. agent.phase \in {"serving", "dead"}
    BY <1>3, <2>1 DEF Bridge, Control, SpineTypes, Agents
  <2>4. ready.is = "ok" /\ ready.seq \in Nat
    BY <1>3 DEF Bridge, Talk, SpineTypes, Answers
  <2>5. b <= ready.seq /\ ready.seq <= v
    BY <1>1, <1>3, <2>4 DEF Bridge, Tailed, Replaying
  <2> QED BY <2>1, <2>2, <2>3, <2>4, <2>5, EmptyIs
<1>13. \A i \in 1 .. Len(pipe) : pipe[i].type = "live"
  BY <1>3 DEF Bridge, Talk, Sane, Replaying
<1>14. Apart(F) /\ Apart(K) /\ \A f \in F : f.seq <= h
  BY <1>1, LiveApart
<1>15. /\ \A f \in F : f.seq \in Nat
       /\ \A f \in K : f.seq \in Nat /\ c < f.seq /\ f.seq <= v
  <2>1. \A f \in F \cup K : f.seq \in Nat
    BY <1>14 DEF Apart, Frames0
  <2> QED BY <1>1, <2>1 DEF Bridge, Sane
<1>16. Passes(F, v, d)
  <2>1. v \in 0 .. h /\ F \in SUBSET Frames0 /\ late = {f \in F : f.seq > v}
    BY <1>2, <1>9, <1>11, <1>14 DEF Apart
  <2>2. Passes(F, v, Max({v} \cup {f.seq : f \in late}))
    BY <1>9, <1>14, <2>1, CursorMoves
  <2> QED BY <1>4, <1>11, <2>2
<1>17. d \in 0 .. h /\ v <= d /\ c <= d
  <2>1. d \in Nat /\ v <= d
    BY <1>16 DEF Passes
  <2>2. d <= h
    BY <1>11, <1>14, <1>16 DEF Passes
  <2> QED BY <1>9, <1>10, <1>11, <2>1, <2>2
<1>18. Apart(G)
  <2>1. \A f \in fresh, g \in late : f.seq < g.seq
    BY <1>2, <1>11, <1>15
  <2>2. \A f \in fresh, g \in late : f.seq # g.seq
    BY <1>2, <1>15, <2>1
  <2>3. fresh \subseteq K /\ late \subseteq F
    BY <1>2
  <2> QED BY <1>6, <1>14, <2>2, <2>3 DEF Apart
<1>19. \A f \in G : c < f.seq /\ f.seq <= d
  <2> SUFFICES ASSUME NEW f \in G PROVE c < f.seq /\ f.seq <= d
    OBVIOUS
  <2>1. CASE f \in fresh
    BY <1>2, <1>11, <1>15, <1>17, <2>1
  <2>2. CASE f \in late
    <3>1. f \in F /\ v < f.seq /\ f.seq \in Nat
      BY <1>2, <1>11, <1>15, <2>2
    <3>2. f.seq <= d
      BY <1>16, <3>1 DEF Passes
    <3> QED BY <1>10, <1>11, <3>1, <3>2
  <2> QED BY <1>6, <2>1, <2>2
<1>20. \A e \in E : c < e /\ e <= d => \E f \in G : f.seq = e
  <2> SUFFICES ASSUME NEW e \in E, c < e, e <= d PROVE \E f \in G : f.seq = e
    OBVIOUS
  <2>1. e \in Nat
    BY <1>9
  <2>2. CASE e <= v
    <3>1. Frame("replay", e, e) \in K
      BY <1>1, <1>3, <2>2 DEF Bridge, Replaying
    <3>2. Frame("replay", e, e).seq = e
      BY DEF Frame
    <3>3. Frame("replay", e, e) \in fresh
      BY <1>2, <1>10, <2>1, <3>1, <3>2
    <3> QED BY <1>6, <3>2, <3>3
  <2>3. CASE ~(e <= v)
    <3>1. PICK f \in F : f.seq = d
      BY <1>11, <1>16, <2>1, <2>3 DEF Passes
    <3>2. \E g \in F : g.seq = e
      <4>1. CASE e = d
        BY <3>1, <4>1
      <4>2. CASE e # d
        <5>1. b < e /\ e < f.seq
          BY <1>11, <1>12, <1>17, <2>1, <2>3, <3>1, <4>2
        <5>2. Frame("live", e, e) \in F
          BY <1>1, <5>1 DEF Bridge, Tailed
        <5>3. Frame("live", e, e).seq = e
          BY DEF Frame
        <5> QED BY <5>2, <5>3
      <4> QED BY <4>1, <4>2
    <3>3. PICK g \in F : g.seq = e
      BY <3>2
    <3>4. g \in late
      BY <1>2, <1>11, <2>1, <2>3, <3>3
    <3> QED BY <1>6, <3>3, <3>4
  <2> QED BY <2>2, <2>3
<1>21. Right(tn, d, E)
  <2>1. c \in Nat /\ d \in Nat /\ E \in SUBSET (1 .. MaxSeq)
    BY <1>9, <1>10, <1>17, JournalAssumption
  <2> QED BY <1>7, <1>10, <1>17, <1>18, <1>19, <1>20, <2>1, CountKeeps
<1>22. Blank(flow', "live")
  BY <1>3, NewFlowIs
<1>23. /\ d = cursor' /\ Right(seen', d, E) /\ cursor <= d /\ ready.seq <= d
       /\ \A f \in flow.live : f.seq <= d
  <2>1. ready.seq <= d
    BY <1>11, <1>12, <1>17
  <2> QED BY <1>1, <1>5, <1>8, <1>16, <1>17, <1>21, <2>1 DEF Passes
<1> QED BY <1>3, <1>12, <1>13, <1>17, <1>22, <1>23, LiveKeeps

-----------------------------------------------------------------------------
(* The reader.                                                             *)

\* t is what is left of s when its first frame has been taken.
Popped(t, s) ==
  /\ 1 \in 1 .. Len(s)
  /\ \A i \in 1 .. Len(t) : i \in Nat /\ i + 1 \in 1 .. Len(s) /\ t[i] = s[i + 1]
  /\ \A i \in 1 .. Len(s) : i = 1 \/ (i - 1 \in 1 .. Len(t) /\ t[i - 1] = s[i])

LEMMA TailIs ==
  ASSUME NEW S, NEW s \in Seq(S), s # << >>, NEW t, t = Tail(s)
  PROVE  t \in Seq(S) /\ Head(s) = s[1] /\ s[1] \in S /\ Popped(t, s)
<1>1. Len(s) \in Nat /\ Len(s) # 0
  BY EmptySeq
<1>2. t \in Seq(S) /\ Len(t) = Len(s) - 1 /\ \A i \in 1 .. Len(t) : t[i] = s[i + 1]
  BY HeadTailProperties
<1>3. PICK n \in Nat : n = Len(t)
  <2>1. Len(t) \in Nat
    BY <1>2, LenProperties
  <2> QED BY <2>1
<1>4. Len(s) = n + 1
  BY <1>1, <1>2, <1>3
<1>5. \A i \in 1 .. n + 1 : i = 1 \/ (i - 1 \in 1 .. n /\ (i - 1) + 1 = i)
  BY <1>3
<1>6. 1 \in 1 .. n + 1 /\ \A i \in 1 .. n : i \in Nat /\ i + 1 \in 1 .. n + 1
  BY <1>3
<1>7. Head(s) = s[1] /\ s[1] \in S
  BY <1>4, <1>6
<1>8. \A i \in 1 .. n + 1 : i = 1 \/ (i - 1 \in 1 .. n /\ t[i - 1] = s[i])
  <2> SUFFICES ASSUME NEW i \in 1 .. n + 1, i # 1 PROVE i - 1 \in 1 .. n /\ t[i - 1] = s[i]
    OBVIOUS
  <2>1. i - 1 \in 1 .. n /\ (i - 1) + 1 = i
    BY <1>5
  <2>2. t[i - 1] = s[(i - 1) + 1]
    BY <1>2, <1>3, <2>1
  <2> QED BY <2>1, <2>2
<1> QED BY <1>2, <1>3, <1>4, <1>6, <1>7, <1>8 DEF Popped

LEMMA TakenIs ==
  ASSUME NEW h, NEW E, NEW b, Bridge(h, E, b), NEW type, ReaderTakes(type)
  PROVE  /\ reading /\ pipe' \in Seq(Frames0) /\ Popped(pipe', pipe)
         /\ Head(pipe) = pipe[1] /\ pipe[1] \in Frames0 /\ pipe[1].type = type
         /\ agent.phase \in {"serving", "dead"}
<1>1. PICK s, t : s = pipe /\ t = pipe'
  OBVIOUS
<1>2. reading /\ s # << >> /\ Head(s).type = type /\ t = Tail(s)
  BY <1>1 DEF ReaderTakes
<1>3. s \in Seq(Frames0)
  BY <1>1 DEF Bridge, SpineTypes
<1>4. t \in Seq(Frames0) /\ Head(s) = s[1] /\ s[1] \in Frames0 /\ Popped(t, s)
  BY <1>2, <1>3, TailIs
<1>5. agent.phase \in {"serving", "dead"}
  BY <1>1, <1>2 DEF Bridge, SpineTypes, Control, Agents
<1> QED BY <1>1, <1>2, <1>4, <1>5

\* The tail still owes nothing when a frame is taken, if the core keeps a live one.
LEMMA TailedPops ==
  ASSUME NEW b, NEW E, Tailed(b, E), Popped(pipe', pipe), agent' = agent,
         \A e \in E : Came(e) \/ pipe[1] = Frame("live", e, e) => Came(e)',
         \A f \in flow'.live : \A e \in E : b < e /\ e < f.seq => Frame("live", e, e) \in flow'.live,
         ready'.is = "ok" => b <= ready'.seq
  PROVE  Tailed(b, E)'
<1>1. PICK s, t : s = pipe /\ t = pipe' /\ Popped(t, s)
  OBVIOUS
<1>2. ASSUME NEW k \in 1 .. Len(t), NEW e \in E, t[k].type = "live", b < e, e < t[k].seq
      PROVE  Came(e)' \/ \E j \in 1 .. Len(t) : j < k /\ t[j] = Frame("live", e, e)
  <2>1. k + 1 \in 1 .. Len(s) /\ t[k] = s[k + 1] /\ k \in Nat
    BY <1>1 DEF Popped
  <2>2. Came(e) \/ \E j \in 1 .. Len(s) : j < k + 1 /\ s[j] = Frame("live", e, e)
    BY <1>1, <1>2, <2>1 DEF Tailed
  <2>3. ASSUME NEW j \in 1 .. Len(s), j < k + 1, s[j] = Frame("live", e, e)
        PROVE  Came(e)' \/ \E i \in 1 .. Len(t) : i < k /\ t[i] = Frame("live", e, e)
    <3>1. CASE j = 1
      BY <1>1, <2>3, <3>1
    <3>2. CASE j # 1
      <4>1. j - 1 \in 1 .. Len(t) /\ t[j - 1] = s[j]
        BY <1>1, <3>2 DEF Popped
      <4>2. j - 1 < k
        BY <2>1, <2>3
      <4> QED BY <2>3, <4>1, <4>2
    <3> QED BY <3>1, <3>2
  <2> QED BY <2>2, <2>3
<1>3. ASSUME NEW e \in E, agent.phase = "serving", b < e, e <= agent.last
      PROVE  Came(e)' \/ \E j \in 1 .. Len(t) : t[j] = Frame("live", e, e)
  <2>1. Came(e) \/ \E j \in 1 .. Len(s) : s[j] = Frame("live", e, e)
    BY <1>1, <1>3 DEF Tailed
  <2>2. ASSUME NEW j \in 1 .. Len(s), s[j] = Frame("live", e, e)
        PROVE  Came(e)' \/ \E i \in 1 .. Len(t) : t[i] = Frame("live", e, e)
    <3>1. CASE j = 1
      BY <1>1, <2>2, <3>1
    <3>2. CASE j # 1
      <4>1. j - 1 \in 1 .. Len(t) /\ t[j - 1] = s[j]
        BY <1>1, <3>2 DEF Popped
      <4> QED BY <2>2, <4>1
    <3> QED BY <3>1, <3>2
  <2> QED BY <2>1, <2>2
<1>4. \A i \in 1 .. Len(t) : t[i].type = "ready" => b <= t[i].seq
  BY <1>1 DEF Tailed, Popped
<1>5. agent.phase = "serving" => b <= agent.head /\ b <= agent.last
  BY DEF Tailed
<1> HIDE DEF Came
<1> QED BY <1>1, <1>2, <1>3, <1>4, <1>5 DEF Tailed

LEMMA ReaderReadyKeeps ==
  ASSUME NEW h, NEW E, NEW b, Bridge(h, E, b), ReaderReady
  PROVE  Bridge(h, E, b)'
<1> USE DEF Bridge
<1>1. /\ ready' = Answer(Head(pipe).seq)
      /\ UNCHANGED <<log, torn, agent, toAgent, attempt, current, conn, connects, flow, cursor, seen,
                     reading, replayed, failing>>
  BY DEF ReaderReady, journalVars, agentVars, threadVars, dataVars
<1>2. /\ reading /\ pipe' \in Seq(Frames0) /\ Popped(pipe', pipe)
      /\ Head(pipe) = pipe[1] /\ pipe[1] \in Frames0 /\ pipe[1].type = "ready"
      /\ agent.phase \in {"serving", "dead"}
  <2>1. ReaderTakes("ready")
    BY DEF ReaderReady
  <2> QED BY <2>1, TakenIs
<1>3. PICK n : n = pipe[1].seq
  OBVIOUS
<1>4. n \in Nat /\ 1 \in 1 .. Len(pipe)
  BY <1>2, <1>3 DEF Frames0, Popped
<1>5. ready' \in Answers /\ ready'.is = "ok" /\ ready'.seq = n
  BY <1>1, <1>2, <1>3, <1>4 DEF Answer, Answers
<1>6. /\ attempt = "hello" /\ ready.is # "ok"
      /\ \A j \in 1 .. Len(pipe) : pipe[j].type = "ready" => j = 1
  BY <1>2, <1>4 DEF Talk
<1>7. n <= h /\ b <= n
  BY <1>2, <1>3, <1>4 DEF Sane, Tailed
<1>8. /\ flow.state = "buffering" /\ ~flow.boundary
      /\ \A i \in 1 .. Len(pipe) : pipe[i].type \in {"ready", "live"}
  BY <1>2, <1>6 DEF Control, Replaying, Sane
<1>9. \A i \in 1 .. Len(pipe') : pipe'[i].type = "live"
  BY <1>2, <1>6, <1>8 DEF Popped
<1>10. SpineTypes'
  BY <1>1, <1>2, <1>5 DEF SpineTypes
<1>11. Control'
  BY <1>1, <1>2 DEF Control
<1>12. Synced(h)'
  BY <1>1 DEF Synced
<1>13. Talk(h)'
  <2>1. \A i \in 1 .. Len(toAgent) : FALSE
    BY <1>2, <1>4, <1>6 DEF Talk
  <2>2. Len(toAgent') <= 1 /\ \A i \in 1 .. Len(toAgent') : FALSE
    BY <1>1, <2>1 DEF Talk
  <2> QED BY <1>1, <1>5, <1>6, <1>7, <1>8, <1>9, <2>2 DEF Talk
<1>14. Sane(h)'
  BY <1>1, <1>2 DEF Sane, Popped
<1>15. Replaying(h, E)'
  BY <1>1, <1>8, <1>9 DEF Replaying
<1>16. Tailed(b, E)'
  <2>1. \A e : Came(e)' <=> Came(e)
    BY <1>1 DEF Came
  <2>2. \A e : pipe[1] # Frame("live", e, e)
    BY <1>2 DEF Frame
  <2>3. \A f \in flow'.live : \A e \in E : b < e /\ e < f.seq => Frame("live", e, e) \in flow'.live
    BY <1>1 DEF Tailed
  <2>4. ready'.is = "ok" => b <= ready'.seq
    BY <1>5, <1>7
  <2>5. agent' = agent
    BY <1>1
  <2> HIDE DEF Came, Bridge
  <2>6. Tailed(b, E)
    BY DEF Bridge
  <2> QED BY <1>2, <2>1, <2>2, <2>3, <2>4, <2>5, <2>6, TailedPops
<1>17. Consumed(h, E)'
  BY <1>1, <1>8 DEF Consumed
<1> QED BY <1>10, <1>11, <1>12, <1>13, <1>14, <1>15, <1>16, <1>17

\* A frame of the tail is taken in the middle of a replay.
LEMMA ReplayingPops ==
  ASSUME NEW h, NEW E, Replaying(h, E), Popped(pipe', pipe),
         pipe[1].type \notin {"replay", "boundary", "complete"},
         flow'.state = flow.state, flow'.history = flow.history, flow'.verified = flow.verified,
         flow'.boundary = flow.boundary, flow'.complete = flow.complete,
         UNCHANGED <<toAgent, attempt, reading, ready, replayed, cursor>>
  PROVE  Replaying(h, E)'
<1>1. PICK s, t : s = pipe /\ t = pipe' /\ Popped(t, s)
  OBVIOUS
<1>2. ASSUME NEW i \in 1 .. Len(t), t[i].type \in {"replay", "boundary", "complete"}
      PROVE  attempt = "await" /\ toAgent = << >> /\ ~flow.complete /\ replayed.is # "ok"
  BY <1>1, <1>2 DEF Replaying, Popped
<1>3. ASSUME NEW i \in 1 .. Len(t), t[i].type = "replay"
      PROVE  /\ ~flow.boundary /\ flow.verified < t[i].seq
             /\ \A j \in 1 .. Len(t) : t[j].type = "replay" /\ i < j => t[i].seq < t[j].seq
  <2>1. i + 1 \in 1 .. Len(s) /\ t[i] = s[i + 1] /\ i \in Nat
    BY <1>1 DEF Popped
  <2>2. ~flow.boundary /\ flow.verified < t[i].seq
    BY <1>1, <1>3, <2>1 DEF Replaying
  <2>3. ASSUME NEW j \in 1 .. Len(t), t[j].type = "replay", i < j PROVE t[i].seq < t[j].seq
    <3>1. j + 1 \in 1 .. Len(s) /\ t[j] = s[j + 1] /\ i + 1 < j + 1
      BY <1>1, <2>1, <2>3 DEF Popped
    <3> QED BY <1>1, <1>3, <2>1, <2>3, <3>1 DEF Replaying
  <2> QED BY <2>2, <2>3
<1>4. ASSUME NEW i \in 1 .. Len(t), t[i].type = "boundary"
      PROVE  /\ ~flow.boundary /\ flow.verified <= t[i].seq /\ ready.seq <= t[i].seq
             /\ \A j \in 1 .. Len(t) :
                  /\ t[j].type = "replay" => j < i /\ t[j].seq <= t[i].seq
                  /\ t[j].type = "boundary" => i = j
             /\ \A e \in E : cursor < e /\ e <= t[i].seq =>
                  \/ Frame("replay", e, e) \in flow.history
                  \/ \E j \in 1 .. Len(t) : t[j] = Frame("replay", e, e)
  <2>1. i + 1 \in 1 .. Len(s) /\ t[i] = s[i + 1] /\ i \in Nat
    BY <1>1 DEF Popped
  <2>2. ~flow.boundary /\ flow.verified <= t[i].seq /\ ready.seq <= t[i].seq
    BY <1>1, <1>4, <2>1 DEF Replaying
  <2>3. ASSUME NEW j \in 1 .. Len(t)
        PROVE  /\ t[j].type = "replay" => j < i /\ t[j].seq <= t[i].seq
               /\ t[j].type = "boundary" => i = j
    <3>1. j + 1 \in 1 .. Len(s) /\ t[j] = s[j + 1] /\ j \in Nat
      BY <1>1 DEF Popped
    <3>2. /\ s[j + 1].type = "replay" => j + 1 < i + 1 /\ s[j + 1].seq <= s[i + 1].seq
          /\ s[j + 1].type = "boundary" => i + 1 = j + 1
      BY <1>1, <1>4, <2>1, <3>1 DEF Replaying
    <3> QED BY <2>1, <3>1, <3>2
  <2>4. ASSUME NEW e \in E, cursor < e, e <= t[i].seq
        PROVE  \/ Frame("replay", e, e) \in flow.history
               \/ \E j \in 1 .. Len(t) : t[j] = Frame("replay", e, e)
    <3>1. \/ Frame("replay", e, e) \in flow.history
          \/ \E j \in 1 .. Len(s) : s[j] = Frame("replay", e, e)
      BY <1>1, <1>4, <2>1, <2>4 DEF Replaying
    <3>2. ASSUME NEW j \in 1 .. Len(s), s[j] = Frame("replay", e, e)
          PROVE  \E k \in 1 .. Len(t) : t[k] = Frame("replay", e, e)
      <4>1. s[j].type = "replay"
        BY <3>2 DEF Frame
      <4>2. j # 1
        BY <1>1, <4>1
      <4> QED BY <1>1, <3>2, <4>2 DEF Popped
    <3> QED BY <3>1, <3>2
  <2> QED BY <2>2, <2>3, <2>4
<1>5. ASSUME NEW i \in 1 .. Len(t), t[i].type = "complete"
      PROVE  /\ \A j \in 1 .. Len(t) : t[j].type \in {"replay", "boundary", "complete"} => j <= i
             /\ flow.boundary => flow.verified = t[i].seq
             /\ ~flow.boundary => \E j \in 1 .. Len(t) :
                                    j < i /\ t[j].type = "boundary" /\ t[j].seq = t[i].seq
  <2>1. i + 1 \in 1 .. Len(s) /\ t[i] = s[i + 1] /\ i \in Nat
    BY <1>1 DEF Popped
  <2>2. flow.boundary => flow.verified = t[i].seq
    BY <1>1, <1>5, <2>1 DEF Replaying
  <2>3. ASSUME NEW j \in 1 .. Len(t), t[j].type \in {"replay", "boundary", "complete"} PROVE j <= i
    <3>1. j + 1 \in 1 .. Len(s) /\ t[j] = s[j + 1] /\ j \in Nat
      BY <1>1 DEF Popped
    <3>2. j + 1 <= i + 1
      BY <1>1, <1>5, <2>1, <2>3, <3>1 DEF Replaying
    <3> QED BY <2>1, <3>1, <3>2
  <2>4. ASSUME ~flow.boundary
        PROVE  \E j \in 1 .. Len(t) : j < i /\ t[j].type = "boundary" /\ t[j].seq = t[i].seq
    <3>1. PICK j \in 1 .. Len(s) : j < i + 1 /\ s[j].type = "boundary" /\ s[j].seq = t[i].seq
      BY <1>1, <1>5, <2>1, <2>4 DEF Replaying
    <3>2. j - 1 \in 1 .. Len(t) /\ t[j - 1] = s[j]
      BY <1>1, <3>1 DEF Popped
    <3>3. j - 1 < i
      BY <2>1, <3>1
    <3> QED BY <3>1, <3>2, <3>3
  <2> QED BY <2>2, <2>3, <2>4
<1>6. /\ flow.state = "replaying" => cursor <= flow.verified /\ flow.verified <= h
      /\ flow.state # "replaying" => flow.history = {} /\ ~flow.boundary /\ ~flow.complete
      /\ reading /\ (attempt = "begun" \/ (attempt = "await" /\ toAgent # << >>)) =>
           flow.history = {} /\ ~flow.boundary /\ flow.verified = cursor /\ replayed.is # "ok"
      /\ flow.boundary => /\ ready.seq <= flow.verified
                          /\ \A e \in E : cursor < e /\ e <= flow.verified =>
                               Frame("replay", e, e) \in flow.history
      /\ flow.complete => flow.boundary
      /\ replayed.is = "ok" /\ flow.state = "replaying" => flow.complete
  BY DEF Replaying
<1> HIDE DEF Frame
<1> QED BY <1>1, <1>2, <1>3, <1>4, <1>5, <1>6 DEF Replaying

\* Frames that were sane are when one is taken, and Talk does not mind one that is not Ready.
LEMMA SanePops ==
  ASSUME NEW h, NEW E, NEW b, Bridge(h, E, b), Popped(pipe', pipe), pipe[1].type # "ready",
         UNCHANGED <<toAgent, attempt, ready>>, cursor' = cursor \/ toAgent = << >>,
         replayed'.is # "ok" \/ attempt = "await" \/ replayed' = replayed,
         flow'.state = flow.state
  PROVE  /\ Talk(h)'
         /\ \A i \in 1 .. Len(pipe') :
              /\ pipe'[i].type \in {"ready", "live", "replay", "boundary", "complete"}
              /\ pipe'[i].seq <= h
              /\ pipe'[i].type \in {"live", "replay"} =>
                   pipe'[i] = Frame(pipe'[i].type, pipe'[i].seq, pipe'[i].seq) /\ pipe'[i].seq > 0
<1>1. PICK s, t : s = pipe /\ t = pipe' /\ Popped(t, s)
  OBVIOUS
<1>2. ASSUME NEW i \in 1 .. Len(t)
      PROVE  /\ t[i].type \in {"ready", "live", "replay", "boundary", "complete"}
             /\ t[i].seq <= h
             /\ t[i].type \in {"live", "replay"} =>
                  t[i] = Frame(t[i].type, t[i].seq, t[i].seq) /\ t[i].seq > 0
  <2>1. PICK k \in 1 .. Len(s) : t[i] = s[k]
    BY <1>1 DEF Popped
  <2> QED BY <1>1, <2>1 DEF Bridge, Sane
<1>3. ASSUME NEW i \in 1 .. Len(t), t[i].type = "ready"
      PROVE  /\ attempt = "hello" /\ ready.is # "ok"
             /\ \A j \in 1 .. Len(t) : t[j].type = "ready" => i = j
  <2>1. i + 1 \in 1 .. Len(s) /\ t[i] = s[i + 1] /\ i \in Nat
    BY <1>1 DEF Popped
  <2>2. attempt = "hello" /\ ready.is # "ok"
    BY <1>1, <1>3, <2>1 DEF Bridge, Talk
  <2>3. ASSUME NEW j \in 1 .. Len(t), t[j].type = "ready" PROVE i = j
    <3>1. j + 1 \in 1 .. Len(s) /\ t[j] = s[j + 1] /\ j \in Nat
      BY <1>1 DEF Popped
    <3>2. i + 1 = j + 1
      BY <1>1, <1>3, <2>1, <2>3, <3>1 DEF Bridge, Talk
    <3> QED BY <2>1, <3>1, <3>2
  <2> QED BY <2>2, <2>3
<1>4. ASSUME NEW i \in 1 .. Len(toAgent)
      PROVE  \/ /\ toAgent[i].type = "hello" /\ attempt = "hello" /\ ready.is # "ok"
                /\ \A j \in 1 .. Len(t) : t[j].type # "ready"
             \/ toAgent[i].type = "replay" /\ toAgent[i].seq = cursor /\ attempt = "await"
  BY <1>1 DEF Bridge, Talk, Popped
<1>5. Len(toAgent) <= 1 /\ (toAgent = << >> => Len(toAgent) = 0)
  BY EmptyIs DEF Bridge, Talk
<1>6. ASSUME NEW i \in 1 .. Len(toAgent) PROVE cursor' = cursor
  BY <1>5
<1>7. /\ flow.state \in {"replaying", "live"} => ready.is = "ok"
      /\ ready.is = "ok" => ready.seq <= h
      /\ attempt \in {"hello", "begun"} => replayed'.is # "ok"
  BY DEF Bridge, Talk
<1> QED BY <1>1, <1>2, <1>3, <1>4, <1>5, <1>6, <1>7 DEF Talk

LEMMA ReaderReplayKeeps ==
  ASSUME NEW h, NEW E, NEW b, Bridge(h, E, b), ReaderReplay
  PROVE  Bridge(h, E, b)'
<1>1. /\ UNCHANGED <<log, torn, agent, toAgent, attempt, current, conn, connects, cursor, seen,
                     reading, ready, replayed, failing>>
      /\ flow' = IF flow.state = "replaying" THEN IngestReplayed(flow, Head(pipe))
                 ELSE [flow EXCEPT !.error = TRUE]
  BY DEF ReaderReplay, journalVars, agentVars, threadVars, readerVars
<1>2. /\ reading /\ pipe' \in Seq(Frames0) /\ Popped(pipe', pipe)
      /\ Head(pipe) = pipe[1] /\ pipe[1] \in Frames0 /\ pipe[1].type = "replay"
      /\ agent.phase \in {"serving", "dead"}
  <2>1. ReaderTakes("replay")
    BY DEF ReaderReplay
  <2> QED BY <2>1, TakenIs
<1>3. 1 \in 1 .. Len(pipe)
  BY <1>2 DEF Popped
<1>4. PICK f, n : f = pipe[1] /\ n = f.seq
  OBVIOUS
<1>5. n \in Nat /\ n <= h /\ f = Frame("replay", n, n) /\ f \in Frames0
  BY <1>2, <1>3, <1>4 DEF Frames0, Bridge, Sane
<1>6. /\ attempt = "await" /\ toAgent = << >> /\ ~flow.complete /\ replayed.is # "ok"
      /\ ~flow.boundary /\ flow.verified < n
  BY <1>2, <1>3, <1>4 DEF Bridge, Replaying
<1>7. flow.state = "replaying"
  BY <1>2, <1>6 DEF Bridge, Control
<1>8. flow \in Flows /\ flow.verified \in Nat /\ cursor \in Nat /\ cursor <= flow.verified
  BY <1>7 DEF Bridge, SpineTypes, Flows, Replaying
<1>9. flow' = [flow EXCEPT !.verified = n, !.history = flow.history \cup {f}]
  <2>1. ~(flow.boundary \/ flow.complete \/ f.seq <= flow.verified)
    BY <1>4, <1>5, <1>6, <1>8
  <2>2. IngestReplayed(flow, f) = [flow EXCEPT !.verified = f.seq, !.history = @ \cup {f}]
    BY <2>1, Zenon DEF IngestReplayed
  <2>3. Head(pipe) = f
    BY <1>2, <1>4, Zenon
  <2>4. flow' = IngestReplayed(flow, f)
    BY <1>1, <1>7, <2>3, Zenon
  <2>5. flow' = [flow EXCEPT !.verified = n, !.history = @ \cup {f}]
    BY <1>4, <2>2, <2>4, Zenon
  <2> QED BY <2>5
<1>10. /\ flow' \in Flows /\ flow'.state = "replaying" /\ flow'.verified = n
       /\ flow'.history = flow.history \cup {f} /\ flow'.live = flow.live
       /\ ~flow'.boundary /\ ~flow'.complete /\ flow'.error = flow.error
  BY <1>5, <1>6, <1>7, <1>8, <1>9 DEF Flows
<1>11. SpineTypes'
  BY <1>1, <1>2, <1>10 DEF Bridge, SpineTypes
<1>12. Control'
  BY <1>1, <1>2, <1>7, <1>10 DEF Bridge, Control
<1>13. Synced(h)'
  BY <1>1 DEF Bridge, Synced
<1>14. /\ Talk(h)'
       /\ \A i \in 1 .. Len(pipe') :
              /\ pipe'[i].type \in {"ready", "live", "replay", "boundary", "complete"}
              /\ pipe'[i].seq <= h
              /\ pipe'[i].type \in {"live", "replay"} =>
                   pipe'[i] = Frame(pipe'[i].type, pipe'[i].seq, pipe'[i].seq) /\ pipe'[i].seq > 0
  BY <1>1, <1>2, <1>7, <1>10, SanePops
<1>15. Sane(h)'
  <2>1. \A g \in flow.live : g = Frame("live", g.seq, g.seq) /\ 0 < g.seq /\ g.seq <= h
    BY DEF Bridge, Sane
  <2>2. ASSUME NEW g \in flow.history \cup {f}
        PROVE  g = Frame("replay", g.seq, g.seq) /\ cursor < g.seq /\ g.seq <= n
    <3>1. CASE g = f
      BY <1>4, <1>5, <1>6, <1>8, <3>1
    <3>2. CASE g \in flow.history
      <4>1. g = Frame("replay", g.seq, g.seq) /\ cursor < g.seq /\ g.seq <= flow.verified
        BY <3>2 DEF Bridge, Sane
      <4>2. g.seq \in Nat
        BY <1>8, <3>2 DEF Flows, Frames0
      <4> QED BY <1>5, <1>6, <1>8, <4>1, <4>2
    <3> QED BY <3>1, <3>2
  <2> QED BY <1>1, <1>10, <1>14, <2>1, <2>2 DEF Sane
<1>16. Replaying(h, E)'
  <2>1. PICK s, t : s = pipe /\ t = pipe' /\ Popped(t, s)
    BY <1>2
  <2>2. s[1].type = "replay" /\ s[1].seq = n /\ s[1] = f /\ 1 \in 1 .. Len(s)
    BY <1>2, <1>3, <1>4, <2>1
  <2>3. ASSUME NEW i \in 1 .. Len(t), t[i].type = "replay"
        PROVE  /\ n < t[i].seq
               /\ \A j \in 1 .. Len(t) : t[j].type = "replay" /\ i < j => t[i].seq < t[j].seq
    <3>1. i + 1 \in 1 .. Len(s) /\ t[i] = s[i + 1] /\ i \in Nat /\ 1 < i + 1
      BY <2>1 DEF Popped
    <3>2. n < t[i].seq
      BY <2>1, <2>2, <2>3, <3>1 DEF Bridge, Replaying
    <3>3. ASSUME NEW j \in 1 .. Len(t), t[j].type = "replay", i < j PROVE t[i].seq < t[j].seq
      <4>1. j + 1 \in 1 .. Len(s) /\ t[j] = s[j + 1] /\ i + 1 < j + 1
        BY <2>1, <3>1, <3>3 DEF Popped
      <4> QED BY <2>1, <2>3, <3>1, <3>3, <4>1 DEF Bridge, Replaying
    <3> QED BY <3>2, <3>3
  <2>4. ASSUME NEW i \in 1 .. Len(t), t[i].type = "boundary"
        PROVE  /\ n <= t[i].seq /\ ready.seq <= t[i].seq
               /\ \A j \in 1 .. Len(t) :
                    /\ t[j].type = "replay" => j < i /\ t[j].seq <= t[i].seq
                    /\ t[j].type = "boundary" => i = j
               /\ \A e \in E : cursor < e /\ e <= t[i].seq =>
                    \/ Frame("replay", e, e) \in flow.history \cup {f}
                    \/ \E j \in 1 .. Len(t) : t[j] = Frame("replay", e, e)
    <3>1. i + 1 \in 1 .. Len(s) /\ t[i] = s[i + 1] /\ i \in Nat
      BY <2>1 DEF Popped
    <3>2. n <= t[i].seq /\ ready.seq <= t[i].seq
      BY <2>1, <2>2, <2>4, <3>1 DEF Bridge, Replaying
    <3>3. ASSUME NEW j \in 1 .. Len(t)
          PROVE  /\ t[j].type = "replay" => j < i /\ t[j].seq <= t[i].seq
                 /\ t[j].type = "boundary" => i = j
      <4>1. j + 1 \in 1 .. Len(s) /\ t[j] = s[j + 1] /\ j \in Nat
        BY <2>1 DEF Popped
      <4>2. /\ s[j + 1].type = "replay" => j + 1 < i + 1 /\ s[j + 1].seq <= s[i + 1].seq
            /\ s[j + 1].type = "boundary" => i + 1 = j + 1
        BY <2>1, <2>4, <3>1, <4>1 DEF Bridge, Replaying
      <4> QED BY <3>1, <4>1, <4>2
    <3>4. ASSUME NEW e \in E, cursor < e, e <= t[i].seq
          PROVE  \/ Frame("replay", e, e) \in flow.history \cup {f}
                 \/ \E j \in 1 .. Len(t) : t[j] = Frame("replay", e, e)
      <4>1. \/ Frame("replay", e, e) \in flow.history
            \/ \E j \in 1 .. Len(s) : s[j] = Frame("replay", e, e)
        BY <2>1, <2>4, <3>1, <3>4 DEF Bridge, Replaying
      <4>2. ASSUME NEW j \in 1 .. Len(s), s[j] = Frame("replay", e, e)
            PROVE  Frame("replay", e, e) = f \/ \E k \in 1 .. Len(t) : t[k] = Frame("replay", e, e)
        <5>1. CASE j = 1
          BY <2>2, <4>2, <5>1
        <5>2. CASE j # 1
          BY <2>1, <4>2, <5>2 DEF Popped
        <5> QED BY <5>1, <5>2
      <4> QED BY <4>1, <4>2
    <3> QED BY <3>2, <3>3, <3>4
  <2>5. ASSUME NEW i \in 1 .. Len(t), t[i].type = "complete"
        PROVE  /\ \A j \in 1 .. Len(t) : t[j].type \in {"replay", "boundary", "complete"} => j <= i
               /\ \E j \in 1 .. Len(t) : j < i /\ t[j].type = "boundary" /\ t[j].seq = t[i].seq
    <3>1. i + 1 \in 1 .. Len(s) /\ t[i] = s[i + 1] /\ i \in Nat
      BY <2>1 DEF Popped
    <3>2. ASSUME NEW j \in 1 .. Len(t), t[j].type \in {"replay", "boundary", "complete"} PROVE j <= i
      <4>1. j + 1 \in 1 .. Len(s) /\ t[j] = s[j + 1] /\ j \in Nat
        BY <2>1 DEF Popped
      <4>2. j + 1 <= i + 1
        BY <2>1, <2>5, <3>1, <3>2, <4>1 DEF Bridge, Replaying
      <4> QED BY <3>1, <4>1, <4>2
    <3>3. PICK j \in 1 .. Len(s) : j < i + 1 /\ s[j].type = "boundary" /\ s[j].seq = t[i].seq
      BY <1>6, <2>1, <2>5, <3>1 DEF Bridge, Replaying
    <3>4. j - 1 \in 1 .. Len(t) /\ t[j - 1] = s[j]
      BY <2>1, <2>2, <3>3 DEF Popped
    <3>5. j - 1 < i
      BY <3>1, <3>3
    <3> QED BY <3>2, <3>3, <3>4, <3>5
  <2>6. cursor <= n
    BY <1>5, <1>6, <1>8
  <2> HIDE DEF Frame
  <2> QED BY <1>1, <1>5, <1>6, <1>10, <2>1, <2>3, <2>4, <2>5, <2>6 DEF Replaying
<1>17. Tailed(b, E)'
  <2>1. \A e : Came(e)' <=> Came(e)
    BY <1>1, <1>7, <1>10 DEF Came
  <2>2. \A e : pipe[1] # Frame("live", e, e)
    BY <1>2 DEF Frame
  <2>3. /\ \A g \in flow'.live : \A e \in E : b < e /\ e < g.seq => Frame("live", e, e) \in flow'.live
        /\ ready'.is = "ok" => b <= ready'.seq
    BY <1>1, <1>10 DEF Bridge, Tailed
  <2>4. agent' = agent /\ Tailed(b, E)
    BY <1>1 DEF Bridge
  <2> HIDE DEF Came
  <2> QED BY <1>2, <2>1, <2>2, <2>3, <2>4, TailedPops
<1>18. Consumed(h, E)'
  BY <1>1, <1>7, <1>10 DEF Bridge, Consumed
<1> QED BY <1>11, <1>12, <1>13, <1>14, <1>15, <1>16, <1>17, <1>18 DEF Bridge

LEMMA ReaderBoundaryKeeps ==
  ASSUME NEW h, NEW E, NEW b, Bridge(h, E, b), ReaderBoundary
  PROVE  Bridge(h, E, b)'
<1>1. /\ UNCHANGED <<log, torn, agent, toAgent, attempt, current, conn, connects, cursor, seen,
                     reading, ready, replayed, failing>>
      /\ flow' = IF flow.state # "replaying" \/ flow.boundary \/ Head(pipe).seq < flow.verified
                 THEN [flow EXCEPT !.error = TRUE]
                 ELSE [flow EXCEPT !.verified = Head(pipe).seq, !.boundary = TRUE]
  BY DEF ReaderBoundary, journalVars, agentVars, threadVars, readerVars
<1>2. /\ reading /\ pipe' \in Seq(Frames0) /\ Popped(pipe', pipe)
      /\ Head(pipe) = pipe[1] /\ pipe[1] \in Frames0 /\ pipe[1].type = "boundary"
      /\ agent.phase \in {"serving", "dead"}
  <2>1. ReaderTakes("boundary")
    BY DEF ReaderBoundary
  <2> QED BY <2>1, TakenIs
<1>3. 1 \in 1 .. Len(pipe)
  BY <1>2 DEF Popped
<1>4. PICK n : n = pipe[1].seq
  OBVIOUS
<1>5. n \in Nat /\ n <= h
  BY <1>2, <1>3, <1>4 DEF Frames0, Bridge, Sane
<1>6. /\ attempt = "await" /\ toAgent = << >> /\ ~flow.complete /\ replayed.is # "ok"
      /\ ~flow.boundary /\ flow.verified <= n /\ ready.seq <= n
  BY <1>2, <1>3, <1>4 DEF Bridge, Replaying
<1>7. flow.state = "replaying"
  BY <1>2, <1>6 DEF Bridge, Control
<1>8. flow \in Flows /\ flow.verified \in Nat /\ cursor \in Nat /\ cursor <= flow.verified
  BY <1>7 DEF Bridge, SpineTypes, Flows, Replaying
<1>9. flow' = [flow EXCEPT !.verified = n, !.boundary = TRUE]
  <2>1. Head(pipe).seq = n
    BY <1>2, <1>4, Zenon
  <2>2. ~(n < flow.verified)
    BY <1>5, <1>6, <1>8
  <2>3. ~(flow.state # "replaying" \/ flow.boundary \/ Head(pipe).seq < flow.verified)
    BY <1>6, <1>7, <2>1, <2>2, Zenon
  <2>4. flow' = [flow EXCEPT !.verified = Head(pipe).seq, !.boundary = TRUE]
    BY <1>1, <2>3, Zenon
  <2> QED BY <2>1, <2>4, Zenon
<1>10. /\ flow' \in Flows /\ flow'.state = "replaying" /\ flow'.verified = n
       /\ flow'.history = flow.history /\ flow'.live = flow.live
       /\ flow'.boundary /\ ~flow'.complete /\ flow'.error = flow.error
  BY <1>5, <1>6, <1>7, <1>8, <1>9 DEF Flows
<1>11. SpineTypes'
  BY <1>1, <1>2, <1>10 DEF Bridge, SpineTypes
<1>12. Control'
  BY <1>1, <1>2, <1>7, <1>10 DEF Bridge, Control
<1>13. Synced(h)'
  BY <1>1 DEF Bridge, Synced
<1>14. /\ Talk(h)'
       /\ \A i \in 1 .. Len(pipe') :
              /\ pipe'[i].type \in {"ready", "live", "replay", "boundary", "complete"}
              /\ pipe'[i].seq <= h
              /\ pipe'[i].type \in {"live", "replay"} =>
                   pipe'[i] = Frame(pipe'[i].type, pipe'[i].seq, pipe'[i].seq) /\ pipe'[i].seq > 0
  BY <1>1, <1>2, <1>7, <1>10, SanePops
<1>15. Sane(h)'
  <2>1. \A g \in flow.live : g = Frame("live", g.seq, g.seq) /\ 0 < g.seq /\ g.seq <= h
    BY DEF Bridge, Sane
  <2>2. ASSUME NEW g \in flow.history
        PROVE  g = Frame("replay", g.seq, g.seq) /\ cursor < g.seq /\ g.seq <= n
    <3>1. g = Frame("replay", g.seq, g.seq) /\ cursor < g.seq /\ g.seq <= flow.verified
      BY DEF Bridge, Sane
    <3>2. g.seq \in Nat
      BY <1>8 DEF Flows, Frames0
    <3> QED BY <1>5, <1>6, <1>8, <3>1, <3>2
  <2> QED BY <1>1, <1>10, <1>14, <2>1, <2>2 DEF Sane
<1>16. Replaying(h, E)'
  <2>1. PICK s, t : s = pipe /\ t = pipe' /\ Popped(t, s)
    BY <1>2
  <2>2. s[1].type = "boundary" /\ s[1].seq = n /\ 1 \in 1 .. Len(s)
    BY <1>2, <1>3, <1>4, <2>1
  <2>3. \A i \in 1 .. Len(s) : s[i].type # "replay" /\ (s[i].type = "boundary" => i = 1)
    <3>1. ASSUME NEW i \in 1 .. Len(s), s[i].type = "replay" PROVE FALSE
      <4>1. i < 1
        BY <2>1, <2>2, <3>1 DEF Bridge, Replaying
      <4> QED BY <4>1
    <3>2. ASSUME NEW i \in 1 .. Len(s), s[i].type = "boundary" PROVE i = 1
      BY <2>1, <2>2, <3>2 DEF Bridge, Replaying
    <3> QED BY <3>1, <3>2
  <2>4. ASSUME NEW i \in 1 .. Len(t) PROVE t[i].type \notin {"replay", "boundary"}
    <3>1. i + 1 \in 1 .. Len(s) /\ t[i] = s[i + 1] /\ i \in Nat /\ i + 1 # 1
      BY <2>1 DEF Popped
    <3> QED BY <2>3, <3>1
  <2>5. ASSUME NEW i \in 1 .. Len(t), t[i].type = "complete"
        PROVE  /\ \A j \in 1 .. Len(t) : t[j].type \in {"replay", "boundary", "complete"} => j <= i
               /\ n = t[i].seq
    <3>1. i + 1 \in 1 .. Len(s) /\ t[i] = s[i + 1] /\ i \in Nat
      BY <2>1 DEF Popped
    <3>2. ASSUME NEW j \in 1 .. Len(t), t[j].type \in {"replay", "boundary", "complete"} PROVE j <= i
      <4>1. j + 1 \in 1 .. Len(s) /\ t[j] = s[j + 1] /\ j \in Nat
        BY <2>1 DEF Popped
      <4>2. j + 1 <= i + 1
        BY <2>1, <2>5, <3>1, <3>2, <4>1 DEF Bridge, Replaying
      <4> QED BY <3>1, <4>1, <4>2
    <3>3. PICK j \in 1 .. Len(s) : s[j].type = "boundary" /\ s[j].seq = t[i].seq
      BY <1>6, <2>1, <2>5, <3>1 DEF Bridge, Replaying
    <3>4. j = 1
      BY <2>3, <3>3
    <3> QED BY <2>2, <3>2, <3>3, <3>4
  <2>6. ASSUME NEW e \in E, cursor < e, e <= n PROVE Frame("replay", e, e) \in flow.history
    <3>1. \/ Frame("replay", e, e) \in flow.history
          \/ \E j \in 1 .. Len(s) : s[j] = Frame("replay", e, e)
      BY <2>1, <2>2, <2>6 DEF Bridge, Replaying
    <3>2. Frame("replay", e, e).type = "replay"
      BY DEF Frame
    <3> QED BY <2>3, <3>1, <3>2
  <2>7. cursor <= n
    BY <1>5, <1>6, <1>8
  <2> HIDE DEF Frame
  <2> QED BY <1>1, <1>5, <1>6, <1>10, <2>1, <2>4, <2>5, <2>6, <2>7 DEF Replaying
<1>17. Tailed(b, E)'
  <2>1. \A e : Came(e)' <=> Came(e)
    BY <1>1, <1>7, <1>10 DEF Came
  <2>2. \A e : pipe[1] # Frame("live", e, e)
    BY <1>2 DEF Frame
  <2>3. /\ \A g \in flow'.live : \A e \in E : b < e /\ e < g.seq => Frame("live", e, e) \in flow'.live
        /\ ready'.is = "ok" => b <= ready'.seq
    BY <1>1, <1>10 DEF Bridge, Tailed
  <2>4. agent' = agent /\ Tailed(b, E)
    BY <1>1 DEF Bridge
  <2> HIDE DEF Came
  <2> QED BY <1>2, <2>1, <2>2, <2>3, <2>4, TailedPops
<1>18. Consumed(h, E)'
  BY <1>1, <1>7, <1>10 DEF Bridge, Consumed
<1> QED BY <1>11, <1>12, <1>13, <1>14, <1>15, <1>16, <1>17, <1>18 DEF Bridge

LEMMA ReaderCompleteKeeps ==
  ASSUME NEW h, NEW E, NEW b, Bridge(h, E, b), ReaderComplete
  PROVE  Bridge(h, E, b)'
<1>1. PICK fine : fine = /\ flow.state = "replaying"
                         /\ flow.boundary /\ ~flow.complete /\ ~flow.error
                         /\ Head(pipe).seq = flow.verified
  OBVIOUS
<1>2. /\ UNCHANGED <<log, torn, agent, toAgent, attempt, current, conn, connects, cursor, seen,
                     reading, ready, failing>>
      /\ flow' = IF fine THEN [flow EXCEPT !.complete = TRUE] ELSE [flow EXCEPT !.error = TRUE]
      /\ replayed' = IF fine THEN Answer(Head(pipe).seq) ELSE Failure
  BY <1>1, Zenon DEF ReaderComplete, journalVars, agentVars, threadVars
<1>3. /\ reading /\ pipe' \in Seq(Frames0) /\ Popped(pipe', pipe)
      /\ Head(pipe) = pipe[1] /\ pipe[1] \in Frames0 /\ pipe[1].type = "complete"
      /\ agent.phase \in {"serving", "dead"}
  <2>1. ReaderTakes("complete")
    BY DEF ReaderComplete
  <2> QED BY <2>1, TakenIs
<1>4. 1 \in 1 .. Len(pipe)
  BY <1>3 DEF Popped
<1>5. PICK n : n = pipe[1].seq
  OBVIOUS
<1>6. n \in Nat /\ n <= h
  BY <1>3, <1>4, <1>5 DEF Frames0, Bridge, Sane
<1>7. /\ attempt = "await" /\ toAgent = << >> /\ ~flow.complete /\ replayed.is # "ok"
      /\ \A j \in 1 .. Len(pipe) : pipe[j].type \in {"replay", "boundary", "complete"} => j <= 1
      /\ flow.boundary /\ flow.verified = n
  BY <1>3, <1>4, <1>5 DEF Bridge, Replaying
<1>8. flow.state = "replaying" /\ ~flow.error
  BY <1>3, <1>7 DEF Bridge, Control
<1>9. flow' = [flow EXCEPT !.complete = TRUE] /\ replayed' = Answer(n)
  <2>1. Head(pipe).seq = n
    BY <1>3, <1>5, Zenon
  <2>2. fine
    BY <1>1, <1>7, <1>8, <2>1
  <2> QED BY <1>2, <2>1, <2>2, Zenon
<1>10. /\ flow \in Flows /\ flow' \in Flows /\ flow'.state = "replaying"
       /\ flow'.verified = flow.verified /\ flow'.history = flow.history /\ flow'.live = flow.live
       /\ flow'.boundary /\ flow'.complete /\ ~flow'.error
  <2>1. flow \in Flows
    BY DEF Bridge, SpineTypes
  <2> QED BY <1>7, <1>8, <1>9, <2>1 DEF Flows
<1>11. replayed' \in Answers /\ replayed'.is = "ok"
  BY <1>6, <1>9 DEF Answer, Answers
<1>12. SpineTypes'
  BY <1>2, <1>3, <1>10, <1>11 DEF Bridge, SpineTypes
<1>13. Control'
  BY <1>2, <1>3, <1>8, <1>10 DEF Bridge, Control
<1>14. Synced(h)'
  BY <1>2 DEF Bridge, Synced
<1>15. /\ Talk(h)'
       /\ \A i \in 1 .. Len(pipe') :
              /\ pipe'[i].type \in {"ready", "live", "replay", "boundary", "complete"}
              /\ pipe'[i].seq <= h
              /\ pipe'[i].type \in {"live", "replay"} =>
                   pipe'[i] = Frame(pipe'[i].type, pipe'[i].seq, pipe'[i].seq) /\ pipe'[i].seq > 0
  BY <1>2, <1>3, <1>7, <1>8, <1>10, SanePops
<1>16. Sane(h)'
  BY <1>2, <1>10, <1>15 DEF Bridge, Sane
<1>17. Replaying(h, E)'
  <2>1. \A i \in 1 .. Len(pipe') : pipe'[i].type \notin {"replay", "boundary", "complete"}
    <3>1. PICK s, t : s = pipe /\ t = pipe' /\ Popped(t, s)
      BY <1>3
    <3>2. ASSUME NEW i \in 1 .. Len(t) PROVE t[i].type \notin {"replay", "boundary", "complete"}
      <4>1. i + 1 \in 1 .. Len(s) /\ t[i] = s[i + 1] /\ i \in Nat /\ ~(i + 1 <= 1)
        BY <3>1 DEF Popped
      <4> QED BY <1>7, <3>1, <4>1
    <3> QED BY <3>1, <3>2
  <2> HIDE DEF Frame
  <2> QED BY <1>2, <1>7, <1>8, <1>10, <2>1 DEF Bridge, Replaying
<1>18. Tailed(b, E)'
  <2>1. \A e : Came(e)' <=> Came(e)
    BY <1>2, <1>8, <1>10 DEF Came
  <2>2. \A e : pipe[1] # Frame("live", e, e)
    BY <1>3 DEF Frame
  <2>3. /\ \A g \in flow'.live : \A e \in E : b < e /\ e < g.seq => Frame("live", e, e) \in flow'.live
        /\ ready'.is = "ok" => b <= ready'.seq
    BY <1>2, <1>10 DEF Bridge, Tailed
  <2>4. agent' = agent /\ Tailed(b, E)
    BY <1>2 DEF Bridge
  <2> HIDE DEF Came
  <2> QED BY <1>3, <2>1, <2>2, <2>3, <2>4, TailedPops
<1>19. Consumed(h, E)'
  BY <1>2, <1>8, <1>10 DEF Bridge, Consumed
<1> QED BY <1>12, <1>13, <1>14, <1>16, <1>17, <1>18, <1>19, <1>15 DEF Bridge

LEMMA ReaderLiveKeeps ==
  ASSUME NEW h \in 0 .. MaxSeq, NEW E \in SUBSET (1 .. h), NEW b \in Nat, Bridge(h, E, b), ReaderLive
  PROVE  Bridge(h, E, b)'
<1>1. PICK f : f = Head(pipe)
  OBVIOUS
<1>2. /\ UNCHANGED <<log, torn, agent, toAgent, attempt, current, conn, connects, reading, ready,
                     replayed, failing>>
      /\ \/ /\ flow.state \in {"buffering", "replaying"}
            /\ flow' = [flow EXCEPT !.live = @ \cup {f}]
            /\ UNCHANGED <<cursor, seen>>
         \/ flow.state = "live" /\ Consume({f}) /\ UNCHANGED flow
  BY <1>1, Zenon DEF ReaderLive, journalVars, agentVars, threadVars, readerVars
<1>3. /\ reading /\ pipe' \in Seq(Frames0) /\ Popped(pipe', pipe)
      /\ f = pipe[1] /\ f \in Frames0 /\ f.type = "live"
      /\ agent.phase \in {"serving", "dead"}
  <2>1. ReaderTakes("live")
    BY DEF ReaderLive
  <2> QED BY <1>1, <2>1, TakenIs
<1>4. 1 \in 1 .. Len(pipe)
  BY <1>3 DEF Popped
<1>5. PICK n : n = f.seq
  OBVIOUS
<1>6. n \in Nat /\ 0 < n /\ n <= h /\ f = Frame("live", n, n) /\ h \in Nat
  BY <1>3, <1>4, <1>5, JournalAssumption DEF Frames0, Bridge, Sane
<1>7. \A e \in E : b < e /\ e < n => Came(e)
  <2>1. PICK s : s = pipe
    OBVIOUS
  <2>2. \A e \in E : b < e /\ e < n =>
           Came(e) \/ \E j \in 1 .. Len(s) : j < 1 /\ s[j] = Frame("live", e, e)
    BY <1>3, <1>4, <1>5, <2>1 DEF Bridge, Tailed
  <2>3. \A j \in 1 .. Len(s) : ~(j < 1)
    OBVIOUS
  <2> HIDE DEF Came, Frame
  <2> QED BY <2>2, <2>3
<1>8. CASE flow.state \in {"buffering", "replaying"}
  <2>1. flow' = [flow EXCEPT !.live = @ \cup {f}] /\ cursor' = cursor /\ seen' = seen
    BY <1>2, <1>8
  <2>2. /\ flow \in Flows /\ flow' \in Flows /\ flow'.state = flow.state
        /\ flow'.live = flow.live \cup {f} /\ flow'.history = flow.history
        /\ flow'.verified = flow.verified /\ flow'.boundary = flow.boundary
        /\ flow'.complete = flow.complete /\ flow'.error = flow.error
    <3>1. flow \in Flows
      BY DEF Bridge, SpineTypes
    <3> QED BY <1>3, <2>1, <3>1 DEF Flows
  <2>3. SpineTypes'
    BY <1>2, <1>3, <2>1, <2>2 DEF Bridge, SpineTypes
  <2>4. Control'
    BY <1>2, <1>3, <1>8, <2>1, <2>2 DEF Bridge, Control
  <2>5. Synced(h)'
    BY <1>2 DEF Bridge, Synced
  <2>6. /\ Talk(h)'
        /\ \A i \in 1 .. Len(pipe') :
              /\ pipe'[i].type \in {"ready", "live", "replay", "boundary", "complete"}
              /\ pipe'[i].seq <= h
              /\ pipe'[i].type \in {"live", "replay"} =>
                   pipe'[i] = Frame(pipe'[i].type, pipe'[i].seq, pipe'[i].seq) /\ pipe'[i].seq > 0
    BY <1>2, <1>3, <2>1, <2>2, SanePops
  <2>7. Sane(h)'
    <3>1. \A g \in flow'.live : g = Frame("live", g.seq, g.seq) /\ 0 < g.seq /\ g.seq <= h
      BY <1>5, <1>6, <2>2 DEF Bridge, Sane
    <3> QED BY <2>1, <2>2, <2>6, <3>1 DEF Bridge, Sane
  <2>8. Replaying(h, E)'
    <3>1. Replaying(h, E)
      BY DEF Bridge
    <3> QED BY <1>2, <1>3, <2>1, <2>2, <3>1, ReplayingPops
  <2>9. Tailed(b, E)'
    <3>1. \A e \in E : Came(e) => Frame("live", e, e) \in flow.live
      BY <1>8 DEF Came
    <3>2. \A e \in E : Came(e) \/ pipe[1] = Frame("live", e, e) => Came(e)'
      BY <1>3, <2>2, <3>1 DEF Came
    <3>3. \A g \in flow'.live : \A e \in E : b < e /\ e < g.seq => Frame("live", e, e) \in flow'.live
      <4>1. \A g \in flow.live : \A e \in E : b < e /\ e < g.seq => Frame("live", e, e) \in flow.live
        BY DEF Bridge, Tailed
      <4> HIDE DEF Came, Frame
      <4> QED BY <1>5, <1>7, <2>2, <3>1, <4>1
    <3>4. ready'.is = "ok" => b <= ready'.seq
      BY <1>2 DEF Bridge, Tailed
    <3>5. agent' = agent /\ Tailed(b, E)
      BY <1>2 DEF Bridge
    <3> HIDE DEF Came
    <3> QED BY <1>3, <3>2, <3>3, <3>4, <3>5, TailedPops
  <2>10. Consumed(h, E)'
    BY <1>2, <1>8, <2>1, <2>2 DEF Bridge, Consumed
  <2> QED BY <2>3, <2>4, <2>5, <2>6, <2>7, <2>8, <2>9, <2>10 DEF Bridge
<1>9. CASE flow.state = "live"
  <2>1. Consume({f}) /\ flow' = flow
    BY <1>2, <1>9
  <2>2. PICK c, F, sn : c = cursor /\ F = {f} /\ sn = seen
    OBVIOUS
  <2>3. c \in 0 .. h /\ Right(sn, c, E)
    BY <1>6, <2>2, RightNow
  <2>4. ready.seq \in Nat /\ b <= ready.seq /\ ready.seq <= c /\ ready.is = "ok"
    BY <1>9, <2>2 DEF Bridge, SpineTypes, Answers, Tailed, Talk, Consumed
  <2>5. Apart(F) /\ \A g \in F : g.seq <= h
    <3>1. f.rec = n
      BY <1>6 DEF Frame
    <3> QED BY <1>3, <1>5, <1>6, <2>2, <3>1 DEF Apart
  <2>6. \A e \in E, g \in F : c < e /\ e <= g.seq => \E k \in F : k.seq = e
    <3> SUFFICES ASSUME NEW e \in E, c < e, e <= n PROVE e = n
      BY <1>5, <2>2
    <3> SUFFICES ASSUME e # n PROVE FALSE
      OBVIOUS
    <3>1. e \in Nat /\ b < e /\ e < n
      BY <1>6, <2>3, <2>4
    <3>2. Came(e)
      BY <1>7, <3>1
    <3>3. flow.live = {}
      BY <1>9 DEF Bridge, Control
    <3>4. e <= cursor
      BY <3>2, <3>3 DEF Came
    <3> QED BY <2>2, <2>3, <3>1, <3>4
  <2>7. PICK d \in 0 .. h : d = cursor' /\ Passes(F, c, d) /\ Right(seen', d, E)
    <3>1. Consume(F)
      BY <2>1, <2>2
    <3>2. \E d \in 0 .. h : d = cursor' /\ Passes(F, c, d) /\ Right(seen', d, E)
      BY <2>2, <2>3, <2>5, <2>6, <3>1, ConsumeIs, Zenon
    <3> QED BY <3>2
  <2>8. c <= d /\ n <= d /\ d <= h /\ d \in Nat /\ ready.seq <= d
    BY <1>5, <1>6, <2>2, <2>3, <2>4, <2>7 DEF Passes
  <2>9. attempt = "idle" /\ Len(toAgent) = 0 /\ toAgent = << >>
    <3>1. attempt = "idle"
      BY <1>3, <1>9 DEF Bridge, Control
    <3>2. \A i \in 1 .. Len(toAgent) : FALSE
      BY <3>1 DEF Bridge, Talk
    <3>3. toAgent \in Seq(Frames0)
      BY DEF Bridge, SpineTypes
    <3> QED BY <3>1, <3>2, <3>3, NothingIsEmpty
  <2>10. SpineTypes'
    <3>1. seen' \in [1 .. MaxSeq -> Nat]
      BY <2>7 DEF Right
    <3> QED BY <1>2, <1>3, <2>1, <2>7, <2>8, <3>1 DEF Bridge, SpineTypes
  <2>11. Control'
    BY <1>2, <1>3, <2>1 DEF Bridge, Control
  <2>12. Synced(h)'
    BY <1>2 DEF Bridge, Synced
  <2>13. /\ Talk(h)'
         /\ \A i \in 1 .. Len(pipe') :
              /\ pipe'[i].type \in {"ready", "live", "replay", "boundary", "complete"}
              /\ pipe'[i].seq <= h
              /\ pipe'[i].type \in {"live", "replay"} =>
                   pipe'[i] = Frame(pipe'[i].type, pipe'[i].seq, pipe'[i].seq) /\ pipe'[i].seq > 0
    BY <1>2, <1>3, <2>1, <2>9, SanePops
  <2>14. flow.live = {} /\ flow.history = {} /\ ~flow.boundary /\ ~flow.complete
    BY <1>9 DEF Bridge, Control, Replaying
  <2>15. Sane(h)'
    BY <2>1, <2>13, <2>14 DEF Sane
  <2>16. Replaying(h, E)'
    <3>1. \A i \in 1 .. Len(pipe') : pipe'[i].type \notin {"replay", "boundary", "complete"}
      <4>1. \A i \in 1 .. Len(pipe) : pipe[i].type \notin {"replay", "boundary", "complete"}
        BY <2>9 DEF Bridge, Replaying
      <4> QED BY <1>3, <4>1 DEF Popped
    <3> QED BY <1>2, <1>9, <2>1, <2>9, <2>14, <3>1 DEF Replaying
  <2>17. Tailed(b, E)'
    <3>1. \A e \in E : Came(e) \/ pipe[1] = Frame("live", e, e) => e <= d
      <4> SUFFICES ASSUME NEW e \in E, Came(e) \/ f = Frame("live", e, e) PROVE e <= d
        BY <1>3
      <4>1. CASE Came(e)
        <5>1. e <= c /\ e \in Nat
          BY <1>6, <2>2, <2>14, <4>1 DEF Came
        <5> QED BY <2>3, <2>8, <5>1
      <4>2. CASE f = Frame("live", e, e)
        <5>1. e = n
          BY <1>5, <4>2 DEF Frame
        <5> QED BY <2>8, <5>1
      <4> QED BY <4>1, <4>2
    <3>2. \A e \in E : Came(e) \/ pipe[1] = Frame("live", e, e) => Came(e)'
      BY <1>9, <2>1, <2>7, <3>1 DEF Came
    <3>3. \A g \in flow'.live : \A e \in E : b < e /\ e < g.seq => Frame("live", e, e) \in flow'.live
      BY <2>1, <2>14
    <3>4. ready'.is = "ok" => b <= ready'.seq
      BY <1>2 DEF Bridge, Tailed
    <3>5. agent' = agent /\ Tailed(b, E)
      BY <1>2 DEF Bridge
    <3> HIDE DEF Came
    <3> QED BY <1>3, <3>2, <3>3, <3>4, <3>5, TailedPops
  <2>18. Consumed(h, E)'
    BY <1>2, <1>9, <2>1, <2>7, <2>8 DEF Consumed, Right
  <2> QED BY <2>10, <2>11, <2>12, <2>13, <2>15, <2>16, <2>17, <2>18 DEF Bridge
<1> QED BY <1>2, <1>8, <1>9

-----------------------------------------------------------------------------
(* The agent, while the journal stays as it is.                            *)

\* t is s and after it x; n is the length of s.
Joins(t, s, x, n) ==
  /\ n \in Nat /\ n = Len(s)
  /\ \A i \in 1 .. Len(t) : i \in Nat
  /\ \A i \in 1 .. Len(t) :
       \/ i \in 1 .. Len(s) /\ t[i] = s[i] /\ i <= n
       \/ \E j \in 1 .. Len(x) : j \in Nat /\ 0 < j /\ i = n + j /\ t[i] = x[j]
  /\ \A i \in 1 .. Len(s) : i \in Nat /\ i <= n /\ i \in 1 .. Len(t) /\ t[i] = s[i]
  /\ \A j \in 1 .. Len(x) : n + j \in 1 .. Len(t) /\ t[n + j] = x[j] /\ j \in Nat /\ 0 < j

LEMMA JoinedIs ==
  ASSUME NEW S, NEW s \in Seq(S), NEW x \in Seq(S), NEW t, t = s \o x
  PROVE  t \in Seq(S) /\ \E n : Joins(t, s, x, n)
<1>1. PICK n, m : n = Len(s) /\ m = Len(x) /\ n \in Nat /\ m \in Nat
  <2>1. Len(s) \in Nat /\ Len(x) \in Nat
    OBVIOUS
  <2> QED BY <2>1
<1>2. /\ t \in Seq(S) /\ Len(t) = n + m
      /\ \A i \in 1 .. n + m : t[i] = IF i <= n THEN s[i] ELSE x[i - n]
  BY <1>1, ConcatProperties
<1>3. \A i \in 1 .. n : i \in Nat /\ i <= n /\ i \in 1 .. n + m /\ t[i] = s[i]
  <2>1. \A i \in 1 .. n : i \in Nat /\ i <= n /\ i \in 1 .. n + m
    BY <1>1
  <2> QED BY <1>2, <2>1
<1>4. \A j \in 1 .. m : n + j \in 1 .. n + m /\ t[n + j] = x[j] /\ j \in Nat /\ 0 < j
  <2> SUFFICES ASSUME NEW j \in 1 .. m
               PROVE  n + j \in 1 .. n + m /\ t[n + j] = x[j] /\ j \in Nat /\ 0 < j
    OBVIOUS
  <2>1. n + j \in 1 .. n + m /\ ~(n + j <= n) /\ (n + j) - n = j /\ j \in Nat /\ 0 < j
    BY <1>1
  <2>2. t[n + j] = x[(n + j) - n]
    BY <1>2, <2>1
  <2> QED BY <2>1, <2>2
<1>5. \A i \in 1 .. n + m :
        \/ i \in 1 .. n /\ t[i] = s[i] /\ i <= n
        \/ \E j \in 1 .. m : j \in Nat /\ 0 < j /\ i = n + j /\ t[i] = x[j]
  <2> SUFFICES ASSUME NEW i \in 1 .. n + m, ~(i \in 1 .. n)
               PROVE  \E j \in 1 .. m : j \in Nat /\ 0 < j /\ i = n + j /\ t[i] = x[j]
    BY <1>3
  <2>1. i - n \in 1 .. m /\ i = n + (i - n)
    BY <1>1
  <2> QED BY <1>4, <2>1
<1>6. \A i \in 1 .. n + m : i \in Nat
  BY <1>1
<1>7. Joins(t, s, x, n)
  BY <1>1, <1>2, <1>3, <1>4, <1>5, <1>6 DEF Joins
<1> QED BY <1>2, <1>7

\* The one question under way.
LEMMA AskedIs ==
  ASSUME NEW h, NEW E, NEW b, Bridge(h, E, b), toAgent # << >>
  PROVE  Len(toAgent) = 1 /\ Head(toAgent) = toAgent[1] /\ Tail(toAgent) = << >> /\ 1 \in 1 .. Len(toAgent)
<1>1. PICK s : s = toAgent
  OBVIOUS
<1>2. s \in Seq(Frames0) /\ Len(s) <= 1
  BY <1>1 DEF Bridge, SpineTypes, Talk
<1>3. Len(s) \in Nat /\ Len(s) # 0
  BY <1>1, <1>2, EmptySeq
<1>4. Len(s) = 1
  <2>1. PICK n : n = Len(s)
    OBVIOUS
  <2>2. n \in Nat /\ n # 0 /\ n <= 1
    BY <1>2, <1>3, <2>1
  <2>3. n = 1
    BY <2>2
  <2> QED BY <2>1, <2>3
<1>5. Tail(s) \in Seq(Frames0) /\ Len(Tail(s)) = Len(s) - 1 /\ Head(s) = s[1]
  BY <1>1, <1>2, <1>4, HeadTailProperties
<1>6. Tail(s) = << >>
  <2>1. Len(Tail(s)) = 0
    BY <1>4, <1>5
  <2> QED BY <1>5, <2>1, EmptySeq
<1> QED BY <1>1, <1>4, <1>5, <1>6

LEMMA ServingIs ==
  ASSUME NEW h \in 0 .. MaxSeq, NEW E, NEW b, Bridge(h, E, b), agent.phase = "serving"
  PROVE  /\ reading /\ agent.head \in Nat /\ agent.head <= h /\ agent.last \in Nat /\ agent.last <= h
         /\ b <= agent.head /\ b <= agent.last /\ h \in Nat
<1>1. agent.head \in Nat /\ agent.last \in Nat /\ h \in Nat
  BY JournalAssumption DEF Bridge, SpineTypes, Agents
<1> QED BY <1>1 DEF Bridge, SpineTypes, Control, Synced, Tailed

LEMMA AgentSizeTailKeeps ==
  ASSUME NEW h, NEW E, NEW b, Bridge(h, E, b), JournalInv, AgentSizeTail
  PROVE  Bridge(h, E, b)'
<1> USE DEF Bridge
<1>1. /\ agent.phase \in {"opened", "compacted"}
      /\ agent' = [agent EXCEPT !.phase = "sized", !.offset = FileLen]
      /\ UNCHANGED <<log, torn, toAgent, pipe, attempt, current, conn, connects, flow, cursor, seen,
                     reading, ready, replayed, failing>>
  BY DEF AgentSizeTail, journalVars, coreVars, threadVars, readerVars, dataVars
<1>2. torn = FALSE /\ agent.head = h
  BY <1>1 DEF Synced
<1>3. PICK n : n = Bytes(log)
  OBVIOUS
<1>4. n \in Nat
  <2>1. PICK s, f : s = log /\ f = Scanned(s)
    OBVIOUS
  <2>2. f.len = Bytes(s) /\ f \in FileHeads
    BY <2>1, ScanTyped DEF JournalInv, Coherent
  <2> QED BY <1>3, <2>1, <2>2 DEF FileHeads
<1>5. FileLen = n
  BY <1>2, <1>3, <1>4 DEF FileLen
<1>6. agent' \in Agents /\ agent'.phase = "sized" /\ agent'.offset = n /\ agent'.head = h
  <2>1. agent \in Agents
    BY DEF SpineTypes
  <2> QED BY <1>1, <1>2, <1>4, <1>5, <2>1 DEF Agents
<1>7. SpineTypes'
  BY <1>1, <1>6 DEF SpineTypes
<1>8. Control'
  BY <1>1, <1>6 DEF Control
<1>9. Synced(h)'
  BY <1>1, <1>2, <1>3, <1>6 DEF Synced
<1>10. Talk(h)' /\ Sane(h)'
  BY <1>1 DEF Talk, Sane
<1>11. Replaying(h, E)'
  BY <1>1 DEF Replaying
<1>12. Tailed(b, E)'
  BY <1>1, <1>6 DEF Tailed, Came
<1>13. Consumed(h, E)'
  BY <1>1 DEF Consumed
<1> QED BY <1>7, <1>8, <1>9, <1>10, <1>11, <1>12, <1>13

\* What the tail owes is not more for frames that it did not send.
LEMMA TailedJoins ==
  ASSUME NEW b, NEW E, Tailed(b, E), NEW x, NEW n, NEW t, t = pipe', Joins(t, pipe, x, n),
         \A j \in 1 .. Len(x) : x[j].type # "live" /\ (x[j].type = "ready" => b <= x[j].seq),
         UNCHANGED <<agent, flow, cursor, ready>>
  PROVE  Tailed(b, E)'
<1>1. PICK s : s = pipe /\ Joins(t, s, x, n)
  OBVIOUS
<1>2. \A e : Came(e)' <=> Came(e)
  BY DEF Came
<1>3. \A i \in 1 .. Len(t) : t[i].type = "ready" => b <= t[i].seq
  <2>1. \A i \in 1 .. Len(s) : s[i].type = "ready" => b <= s[i].seq
    BY <1>1, Zenon DEF Tailed
  <2>2. \A i \in 1 .. Len(t) :
          (i \in 1 .. Len(s) /\ t[i] = s[i]) \/ \E j \in 1 .. Len(x) : t[i] = x[j]
    BY <1>1, Zenon DEF Joins
  <2> QED BY <2>1, <2>2, Zenon
<1>4. ASSUME NEW k \in 1 .. Len(t), NEW e \in E, t[k].type = "live", b < e, e < t[k].seq
      PROVE  Came(e) \/ \E j \in 1 .. Len(t) : j < k /\ t[j] = Frame("live", e, e)
  <2>1. k \in 1 .. Len(s) /\ t[k] = s[k]
    BY <1>1, <1>4 DEF Joins
  <2>2. Came(e) \/ \E j \in 1 .. Len(s) : j < k /\ s[j] = Frame("live", e, e)
    BY <1>1, <1>4, <2>1 DEF Tailed
  <2>3. \A j \in 1 .. Len(s) : j \in 1 .. Len(t) /\ t[j] = s[j]
    BY <1>1 DEF Joins
  <2> HIDE DEF Came, Frame
  <2> QED BY <2>2, <2>3
<1>5. ASSUME NEW e \in E, agent.phase = "serving", b < e, e <= agent.last
      PROVE  Came(e) \/ \E j \in 1 .. Len(t) : t[j] = Frame("live", e, e)
  <2>1. Came(e) \/ \E j \in 1 .. Len(s) : s[j] = Frame("live", e, e)
    BY <1>1, <1>5 DEF Tailed
  <2>2. \A j \in 1 .. Len(s) : j \in 1 .. Len(t) /\ t[j] = s[j]
    BY <1>1 DEF Joins
  <2> HIDE DEF Came, Frame
  <2> QED BY <2>1, <2>2
<1>6. /\ agent.phase = "serving" => b <= agent.head /\ b <= agent.last
      /\ ready.is = "ok" => b <= ready.seq
      /\ \A f \in flow.live : \A e \in E : b < e /\ e < f.seq => Frame("live", e, e) \in flow.live
  BY DEF Tailed
<1> HIDE DEF Came, Frame
<1> QED BY <1>2, <1>3, <1>4, <1>5, <1>6 DEF Tailed

LEMMA AgentHelloKeeps ==
  ASSUME NEW h \in 0 .. MaxSeq, NEW E, NEW b, Bridge(h, E, b), AgentHello
  PROVE  Bridge(h, E, b)'
<1>1. PICK f, x, s, t : /\ f = Frame("ready", agent.head, 0) /\ x = <<f>> /\ s = pipe /\ t = pipe'
  OBVIOUS
<1>2. /\ agent.phase = "serving" /\ toAgent # << >> /\ Head(toAgent).type = "hello"
      /\ toAgent' = Tail(toAgent) /\ t = Append(s, f)
      /\ UNCHANGED <<log, torn, agent, attempt, current, conn, connects, flow, cursor, seen,
                     reading, ready, replayed, failing>>
  BY <1>1 DEF AgentHello, journalVars, coreVars, threadVars, readerVars, dataVars
<1>3. /\ reading /\ agent.head \in Nat /\ agent.head <= h /\ b <= agent.head
  BY <1>2, ServingIs
<1>4. f \in Frames0 /\ f.type = "ready" /\ f.seq = agent.head
  BY <1>1, <1>3, JournalAssumption DEF Frame, Frames0, FrameTypes
<1>5. /\ Len(toAgent) = 1 /\ toAgent[1].type = "hello" /\ 1 \in 1 .. Len(toAgent)
      /\ toAgent' = << >> /\ toAgent' \in Seq(Frames0) /\ Len(toAgent') = 0
  BY <1>2, AskedIs, EmptyIs
<1>6. /\ attempt = "hello" /\ ready.is # "ok" /\ \A j \in 1 .. Len(s) : s[j].type # "ready"
  BY <1>1, <1>5 DEF Bridge, Talk
<1>7. s \in Seq(Frames0) /\ x \in Seq(Frames0) /\ t = s \o x
  <2>1. s \in Seq(Frames0)
    BY <1>1 DEF Bridge, SpineTypes
  <2> HIDE DEF Frames0
  <2> QED BY <1>1, <1>2, <1>4, <2>1, AppendIsConcat
<1>8. PICK n : t \in Seq(Frames0) /\ Joins(t, s, x, n)
  BY <1>7, JoinedIs
<1>9. \A j \in 1 .. Len(x) : j = 1 /\ x[j] = f
  BY <1>1
<1>10. SpineTypes'
  BY <1>1, <1>2, <1>5, <1>8 DEF Bridge, SpineTypes
<1>11. Control'
  BY <1>2, <1>3, <1>5 DEF Bridge, Control
<1>12. Synced(h)'
  BY <1>2 DEF Bridge, Synced
<1>13. Talk(h)'
  <2>1. ASSUME NEW i \in 1 .. Len(t), t[i].type = "ready"
        PROVE  \A j \in 1 .. Len(t) : t[j].type = "ready" => i = j
    <3>1. \A k \in 1 .. Len(t) : t[k].type = "ready" => k = n + 1
      BY <1>6, <1>8, <1>9 DEF Joins
    <3> QED BY <2>1, <3>1
  <2> QED BY <1>1, <1>2, <1>5, <1>6, <2>1 DEF Bridge, Talk
<1>14. Sane(h)'
  <2>1. ASSUME NEW i \in 1 .. Len(t)
        PROVE  /\ t[i].type \in {"ready", "live", "replay", "boundary", "complete"}
               /\ t[i].seq <= h
               /\ t[i].type \in {"live", "replay"} =>
                    t[i] = Frame(t[i].type, t[i].seq, t[i].seq) /\ t[i].seq > 0
    <3>1. CASE i \in 1 .. Len(s) /\ t[i] = s[i]
      BY <1>1, <3>1 DEF Bridge, Sane
    <3>2. CASE t[i] = f
      BY <1>3, <1>4, <3>2
    <3> QED BY <1>8, <1>9, <3>1, <3>2 DEF Joins
  <2> HIDE DEF Frame
  <2> QED BY <1>1, <1>2, <2>1 DEF Bridge, Sane
<1>15. Replaying(h, E)'
  <2>1. \A i \in 1 .. Len(t) : t[i].type \notin {"replay", "boundary", "complete"}
    <3>1. \A i \in 1 .. Len(s) : s[i].type \notin {"replay", "boundary", "complete"}
      BY <1>1, <1>6 DEF Bridge, Replaying
    <3> QED BY <1>4, <1>8, <1>9, <3>1 DEF Joins
  <2> HIDE DEF Frame
  <2> QED BY <1>1, <1>2, <1>5, <1>6, <2>1 DEF Bridge, Replaying
<1>16. Tailed(b, E)'
  <2>1. \A j \in 1 .. Len(x) : x[j].type # "live" /\ (x[j].type = "ready" => b <= x[j].seq)
    BY <1>3, <1>4, <1>9
  <2>2. Tailed(b, E)
    BY DEF Bridge
  <2>3. Joins(t, pipe, x, n)
    BY <1>1, <1>8
  <2> QED BY <1>1, <1>2, <2>1, <2>2, <2>3, TailedJoins
<1>17. Consumed(h, E)'
  BY <1>2 DEF Bridge, Consumed
<1> QED BY <1>10, <1>11, <1>12, <1>13, <1>14, <1>15, <1>16, <1>17 DEF Bridge

\* The file holds every event, in the order of the numbers.
LEMMA EventsLogged ==
  ASSUME JournalInv, NEW E, E = EventNumbers(stored), NEW s, s = log
  PROVE  /\ s \in Seq(Record) /\ Rising(s)
         /\ \A e \in E : \E k \in 1 .. Len(s) : s[k].kind # "mark" /\ s[k].seq = e
<1>1. s \in Seq(Record) /\ Rising(s)
  BY DEF JournalInv, Coherent, Orderly
<1>2. ASSUME NEW e \in E PROVE \E k \in 1 .. Len(s) : s[k].kind # "mark" /\ s[k].seq = e
  <2>1. PICK r \in stored : r.kind = "event" /\ r.seq = e
    BY DEF EventNumbers
  <2>2. PICK k \in DOMAIN s : s[k] = r
    BY <2>1 DEF JournalInv, Coherent
  <2>3. k \in 1 .. Len(s)
    BY <1>1, <2>2
  <2> QED BY <2>1, <2>2, <2>3
<1> QED BY <1>1, <1>2

LEMMA AgentTailKeeps ==
  ASSUME NEW h \in 0 .. MaxSeq, NEW E \in SUBSET (1 .. h), NEW b \in Nat, Bridge(h, E, b),
         JournalInv, Counts(h, E, log, stored), AgentTail
  PROVE  Bridge(h, E, b)'
<1>1. PICK u, from, s, t : u = log /\ from = agent.last /\ s = pipe /\ t = pipe'
  OBVIOUS
<1>2. agent.phase = "serving"
  BY DEF AgentTail
<1>3. /\ reading /\ from \in Nat /\ from <= h /\ b <= agent.head /\ b <= from /\ h \in Nat
      /\ agent.head <= h
  BY <1>1, <1>2, ServingIs
<1>4. /\ u \in Seq(Record) /\ Rising(u) /\ h = LastSeq(u)
      /\ \A e \in E : \E k \in 1 .. Len(u) : u[k].kind # "mark" /\ u[k].seq = e
  BY <1>1, EventsLogged DEF Counts
<1>5. PICK p \in 0 .. Len(u) : agent.offset = Bytes(SubSeq(u, 1, p)) /\ from = LastSeq(SubSeq(u, 1, p))
  BY <1>1, <1>2 DEF Bridge, Synced, Positioned
<1>6. agent.offset \in Nat /\ agent.offset <= Bytes(u) /\ Bytes(u) \in Nat
  BY <1>4, <1>5, PrefixShorter
<1>7. ~(FileLen < agent.offset)
  <2>1. PICK m, o : m = Bytes(u) /\ o = agent.offset
    OBVIOUS
  <2>2. FileLen = m + (IF torn THEN 1 ELSE 0)
    BY <1>1, <2>1 DEF FileLen
  <2> QED BY <1>6, <2>1, <2>2
<1>8. PICK g : g = ReadOn("live", from, 0, LinesFrom(u, agent.offset))
  OBVIOUS
<1>9. /\ t = s \o g.frames
      /\ agent' = [agent EXCEPT !.offset = Bytes(u), !.last = g.last]
      /\ UNCHANGED <<log, torn, toAgent, attempt, current, conn, connects, flow, cursor, seen,
                     reading, ready, replayed, failing>>
  <2>1. PICK shrunk : shrunk = (FileLen < agent.offset)
    OBVIOUS
  <2>2. ~shrunk
    BY <1>7, <2>1
  <2>3. /\ pipe' = pipe \o ReadOn("live", IF shrunk THEN 0 ELSE agent.last, 0,
                                   LinesFrom(log, IF shrunk THEN 0 ELSE agent.offset)).frames
        /\ agent' = [agent EXCEPT !.offset = Bytes(log),
                       !.last = ReadOn("live", IF shrunk THEN 0 ELSE agent.last, 0,
                                   LinesFrom(log, IF shrunk THEN 0 ELSE agent.offset)).last]
    BY <2>1, Zenon DEF AgentTail
  <2>4. (IF shrunk THEN 0 ELSE agent.last) = from /\ (IF shrunk THEN 0 ELSE agent.offset) = agent.offset
    BY <1>1, <2>2, Zenon
  <2>5. pipe' = pipe \o g.frames /\ agent' = [agent EXCEPT !.offset = Bytes(log), !.last = g.last]
    BY <1>1, <1>8, <2>3, <2>4, Zenon
  <2> QED BY <1>1, <2>5 DEF AgentTail, journalVars, coreVars, threadVars, readerVars, dataVars
<1>10. Fetched(g, "live", from, 0, u)
  <2>1. g = ReadOn("live", from, 0, LinesFrom(u, Bytes(SubSeq(u, 1, p))))
    BY <1>5, <1>8, Zenon
  <2>2. "live" \in FrameTypes /\ 0 \in Nat
    BY DEF FrameTypes
  <2>3. from = LastSeq(SubSeq(u, 1, p))
    BY <1>5
  <2> QED BY <1>4, <2>1, <2>2, <2>3, TailFetches, Zenon
<1>11. PICK x : x = g.frames
  OBVIOUS
<1>12. /\ g.last = h /\ x \in Seq(Frames0)
       /\ \A j \in 1 .. Len(x) : x[j] = Frame("live", x[j].seq, x[j].seq) /\ from < x[j].seq /\ x[j].seq <= h
       /\ \A i, j \in 1 .. Len(x) : i < j => x[i].seq < x[j].seq
  BY <1>4, <1>10, <1>11 DEF Fetched, Readings
<1>13. \A e \in E : from < e => \E j \in 1 .. Len(x) : x[j] = Frame("live", e, e)
  <2> SUFFICES ASSUME NEW e \in E, from < e PROVE \E j \in 1 .. Len(x) : x[j] = Frame("live", e, e)
    OBVIOUS
  <2>1. PICK k \in 1 .. Len(u) : u[k].kind # "mark" /\ u[k].seq = e
    BY <1>4
  <2>2. 0 < e
    BY <1>3
  <2> HIDE DEF Frame
  <2> QED BY <1>10, <1>11, <2>1, <2>2 DEF Fetched
<1>14. s \in Seq(Frames0)
  BY <1>1 DEF Bridge, SpineTypes
<1>15. PICK n : t \in Seq(Frames0) /\ Joins(t, s, x, n)
  <2>1. t = s \o x
    BY <1>9, <1>11
  <2> HIDE DEF Frames0
  <2> QED BY <1>12, <1>14, <2>1, JoinedIs
<1>16. \A j \in 1 .. Len(x) : x[j].type = "live" /\ x[j].seq \in Nat /\ 0 < x[j].seq
  <2>1. \A j \in 1 .. Len(x) : x[j] \in Frames0
    BY <1>12
  <2>2. \A j \in 1 .. Len(x) : x[j].type = "live"
    <3> SUFFICES ASSUME NEW j \in 1 .. Len(x) PROVE x[j].type = "live"
      OBVIOUS
    <3>1. PICK q : x[j] = Frame("live", q, q)
      BY <1>12
    <3> QED BY <3>1 DEF Frame
  <2>3. \A j \in 1 .. Len(x) : x[j].seq \in Nat
    BY <2>1 DEF Frames0
  <2> QED BY <1>3, <1>12, <2>2, <2>3
<1>17. /\ agent' \in Agents /\ agent'.phase = "serving" /\ agent'.head = agent.head
       /\ agent'.last = h /\ agent'.offset = Bytes(u)
  <2>1. agent \in Agents
    BY DEF Bridge, SpineTypes
  <2> QED BY <1>2, <1>3, <1>6, <1>9, <1>12, <2>1 DEF Agents
<1>18. SpineTypes'
  BY <1>1, <1>9, <1>15, <1>17 DEF Bridge, SpineTypes
<1>19. Control'
  BY <1>2, <1>3, <1>9, <1>17 DEF Bridge, Control
<1>20. Synced(h)'
  <2>1. Positioned(Bytes(u), h, u)
    <3>1. SubSeq(u, 1, Len(u)) = u /\ Len(u) \in 0 .. Len(u)
      BY <1>4, SubSeqFull
    <3> QED BY <1>4, <3>1 DEF Positioned
  <2>2. Positioned(agent'.offset, agent'.last, log')
    BY <1>1, <1>9, <1>17, <2>1, Zenon
  <2> QED BY <1>3, <1>17, <2>2 DEF Synced
<1>21. Talk(h)'
  <2>1. \A i \in 1 .. Len(t) : t[i].type = "ready" => i \in 1 .. Len(s) /\ t[i] = s[i]
    BY <1>15, <1>16 DEF Joins
  <2> QED BY <1>1, <1>9, <2>1 DEF Bridge, Talk
<1>22. Sane(h)'
  <2>1. ASSUME NEW i \in 1 .. Len(t)
        PROVE  /\ t[i].type \in {"ready", "live", "replay", "boundary", "complete"}
               /\ t[i].seq <= h
               /\ t[i].type \in {"live", "replay"} =>
                    t[i] = Frame(t[i].type, t[i].seq, t[i].seq) /\ t[i].seq > 0
    <3>1. CASE i \in 1 .. Len(s) /\ t[i] = s[i]
      BY <1>1, <3>1 DEF Bridge, Sane
    <3>2. ASSUME NEW j \in 1 .. Len(x), t[i] = x[j]
          PROVE  /\ t[i].type = "live" /\ t[i].seq <= h
                 /\ t[i] = Frame(t[i].type, t[i].seq, t[i].seq) /\ t[i].seq > 0
      BY <1>12, <1>16, <3>2
    <3> HIDE DEF Frame
    <3> QED BY <1>15, <3>1, <3>2 DEF Joins
  <2> HIDE DEF Frame
  <2> QED BY <1>1, <1>9, <2>1 DEF Bridge, Sane
<1>23. Replaying(h, E)'
  <2>1. \A i \in 1 .. Len(t) : t[i].type \in {"replay", "boundary", "complete"} =>
           i \in 1 .. Len(s) /\ t[i] = s[i]
    BY <1>15, <1>16 DEF Joins
  <2>2. \A i \in 1 .. Len(s) : i \in 1 .. Len(t) /\ t[i] = s[i]
    BY <1>15 DEF Joins
  <2>3. ASSUME NEW i \in 1 .. Len(t), t[i].type = "replay"
        PROVE  /\ ~flow.boundary /\ flow.verified < t[i].seq
               /\ \A j \in 1 .. Len(t) : t[j].type = "replay" /\ i < j => t[i].seq < t[j].seq
    <3>1. i \in 1 .. Len(s) /\ t[i] = s[i] /\ s[i].type = "replay"
      BY <2>1, <2>3
    <3>2. /\ ~flow.boundary /\ flow.verified < s[i].seq
          /\ \A j \in 1 .. Len(s) : s[j].type = "replay" /\ i < j => s[i].seq < s[j].seq
      BY <1>1, <3>1 DEF Bridge, Replaying
    <3> QED BY <2>1, <3>1, <3>2
  <2>4. ASSUME NEW i \in 1 .. Len(t), t[i].type = "boundary"
        PROVE  /\ ~flow.boundary /\ flow.verified <= t[i].seq /\ ready.seq <= t[i].seq
               /\ \A j \in 1 .. Len(t) :
                    /\ t[j].type = "replay" => j < i /\ t[j].seq <= t[i].seq
                    /\ t[j].type = "boundary" => i = j
               /\ \A e \in E : cursor < e /\ e <= t[i].seq =>
                    \/ Frame("replay", e, e) \in flow.history
                    \/ \E j \in 1 .. Len(t) : t[j] = Frame("replay", e, e)
    <3>1. i \in 1 .. Len(s) /\ t[i] = s[i]
      BY <2>1, <2>4
    <3>2. /\ ~flow.boundary /\ flow.verified <= t[i].seq /\ ready.seq <= t[i].seq
          /\ \A j \in 1 .. Len(s) :
               /\ s[j].type = "replay" => j < i /\ s[j].seq <= t[i].seq
               /\ s[j].type = "boundary" => i = j
          /\ \A e \in E : cursor < e /\ e <= t[i].seq =>
               \/ Frame("replay", e, e) \in flow.history
               \/ \E j \in 1 .. Len(s) : s[j] = Frame("replay", e, e)
      BY <1>1, <2>4, <3>1 DEF Bridge, Replaying
    <3> HIDE DEF Frame
    <3> QED BY <2>1, <2>2, <3>2
  <2>5. ASSUME NEW i \in 1 .. Len(t), t[i].type = "complete"
        PROVE  /\ \A j \in 1 .. Len(t) : t[j].type \in {"replay", "boundary", "complete"} => j <= i
               /\ flow.boundary => flow.verified = t[i].seq
               /\ ~flow.boundary => \E j \in 1 .. Len(t) :
                                      j < i /\ t[j].type = "boundary" /\ t[j].seq = t[i].seq
    <3>1. i \in 1 .. Len(s) /\ t[i] = s[i]
      BY <2>1, <2>5
    <3>2. /\ \A j \in 1 .. Len(s) : s[j].type \in {"replay", "boundary", "complete"} => j <= i
          /\ flow.boundary => flow.verified = t[i].seq
          /\ ~flow.boundary => \E j \in 1 .. Len(s) :
                                 j < i /\ s[j].type = "boundary" /\ s[j].seq = t[i].seq
      BY <1>1, <2>5, <3>1 DEF Bridge, Replaying
    <3> QED BY <2>1, <2>2, <3>2
  <2>6. \A i \in 1 .. Len(t) : t[i].type \in {"replay", "boundary", "complete"} =>
           attempt = "await" /\ toAgent = << >> /\ ~flow.complete /\ replayed.is # "ok"
    BY <1>1, <2>1 DEF Bridge, Replaying
  <2>7. /\ flow.state = "replaying" => cursor <= flow.verified /\ flow.verified <= h
        /\ flow.state # "replaying" => flow.history = {} /\ ~flow.boundary /\ ~flow.complete
        /\ reading /\ (attempt = "begun" \/ (attempt = "await" /\ toAgent # << >>)) =>
             flow.history = {} /\ ~flow.boundary /\ flow.verified = cursor /\ replayed.is # "ok"
        /\ flow.boundary => /\ ready.seq <= flow.verified
                            /\ \A e \in E : cursor < e /\ e <= flow.verified =>
                                 Frame("replay", e, e) \in flow.history
        /\ flow.complete => flow.boundary
        /\ replayed.is = "ok" /\ flow.state = "replaying" => flow.complete
    BY DEF Bridge, Replaying
  <2>8. t = pipe' /\ UNCHANGED <<toAgent, attempt, flow, cursor, reading, ready, replayed>>
    BY <1>1, <1>9
  <2> HIDE DEF Frame
  <2> QED BY <2>3, <2>4, <2>5, <2>6, <2>7, <2>8 DEF Replaying
<1>24. Tailed(b, E)'
  <2>1. \A e : Came(e)' <=> Came(e)
    BY <1>9 DEF Came
  <2>2. \A i \in 1 .. Len(t) : t[i].type = "ready" => b <= t[i].seq
    <3>1. \A i \in 1 .. Len(t) : t[i].type = "ready" => i \in 1 .. Len(s) /\ t[i] = s[i]
      BY <1>15, <1>16 DEF Joins
    <3> QED BY <1>1, <3>1 DEF Bridge, Tailed
  <2>3. \A e \in E : b < e /\ e <= from => Came(e) \/ \E j \in 1 .. Len(s) : s[j] = Frame("live", e, e)
    BY <1>1, <1>2 DEF Bridge, Tailed
  <2>4. \A i \in 1 .. Len(s) : i \in Nat /\ i <= n /\ i \in 1 .. Len(t) /\ t[i] = s[i]
    BY <1>15 DEF Joins
  <2>5. \A j \in 1 .. Len(x) : n + j \in 1 .. Len(t) /\ t[n + j] = x[j] /\ j \in Nat /\ 0 < j
    BY <1>15 DEF Joins
  <2>6. n \in Nat
    BY <1>15 DEF Joins
  <2>7. ASSUME NEW k \in 1 .. Len(t), NEW e \in E, t[k].type = "live", b < e, e < t[k].seq
        PROVE  Came(e) \/ \E j \in 1 .. Len(t) : j < k /\ t[j] = Frame("live", e, e)
    <3>0. e \in Nat
      BY <1>3
    <3>1. CASE k \in 1 .. Len(s) /\ t[k] = s[k]
      <4>1. Came(e) \/ \E j \in 1 .. Len(s) : j < k /\ s[j] = Frame("live", e, e)
        BY <1>1, <2>7, <3>1 DEF Bridge, Tailed
      <4> HIDE DEF Came, Frame
      <4> QED BY <2>4, <4>1
    <3>2. ASSUME NEW i \in 1 .. Len(x), i \in Nat, 0 < i, k = n + i, t[k] = x[i]
          PROVE  Came(e) \/ \E j \in 1 .. Len(t) : j < k /\ t[j] = Frame("live", e, e)
      <4>1. CASE e <= from
        <5>1. \A j \in 1 .. Len(s) : j < k
          BY <2>4, <2>6, <3>2
        <5>2. Came(e) \/ \E j \in 1 .. Len(s) : s[j] = Frame("live", e, e)
          BY <2>3, <2>7, <4>1
        <5> HIDE DEF Came, Frame
        <5> QED BY <2>4, <5>1, <5>2
      <4>2. CASE ~(e <= from)
        <5>1. from < e
          BY <1>3, <3>0, <4>2
        <5>2. PICK j \in 1 .. Len(x) : x[j] = Frame("live", e, e)
          BY <1>13, <5>1
        <5>3. x[j].seq = e /\ e < x[i].seq /\ j \in Nat
          BY <2>5, <2>7, <3>2, <5>2 DEF Frame
        <5>4. j < i
          <6>1. i < j => x[i].seq < x[j].seq
            BY <1>12
          <6>2. x[i].seq \in Nat
            BY <1>16
          <6>3. i # j /\ ~(i < j)
            BY <3>0, <5>3, <6>1, <6>2
          <6> QED BY <3>2, <5>3, <6>3
        <5>5. n + j \in 1 .. Len(t) /\ t[n + j] = Frame("live", e, e) /\ n + j < k
          BY <2>5, <2>6, <3>2, <5>2, <5>3, <5>4
        <5> QED BY <5>5
      <4> QED BY <4>1, <4>2
    <3>3. \/ k \in 1 .. Len(s) /\ t[k] = s[k]
          \/ \E i \in 1 .. Len(x) : i \in Nat /\ 0 < i /\ k = n + i /\ t[k] = x[i]
      BY <1>15 DEF Joins
    <3> HIDE DEF Came, Frame
    <3> QED BY <3>1, <3>2, <3>3
  <2>8. ASSUME NEW e \in E, b < e, e <= h
        PROVE  Came(e) \/ \E j \in 1 .. Len(t) : t[j] = Frame("live", e, e)
    <3>0. e \in Nat
      BY <1>3
    <3>1. CASE e <= from
      <4>1. Came(e) \/ \E j \in 1 .. Len(s) : s[j] = Frame("live", e, e)
        BY <2>3, <2>8, <3>1
      <4> HIDE DEF Came, Frame
      <4> QED BY <2>4, <4>1
    <3>2. CASE ~(e <= from)
      <4>1. from < e
        BY <1>3, <3>0, <3>2
      <4>2. PICK j \in 1 .. Len(x) : x[j] = Frame("live", e, e)
        BY <1>13, <4>1
      <4> QED BY <2>5, <4>2
    <3> QED BY <3>1, <3>2
  <2>9. b <= h
    BY <1>3
  <2>10. /\ ready.is = "ok" => b <= ready.seq
         /\ \A f \in flow.live : \A e \in E : b < e /\ e < f.seq => Frame("live", e, e) \in flow.live
    BY DEF Bridge, Tailed
  <2> HIDE DEF Came, Frame
  <2> QED BY <1>1, <1>3, <1>9, <1>17, <2>1, <2>2, <2>7, <2>8, <2>9, <2>10 DEF Tailed
<1>25. Consumed(h, E)'
  BY <1>9 DEF Bridge, Consumed
<1> QED BY <1>18, <1>19, <1>20, <1>21, <1>22, <1>23, <1>24, <1>25 DEF Bridge

LEMMA AgentReplayKeeps ==
  ASSUME NEW h \in 0 .. MaxSeq, NEW E \in SUBSET (1 .. h), NEW b \in Nat, Bridge(h, E, b),
         JournalInv, Counts(h, E, log, stored), AgentReplay
  PROVE  Bridge(h, E, b)'
<1>1. PICK u, c, s, t : u = log /\ c = cursor /\ s = pipe /\ t = pipe'
  OBVIOUS
<1>2. agent.phase = "serving" /\ toAgent # << >> /\ Head(toAgent).type = "replay"
  BY DEF AgentReplay
<1>3. reading /\ h \in Nat
  BY <1>2, ServingIs
<1>4. /\ u \in Seq(Record) /\ Rising(u) /\ h = LastSeq(u)
      /\ \A e \in E : \E k \in 1 .. Len(u) : u[k].kind # "mark" /\ u[k].seq = e
  BY <1>1, EventsLogged DEF Counts
<1>5. /\ Len(toAgent) = 1 /\ Head(toAgent) = toAgent[1] /\ 1 \in 1 .. Len(toAgent)
      /\ Tail(toAgent) = << >>
  BY <1>2, AskedIs
<1>6. toAgent[1].type = "replay" /\ toAgent[1].seq = c /\ attempt = "await"
  BY <1>1, <1>2, <1>5 DEF Bridge, Talk
<1>7. c \in Nat /\ c <= h
  BY <1>1 DEF Bridge, SpineTypes, Consumed
<1>8. /\ flow.state = "replaying" /\ flow.history = {} /\ ~flow.boundary /\ ~flow.complete
      /\ flow.verified = c /\ replayed.is # "ok" /\ ready.is = "ok" /\ ready.seq <= h
      /\ \A i \in 1 .. Len(s) : s[i].type \notin {"replay", "boundary", "complete"}
  <2>1. flow.state = "replaying"
    BY <1>3, <1>6 DEF Bridge, Control
  <2>2. ready.is = "ok" /\ ready.seq <= h
    BY <2>1 DEF Bridge, Talk
  <2>3. /\ flow.history = {} /\ ~flow.boundary /\ ~flow.complete /\ flow.verified = c
        /\ replayed.is # "ok"
    BY <1>1, <1>2, <1>3, <1>6 DEF Bridge, Replaying
  <2>4. \A i \in 1 .. Len(s) : s[i].type \notin {"replay", "boundary", "complete"}
    BY <1>1, <1>2 DEF Bridge, Replaying
  <2> QED BY <2>1, <2>2, <2>3, <2>4
<1>9. PICK g, x, B, C, y : /\ g = ReadOn("replay", 0, c, u) /\ x = g.frames
                           /\ B = Frame("boundary", h, 0) /\ C = Frame("complete", h, 0)
                           /\ y = <<B, C>>
  OBVIOUS
<1>10. /\ t = s \o x \o y /\ toAgent' = << >>
       /\ UNCHANGED <<log, torn, agent, attempt, current, conn, connects, flow, cursor, seen,
                      reading, ready, replayed, failing>>
  <2>1. PICK last0 : last0 = IF LastSeq(log) > c THEN LastSeq(log) ELSE c
    OBVIOUS
  <2>2. last0 = h
    BY <1>1, <1>4, <1>7, <1>3, <2>1
  <2>3. Head(toAgent).seq = c
    BY <1>5, <1>6
  <2>4. pipe' = pipe \o ReadOn("replay", 0, c, log).frames
                     \o <<Frame("boundary", last0, 0), Frame("complete", last0, 0)>>
    BY <2>1, <2>3, Zenon DEF AgentReplay
  <2>5. t = s \o x \o y
    BY <1>1, <1>9, <2>2, <2>4, Zenon
  <2>6. toAgent' = << >>
    BY <1>5 DEF AgentReplay
  <2> QED BY <2>5, <2>6 DEF AgentReplay, journalVars, coreVars, threadVars, readerVars, dataVars
<1>11. Fetched(g, "replay", 0, c, u)
  <2>1. "replay" \in FrameTypes
    BY DEF FrameTypes
  <2>2. g = ReadOn("replay", 0, c, u)
    BY <1>9
  <2> QED BY <1>4, <1>7, <2>1, <2>2, ScanFetches, Zenon
<1>12. /\ x \in Seq(Frames0)
       /\ \A j \in 1 .. Len(x) : x[j] = Frame("replay", x[j].seq, x[j].seq)
                                 /\ c < x[j].seq /\ 0 < x[j].seq /\ x[j].seq <= h
       /\ \A i, j \in 1 .. Len(x) : i < j => x[i].seq < x[j].seq
  BY <1>4, <1>9, <1>11 DEF Fetched, Readings
<1>13. \A e \in E : c < e => \E j \in 1 .. Len(x) : x[j] = Frame("replay", e, e)
  <2> SUFFICES ASSUME NEW e \in E, c < e PROVE \E j \in 1 .. Len(x) : x[j] = Frame("replay", e, e)
    OBVIOUS
  <2>1. PICK k \in 1 .. Len(u) : u[k].kind # "mark" /\ u[k].seq = e
    BY <1>4
  <2>2. 0 < e
    BY <1>3
  <2> HIDE DEF Frame
  <2> QED BY <1>9, <1>11, <2>1, <2>2 DEF Fetched
<1>14. s \in Seq(Frames0)
  BY <1>1 DEF Bridge, SpineTypes
<1>15. /\ B \in Frames0 /\ B.type = "boundary" /\ B.seq = h
       /\ C \in Frames0 /\ C.type = "complete" /\ C.seq = h
  BY <1>3, <1>9, JournalAssumption DEF Frame, Frames0, FrameTypes
<1>16. y \in Seq(Frames0) /\ Len(y) = 2 /\ y[1] = B /\ y[2] = C
  <2> HIDE DEF Frames0
  <2> QED BY <1>9, <1>15
<1>17. PICK n, m, w : t \in Seq(Frames0) /\ Joins(w, s, x, n) /\ Joins(t, w, y, m)
  <2>1. PICK w : w = s \o x
    OBVIOUS
  <2>2. t = w \o y
    BY <1>10, <2>1
  <2>3. w \in Seq(Frames0) /\ \E n : Joins(w, s, x, n)
    <3> HIDE DEF Frames0
    <3> QED BY <1>12, <1>14, <2>1, JoinedIs
  <2>4. t \in Seq(Frames0) /\ \E m : Joins(t, w, y, m)
    <3> HIDE DEF Frames0
    <3> QED BY <1>16, <2>2, <2>3, JoinedIs
  <2> QED BY <2>3, <2>4
<1>18. n \in Nat /\ m \in Nat /\ m = Len(w)
  BY <1>17 DEF Joins
<1>19. ASSUME NEW i \in 1 .. Len(t)
       PROVE  \/ i \in 1 .. Len(s) /\ t[i] = s[i] /\ i <= m
              \/ \E j \in 1 .. Len(x) : j \in Nat /\ i = n + j /\ t[i] = x[j] /\ i <= m
              \/ i = m + 1 /\ t[i] = B
              \/ i = m + 2 /\ t[i] = C
  <2>1. \/ i \in 1 .. Len(w) /\ t[i] = w[i] /\ i <= m
        \/ \E j \in 1 .. 2 : i = m + j /\ t[i] = y[j]
    BY <1>16, <1>17 DEF Joins
  <2>2. i \in 1 .. Len(w) => \/ i \in 1 .. Len(s) /\ w[i] = s[i]
                             \/ \E j \in 1 .. Len(x) : j \in Nat /\ i = n + j /\ w[i] = x[j]
    BY <1>17 DEF Joins
  <2>3. CASE i \in 1 .. Len(w) /\ t[i] = w[i] /\ i <= m
    BY <2>2, <2>3
  <2>4. ASSUME NEW j \in 1 .. 2, i = m + j, t[i] = y[j]
        PROVE  (i = m + 1 /\ t[i] = B) \/ (i = m + 2 /\ t[i] = C)
    <3>1. j = 1 \/ j = 2
      OBVIOUS
    <3> QED BY <1>16, <2>4, <3>1
  <2> QED BY <2>1, <2>3, <2>4
<1>20. /\ \A i \in 1 .. Len(s) : i \in 1 .. Len(t) /\ t[i] = s[i]
       /\ \A j \in 1 .. Len(x) : n + j \in 1 .. Len(t) /\ t[n + j] = x[j] /\ j \in Nat
       /\ m + 1 \in 1 .. Len(t) /\ t[m + 1] = B
       /\ m + 2 \in 1 .. Len(t) /\ t[m + 2] = C
  <2>1. \A i \in 1 .. Len(w) : i \in 1 .. Len(t) /\ t[i] = w[i]
    BY <1>17 DEF Joins
  <2>2. \A i \in 1 .. Len(s) : i \in 1 .. Len(w) /\ w[i] = s[i]
    BY <1>17 DEF Joins
  <2>3. \A j \in 1 .. Len(x) : n + j \in 1 .. Len(w) /\ w[n + j] = x[j] /\ j \in Nat
    BY <1>17 DEF Joins
  <2>4. \A j \in 1 .. 2 : m + j \in 1 .. Len(t) /\ t[m + j] = y[j]
    BY <1>16, <1>17 DEF Joins
  <2> QED BY <1>16, <2>1, <2>2, <2>3, <2>4
<1>21. \A j \in 1 .. Len(x) : x[j].type = "replay" /\ x[j].seq \in Nat
  <2>1. \A j \in 1 .. Len(x) : x[j] \in Frames0
    BY <1>12
  <2>2. ASSUME NEW j \in 1 .. Len(x) PROVE x[j].type = "replay"
    <3>1. PICK q : x[j] = Frame("replay", q, q)
      BY <1>12
    <3> QED BY <3>1 DEF Frame
  <2> QED BY <2>1, <2>2 DEF Frames0
<1>22. ASSUME NEW i \in 1 .. Len(t)
       PROVE  /\ t[i].type = "ready" => i \in 1 .. Len(s) /\ t[i] = s[i]
              /\ t[i].type = "live" => i \in 1 .. Len(s) /\ t[i] = s[i]
              /\ t[i].type = "replay" => \E j \in 1 .. Len(x) : i = n + j /\ t[i] = x[j] /\ i <= m
              /\ t[i].type = "boundary" => i = m + 1 /\ t[i] = B
              /\ t[i].type = "complete" => i = m + 2 /\ t[i] = C
              /\ i <= m + 2
  <2>1. CASE i \in 1 .. Len(s) /\ t[i] = s[i] /\ i <= m
    BY <1>8, <1>18, <2>1
  <2>2. ASSUME NEW j \in 1 .. Len(x), j \in Nat, i = n + j, t[i] = x[j], i <= m
        PROVE  t[i].type = "replay" /\ i <= m + 2
    BY <1>18, <1>21, <2>2
  <2>3. CASE i = m + 1 /\ t[i] = B
    BY <1>15, <1>18, <2>3
  <2>4. CASE i = m + 2 /\ t[i] = C
    BY <1>15, <1>18, <2>4
  <2> QED BY <1>19, <2>1, <2>2, <2>3, <2>4
<1>23. toAgent' \in Seq(Frames0) /\ Len(toAgent') = 0
  BY <1>10, EmptyIs
<1>24. SpineTypes'
  BY <1>1, <1>10, <1>17, <1>23 DEF Bridge, SpineTypes
<1>25. Control'
  BY <1>2, <1>3, <1>10 DEF Bridge, Control
<1>26. Synced(h)'
  BY <1>10 DEF Bridge, Synced
<1>27. Talk(h)'
  <2>1. ASSUME NEW i \in 1 .. Len(t), t[i].type = "ready" PROVE FALSE
    BY <1>1, <1>6, <1>22, <2>1 DEF Bridge, Talk
  <2> QED BY <1>1, <1>10, <1>23, <2>1 DEF Bridge, Talk
<1>28. Sane(h)'
  <2>1. ASSUME NEW i \in 1 .. Len(t)
        PROVE  /\ t[i].type \in {"ready", "live", "replay", "boundary", "complete"}
               /\ t[i].seq <= h
               /\ t[i].type \in {"live", "replay"} =>
                    t[i] = Frame(t[i].type, t[i].seq, t[i].seq) /\ t[i].seq > 0
    <3>1. CASE i \in 1 .. Len(s) /\ t[i] = s[i]
      BY <1>1, <3>1 DEF Bridge, Sane
    <3>2. ASSUME NEW j \in 1 .. Len(x), t[i] = x[j]
          PROVE  /\ t[i].type = "replay" /\ t[i].seq <= h
                 /\ t[i] = Frame(t[i].type, t[i].seq, t[i].seq) /\ t[i].seq > 0
      BY <1>12, <1>21, <3>2
    <3>3. CASE t[i] = B \/ t[i] = C
      BY <1>3, <1>15, <3>3
    <3> HIDE DEF Frame
    <3> QED BY <1>19, <3>1, <3>2, <3>3
  <2>2. t = pipe' /\ UNCHANGED <<flow, cursor>>
    BY <1>1, <1>10
  <2> HIDE DEF Frame
  <2> QED BY <2>1, <2>2 DEF Bridge, Sane
<1>29. Replaying(h, E)'
  <2>1. ASSUME NEW i \in 1 .. Len(t), t[i].type = "replay"
        PROVE  /\ c < t[i].seq
               /\ \A j \in 1 .. Len(t) : t[j].type = "replay" /\ i < j => t[i].seq < t[j].seq
    <3>1. PICK k \in 1 .. Len(x) : i = n + k /\ t[i] = x[k]
      BY <1>22, <2>1
    <3>2. ASSUME NEW j \in 1 .. Len(t), t[j].type = "replay", i < j PROVE t[i].seq < t[j].seq
      <4>1. PICK l \in 1 .. Len(x) : j = n + l /\ t[j] = x[l]
        BY <1>22, <3>2
      <4>2. k < l
        BY <1>18, <1>20, <3>1, <3>2, <4>1
      <4> QED BY <1>12, <3>1, <4>1, <4>2
    <3> QED BY <1>12, <3>1, <3>2
  <2>2. ASSUME NEW i \in 1 .. Len(t), t[i].type = "boundary"
        PROVE  /\ c <= t[i].seq /\ ready.seq <= t[i].seq
               /\ \A j \in 1 .. Len(t) :
                    /\ t[j].type = "replay" => j < i /\ t[j].seq <= t[i].seq
                    /\ t[j].type = "boundary" => i = j
               /\ \A e \in E : cursor < e /\ e <= t[i].seq =>
                    \/ Frame("replay", e, e) \in flow.history
                    \/ \E j \in 1 .. Len(t) : t[j] = Frame("replay", e, e)
    <3>1. i = m + 1 /\ t[i].seq = h
      BY <1>15, <1>22, <2>2
    <3>2. ASSUME NEW j \in 1 .. Len(t)
          PROVE  /\ t[j].type = "replay" => j < i /\ t[j].seq <= t[i].seq
                 /\ t[j].type = "boundary" => i = j
      <4>1. t[j].type = "boundary" => i = j
        BY <1>22, <3>1
      <4>2. ASSUME t[j].type = "replay" PROVE j < i /\ t[j].seq <= t[i].seq
        <5>1. PICK k \in 1 .. Len(x) : t[j] = x[k] /\ j = n + k /\ j <= m
          BY <1>22, <4>2
        <5>2. j < i
          BY <1>18, <1>20, <3>1, <5>1
        <5> QED BY <1>12, <3>1, <5>1, <5>2
      <4> QED BY <4>1, <4>2
    <3>3. ASSUME NEW e \in E, cursor < e PROVE \E j \in 1 .. Len(t) : t[j] = Frame("replay", e, e)
      <4>1. PICK j \in 1 .. Len(x) : x[j] = Frame("replay", e, e)
        BY <1>1, <1>13, <3>3
      <4> QED BY <1>20, <4>1
    <3> HIDE DEF Frame
    <3> QED BY <1>7, <1>8, <3>1, <3>2, <3>3
  <2>3. ASSUME NEW i \in 1 .. Len(t), t[i].type = "complete"
        PROVE  /\ \A j \in 1 .. Len(t) : j <= i
               /\ \E j \in 1 .. Len(t) : j < i /\ t[j].type = "boundary" /\ t[j].seq = t[i].seq
    <3>1. i = m + 2 /\ t[i].seq = h
      BY <1>15, <1>22, <2>3
    <3>2. m + 1 \in 1 .. Len(t) /\ m + 1 < i /\ t[m + 1].type = "boundary" /\ t[m + 1].seq = h
      BY <1>15, <1>18, <1>20, <3>1
    <3> QED BY <1>22, <3>1, <3>2
  <2>4. t = pipe' /\ UNCHANGED <<attempt, flow, cursor, reading, ready, replayed>>
    BY <1>1, <1>10
  <2>5. flow.verified = c /\ c = cursor /\ c <= c
    BY <1>1, <1>7, <1>8
  <2> HIDE DEF Frame
  <2> QED BY <1>6, <1>7, <1>8, <1>10, <2>1, <2>2, <2>3, <2>4, <2>5 DEF Replaying
<1>30. Tailed(b, E)'
  <2>1. \A e : Came(e)' <=> Came(e)
    BY <1>10 DEF Came
  <2>2. Tailed(b, E)
    BY DEF Bridge
  <2>3. \A i \in 1 .. Len(s) : i \in 1 .. Len(t) /\ t[i] = s[i]
    BY <1>20
  <2>4. ASSUME NEW k \in 1 .. Len(t), NEW e \in E, t[k].type = "live", b < e, e < t[k].seq
        PROVE  Came(e) \/ \E j \in 1 .. Len(t) : j < k /\ t[j] = Frame("live", e, e)
    <3>1. k \in 1 .. Len(s) /\ t[k] = s[k]
      BY <1>22, <2>4
    <3>2. Came(e) \/ \E j \in 1 .. Len(s) : j < k /\ s[j] = Frame("live", e, e)
      BY <1>1, <2>2, <2>4, <3>1 DEF Tailed
    <3> HIDE DEF Came, Frame
    <3> QED BY <2>3, <3>2
  <2>5. ASSUME NEW e \in E, b < e, e <= agent.last
        PROVE  Came(e) \/ \E j \in 1 .. Len(t) : t[j] = Frame("live", e, e)
    <3>1. Came(e) \/ \E j \in 1 .. Len(s) : s[j] = Frame("live", e, e)
      BY <1>1, <1>2, <2>2, <2>5 DEF Tailed
    <3> HIDE DEF Came, Frame
    <3> QED BY <2>3, <3>1
  <2>6. \A i \in 1 .. Len(t) : t[i].type = "ready" => b <= t[i].seq
    BY <1>1, <1>22, <2>2 DEF Tailed
  <2>7. t = pipe' /\ UNCHANGED <<agent, flow, cursor, ready>>
    BY <1>1, <1>10
  <2> HIDE DEF Came, Frame
  <2> QED BY <2>1, <2>2, <2>4, <2>5, <2>6, <2>7 DEF Tailed
<1>31. Consumed(h, E)'
  BY <1>10 DEF Bridge, Consumed
<1> QED BY <1>24, <1>25, <1>26, <1>27, <1>28, <1>29, <1>30, <1>31 DEF Bridge

\* What had not reached the pipe is gone with the process.
LEMMA KilledKeeps ==
  ASSUME NEW h, NEW E, NEW b, Bridge(h, E, b), agent.phase \notin {"none", "dead"}, Killed
  PROVE  Bridge(h, E, b)'
<1>1. PICK s, t : s = pipe /\ t = pipe'
  OBVIOUS
<1>2. /\ agent' = [NoAgent EXCEPT !.phase = "dead"] /\ toAgent' = << >> /\ t \in Prefixes(s)
      /\ UNCHANGED <<attempt, current, conn, connects, flow, cursor, seen, reading, ready, replayed,
                     failing>>
  BY <1>1 DEF Killed, coreVars, threadVars, readerVars, dataVars
<1>3. s \in Seq(Frames0)
  BY <1>1 DEF Bridge, SpineTypes
<1>4. PICK p \in 0 .. Len(s) : t = SubSeq(s, 1, p)
  BY <1>2 DEF Prefixes
<1>5. t \in Seq(Frames0) /\ Len(t) = p /\ \A i \in 1 .. p : t[i] = s[i] /\ i \in 1 .. Len(s)
  <2> HIDE DEF Frames0
  <2> QED BY <1>3, <1>4, PrefixIs
<1>6. /\ \A i \in 1 .. Len(t) : i \in 1 .. Len(s) /\ t[i] = s[i]
      /\ \A j \in 1 .. Len(s), i \in 1 .. Len(t) : j < i => j \in 1 .. Len(t) /\ t[j] = s[j]
  <2>1. \A j \in 1 .. Len(s), i \in 1 .. p : j < i => j \in 1 .. p
    <3>1. Len(s) \in Nat
      BY <1>3
    <3> QED BY <3>1
  <2> QED BY <1>5, <2>1
<1>7. /\ agent' \in Agents /\ agent'.phase = "dead" /\ toAgent' \in Seq(Frames0) /\ Len(toAgent') = 0
  BY <1>2, NoAgentIs, EmptyIs
<1>8. reading
  BY DEF Bridge, SpineTypes, Control
<1>9. SpineTypes'
  BY <1>1, <1>2, <1>5, <1>7 DEF Bridge, SpineTypes
<1>10. Control'
  BY <1>2, <1>7, <1>8 DEF Bridge, Control
<1>11. Synced(h)'
  BY <1>7 DEF Synced
<1>12. Talk(h)'
  BY <1>1, <1>2, <1>6, <1>7 DEF Bridge, Talk
<1>13. Sane(h)'
  <2>1. t = pipe' /\ UNCHANGED <<flow, cursor>>
    BY <1>1, <1>2
  <2> HIDE DEF Frame
  <2> QED BY <1>1, <1>6, <2>1 DEF Bridge, Sane
<1>14. Replaying(h, E)'
  <2>1. ASSUME NEW i \in 1 .. Len(t), t[i].type = "boundary"
        PROVE  /\ ~flow.boundary /\ flow.verified <= t[i].seq /\ ready.seq <= t[i].seq
               /\ \A j \in 1 .. Len(t) :
                    /\ t[j].type = "replay" => j < i /\ t[j].seq <= t[i].seq
                    /\ t[j].type = "boundary" => i = j
               /\ \A e \in E : cursor < e /\ e <= t[i].seq =>
                    \/ Frame("replay", e, e) \in flow.history
                    \/ \E j \in 1 .. Len(t) : t[j] = Frame("replay", e, e)
    <3>1. i \in 1 .. Len(s) /\ t[i] = s[i]
      BY <1>6
    <3>2. /\ ~flow.boundary /\ flow.verified <= t[i].seq /\ ready.seq <= t[i].seq
          /\ \A j \in 1 .. Len(s) :
               /\ s[j].type = "replay" => j < i /\ s[j].seq <= t[i].seq
               /\ s[j].type = "boundary" => i = j
          /\ \A e \in E : cursor < e /\ e <= t[i].seq =>
               \/ Frame("replay", e, e) \in flow.history
               \/ \E j \in 1 .. Len(s) : s[j] = Frame("replay", e, e)
      BY <1>1, <2>1, <3>1 DEF Bridge, Replaying
    <3>3. ASSUME NEW e, NEW j \in 1 .. Len(s), s[j] = Frame("replay", e, e)
          PROVE  j \in 1 .. Len(t) /\ t[j] = Frame("replay", e, e)
      <4>1. s[j].type = "replay"
        BY <3>3 DEF Frame
      <4>2. j < i
        BY <3>2, <4>1
      <4> HIDE DEF Frame
      <4> QED BY <1>6, <3>3, <4>2
    <3> HIDE DEF Frame
    <3> QED BY <1>6, <3>2, <3>3
  <2>2. ASSUME NEW i \in 1 .. Len(t), t[i].type = "complete"
        PROVE  /\ \A j \in 1 .. Len(t) : t[j].type \in {"replay", "boundary", "complete"} => j <= i
               /\ flow.boundary => flow.verified = t[i].seq
               /\ ~flow.boundary => \E j \in 1 .. Len(t) :
                                      j < i /\ t[j].type = "boundary" /\ t[j].seq = t[i].seq
    <3>1. i \in 1 .. Len(s) /\ t[i] = s[i]
      BY <1>6
    <3>2. /\ \A j \in 1 .. Len(s) : s[j].type \in {"replay", "boundary", "complete"} => j <= i
          /\ flow.boundary => flow.verified = t[i].seq
          /\ ~flow.boundary => \E j \in 1 .. Len(s) :
                                 j < i /\ s[j].type = "boundary" /\ s[j].seq = t[i].seq
      BY <1>1, <2>2, <3>1 DEF Bridge, Replaying
    <3> QED BY <1>6, <3>2
  <2>3. ASSUME NEW i \in 1 .. Len(t), t[i].type = "replay"
        PROVE  /\ ~flow.boundary /\ flow.verified < t[i].seq
               /\ \A j \in 1 .. Len(t) : t[j].type = "replay" /\ i < j => t[i].seq < t[j].seq
    <3>1. i \in 1 .. Len(s) /\ t[i] = s[i] /\ s[i].type = "replay"
      BY <1>6, <2>3
    <3>2. /\ ~flow.boundary /\ flow.verified < s[i].seq
          /\ \A j \in 1 .. Len(s) : s[j].type = "replay" /\ i < j => s[i].seq < s[j].seq
      BY <1>1, <3>1 DEF Bridge, Replaying
    <3> QED BY <1>6, <3>1, <3>2
  <2>4. \A i \in 1 .. Len(t) : t[i].type \in {"replay", "boundary", "complete"} =>
           attempt = "await" /\ ~flow.complete /\ replayed.is # "ok"
    BY <1>1, <1>6 DEF Bridge, Replaying
  <2>5. /\ flow.state = "replaying" => cursor <= flow.verified /\ flow.verified <= h
        /\ flow.state # "replaying" => flow.history = {} /\ ~flow.boundary /\ ~flow.complete
        /\ reading /\ attempt = "begun" =>
             flow.history = {} /\ ~flow.boundary /\ flow.verified = cursor /\ replayed.is # "ok"
        /\ flow.boundary => /\ ready.seq <= flow.verified
                            /\ \A e \in E : cursor < e /\ e <= flow.verified =>
                                 Frame("replay", e, e) \in flow.history
        /\ flow.complete => flow.boundary
        /\ replayed.is = "ok" /\ flow.state = "replaying" => flow.complete
    BY DEF Bridge, Replaying
  <2>6. t = pipe' /\ toAgent' = << >> /\ UNCHANGED <<attempt, flow, cursor, reading, ready, replayed>>
    BY <1>1, <1>2
  <2> HIDE DEF Frame
  <2> QED BY <2>1, <2>2, <2>3, <2>4, <2>5, <2>6 DEF Replaying
<1>15. Tailed(b, E)'
  <2>1. \A e : Came(e)' <=> Came(e)
    BY <1>2 DEF Came
  <2>2. Tailed(b, E)
    BY DEF Bridge
  <2>3. ASSUME NEW k \in 1 .. Len(t), NEW e \in E, t[k].type = "live", b < e, e < t[k].seq
        PROVE  Came(e) \/ \E j \in 1 .. Len(t) : j < k /\ t[j] = Frame("live", e, e)
    <3>1. k \in 1 .. Len(s) /\ t[k] = s[k]
      BY <1>6
    <3>2. Came(e) \/ \E j \in 1 .. Len(s) : j < k /\ s[j] = Frame("live", e, e)
      BY <1>1, <2>2, <2>3, <3>1 DEF Tailed
    <3> HIDE DEF Came, Frame
    <3> QED BY <1>6, <3>2
  <2>4. \A i \in 1 .. Len(t) : t[i].type = "ready" => b <= t[i].seq
    BY <1>1, <1>6, <2>2 DEF Tailed
  <2>5. t = pipe' /\ UNCHANGED <<flow, ready>> /\ agent'.phase = "dead"
    BY <1>1, <1>2, <1>7
  <2> HIDE DEF Came, Frame
  <2> QED BY <2>1, <2>2, <2>3, <2>4, <2>5 DEF Tailed
<1>16. Consumed(h, E)'
  BY <1>2 DEF Bridge, Consumed
<1> QED BY <1>9, <1>10, <1>11, <1>12, <1>13, <1>14, <1>15, <1>16 DEF Bridge

-----------------------------------------------------------------------------
(* The journal grows, is repaired and is compacted under the bridge.       *)

LEMMA RangeIs ==
  ASSUME NEW s, NEW t, NEW hd, NEW all, Coherent(s, t, hd, all), NEW h, NEW E, Counts(h, E, s, all)
  PROVE  h \in 0 .. MaxSeq /\ E \in SUBSET (1 .. h)
<1>1. s \in Seq(Record) /\ Rising(s) /\ h = LastSeq(s)
  BY DEF Coherent, Orderly, Counts
<1>2. h \in 0 .. MaxSeq
  BY <1>1, LastIs
<1>3. ASSUME NEW e \in E PROVE e \in 1 .. h
  <2>1. PICK r \in all : r.seq = e
    BY DEF Counts, EventNumbers
  <2>2. r \in Record
    BY DEF Coherent
  <2>3. e \in 1 .. MaxSeq
    BY <2>1, <2>2 DEF Record
  <2>4. e <= h
    BY <1>1, <2>1 DEF Coherent
  <2> QED BY <1>2, <2>3, <2>4, JournalAssumption
<1> QED BY <1>2, <1>3

LEMMA AppendsPosition ==
  ASSUME NEW s \in Seq(Record), NEW r \in Record, NEW u, u = Append(s, r),
         NEW o, NEW n, Positioned(o, n, s)
  PROVE  Positioned(o, n, u)
<1>1. PICK p \in 0 .. Len(s) : o = Bytes(SubSeq(s, 1, p)) /\ n = LastSeq(SubSeq(s, 1, p))
  BY DEF Positioned
<1>2. u \in Seq(Record) /\ Len(u) = Len(s) + 1 /\ \A i \in 1 .. Len(s) : u[i] = s[i]
  BY AppendProperties
<1>3. p \in 0 .. Len(u)
  <2>1. Len(s) \in Nat
    OBVIOUS
  <2> QED BY <1>2, <2>1
<1>4. PICK v, w : v = SubSeq(s, 1, p) /\ w = SubSeq(u, 1, p)
  OBVIOUS
<1>5. v \in Seq(Record) /\ Len(v) = p /\ \A i \in 1 .. p : v[i] = s[i] /\ i \in 1 .. Len(s)
  BY <1>4, PrefixIs
<1>6. w \in Seq(Record) /\ Len(w) = p /\ \A i \in 1 .. p : w[i] = u[i]
  BY <1>2, <1>3, <1>4, PrefixIs
<1>7. v = w
  <2>1. \A i \in 1 .. Len(v) : v[i] = w[i]
    BY <1>2, <1>5, <1>6
  <2>2. Len(v) = Len(w)
    BY <1>5, <1>6
  <2> QED BY <1>5, <1>6, <2>1, <2>2, SeqEqual
<1> QED BY <1>1, <1>3, <1>4, <1>7 DEF Positioned

\* What is new in the journal has higher numbers.
Wider(h, E, k, F) ==
  /\ k \in 0 .. MaxSeq /\ F \in SUBSET (1 .. k)
  /\ h <= k /\ E \subseteq F
  /\ \A e \in F : e \in E \/ h < e

LEMMA Widens ==
  ASSUME NEW h \in 0 .. MaxSeq, NEW E \in SUBSET (1 .. h), NEW b \in Nat, Bridge(h, E, b),
         NEW k, NEW F, Wider(h, E, k, F)
  PROVE  /\ Talk(k) /\ Sane(k) /\ Replaying(k, F) /\ Tailed(b, F) /\ Consumed(k, F)
<1>1. h \in Nat /\ k \in Nat /\ h <= k /\ E \subseteq F /\ \A e \in F : e \in Nat /\ (e \in E \/ h < e)
  BY JournalAssumption DEF Wider
<1>2. \A e \in F, n \in Nat : n <= h /\ e <= n => e \in E
  BY <1>1
<1>3. pipe \in Seq(Frames0) /\ flow \in Flows /\ ready \in Answers /\ cursor \in Nat
  BY DEF Bridge, SpineTypes
<1>4. \A i \in 1 .. Len(pipe) : pipe[i].seq \in Nat /\ pipe[i].seq <= h
  <2>1. \A i \in 1 .. Len(pipe) : pipe[i] \in Frames0
    BY <1>3
  <2> QED BY <2>1 DEF Frames0, Bridge, Sane
<1>5. \A f \in flow.live : f.seq \in Nat /\ f.seq <= h
  BY <1>3 DEF Flows, Frames0, Bridge, Sane
<1>6. flow.verified \in Nat /\ (flow.state = "replaying" => flow.verified <= h)
  BY <1>3 DEF Flows, Bridge, Replaying
<1>7. Talk(k)
  <2>1. ready.is = "ok" => ready.seq <= k
    BY <1>1, <1>3 DEF Answers, Bridge, Talk
  <2> QED BY <2>1 DEF Bridge, Talk
<1>8. Sane(k)
  <2>1. \A i \in 1 .. Len(pipe) : pipe[i].seq <= k
    BY <1>1, <1>4
  <2>2. \A f \in flow.live : f.seq <= k
    BY <1>1, <1>5
  <2> QED BY <2>1, <2>2 DEF Bridge, Sane
<1>9. Replaying(k, F)
  <2>1. flow.state = "replaying" => cursor <= flow.verified /\ flow.verified <= k
    BY <1>1, <1>6 DEF Bridge, Replaying
  <2>2. ASSUME NEW i \in 1 .. Len(pipe), pipe[i].type = "boundary", NEW e \in F,
               cursor < e, e <= pipe[i].seq
        PROVE  \/ Frame("replay", e, e) \in flow.history
               \/ \E j \in 1 .. Len(pipe) : pipe[j] = Frame("replay", e, e)
    <3>1. e \in E
      BY <1>2, <1>4, <2>2
    <3> QED BY <2>2, <3>1 DEF Bridge, Replaying
  <2>3. ASSUME flow.boundary, NEW e \in F, cursor < e, e <= flow.verified
        PROVE  Frame("replay", e, e) \in flow.history
    <3>1. flow.state = "replaying"
      BY <2>3 DEF Bridge, Replaying
    <3>2. e \in E
      BY <1>2, <1>6, <2>3, <3>1
    <3> QED BY <2>3, <3>2 DEF Bridge, Replaying
  <2>4. Replaying(h, E)
    BY DEF Bridge
  <2> HIDE DEF Frame
  <2> QED BY <2>1, <2>2, <2>3, <2>4 DEF Replaying
<1>10. Tailed(b, F)
  <2>1. ASSUME NEW f \in flow.live, NEW e \in F, b < e, e < f.seq PROVE Frame("live", e, e) \in flow.live
    <3>1. e \in E
      BY <1>1, <1>2, <1>5, <2>1
    <3> QED BY <2>1, <3>1 DEF Bridge, Tailed
  <2>2. ASSUME NEW i \in 1 .. Len(pipe), pipe[i].type = "live", NEW e \in F, b < e, e < pipe[i].seq
        PROVE  Came(e) \/ \E j \in 1 .. Len(pipe) : j < i /\ pipe[j] = Frame("live", e, e)
    <3>1. e \in E
      BY <1>1, <1>2, <1>4, <2>2
    <3> HIDE DEF Came, Frame
    <3> QED BY <2>2, <3>1 DEF Bridge, Tailed
  <2>3. ASSUME agent.phase = "serving", NEW e \in F, b < e, e <= agent.last
        PROVE  Came(e) \/ \E j \in 1 .. Len(pipe) : pipe[j] = Frame("live", e, e)
    <3>1. agent.last \in Nat /\ agent.last <= h
      BY <2>3, ServingIs
    <3>2. e \in E
      BY <1>2, <2>3, <3>1
    <3> HIDE DEF Came, Frame
    <3> QED BY <2>3, <3>2 DEF Bridge, Tailed
  <2>4. Tailed(b, E)
    BY DEF Bridge
  <2> HIDE DEF Came, Frame
  <2> QED BY <2>1, <2>2, <2>3, <2>4 DEF Tailed
<1>11. Consumed(k, F)
  <2>1. cursor <= h /\ cursor <= k
    BY <1>1, <1>3 DEF Bridge, Consumed
  <2>2. \A e \in F : e <= cursor => seen[e] = 1
    BY <1>2, <1>3, <2>1 DEF Bridge, Consumed
  <2> QED BY <2>1, <2>2 DEF Bridge, Consumed
<1> QED BY <1>7, <1>8, <1>9, <1>10, <1>11

\* The journal has grown and the agent knows at most its own line of it.
LEMMA GrowthKeeps ==
  ASSUME NEW h \in 0 .. MaxSeq, NEW E \in SUBSET (1 .. h), NEW b \in Nat, Bridge(h, E, b),
         NEW k, NEW F, Wider(h, E, k, F),
         UNCHANGED <<toAgent, pipe, attempt, current, conn, connects, flow, cursor, seen, reading,
                     ready, replayed, failing>>,
         agent' = agent \/ (agent.phase = "serving" /\ agent' = [agent EXCEPT !.head = k]),
         agent.phase \notin {"opened", "compacted", "sized"},
         agent.phase = "serving" => Positioned(agent.offset, agent.last, log')
  PROVE  Bridge(k, F, b)'
<1>1. Talk(k) /\ Sane(k) /\ Replaying(k, F) /\ Tailed(b, F) /\ Consumed(k, F)
  BY Widens
<1>2. h \in Nat /\ k \in 0 .. MaxSeq /\ k \in Nat /\ h <= k
  BY JournalAssumption DEF Wider
<1>3. /\ agent' \in Agents /\ agent'.phase = agent.phase /\ agent'.last = agent.last
      /\ agent'.offset = agent.offset
      /\ agent.phase = "serving" => b <= agent'.head /\ agent'.head <= k /\ agent.last <= k
  <2>1. agent \in Agents
    BY DEF Bridge, SpineTypes
  <2>2. ASSUME agent.phase = "serving"
        PROVE  /\ agent.head \in Nat /\ agent.last \in Nat /\ b <= agent.head /\ agent.head <= k
               /\ agent.last <= k /\ b <= k
    BY <1>2, <2>2, ServingIs
  <2>3. CASE agent' = agent
    BY <2>1, <2>2, <2>3
  <2>4. CASE agent.phase = "serving" /\ agent' = [agent EXCEPT !.head = k]
    <3>1. /\ agent' \in Agents /\ agent'.phase = agent.phase /\ agent'.last = agent.last
          /\ agent'.offset = agent.offset /\ agent'.head = k
      BY <1>2, <2>1, <2>4 DEF Agents
    <3> QED BY <1>2, <2>2, <2>4, <3>1
  <2> QED BY <2>3, <2>4
<1>4. SpineTypes'
  BY <1>3 DEF Bridge, SpineTypes
<1>5. Control'
  BY <1>3 DEF Bridge, Control
<1>6. Synced(k)'
  BY <1>3 DEF Synced
<1>7. Talk(k)' /\ Sane(k)'
  BY <1>1 DEF Talk, Sane
<1>8. Replaying(k, F)'
  BY <1>1 DEF Replaying
<1>9. Tailed(b, F)'
  <2>1. \A e : Came(e)' <=> Came(e)
    BY DEF Came
  <2> HIDE DEF Came, Frame
  <2> QED BY <1>1, <1>3, <2>1 DEF Tailed
<1>10. Consumed(k, F)'
  BY <1>1 DEF Consumed
<1> QED BY <1>4, <1>5, <1>6, <1>7, <1>8, <1>9, <1>10 DEF Bridge

\* A line more: the number after the last, and at most that one event is new.
LEMMA WriteWidens ==
  ASSUME JournalInv, NEW h, NEW E, Counts(h, E, log, stored),
         NEW kind \in Kinds, NEW id \in Identities \cup {NoId}, Write(kind, id)
  PROVE  \E k, F : /\ Wider(h, E, k, F) /\ Counts(k, F, log', stored') /\ k = Line(kind, id).seq
                   /\ \A o, n : Positioned(o, n, log) => Positioned(o, n, log')
<1>1. PICK s, u, all, more, g, f, r :
        /\ s = log /\ u = log' /\ all = stored /\ more = stored'
        /\ g = Scanned(log) /\ f = Scanned(log') /\ r = Line(kind, id)
  OBVIOUS
<1>2. Coherent(u, FALSE, f, more) /\ f = Advanced(g, r) /\ r.seq = g.seq + 1
  BY <1>1, WriteKeepsInv
<1>3. Coherent(s, torn, head, all) /\ s \in Seq(Record)
  BY <1>1 DEF JournalInv, Coherent
<1>4. h \in 0 .. MaxSeq /\ E \in SUBSET (1 .. h) /\ h = g.seq /\ h \in Nat
  <2>1. h \in 0 .. MaxSeq /\ E \in SUBSET (1 .. h)
    BY <1>1, <1>3, RangeIs
  <2>2. h = g.seq
    BY <1>1 DEF Counts, LastSeq
  <2> QED BY <2>1, <2>2, JournalAssumption
<1>5. u = Append(s, r) /\ more = all \cup {r} /\ g.seq < MaxSeq
  <2>1. Authoritative = g
    BY <1>1, AuthoritativeIs
  <2> QED BY <1>1, <2>1 DEF Write
<1>6. r \in Record
  <2>1. Line(kind, id) = [seq |-> Authoritative.seq + 1, kind |-> kind, id |-> id, size |-> 2]
    BY DEF Line
  <2>2. r = [seq |-> h + 1, kind |-> kind, id |-> id, size |-> 2]
    BY <1>1, <1>4, <2>1, AuthoritativeIs
  <2>3. h + 1 \in 1 .. MaxSeq
    BY <1>4, <1>5, JournalAssumption
  <2> QED BY <2>2, <2>3 DEF Record
<1>7. PICK k, F : k = LastSeq(u) /\ F = EventNumbers(more)
  OBVIOUS
<1>8. k = h + 1
  <2>1. f.seq = Numbered(g.seq, r)
    BY <1>2 DEF Advanced
  <2>2. Numbered(g.seq, r) = h + 1
    BY <1>2, <1>4 DEF Numbered
  <2> QED BY <1>1, <1>7, <2>1, <2>2 DEF LastSeq
<1>9. Counts(k, F, u, more)
  BY <1>7 DEF Counts
<1>10. k \in 0 .. MaxSeq /\ F \in SUBSET (1 .. k)
  BY <1>2, <1>9, RangeIs
<1>11. E \subseteq F /\ \A e \in F : e \in E \/ e = h + 1
  <2>1. E = EventNumbers(all) /\ r.seq = h + 1
    BY <1>1, <1>2, <1>4 DEF Counts
  <2> QED BY <1>5, <1>7, <2>1 DEF EventNumbers
<1>12. Wider(h, E, k, F)
  BY <1>4, <1>8, <1>10, <1>11 DEF Wider
<1>13. \A o, n : Positioned(o, n, s) => Positioned(o, n, u)
  BY <1>3, <1>5, <1>6, AppendsPosition
<1>14. k = r.seq
  BY <1>2, <1>4, <1>8
<1> QED BY <1>1, <1>9, <1>12, <1>13, <1>14

\* The bridge stands to the journal as it must, for the b of this connection.
Bridged(b) == \E k, F : Counts(k, F, log, stored) /\ Bridge(k, F, b)

LEMMA HookKeeps ==
  ASSUME SeedRace = FALSE, JournalInv, Hook,
         NEW h \in 0 .. MaxSeq, NEW E \in SUBSET (1 .. h), NEW b \in Nat,
         Counts(h, E, log, stored), Bridge(h, E, b)
  PROVE  Bridged(b)'
<1>1. /\ agent.phase \notin {"opened", "compacted", "sized"} /\ HookStep
      /\ UNCHANGED <<agent, toAgent, pipe, attempt, current, conn, connects, flow, cursor, seen,
                     reading, ready, replayed, failing>>
  BY DEF Hook, agentVars, coreVars, threadVars, readerVars, dataVars
<1>2. agent.phase = "serving" => Positioned(agent.offset, agent.last, log)
  BY DEF Bridge, Synced
<1>3. CASE UNCHANGED <<log, stored>>
  <2>1. Wider(h, E, h, E)
    BY JournalAssumption DEF Wider
  <2>2. agent.phase = "serving" => Positioned(agent.offset, agent.last, log')
    BY <1>2, <1>3
  <2>3. Bridge(h, E, b)'
    BY <1>1, <2>1, <2>2, GrowthKeeps
  <2>4. Counts(h, E, log, stored)'
    BY <1>3 DEF Counts
  <2> QED BY <2>3, <2>4 DEF Bridged
<1>4. ASSUME NEW kind \in Kinds, NEW id \in Identities \cup {NoId}, Write(kind, id)
      PROVE  Bridged(b)'
  <2>1. PICK k, F : /\ Wider(h, E, k, F) /\ Counts(k, F, log', stored')
                    /\ \A o, n : Positioned(o, n, log) => Positioned(o, n, log')
    BY <1>4, WriteWidens
  <2>2. agent.phase = "serving" => Positioned(agent.offset, agent.last, log')
    BY <1>2, <2>1
  <2>3. Bridge(k, F, b)'
    BY <1>1, <2>1, <2>2, GrowthKeeps
  <2>4. Counts(k, F, log, stored)'
    BY <2>1 DEF Counts
  <2> QED BY <2>3, <2>4 DEF Bridged
<1>5. AppendTorn \/ Repair \/ RepairCut => UNCHANGED <<log, stored>>
  BY DEF AppendTorn, Repair, RepairCut
<1> QED BY <1>1, <1>3, <1>4, <1>5 DEF HookStep, AppendEntry, AppendUnpublished

LEMMA AgentCommandKeeps ==
  ASSUME JournalInv, AgentCommand,
         NEW h \in 0 .. MaxSeq, NEW E \in SUBSET (1 .. h), NEW b \in Nat,
         Counts(h, E, log, stored), Bridge(h, E, b)
  PROVE  Bridged(b)'
<1>1. /\ agent.phase = "serving" /\ Write("event", NoId)
      /\ agent' = [agent EXCEPT !.head = Line("event", NoId).seq]
      /\ UNCHANGED <<toAgent, pipe, attempt, current, conn, connects, flow, cursor, seen,
                     reading, ready, replayed, failing>>
  BY DEF AgentCommand, AppendEntry, coreVars, threadVars, readerVars, dataVars
<1>2. "event" \in Kinds /\ NoId \in Identities \cup {NoId}
  BY DEF Kinds
<1>3. PICK k, F : /\ Wider(h, E, k, F) /\ Counts(k, F, log', stored') /\ k = Line("event", NoId).seq
                  /\ \A o, n : Positioned(o, n, log) => Positioned(o, n, log')
  BY <1>1, <1>2, WriteWidens
<1>4. Positioned(agent.offset, agent.last, log')
  BY <1>1, <1>3 DEF Bridge, Synced
<1>5. agent' = [agent EXCEPT !.head = k]
  BY <1>1, <1>3
<1>6. Bridge(k, F, b)'
  BY <1>1, <1>3, <1>4, <1>5, GrowthKeeps
<1>7. Counts(k, F, log, stored)'
  BY <1>3 DEF Counts
<1> QED BY <1>6, <1>7 DEF Bridged

\* The agent comes up: what it knows of the journal is the journal's last number, and no
\* frame is under way.
LEMMA StartupKeeps ==
  ASSUME NEW h \in 0 .. MaxSeq, NEW E \in SUBSET (1 .. h), NEW b, Bridge(h, E, b), NEW b2,
         agent.phase \in {"spawned", "opened", "compacted", "sized"},
         agent'.phase \in {"opened", "compacted", "serving"}, agent' \in Agents,
         UNCHANGED <<toAgent, pipe, attempt, current, conn, connects, flow, cursor, seen,
                     reading, ready, replayed, failing>>,
         Synced(h)',
         agent'.phase = "serving" => agent'.head = h /\ agent'.last = h /\ b2 = h
  PROVE  Bridge(h, E, b2)'
<1> USE DEF Bridge
<1>1. pipe = << >> /\ flow.live = {} /\ ready.is = "nothing" /\ reading /\ attempt = "hello"
  BY DEF Control
<1>2. Len(pipe) = 0 /\ h \in Nat
  BY <1>1, EmptyIs, JournalAssumption
<1>3. SpineTypes'
  BY DEF SpineTypes
<1>4. Control'
  BY <1>1 DEF Control
<1>5. Talk(h)' /\ Sane(h)'
  BY DEF Talk, Sane
<1>6. Replaying(h, E)'
  BY DEF Replaying
<1>7. Tailed(b2, E)'
  <2>1. \A e \in E : ~(h < e)
    BY <1>2
  <2>2. \A i \in 1 .. Len(pipe) : FALSE
    BY <1>2
  <2>3. \A i \in 1 .. Len(pipe') : FALSE
    BY <2>2
  <2>4. ready'.is # "ok" /\ flow'.live = {}
    BY <1>1
  <2>5. agent'.phase = "serving" => h <= h
    BY <1>2
  <2> HIDE DEF Came, Frame, Bridge
  <2> QED BY <2>1, <2>3, <2>4, <2>5 DEF Tailed
<1>8. Consumed(h, E)'
  BY DEF Consumed
<1> QED BY <1>3, <1>4, <1>5, <1>6, <1>7, <1>8

LEMMA AgentOpenKeeps ==
  ASSUME JournalInv, AgentOpen,
         NEW h \in 0 .. MaxSeq, NEW E \in SUBSET (1 .. h), NEW b \in Nat,
         Counts(h, E, log, stored), Bridge(h, E, b)
  PROVE  Bridged(b)'
<1>1. /\ agent.phase = "spawned" /\ Repaired
      /\ agent' = [agent EXCEPT !.phase = "opened", !.head = Authoritative.seq]
      /\ UNCHANGED <<log, stored, toAgent, pipe, attempt, current, conn, connects, flow, cursor, seen,
                     reading, ready, replayed, failing>>
  BY DEF AgentOpen, coreVars, threadVars, readerVars, dataVars
<1>2. Authoritative.seq = h /\ torn' = FALSE
  <2>1. torn \in BOOLEAN
    BY DEF JournalInv, Coherent
  <2>2. Scanned(log).seq = h
    BY DEF Counts, LastSeq
  <2> QED BY <1>1, <2>1, <2>2, AuthoritativeIs DEF Repaired
<1>3. agent' \in Agents /\ agent'.phase = "opened" /\ agent'.head = h
  <2>1. agent \in Agents
    BY DEF Bridge, SpineTypes
  <2> QED BY <1>1, <1>2, <2>1 DEF Agents
<1>4. Synced(h)'
  BY <1>2, <1>3 DEF Synced
<1>5. Bridge(h, E, b)'
  BY <1>1, <1>3, <1>4, StartupKeeps
<1>6. Counts(h, E, log, stored)'
  BY <1>1 DEF Counts
<1> QED BY <1>5, <1>6 DEF Bridged

\* The last number outlives a compaction.
LEMMA CompactionCounts ==
  ASSUME JournalInv, NEW h, NEW E, Counts(h, E, log, stored), log' = Compacted, stored' = stored
  PROVE  Counts(h, E, log, stored)'
<1>1. PICK s, c : s = log /\ c = Compacted
  OBVIOUS
<1>2. Orderly(s)
  BY <1>1 DEF JournalInv, Coherent
<1>3. LastSeq(c) = LastSeq(s)
  BY <1>1, <1>2, CompactedIs
<1> QED BY <1>1, <1>3 DEF Counts

LEMMA AgentCompactKeeps ==
  ASSUME JournalInv, AgentCompact,
         NEW h \in 0 .. MaxSeq, NEW E \in SUBSET (1 .. h), NEW b \in Nat,
         Counts(h, E, log, stored), Bridge(h, E, b)
  PROVE  Bridged(b)'
<1>1. /\ agent.phase = "opened" /\ log' = Compacted /\ torn' = FALSE /\ stored' = stored
      /\ agent' = [agent EXCEPT !.phase = "compacted", !.head = LastSeq(log)]
      /\ UNCHANGED <<toAgent, pipe, attempt, current, conn, connects, flow, cursor, seen,
                     reading, ready, replayed, failing>>
  BY DEF AgentCompact, Compact, coreVars, threadVars, readerVars, dataVars
<1>2. agent' \in Agents /\ agent'.phase = "compacted" /\ agent'.head = h
  <2>1. agent \in Agents /\ LastSeq(log) = h
    BY DEF Bridge, SpineTypes, Counts
  <2> QED BY <1>1, <2>1 DEF Agents
<1>3. Synced(h)'
  BY <1>1, <1>2 DEF Synced
<1>4. Bridge(h, E, b)'
  BY <1>1, <1>2, <1>3, StartupKeeps
<1>5. Counts(h, E, log, stored)'
  BY <1>1, CompactionCounts
<1> QED BY <1>4, <1>5 DEF Bridged

\* From here on the tail owes every event above h.
LEMMA AgentSeedTailKeeps ==
  ASSUME JournalInv, AgentSeedTail,
         NEW h \in 0 .. MaxSeq, NEW E \in SUBSET (1 .. h), NEW b \in Nat,
         Counts(h, E, log, stored), Bridge(h, E, b)
  PROVE  Bridged(h)'
<1>1. PICK a : a = Authoritative.seq
  OBVIOUS
<1>2. /\ agent.phase = "sized" /\ Repaired
      /\ agent' = [agent EXCEPT !.phase = "serving",
                     !.head = IF a > agent.head THEN a ELSE agent.head,
                     !.last = IF a > agent.head THEN a ELSE agent.head]
      /\ UNCHANGED <<log, stored, toAgent, pipe, attempt, current, conn, connects, flow, cursor, seen,
                     reading, ready, replayed, failing>>
  BY <1>1, Zenon DEF AgentSeedTail, coreVars, threadVars, readerVars, dataVars
<1>3. a = h /\ agent.head = h /\ agent.offset = Bytes(log) /\ torn' = FALSE
  <2>1. torn \in BOOLEAN
    BY DEF JournalInv, Coherent
  <2>2. Scanned(log).seq = h
    BY DEF Counts, LastSeq
  <2>3. agent.head = h /\ agent.offset = Bytes(log)
    BY <1>2 DEF Bridge, Synced
  <2> QED BY <1>1, <1>2, <2>1, <2>2, <2>3, AuthoritativeIs DEF Repaired
<1>4. (IF a > agent.head THEN a ELSE agent.head) = h
  BY <1>3
<1>5. agent' = [agent EXCEPT !.phase = "serving", !.head = h, !.last = h]
  BY <1>2, <1>4, Zenon
<1>6. /\ agent' \in Agents /\ agent'.phase = "serving" /\ agent'.head = h /\ agent'.last = h
      /\ agent'.offset = agent.offset
  <2>1. agent \in Agents /\ h \in Nat
    BY JournalAssumption DEF Bridge, SpineTypes
  <2> QED BY <1>5, <2>1 DEF Agents
<1>7. Positioned(agent.offset, h, log)
  <2>1. PICK s : s = log
    OBVIOUS
  <2>2. s \in Seq(Record) /\ h = LastSeq(s)
    BY <2>1 DEF JournalInv, Coherent, Counts
  <2>3. SubSeq(s, 1, Len(s)) = s /\ Len(s) \in 0 .. Len(s)
    BY <2>2, SubSeqFull
  <2>4. Positioned(Bytes(s), h, s)
    BY <2>2, <2>3 DEF Positioned
  <2> QED BY <1>3, <2>1, <2>4
<1>8. Synced(h)'
  <2>1. Positioned(agent'.offset, agent'.last, log')
    BY <1>2, <1>6, <1>7, Zenon
  <2>2. h <= h
    BY JournalAssumption
  <2> QED BY <1>6, <2>1, <2>2 DEF Synced
<1>9. Bridge(h, E, h)'
  BY <1>2, <1>6, <1>8, StartupKeeps
<1>10. Counts(h, E, log, stored)'
  BY <1>2 DEF Counts
<1> QED BY <1>9, <1>10 DEF Bridged

LEMMA AgentDiesKeeps ==
  ASSUME JournalInv, AgentDies \/ AgentDiesCompacting,
         NEW h \in 0 .. MaxSeq, NEW E \in SUBSET (1 .. h), NEW b \in Nat,
         Counts(h, E, log, stored), Bridge(h, E, b)
  PROVE  Bridged(b)'
<1>1. agent.phase \notin {"none", "dead"} /\ Killed
  BY DEF AgentDies, AgentDiesCompacting
<1>2. Bridge(h, E, b)'
  BY <1>1, KilledKeeps
<1>3. Counts(h, E, log, stored)'
  <2>1. CASE AgentDies
    BY <2>1 DEF AgentDies, journalVars, Counts
  <2>2. CASE AgentDiesCompacting
    BY <2>2, CompactionCounts DEF AgentDiesCompacting, CompactUnpublished
  <2> QED BY <2>1, <2>2
<1> QED BY <1>2, <1>3 DEF Bridged

-----------------------------------------------------------------------------
(* The bridge's invariant holds, and with it the two properties.           *)

LEMMA SpineStarts ==
  ASSUME SpineInit
  PROVE  SpineInv
<1> USE DEF SpineInit
<1>1. JournalInv
  BY JournalStarts
<1>2. /\ JournalInit /\ agent = NoAgent /\ toAgent = << >> /\ pipe = << >> /\ attempt = "idle"
      /\ reading = FALSE /\ current = FALSE /\ conn = "disconnected" /\ flow = Gone
      /\ ready = Silent /\ replayed = Silent /\ failing = 0 /\ cursor = 0 /\ connects = 0
      /\ seen = [n \in 1 .. MaxSeq |-> 0]
  OBVIOUS
<1>3. Counts(0, {}, log, stored)
  <2>1. log = << >> /\ stored = {}
    BY DEF JournalInit
  <2>2. LastSeq(<< >>) = 0
    BY ScanEmpty DEF LastSeq, NoHead
  <2> QED BY <2>1, <2>2 DEF Counts, EventNumbers
<1>4. /\ agent \in Agents /\ agent.phase = "none" /\ Blank(flow, "cancelled")
      /\ Len(pipe) = 0 /\ Len(toAgent) = 0
      /\ pipe \in Seq(Frames0) /\ toAgent \in Seq(Frames0)
  BY NoAgentIs, NewFlowIs, EmptyIs
<1>5. /\ ready \in Answers /\ ready.is = "nothing" /\ replayed \in Answers /\ replayed.is = "nothing"
  BY DEF Silent, Answers
<1> HIDE DEF SpineInit
<1>6. SpineTypes
  BY <1>2, <1>4, <1>5 DEF SpineTypes, Blank
<1>7. Control
  BY <1>2, <1>4, <1>5, SpineAssumption DEF Control, Blank
<1>8. Synced(0)
  BY <1>4 DEF Synced
<1>9. Talk(0)
  BY <1>4, <1>5 DEF Talk, Blank
<1>10. Sane(0)
  BY <1>4 DEF Sane, Blank
<1>11. Replaying(0, {})
  BY <1>2, <1>4, <1>5 DEF Replaying, Blank
<1>12. Tailed(0, {})
  BY <1>4, <1>5 DEF Tailed, Blank
<1>13. Consumed(0, {})
  BY <1>2, <1>4 DEF Consumed, Blank
<1>14. Bridge(0, {}, 0)
  BY <1>6, <1>7, <1>8, <1>9, <1>10, <1>11, <1>12, <1>13 DEF Bridge
<1>15. 0 \in 0 .. MaxSeq /\ {} \in SUBSET (1 .. 0)
  BY JournalAssumption
<1> QED BY <1>1, <1>3, <1>14, <1>15 DEF SpineInv

\* A step that leaves the log and the history alone keeps its h, E and b.
LEMMA QuietHolds ==
  ASSUME NEW h, NEW E, NEW b, Counts(h, E, log, stored), UNCHANGED <<log, stored>>, Bridge(h, E, b)'
  PROVE  Bridged(b)'
<1>1. Counts(h, E, log, stored)'
  BY DEF Counts
<1> QED BY <1>1 DEF Bridged

LEMMA UnchangedKeeps ==
  ASSUME NEW h, NEW E, NEW b, Bridge(h, E, b), UNCHANGED spineVars
  PROVE  Bridge(h, E, b)'
<1>1. UNCHANGED <<log, torn, agent, toAgent, pipe, attempt, current, conn, connects, flow, cursor, seen,
                  reading, ready, replayed, failing>>
  BY DEF spineVars, journalVars, agentVars, coreVars, threadVars, readerVars, dataVars
<1> USE DEF Bridge
<1>2. SpineTypes' /\ Control' /\ Synced(h)' /\ Talk(h)' /\ Sane(h)'
  BY <1>1 DEF SpineTypes, Control, Synced, Talk, Sane
<1>3. Replaying(h, E)' /\ Consumed(h, E)'
  BY <1>1 DEF Replaying, Consumed
<1>4. Tailed(b, E)'
  BY <1>1 DEF Tailed, Came
<1> QED BY <1>2, <1>3, <1>4

LEMMA BridgeSteps ==
  ASSUME SeedRace = FALSE, JournalInv, [SpineNext]_spineVars,
         NEW h \in 0 .. MaxSeq, NEW E \in SUBSET (1 .. h), NEW b \in 0 .. MaxSeq,
         Counts(h, E, log, stored), Bridge(h, E, b)
  PROVE  \E b2 \in 0 .. MaxSeq : Bridged(b2)'
<1>1. b \in Nat
  BY JournalAssumption
<1>2. CASE UNCHANGED spineVars
  <2>1. UNCHANGED <<log, stored>>
    BY <1>2 DEF spineVars, journalVars
  <2> QED BY <1>2, <2>1, UnchangedKeeps, QuietHolds
<1>3. CASE Hook
  BY <1>1, <1>3, HookKeeps
<1>4. CASE AgentStep
  <2>1. CASE AgentOpen
    BY <1>1, <2>1, AgentOpenKeeps
  <2>2. CASE AgentCompact
    BY <1>1, <2>2, AgentCompactKeeps
  <2>3. CASE AgentSizeTail
    <3>1. UNCHANGED <<log, stored>>
      BY <2>3 DEF AgentSizeTail, journalVars
    <3> QED BY <2>3, <3>1, AgentSizeTailKeeps, QuietHolds
  <2>4. CASE AgentSeedTail
    BY <1>1, <2>4, AgentSeedTailKeeps
  <2>5. CASE AgentTail
    <3>1. UNCHANGED <<log, stored>>
      BY <2>5 DEF AgentTail, journalVars
    <3> QED BY <1>1, <2>5, <3>1, AgentTailKeeps, QuietHolds
  <2>6. CASE AgentHello
    <3>1. UNCHANGED <<log, stored>>
      BY <2>6 DEF AgentHello, journalVars
    <3> QED BY <2>6, <3>1, AgentHelloKeeps, QuietHolds
  <2>7. CASE AgentReplay
    <3>1. UNCHANGED <<log, stored>>
      BY <2>7 DEF AgentReplay, journalVars
    <3> QED BY <1>1, <2>7, <3>1, AgentReplayKeeps, QuietHolds
  <2> QED BY <1>4, <2>1, <2>2, <2>3, <2>4, <2>5, <2>6, <2>7 DEF AgentStep
<1>5. CASE AgentCommand
  BY <1>1, <1>5, AgentCommandKeeps
<1>6. CASE AgentDies \/ AgentDiesCompacting
  BY <1>1, <1>6, AgentDiesKeeps
<1>7. CASE ReaderStep
  <2>1. UNCHANGED <<log, stored>>
    BY <1>7 DEF ReaderStep, ReaderReady, ReaderLive, ReaderReplay, ReaderBoundary,
                ReaderComplete, ReaderExits, ReaderSetsFailed, journalVars
  <2>2. Bridge(h, E, b)'
    BY <1>1, <1>7, ReaderReadyKeeps, ReaderLiveKeeps, ReaderReplayKeeps, ReaderBoundaryKeeps,
       ReaderCompleteKeeps, ReaderExitsKeeps, ReaderSetsFailedKeeps DEF ReaderStep
  <2> QED BY <2>1, <2>2, QuietHolds
<1>8. CASE Connect \/ ConnectFails \/ TimesOut
  <2>1. UNCHANGED <<log, stored>>
    BY <1>8 DEF Connect, ConnectFails, TimesOut, FailConnection, journalVars
  <2>2. TimesOut => FailConnection
    BY DEF TimesOut
  <2>3. Bridge(h, E, b)'
    BY <1>8, <2>2, ConnectKeeps, ConnectFailsKeeps, FailConnectionKeeps
  <2> QED BY <2>1, <2>3, QuietHolds
<1>9. CASE ConnectStep
  <2>1. UNCHANGED <<log, stored>>
    BY <1>9 DEF ConnectStep, HandshakeFails, ReplayFails, FailConnection, GoLive, BeginReplay,
                RequestReplay, FinishReplay, journalVars
  <2>2. HandshakeFails \/ ReplayFails => FailConnection
    BY DEF HandshakeFails, ReplayFails
  <2>3. Bridge(h, E, b)'
    BY <1>1, <1>9, <2>2, FailConnectionKeeps, GoLiveKeeps, BeginReplayKeeps, RequestReplayKeeps,
       FinishReplayKeeps DEF ConnectStep
  <2> QED BY <2>1, <2>3, QuietHolds
<1> QED BY <1>2, <1>3, <1>4, <1>5, <1>6, <1>7, <1>8, <1>9 DEF SpineNext

LEMMA SpineSteps ==
  ASSUME SeedRace = FALSE, SpineInv, [SpineNext]_spineVars
  PROVE  SpineInv'
<1>1. JournalInv
  BY DEF SpineInv
<1>2. JournalInv'
  <2>1. UNCHANGED spineVars => UNCHANGED journalVars
    BY DEF spineVars
  <2>2. [JournalNext]_journalVars
    BY <1>1, <2>1, SpineJournalStep
  <2> QED BY <1>1, <2>2, JournalSteps
<1>3. PICK h \in 0 .. MaxSeq, b \in 0 .. MaxSeq :
        \E E \in SUBSET (1 .. h) : Counts(h, E, log, stored) /\ Bridge(h, E, b)
  BY DEF SpineInv
<1>4. PICK b2 \in 0 .. MaxSeq : Bridged(b2)'
  BY <1>1, <1>3, BridgeSteps
<1>5. PICK k, F : Counts(k, F, log, stored)' /\ Bridge(k, F, b2)'
  BY <1>4 DEF Bridged
<1>6. k \in 0 .. MaxSeq /\ F \in SUBSET (1 .. k)
  <2>1. PICK s, t, hd, all : s = log' /\ t = torn' /\ hd = head' /\ all = stored'
    OBVIOUS
  <2>2. Coherent(s, t, hd, all)
    BY <1>2, <2>1 DEF JournalInv
  <2>3. Counts(k, F, s, all)
    BY <1>5, <2>1 DEF Counts
  <2> QED BY <2>2, <2>3, RangeIs
<1> QED BY <1>2, <1>5, <1>6 DEF SpineInv

LEMMA SpineAlways ==
  ASSUME SeedRace = FALSE
  PROVE  SpineSpec => []SpineInv
<1>1. SpineInit => SpineInv
  BY SpineStarts
<1>2. SpineInv /\ [SpineNext]_spineVars => SpineInv'
  BY SpineSteps
<1> QED BY <1>1, <1>2, PTL DEF SpineSpec

\* The bridge's types, the cursor's place in the journal, and that the agent never breaks the
\* replay protocol on which the core would fail the connection (observe_replay_boundary,
\* finish_replay), as long as no hook runs while the agent seeds its tail.
THEOREM SpineTypeCorrect == SeedRace = FALSE => (SpineSpec => []SpineTypeOK)
<1> SUFFICES ASSUME SeedRace = FALSE PROVE SpineSpec => []SpineTypeOK
  OBVIOUS
<1>1. ASSUME SpineInv PROVE SpineTypeOK
  <2>1. PICK h, E, b : Counts(h, E, log, stored) /\ Bridge(h, E, b)
    BY <1>1 DEF SpineInv
  <2>2. JournalTypeOK
    BY <1>1, JournalInvIs DEF SpineInv
  <2>3. agent \in [phase : {"none", "spawned", "opened", "compacted", "sized", "serving", "dead"},
                   head : 0 .. MaxSeq, offset : Nat, last : Nat]
    BY <2>1 DEF Bridge, SpineTypes, Agents
  <2>4. /\ toAgent \in Seq(Frames0) /\ pipe \in Seq(Frames0)
        /\ attempt \in {"idle", "hello", "begun", "await"}
        /\ {reading, current} \subseteq BOOLEAN
        /\ conn \in {"disconnected", "handshaking", "replaying", "live", "failed"}
        /\ seen \in [1 .. MaxSeq -> Nat]
    BY <2>1 DEF Bridge, SpineTypes
  <2>5. /\ flow.state \in {"buffering", "replaying", "live", "cancelled"}
        /\ flow.history \cup flow.live \subseteq Frames0
        /\ flow.verified \in Nat
    <3>1. flow \in Flows
      BY <2>1 DEF Bridge, SpineTypes
    <3> QED BY <3>1 DEF Flows
  <2>6. flow.state \in {"live", "cancelled"} => flow.history \cup flow.live = {}
    BY <2>1 DEF Bridge, Control, Replaying
  <2>7. {ready.is, replayed.is} \subseteq {"nothing", "ok", "error"} /\ ready.seq \in Nat
    BY <2>1 DEF Bridge, SpineTypes, Answers
  <2>8. failing \in 0 .. MaxConnects
    BY <2>1, SpineAssumption DEF Bridge, SpineTypes, Control
  <2>9. cursor \in 0 .. LastSeq(log)
    <3>1. h = LastSeq(log) /\ cursor \in Nat /\ cursor <= h
      BY <2>1 DEF Counts, Bridge, SpineTypes, Consumed
    <3>2. h \in 0 .. MaxSeq
      BY <1>1, <2>1, RangeIs DEF SpineInv, JournalInv
    <3> QED BY <3>1, <3>2, JournalAssumption
  <2>10. ReplayIsWellFormed
    <3>1. ~flow.error
      BY <2>1 DEF Bridge, Control
    <3>2. ASSUME replayed.is = "ok", flow.state = "replaying" PROVE Verified
      <4>1. flow.complete /\ flow.boundary /\ ready.seq <= flow.verified
        BY <2>1, <3>2 DEF Bridge, Replaying
      <4> QED BY <2>5, <2>7, <3>1, <3>2, <4>1 DEF Verified
    <3> QED BY <3>1, <3>2 DEF ReplayIsWellFormed
  <2> HIDE DEF Frames0
  <2> QED BY <2>2, <2>3, <2>4, <2>5, <2>6, <2>7, <2>8, <2>9, <2>10 DEF SpineTypeOK
<1> QED BY <1>1, SpineAlways, PTL

\* Every event is reduced once: never twice, and never passed over by the cursor, over lost
\* connections, replays that overlap the tail, compactions and crashes of the journal
\* (consume_journal_entry, complete_replay), as long as no hook runs while the agent seeds its
\* tail.
THEOREM EventsReducedOnce == SeedRace = FALSE => (SpineSpec => []ExactlyOnce)
<1> SUFFICES ASSUME SeedRace = FALSE PROVE SpineSpec => []ExactlyOnce
  OBVIOUS
<1>1. ASSUME SpineInv PROVE ExactlyOnce
  <2>1. PICK h, E, b : Counts(h, E, log, stored) /\ Bridge(h, E, b)
    BY <1>1 DEF SpineInv
  <2>2. ConsumedOnce
    BY <2>1 DEF Bridge, Consumed, ConsumedOnce
  <2>3. NothingSkipped
    <3> SUFFICES ASSUME NEW r \in stored, r.kind = "event"
                 PROVE  /\ r.seq <= cursor => seen[r.seq] > 0
                        /\ flow.state = "live" /\ r.seq <= ready.seq => seen[r.seq] > 0
      BY DEF NothingSkipped
    <3>1. r.seq \in E
      BY <2>1 DEF Counts, EventNumbers
    <3>2. r.seq <= cursor => seen[r.seq] > 0
      BY <2>1, <3>1 DEF Bridge, Consumed
    <3>3. r.seq \in Nat /\ ready.seq \in Nat /\ cursor \in Nat
      <4>1. r \in Record
        BY <1>1 DEF SpineInv, JournalInv, Coherent
      <4> QED BY <2>1, <4>1, JournalAssumption DEF Record, Bridge, SpineTypes, Answers
    <3>4. flow.state = "live" => ready.seq <= cursor
      BY <2>1 DEF Bridge, Consumed
    <3> QED BY <3>2, <3>3, <3>4
  <2> QED BY <2>2, <2>3 DEF ExactlyOnce
<1> QED BY <1>1, SpineAlways, PTL


-----------------------------------------------------------------------------
(* FleetWake: the notifier.                                                *)


SideType == [pending : Items, queue : Seq(Items), ship : 0 .. MaxShip,
             suppressed : BOOLEAN, got : Items, writes : {0, 1}]

(* An edge numbered m of tile t, or a newer one, is somewhere on the side w. *)
Has(w, t, m) ==
  \/ w.pending[t] >= m \/ w.got[t] >= m
  \/ \E i \in DOMAIN w.queue : w.queue[i][t] >= m

(* Nothing is pending that is not also owed.                               *)
PendingIsOwed ==
  \A o \in Orchestrators, t \in Tiles : pending[o][t] <= wanted[o][t]

OwedIsHad ==
  \A o \in Orchestrators, t \in Tiles : Has(Side(o), t, wanted[o][t])

(* The flag stands for the write of the window.  A prompt the notifier has *)
(* not seen yet is one nothing was written at.                             *)
Unspent ==
  \A o \in Orchestrators :
    /\ window[o] <= 1
    /\ window[o] = 1 => o \in suppressed
    /\ status[o] = "ready" /\ last[o] # "ready" => window[o] = 0

WakeInv == TypeOK /\ PendingIsOwed /\ OwedIsHad /\ Unspent

-----------------------------------------------------------------------------
(* One orchestrator's side of an edge.                                     *)

LEMMA NoItemsType == NoItems \in Items /\ \A t \in Tiles : NoItems[t] = 0
BY WakeAssumption DEF NoItems, Items, Edges

LEMMA SideFacts ==
  ASSUME TypeOK, NEW o \in Orchestrators
  PROVE  /\ Side(o) \in SideType
         /\ Len(Side(o).queue) <= MaxDepth
         /\ Side(o).writes = 0
BY DEF TypeOK, Side, SideType

LEMMA NewerFacts ==
  ASSUME NEW a \in Items, NEW b \in Items
  PROVE  /\ Newer(a, b) \in Items
         /\ \A t \in Tiles : Newer(a, b)[t] >= a[t] /\ Newer(a, b)[t] >= b[t]
BY DEF Newer, Items, Edges

LEMMA EnqueuedFacts ==
  ASSUME NEW w \in SideType, Len(w.queue) <= MaxDepth, NEW out
  PROVE  LET e == Enqueued(w, out) IN
         /\ e \in SideType /\ Len(e.queue) <= MaxDepth
         /\ e.writes = w.writes /\ e.suppressed = w.suppressed
         /\ \A t \in Tiles : e.pending[t] \in {0, w.pending[t]}
         /\ \A t \in Tiles, m \in Nat : Has(w, t, m) => Has(e, t, m)
<1> DEFINE e == Enqueued(w, out)
<1>1. CASE e = w
  BY <1>1
<1>2. CASE /\ Len(w.queue) < MaxDepth
           /\ e = [w EXCEPT !.queue = Append(@, w.pending), !.pending = NoItems]
  <2>1. /\ e.queue = Append(w.queue, w.pending) /\ e.pending = NoItems
        /\ e.got = w.got /\ e.writes = w.writes /\ e.suppressed = w.suppressed
        /\ e \in SideType
    <3>1. Append(w.queue, w.pending) \in Seq(Items)
      BY DEF SideType
    <3>2. e \in SideType
      BY <1>2, <3>1, NoItemsType DEF SideType
    <3>3. /\ e.queue = Append(w.queue, w.pending) /\ e.pending = NoItems
          /\ e.got = w.got /\ e.writes = w.writes
      BY <1>2 DEF SideType
    <3>4. e.suppressed = w.suppressed
      BY <1>2 DEF SideType
    <3> QED BY <3>2, <3>3, <3>4
  <2>2. w.queue \in Seq(Items) /\ w.pending \in Items /\ Len(w.queue) \in Nat
    BY DEF SideType
  <2>3. /\ Len(e.queue) = Len(w.queue) + 1
        /\ \A i \in 1 .. Len(w.queue) : e.queue[i] = w.queue[i]
        /\ e.queue[Len(w.queue) + 1] = w.pending
        /\ DOMAIN w.queue = 1 .. Len(w.queue)
        /\ DOMAIN e.queue = 1 .. Len(w.queue) + 1
    BY <2>1, <2>2
  <2>4. Len(e.queue) <= MaxDepth
    BY <1>2, <2>2, <2>3, WakeAssumption
  <2>5. ASSUME NEW t \in Tiles, NEW m \in Nat, Has(w, t, m)
        PROVE  Has(e, t, m)
    <3>1. CASE w.pending[t] >= m
      BY <3>1, <2>2, <2>3 DEF Has
    <3>2. CASE w.got[t] >= m
      BY <3>2, <2>1 DEF Has
    <3>3. CASE \E i \in DOMAIN w.queue : w.queue[i][t] >= m
      BY <3>3, <2>2, <2>3 DEF Has
    <3> QED BY <2>5, <3>1, <3>2, <3>3 DEF Has
  <2> QED BY <2>1, <2>4, <2>5, NoItemsType
<1> QED BY <1>1, <1>2 DEF Enqueued

LEMMA DrainedFacts ==
  ASSUME NEW w \in SideType, Len(w.queue) <= MaxDepth, w.writes = 0, NEW o, NEW out
  PROVE  LET e == Drained(w, o, out) IN
         /\ e \in SideType /\ Len(e.queue) <= MaxDepth
         /\ w.suppressed => e.suppressed
         /\ e.writes = 1 => e.suppressed
         /\ e.pending = w.pending
         /\ \A t \in Tiles, m \in Nat : Has(w, t, m) => Has(e, t, m)
<1> DEFINE e == Drained(w, o, out)
<1>1. CASE e = w
  BY <1>1
<1>2. CASE /\ w.queue # << >>
           /\ e = [w EXCEPT !.queue = Tail(@), !.got = Newer(@, Head(w.queue)),
                            !.suppressed = TRUE, !.writes = 1]
  <2>1. w.queue \in Seq(Items) /\ w.got \in Items /\ Len(w.queue) \in Nat /\ Len(w.queue) > 0
    BY <1>2 DEF SideType
  <2>2. /\ Head(w.queue) \in Items /\ Head(w.queue) = w.queue[1]
        /\ Tail(w.queue) \in Seq(Items) /\ Len(Tail(w.queue)) = Len(w.queue) - 1
        /\ \A i \in 1 .. Len(w.queue) - 1 : Tail(w.queue)[i] = w.queue[i + 1]
        /\ DOMAIN w.queue = 1 .. Len(w.queue)
        /\ DOMAIN Tail(w.queue) = 1 .. Len(w.queue) - 1
    BY <1>2, <2>1
  <2>3. /\ Newer(w.got, Head(w.queue)) \in Items
        /\ \A t \in Tiles : /\ Newer(w.got, Head(w.queue))[t] >= w.got[t]
                            /\ Newer(w.got, Head(w.queue))[t] >= w.queue[1][t]
    BY <2>1, <2>2, NewerFacts
  <2>4. /\ e \in SideType /\ e.queue = Tail(w.queue) /\ e.got = Newer(w.got, Head(w.queue))
        /\ e.suppressed /\ e.pending = w.pending
    BY <1>2, <2>2, <2>3 DEF SideType
  <2>5. Len(e.queue) <= MaxDepth
    BY <2>1, <2>2, <2>4, WakeAssumption
  <2>6. ASSUME NEW t \in Tiles, NEW m \in Nat, Has(w, t, m)
        PROVE  Has(e, t, m)
    <3>1. \A i \in DOMAIN w.queue : w.queue[i][t] \in Int
      BY <2>1, <2>2 DEF Items, Edges
    <3>2. w.got[t] \in Int /\ e.got[t] \in Int
      BY <2>1, <2>3, <2>4 DEF Items, Edges
    <3>3. CASE w.pending[t] >= m
      BY <3>3, <2>4 DEF Has
    <3>4. CASE w.got[t] >= m
      BY <3>4, <3>2, <2>3, <2>4 DEF Has
    <3>5. CASE \E i \in DOMAIN w.queue : w.queue[i][t] >= m
      <4>1. PICK i \in DOMAIN w.queue : w.queue[i][t] >= m
        BY <3>5
      <4>2. CASE i = 1
        BY <4>1, <4>2, <3>1, <3>2, <2>3, <2>4 DEF Has
      <4>3. CASE i # 1
        <5>1. i - 1 \in 1 .. Len(w.queue) - 1 /\ Tail(w.queue)[i - 1] = w.queue[i]
          BY <4>3, <2>1, <2>2
        <5> QED BY <4>1, <5>1, <2>2, <2>4 DEF Has
      <4> QED BY <4>2, <4>3
    <3> QED BY <2>6, <3>3, <3>4, <3>5 DEF Has
  <2> QED BY <2>4, <2>5, <2>6
<1>3. CASE w.ship > 0 /\ e = [w EXCEPT !.ship = @ - 1, !.suppressed = TRUE, !.writes = 1]
  <2>1. e \in SideType
    <3>1. w.ship - 1 \in 0 .. MaxShip
      BY <1>3, WakeAssumption DEF SideType
    <3> QED BY <1>3, <3>1 DEF SideType
  <2>2. e.queue = w.queue /\ e.got = w.got /\ e.pending = w.pending
    BY <1>3 DEF SideType
  <2>3. e.suppressed
    BY <1>3 DEF SideType
  <2> QED BY <2>1, <2>2, <2>3 DEF Has
<1> QED BY <1>1, <1>2, <1>3 DEF Drained

LEMMA FlushFacts ==
  ASSUME NEW w \in SideType, Len(w.queue) <= MaxDepth, w.writes = 0,
         NEW o, NEW lastStatus, NEW out
  PROVE  LET e == Flush(w, o, lastStatus, out) IN
         /\ e \in SideType /\ Len(e.queue) <= MaxDepth
         /\ w.suppressed => e.suppressed
         /\ e.writes = 1 => e.suppressed /\ ~w.suppressed /\ lastStatus[o] = "ready"
         /\ \A t \in Tiles : e.pending[t] \in {0, w.pending[t]}
         /\ \A t \in Tiles, m \in Nat : Has(w, t, m) => Has(e, t, m)
<1>1. CASE lastStatus[o] = "ready" /\ ~w.suppressed
  <2> DEFINE q == Enqueued(w, out)
             e == Drained(q, o, out)
  <2>1. /\ q \in SideType /\ Len(q.queue) <= MaxDepth /\ q.writes = 0
        /\ \A t \in Tiles : q.pending[t] \in {0, w.pending[t]}
        /\ \A t \in Tiles, m \in Nat : Has(w, t, m) => Has(q, t, m)
    BY EnqueuedFacts
  <2> HIDE DEF q
  <2>2. /\ e \in SideType /\ Len(e.queue) <= MaxDepth
        /\ e.writes = 1 => e.suppressed
        /\ e.pending = q.pending
        /\ \A t \in Tiles, m \in Nat : Has(q, t, m) => Has(e, t, m)
    BY <2>1, DrainedFacts
  <2>3. Flush(w, o, lastStatus, out) = e
    BY <1>1 DEF Flush, q
  <2> HIDE DEF e
  <2> QED BY <1>1, <2>1, <2>2, <2>3
<1>2. CASE ~(lastStatus[o] = "ready" /\ ~w.suppressed)
  BY <1>2 DEF Flush
<1> QED BY <1>1, <1>2

(* The edge of tile t is one that o asked for. *)
Asked(o, t, s) == o \in armed \ {t} /\ Actionable(s) /\ Wants(o, t)

(* What the edge n of tile t may make of o's side. *)
Fits(e, o, t, s, n) ==
  /\ e \in SideType /\ Len(e.queue) <= MaxDepth
  /\ e.writes = 1 => /\ e.suppressed
                     /\ \/ o = t /\ s = "ready"
                        \/ o # t /\ o \notin suppressed /\ last[o] = "ready"
  /\ o \in suppressed => e.suppressed \/ (o = t /\ s = "ready")
  /\ \A u \in Tiles : IF u = t /\ Asked(o, t, s)
                       THEN e.pending[u] \in {0, n} /\ Has(e, u, n)
                       ELSE /\ e.pending[u] \in {0, pending[o][u]}
                            /\ \A m \in Nat : Has(Side(o), u, m) => Has(e, u, m)

LEMMA ObservedFacts ==
  ASSUME TypeOK, NEW o \in armed, NEW t \in Tiles, NEW s \in Statuses,
         NEW n \in Edges, NEW out, NEW e, e = Observed(o, t, s, n, out)
  PROVE  Fits(e, o, t, s, n)
<1>a. o \in Orchestrators
  BY DEF TypeOK
<1> DEFINE now == [last EXCEPT ![t] = s]
<1>0. /\ Side(o) \in SideType /\ Len(Side(o).queue) <= MaxDepth /\ Side(o).writes = 0
      /\ Side(o).pending = pending[o] /\ (Side(o).suppressed <=> o \in suppressed)
  BY <1>a, SideFacts DEF Side
<1>1. CASE o = t /\ s = "ready"
  <2> DEFINE w == [Side(o) EXCEPT !.suppressed = FALSE]
  <2>1. w \in SideType /\ w.queue = Side(o).queue /\ w.writes = 0
    BY <1>0 DEF SideType
  <2>2. w.pending = pending[o] /\ w.got = Side(o).got
    BY <1>0 DEF SideType
  <2>3. \A u \in Tiles, m \in Nat : Has(Side(o), u, m) => Has(w, u, m)
    BY <1>0, <2>1, <2>2 DEF Has
  <2>4. e = Flush(w, o, now, out)
    BY <1>1 DEF Observed
  <2> HIDE DEF w, now
  <2>5. /\ e \in SideType /\ Len(e.queue) <= MaxDepth
        /\ e.writes = 1 => e.suppressed
        /\ \A u \in Tiles : e.pending[u] \in {0, w.pending[u]}
        /\ \A u \in Tiles, m \in Nat : Has(w, u, m) => Has(e, u, m)
    BY <1>0, <2>1, <2>4, FlushFacts
  <2> QED BY <1>1, <2>2, <2>3, <2>5 DEF Asked, Fits
<1>2. CASE Asked(o, t, s)
  <2> DEFINE w == [Side(o) EXCEPT !.pending[t] = n]
  <2>1. w \in SideType /\ w.queue = Side(o).queue /\ w.writes = 0 /\ w.got = Side(o).got
    BY <1>0 DEF SideType, Items
  <2>2. w.suppressed <=> o \in suppressed
    BY <1>0 DEF SideType
  <2>3. w.pending = [pending[o] EXCEPT ![t] = n]
    BY <1>0 DEF SideType
  <2>4. pending[o] \in Items /\ n \in Int
    BY <1>a DEF TypeOK, Edges
  <2>5. /\ Has(w, t, n)
        /\ \A u \in Tiles \ {t}, m \in Nat : Has(Side(o), u, m) => Has(w, u, m)
    BY <1>0, <2>1, <2>3, <2>4 DEF Has, Items
  <2>6. e = Flush(w, o, now, out)
    BY <1>2 DEF Observed, Asked
  <2>7. now[o] = last[o]
    BY <1>2, <1>a DEF Asked, TypeOK
  <2>8. n \in Nat /\ \A u \in Tiles : w.pending[u] = IF u = t THEN n ELSE pending[o][u]
    BY <2>3, <2>4 DEF Items, Edges
  <2> HIDE DEF w, now
  <2>9. /\ e \in SideType /\ Len(e.queue) <= MaxDepth
        /\ w.suppressed => e.suppressed
        /\ e.writes = 1 => e.suppressed /\ ~w.suppressed /\ now[o] = "ready"
        /\ \A u \in Tiles : e.pending[u] \in {0, w.pending[u]}
        /\ \A u \in Tiles, m \in Nat : Has(w, u, m) => Has(e, u, m)
    BY <1>0, <2>1, <2>6, FlushFacts
  <2>10. /\ e.writes = 1 => /\ e.suppressed
                            /\ \/ o = t /\ s = "ready"
                               \/ o # t /\ o \notin suppressed /\ last[o] = "ready"
         /\ o \in suppressed => e.suppressed \/ (o = t /\ s = "ready")
    BY <1>2, <2>2, <2>7, <2>9 DEF Asked
  <2>11. \A u \in Tiles : IF u = t /\ Asked(o, t, s)
                          THEN e.pending[u] \in {0, n} /\ Has(e, u, n)
                          ELSE /\ e.pending[u] \in {0, pending[o][u]}
                               /\ \A m \in Nat : Has(Side(o), u, m) => Has(e, u, m)
    BY <1>2, <2>5, <2>8, <2>9
  <2> QED BY <2>9, <2>10, <2>11, Zenon DEF Fits
<1>3. CASE ~(o = t /\ s = "ready") /\ ~Asked(o, t, s)
  <2>1. e = Side(o)
    BY <1>3 DEF Observed, Asked
  <2>2. e.writes = 0 /\ e.pending = pending[o]
    BY <1>0, <2>1
  <2>3. /\ e.writes # 1
        /\ \A u \in Tiles : e.pending[u] \in {0, pending[o][u]}
    BY <2>2
  <2>4. o \in suppressed => e.suppressed
    BY <1>0, <2>1, Zenon
  <2> QED BY <1>0, <1>3, <2>1, <2>3, <2>4, Zenon DEF Fits
<1> QED BY <1>1, <1>2, <1>3

-----------------------------------------------------------------------------
(* The steps.                                                              *)

LEMMA HasIsOfTheSide ==
  ASSUME NEW v, NEW w, v.pending = w.pending, v.got = w.got, v.queue = w.queue
  PROVE  \A t \in Tiles, m \in Nat : Has(w, t, m) => Has(v, t, m)
BY DEF Has

(* A step that leaves the notifier, the queues and what is owed alone.     *)
LEMMA UndisturbedFacts ==
  ASSUME WakeInv, UNCHANGED <<pending, queue, wanted, got>>
  PROVE  PendingIsOwed' /\ OwedIsHad'
<1>1. /\ \A o \in Orchestrators : /\ Side(o)'.pending = Side(o).pending
                                  /\ Side(o)'.got = Side(o).got
                                  /\ Side(o)'.queue = Side(o).queue
  BY DEF Side
<1>2. \A o \in Orchestrators, t \in Tiles : wanted[o][t] \in Nat
  BY DEF WakeInv, TypeOK, Items, Edges
<1>3. OwedIsHad'
  BY <1>1, <1>2, HasIsOfTheSide DEF WakeInv, OwedIsHad
<1> QED BY <1>3 DEF WakeInv, PendingIsOwed

(* The sides an observed edge leaves.                                      *)
LEMMA EdgeSides ==
  ASSUME TypeOK, NEW t \in Tiles, NEW s \in Statuses, NEW outs, NEW n \in Edges,
         NEW o \in Orchestrators,
         NEW e, e = IF o \in armed THEN Observed(o, t, s, n, outs[o]) ELSE Side(o)
  PROVE  Fits(e, o, t, s, n)
<1>1. CASE o \in armed
  BY <1>1, ObservedFacts
<1>2. CASE o \notin armed
  <2>0. e = Side(o)
    BY <1>2
  <2>1. e \in SideType /\ Len(e.queue) <= MaxDepth /\ e.writes = 0
    BY <2>0, SideFacts
  <2>2. e.pending = pending[o]
    BY <2>0 DEF Side
  <2>3. /\ e.writes # 1
        /\ \A u \in Tiles : e.pending[u] \in {0, pending[o][u]}
    BY <2>1, <2>2
  <2>4. o \in suppressed => e.suppressed
    <3>1. Side(o).suppressed <=> o \in suppressed
      BY DEF Side
    <3> QED BY <2>0, <3>1, Zenon
  <2>5. ~Asked(o, t, s)
    BY <1>2 DEF Asked
  <2> QED BY <2>0, <2>1, <2>3, <2>4, <2>5, Zenon DEF Fits
<1> QED BY <1>1, <1>2

LEMMA EdgeKeepsInv ==
  ASSUME WakeInv, NEW t \in Tiles, NEW s \in Statuses, NEW outs, Edge(t, s, outs),
         bound' \subseteq Tiles, UNCHANGED <<armed, crashes>>,
         status' \in [Tiles -> Statuses],
         \A u \in Tiles \ {t} : status'[u] = status[u],
         status'[t] \in {s, "busy"}
  PROVE  WakeInv'
<1> DEFINE someone == Actionable(s) /\ \E o \in armed \ {t} : Wants(o, t)
           n == edges[t] + (IF someone THEN 1 ELSE 0)
           sides == [o \in Orchestrators |->
                       IF o \in armed THEN Observed(o, t, s, n, outs[o]) ELSE Side(o)]
<1>1. TypeOK /\ PendingIsOwed /\ OwedIsHad /\ Unspent
  BY DEF WakeInv
<1>2. n \in Edges /\ edges' = [edges EXCEPT ![t] = n] /\ last' = [last EXCEPT ![t] = s]
  <2>1. edges[t] \in Nat /\ n \in Nat
    BY <1>1 DEF TypeOK, Items, Edges
  <2>2. n <= MaxEdges
    BY DEF Edge
  <2>3. n \in Edges
    BY <2>1, <2>2, WakeAssumption DEF Edges
  <2> QED BY <2>3 DEF Edge
<1>3. /\ last[t] # s
      /\ pending' = [o \in Orchestrators |-> sides[o].pending]
      /\ queue' = [o \in Orchestrators |-> sides[o].queue]
      /\ ship' = [o \in Orchestrators |-> sides[o].ship]
      /\ suppressed' = {o \in Orchestrators : sides[o].suppressed}
      /\ got' = [o \in Orchestrators |-> sides[o].got]
      /\ window' = Windows(t, s, sides)
  BY DEF Edge
<1>4. \A o \in Orchestrators : wanted'[o] = IF Asked(o, t, s) THEN [wanted[o] EXCEPT ![t] = n]
                                                       ELSE wanted[o]
  BY DEF Edge, Asked, Actionable
<1>5. wanted' \in [Orchestrators -> Items]
  <2>1. wanted' = [o \in Orchestrators |-> wanted'[o]]
    BY DEF Edge
  <2>2. ASSUME NEW o \in Orchestrators PROVE wanted'[o] \in Items
    <3>1. wanted[o] \in Items /\ [wanted[o] EXCEPT ![t] = n] \in Items
      BY <1>1, <1>2 DEF TypeOK, Items
    <3> QED BY <1>4, <3>1
  <2> QED BY <2>1, <2>2
<1>6. ASSUME NEW o \in Orchestrators
      PROVE  Fits(sides[o], o, t, s, n)
  <2>1. sides[o] = IF o \in armed THEN Observed(o, t, s, n, outs[o]) ELSE Side(o)
    OBVIOUS
  <2> HIDE DEF sides, n
  <2> QED BY <1>1, <1>2, <2>1, EdgeSides
<1> HIDE DEF sides, n, someone
<1>7. TypeOK'
  <2>1. /\ pending' \in [Orchestrators -> Items] /\ got' \in [Orchestrators -> Items]
        /\ queue' \in [Orchestrators -> Seq(Items)] /\ ship' \in [Orchestrators -> 0 .. MaxShip]
        /\ \A o \in Orchestrators : Len(queue'[o]) <= MaxDepth
    BY <1>3, <1>6 DEF SideType, Fits
  <2>2. window' \in [Orchestrators -> Nat]
    <3>1. \A o \in Orchestrators : sides[o].writes \in Nat
      BY <1>6 DEF SideType, Fits
    <3> QED BY <1>1, <1>3, <3>1 DEF TypeOK, Windows
  <2>3. edges' \in Items /\ last' \in [Tiles -> Statuses \cup {Nil}]
    BY <1>1, <1>2 DEF TypeOK, Items
  <2>4. suppressed' \subseteq Orchestrators
    BY <1>3
  <2> QED BY <1>1, <1>5, <2>1, <2>2, <2>3, <2>4 DEF TypeOK
<1>8. PendingIsOwed' /\ OwedIsHad'
  <2> SUFFICES ASSUME NEW o \in Orchestrators, NEW u \in Tiles
               PROVE  pending'[o][u] <= wanted'[o][u] /\ Has(Side(o)', u, wanted'[o][u])
    BY DEF PendingIsOwed, OwedIsHad
  <2>1. /\ pending'[o] = sides[o].pending
        /\ Side(o)'.pending = sides[o].pending
        /\ Side(o)'.got = sides[o].got /\ Side(o)'.queue = sides[o].queue
    BY <1>3 DEF Side
  <2>2. \A m \in Nat : Has(sides[o], u, m) => Has(Side(o)', u, m)
    BY <2>1, HasIsOfTheSide
  <2>3. n \in Nat /\ wanted[o] \in Items /\ wanted[o][u] \in Nat
    BY <1>1, <1>2 DEF TypeOK, Items, Edges
  <2>4. CASE u = t /\ Asked(o, t, s)
    <3>1. wanted'[o][u] = n
      BY <1>4, <2>3, <2>4 DEF Items
    <3>2. sides[o].pending[u] \in {0, n} /\ Has(sides[o], u, n)
      BY <1>6, <2>4 DEF Fits
    <3> QED BY <2>1, <2>2, <2>3, <3>1, <3>2
  <2>5. CASE ~(u = t /\ Asked(o, t, s))
    <3>1. wanted'[o][u] = wanted[o][u]
      BY <1>4, <2>3, <2>5 DEF Items
    <3>2. /\ sides[o].pending[u] \in {0, pending[o][u]}
          /\ \A m \in Nat : Has(Side(o), u, m) => Has(sides[o], u, m)
      BY <1>6, <2>5 DEF Fits
    <3>3. pending[o][u] <= wanted[o][u] /\ Has(Side(o), u, wanted[o][u])
      BY <1>1 DEF PendingIsOwed, OwedIsHad
    <3> QED BY <2>1, <2>2, <2>3, <3>1, <3>2, <3>3
  <2> QED BY <2>4, <2>5
<1>9. Unspent'
  <2> SUFFICES ASSUME NEW o \in Orchestrators
               PROVE  /\ window'[o] <= 1
                      /\ window'[o] = 1 => o \in suppressed'
                      /\ status'[o] = "ready" /\ last'[o] # "ready" => window'[o] = 0
    BY DEF Unspent
  <2>1. window'[o] = (IF o = t /\ s = "ready" /\ status[o] # "ready" THEN 0 ELSE window[o])
                       + sides[o].writes
    BY <1>3 DEF Windows
  <2>2. /\ window[o] <= 1 /\ window[o] \in Nat /\ (window[o] = 1 => o \in suppressed)
        /\ status[o] = "ready" /\ last[o] # "ready" => window[o] = 0
    BY <1>1 DEF Unspent, TypeOK
  <2>3. sides[o].writes \in {0, 1}
    BY <1>6 DEF SideType, Fits
  <2>4. /\ sides[o].writes = 1 => /\ o \in suppressed'
                                  /\ \/ o = t /\ s = "ready"
                                     \/ o # t /\ o \notin suppressed /\ last[o] = "ready"
        /\ o \in suppressed => o \in suppressed' \/ (o = t /\ s = "ready")
    BY <1>3, <1>6 DEF Fits
  <2>5. o \in Tiles
    BY WakeAssumption
  <2>6. last'[o] = IF o = t THEN s ELSE last[o]
    BY <1>1, <1>2, <2>5 DEF TypeOK
  <2>7. CASE o = t
    BY <1>3, <2>1, <2>2, <2>3, <2>4, <2>6, <2>7
  <2>8. CASE o # t
    BY <2>1, <2>2, <2>3, <2>4, <2>5, <2>6, <2>8
  <2> QED BY <2>7, <2>8
<1> QED BY <1>7, <1>8, <1>9 DEF WakeInv

(* An edge the notifier does not look at opens a window and no more.       *)
LEMMA UnseenKeepsInv ==
  ASSUME WakeInv, NEW t \in Tiles, NEW s \in Statuses, Unseen(t, s),
         bound' \subseteq Tiles, UNCHANGED <<armed, crashes>>,
         status' \in [Tiles -> Statuses],
         \A u \in Tiles \ {t} : status'[u] = status[u],
         status'[t] \in {s, "busy"}
  PROVE  WakeInv'
<1>1. TypeOK /\ Unspent
  BY DEF WakeInv
<1>2. \A o \in Orchestrators :
        window'[o] = IF o = t /\ s = "ready" /\ status[o] # "ready" THEN 0 ELSE window[o]
  BY <1>1 DEF Unseen, Windows, Side, TypeOK
<1>3. TypeOK'
  <2>1. window' \in [Orchestrators -> Nat]
    <3>1. window' = [o \in Orchestrators |-> window'[o]]
      BY <1>2 DEF Unseen, Windows
    <3>2. ASSUME NEW o \in Orchestrators PROVE window'[o] \in Nat
      <4>1. window[o] \in Nat
        BY <1>1 DEF TypeOK
      <4> QED BY <1>2, <4>1
    <3> QED BY <3>1, <3>2
  <2> QED BY <1>1, <2>1 DEF TypeOK, Unseen, notifier, durable
<1>4. PendingIsOwed' /\ OwedIsHad'
  BY UndisturbedFacts DEF Unseen, notifier, durable
<1>5. Unspent'
  BY <1>1, <1>2, WakeAssumption DEF Unspent, Unseen, notifier
<1> QED BY <1>3, <1>4, <1>5 DEF WakeInv

LEMMA StatusStepKeepsInv ==
  ASSUME WakeInv, NEW t \in Tiles, NEW outs,
         EndSession(t, outs) \/ \E s \in Statuses : Emit(t, s, outs)
  PROVE  WakeInv'
<1>0. TypeOK
  BY DEF WakeInv
<1>1. CASE EndSession(t, outs)
  <2> DEFINE s == IF status[t] = "ready" THEN "ready" ELSE "attention"
  <2>1. /\ Edge(t, s, outs) \/ Unseen(t, s)
        /\ bound' = bound \ {t} /\ status' = [status EXCEPT ![t] = "busy"]
        /\ UNCHANGED <<armed, crashes>>
    BY <1>1 DEF EndSession
  <2>2. s \in Statuses /\ "busy" \in Statuses
    BY DEF Statuses
  <2>3. /\ bound' \subseteq Tiles /\ status' \in [Tiles -> Statuses]
        /\ \A u \in Tiles \ {t} : status'[u] = status[u]
        /\ status'[t] = "busy"
    BY <1>0, <2>1, <2>2 DEF TypeOK
  <2> HIDE DEF s
  <2> QED BY <2>1, <2>2, <2>3, EdgeKeepsInv, UnseenKeepsInv
<1>2. ASSUME NEW s \in Statuses, Emit(t, s, outs)
      PROVE  WakeInv'
  <2>1. /\ Edge(t, s, outs) \/ Unseen(t, s)
        /\ bound' = bound /\ status' = [status EXCEPT ![t] = s]
        /\ UNCHANGED <<armed, crashes>>
    BY <1>2 DEF Emit
  <2>2. /\ bound' \subseteq Tiles /\ status' \in [Tiles -> Statuses]
        /\ \A u \in Tiles \ {t} : status'[u] = status[u]
        /\ status'[t] = s
    BY <1>0, <2>1 DEF TypeOK
  <2> QED BY <2>1, <2>2, EdgeKeepsInv, UnseenKeepsInv
<1> QED BY <1>1, <1>2

LEMMA WatchStepKeepsInv ==
  ASSUME WakeInv,
         \/ \E t \in Tiles : Bind(t)
         \/ \E o \in Orchestrators : Arm(o) \/ Disarm(o) \/ ShipMessage(o)
  PROVE  WakeInv'
<1>1. UNCHANGED <<status, last, pending, suppressed, queue, edges, wanted, got, window, crashes>>
  BY DEF Bind, Arm, Disarm, ShipMessage, notifier, durable, history
<1>2. PendingIsOwed' /\ OwedIsHad'
  BY <1>1, UndisturbedFacts
<1>3. Unspent'
  BY <1>1 DEF WakeInv, Unspent
<1>4. TypeOK'
  <2>1. bound' \subseteq Tiles /\ armed' \subseteq Orchestrators
    BY DEF WakeInv, TypeOK, Bind, Arm, Disarm, ShipMessage
  <2>2. ship' \in [Orchestrators -> 0 .. MaxShip]
    <3>1. ship \in [Orchestrators -> 0 .. MaxShip] /\ MaxShip \in Nat
      BY WakeAssumption DEF WakeInv, TypeOK
    <3>2. ASSUME NEW o \in Orchestrators, ShipMessage(o)
          PROVE  ship' \in [Orchestrators -> 0 .. MaxShip]
      <4>1. ship[o] + 1 \in 0 .. MaxShip /\ ship' = [ship EXCEPT ![o] = ship[o] + 1]
        BY <3>1, <3>2 DEF ShipMessage
      <4> QED BY <3>1, <4>1
    <3>3. (\E o \in Orchestrators : ShipMessage(o)) \/ ship' = ship
      BY DEF Bind, Arm, Disarm, durable
    <3> QED BY <3>1, <3>2, <3>3
  <2> QED BY <1>1, <2>1, <2>2 DEF WakeInv, TypeOK
<1> QED BY <1>2, <1>3, <1>4 DEF WakeInv

(* What was owed in memory only is forgotten with it; the rest was queued  *)
(* or told.                                                                *)
LEMMA CrashKeepsInv ==
  ASSUME WakeInv, Crash
  PROVE  WakeInv'
<1>1. /\ TypeOK /\ PendingIsOwed /\ OwedIsHad
  BY DEF WakeInv
<1>2. \A o \in Orchestrators, t \in Tiles :
        /\ pending'[o][t] = 0
        /\ wanted'[o][t] = IF pending[o][t] = wanted[o][t] THEN 0 ELSE wanted[o][t]
        /\ wanted[o][t] \in Nat /\ pending[o][t] \in Nat /\ got[o][t] \in Nat
  BY <1>1, NoItemsType DEF Crash, TypeOK, Items, Edges
<1>3. TypeOK'
  <2>1. wanted' \in [Orchestrators -> Items]
    BY <1>1, WakeAssumption DEF Crash, TypeOK, Items, Edges
  <2>2. pending' \in [Orchestrators -> Items]
    BY NoItemsType DEF Crash
  <2>3. crashes' \in 0 .. MaxCrashes
    BY <1>1, WakeAssumption DEF Crash, TypeOK
  <2> QED BY <1>1, <2>1, <2>2, <2>3 DEF Crash, TypeOK, Statuses, durable
<1>4. PendingIsOwed'
  BY <1>2 DEF PendingIsOwed
<1>5. OwedIsHad'
  <2> SUFFICES ASSUME NEW o \in Orchestrators, NEW t \in Tiles
               PROVE  Has(Side(o)', t, wanted'[o][t])
    BY DEF OwedIsHad
  <2>1. /\ Side(o)'.pending = pending'[o] /\ Side(o)'.got = got[o] /\ Side(o)'.queue = queue[o]
        /\ Side(o).pending = pending[o] /\ Side(o).got = got[o] /\ Side(o).queue = queue[o]
    BY DEF Side, Crash, durable
  <2>2. CASE pending[o][t] = wanted[o][t]
    BY <1>2, <2>1, <2>2 DEF Has
  <2>3. CASE pending[o][t] # wanted[o][t]
    <3>1. ~(pending[o][t] >= wanted[o][t])
      BY <1>1, <1>2, <2>3 DEF PendingIsOwed
    <3>2. Has(Side(o), t, wanted[o][t])
      BY <1>1 DEF OwedIsHad
    <3> QED BY <1>2, <2>1, <2>3, <3>1, <3>2 DEF Has
  <2> QED BY <2>2, <2>3
<1>6. Unspent'
  BY DEF Crash, Unspent
<1> QED BY <1>3, <1>4, <1>5, <1>6 DEF WakeInv

-----------------------------------------------------------------------------
LEMMA WakeInit == Init => WakeInv
<1> SUFFICES ASSUME Init PROVE WakeInv
  OBVIOUS
<1>1. TypeOK
  <2>1. queue \in [Orchestrators -> Seq(Items)] /\ \A o \in Orchestrators : Len(queue[o]) = 0
    BY DEF Init
  <2> QED BY <2>1, NoItemsType, WakeAssumption DEF Init, TypeOK, Statuses, Items, Edges
<1>2. PendingIsOwed
  BY NoItemsType DEF Init, PendingIsOwed
<1>3. OwedIsHad
  BY NoItemsType DEF Init, OwedIsHad, Has, Side
<1>4. Unspent
  BY DEF Init, Unspent
<1> QED BY <1>1, <1>2, <1>3, <1>4 DEF WakeInv

LEMMA WakeStep == WakeInv /\ [Next]_vars => WakeInv'
<1> SUFFICES ASSUME WakeInv, [Next]_vars PROVE WakeInv'
  OBVIOUS
<1>1. CASE UNCHANGED vars
  <2>1. PendingIsOwed' /\ OwedIsHad'
    BY <1>1, UndisturbedFacts DEF vars, notifier, durable, history
  <2> QED BY <1>1, <2>1 DEF WakeInv, TypeOK, Unspent, vars, notifier, durable, history
<1>2. CASE Next
  BY <1>2, StatusStepKeepsInv, WatchStepKeepsInv, CrashKeepsInv DEF Next
<1> QED BY <1>1, <1>2

LEMMA WakeInvariance == Spec => []WakeInv
BY WakeInit, WakeStep, PTL DEF Spec

(* Types, queues within the depth of the inbox included.                   *)
THEOREM TypeCorrect == Spec => []TypeOK
<1>1. WakeInv => TypeOK
  BY DEF WakeInv
<1> QED BY <1>1, WakeInvariance, PTL

(* The newest edge an orchestrator asked for is pending, queued or told,   *)
(* over coalescing, full queues, failed writes, the order in which watches *)
(* come and go, and the death of the process (fleet.rs: try_flush_durable).*)
THEOREM NoWakeIsLost == Spec => []WakeNotLost
<1>1. WakeInv => WakeNotLost
  BY DEF WakeInv, OwedIsHad, Has, Side, WakeNotLost, Held
<1> QED BY <1>1, WakeInvariance, PTL

(* Whatever edges are seen, passed over or forgotten, an orchestrator is   *)
(* written to once between two of its prompts (NotifierState.suppressed).  *)
THEOREM OneWriteInAWindow == Spec => []OneWritePerIdleWindow
<1>1. WakeInv => OneWritePerIdleWindow
  BY DEF WakeInv, Unspent, OneWritePerIdleWindow
<1> QED BY <1>1, WakeInvariance, PTL
==============================================================================
