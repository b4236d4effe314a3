--------------------------- MODULE CaptainsProofs ---------------------------
(***************************************************************************)
(* CaptainsRegistry for every set of ships, terminals and closers and      *)
(* every number of faults, ends and restarts.                              *)
(***************************************************************************)
EXTENDS CaptainsRegistry, FiniteSetTheorems, TLAPS

Commissioning == {"prepared", "minted", "bound", "started", "retire", "abort"}
Holding == {"checked", "frozen", "kill", "commit", "retire"}

Registry == [Ships -> Record \cup {Nil}]
Placement == [supervisors : SUBSET Tiles, crews : SUBSET Tiles]
Closer == [pc : CloserPcs, tile : Tiles \cup {Nil}, ship : Ships \cup {Nil},
           by : Tiles \cup {Nil}, stale : BOOLEAN, fresh : BOOLEAN]
\* A claim names the ship it is for.
Builder == {b \in Thread(BuilderPcs) : b.pc \in {"probed"} \cup Commissioning => b.ship \in Ships}
Startup == [pc : {"basis", "list", "reconcile", "prune", "done"}, basis : Placement,
            gone : SUBSET Tiles, old : SUBSET Tiles]

-----------------------------------------------------------------------------
(* What the operators on a registry return.                                *)

Nowhere(c, t) == Captaining(c, t) = {} /\ Crewing(c, t) = {}
RegisteredIn(c, t) == \E s \in Ships : c[s] # Nil /\ (c[s].term = t \/ c[s].crew[t] = "Active")

\* Record q is p without the terminals of e.
Stripped(q, p, e) ==
  IF p = Nil THEN q = Nil
  ELSE /\ q \in Record /\ q # Nil
       /\ q.term = IF p.term \in e THEN Nil ELSE p.term
       /\ q.bound = p.bound
       /\ \A t \in Tiles : q.crew[t] = IF t \in e /\ p.crew[t] # "none" THEN "Removed"
                                       ELSE IF p.term \in e /\ p.crew[t] = "Active" THEN "Orphaned"
                                       ELSE p.crew[t]

\* Registry d names no terminal that c does not name.
Thins(d, c) ==
  \A s \in Ships : d[s] # Nil =>
    /\ c[s] # Nil
    /\ d[s].term \in {c[s].term, Nil}
    /\ \A t \in Tiles : /\ d[s].crew[t] # "none" => c[s].crew[t] # "none"
                        /\ d[s].crew[t] = "Active" => c[s].crew[t] = "Active"

\* The captains of c, but for those of e, captain the same ship in d.
Spares(d, c, e) ==
  \A s \in Ships : c[s] # Nil /\ c[s].term \in Tiles \ e => d[s] # Nil /\ d[s].term = c[s].term

LEMMA NilFacts ==
  /\ Nil \notin Tiles /\ Nil \notin Ships /\ Nil \notin Record
  /\ \A x \in Tiles \cup {Nil}, y \in ClaimStates, z \in BOOLEAN : <<x, y, z>> # Nil
<1>1. Nil \notin Ships \cup Tiles \cup Record
  BY CaptainsAssumption
<1>2. Nil \notin (Tiles \cup {Nil}) \X ClaimStates \X BOOLEAN
  BY CaptainsAssumption
<1> QED BY <1>1, <1>2

LEMMA WithoutIs ==
  ASSUME NEW c \in Registry, NEW e \in SUBSET Tiles, NEW d, d = Without(c, e)
  PROVE  /\ d \in Registry /\ \A s \in Ships : Stripped(d[s], c[s], e)
         /\ Thins(d, c) /\ Spares(d, c, e) /\ \A t \in e : ~RegisteredIn(d, t)
<1>1. ASSUME NEW s \in Ships PROVE d[s] \in Record \cup {Nil} /\ Stripped(d[s], c[s], e)
  <2>1. CASE c[s] = Nil
    BY <2>1 DEF Without, Stripped
  <2>2. CASE c[s] # Nil
    <3>1. PICK p : p = c[s]
      OBVIOUS
    <3>2. p \in Record
      BY <2>2, <3>1 DEF Registry
    <3>3. PICK crew : crew = [t \in Tiles |->
                     IF t \in e /\ p.crew[t] # "none" THEN "Removed"
                     ELSE IF p.term \in e /\ p.crew[t] = "Active" THEN "Orphaned" ELSE p.crew[t]]
      OBVIOUS
    <3>4. crew \in [Tiles -> CrewStates]
      BY <3>2, <3>3 DEF Record, CrewStates
    <3>5. d[s] = [p EXCEPT !.term = IF p.term \in e THEN Nil ELSE @,
                           !.state = IF p.term \in e THEN "Orphaned" ELSE @, !.crew = crew]
      BY <2>2, <3>1, <3>2, <3>3 DEF Without, Record
    <3>6. d[s] \in Record /\ d[s].term = (IF p.term \in e THEN Nil ELSE p.term)
          /\ d[s].bound = p.bound /\ d[s].crew = crew
      BY <3>2, <3>4, <3>5 DEF Record, ClaimStates
    <3>7. d[s] # Nil
      BY <3>6, NilFacts
    <3> QED BY <2>2, <3>1, <3>3, <3>6, <3>7 DEF Stripped
  <2> QED BY <2>1, <2>2
<1>2. d \in Registry
  BY <1>1 DEF Without, Registry
<1>3. Thins(d, c)
  BY <1>1 DEF Stripped, Thins
<1>4. Spares(d, c, e)
  BY <1>1, NilFacts DEF Stripped, Spares
<1>5. ASSUME NEW t \in e PROVE ~RegisteredIn(d, t)
  BY <1>1, NilFacts DEF Stripped, RegisteredIn
<1> QED BY <1>1, <1>2, <1>3, <1>4, <1>5

LEMMA ThinsOn ==
  ASSUME NEW b, NEW c, NEW d, Thins(d, c), Thins(c, b)
  PROVE  Thins(d, b)
BY NilFacts DEF Thins

LEMMA ThinsFacts ==
  ASSUME NEW c, NEW d, Thins(d, c), NEW t \in Tiles
  PROVE  /\ Nowhere(c, t) => Nowhere(d, t)
         /\ RegisteredIn(d, t) => RegisteredIn(c, t)
BY NilFacts DEF Thins, Nowhere, Captaining, Crewing, RegisteredIn

LEMMA NowhereFacts ==
  ASSUME NEW c, NEW t \in Tiles, Nowhere(c, t)
  PROVE  /\ ~RegisteredIn(c, t)
         /\ t \notin Placed(Placements(c))
BY DEF Nowhere, Captaining, Crewing, RegisteredIn, Placed, Placements

LEMMA PlacementsType == ASSUME NEW c PROVE Placements(c) \in Placement
BY DEF Placements, Placement

\* A ship is captained by t, and nobody new is registered but t and what was seen.
ClaimOf(d, t, s, seen) ==
  /\ d[s] # Nil /\ d[s].term = t
  /\ \A u \in Tiles \ {t} : Nowhere(captains, u) => Nowhere(d, u)
  /\ \A u \in Tiles \ ({t} \cup seen) : RegisteredIn(d, u) => RegisteredIn(captains, u)

\* A claim of ship s by t takes another ship from nobody but t.
TakesOwn(d, t, s) == \A r \in Ships \ {s} : d[r] = captains[r] \/ (d[r] = Nil /\ captains[r] # Nil /\ captains[r].term = t)
\* Only ship s changed.
ChangesOnly(d, s) == \A r \in Ships \ {s} : d[r] = captains[r]

LEMMA ReadoptedIs ==
  ASSUME NEW crew \in [Tiles -> CrewStates], NEW seen, NEW gone
  PROVE  /\ Readopted(crew, seen, gone) \in [Tiles -> CrewStates]
         /\ \A u \in Tiles : /\ Readopted(crew, seen, gone)[u] # "none" => crew[u] # "none"
                             /\ Readopted(crew, seen, gone)[u] = "Active" => crew[u] = "Active" \/ u \in seen
<1>1. PICK f : f = Readopted(crew, seen, gone)
  OBVIOUS
<1>2. f = [u \in Tiles |-> f[u]]
  BY <1>1 DEF Readopted
<1>3. ASSUME NEW u \in Tiles
      PROVE  \/ crew[u] = "Orphaned" /\ u \in seen /\ f[u] = "Active"
             \/ crew[u] = "Orphaned" /\ f[u] = "Removed"
             \/ f[u] = crew[u]
  <2>1. f[u] = CASE crew[u] = "Orphaned" /\ u \in seen -> "Active"
                 [] crew[u] = "Orphaned" /\ u \in gone -> "Removed"
                 [] OTHER -> crew[u]
    BY <1>1 DEF Readopted
  <2> QED BY <2>1
<1>4. \A u \in Tiles : f[u] \in CrewStates
  BY <1>3 DEF CrewStates
<1>5. \A u \in Tiles : (f[u] # "none" => crew[u] # "none") /\ (f[u] = "Active" => crew[u] = "Active" \/ u \in seen)
  BY <1>3
<1> QED BY <1>1, <1>2, <1>4, <1>5

LEMMA ClaimedIs ==
  ASSUME captains \in Registry, NEW t \in Tiles, NEW s \in Ships, NEW seen \in SUBSET Tiles,
         NEW gone \in SUBSET Tiles, NEW b \in BOOLEAN, NEW d, d = Claimed(t, s, seen, gone, b)
  PROVE  d \in Registry /\ ClaimOf(d, t, s, seen) /\ TakesOwn(d, t, s)
<1>1. CASE captains[s] = Nil
  <2>1. PICK from : from = Captaining(captains, t)
    OBVIOUS
  <2>2. PICK first : first = IF from = {}
          THEN [term |-> t, state |-> "Active", bound |-> b, crew |-> [u \in Tiles |-> "none"]]
          ELSE LET r == CHOOSE r \in from : TRUE IN [captains[r] EXCEPT !.state = "Active", !.bound = @ \/ b]
    OBVIOUS
  <2>3. d = [r \in Ships |-> IF r = s THEN first ELSE IF r \in from THEN Nil ELSE captains[r]]
    BY <1>1, <2>1, <2>2 DEF Claimed
  <2>4. /\ first \in Record /\ first.term = t
        /\ \A u \in Tiles : \/ first.crew[u] = "none"
                            \/ \E r \in Ships : captains[r] # Nil /\ first.crew[u] = captains[r].crew[u]
    <3>1. CASE from = {}
      BY <2>2, <3>1 DEF Record, ClaimStates, CrewStates
    <3>2. CASE from # {}
      <4>1. PICK r \in from : first = [captains[r] EXCEPT !.state = "Active", !.bound = @ \/ b]
        BY <2>2, <3>2
      <4>2. r \in Ships /\ captains[r] # Nil /\ captains[r].term = t
        BY <2>1, <4>1 DEF Captaining
      <4>3. captains[r] \in Record
        BY <4>2 DEF Registry
      <4>4. first \in Record /\ first.term = t /\ first.crew = captains[r].crew
        BY <4>1, <4>2, <4>3 DEF Record, ClaimStates
      <4> QED BY <4>2, <4>4
    <3> QED BY <3>1, <3>2
  <2>5. first # Nil
    BY <2>4, NilFacts
  <2>6. d \in Registry
    BY <2>3, <2>4 DEF Registry
  <2>7. \A u \in Tiles \ {t} : Nowhere(captains, u) => Nowhere(d, u)
    BY <2>3, <2>4 DEF Nowhere, Captaining, Crewing
  <2>8. \A u \in Tiles \ ({t} \cup seen) : RegisteredIn(d, u) => RegisteredIn(captains, u)
    BY <2>3, <2>4 DEF RegisteredIn
  <2>9. d[s] = first /\ \A r \in Ships \ {s} :
           d[r] = captains[r] \/ (d[r] = Nil /\ captains[r] # Nil /\ captains[r].term = t)
    BY <2>1, <2>3 DEF Captaining
  <2> QED BY <2>4, <2>5, <2>6, <2>7, <2>8, <2>9 DEF ClaimOf, TakesOwn
<1>2. CASE captains[s] # Nil
  <2>1. PICK p : p = captains[s]
    OBVIOUS
  <2>2. p \in Record
    BY <1>2, <2>1 DEF Registry
  <2>3. PICK crew : crew = IF p.term = t THEN p.crew ELSE Readopted(p.crew, seen, gone)
    OBVIOUS
  <2>4. /\ crew \in [Tiles -> CrewStates]
        /\ \A u \in Tiles : /\ crew[u] # "none" => p.crew[u] # "none"
                            /\ crew[u] = "Active" => p.crew[u] = "Active" \/ u \in seen
    <3>1. p.crew \in [Tiles -> CrewStates]
      BY <2>2 DEF Record
    <3>2. CASE p.term = t
      BY <2>3, <3>1, <3>2
    <3>3. CASE p.term # t
      <4>1. crew = Readopted(p.crew, seen, gone)
        BY <2>3, <3>3
      <4> QED BY <3>1, <4>1, ReadoptedIs
    <3> QED BY <3>2, <3>3
  <2>5. PICK q : q = Taken(p, t, seen, gone, b)
    OBVIOUS
  <2>6. q \in Record /\ q.term = t /\ q.crew = crew
    BY <2>2, <2>3, <2>4, <2>5 DEF Record, ClaimStates, Taken
  <2>7. q # Nil
    BY <2>6, NilFacts
  <2>8. d = [captains EXCEPT ![s] = q]
    BY <1>2, <2>1, <2>5 DEF Claimed
  <2>9. d \in Registry /\ d[s] = q /\ \A r \in Ships \ {s} : d[r] = captains[r]
    BY <2>6, <2>8 DEF Registry
  <2>10. \A u \in Tiles \ {t} : Nowhere(captains, u) => Nowhere(d, u)
    BY <1>2, <2>1, <2>4, <2>6, <2>9 DEF Nowhere, Captaining, Crewing
  <2>11. \A u \in Tiles \ ({t} \cup seen) : RegisteredIn(d, u) => RegisteredIn(captains, u)
    BY <1>2, <2>1, <2>4, <2>6, <2>9 DEF RegisteredIn
  <2> QED BY <2>6, <2>7, <2>9, <2>10, <2>11 DEF ClaimOf, TakesOwn
<1> QED BY <1>1, <1>2

\* A new crew member.
LEMMA CrewIs ==
  ASSUME captains \in Registry, NEW t \in Tiles, NEW s \in Ships, captains[s] # Nil,
         NEW d, d = [captains EXCEPT ![s].crew[t] = "Active"]
  PROVE  /\ d \in Registry
         /\ \A u \in Tiles \ {t} : /\ Nowhere(captains, u) => Nowhere(d, u)
                                   /\ RegisteredIn(d, u) => RegisteredIn(captains, u)
         /\ Spares(d, captains, {})
<1>1. PICK p : p = captains[s]
  OBVIOUS
<1>2. p \in Record
  BY <1>1 DEF Registry
<1>3. PICK q : q = [p EXCEPT !.crew[t] = "Active"]
  OBVIOUS
<1>4. q \in Record /\ q.term = p.term /\ \A u \in Tiles \ {t} : q.crew[u] = p.crew[u]
  BY <1>2, <1>3 DEF Record, CrewStates
<1>5. d = [captains EXCEPT ![s] = q]
  BY <1>1, <1>3
<1>6. d \in Registry /\ d[s] = q /\ q # Nil /\ \A r \in Ships \ {s} : d[r] = captains[r]
  BY <1>4, <1>5, NilFacts DEF Registry
<1>7. \A u \in Tiles \ {t} : Nowhere(captains, u) => Nowhere(d, u)
  BY <1>1, <1>4, <1>6 DEF Nowhere, Captaining, Crewing
<1>8. \A u \in Tiles \ {t} : RegisteredIn(d, u) => RegisteredIn(captains, u)
  BY <1>1, <1>4, <1>6 DEF RegisteredIn
<1>9. Spares(d, captains, {})
  BY <1>1, <1>4, <1>6 DEF Spares
<1> QED BY <1>6, <1>7, <1>8, <1>9

LEMMA ReleasedIs ==
  ASSUME captains \in Registry, NEW s \in Ships, NEW kept \in BOOLEAN, captains[s] # Nil,
         NEW d, d = [captains EXCEPT ![s] = IF kept THEN [@ EXCEPT !.state = "Vacant", !.term = Nil] ELSE Nil]
  PROVE  d \in Registry /\ Thins(d, captains) /\ ChangesOnly(d, s)
<1>1. PICK p : p = captains[s]
  OBVIOUS
<1>2. p \in Record
  BY <1>1 DEF Registry
<1>3. PICK q : q = IF kept THEN [p EXCEPT !.state = "Vacant", !.term = Nil] ELSE Nil
  OBVIOUS
<1>4. q = Nil \/ (q \in Record /\ q.term = Nil /\ q.crew = p.crew)
  BY <1>2, <1>3 DEF Record, ClaimStates
<1>5. d = [captains EXCEPT ![s] = q]
  BY <1>1, <1>3
<1>6. d \in Registry /\ d[s] = q /\ \A r \in Ships \ {s} : d[r] = captains[r]
  BY <1>4, <1>5 DEF Registry
<1>7. Thins(d, captains)
  BY <1>1, <1>4, <1>6 DEF Thins
<1> QED BY <1>6, <1>7 DEF ChangesOnly

-----------------------------------------------------------------------------
(* What a commit leaves in the closers.                                    *)

\* Who holds the ship a closer's tile belongs to.
HoldsIn(c, b) ==
  /\ c[b.ship] # Nil
  /\ c[b.ship].term = b.by
  /\ c[b.ship].crew[b.tile] # "none"

\* new is old after a commit of registry d.
Matured(new, old, d) ==
  /\ new \in Closer /\ new.pc = old.pc /\ new.tile = old.tile /\ new.ship = old.ship /\ new.by = old.by
  /\ new.fresh = FALSE
  /\ ~new.stale => ~old.stale /\ (old.ship # Nil /\ old.tile # Nil /\ HoldsIn(captains, old) => HoldsIn(d, new))

LEMMA AgedIs ==
  ASSUME captains \in Registry, NEW d \in Registry, NEW cl \in [Closers -> Closer],
         NEW e, e = Aged(cl, d)
  PROVE  e \in [Closers -> Closer] /\ \A k \in Closers : Matured(e[k], cl[k], d)
<1>1. ASSUME NEW k \in Closers PROVE Matured(e[k], cl[k], d)
  <2>1. PICK b : b = cl[k]
    OBVIOUS
  <2>2. b \in Closer
    BY <2>1
  <2>3. PICK moved \in BOOLEAN : moved <=>
          /\ b.ship # Nil
          /\ \/ Captaincy(captains, b.ship) # Captaincy(d, b.ship)
             \/ Membership(captains, b.tile) # Membership(d, b.tile)
    OBVIOUS
  <2>4. e[k] = [b EXCEPT !.fresh = FALSE, !.stale = @ \/ moved]
    BY <2>1, <2>3 DEF Aged
  <2>5. /\ e[k] \in Closer /\ e[k].pc = b.pc /\ e[k].tile = b.tile /\ e[k].ship = b.ship /\ e[k].by = b.by
        /\ e[k].fresh = FALSE
    BY <2>2, <2>4 DEF Closer
  <2>6. e[k].stale <=> b.stale \/ moved
    BY <2>2, <2>4 DEF Closer
  <2>7. ASSUME ~moved, b.ship # Nil, b.tile # Nil, HoldsIn(captains, b) PROVE HoldsIn(d, e[k])
    <3>1. PICK s, t : s = b.ship /\ t = b.tile
      OBVIOUS
    <3>2. s \in Ships /\ t \in Tiles
      BY <2>2, <2>7, <3>1 DEF Closer
    <3>3. captains[s] # Nil /\ captains[s].term = b.by /\ captains[s].crew[t] # "none"
      BY <2>7, <3>1 DEF HoldsIn
    <3>4. Captaincy(captains, s) = Captaincy(d, s) /\ Membership(captains, t) = Membership(d, t)
      BY <2>3, <2>7, <3>1
    <3>5. d[s] # Nil /\ d[s].term = captains[s].term
      <4>1. captains[s] \in Record
        BY <3>2, <3>3 DEF Registry
      <4>2. PICK m : m = <<captains[s].term, captains[s].state, captains[s].bound>>
        OBVIOUS
      <4>3. m # Nil /\ m[1] = captains[s].term
        BY <4>1, <4>2, NilFacts DEF Record
      <4>4. Captaincy(d, s) = m
        BY <3>3, <3>4, <4>2 DEF Captaincy
      <4>5. d[s] # Nil
        BY <4>3, <4>4 DEF Captaincy
      <4>6. m = <<d[s].term, d[s].state, d[s].bound>>
        BY <4>4, <4>5 DEF Captaincy
      <4> QED BY <4>3, <4>5, <4>6
    <3>6. d[s].crew[t] # "none"
      <4>1. s \in Crewing(captains, t)
        BY <3>2, <3>3 DEF Crewing
      <4>2. <<s, captains[s].crew[t]>> \in Membership(d, t)
        BY <3>4, <4>1 DEF Membership
      <4>3. PICK r \in Crewing(d, t) : <<s, captains[s].crew[t]>> = <<r, d[r].crew[t]>>
        BY <4>2 DEF Membership
      <4> QED BY <4>3 DEF Crewing
    <3> QED BY <2>5, <3>1, <3>3, <3>5, <3>6 DEF HoldsIn
  <2> QED BY <2>1, <2>5, <2>6, <2>7 DEF Matured
<1>2. e = [k \in Closers |-> e[k]]
  BY DEF Aged
<1> QED BY <1>1, <1>2 DEF Matured

\* commit_mutation publishes a valid registry without the excluded terminals, and every
\* thread that holds an authority it changed has gone stale.
Committed(c, o, e, cl) ==
  /\ captains' \in Registry /\ Valid(captains') /\ Thins(captains', c) /\ Spares(captains', c, e)
  /\ \A t \in e : ~RegisteredIn(captains', t)
  /\ ops' = o /\ excluded' = {}
  /\ closer' \in [Closers -> Closer] /\ \A k \in Closers : Matured(closer'[k], cl[k], captains')

LEMMA CommitFacts ==
  ASSUME captains \in Registry, NEW c \in Registry, NEW o, NEW e \in SUBSET Tiles,
         NEW cl \in [Closers -> Closer], Commit(c, o, e, cl)
  PROVE  Committed(c, o, e, cl)
<1>1. PICK new : new = Without(c, e)
  OBVIOUS
<1>2. new \in Registry /\ Thins(new, c) /\ Spares(new, c, e) /\ \A t \in e : ~RegisteredIn(new, t)
  BY <1>1, WithoutIs
<1>3. Valid(new) /\ captains' = new /\ ops' = o /\ excluded' = {} /\ closer' = Aged(cl, new)
  BY <1>1 DEF Commit
<1>4. closer' \in [Closers -> Closer] /\ \A k \in Closers : Matured(closer'[k], cl[k], new)
  BY <1>2, <1>3, AgedIs
<1> QED BY <1>2, <1>3, <1>4 DEF Committed

-----------------------------------------------------------------------------
(* The invariant.                                                          *)

Typed ==
  /\ captains \in Registry /\ Valid(captains)
  /\ ops \subseteq Operation /\ todo \subseteq ops
  /\ \A o, p \in ops : Intent(o) /\ Intent(p) => o = p
  /\ excluded \subseteq Tiles
  /\ used \subseteq Tiles /\ live \subseteq used /\ idents \subseteq used
  /\ raw \subseteq used /\ killed \subseteq used \ live
  /\ builder \in Builder /\ closer \in [Closers -> Closer] /\ startup \in Startup
  /\ faults \in 0..MaxFaults /\ ends \in 0..MaxEnds /\ crashes \in 0..MaxCrashes

\* Nothing is served while the startup recovery replays.
Replaying == todo # {} => builder.pc = "idle" /\ \A k \in Closers : closer[k].pc = "idle"

\* Only terminal ids that were given out are named.
Used ==
  /\ \A t \in Tiles \ used : Nowhere(captains, t)
  /\ \A o \in ops : o.tile \in used
  /\ \A k \in Closers : closer[k].tile \in used \cup {Nil}
  /\ builder.pc # "idle" => builder.tile \in used
  /\ startup.old \cup startup.gone \cup Placed(startup.basis) \cup excluded \subseteq used

\* What is excluded or was found gone is dead, and it is not the tile being built.
Gone ==
  /\ (excluded \cup startup.gone) \cap live = {}
  /\ builder.pc \notin {"idle", "probed"} =>
       builder.tile \notin excluded \cup startup.gone \cup startup.old \cup Placed(startup.basis)

IntentFor(o, t) == \E p \in o : Intent(p) /\ p.tile = t

\* The tile being built is known to nobody else, and its intent is durable.
Built ==
  /\ builder.pc \notin {"idle", "probed"} =>
       Nowhere(captains, builder.tile) /\ \A k \in Closers : closer[k].tile # builder.tile
  /\ builder.pc \in {"spawned", "prepared", "minted", "bound", "started"} => builder.tile \notin killed
  /\ builder.pc \in {"prepared", "minted", "bound", "retire", "abort"} => builder.tile \notin live
  /\ builder.pc \in {"prepared", "abort"} => builder.tile \notin idents
  /\ builder.pc \in Commissioning => IntentFor(ops, builder.tile)
  /\ builder.pc \in {"probed", "spawned"} => ~IntentFor(ops, builder.tile)

\* An intent to commission names a tile nobody holds yet.
Intended ==
  \A o \in ops : Intent(o) =>
    /\ Nowhere(captains, o.tile)
    /\ builder.pc \in {"bound", "started"} => o.ident
    /\ o.tile \in live => o.ident /\ (o \in todo \/ builder.pc = "started")

\* Startup prunes the identity of t.
Prunes(t) ==
  /\ startup.pc # "done" /\ t \in startup.old /\ t \notin live
  /\ startup.pc \in {"reconcile", "prune"} => t \in startup.gone

RawLogged == \A t \in raw \cap (live \cup idents) : Prunes(t) \/ IntentFor(ops, t)

TodoPruned == \A o \in todo : Intent(o) /\ ~o.ident /\ o.tile \in idents => Prunes(o.tile)

\* Steps of two closes of one tile exclude each other, and the kill follows the intent.
Turns ==
  /\ \A k \in Closers : closer[k].tile = Nil <=> closer[k].pc = "idle"
  /\ \A j, k \in Closers : closer[j].pc \in Holding /\ closer[k].pc \in Holding
                             /\ closer[j].tile = closer[k].tile => j = k
  /\ \A k \in Closers : closer[k].pc \in {"kill", "commit"} => CloseIntent(closer[k].tile) \in ops
  /\ \A k \in Closers : closer[k].pc = "commit" => closer[k].tile \in killed

\* What is struck from the registry stays out of it.
Closed ==
  "claim" \notin Races =>
    /\ \A t \in killed : RegisteredIn(captains, t) => CloseIntent(t) \in ops
    /\ \A k \in Closers : closer[k].pc = "removed" => ~RegisteredIn(captains, closer[k].tile)

\* A close that has not gone stale still has its authority.
Authorized ==
  \A k \in Closers : closer[k].pc \in {"waiting", "checked", "frozen"} /\ closer[k].ship # Nil =>
    /\ ~closer[k].stale => HoldsIn(captains, closer[k])
    /\ "close" \notin Races /\ closer[k].pc = "frozen" /\ closer[k].fresh => ~closer[k].stale

CaptainsInv ==
  /\ Typed /\ Replaying /\ Used /\ Gone /\ Built /\ Intended
  /\ RawLogged /\ TodoPruned /\ Turns /\ Closed /\ Authorized

LEMMA CloseIntentIs ==
  ASSUME Typed, NEW t \in Tiles
  PROVE  /\ Closing(t) # {} <=> CloseIntent(t) \in ops
         /\ \A o \in Closing(t) : o = CloseIntent(t)
         /\ ~Intent(CloseIntent(t)) /\ CloseIntent(t).tile = t
<1>1. ASSUME NEW o \in ops, o.kind = "close" PROVE o = CloseIntent(o.tile)
  <2>1. o \in [kind : {"close"}, tile : Tiles, ship : {Nil}, ident : {FALSE}]
    BY <1>1 DEF Typed, Operation
  <2>2. /\ o = [kind |-> o.kind, tile |-> o.tile, ship |-> o.ship, ident |-> o.ident]
        /\ o.kind = "close" /\ o.ship = Nil /\ o.ident = FALSE
    BY <2>1
  <2> QED BY <2>2 DEF CloseIntent
<1>2. CloseIntent(t).kind = "close" /\ CloseIntent(t).tile = t
  BY DEF CloseIntent
<1> QED BY <1>1, <1>2 DEF Closing, Intent

LEMMA RegisteredIs == \A t : Registered(t) <=> RegisteredIn(captains, t)
BY DEF Registered, RegisteredIn

\* The builder one step on.
LEMMA AtIs ==
  ASSUME builder \in Builder, builder.pc \in Commissioning, NEW pc \in BuilderPcs, NEW b, b = At(pc)
  PROVE  b \in Builder /\ b.pc = pc /\ b.tile = builder.tile /\ b.ship = builder.ship
BY DEF Builder, Thread, At

LEMMA IdleIs == Idle \in Builder /\ Idle.pc = "idle"
BY DEF Idle, Builder, Thread, BuilderPcs, Commissioning

\* A step of a thread other than the closers, that leaves the registry alone.
Quiet == captains' = captains /\ ops' = ops /\ closer' = closer

LEMMA QuietCloses ==
  ASSUME Turns, Authorized, Quiet, killed' = killed
  PROVE  Turns' /\ Authorized'
BY DEF Turns, Authorized, Quiet, HoldsIn

LEMMA CountersIs ==
  /\ Ends /\ ends \in 0..MaxEnds => ends' \in 0..MaxEnds
  /\ PersistFails /\ faults \in 0..MaxFaults => faults' \in 0..MaxFaults
BY CaptainsAssumption DEF Ends, PersistFails

LEMMA DiesStep ==
  ASSUME CaptainsInv, NEW t \in Tiles, Dies(t)
  PROVE  CaptainsInv'
<1> USE DEF CaptainsInv, Dies, registryVars, historyVars
<1>1. Typed'
  BY CountersIs DEF Typed
<1>2. Replaying' /\ Used' /\ Gone' /\ Built' /\ Intended'
  BY DEF Typed, Replaying, Used, Gone, Built, Intended
<1>3. RawLogged' /\ TodoPruned'
  BY DEF RawLogged, TodoPruned, Prunes
<1>4. Turns' /\ Authorized' /\ Closed'
  BY QuietCloses DEF Quiet, Closed
<1> QED BY <1>1, <1>2, <1>3, <1>4

LEMMA ClaimProbesStep ==
  ASSUME CaptainsInv, NEW t \in Tiles, NEW s \in Ships, ClaimProbes(t, s)
  PROVE  CaptainsInv'
<1> USE DEF CaptainsInv, ClaimProbes, registryVars, historyVars, worldVars
<1>1. builder' \in Builder /\ builder'.pc = "probed" /\ builder'.tile = t
  BY DEF Builder, Thread, BuilderPcs, Commissioning, Orphans
<1>2. t \in live /\ todo = {} /\ builder.pc = "idle"
  BY DEF Serving, Alive
<1>3. Typed' /\ Replaying'
  BY <1>1, <1>2 DEF Typed, Replaying
<1>4. Used' /\ Gone'
  BY <1>1, <1>2 DEF Typed, Used, Gone
<1>5. Built' /\ Intended'
  BY <1>1, <1>2 DEF Built, Intended, IntentFor, Commissioning
<1>6. RawLogged' /\ TodoPruned'
  BY <1>1, <1>2 DEF RawLogged, TodoPruned, Prunes
<1>7. Turns' /\ Authorized' /\ Closed'
  BY QuietCloses DEF Quiet, Closed
<1> QED BY <1>3, <1>4, <1>5, <1>6, <1>7

LEMMA ClaimRefusedStep ==
  ASSUME CaptainsInv, ClaimRefused
  PROVE  CaptainsInv'
<1> USE DEF CaptainsInv, ClaimRefused, registryVars, historyVars, worldVars
<1>1. builder' \in Builder /\ builder'.pc = "idle" /\ builder.pc = "probed"
  BY IdleIs
<1>3. Typed' /\ Replaying'
  BY <1>1 DEF Typed, Replaying
<1>4. Used' /\ Gone'
  BY <1>1 DEF Typed, Used, Gone
<1>5. Built' /\ Intended'
  BY <1>1 DEF Built, Intended, Commissioning
<1>6. RawLogged' /\ TodoPruned'
  BY <1>1 DEF RawLogged, TodoPruned, Prunes
<1>7. Turns' /\ Authorized' /\ Closed'
  BY QuietCloses DEF Quiet, Closed
<1> QED BY <1>3, <1>4, <1>5, <1>6, <1>7

LEMMA SpawnStep ==
  ASSUME CaptainsInv, NEW t \in Tiles, NEW by \in Tiles \cup {Nil}, Spawn(t, by)
  PROVE  CaptainsInv'
<1> USE DEF CaptainsInv, Spawn, registryVars, historyVars
<1>1. t \notin used /\ todo = {} /\ builder.pc = "idle" /\ t # Nil
  BY NilFacts DEF Serving
<1>2. /\ builder' \in Builder /\ builder'.pc \in {"idle", "spawned"}
      /\ builder'.pc = "spawned" => builder'.tile = t
  BY DEF Idle, Builder, Thread, BuilderPcs, Commissioning
<1>3. Typed'
  BY <1>1, <1>2 DEF Typed
<1>4. Replaying' /\ Used' /\ Gone'
  BY <1>1, <1>2 DEF Typed, Replaying, Used, Gone
<1>5. Nowhere(captains, t) /\ ~IntentFor(ops, t) /\ t \notin killed /\ \A k \in Closers : closer[k].tile # t
  BY <1>1 DEF Typed, Used, IntentFor
<1>6. Built'
  BY <1>1, <1>2, <1>5 DEF Built, Commissioning
<1>7. Intended'
  BY <1>1, <1>2, <1>5 DEF Intended, IntentFor
<1>8. RawLogged' /\ TodoPruned'
  BY <1>1 DEF Typed, RawLogged, TodoPruned, Prunes
<1>9. Turns' /\ Authorized' /\ Closed'
  BY QuietCloses DEF Quiet, Closed
<1> QED BY <1>3, <1>4, <1>6, <1>7, <1>8, <1>9

LEMMA SpawnUndoneStep ==
  ASSUME CaptainsInv, SpawnUndone
  PROVE  CaptainsInv'
<1> USE DEF CaptainsInv, SpawnUndone, registryVars, historyVars
<1>1. builder' \in Builder /\ builder'.pc = "idle" /\ builder.pc = "spawned"
  BY IdleIs
<1>2. Typed'
  BY <1>1, CountersIs DEF Typed
<1>3. Replaying' /\ Used' /\ Gone' /\ Built'
  BY <1>1 DEF Typed, Replaying, Used, Gone, Built, Commissioning
<1>4. Intended'
  BY <1>1 DEF Intended
<1>5. RawLogged' /\ TodoPruned'
  BY <1>1 DEF RawLogged, TodoPruned, Prunes
<1>6. Turns' /\ Authorized' /\ Closed'
  BY QuietCloses DEF Quiet, Closed
<1> QED BY <1>2, <1>3, <1>4, <1>5, <1>6

-----------------------------------------------------------------------------
(* The steps of a commission.                                              *)

\* Only the commissioning thread has an intent, and it names its tile.
LEMMA IntentIsOurs ==
  ASSUME Typed, Built, builder.pc \in Commissioning, NEW o \in ops, Intent(o)
  PROVE  o.tile = builder.tile
BY DEF Typed, Built, IntentFor

LEMMA CommissionMintsStep ==
  ASSUME CaptainsInv, CommissionMints
  PROVE  CaptainsInv'
<1> USE DEF CaptainsInv, CommissionMints, registryVars, historyVars
<1>1. /\ builder' \in Builder /\ builder'.pc \in {"minted", "abort"} /\ builder'.tile = builder.tile
      /\ builder'.pc = "abort" => idents' = idents
  BY AtIs DEF Typed, BuilderPcs, Commissioning
<1>2. builder.pc = "prepared" /\ builder.tile \in used /\ builder.tile \notin live
  BY DEF Used, Built
<1>3. Typed'
  BY <1>1, <1>2 DEF Typed
<1>4. Replaying' /\ Used' /\ Gone'
  BY <1>1, <1>2 DEF Replaying, Used, Gone
<1>5. Built'
  BY <1>1, <1>2 DEF Built, Commissioning
<1>6. Intended'
  BY <1>1, <1>2 DEF Intended
<1>7. IntentFor(ops, builder.tile) /\ idents' \subseteq idents \cup {builder.tile}
  BY <1>2 DEF Built, Commissioning
<1>8. RawLogged'
  BY <1>7 DEF RawLogged, Prunes
<1>9. todo = {}
  BY <1>2 DEF Replaying
<1>10. TodoPruned'
  BY <1>9 DEF TodoPruned
<1>11. Turns' /\ Authorized' /\ Closed'
  BY QuietCloses DEF Quiet, Closed
<1> QED BY <1>3, <1>4, <1>5, <1>6, <1>8, <1>10, <1>11

LEMMA CommissionUnboundStep ==
  ASSUME CaptainsInv, CommissionUnbound
  PROVE  CaptainsInv'
<1> USE DEF CaptainsInv, CommissionUnbound, registryVars, historyVars, worldVars
<1>1. builder' \in Builder /\ builder'.pc = "retire" /\ builder'.tile = builder.tile
  BY AtIs DEF Typed, BuilderPcs, Commissioning
<1>2. builder.pc = "minted"
  OBVIOUS
<1>3. Typed'
  BY <1>1, CountersIs DEF Typed
<1>4. Replaying' /\ Used' /\ Gone'
  BY <1>1, <1>2 DEF Replaying, Used, Gone
<1>5. Built'
  BY <1>1, <1>2 DEF Built, Commissioning
<1>6. Intended'
  BY <1>1, <1>2 DEF Intended
<1>7. RawLogged' /\ TodoPruned'
  BY <1>1 DEF RawLogged, TodoPruned, Prunes
<1>8. Turns' /\ Authorized' /\ Closed'
  BY QuietCloses DEF Quiet, Closed
<1> QED BY <1>3, <1>4, <1>5, <1>6, <1>7, <1>8

LEMMA CommissionStartsStep ==
  ASSUME CaptainsInv, CommissionStarts
  PROVE  CaptainsInv'
<1> USE DEF CaptainsInv, CommissionStarts, registryVars, historyVars
<1>1. /\ builder' \in Builder
      /\ \/ builder'.pc = "started" /\ builder'.tile = builder.tile /\ live' = live \cup {builder.tile}
         \/ builder'.pc = "retire" /\ builder'.tile = builder.tile /\ live' = live
         \/ builder'.pc = "idle" /\ live' = live
  BY AtIs, IdleIs DEF Typed, BuilderPcs, Commissioning
<1>2. /\ builder.pc = "bound" /\ builder.tile \in used /\ builder.tile \notin killed
      /\ builder.tile \notin excluded \cup startup.gone \cup startup.old
      /\ todo = {}
  BY DEF Used, Built, Gone, Replaying
<1>3. Typed'
  BY <1>1, <1>2 DEF Typed
<1>4. Replaying' /\ Used' /\ Gone'
  BY <1>1, <1>2 DEF Replaying, Used, Gone
<1>5. Built'
  BY <1>1, <1>2 DEF Built, Commissioning
<1>6. \A o \in ops : Intent(o) => o.tile = builder.tile /\ o.ident /\ Nowhere(captains, o.tile) /\ o.tile \notin live
  BY <1>2, IntentIsOurs DEF Intended, Commissioning, Built
<1>7. Intended'
  BY <1>1, <1>6 DEF Intended
<1>8. IntentFor(ops, builder.tile) /\ live' \subseteq live \cup {builder.tile}
  BY <1>1, <1>2 DEF Built, Commissioning
<1>9. RawLogged'
  BY <1>8 DEF RawLogged, Prunes
<1>10. TodoPruned'
  BY <1>2 DEF TodoPruned
<1>11. Turns' /\ Authorized' /\ Closed'
  BY QuietCloses DEF Quiet, Closed
<1> QED BY <1>3, <1>4, <1>5, <1>7, <1>9, <1>10, <1>11

LEMMA CommissionKillsStep ==
  ASSUME CaptainsInv, CommissionKills
  PROVE  CaptainsInv'
<1> USE DEF CaptainsInv, CommissionKills, registryVars
<1>1. builder' \in Builder /\ builder'.pc = "retire" /\ builder'.tile = builder.tile
  BY AtIs DEF Typed, BuilderPcs, Commissioning
<1>2. /\ builder.pc = "started" /\ builder.tile \in used /\ Nowhere(captains, builder.tile)
      /\ \A k \in Closers : closer[k].tile # builder.tile
      /\ todo = {}
  BY DEF Used, Built, Replaying
<1>3. Typed'
  BY <1>1, <1>2 DEF Typed
<1>4. Replaying' /\ Used' /\ Gone'
  BY <1>1, <1>2 DEF Replaying, Used, Gone
<1>5. Built'
  BY <1>1, <1>2 DEF Built, Commissioning
<1>6. \A o \in ops : Intent(o) => o.tile = builder.tile /\ Nowhere(captains, o.tile)
  BY <1>2, IntentIsOurs DEF Intended, Commissioning
<1>7. Intended'
  BY <1>1, <1>6 DEF Intended
<1>8. RawLogged' /\ TodoPruned'
  BY <1>2 DEF RawLogged, TodoPruned, Prunes
<1>9. Turns'
  BY <1>2 DEF Turns
<1>10. Authorized'
  BY DEF Authorized, HoldsIn
<1>11. builder.tile \in Tiles /\ ~RegisteredIn(captains, builder.tile)
  BY <1>2, NowhereFacts DEF Typed
<1>12. Closed'
  BY <1>11 DEF Closed
<1> QED BY <1>3, <1>4, <1>5, <1>7, <1>8, <1>9, <1>10, <1>12

LEMMA CommissionRetiresStep ==
  ASSUME CaptainsInv, CommissionRetires
  PROVE  CaptainsInv'
<1> USE DEF CaptainsInv, CommissionRetires, registryVars, historyVars
<1>1. builder' \in Builder /\ builder'.pc = "abort" /\ builder'.tile = builder.tile
  BY AtIs DEF Typed, BuilderPcs, Commissioning
<1>2. builder.pc = "retire"
  OBVIOUS
<1>3. Typed'
  BY <1>1 DEF Typed
<1>4. Replaying' /\ Used' /\ Gone'
  BY <1>1, <1>2 DEF Replaying, Used, Gone
<1>5. Built'
  BY <1>1, <1>2 DEF Built, Commissioning
<1>6. Intended'
  BY <1>1, <1>2 DEF Intended
<1>7. RawLogged' /\ TodoPruned'
  BY <1>1 DEF RawLogged, TodoPruned, Prunes
<1>8. Turns' /\ Authorized' /\ Closed'
  BY QuietCloses DEF Quiet, Closed
<1> QED BY <1>3, <1>4, <1>5, <1>6, <1>7, <1>8

-----------------------------------------------------------------------------
(* Startup and restart.                                                    *)

LEMMA StartupBasisStep ==
  ASSUME CaptainsInv, StartupBasis
  PROVE  CaptainsInv'
<1> USE DEF CaptainsInv, StartupBasis, registryVars, historyVars, worldVars
<1>1. PICK p : p = Placements(captains)
  OBVIOUS
<1>2. /\ p \in Placement /\ \A t \in Placed(p) : t \in Tiles /\ ~Nowhere(captains, t)
  BY <1>1, PlacementsType, NowhereFacts DEF Placed, Placement
<1>3. /\ startup' \in Startup /\ startup.pc = "basis" /\ startup'.pc = "list" /\ startup'.basis = p
      /\ startup'.gone = startup.gone /\ startup'.old = startup.old
  BY <1>1, <1>2 DEF Typed, Startup
<1>4. Typed' /\ Replaying'
  BY <1>3 DEF Typed, Replaying
<1>5. Used'
  BY <1>2, <1>3 DEF Used
<1>6. Gone'
  BY <1>2, <1>3 DEF Gone, Built
<1>7. Built' /\ Intended'
  BY DEF Built, Intended
<1>8. RawLogged' /\ TodoPruned'
  BY <1>3 DEF RawLogged, TodoPruned, Prunes
<1>9. Turns' /\ Authorized' /\ Closed'
  BY QuietCloses DEF Quiet, Closed
<1> QED BY <1>4, <1>5, <1>6, <1>7, <1>8, <1>9

LEMMA StartupListsStep ==
  ASSUME CaptainsInv, StartupLists
  PROVE  CaptainsInv'
<1> USE DEF CaptainsInv, StartupLists, registryVars, historyVars, worldVars
<1>1. PICK gone : gone = (Placed(startup.basis) \cup startup.old) \ live
  OBVIOUS
<1>2. gone \subseteq used /\ gone \subseteq Tiles
  BY <1>1 DEF Typed, Used
<1>3. /\ startup' \in Startup /\ startup.pc = "list" /\ startup'.pc = "reconcile" /\ startup'.basis = startup.basis
      /\ startup'.gone = gone /\ startup'.old = startup.old
  BY <1>1, <1>2 DEF Typed, Startup
<1>4. Typed' /\ Replaying'
  BY <1>3 DEF Typed, Replaying
<1>5. Used'
  BY <1>2, <1>3 DEF Used
<1>6. Gone'
  BY <1>1, <1>3 DEF Gone
<1>7. Built' /\ Intended'
  BY DEF Built, Intended
<1>8. RawLogged' /\ TodoPruned'
  BY <1>1, <1>3 DEF RawLogged, TodoPruned, Prunes
<1>9. Turns' /\ Authorized' /\ Closed'
  BY QuietCloses DEF Quiet, Closed
<1> QED BY <1>4, <1>5, <1>6, <1>7, <1>8, <1>9

LEMMA NothingPlaced ==
  ASSUME NEW p, p = Placements([s \in Ships |-> Nil])
  PROVE  p \in Placement /\ Placed(p) = {}
BY DEF Placements, Placed, Placement, Captaining, Crewing

LEMMA StartupPrunesStep ==
  ASSUME CaptainsInv, StartupPrunes
  PROVE  CaptainsInv'
<1> USE DEF CaptainsInv, StartupPrunes, registryVars, historyVars, worldVars
<1>1. PICK p : p = Placements([s \in Ships |-> Nil])
  OBVIOUS
<1>2. p \in Placement /\ Placed(p) = {}
  BY <1>1, NothingPlaced
<1>3. /\ startup' \in Startup /\ startup.pc = "prune" /\ startup'.pc = "done" /\ startup'.basis = p
      /\ startup'.gone = {} /\ startup'.old = {}
  BY <1>1, <1>2 DEF Typed, Startup
<1>4. Typed' /\ Replaying'
  BY <1>3 DEF Typed, Replaying
<1>5. Used' /\ Gone'
  BY <1>2, <1>3 DEF Used, Gone
<1>7. Built' /\ Intended'
  BY DEF Built, Intended
<1>8. \A t : Prunes(t) => t \notin live /\ t \notin idents'
  BY <1>3 DEF Prunes
<1>9. RawLogged'
  BY <1>8 DEF RawLogged
<1>10. TodoPruned'
  BY <1>8 DEF TodoPruned
<1>11. Turns' /\ Authorized' /\ Closed'
  BY QuietCloses DEF Quiet, Closed
<1> QED BY <1>4, <1>5, <1>7, <1>9, <1>10, <1>11

LEMMA StoppedIs == Stopped \in Closer /\ Stopped.pc = "idle" /\ Stopped.tile = Nil
BY DEF Stopped, Closer, CloserPcs

LEMMA CrashStep ==
  ASSUME CaptainsInv, Crash
  PROVE  CaptainsInv'
<1> USE DEF CaptainsInv, Crash, historyVars, worldVars
<1>1. PICK p : p = Placements([s \in Ships |-> Nil])
  OBVIOUS
<1>2. p \in Placement /\ Placed(p) = {}
  BY <1>1, NothingPlaced
<1>3. /\ startup' \in Startup /\ startup'.pc = "basis" /\ startup'.basis = p
      /\ startup'.gone = {} /\ startup'.old = idents
  BY <1>1, <1>2 DEF Typed, Startup
<1>4. crashes' \in 0..MaxCrashes
  BY CaptainsAssumption DEF Typed
<1>5. builder' \in Builder /\ builder'.pc = "idle"
  BY IdleIs
<1>6. closer' \in [Closers -> Closer] /\ \A k \in Closers : closer'[k].pc = "idle" /\ closer'[k].tile = Nil
  BY StoppedIs
<1>7. Typed'
  BY <1>3, <1>4, <1>5, <1>6 DEF Typed
<1>8. Replaying'
  BY <1>5, <1>6 DEF Replaying
<1>9. Used'
  BY <1>2, <1>3, <1>5, <1>6 DEF Used, Typed
<1>10. Gone' /\ Built'
  BY <1>3, <1>5 DEF Gone, Built, Commissioning
<1>11. Intended'
  BY <1>5 DEF Intended
<1>12. RawLogged'
  BY <1>3 DEF RawLogged, Prunes
<1>13. TodoPruned'
  BY <1>3 DEF TodoPruned, Intended, Prunes
<1>14. Turns' /\ Authorized' /\ Closed'
  BY <1>6, NilFacts DEF Turns, Authorized, Closed, Holding
<1> QED BY <1>7, <1>8, <1>9, <1>10, <1>11, <1>12, <1>13, <1>14

-----------------------------------------------------------------------------
(* The steps of a close that leave the registry alone.                     *)

\* Only closer k moves.
Moves(k) == closer' \in [Closers -> Closer] /\ \A j \in Closers \ {k} : closer'[j] = closer[j]

LEMMA CloserMoves ==
  ASSUME closer \in [Closers -> Closer], NEW k \in Closers, NEW b \in Closer,
         NEW cl, cl = [closer EXCEPT ![k] = b]
  PROVE  cl \in [Closers -> Closer] /\ cl[k] = b /\ \A j \in Closers \ {k} : cl[j] = closer[j]
OBVIOUS

LEMMA CloserGoesTo ==
  ASSUME closer \in [Closers -> Closer], NEW k \in Closers, NEW pc \in CloserPcs,
         NEW cl, cl = [closer EXCEPT ![k].pc = pc]
  PROVE  /\ cl \in [Closers -> Closer] /\ \A j \in Closers \ {k} : cl[j] = closer[j]
         /\ cl[k].pc = pc /\ cl[k].tile = closer[k].tile /\ cl[k].ship = closer[k].ship /\ cl[k].by = closer[k].by
         /\ cl[k].stale = closer[k].stale /\ cl[k].fresh = closer[k].fresh
<1>1. PICK b : b = [closer[k] EXCEPT !.pc = pc]
  OBVIOUS
<1>2. /\ b \in Closer /\ b.pc = pc /\ b.tile = closer[k].tile /\ b.ship = closer[k].ship /\ b.by = closer[k].by
      /\ b.stale = closer[k].stale /\ b.fresh = closer[k].fresh
  BY <1>1 DEF Closer
<1>3. cl = [closer EXCEPT ![k] = b]
  BY <1>1
<1> QED BY <1>2, <1>3, CloserMoves

\* Whatever does not concern the closers survives a step of one of them.
LEMMA CloserKeeps ==
  ASSUME CaptainsInv, NEW k \in Closers, Moves(k), todo = {},
         closer'[k].tile \in used \cup {Nil},
         builder.pc \notin {"idle", "probed"} => closer'[k].tile # builder.tile,
         UNCHANGED <<registryVars, used, raw, builder, startup, todo, crashes>>,
         faults' \in 0..MaxFaults, ends' \in 0..MaxEnds,
         live' \subseteq live, idents' \subseteq idents,
         killed' \subseteq used \ live', killed' \subseteq killed \cup {closer[k].tile}
  PROVE  Typed' /\ Replaying' /\ Used' /\ Gone' /\ Built' /\ Intended' /\ RawLogged' /\ TodoPruned'
<1> USE DEF CaptainsInv, registryVars, Moves
<1>1. Typed'
  BY DEF Typed
<1>2. Replaying' /\ Used' /\ Gone'
  BY DEF Replaying, Used, Gone
<1>3. builder.pc \notin {"idle", "probed"} => closer[k].tile # builder.tile
  BY DEF Built
<1>4. builder.pc \notin {"idle", "probed"} =>
        Nowhere(captains, builder.tile) /\ \A j \in Closers : closer'[j].tile # builder.tile
  BY DEF Built
<1>5. builder.pc \in {"spawned", "prepared", "minted", "bound", "started"} => builder.tile \notin killed'
  BY <1>3 DEF Built
<1>6. Built'
  BY <1>4, <1>5 DEF Built
<1>7. Intended'
  BY DEF Intended
<1>8. RawLogged' /\ TodoPruned'
  BY DEF RawLogged, TodoPruned, Prunes
<1> QED BY <1>1, <1>2, <1>6, <1>7, <1>8

\* What still holds of the closers when one of them stops.
LEMMA CloserStops ==
  ASSUME CaptainsInv, NEW k \in Closers, Moves(k), closer'[k].pc = "idle", closer'[k].tile = Nil,
         captains' = captains, ops' = ops, killed \subseteq killed'
  PROVE  Turns' /\ Authorized'
<1> USE DEF CaptainsInv, Moves
<1>1. \A j \in Closers : closer'[j].pc = "commit" => closer[j].pc = "commit" /\ closer'[j] = closer[j]
  OBVIOUS
<1>2. Turns'
  BY <1>1, NilFacts DEF Turns, Holding
<1>3. Authorized'
  BY DEF Authorized, HoldsIn
<1> QED BY <1>2, <1>3

LEMMA CloseGivesUpStep ==
  ASSUME CaptainsInv, NEW k \in Closers, CloseGivesUp(k)
  PROVE  CaptainsInv'
<1> USE DEF CaptainsInv, CloseGivesUp, registryVars, historyVars, worldVars
<1>1. Moves(k) /\ closer'[k].pc = "idle" /\ closer'[k].tile = Nil
  BY StoppedIs, CloserMoves DEF Moves, Typed
<1>2. todo = {} /\ killed \subseteq used \ live
  BY DEF Replaying, Typed
<1>3. Typed' /\ Replaying' /\ Used' /\ Gone' /\ Built' /\ Intended' /\ RawLogged' /\ TodoPruned'
  <2>1. builder.pc \notin {"idle", "probed"} => builder.tile # Nil
    BY NilFacts DEF Typed, Used
  <2> QED BY <1>1, <1>2, <2>1, CloserKeeps DEF Typed
<1>4. Turns' /\ Authorized'
  BY <1>1, CloserStops
<1>5. Closed'
  BY <1>1 DEF Closed, Moves
<1> QED BY <1>3, <1>4, <1>5

LEMMA CloseRevalidatesStep ==
  ASSUME CaptainsInv, NEW k \in Closers, CloseRevalidates(k)
  PROVE  CaptainsInv'
<1> USE DEF CaptainsInv, CloseRevalidates, registryVars, historyVars, worldVars
<1>1. todo = {} /\ killed \subseteq used \ live /\ closer[k].pc = "waiting"
  BY DEF Replaying, Typed
<1>2. builder.pc \notin {"idle", "probed"} => builder.tile # Nil /\ builder.tile # closer[k].tile
  BY NilFacts DEF Typed, Used, Built
<1>3. CASE closer[k].stale
  <2>1. Moves(k) /\ closer'[k].pc = "idle" /\ closer'[k].tile = Nil
    BY <1>3, StoppedIs, CloserMoves DEF Moves, Typed
  <2>2. Typed' /\ Replaying' /\ Used' /\ Gone' /\ Built' /\ Intended' /\ RawLogged' /\ TodoPruned'
    BY <1>1, <1>2, <2>1, CloserKeeps DEF Typed
  <2>3. Turns' /\ Authorized'
    BY <2>1, CloserStops
  <2>4. Closed'
    BY <2>1 DEF Closed, Moves
  <2> QED BY <2>2, <2>3, <2>4
<1>4. CASE ~closer[k].stale
  <2>1. closer' = [closer EXCEPT ![k].pc = "checked"]
    BY <1>4
  <2>2. /\ Moves(k) /\ closer'[k].pc = "checked" /\ closer'[k].tile = closer[k].tile /\ closer'[k].ship = closer[k].ship
        /\ closer'[k].by = closer[k].by /\ closer'[k].stale = closer[k].stale
    BY <2>1, CloserGoesTo DEF Moves, Typed, CloserPcs
  <2>3. Typed' /\ Replaying' /\ Used' /\ Gone' /\ Built' /\ Intended' /\ RawLogged' /\ TodoPruned'
    BY <1>1, <1>2, <2>2, CloserKeeps DEF Typed, Used
  <2>4. Turns'
    BY <1>1, <2>2 DEF Turns, Moves, Holding
  <2>5. Authorized'
    BY <1>1, <1>4, <2>2 DEF Authorized, Moves, HoldsIn
  <2>6. Closed'
    BY <1>1, <2>2 DEF Closed, Moves
  <2> QED BY <2>3, <2>4, <2>5, <2>6
<1> QED BY <1>3, <1>4

LEMMA CloseFreezesStep ==
  ASSUME CaptainsInv, NEW k \in Closers, CloseFreezes(k)
  PROVE  CaptainsInv'
<1> USE DEF CaptainsInv, CloseFreezes, registryVars, historyVars, worldVars
<1>1. todo = {} /\ killed \subseteq used \ live /\ closer[k].pc = "checked"
  BY DEF Replaying, Typed
<1>2. PICK c, t : c = closer[k] /\ t = closer[k].tile
  OBVIOUS
<1>3. c \in Closer /\ t \in Tiles /\ c.tile = t
  BY <1>1, <1>2 DEF Typed, Turns, Closer
<1>4. PICK b : b = Frozen(c)
  OBVIOUS
<1>5. /\ b \in Closer /\ b.tile = t /\ b.ship = c.ship /\ b.by = c.by /\ (b.stale <=> c.stale)
      /\ \/ b.pc = "kill" /\ CloseIntent(t) \in ops
         \/ b.pc = "frozen"
  BY <1>3, <1>4, CloseIntentIs DEF Frozen, Closer, CloserPcs
<1>6. Moves(k) /\ closer'[k] = b
  BY <1>2, <1>4, <1>5, CloserMoves DEF Moves, Typed
<1>7. Typed' /\ Replaying' /\ Used' /\ Gone' /\ Built' /\ Intended' /\ RawLogged' /\ TodoPruned'
  <2>1. builder.pc \notin {"idle", "probed"} => builder.tile # t
    BY <1>2 DEF Built
  <2>2. t \in used
    BY <1>2, <1>3, NilFacts DEF Used
  <2> QED BY <1>1, <1>5, <1>6, <2>1, <2>2, CloserKeeps DEF Typed
<1>8. Turns'
  <2>1. \A j \in Closers : closer'[j].tile = closer[j].tile /\ (closer'[j].pc \in Holding <=> closer[j].pc \in Holding)
    BY <1>1, <1>2, <1>5, <1>6 DEF Moves, Holding
  <2>2. \A j \in Closers : closer'[j].pc = "idle" <=> closer[j].pc = "idle"
    BY <1>1, <1>5, <1>6 DEF Moves
  <2>3. \A j \in Closers : closer'[j].pc = "commit" <=> closer[j].pc = "commit"
    BY <1>1, <1>5, <1>6 DEF Moves
  <2>4. \A j \in Closers : closer'[j].pc \in {"kill", "commit"} => CloseIntent(closer[j].tile) \in ops
    BY <1>2, <1>5, <1>6 DEF Moves, Turns
  <2> QED BY <2>1, <2>2, <2>3, <2>4 DEF Turns
<1>9. Authorized'
  <2>1. c.stale => "close" \in Races
    BY <1>2
  <2>2. b.pc = "frozen" /\ b.ship # Nil => /\ ~b.stale => HoldsIn(captains, b)
                                           /\ "close" \notin Races => ~b.stale
    BY <1>1, <1>2, <1>5, <2>1 DEF Authorized, HoldsIn
  <2> QED BY <1>5, <1>6, <2>2 DEF Authorized, Moves, HoldsIn
<1>10. Closed'
  BY <1>5, <1>6 DEF Closed, Moves
<1> QED BY <1>7, <1>8, <1>9, <1>10

LEMMA CloseKillsStep ==
  ASSUME CaptainsInv, NEW k \in Closers, CloseKills(k)
  PROVE  CaptainsInv'
<1> USE DEF CaptainsInv, CloseKills, registryVars
<1>1. todo = {} /\ closer[k].pc = "kill" /\ closer[k].tile \in Tiles
  BY DEF Replaying, Typed, Turns, Closer
<1>2. /\ Moves(k) /\ closer'[k].pc = "commit" /\ closer'[k].tile = closer[k].tile
  BY CloserGoesTo DEF Moves, Typed, CloserPcs
<1>3. Typed' /\ Replaying' /\ Used' /\ Gone' /\ Built' /\ Intended' /\ RawLogged' /\ TodoPruned'
  <2>1. builder.pc \notin {"idle", "probed"} => builder.tile # closer[k].tile
    BY DEF Built
  <2>2. closer[k].tile \in used
    BY <1>1, NilFacts DEF Used
  <2>3. killed' \subseteq used \ live'
    BY <2>2 DEF Typed
  <2> QED BY <1>1, <1>2, <2>1, <2>2, <2>3, CloserKeeps DEF Typed
<1>4. Turns'
  BY <1>1, <1>2 DEF Turns, Moves, Holding
<1>5. Authorized'
  BY <1>2 DEF Authorized, Moves, HoldsIn
<1>6. Closed'
  BY <1>1, <1>2 DEF Closed, Moves, Turns
<1> QED BY <1>3, <1>4, <1>5, <1>6

LEMMA CloseRetiresStep ==
  ASSUME CaptainsInv, NEW k \in Closers, CloseRetires(k)
  PROVE  CaptainsInv'
<1> USE DEF CaptainsInv, CloseRetires, registryVars, historyVars
<1>1. Moves(k) /\ closer'[k].pc = "idle" /\ closer'[k].tile = Nil
  BY StoppedIs, CloserMoves DEF Moves, Typed
<1>2. todo = {} /\ killed \subseteq used \ live
  BY DEF Replaying, Typed
<1>3. Typed' /\ Replaying' /\ Used' /\ Gone' /\ Built' /\ Intended' /\ RawLogged' /\ TodoPruned'
  <2>1. builder.pc \notin {"idle", "probed"} => builder.tile # Nil
    BY NilFacts DEF Typed, Used
  <2> QED BY <1>1, <1>2, <2>1, CloserKeeps DEF Typed
<1>4. Turns' /\ Authorized'
  BY <1>1, CloserStops
<1>5. Closed'
  BY <1>1 DEF Closed, Moves
<1> QED BY <1>3, <1>4, <1>5

LEMMA KillKillsStep ==
  ASSUME CaptainsInv, NEW k \in Closers, KillKills(k)
  PROVE  CaptainsInv'
<1> USE DEF CaptainsInv, KillKills, registryVars
<1>1. Moves(k) /\ closer'[k].pc = "idle" /\ closer'[k].tile = Nil
  BY StoppedIs, CloserMoves DEF Moves, Typed
<1>2. todo = {} /\ closer[k].pc = "removed" /\ closer[k].tile \in used
  BY NilFacts DEF Replaying, Turns, Used
<1>3. /\ live' \subseteq live /\ idents' \subseteq idents
      /\ killed' = killed \/ killed' = killed \cup {closer[k].tile}
      /\ killed' \subseteq used \ live'
  BY <1>2 DEF Typed
<1>4. Typed' /\ Replaying' /\ Used' /\ Gone' /\ Built' /\ Intended' /\ RawLogged' /\ TodoPruned'
  <2>1. builder.pc \notin {"idle", "probed"} => builder.tile # Nil
    BY NilFacts DEF Typed, Used
  <2> QED BY <1>1, <1>2, <1>3, <2>1, CloserKeeps DEF Typed
<1>5. Turns' /\ Authorized'
  BY <1>1, <1>3, CloserStops
<1>6. Closed'
  BY <1>1, <1>2, <1>3 DEF Closed, Moves
<1> QED BY <1>4, <1>5, <1>6

LEMMA CloseAuthorizesStep ==
  ASSUME CaptainsInv, NEW k \in Closers, NEW t \in Tiles, NEW s \in Ships \cup {Nil}, CloseAuthorizes(k, t, s)
  PROVE  CaptainsInv'
<1> USE DEF CaptainsInv, CloseAuthorizes, registryVars, historyVars, worldVars
<1>1. todo = {} /\ killed \subseteq used \ live /\ closer[k].pc = "idle"
  BY DEF Serving, Typed
<1>2. PICK by : by = IF s = Nil THEN Nil ELSE captains[s].term
  OBVIOUS
<1>3. s # Nil => s \in Ships /\ captains[s] # Nil /\ captains[s].crew[t] # "none" /\ by = captains[s].term
  BY <1>2 DEF Crewing
<1>4. by \in Tiles \cup {Nil}
  <2>1. CASE s = Nil
    BY <1>2, <2>1
  <2>2. CASE s # Nil
    <3>1. captains[s] \in Record
      BY <1>3, <2>2 DEF Typed, Registry
    <3> QED BY <1>3, <2>2, <3>1 DEF Record
  <2> QED BY <2>1, <2>2
<1>5. PICK b : b = [pc |-> "waiting", tile |-> t, ship |-> s, by |-> by, stale |-> FALSE, fresh |-> FALSE]
  OBVIOUS
<1>6. b \in Closer /\ b.pc = "waiting" /\ b.tile = t /\ b.ship = s /\ b.by = by
  BY <1>4, <1>5 DEF Closer, CloserPcs
<1>7. Moves(k) /\ closer'[k] = b
  BY <1>2, <1>5, <1>6, CloserMoves DEF Moves, Typed
<1>8. t \in used
  <2>1. CASE t \in live
    BY <2>1 DEF Typed
  <2>2. CASE Registered(t)
    BY <2>2, RegisteredIs, NowhereFacts DEF Used
  <2>3. CASE Closing(t) # {}
    BY <2>3, CloseIntentIs DEF Used, Closing
  <2> QED BY <2>1, <2>2, <2>3
<1>9. Typed' /\ Replaying' /\ Used' /\ Gone' /\ Built' /\ Intended' /\ RawLogged' /\ TodoPruned'
  <2>1. builder.pc \notin {"idle", "probed"} => builder.tile # t
    BY DEF Unborn
  <2> QED BY <1>1, <1>6, <1>7, <1>8, <2>1, CountersIs, CloserKeeps DEF Typed
<1>10. Turns'
  BY <1>1, <1>6, <1>7, NilFacts DEF Turns, Moves, Holding
<1>11. b.ship # Nil => HoldsIn(captains, b)
  BY <1>3, <1>6 DEF HoldsIn
<1>12. Authorized'
  BY <1>6, <1>7, <1>11 DEF Authorized, Moves, HoldsIn
<1>13. Closed'
  BY <1>6, <1>7 DEF Closed, Moves
<1> QED BY <1>9, <1>10, <1>12, <1>13

-----------------------------------------------------------------------------
(* The commits of the thread that builds.                                  *)

\* Closers that wait for a registry commit of another thread keep their turns and authority.
LEMMA CommitCloses ==
  ASSUME Turns, Authorized, captains \in Registry, closer \in [Closers -> Closer],
         NEW c, NEW o, NEW e, Committed(c, o, e, closer), killed' = killed,
         \A t : CloseIntent(t) \in ops => CloseIntent(t) \in o
  PROVE  /\ Turns' /\ Authorized'
         /\ closer' \in [Closers -> Closer]
         /\ \A k \in Closers : closer'[k].pc = closer[k].pc /\ closer'[k].tile = closer[k].tile
<1>1. ASSUME NEW k \in Closers PROVE Matured(closer'[k], closer[k], captains')
  BY DEF Committed
<1>2. /\ closer' \in [Closers -> Closer] /\ ops' = o
      /\ \A k \in Closers : closer'[k].pc = closer[k].pc /\ closer'[k].tile = closer[k].tile
  BY <1>1 DEF Committed, Matured
<1>3. Turns'
  BY <1>2 DEF Turns
<1>4. ASSUME NEW k \in Closers, closer'[k].pc \in {"waiting", "checked", "frozen"}, closer'[k].ship # Nil
      PROVE  /\ ~closer'[k].stale => HoldsIn(captains', closer'[k])
             /\ ~closer'[k].fresh
  <2>1. closer[k].pc \in {"waiting", "checked", "frozen"} /\ closer[k].ship # Nil /\ closer[k].tile # Nil
    BY <1>1, <1>4 DEF Matured, Turns
  <2>2. ~closer[k].stale => HoldsIn(captains, closer[k])
    BY <2>1 DEF Authorized
  <2> QED BY <1>1, <2>1, <2>2 DEF Matured
<1>5. Authorized'
  BY <1>4 DEF Authorized, HoldsIn
<1> QED BY <1>2, <1>3, <1>5

\* A commit that names no new terminal.
LEMMA ThinCommit ==
  ASSUME NEW c, NEW o, NEW e, NEW cl, Thins(c, captains), Committed(c, o, e, cl)
  PROVE  \A t \in Tiles : /\ Nowhere(captains, t) => Nowhere(captains', t)
                          /\ RegisteredIn(captains', t) => RegisteredIn(captains, t)
<1>1. Thins(captains', captains)
  BY ThinsOn DEF Committed
<1> QED BY <1>1, ThinsFacts

LEMMA ThinsSelf == ASSUME NEW c PROVE Thins(c, c)
BY DEF Thins

LEMMA ReleaseStep ==
  ASSUME CaptainsInv, NEW s \in Ships, Release(s)
  PROVE  CaptainsInv'
<1> USE DEF CaptainsInv, historyVars, worldVars
<1>1. PICK kept \in BOOLEAN : kept <=> \E t \in Tiles : captains[s].crew[t] \in {"Active", "Orphaned"}
  OBVIOUS
<1>2. PICK c : c = [captains EXCEPT ![s] = IF kept THEN [@ EXCEPT !.state = "Vacant", !.term = Nil] ELSE Nil]
  OBVIOUS
<1>3. Commit(c, ops, excluded, closer)
  BY <1>1, <1>2 DEF Release
<1>4. /\ Ends /\ todo = {} /\ captains[s] # Nil
      /\ UNCHANGED <<worldVars, historyVars, builder, startup, todo, faults, crashes>>
  BY DEF Release, Serving
<1>5. c \in Registry /\ Thins(c, captains)
  BY <1>2, <1>4, ReleasedIs DEF Typed
<1>6. Committed(c, ops, excluded, closer)
  BY <1>3, <1>5, CommitFacts DEF Typed
<1>7. \A t \in Tiles : /\ Nowhere(captains, t) => Nowhere(captains', t)
                       /\ RegisteredIn(captains', t) => RegisteredIn(captains, t)
  BY <1>5, <1>6, ThinCommit
<1>8. captains' \in Registry /\ Valid(captains') /\ ops' = ops /\ excluded' = {}
  BY <1>6 DEF Committed
<1>9. /\ Turns' /\ Authorized' /\ closer' \in [Closers -> Closer]
      /\ \A k \in Closers : closer'[k].pc = closer[k].pc /\ closer'[k].tile = closer[k].tile
  BY <1>4, <1>6, CommitCloses DEF Typed
<1>10. Typed'
  BY <1>4, <1>8, <1>9, CountersIs DEF Typed
<1>11. Replaying' /\ Used' /\ Gone'
  BY <1>4, <1>7, <1>8, <1>9 DEF Replaying, Used, Gone
<1>12. builder.pc \notin {"idle", "probed"} => builder.tile \in Tiles
  BY DEF Typed, Used
<1>13. Built'
  BY <1>4, <1>7, <1>8, <1>9, <1>12 DEF Built
<1>14. Intended'
  BY <1>4, <1>7, <1>8 DEF Intended, Typed, Used
<1>15. RawLogged' /\ TodoPruned'
  BY <1>4, <1>8 DEF RawLogged, TodoPruned, Prunes
<1>16. Closed'
  BY <1>4, <1>7, <1>8, <1>9, NilFacts DEF Closed, Typed, Turns, Used
<1> QED BY <1>9, <1>10, <1>11, <1>13, <1>14, <1>15, <1>16

LEMMA SpawnRecordsStep ==
  ASSUME CaptainsInv, SpawnRecords
  PROVE  CaptainsInv'
<1> USE DEF CaptainsInv, historyVars, worldVars
<1>1. /\ builder.pc = "spawned" /\ builder' = Idle /\ todo = {} /\ builder.tile \in used
      /\ UNCHANGED <<worldVars, historyVars, startup, todo, faults, ends, crashes>>
  BY DEF SpawnRecords, Replaying, Used
<1>2. builder' \in Builder /\ builder'.pc = "idle"
  BY <1>1, IdleIs
<1>3. /\ ~IntentFor(ops, builder.tile) /\ builder.tile \notin killed /\ builder.tile \in Tiles
      /\ \A k \in Closers : closer[k].tile # builder.tile
  BY <1>1 DEF Built, Typed
<1>4. CASE UNCHANGED <<registryVars, closer>>
  <2> USE <1>4 DEF registryVars
  <2>1. Typed'
    BY <1>1, <1>2 DEF Typed
  <2>2. Replaying' /\ Used' /\ Gone' /\ Built'
    BY <1>1, <1>2 DEF Replaying, Used, Gone, Built, Commissioning
  <2>3. Intended'
    BY <1>1, <1>2 DEF Intended
  <2>4. RawLogged' /\ TodoPruned'
    BY <1>1 DEF RawLogged, TodoPruned, Prunes
  <2>5. Turns' /\ Authorized' /\ Closed'
    BY <1>1, QuietCloses DEF Quiet, Closed
  <2> QED BY <2>1, <2>2, <2>3, <2>4, <2>5
<1>5. CASE \E s \in Captaining(captains, builder.by) :
             Commit([captains EXCEPT ![s].crew[builder.tile] = "Active"], ops, excluded, closer)
  <2>1. PICK s \in Captaining(captains, builder.by) :
             Commit([captains EXCEPT ![s].crew[builder.tile] = "Active"], ops, excluded, closer)
    BY <1>5
  <2>2. s \in Ships /\ captains[s] # Nil
    BY DEF Captaining
  <2>3. PICK t, c : t = builder.tile /\ c = [captains EXCEPT ![s].crew[t] = "Active"]
    OBVIOUS
  <2>4. /\ c \in Registry
        /\ \A u \in Tiles \ {t} : /\ Nowhere(captains, u) => Nowhere(c, u)
                                  /\ RegisteredIn(c, u) => RegisteredIn(captains, u)
    <3>1. t \in Tiles /\ captains \in Registry /\ c = [captains EXCEPT ![s].crew[t] = "Active"]
      BY <1>3, <2>3 DEF Typed
    <3> HIDE DEF CaptainsInv
    <3> QED BY <2>2, <3>1, CrewIs
  <2>5. Committed(c, ops, excluded, closer)
    BY <2>1, <2>3, <2>4, CommitFacts DEF Typed
  <2>6. \A u \in Tiles \ {t} : /\ Nowhere(captains, u) => Nowhere(captains', u)
                               /\ RegisteredIn(captains', u) => RegisteredIn(captains, u)
    BY <2>4, <2>5, ThinsFacts DEF Committed
  <2>7. captains' \in Registry /\ Valid(captains') /\ ops' = ops /\ excluded' = {}
    BY <2>5 DEF Committed
  <2>8. /\ Turns' /\ Authorized' /\ closer' \in [Closers -> Closer]
        /\ \A k \in Closers : closer'[k].pc = closer[k].pc /\ closer'[k].tile = closer[k].tile
    BY <1>1, <2>5, CommitCloses DEF Typed
  <2>9. Typed'
    BY <1>1, <1>2, <2>7, <2>8 DEF Typed
  <2>10. Replaying' /\ Used' /\ Gone' /\ Built'
    BY <1>1, <1>2, <2>3, <2>6, <2>7, <2>8 DEF Replaying, Used, Gone, Built, Commissioning
  <2>11. Intended'
    BY <1>1, <1>2, <1>3, <2>3, <2>6, <2>7 DEF Intended, IntentFor, Typed, Used
  <2>12. RawLogged' /\ TodoPruned'
    BY <1>1, <2>7 DEF RawLogged, TodoPruned, Prunes
  <2>13. Closed'
    BY <1>1, <1>3, <2>3, <2>6, <2>7, <2>8, NilFacts DEF Closed, Typed, Turns, Used
  <2> QED BY <2>8, <2>9, <2>10, <2>11, <2>12, <2>13
<1> QED BY <1>4, <1>5 DEF SpawnRecords

\* The intent of the commissioning thread is the only one.
LEMMA OthersIs ==
  ASSUME Typed, Built, builder.pc \in Commissioning
  PROVE  /\ \A o \in Others : o \in ops /\ ~Intent(o)
         /\ \A o \in ops : ~Intent(o) => o \in Others
         /\ \A t : CloseIntent(t) \in ops => CloseIntent(t) \in Others
         /\ \E i \in ops : Intent(i) /\ i.tile = builder.tile /\ ops \ Others = {i}
<1>1. \A o \in ops : Intent(o) => o.tile = builder.tile
  BY IntentIsOurs
<1>2. PICK i \in ops : Intent(i) /\ i.tile = builder.tile
  BY DEF Built, IntentFor
<1>3. ops \ Others = {i}
  BY <1>1, <1>2 DEF Others, Typed
<1>4. \A t : ~Intent(CloseIntent(t))
  BY DEF Intent, CloseIntent
<1> QED BY <1>1, <1>2, <1>3, <1>4 DEF Others

LEMMA CommissionPreparesStep ==
  ASSUME CaptainsInv, NEW t \in Tiles, NEW s \in Ships, CommissionPrepares(t, s)
  PROVE  CaptainsInv'
<1> USE DEF CaptainsInv
<1>1. /\ builder.pc = "idle" /\ todo = {} /\ t \notin used /\ \A o \in ops : ~Intent(o)
      /\ used' = used \cup {t} /\ raw' = raw \cup {t}
      /\ UNCHANGED <<live, idents, killed, startup, todo, faults, ends, crashes>>
  BY DEF CommissionPrepares, Serving
<1>2. builder' \in Builder /\ builder'.pc = "prepared" /\ builder'.tile = t
  BY DEF CommissionPrepares, Idle, Builder, Thread, BuilderPcs, Commissioning
<1>3. PICK i : i = [kind |-> "commission", tile |-> t, ship |-> s, ident |-> FALSE]
  OBVIOUS
<1>4. i \in Operation /\ Intent(i) /\ i.tile = t /\ ~i.ident
  BY <1>3 DEF Operation, Intent
<1>5. PICK o : o = ops \cup {i}
  OBVIOUS
<1>6. Commit(captains, o, excluded, closer)
  BY <1>3, <1>5 DEF CommissionPrepares
<1>7. Committed(captains, o, excluded, closer)
  BY <1>6, CommitFacts DEF Typed
<1>8. \A u \in Tiles : /\ Nowhere(captains, u) => Nowhere(captains', u)
                       /\ RegisteredIn(captains', u) => RegisteredIn(captains, u)
  BY <1>7, ThinCommit, ThinsSelf
<1>9. captains' \in Registry /\ Valid(captains') /\ ops' = ops \cup {i} /\ excluded' = {}
  BY <1>5, <1>7 DEF Committed
<1>10. /\ Turns' /\ Authorized' /\ closer' \in [Closers -> Closer]
       /\ \A k \in Closers : closer'[k].pc = closer[k].pc /\ closer'[k].tile = closer[k].tile
  BY <1>1, <1>5, <1>7, CommitCloses DEF Typed
<1>11. Typed'
  BY <1>1, <1>2, <1>4, <1>9, <1>10 DEF Typed
<1>12. Replaying' /\ Used' /\ Gone'
  BY <1>1, <1>2, <1>4, <1>8, <1>9, <1>10 DEF Replaying, Used, Gone
<1>13. /\ Nowhere(captains, t) /\ t \notin killed /\ t \notin live /\ t \notin idents
       /\ \A k \in Closers : closer[k].tile # t
  BY <1>1, NilFacts DEF Typed, Used
<1>14. IntentFor(ops', t) /\ \A u : IntentFor(ops, u) => IntentFor(ops', u)
  BY <1>4, <1>9 DEF IntentFor
<1>15. Built'
  BY <1>1, <1>2, <1>8, <1>10, <1>13, <1>14 DEF Built
<1>16. Intended'
  BY <1>1, <1>2, <1>4, <1>8, <1>9, <1>13 DEF Intended
<1>17. RawLogged' /\ TodoPruned'
  BY <1>1, <1>14 DEF RawLogged, TodoPruned, Prunes
<1>18. Closed'
  BY <1>1, <1>8, <1>9, <1>10, NilFacts DEF Closed, Typed, Turns, Used
<1> QED BY <1>10, <1>11, <1>12, <1>15, <1>16, <1>17, <1>18

LEMMA CommissionBindsStep ==
  ASSUME CaptainsInv, CommissionBinds
  PROVE  CaptainsInv'
<1> USE DEF CaptainsInv, historyVars, worldVars
<1>1. /\ builder.pc = "minted" /\ todo = {} /\ builder.tile \in Tiles
      /\ UNCHANGED <<worldVars, historyVars, startup, todo, faults, ends, crashes>>
  BY DEF CommissionBinds, Replaying, Typed, Used
<1>2. builder' \in Builder /\ builder'.pc = "bound" /\ builder'.tile = builder.tile
  BY AtIs DEF CommissionBinds, Typed, BuilderPcs, Commissioning
<1>3. /\ \A p \in Others : p \in ops /\ ~Intent(p)
      /\ \A p \in ops : ~Intent(p) => p \in Others
      /\ \A t : CloseIntent(t) \in ops => CloseIntent(t) \in Others
      /\ \E i \in ops : Intent(i) /\ i.tile = builder.tile /\ ops \ Others = {i}
  BY <1>1, OthersIs DEF Commissioning
<1>4. PICK i \in ops : Intent(i) /\ i.tile = builder.tile /\ ops \ Others = {i}
  BY <1>3
<1>5. PICK j : j = [i EXCEPT !.ident = TRUE]
  OBVIOUS
<1>6. j \in Operation /\ Intent(j) /\ j.tile = builder.tile /\ j.ident
  BY <1>4, <1>5 DEF Typed, Operation, Intent
<1>7. PICK o : o = Others \cup {j}
  OBVIOUS
<1>8. Others \cup {[p EXCEPT !.ident = TRUE] : p \in ops \ Others} = o
  BY <1>4, <1>5, <1>7
<1>9. Commit(captains, o, excluded, closer)
  BY <1>8 DEF CommissionBinds
<1>10. Committed(captains, o, excluded, closer)
  BY <1>9, CommitFacts DEF Typed
<1>11. \A u \in Tiles : /\ Nowhere(captains, u) => Nowhere(captains', u)
                        /\ RegisteredIn(captains', u) => RegisteredIn(captains, u)
  BY <1>10, ThinCommit, ThinsSelf
<1>12. captains' \in Registry /\ Valid(captains') /\ ops' = o /\ excluded' = {}
  BY <1>10 DEF Committed
<1>13. /\ Turns' /\ Authorized' /\ closer' \in [Closers -> Closer]
       /\ \A k \in Closers : closer'[k].pc = closer[k].pc /\ closer'[k].tile = closer[k].tile
  BY <1>1, <1>3, <1>7, <1>10, CommitCloses DEF Typed
<1>14. \A p \in o : p \in Others \/ p = j
  BY <1>7
<1>15. /\ o \subseteq Operation /\ \A p, q \in o : Intent(p) /\ Intent(q) => p = q
       /\ \A p \in o : p.tile \in used
  BY <1>1, <1>3, <1>4, <1>6, <1>14 DEF Typed, Used
<1>16. Typed'
  BY <1>1, <1>2, <1>12, <1>13, <1>15 DEF Typed
<1>17. Replaying' /\ Used' /\ Gone'
  BY <1>1, <1>2, <1>11, <1>12, <1>13, <1>15 DEF Replaying, Used, Gone
<1>18. \A u : IntentFor(ops, u) => IntentFor(o, u)
  BY <1>3, <1>4, <1>6, <1>7 DEF IntentFor
<1>19. Built'
  BY <1>1, <1>2, <1>11, <1>12, <1>13, <1>18 DEF Built, Commissioning
<1>20. \A p \in o : Intent(p) => p = j
  BY <1>3, <1>14
<1>21. Nowhere(captains', builder.tile) /\ builder.tile \notin live
  BY <1>1, <1>11 DEF Built
<1>22. Intended'
  BY <1>1, <1>6, <1>12, <1>20, <1>21 DEF Intended
<1>23. RawLogged' /\ TodoPruned'
  BY <1>1, <1>12, <1>18 DEF RawLogged, TodoPruned, Prunes
<1>24. \A t : CloseIntent(t) \in ops => CloseIntent(t) \in o
  BY <1>3, <1>7
<1>25. Closed'
  BY <1>1, <1>11, <1>12, <1>13, <1>24, NilFacts DEF Closed, Typed, Turns, Used
<1> QED BY <1>13, <1>16, <1>17, <1>19, <1>22, <1>23, <1>25

LEMMA CommissionAbortsStep ==
  ASSUME CaptainsInv, CommissionAborts
  PROVE  CaptainsInv'
<1> USE DEF CaptainsInv, historyVars, worldVars
<1>1. /\ builder.pc = "abort" /\ todo = {} /\ builder.tile \in Tiles /\ builder.tile \notin live \cup idents
      /\ UNCHANGED <<worldVars, historyVars, startup, todo, ends, crashes>>
  BY DEF CommissionAborts, Replaying, Typed, Used, Built
<1>2. builder' \in Builder /\ builder'.pc = "idle"
  BY IdleIs DEF CommissionAborts
<1>3. \A o \in ops : Intent(o) => o.tile = builder.tile
  BY <1>1, IntentIsOurs DEF Commissioning
<1>4. RawLogged' /\ TodoPruned'
  BY <1>1, <1>3 DEF RawLogged, TodoPruned, Prunes, IntentFor
<1>5. Replaying' /\ Built'
  BY <1>1, <1>2 DEF Replaying, Built, Commissioning
<1>6. CASE PersistFails /\ UNCHANGED <<registryVars, closer>>
  <2> USE <1>6 DEF registryVars
  <2>1. Typed'
    BY <1>1, <1>2, CountersIs DEF Typed
  <2>2. Used' /\ Gone'
    BY <1>1, <1>2 DEF Used, Gone
  <2>3. Intended'
    BY <1>1, <1>2, <1>3 DEF Intended
  <2>5. Turns' /\ Authorized' /\ Closed'
    BY <1>1, QuietCloses DEF Quiet, Closed
  <2> QED BY <1>4, <1>5, <2>1, <2>2, <2>3, <2>5
<1>7. CASE Commit(captains, Others, excluded, closer) /\ UNCHANGED faults
  <2>1. PICK o : o = Others
    OBVIOUS
  <2>2. /\ \A p \in o : p \in ops /\ ~Intent(p)
        /\ \A t : CloseIntent(t) \in ops => CloseIntent(t) \in o
    BY <1>1, <2>1, OthersIs DEF Commissioning
  <2>3. Committed(captains, o, excluded, closer)
    BY <1>7, <2>1, CommitFacts DEF Typed
  <2>4. \A u \in Tiles : /\ Nowhere(captains, u) => Nowhere(captains', u)
                         /\ RegisteredIn(captains', u) => RegisteredIn(captains, u)
    BY <2>3, ThinCommit, ThinsSelf
  <2>5. captains' \in Registry /\ Valid(captains') /\ ops' = o /\ excluded' = {}
    BY <2>3 DEF Committed
  <2>6. /\ Turns' /\ Authorized' /\ closer' \in [Closers -> Closer]
        /\ \A k \in Closers : closer'[k].pc = closer[k].pc /\ closer'[k].tile = closer[k].tile
    BY <1>1, <2>2, <2>3, CommitCloses DEF Typed
  <2>7. Typed'
    BY <1>1, <1>2, <1>7, <2>2, <2>5, <2>6 DEF Typed
  <2>8. Used' /\ Gone'
    BY <1>1, <1>2, <2>2, <2>4, <2>5, <2>6 DEF Used, Gone
  <2>9. Intended'
    BY <2>2, <2>5 DEF Intended
  <2>10. Closed'
    BY <1>1, <2>2, <2>4, <2>5, <2>6, NilFacts DEF Closed, Typed, Turns, Used
  <2> QED BY <1>4, <1>5, <2>6, <2>7, <2>8, <2>9, <2>10
<1> QED BY <1>6, <1>7 DEF CommissionAborts

\* A claim that is not outrun registers nothing that was struck.
LEMMA ClaimCommit ==
  ASSUME CaptainsInv, NEW t \in Tiles, NEW s \in Ships, NEW seen \in SUBSET Tiles, NEW gone \in SUBSET Tiles,
         NEW b \in BOOLEAN, NEW c, c = Claimed(t, s, seen, gone, b), NEW o, NEW e \in SUBSET Tiles,
         Commit(c, o, e, closer), ~Outrun(t, seen), killed' = killed,
         \A u : CloseIntent(u) \in ops => CloseIntent(u) \in o
  PROVE  /\ Committed(c, o, e, closer)
         /\ \A u \in Tiles \ {t} : Nowhere(captains, u) => Nowhere(captains', u)
         /\ captains' \in Registry /\ Valid(captains') /\ ops' = o /\ excluded' = {}
         /\ Turns' /\ Authorized' /\ closer' \in [Closers -> Closer]
         /\ \A k \in Closers : closer'[k].pc = closer[k].pc /\ closer'[k].tile = closer[k].tile
         /\ Closed'
<1> USE DEF CaptainsInv
<1>1. captains \in Registry /\ closer \in [Closers -> Closer]
  BY DEF Typed
<1>2. c \in Registry /\ ClaimOf(c, t, s, seen)
  BY <1>1, ClaimedIs
<1>3. Committed(c, o, e, closer)
  BY <1>1, <1>2, CommitFacts
<1>4. captains' \in Registry /\ Valid(captains') /\ ops' = o /\ excluded' = {} /\ Thins(captains', c)
  BY <1>3 DEF Committed
<1>5. \A u \in Tiles \ {t} : Nowhere(captains, u) => Nowhere(captains', u)
  BY <1>2, <1>4, ThinsFacts DEF ClaimOf
<1>6. \A u \in Tiles \ ({t} \cup seen) : RegisteredIn(captains', u) => RegisteredIn(captains, u)
  BY <1>2, <1>4, ThinsFacts DEF ClaimOf
<1>7. /\ Turns' /\ Authorized' /\ closer' \in [Closers -> Closer]
      /\ \A k \in Closers : closer'[k].pc = closer[k].pc /\ closer'[k].tile = closer[k].tile
  BY <1>1, <1>3, CommitCloses
<1>8. ASSUME "claim" \notin Races, NEW u \in killed, RegisteredIn(captains', u) PROVE CloseIntent(u) \in o
  <2>1. u \in Tiles
    BY DEF Typed
  <2>2. CASE u \in {t} \cup seen
    <3>1. u \notin Struck
      BY <1>8, <2>2 DEF Outrun
    <3>2. Closing(u) # {}
      BY <3>1 DEF Struck
    <3> QED BY <2>1, <3>2, CloseIntentIs
  <2>3. CASE u \notin {t} \cup seen
    BY <1>6, <1>8, <2>1, <2>3 DEF Closed
  <2> QED BY <2>2, <2>3
<1>9. ASSUME "claim" \notin Races, NEW k \in Closers, closer[k].pc = "removed"
      PROVE  ~RegisteredIn(captains', closer[k].tile)
  <2>1. PICK u : u = closer[k].tile
    OBVIOUS
  <2>2. u \in Struck
    BY <1>9, <2>1 DEF Struck
  <2>3. u \notin {t} \cup seen
    BY <1>9, <2>2 DEF Outrun
  <2>4. ~RegisteredIn(captains, u)
    BY <1>9, <2>1 DEF Closed
  <2>5. u \in Tiles
    BY <1>9, <2>1, NilFacts DEF Typed, Turns, Used
  <2> QED BY <1>6, <2>1, <2>3, <2>4, <2>5
<1>10. Closed'
  BY <1>4, <1>7, <1>8, <1>9 DEF Closed
<1> QED BY <1>3, <1>4, <1>5, <1>7, <1>10

LEMMA ClaimCommitsStep ==
  ASSUME CaptainsInv, ClaimCommits
  PROVE  CaptainsInv'
<1> USE DEF CaptainsInv, worldVars
<1>1. /\ builder.pc = "probed" /\ builder' = Idle /\ todo = {} /\ raw' \subseteq raw
      /\ UNCHANGED <<worldVars, killed, startup, todo, faults, ends, crashes>>
  BY DEF ClaimCommits, Replaying
<1>2. builder' \in Builder /\ builder'.pc = "idle"
  BY <1>1, IdleIs
<1>3. PICK t, s, seen, gone : t = builder.tile /\ s = builder.ship /\ seen = builder.seen /\ gone = builder.gone
  OBVIOUS
<1>4. PICK c : c = Claimed(t, s, seen, gone, FALSE)
  OBVIOUS
<1>5. ~Refused(t, s, seen) /\ \/ UNCHANGED registryVars /\ UNCHANGED closer
                              \/ Commit(c, ops, excluded \ {t}, closer)
  BY <1>3, <1>4 DEF ClaimCommits
<1>6. t \in Tiles /\ t \in used /\ ~IntentFor(ops, t) /\ seen \in SUBSET Tiles /\ gone \in SUBSET Tiles
  BY <1>1, <1>3 DEF Typed, Used, Built, Builder, Thread
<1>7. CASE UNCHANGED registryVars /\ UNCHANGED closer
  <2> USE <1>7 DEF registryVars
  <2>1. Typed'
    BY <1>1, <1>2 DEF Typed
  <2>2. Replaying' /\ Used' /\ Gone' /\ Built'
    BY <1>1, <1>2 DEF Replaying, Used, Gone, Built, Commissioning
  <2>3. Intended'
    BY <1>1, <1>2 DEF Intended
  <2>4. RawLogged' /\ TodoPruned'
    BY <1>1 DEF RawLogged, TodoPruned, Prunes
  <2>5. Turns' /\ Authorized' /\ Closed'
    BY <1>1, QuietCloses DEF Quiet, Closed
  <2> QED BY <2>1, <2>2, <2>3, <2>4, <2>5
<1>8. CASE s \in Ships /\ Commit(c, ops, excluded \ {t}, closer)
  <2>1. PICK e : e = excluded \ {t}
    OBVIOUS
  <2>2. e \in SUBSET Tiles /\ Commit(c, ops, e, closer) /\ ~Outrun(t, seen)
    BY <1>5, <1>8, <2>1 DEF Typed, Refused
  <2>3. /\ \A u \in Tiles \ {t} : Nowhere(captains, u) => Nowhere(captains', u)
        /\ captains' \in Registry /\ Valid(captains') /\ ops' = ops /\ excluded' = {}
        /\ Turns' /\ Authorized' /\ closer' \in [Closers -> Closer]
        /\ \A k \in Closers : closer'[k].pc = closer[k].pc /\ closer'[k].tile = closer[k].tile
        /\ Closed'
    <3>1. killed' = killed
      BY <1>1
    <3> HIDE DEF CaptainsInv
    <3> QED BY <1>4, <1>6, <1>8, <2>2, <3>1, ClaimCommit
  <2>4. Typed'
    BY <1>1, <1>2, <2>3 DEF Typed
  <2>5. Replaying' /\ Used' /\ Gone' /\ Built'
    BY <1>1, <1>2, <1>6, <2>3 DEF Replaying, Used, Gone, Built, Commissioning
  <2>6. Intended'
    BY <1>1, <1>2, <1>6, <2>3 DEF Intended, IntentFor, Typed, Used
  <2>7. RawLogged' /\ TodoPruned'
    BY <1>1, <2>3 DEF RawLogged, TodoPruned, Prunes
  <2> QED BY <2>3, <2>4, <2>5, <2>6, <2>7
<1>9. s \in Ships
  BY <1>1, <1>3 DEF Typed, Builder
<1> QED BY <1>5, <1>7, <1>8, <1>9

LEMMA CommissionClaimsStep ==
  ASSUME CaptainsInv, CommissionClaims
  PROVE  CaptainsInv'
<1> USE DEF CaptainsInv, worldVars
<1>1. /\ builder.pc = "started" /\ builder' = Idle /\ todo = {}
      /\ UNCHANGED <<worldVars, killed, startup, todo, faults, ends, crashes>>
  BY DEF CommissionClaims, Replaying
<1>2. builder' \in Builder /\ builder'.pc = "idle"
  BY <1>1, IdleIs
<1>3. PICK t, s, seen, gone : t = builder.tile /\ s = builder.ship /\ seen = Orphans \cap live /\ gone = Orphans \ live
  OBVIOUS
<1>4. PICK c, o, e : c = Claimed(t, s, seen, gone, TRUE) /\ o = Others /\ e = excluded \ {t}
  OBVIOUS
<1>5. ~Outrun(t, seen) /\ Commit(c, o, e, closer) /\ raw' = raw \ {t}
  BY <1>3, <1>4 DEF CommissionClaims, Refused
<1>6. /\ t \in Tiles /\ t \in used /\ seen \in SUBSET Tiles /\ gone \in SUBSET Tiles /\ e \in SUBSET Tiles
      /\ s \in Ships
  BY <1>1, <1>3, <1>4 DEF Typed, Used, Builder, Commissioning, Orphans
<1>7. /\ \A p \in o : p \in ops /\ ~Intent(p)
      /\ \A p \in ops : Intent(p) => p.tile = t
      /\ \A u : CloseIntent(u) \in ops => CloseIntent(u) \in o
  <2>1. builder.pc \in Commissioning
    BY <1>1 DEF Commissioning
  <2>2. \A p \in ops : Intent(p) => p.tile = builder.tile
    BY <2>1, IntentIsOurs
  <2>3. /\ \A p \in Others : p \in ops /\ ~Intent(p)
        /\ \A u : CloseIntent(u) \in ops => CloseIntent(u) \in Others
    BY <2>1, OthersIs
  <2> QED BY <1>3, <1>4, <2>2, <2>3
<1>8. /\ \A u \in Tiles \ {t} : Nowhere(captains, u) => Nowhere(captains', u)
      /\ captains' \in Registry /\ Valid(captains') /\ ops' = o /\ excluded' = {}
      /\ Turns' /\ Authorized' /\ closer' \in [Closers -> Closer]
      /\ \A k \in Closers : closer'[k].pc = closer[k].pc /\ closer'[k].tile = closer[k].tile
      /\ Closed'
  <2>1. killed' = killed
    BY <1>1
  <2>2. c = Claimed(t, s, seen, gone, TRUE)
    BY <1>4
  <2>3. \A u : CloseIntent(u) \in ops => CloseIntent(u) \in o
    BY <1>7
  <2>4. Commit(c, o, e, closer) /\ ~Outrun(t, seen)
    BY <1>5
  <2> HIDE DEF CaptainsInv
  <2> QED BY <1>6, <2>1, <2>2, <2>3, <2>4, ClaimCommit
<1>9. Typed'
  BY <1>1, <1>2, <1>5, <1>7, <1>8 DEF Typed
<1>10. Replaying' /\ Used' /\ Gone' /\ Built'
  BY <1>1, <1>2, <1>6, <1>7, <1>8 DEF Replaying, Used, Gone, Built, Commissioning
<1>11. Intended'
  BY <1>7, <1>8 DEF Intended
<1>12. RawLogged'
  BY <1>1, <1>5, <1>7 DEF RawLogged, Prunes, IntentFor
<1>13. TodoPruned'
  BY <1>1 DEF TodoPruned
<1> QED BY <1>8, <1>9, <1>10, <1>11, <1>12, <1>13

-----------------------------------------------------------------------------
(* The commits of a close and of a kill.                                   *)

\* A closer that commits goes on to cl[k]; the others keep their turns and authority.
LEMMA CloserCommits ==
  ASSUME CaptainsInv, NEW k \in Closers, NEW cl \in [Closers -> Closer],
         \A j \in Closers \ {k} : cl[j] = closer[j],
         NEW c, NEW o, NEW e, Committed(c, o, e, cl), killed' = killed,
         cl[k].tile = Nil <=> cl[k].pc = "idle",
         cl[k].pc \notin {"waiting", "checked", "frozen"},
         cl[k].pc \in Holding => closer[k].pc \in Holding /\ cl[k].tile = closer[k].tile,
         \A j \in Closers : cl[j].pc \in {"kill", "commit"} => CloseIntent(cl[j].tile) \in o,
         cl[k].pc = "commit" => cl[k].tile \in killed
  PROVE  /\ Turns' /\ Authorized'
         /\ closer' \in [Closers -> Closer]
         /\ \A j \in Closers : closer'[j].pc = cl[j].pc /\ closer'[j].tile = cl[j].tile
<1> USE DEF CaptainsInv
<1>1. ASSUME NEW j \in Closers PROVE Matured(closer'[j], cl[j], captains')
  BY DEF Committed
<1>2. /\ closer' \in [Closers -> Closer] /\ ops' = o
      /\ \A j \in Closers : closer'[j].pc = cl[j].pc /\ closer'[j].tile = cl[j].tile
  BY <1>1 DEF Committed, Matured
<1>3. \A j \in Closers : cl[j].tile = Nil <=> cl[j].pc = "idle"
  BY DEF Turns
<1>4. \A i, j \in Closers : cl[i].pc \in Holding /\ cl[j].pc \in Holding /\ cl[i].tile = cl[j].tile => i = j
  BY DEF Turns
<1>5. \A j \in Closers : cl[j].pc = "commit" => cl[j].tile \in killed
  BY DEF Turns
<1>6. Turns'
  BY <1>2, <1>3, <1>4, <1>5 DEF Turns
<1>7. ASSUME NEW j \in Closers, closer'[j].pc \in {"waiting", "checked", "frozen"}, closer'[j].ship # Nil
      PROVE  /\ ~closer'[j].stale => HoldsIn(captains', closer'[j])
             /\ ~closer'[j].fresh
  <2>1. cl[j] = closer[j]
    BY <1>2, <1>7
  <2>2. closer[j].pc \in {"waiting", "checked", "frozen"} /\ closer[j].ship # Nil /\ closer[j].tile # Nil
    BY <1>1, <1>7, <2>1 DEF Matured, Turns
  <2>3. ~closer[j].stale => HoldsIn(captains, closer[j])
    BY <2>2 DEF Authorized
  <2> QED BY <1>1, <2>1, <2>2, <2>3 DEF Matured
<1>8. Authorized'
  BY <1>7 DEF Authorized, HoldsIn
<1> QED BY <1>2, <1>6, <1>8

\* Whatever does not concern the closers survives such a commit.
LEMMA CommitKeeps ==
  ASSUME CaptainsInv, NEW c, NEW o, NEW e, NEW cl, Thins(c, captains), Committed(c, o, e, cl),
         closer' \in [Closers -> Closer], todo = {},
         \A j \in Closers : /\ closer'[j].tile \in used \cup {Nil}
                            /\ builder.pc \notin {"idle", "probed"} => closer'[j].tile # builder.tile,
         o \subseteq Operation, \A p \in o : p.tile \in used, \A p : Intent(p) => (p \in o <=> p \in ops),
         UNCHANGED <<worldVars, historyVars, builder, startup, todo, faults, crashes>>, ends' \in 0..MaxEnds
  PROVE  Typed' /\ Replaying' /\ Used' /\ Gone' /\ Built' /\ Intended' /\ RawLogged' /\ TodoPruned'
<1> USE DEF CaptainsInv, worldVars, historyVars
<1>1. \A u \in Tiles : Nowhere(captains, u) => Nowhere(captains', u)
  BY ThinCommit
<1>2. captains' \in Registry /\ Valid(captains') /\ ops' = o /\ excluded' = {}
  BY DEF Committed
<1>3. Typed'
  BY <1>2 DEF Typed
<1>4. Replaying' /\ Used' /\ Gone'
  BY <1>1, <1>2 DEF Replaying, Used, Gone
<1>5. \A u : IntentFor(ops', u) <=> IntentFor(ops, u)
  BY <1>2 DEF IntentFor
<1>6. builder.pc \notin {"idle", "probed"} => builder.tile \in Tiles
  BY DEF Typed, Used
<1>7. Built'
  BY <1>1, <1>5, <1>6 DEF Built
<1>8. Intended'
  BY <1>1, <1>2 DEF Intended, Typed, Used
<1>9. RawLogged' /\ TodoPruned'
  BY <1>5 DEF RawLogged, TodoPruned, Prunes
<1> QED BY <1>3, <1>4, <1>7, <1>8, <1>9

LEMMA ClosePreparesStep ==
  ASSUME CaptainsInv, NEW k \in Closers, ClosePrepares(k)
  PROVE  CaptainsInv'
<1> USE DEF CaptainsInv, worldVars, historyVars
<1>1. /\ closer[k].pc = "frozen" /\ todo = {} /\ killed \subseteq used \ live
      /\ UNCHANGED <<worldVars, historyVars, builder, startup, todo, faults, ends, crashes>>
  BY DEF ClosePrepares, Replaying, Typed
<1>2. PICK t, cl : t = closer[k].tile /\ cl = [closer EXCEPT ![k].pc = "kill"]
  OBVIOUS
<1>3. /\ cl \in [Closers -> Closer] /\ cl[k].pc = "kill" /\ cl[k].tile = t
      /\ \A j \in Closers \ {k} : cl[j] = closer[j]
  BY <1>2, CloserGoesTo DEF Typed, CloserPcs
<1>4. t \in Tiles /\ t \in used /\ (builder.pc \notin {"idle", "probed"} => t # builder.tile)
  BY <1>1, <1>2, NilFacts DEF Turns, Used, Typed, Built
<1>5. CASE Closing(t) # {} /\ closer' = cl /\ UNCHANGED registryVars
  <2> USE <1>5 DEF registryVars
  <2>1. Moves(k)
    BY <1>3 DEF Moves
  <2>2. Typed' /\ Replaying' /\ Used' /\ Gone' /\ Built' /\ Intended' /\ RawLogged' /\ TodoPruned'
    BY <1>1, <1>3, <1>4, <2>1, CloserKeeps DEF Typed
  <2>3. CloseIntent(t) \in ops
    BY <1>4, CloseIntentIs
  <2>4. Turns'
    BY <1>1, <1>2, <1>3, <2>3 DEF Turns, Holding
  <2>5. Authorized'
    BY <1>3 DEF Authorized, HoldsIn
  <2>6. Closed'
    BY <1>1, <1>3 DEF Closed
  <2> QED BY <2>2, <2>4, <2>5, <2>6
<1>6. CASE Commit(captains, ops \cup {CloseIntent(t)}, excluded, cl)
  <2>1. PICK i, o : i = CloseIntent(t) /\ o = ops \cup {i}
    OBVIOUS
  <2>2. i \in Operation /\ ~Intent(i) /\ i.tile = t
    BY <1>4, <2>1 DEF CloseIntent, Operation, Intent
  <2>3. Committed(captains, o, excluded, cl)
    BY <1>3, <1>6, <2>1, CommitFacts DEF Typed
  <2>4. /\ Turns' /\ Authorized' /\ closer' \in [Closers -> Closer]
        /\ \A j \in Closers : closer'[j].pc = cl[j].pc /\ closer'[j].tile = cl[j].tile
    <3>1. \A j \in Closers : cl[j].pc \in {"kill", "commit"} => CloseIntent(cl[j].tile) \in o
      BY <1>3, <2>1 DEF Turns
    <3>2. /\ cl[k].tile = Nil <=> cl[k].pc = "idle"
          /\ cl[k].pc \notin {"waiting", "checked", "frozen"} /\ cl[k].pc # "commit"
          /\ closer[k].pc \in Holding /\ cl[k].tile = closer[k].tile
      BY <1>1, <1>2, <1>3, <1>4, NilFacts DEF Holding
    <3>3. killed' = killed
      BY <1>1
    <3> HIDE DEF CaptainsInv
    <3> QED BY <1>3, <2>3, <3>1, <3>2, <3>3, CloserCommits
  <2>5. Typed' /\ Replaying' /\ Used' /\ Gone' /\ Built' /\ Intended' /\ RawLogged' /\ TodoPruned'
    <3>1. \A j \in Closers : /\ closer'[j].tile \in used \cup {Nil}
                             /\ builder.pc \notin {"idle", "probed"} => closer'[j].tile # builder.tile
      BY <1>3, <1>4, <2>4 DEF Used, Built
    <3>2. o \subseteq Operation /\ (\A p \in o : p.tile \in used) /\ \A p : Intent(p) => (p \in o <=> p \in ops)
      BY <1>4, <2>1, <2>2 DEF Typed, Used
    <3>3. ends' \in 0..MaxEnds
      BY <1>1 DEF Typed
    <3> HIDE DEF CaptainsInv
    <3> QED BY <1>1, <2>3, <2>4, <3>1, <3>2, <3>3, ThinsSelf, CommitKeeps
  <2>6. \A u \in Tiles : RegisteredIn(captains', u) => RegisteredIn(captains, u)
    BY <2>3, ThinCommit, ThinsSelf
  <2>7. ops' = ops \cup {i}
    BY <2>1, <2>3 DEF Committed
  <2>8. Closed'
    BY <1>1, <1>3, <2>4, <2>6, <2>7, NilFacts DEF Closed, Typed, Turns, Used
  <2> QED BY <2>4, <2>5, <2>8
<1> QED BY <1>2, <1>5, <1>6 DEF ClosePrepares, Prepared

LEMMA CloseCommitsStep ==
  ASSUME CaptainsInv, NEW k \in Closers, CloseCommits(k)
  PROVE  CaptainsInv'
<1> USE DEF CaptainsInv, worldVars, historyVars
<1>1. /\ closer[k].pc = "commit" /\ todo = {} /\ killed \subseteq used \ live
      /\ UNCHANGED <<worldVars, historyVars, builder, startup, todo, ends, crashes>>
  BY DEF CloseCommits, Replaying, Typed
<1>2. PICK t : t = closer[k].tile
  OBVIOUS
<1>3. t \in Tiles /\ t \in used /\ (builder.pc \notin {"idle", "probed"} => t # builder.tile)
  BY <1>1, <1>2, NilFacts DEF Turns, Used, Typed, Built
<1>4. CASE PersistFails /\ closer' = [closer EXCEPT ![k] = Stopped] /\ UNCHANGED registryVars
  <2> USE <1>4 DEF registryVars
  <2>1. Moves(k) /\ closer'[k].pc = "idle" /\ closer'[k].tile = Nil
    BY StoppedIs, CloserMoves DEF Moves, Typed
  <2>2. Typed' /\ Replaying' /\ Used' /\ Gone' /\ Built' /\ Intended' /\ RawLogged' /\ TodoPruned'
    <3>1. builder.pc \notin {"idle", "probed"} => builder.tile # Nil
      BY NilFacts DEF Typed, Used
    <3> QED BY <1>1, <2>1, <3>1, CountersIs, CloserKeeps DEF Typed
  <2>3. Turns' /\ Authorized'
    BY <1>1, <2>1, CloserStops
  <2>4. Closed'
    BY <1>1, <2>1 DEF Closed, Moves
  <2> QED BY <2>2, <2>3, <2>4
<1>5. CASE /\ Commit(Without(captains, {t}), ops \ Closing(t), excluded, [closer EXCEPT ![k].pc = "retire"])
           /\ UNCHANGED faults
  <2>1. PICK c, o, cl : /\ c = Without(captains, {t}) /\ o = ops \ Closing(t)
                        /\ cl = [closer EXCEPT ![k].pc = "retire"]
    OBVIOUS
  <2>2. /\ cl \in [Closers -> Closer] /\ cl[k].pc = "retire" /\ cl[k].tile = t
        /\ \A j \in Closers \ {k} : cl[j] = closer[j]
    BY <1>2, <2>1, CloserGoesTo DEF Typed, CloserPcs
  <2>3. c \in Registry /\ Thins(c, captains) /\ ~RegisteredIn(c, t)
    BY <1>3, <2>1, WithoutIs DEF Typed
  <2>4. Committed(c, o, excluded, cl)
    <3>1. Commit(c, o, excluded, cl)
      BY <1>5, <2>1
    <3>2. captains \in Registry /\ excluded \in SUBSET Tiles
      BY DEF Typed
    <3> HIDE DEF CaptainsInv
    <3> QED BY <2>2, <2>3, <3>1, <3>2, CommitFacts
  <2>5. /\ \A p : Intent(p) => (p \in o <=> p \in ops)
        /\ \A u \in Tiles \ {t} : CloseIntent(u) \in ops => CloseIntent(u) \in o
        /\ o \subseteq ops
    BY <1>3, <2>1, CloseIntentIs DEF Closing, Intent
  <2>6. /\ Turns' /\ Authorized' /\ closer' \in [Closers -> Closer]
        /\ \A j \in Closers : closer'[j].pc = cl[j].pc /\ closer'[j].tile = cl[j].tile
    <3>1. ASSUME NEW j \in Closers, cl[j].pc \in {"kill", "commit"} PROVE CloseIntent(cl[j].tile) \in o
      <4>1. j # k /\ cl[j] = closer[j]
        BY <2>2, <3>1
      <4>2. closer[j].tile # t
        BY <1>1, <1>2, <3>1, <4>1 DEF Turns, Holding
      <4>3. PICK u : u = closer[j].tile
        OBVIOUS
      <4>4. u \in Tiles /\ CloseIntent(u) \in ops
        BY <3>1, <4>1, <4>3 DEF Turns, Typed, Closer
      <4> QED BY <2>5, <4>1, <4>2, <4>3, <4>4
    <3>2. /\ cl[k].tile = Nil <=> cl[k].pc = "idle"
          /\ cl[k].pc \notin {"waiting", "checked", "frozen"} /\ cl[k].pc # "commit"
          /\ closer[k].pc \in Holding /\ cl[k].tile = closer[k].tile
      BY <1>1, <1>2, <1>3, <2>2, NilFacts DEF Holding
    <3>3. killed' = killed
      BY <1>1
    <3> HIDE DEF CaptainsInv
    <3> QED BY <2>2, <2>4, <3>1, <3>2, <3>3, CloserCommits
  <2>7. Typed' /\ Replaying' /\ Used' /\ Gone' /\ Built' /\ Intended' /\ RawLogged' /\ TodoPruned'
    <3>1. \A j \in Closers : /\ closer'[j].tile \in used \cup {Nil}
                             /\ builder.pc \notin {"idle", "probed"} => closer'[j].tile # builder.tile
      BY <1>3, <2>2, <2>6 DEF Used, Built
    <3>2. o \subseteq Operation /\ (\A p \in o : p.tile \in used)
      BY <2>5 DEF Typed, Used
    <3>3. ends' \in 0..MaxEnds /\ faults' = faults
      BY <1>1, <1>5 DEF Typed
    <3> HIDE DEF CaptainsInv
    <3> QED BY <1>1, <2>3, <2>4, <2>5, <2>6, <3>1, <3>2, <3>3, CommitKeeps
  <2>8. \A u \in Tiles : RegisteredIn(captains', u) => RegisteredIn(captains, u) /\ u # t
    BY <1>3, <2>3, <2>4, ThinCommit, ThinsFacts DEF Committed
  <2>9. ops' = o
    BY <2>4 DEF Committed
  <2>10. \A j \in Closers : closer'[j].pc = "removed" => closer[j].pc = "removed" /\ closer'[j].tile = closer[j].tile
    BY <2>2, <2>6
  <2>11. Closed'
    BY <1>1, <2>5, <2>8, <2>9, <2>10, NilFacts DEF Closed, Typed, Turns, Used
  <2> QED BY <2>6, <2>7, <2>11
<1> QED BY <1>2, <1>4, <1>5 DEF CloseCommits

LEMMA KillRemovesStep ==
  ASSUME CaptainsInv, NEW k \in Closers, NEW t \in Tiles, KillRemoves(k, t)
  PROVE  CaptainsInv'
<1> USE DEF CaptainsInv, worldVars, historyVars
<1>1. /\ closer[k].pc = "idle" /\ todo = {} /\ killed \subseteq used \ live /\ Ends
      /\ UNCHANGED <<worldVars, historyVars, builder, startup, todo, faults, crashes>>
  BY DEF KillRemoves, Serving, Typed
<1>2. PICK b, cl, c : /\ b = [Stopped EXCEPT !.pc = "removed", !.tile = t] /\ cl = [closer EXCEPT ![k] = b]
                      /\ c = Without(captains, {t})
  OBVIOUS
<1>3. b \in Closer /\ b.pc = "removed" /\ b.tile = t
  BY <1>2 DEF Stopped, Closer, CloserPcs
<1>4. /\ cl \in [Closers -> Closer] /\ cl[k] = b
      /\ \A j \in Closers \ {k} : cl[j] = closer[j]
  BY <1>2, <1>3, CloserMoves DEF Typed
<1>5. t \in used /\ t # Nil /\ (builder.pc \notin {"idle", "probed"} => t # builder.tile)
  BY NilFacts DEF KillRemoves, Unborn, Typed
<1>6. c \in Registry /\ Thins(c, captains) /\ ~RegisteredIn(c, t)
  BY <1>2, WithoutIs DEF Typed
<1>7. CASE c = captains /\ closer' = cl /\ UNCHANGED registryVars
  <2> USE <1>7 DEF registryVars
  <2>1. Moves(k)
    BY <1>4 DEF Moves
  <2>2. Typed' /\ Replaying' /\ Used' /\ Gone' /\ Built' /\ Intended' /\ RawLogged' /\ TodoPruned'
    BY <1>1, <1>3, <1>4, <1>5, <2>1, CountersIs, CloserKeeps DEF Typed
  <2>3. Turns'
    BY <1>1, <1>3, <1>4, <1>5 DEF Turns, Holding
  <2>4. Authorized'
    BY <1>3, <1>4 DEF Authorized, HoldsIn
  <2>5. Closed'
    BY <1>1, <1>3, <1>4, <1>6 DEF Closed
  <2> QED BY <2>2, <2>3, <2>4, <2>5
<1>8. CASE Commit(c, ops, excluded, cl)
  <2>1. Committed(c, ops, excluded, cl)
    BY <1>4, <1>6, <1>8, CommitFacts DEF Typed
  <2>2. /\ Turns' /\ Authorized' /\ closer' \in [Closers -> Closer]
        /\ \A j \in Closers : closer'[j].pc = cl[j].pc /\ closer'[j].tile = cl[j].tile
    <3>1. \A j \in Closers : cl[j].pc \in {"kill", "commit"} => CloseIntent(cl[j].tile) \in ops
      BY <1>3, <1>4 DEF Turns
    <3>2. /\ cl[k].tile = Nil <=> cl[k].pc = "idle"
          /\ cl[k].pc \notin {"waiting", "checked", "frozen"} /\ cl[k].pc # "commit"
          /\ cl[k].pc \notin Holding
      BY <1>3, <1>4, <1>5 DEF Holding
    <3>3. killed' = killed
      BY <1>1
    <3> HIDE DEF CaptainsInv
    <3> QED BY <1>4, <2>1, <3>1, <3>2, <3>3, CloserCommits
  <2>3. Typed' /\ Replaying' /\ Used' /\ Gone' /\ Built' /\ Intended' /\ RawLogged' /\ TodoPruned'
    <3>1. \A j \in Closers : /\ closer'[j].tile \in used \cup {Nil}
                             /\ builder.pc \notin {"idle", "probed"} => closer'[j].tile # builder.tile
      BY <1>3, <1>4, <1>5, <2>2 DEF Used, Built
    <3>2. ops \subseteq Operation /\ (\A p \in ops : p.tile \in used)
      BY DEF Typed, Used
    <3>3. ends' \in 0..MaxEnds
      BY <1>1, CountersIs DEF Typed
    <3> HIDE DEF CaptainsInv
    <3> QED BY <1>1, <1>6, <2>1, <2>2, <3>1, <3>2, <3>3, CommitKeeps
  <2>4. \A u \in Tiles : RegisteredIn(captains', u) => RegisteredIn(captains, u) /\ u # t
    BY <1>6, <2>1, ThinCommit, ThinsFacts DEF Committed
  <2>5. ops' = ops
    BY <2>1 DEF Committed
  <2>6. \A j \in Closers : closer'[j].pc = "removed" =>
          closer'[j].tile = t \/ (closer[j].pc = "removed" /\ closer'[j].tile = closer[j].tile)
    BY <1>3, <1>4, <2>2
  <2>7. Closed'
    BY <1>1, <2>4, <2>5, <2>6, NilFacts DEF Closed, Typed, Turns, Used
  <2> QED BY <2>2, <2>3, <2>7
<1> QED BY <1>2, <1>7, <1>8 DEF KillRemoves

-----------------------------------------------------------------------------
(* Recovery, and the startup reconciliation.                               *)

LEMMA RecoverStep ==
  ASSUME CaptainsInv, NEW o \in todo, Recover(o)
  PROVE  CaptainsInv'
<1> USE DEF CaptainsInv, Reaped
<1>1. /\ builder.pc = "idle" /\ builder' = builder /\ \A k \in Closers : closer[k].pc = "idle" /\ closer[k].tile = Nil
      /\ todo' = todo \ {o} /\ live' = live \ {o.tile} /\ killed' = killed \cup {o.tile}
      /\ idents' \subseteq idents /\ (o.ident => o.tile \notin idents')
      /\ UNCHANGED <<used, raw, startup, ends, crashes>>
  BY DEF Recover, Replaying, Turns
<1>2. PICK t : t = o.tile
  OBVIOUS
<1>3. o \in ops /\ t \in Tiles /\ t \in used /\ o.ident \in BOOLEAN
  BY <1>2 DEF Typed, Operation, Used
<1>4. CASE PersistFails /\ UNCHANGED <<registryVars, closer>>
  <2> USE <1>4 DEF registryVars
  <2>1. Typed'
    BY <1>1, <1>2, <1>3, CountersIs DEF Typed
  <2>2. Replaying' /\ Used' /\ Gone' /\ Built'
    BY <1>1 DEF Replaying, Used, Gone, Built, Commissioning
  <2>3. Intended'
    BY <1>1 DEF Intended
  <2>4. RawLogged' /\ TodoPruned'
    BY <1>1 DEF RawLogged, TodoPruned, Prunes
  <2>5. Turns' /\ Authorized'
    BY <1>1 DEF Turns, Authorized, Holding
  <2>6. RegisteredIn(captains, t) => CloseIntent(t) \in ops
    <3>1. CASE Intent(o)
      BY <1>2, <1>3, <3>1, NowhereFacts DEF Intended
    <3>2. CASE ~Intent(o)
      <4>1. o \in Closing(t)
        BY <1>2, <1>3, <3>2 DEF Closing, Typed, Operation, Intent
      <4> QED BY <1>3, <4>1, CloseIntentIs
    <3> QED BY <3>1, <3>2
  <2>7. Closed'
    BY <1>1, <1>2, <2>6 DEF Closed
  <2> QED BY <2>1, <2>2, <2>3, <2>4, <2>5, <2>7
<1>5. CASE /\ Commit(IF Intent(o) THEN captains ELSE Without(captains, {o.tile}), ops \ {o}, excluded, closer)
           /\ idents' = IF o.ident \/ ~Intent(o) THEN idents \ {o.tile} ELSE idents
           /\ UNCHANGED faults
  <2>1. PICK c, q : c = (IF Intent(o) THEN captains ELSE Without(captains, {t})) /\ q = ops \ {o}
    OBVIOUS
  <2>2. /\ c \in Registry /\ Thins(c, captains) /\ ~RegisteredIn(c, t)
    <3>1. captains \in Registry /\ {t} \in SUBSET Tiles /\ t \in {t}
      BY <1>3 DEF Typed
    <3>2. CASE Intent(o)
      BY <1>2, <1>3, <2>1, <3>1, <3>2, ThinsSelf, NowhereFacts DEF Intended
    <3>3. CASE ~Intent(o)
      <4>1. c = Without(captains, {t})
        BY <2>1, <3>3
      <4> HIDE DEF CaptainsInv
      <4> QED BY <3>1, <4>1, WithoutIs
    <3> QED BY <3>2, <3>3
  <2>3. Committed(c, q, excluded, closer)
    <3>1. Commit(c, q, excluded, closer)
      BY <1>2, <1>5, <2>1
    <3>2. captains \in Registry /\ excluded \in SUBSET Tiles /\ closer \in [Closers -> Closer]
      BY DEF Typed
    <3> HIDE DEF CaptainsInv
    <3> QED BY <2>2, <3>1, <3>2, CommitFacts
  <2>4. /\ \A u \in Tiles : Nowhere(captains, u) => Nowhere(captains', u)
        /\ \A u \in Tiles : RegisteredIn(captains', u) => RegisteredIn(captains, u) /\ u # t
    BY <1>3, <2>2, <2>3, ThinCommit, ThinsFacts DEF Committed
  <2>5. captains' \in Registry /\ Valid(captains') /\ ops' = q /\ excluded' = {} /\ q \subseteq ops
    BY <2>1, <2>3 DEF Committed
  <2>6. closer' \in [Closers -> Closer] /\ \A k \in Closers : closer'[k].pc = "idle" /\ closer'[k].tile = Nil
    BY <1>1, <2>3 DEF Committed, Matured
  <2>7. Typed'
    <3>1. ops' \subseteq Operation /\ todo' \subseteq ops' /\ \A x, y \in ops' : Intent(x) /\ Intent(y) => x = y
      BY <1>1, <2>1, <2>5 DEF Typed
    <3>2. live' \subseteq used' /\ idents' \subseteq used' /\ killed' \subseteq used' \ live'
      BY <1>1, <1>2, <1>3 DEF Typed
    <3>3. faults' \in 0..MaxFaults /\ ends' \in 0..MaxEnds /\ crashes' \in 0..MaxCrashes
      BY <1>1, <1>5 DEF Typed
    <3> QED BY <1>1, <2>5, <2>6, <3>1, <3>2, <3>3 DEF Typed
  <2>8. Replaying' /\ Used' /\ Gone' /\ Built'
    BY <1>1, <2>4, <2>5, <2>6 DEF Replaying, Used, Gone, Built, Commissioning
  <2>9. Intended'
    BY <1>1, <2>1, <2>4, <2>5 DEF Intended, Typed, Used
  <2>10. \A u : Prunes(u) => Prunes(u)'
    BY <1>1 DEF Prunes
  <2>11. ASSUME NEW u \in raw \cap (live' \cup idents') PROVE Prunes(u)' \/ IntentFor(ops', u)
    <3>1. Prunes(u) \/ IntentFor(ops, u)
      BY <1>1, <2>11 DEF RawLogged
    <3>2. CASE Prunes(u)
      BY <2>10, <3>2
    <3>3. CASE IntentFor(ops, u)
      <4>1. PICK p \in ops : Intent(p) /\ p.tile = u
        BY <3>3 DEF IntentFor
      <4>2. CASE p = o
        <5>1. ~o.ident /\ o.tile \in idents
          BY <1>1, <2>11, <4>1, <4>2
        <5> QED BY <2>10, <4>1, <4>2, <5>1 DEF TodoPruned
      <4>3. CASE p # o
        BY <2>1, <2>5, <4>1, <4>3 DEF IntentFor
      <4> QED BY <4>2, <4>3
    <3> QED BY <3>1, <3>2, <3>3
  <2>12. RawLogged'
    BY <1>1, <2>11 DEF RawLogged
  <2>13. TodoPruned'
    BY <1>1, <2>10 DEF TodoPruned
  <2>14. Turns' /\ Authorized'
    BY <2>6 DEF Turns, Authorized, Holding
  <2>15. \A u \in killed \ {t} : CloseIntent(u) \in ops => CloseIntent(u) \in q
    BY <1>2, <2>1 DEF CloseIntent
  <2>16. Closed'
    <3>1. ASSUME "claim" \notin Races, NEW u \in killed', RegisteredIn(captains', u) PROVE CloseIntent(u) \in q
      <4>1. u \in Tiles
        BY <1>1, <1>2, <1>3 DEF Typed
      <4>2. RegisteredIn(captains, u) /\ u \in killed \ {t}
        BY <1>1, <1>2, <2>4, <3>1, <4>1
      <4> QED BY <2>15, <3>1, <4>2 DEF Closed
    <3> QED BY <2>5, <2>6, <3>1 DEF Closed
  <2> QED BY <2>7, <2>8, <2>9, <2>12, <2>13, <2>14, <2>16
<1> QED BY <1>4, <1>5 DEF Recover

LEMMA StartupReconcilesStep ==
  ASSUME CaptainsInv, StartupReconciles
  PROVE  CaptainsInv'
<1> USE DEF CaptainsInv, worldVars, historyVars
<1>1. /\ startup.pc = "reconcile"
      /\ UNCHANGED <<worldVars, historyVars, builder, todo, ends, crashes>>
  BY DEF StartupReconciles
<1>2. /\ startup' \in Startup /\ startup'.pc \in {"basis", "prune"} /\ startup'.basis = startup.basis
      /\ startup'.gone = startup.gone /\ startup'.old = startup.old
  BY DEF StartupReconciles, Typed, Startup
<1>3. PICK e : e = excluded \cup GoneAtStartup
  OBVIOUS
<1>4. e \subseteq used /\ e \cap live = {} /\ e \subseteq Tiles /\ e \subseteq excluded \cup startup.gone
  BY <1>3 DEF GoneAtStartup, Used, Gone, Typed
<1>5. /\ \/ UNCHANGED <<captains, ops, closer>> /\ (excluded' = excluded \/ excluded' = e)
         \/ Commit(captains, ops, e, closer)
      /\ faults' = faults \/ PersistFails
  BY <1>3 DEF StartupReconciles, registryVars
<1>6. faults' \in 0..MaxFaults
  BY <1>5, CountersIs DEF Typed
<1>7. CASE UNCHANGED <<captains, ops, closer>> /\ (excluded' = excluded \/ excluded' = e)
  <2>1. Typed' /\ Replaying'
    BY <1>1, <1>2, <1>4, <1>6, <1>7 DEF Typed, Replaying
  <2>2. Used' /\ Gone'
    BY <1>1, <1>2, <1>4, <1>7 DEF Used, Gone
  <2>3. Built' /\ Intended'
    BY <1>1, <1>7 DEF Built, Intended
  <2>4. RawLogged' /\ TodoPruned'
    BY <1>1, <1>2, <1>7 DEF RawLogged, TodoPruned, Prunes
  <2>5. Turns' /\ Authorized' /\ Closed'
    BY <1>1, <1>7, QuietCloses DEF Quiet, Closed
  <2> QED BY <2>1, <2>2, <2>3, <2>4, <2>5
<1>8. CASE Commit(captains, ops, e, closer)
  <2>1. Committed(captains, ops, e, closer)
    BY <1>4, <1>8, CommitFacts DEF Typed
  <2>2. \A u \in Tiles : /\ Nowhere(captains, u) => Nowhere(captains', u)
                         /\ RegisteredIn(captains', u) => RegisteredIn(captains, u)
    BY <2>1, ThinCommit, ThinsSelf
  <2>3. captains' \in Registry /\ Valid(captains') /\ ops' = ops /\ excluded' = {}
    BY <2>1 DEF Committed
  <2>4. /\ Turns' /\ Authorized' /\ closer' \in [Closers -> Closer]
        /\ \A k \in Closers : closer'[k].pc = closer[k].pc /\ closer'[k].tile = closer[k].tile
    BY <1>1, <2>1, CommitCloses DEF Typed
  <2>5. Typed' /\ Replaying'
    BY <1>1, <1>2, <1>6, <2>3, <2>4 DEF Typed, Replaying
  <2>6. Used' /\ Gone'
    BY <1>1, <1>2, <2>2, <2>3, <2>4 DEF Used, Gone
  <2>7. builder.pc \notin {"idle", "probed"} => builder.tile \in Tiles
    BY DEF Typed, Used
  <2>8. Built'
    BY <1>1, <2>2, <2>3, <2>4, <2>7 DEF Built
  <2>9. Intended'
    BY <1>1, <2>2, <2>3 DEF Intended, Typed, Used
  <2>10. RawLogged' /\ TodoPruned'
    BY <1>1, <1>2, <2>3 DEF RawLogged, TodoPruned, Prunes
  <2>11. Closed'
    BY <1>1, <2>2, <2>3, <2>4, NilFacts DEF Closed, Typed, Turns, Used
  <2> QED BY <2>4, <2>5, <2>6, <2>8, <2>9, <2>10, <2>11
<1> QED BY <1>5, <1>7, <1>8

-----------------------------------------------------------------------------
(* The invariant holds.                                                    *)

LEMMA InvInit == Init => CaptainsInv
<1> SUFFICES ASSUME Init PROVE CaptainsInv
  OBVIOUS
<1>1. captains \in Registry /\ \A t \in Tiles : Nowhere(captains, t)
  BY DEF Init, Registry, Nowhere, Captaining, Crewing
<1>2. Valid(captains)
  <2>1. Cardinality({}) = 0
    BY FS_EmptySet
  <2>2. \A t \in Tiles : Cardinality(Captaining(captains, t)) + Cardinality(Crewing(captains, t)) <= 1
    BY <1>1, <2>1 DEF Nowhere
  <2> QED BY <2>2 DEF Init, Valid
<1>3. PICK p : p = Placements([s \in Ships |-> Nil])
  OBVIOUS
<1>4. p \in Placement /\ Placed(p) = {}
  BY <1>3, NothingPlaced
<1>5. startup = [pc |-> "done", basis |-> p, gone |-> {}, old |-> {}]
  BY <1>3 DEF Init
<1>6. startup \in Startup
  BY <1>4, <1>5 DEF Startup
<1>7. closer \in [Closers -> Closer] /\ \A k \in Closers : closer[k].pc = "idle" /\ closer[k].tile = Nil
  BY StoppedIs DEF Init
<1>8. builder \in Builder /\ builder.pc = "idle"
  BY IdleIs DEF Init
<1>9. Typed
  BY <1>1, <1>2, <1>6, <1>7, <1>8, CaptainsAssumption DEF Typed, Init
<1>10. Replaying /\ Used /\ Gone /\ Built /\ Intended
  BY <1>1, <1>4, <1>5, <1>7, <1>8 DEF Init, Replaying, Used, Gone, Built, Intended, Commissioning
<1>11. RawLogged /\ TodoPruned /\ Turns /\ Closed /\ Authorized
  BY <1>7 DEF Init, RawLogged, TodoPruned, Turns, Closed, Authorized, Holding
<1> QED BY <1>9, <1>10, <1>11 DEF CaptainsInv

CloserStep(k) ==
  \/ \E t \in Tiles, s \in Ships \cup {Nil} : CloseAuthorizes(k, t, s)
  \/ CloseRevalidates(k) \/ CloseFreezes(k) \/ ClosePrepares(k)
  \/ CloseGivesUp(k) \/ CloseKills(k) \/ CloseCommits(k) \/ CloseRetires(k)
  \/ (\E t \in Tiles : KillRemoves(k, t)) \/ KillKills(k)

BuilderStep ==
  \/ \E t \in Tiles, s \in Ships : ClaimProbes(t, s)
  \/ ClaimCommits \/ ClaimRefused
  \/ \E t \in Tiles, by \in Tiles \cup {Nil} : Spawn(t, by)
  \/ SpawnRecords \/ SpawnUndone
  \/ \E t \in Tiles, s \in Ships : CommissionPrepares(t, s)
  \/ CommissionMints \/ CommissionBinds \/ CommissionUnbound \/ CommissionStarts
  \/ CommissionClaims \/ CommissionKills \/ CommissionRetires \/ CommissionAborts

LEMMA CloserStepKeeps == ASSUME CaptainsInv, NEW k \in Closers, CloserStep(k) PROVE CaptainsInv'
BY CloseAuthorizesStep, CloseRevalidatesStep, CloseFreezesStep, ClosePreparesStep, CloseGivesUpStep,
   CloseKillsStep, CloseCommitsStep, CloseRetiresStep, KillRemovesStep, KillKillsStep, Zenon DEF CloserStep

LEMMA BuilderStepKeeps == ASSUME CaptainsInv, BuilderStep PROVE CaptainsInv'
BY ClaimProbesStep, ClaimCommitsStep, ClaimRefusedStep, SpawnStep, SpawnRecordsStep, SpawnUndoneStep,
   CommissionPreparesStep, CommissionMintsStep, CommissionBindsStep, CommissionUnboundStep,
   CommissionStartsStep, CommissionClaimsStep, CommissionKillsStep, CommissionRetiresStep,
   CommissionAbortsStep, Zenon DEF BuilderStep

LEMMA NextIs ==
  ASSUME Typed, Next
  PROVE  \/ BuilderStep \/ \E k \in Closers : CloserStep(k)
         \/ \E t \in Tiles : Dies(t)
         \/ \E s \in Ships : Release(s)
         \/ Crash \/ \E o \in todo : Recover(o)
         \/ StartupBasis \/ StartupLists \/ StartupReconciles \/ StartupPrunes
<1>1. ASSUME NEW s \in Known, NEW t \in Tiles, captains[s].term # Nil, Spawn(t, captains[s].term)
      PROVE  BuilderStep
  <2>1. captains[s] \in Record
    BY DEF Typed, Known, Registry
  <2>2. PICK by : by = captains[s].term
    OBVIOUS
  <2>3. by \in Tiles \cup {Nil} /\ Spawn(t, by)
    BY <1>1, <2>1, <2>2 DEF Record
  <2> QED BY <2>3 DEF BuilderStep
<1>2. (\E t \in Tiles : Spawn(t, Nil)) => BuilderStep
  <2>1. Nil \in Tiles \cup {Nil}
    OBVIOUS
  <2> QED BY <2>1, Zenon DEF BuilderStep
<1>3. \/ BuilderStep \/ \E k \in Closers : CloserStep(k)
      \/ \E t \in Tiles : Spawn(t, Nil) \/ \E s \in Known : captains[s].term # Nil /\ Spawn(t, captains[s].term)
      \/ \E t \in Tiles : Dies(t)
      \/ \E s \in Ships : Release(s)
      \/ Crash \/ \E o \in todo : Recover(o)
      \/ StartupBasis \/ StartupLists \/ StartupReconciles \/ StartupPrunes
  BY Zenon DEF Next, BuilderStep, CloserStep
<1> QED BY <1>1, <1>2, <1>3, Zenon

LEMMA Unchanging == ASSUME CaptainsInv, UNCHANGED vars PROVE CaptainsInv'
<1> USE DEF CaptainsInv, vars, registryVars, worldVars, historyVars
<1>1. Typed' /\ Replaying' /\ Used' /\ Gone' /\ Built' /\ Intended'
  BY DEF Typed, Replaying, Used, Gone, Built, Intended
<1>2. RawLogged' /\ TodoPruned' /\ Turns' /\ Closed' /\ Authorized'
  BY QuietCloses DEF RawLogged, TodoPruned, Prunes, Closed, Quiet
<1> QED BY <1>1, <1>2

LEMMA InvNext == CaptainsInv /\ [Next]_vars => CaptainsInv'
<1> SUFFICES ASSUME CaptainsInv, [Next]_vars PROVE CaptainsInv'
  OBVIOUS
<1>1. Typed
  BY DEF CaptainsInv
<1>2. CASE UNCHANGED vars
  BY <1>2, Unchanging
<1>3. CASE Next
  <2>1. \/ BuilderStep \/ \E k \in Closers : CloserStep(k)
        \/ \E t \in Tiles : Dies(t)
        \/ \E s \in Ships : Release(s)
        \/ Crash \/ \E o \in todo : Recover(o)
        \/ StartupBasis \/ StartupLists \/ StartupReconciles \/ StartupPrunes
    BY <1>1, <1>3, NextIs, Zenon
  <2> QED BY <2>1, BuilderStepKeeps, CloserStepKeeps, DiesStep, ReleaseStep, CrashStep, RecoverStep,
             StartupBasisStep, StartupListsStep, StartupReconcilesStep, StartupPrunesStep, Zenon
<1> QED BY <1>2, <1>3

LEMMA CaptainsInvariant == Spec => []CaptainsInv
BY InvInit, InvNext, PTL DEF Spec

(* The registry that every restart loads is one validate_snapshot accepts: *)
(* no terminal captains or crews twice, claims are Active exactly when     *)
(* they name a terminal, one commission at most is pending, and what was   *)
(* killed is neither alive nor used again.                                 *)
THEOREM TypeCorrect == Spec => []TypeOK
<1>1. CaptainsInv => TypeOK
  <2> SUFFICES ASSUME CaptainsInv PROVE TypeOK
    OBVIOUS
  <2> USE DEF CaptainsInv
  <2>1. PICK i : i = {o \in ops : Intent(o)}
    OBVIOUS
  <2>2. Cardinality(i) <= 1
    <3>1. CASE i = {}
      BY <3>1, FS_EmptySet
    <3>2. CASE i # {}
      <4>1. PICK o : o \in i
        BY <3>2
      <4>2. i = {o}
        BY <2>1, <4>1 DEF Typed
      <4>3. Cardinality({o}) = 1
        BY FS_Singleton
      <4> QED BY <4>2, <4>3
    <3> QED BY <3>1, <3>2
  <2>3. \A k \in Closers : closer[k] \in Closer
    BY DEF Typed
  <2>4. startup.pc \in {"basis", "list", "reconcile", "prune", "done"}
    BY DEF Typed, Startup
  <2> QED BY <2>1, <2>2, <2>3, <2>4 DEF Typed, TypeOK, Registry, Closer, Builder
<1> QED BY <1>1, CaptainsInvariant, PTL

(* Whatever restarts, failed writes and claims come between: a terminal    *)
(* this program killed stays in the registry only under a durable close    *)
(* intent, and a commissioned terminal nobody claimed holds a session or   *)
(* an identity only while an intent or the startup thread accounts for it. *)
(* A claim must not go by a probe made before the kill: with the window    *)
(* "claim" open TLC finds a dead terminal put back.                        *)
THEOREM EndsStayLogged ==
  ASSUME "claim" \notin Races
  PROVE  Spec => []EndsAreLogged
<1>1. CaptainsInv => EndsAreLogged
  <2> SUFFICES ASSUME CaptainsInv PROVE EndsAreLogged
    OBVIOUS
  <2> USE DEF CaptainsInv
  <2>1. ClosedIsLogged
    BY RegisteredIs, CloseIntentIs DEF ClosedIsLogged, Closed, Typed
  <2>2. UnfinishedIsLogged
    BY DEF UnfinishedIsLogged, RawLogged, Prunes, IntentFor
  <2> QED BY <2>1, <2>2 DEF EndsAreLogged
<1> QED BY <1>1, CaptainsInvariant, PTL

-----------------------------------------------------------------------------
(* Who writes the intent of a close.                                       *)

LEMMA CommitOps == ASSUME NEW c, NEW o, NEW e, NEW cl, Commit(c, o, e, cl) PROVE ops' = o
BY DEF Commit

LEMMA BuilderIntends ==
  ASSUME CaptainsInv, NEW u, BuilderStep, CloseIntent(u) \in ops'
  PROVE  CloseIntent(u) \in ops
<1>1. CloseIntent(u).kind = "close" /\ Others \subseteq ops /\ \A p \in ops \ Others : p.kind = "commission"
  BY DEF CloseIntent, Others, Intent
<1>2. CASE \E t \in Tiles, s \in Ships : ClaimProbes(t, s)
  BY <1>2 DEF ClaimProbes, registryVars
<1>3. CASE ClaimCommits
  BY <1>3, CommitOps DEF ClaimCommits, registryVars
<1>4. CASE ClaimRefused
  BY <1>4 DEF ClaimRefused, registryVars
<1>5. CASE \E t \in Tiles, by \in Tiles \cup {Nil} : Spawn(t, by)
  BY <1>5 DEF Spawn, registryVars
<1>6. CASE SpawnRecords
  BY <1>6, CommitOps DEF SpawnRecords, registryVars
<1>7. CASE SpawnUndone
  BY <1>7 DEF SpawnUndone, registryVars
<1>8. CASE \E t \in Tiles, s \in Ships : CommissionPrepares(t, s)
  <2>1. PICK t \in Tiles, s \in Ships : CommissionPrepares(t, s)
    BY <1>8
  <2>2. PICK i : i = [kind |-> "commission", tile |-> t, ship |-> s, ident |-> FALSE]
    OBVIOUS
  <2>3. ops' = ops \cup {i}
    BY <2>1, <2>2, CommitOps DEF CommissionPrepares
  <2> QED BY <1>1, <2>2, <2>3
<1>9. CASE CommissionMints \/ CommissionUnbound \/ CommissionStarts \/ CommissionKills \/ CommissionRetires
  BY <1>9 DEF CommissionMints, CommissionUnbound, CommissionStarts, CommissionKills, CommissionRetires, registryVars
<1>10. CASE CommissionBinds
  <2>1. ops' = Others \cup {[o EXCEPT !.ident = TRUE] : o \in ops \ Others}
    BY <1>10, CommitOps DEF CommissionBinds
  <2>2. ASSUME NEW p \in ops \ Others PROVE [p EXCEPT !.ident = TRUE].kind = "commission"
    <3>1. p \in Operation
      BY DEF CaptainsInv, Typed
    <3> QED BY <1>1, <3>1 DEF Operation
  <2> QED BY <1>1, <2>1, <2>2
<1>11. CASE CommissionClaims \/ CommissionAborts
  BY <1>1, <1>11, CommitOps DEF CommissionClaims, CommissionAborts, registryVars
<1>12. \/ \E t \in Tiles, s \in Ships : ClaimProbes(t, s)
       \/ ClaimCommits \/ ClaimRefused
       \/ \E t \in Tiles, by \in Tiles \cup {Nil} : Spawn(t, by)
       \/ SpawnRecords \/ SpawnUndone
       \/ \E t \in Tiles, s \in Ships : CommissionPrepares(t, s)
       \/ CommissionMints \/ CommissionBinds \/ CommissionUnbound \/ CommissionStarts
       \/ CommissionClaims \/ CommissionKills \/ CommissionRetires \/ CommissionAborts
  BY Zenon DEF BuilderStep
<1> QED BY <1>2, <1>3, <1>4, <1>5, <1>6, <1>7, <1>8, <1>9, <1>10, <1>11, <1>12, Zenon

LEMMA CloserIntends ==
  ASSUME CaptainsInv, NEW k \in Closers, CloserStep(k), NEW u, CloseIntent(u) \in ops' \ ops
  PROVE  ClosePrepares(k)
<1>1. CASE \E t \in Tiles, s \in Ships \cup {Nil} : CloseAuthorizes(k, t, s)
  BY <1>1 DEF CloseAuthorizes, registryVars
<1>2. CASE CloseRevalidates(k) \/ CloseFreezes(k) \/ CloseGivesUp(k) \/ CloseKills(k) \/ CloseRetires(k) \/ KillKills(k)
  BY <1>2 DEF CloseRevalidates, CloseFreezes, CloseGivesUp, CloseKills, CloseRetires, KillKills, registryVars
<1>3. CASE CloseCommits(k)
  BY <1>3, CommitOps DEF CloseCommits, registryVars
<1>4. CASE \E t \in Tiles : KillRemoves(k, t)
  BY <1>4, CommitOps DEF KillRemoves, registryVars
<1>5. \/ \E t \in Tiles, s \in Ships \cup {Nil} : CloseAuthorizes(k, t, s)
      \/ CloseRevalidates(k) \/ CloseFreezes(k) \/ ClosePrepares(k)
      \/ CloseGivesUp(k) \/ CloseKills(k) \/ CloseCommits(k) \/ CloseRetires(k)
      \/ (\E t \in Tiles : KillRemoves(k, t)) \/ KillKills(k)
  BY Zenon DEF CloserStep
<1> QED BY <1>1, <1>2, <1>3, <1>4, <1>5, Zenon

LEMMA ClosePreparesIntend ==
  ASSUME CaptainsInv, [Next]_vars, NEW u, CloseIntent(u) \in ops' \ ops
  PROVE  \E k \in Closers : ClosePrepares(k)
<1>1. CASE UNCHANGED vars
  BY <1>1 DEF vars, registryVars
<1>2. CASE Next
  <2>1. Typed
    BY DEF CaptainsInv
  <2>2. \/ BuilderStep \/ \E k \in Closers : CloserStep(k)
        \/ \E t \in Tiles : Dies(t)
        \/ \E s \in Ships : Release(s)
        \/ Crash \/ \E o \in todo : Recover(o)
        \/ StartupBasis \/ StartupLists \/ StartupReconciles \/ StartupPrunes
    BY <1>2, <2>1, NextIs, Zenon
  <2>3. CASE \/ \E t \in Tiles : Dies(t)
             \/ Crash \/ StartupBasis \/ StartupLists \/ StartupPrunes
    BY <2>3 DEF Dies, Crash, StartupBasis, StartupLists, StartupPrunes, registryVars
  <2>4. CASE \E s \in Ships : Release(s)
    BY <2>4, CommitOps DEF Release
  <2>5. CASE \E o \in todo : Recover(o)
    BY <2>5, CommitOps DEF Recover, registryVars
  <2>6. CASE StartupReconciles
    BY <2>6, CommitOps DEF StartupReconciles, registryVars
  <2>7. ~BuilderStep
    BY BuilderIntends
  <2>8. CASE \E k \in Closers : CloserStep(k)
    BY <2>8, CloserIntends
  <2> QED BY <2>2, <2>3, <2>4, <2>5, <2>6, <2>7, <2>8, Zenon
<1> QED BY <1>1, <1>2

(* A captain's close writes its intent only while that captain still holds *)
(* the ship the tile belongs to, however many commits, claims and other    *)
(* closes come between its authorization and the write.  The window        *)
(* between the check of the authority and the freezing of seq must be      *)
(* shut: with "close" open TLC finds a claim in between.                   *)
THEOREM OwnersClose ==
  ASSUME "close" \notin Races
  PROVE  Spec => CloseIsOwners
<1>1. ASSUME CaptainsInv, [Next]_vars, NEW k \in Closers, closer[k].ship # Nil, closer[k].pc = "frozen",
             CloseIntent(closer[k].tile) \in ops' \ ops
      PROVE  /\ captains[closer[k].ship] # Nil
             /\ captains[closer[k].ship].term = closer[k].by
             /\ captains[closer[k].ship].crew[closer[k].tile] # "none"
  <2> USE DEF CaptainsInv
  <2>1. PICK t : t = closer[k].tile
    OBVIOUS
  <2>2. CloseIntent(t) \in ops' \ ops
    BY <1>1, <2>1
  <2>3. PICK j \in Closers : ClosePrepares(j)
    BY <1>1, <2>2, ClosePreparesIntend
  <2>4. PICK u : u = closer[j].tile
    OBVIOUS
  <2>5. closer[j].pc = "frozen" /\ u \in Tiles
    BY <1>1, <2>3, <2>4, NilFacts DEF ClosePrepares, Turns, Used, Typed
  <2>6. /\ closer[j].fresh /\ ops' = ops \cup {CloseIntent(u)}
    BY <1>1, <2>2, <2>3, <2>4, CommitOps DEF ClosePrepares, Prepared, registryVars
  <2>7. u = t
    BY <2>2, <2>6 DEF CloseIntent
  <2>8. j = k
    BY <1>1, <2>1, <2>4, <2>5, <2>7 DEF Turns, Holding
  <2>9. HoldsIn(captains, closer[k])
    BY <1>1, <2>6, <2>8 DEF Authorized
  <2> QED BY <2>9 DEF HoldsIn
<1>2. CaptainsInv /\ [Next]_vars =>
        \A k \in Closers :
         (closer[k].ship # Nil /\ closer[k].pc = "frozen" /\ ops' # ops /\ CloseIntent(closer[k].tile) \in ops' \ ops) =>
            /\ captains[closer[k].ship] # Nil
            /\ captains[closer[k].ship].term = closer[k].by
            /\ captains[closer[k].ship].crew[closer[k].tile] # "none"
  BY <1>1
<1> QED BY <1>2, CaptainsInvariant, PTL DEF Spec, CloseIsOwners

-----------------------------------------------------------------------------
(* Who takes a ship from a living captain.                                 *)

LEMMA SparedCommit ==
  ASSUME CaptainsInv, NEW c, NEW o, NEW e, NEW cl, NEW x, NEW s \in Ships,
         Spares(c, captains, x), Committed(c, o, e, cl), e \cap live = {}, x \cap live = {}
  PROVE  ~Displaced(s)
<1> SUFFICES ASSUME Displaced(s) PROVE FALSE
  OBVIOUS
<1>1. PICK t : t = captains[s].term
  OBVIOUS
<1>2. captains[s] # Nil /\ t \in live /\ t \in Tiles /\ t \notin e /\ t \notin x
  BY <1>1 DEF Displaced, CaptainsInv, Typed
<1>3. c[s] # Nil /\ c[s].term = t
  BY <1>1, <1>2 DEF Spares
<1>4. captains'[s] # Nil /\ captains'[s].term = t
  BY <1>2, <1>3 DEF Committed, Spares
<1>5. s \in Captaining(captains', t)
  BY <1>4 DEF Captaining
<1> QED BY <1>1, <1>5 DEF Displaced

LEMMA SparesSelf == ASSUME NEW c PROVE Spares(c, c, {})
BY DEF Spares

LEMMA NobodyDisplaced ==
  ASSUME CaptainsInv, UNCHANGED captains, NEW s \in Ships
  PROVE  ~Displaced(s)
BY DEF Displaced, Captaining

\* A commit of the registry as it is takes out at most what is excluded.
LEMMA SameCommit ==
  ASSUME CaptainsInv, NEW o, NEW e \in SUBSET Tiles, NEW cl \in [Closers -> Closer],
         Commit(captains, o, e, cl), e \cap live = {}, NEW s \in Ships
  PROVE  ~Displaced(s)
<1>1. Committed(captains, o, e, cl)
  BY CommitFacts DEF CaptainsInv, Typed
<1> QED BY <1>1, SparesSelf, SparedCommit

\* A claim that is not refused leaves every living captain but the claimant its ship.
LEMMA ClaimSpares ==
  ASSUME CaptainsInv, NEW t \in Tiles, NEW r \in Ships, NEW seen \in SUBSET Tiles, NEW gone \in SUBSET Tiles,
         NEW b \in BOOLEAN, NEW c, c = Claimed(t, r, seen, gone, b), NEW o, NEW e \in SUBSET Tiles,
         Commit(c, o, e, closer), ~Refused(t, r, seen), e \cap live = {}, t \notin e, NEW s \in Ships
  PROVE  ~Displaced(s)
<1> SUFFICES ASSUME Displaced(s) PROVE FALSE
  OBVIOUS
<1>1. PICK u : u = captains[s].term
  OBVIOUS
<1>2. captains[s] # Nil /\ u \in live /\ u \in Tiles /\ u \notin e
  BY <1>1 DEF Displaced, CaptainsInv, Typed
<1>3. captains \in Registry /\ closer \in [Closers -> Closer] /\ Valid(captains)
  BY DEF CaptainsInv, Typed
<1>4. /\ c \in Registry /\ c[r] # Nil /\ c[r].term = t
      /\ \A q \in Ships \ {r} : c[q] = captains[q] \/ (c[q] = Nil /\ captains[q] # Nil /\ captains[q].term = t)
  <2>1. c \in Registry /\ ClaimOf(c, t, r, seen) /\ TakesOwn(c, t, r)
    BY <1>3, ClaimedIs
  <2> QED BY <2>1 DEF ClaimOf, TakesOwn
<1>5. Committed(c, o, e, closer)
  BY <1>3, <1>4, CommitFacts
<1>6. \E q \in Ships : c[q] # Nil /\ c[q].term = u
  <2>1. CASE u = t
    BY <1>4, <2>1
  <2>2. CASE u # t /\ s # r
    BY <1>1, <1>2, <1>4, <2>2
  <2>3. CASE u # t /\ s = r
    <3>1. captains[r].state = "Active"
      BY <1>1, <1>2, <1>3, <2>3, NilFacts DEF Valid
    <3>2. Refused(t, r, seen)
      BY <1>1, <1>2, <2>3, <3>1 DEF Refused, Alive
    <3> QED BY <3>2
  <2> QED BY <2>1, <2>2, <2>3
<1>7. PICK q \in Ships : c[q] # Nil /\ c[q].term = u
  BY <1>6
<1>8. captains'[q] # Nil /\ captains'[q].term = u
  <2>1. Spares(captains', c, e)
    BY <1>5 DEF Committed
  <2> QED BY <1>2, <1>7, <2>1 DEF Spares
<1>9. q \in Captaining(captains', u)
  BY <1>8 DEF Captaining
<1> QED BY <1>1, <1>9 DEF Displaced

LEMMA BuilderSpares ==
  ASSUME CaptainsInv, BuilderStep, NEW s \in Ships
  PROVE  ~Displaced(s)
<1>1. /\ captains \in Registry /\ closer \in [Closers -> Closer]
      /\ excluded \in SUBSET Tiles /\ excluded \cap live = {}
  BY DEF CaptainsInv, Typed, Gone
<1>2. CASE \/ \E t \in Tiles, r \in Ships : ClaimProbes(t, r)
           \/ ClaimRefused \/ SpawnUndone
           \/ \E t \in Tiles, by \in Tiles \cup {Nil} : Spawn(t, by)
           \/ CommissionMints \/ CommissionUnbound \/ CommissionStarts \/ CommissionKills \/ CommissionRetires
  <2>1. captains' = captains
    BY <1>2 DEF ClaimProbes, ClaimRefused, SpawnUndone, Spawn, CommissionMints, CommissionUnbound,
                CommissionStarts, CommissionKills, CommissionRetires, registryVars
  <2> QED BY <2>1, NobodyDisplaced
<1>3. CASE ClaimCommits
  <2>1. PICK t, r, seen, gone : t = builder.tile /\ r = builder.ship /\ seen = builder.seen /\ gone = builder.gone
    OBVIOUS
  <2>2. PICK c, e : c = Claimed(t, r, seen, gone, FALSE) /\ e = excluded \ {t}
    OBVIOUS
  <2>3. builder.pc = "probed" /\ ~Refused(t, r, seen) /\ (captains' = captains \/ Commit(c, ops, e, closer))
    BY <1>3, <2>1, <2>2 DEF ClaimCommits, registryVars
  <2>4. t \in Tiles /\ r \in Ships /\ seen \in SUBSET Tiles /\ gone \in SUBSET Tiles
    BY <2>1, <2>3 DEF CaptainsInv, Typed, Used, Builder, Thread
  <2>5. e \in SUBSET Tiles /\ e \cap live = {} /\ t \notin e
    BY <1>1, <2>2
  <2>6. c = Claimed(t, r, seen, gone, FALSE)
    BY <2>2
  <2>7. CASE captains' = captains
    BY <2>7, NobodyDisplaced
  <2>8. CASE Commit(c, ops, e, closer)
    BY <2>3, <2>4, <2>5, <2>6, <2>8, ClaimSpares
  <2> QED BY <2>3, <2>7, <2>8
<1>4. CASE CommissionClaims
  <2>1. PICK t, r, seen, gone : t = builder.tile /\ r = builder.ship /\ seen = Orphans \cap live /\ gone = Orphans \ live
    OBVIOUS
  <2>2. PICK c, o, e : c = Claimed(t, r, seen, gone, TRUE) /\ o = Others /\ e = excluded \ {t}
    OBVIOUS
  <2>3. builder.pc = "started" /\ ~Refused(t, r, seen) /\ Commit(c, o, e, closer)
    BY <1>4, <2>1, <2>2 DEF CommissionClaims
  <2>4. t \in Tiles /\ r \in Ships /\ seen \in SUBSET Tiles /\ gone \in SUBSET Tiles
    BY <2>1, <2>3 DEF CaptainsInv, Typed, Used, Builder, Commissioning, Orphans
  <2>5. e \in SUBSET Tiles /\ e \cap live = {} /\ t \notin e
    BY <1>1, <2>2
  <2>6. c = Claimed(t, r, seen, gone, TRUE)
    BY <2>2
  <2> QED BY <2>3, <2>4, <2>5, <2>6, ClaimSpares
<1>5. CASE SpawnRecords
  <2>1. CASE captains' = captains
    BY <2>1, NobodyDisplaced
  <2>2. CASE \E q \in Captaining(captains, builder.by) :
               Commit([captains EXCEPT ![q].crew[builder.tile] = "Active"], ops, excluded, closer)
    <3>1. PICK q \in Captaining(captains, builder.by) :
               Commit([captains EXCEPT ![q].crew[builder.tile] = "Active"], ops, excluded, closer)
      BY <2>2
    <3>2. PICK t, c : t = builder.tile /\ c = [captains EXCEPT ![q].crew[t] = "Active"]
      OBVIOUS
    <3>3. q \in Ships /\ captains[q] # Nil /\ t \in Tiles /\ c = [captains EXCEPT ![q].crew[t] = "Active"]
      BY <1>5, <3>2 DEF Captaining, SpawnRecords, CaptainsInv, Typed, Used
    <3>4. c \in Registry /\ Spares(c, captains, {})
      BY <1>1, <3>3, CrewIs
    <3>5. Commit(c, ops, excluded, closer)
      BY <3>1, <3>2
    <3>6. Committed(c, ops, excluded, closer)
      BY <1>1, <3>4, <3>5, CommitFacts
    <3> QED BY <1>1, <3>4, <3>6, SparedCommit
  <2> QED BY <1>5, <2>1, <2>2 DEF SpawnRecords, registryVars
<1>6. CASE \E t \in Tiles, r \in Ships : CommissionPrepares(t, r)
  <2>1. \E o : Commit(captains, o, excluded, closer)
    BY <1>6 DEF CommissionPrepares
  <2> QED BY <1>1, <2>1, SameCommit
<1>7. CASE CommissionBinds
  <2>1. \E o : Commit(captains, o, excluded, closer)
    BY <1>7 DEF CommissionBinds
  <2> QED BY <1>1, <2>1, SameCommit
<1>8. CASE CommissionAborts
  <2>1. captains' = captains \/ \E o : Commit(captains, o, excluded, closer)
    BY <1>8 DEF CommissionAborts, registryVars
  <2> QED BY <1>1, <2>1, SameCommit, NobodyDisplaced
<1> HIDE DEF CaptainsInv
<1>9. \/ \E t \in Tiles, r \in Ships : ClaimProbes(t, r)
      \/ ClaimCommits \/ ClaimRefused
      \/ \E t \in Tiles, by \in Tiles \cup {Nil} : Spawn(t, by)
      \/ SpawnRecords \/ SpawnUndone
      \/ \E t \in Tiles, r \in Ships : CommissionPrepares(t, r)
      \/ CommissionMints \/ CommissionBinds \/ CommissionUnbound \/ CommissionStarts
      \/ CommissionClaims \/ CommissionKills \/ CommissionRetires \/ CommissionAborts
  BY Zenon DEF BuilderStep
<1> QED BY <1>2, <1>3, <1>4, <1>5, <1>6, <1>7, <1>8, <1>9, Zenon

LEMMA CloserSpares ==
  ASSUME CaptainsInv, NEW k \in Closers, CloserStep(k), NEW s \in Ships, Displaced(s)
  PROVE  KillRemoves(k, captains[s].term)
<1>1. /\ captains \in Registry /\ closer \in [Closers -> Closer]
      /\ excluded \in SUBSET Tiles /\ excluded \cap live = {}
  BY DEF CaptainsInv, Typed, Gone
<1>2. CASE \/ \E t \in Tiles, r \in Ships \cup {Nil} : CloseAuthorizes(k, t, r)
           \/ CloseRevalidates(k) \/ CloseFreezes(k) \/ CloseGivesUp(k) \/ CloseKills(k) \/ CloseRetires(k) \/ KillKills(k)
  <2>1. captains' = captains
    BY <1>2 DEF CloseAuthorizes, CloseRevalidates, CloseFreezes, CloseGivesUp, CloseKills, CloseRetires, KillKills, registryVars
  <2> QED BY <2>1, NobodyDisplaced
<1>3. CASE ClosePrepares(k)
  <2>1. PICK cl : cl = [closer EXCEPT ![k].pc = "kill"]
    OBVIOUS
  <2>2. cl \in [Closers -> Closer]
    BY <1>1, <2>1, CloserGoesTo DEF CloserPcs
  <2>3. captains' = captains \/ \E o : Commit(captains, o, excluded, cl)
    BY <1>3, <2>1 DEF ClosePrepares, Prepared, registryVars
  <2> QED BY <1>1, <2>2, <2>3, SameCommit, NobodyDisplaced
<1>4. CASE CloseCommits(k)
  <2>1. PICK t : t = closer[k].tile
    OBVIOUS
  <2>2. t \in Tiles /\ t \notin live
    BY <1>4, <2>1, NilFacts DEF CloseCommits, CaptainsInv, Turns, Typed
  <2>3. PICK c, o, cl : /\ c = Without(captains, {t}) /\ o = ops \ Closing(t)
                        /\ cl = [closer EXCEPT ![k].pc = "retire"]
    OBVIOUS
  <2>4. cl \in [Closers -> Closer]
    BY <1>1, <2>3, CloserGoesTo DEF CloserPcs
  <2>5. captains' = captains \/ Commit(c, o, excluded, cl)
    BY <1>4, <2>1, <2>3 DEF CloseCommits, registryVars
  <2>6. c = Without(captains, {t}) /\ {t} \in SUBSET Tiles
    BY <2>2, <2>3
  <2>7. c \in Registry /\ Spares(c, captains, {t})
    BY <1>1, <2>6, WithoutIs
  <2>8. CASE Commit(c, o, excluded, cl)
    <3>1. Committed(c, o, excluded, cl)
      BY <1>1, <2>4, <2>7, <2>8, CommitFacts
    <3>2. {t} \cap live = {}
      BY <2>2
    <3> QED BY <1>1, <2>7, <3>1, <3>2, SparedCommit
  <2> QED BY <2>5, <2>8, NobodyDisplaced
<1>5. CASE \E t \in Tiles : KillRemoves(k, t)
  <2>1. PICK t \in Tiles : KillRemoves(k, t)
    BY <1>5
  <2>2. PICK b, cl, c : /\ b = [Stopped EXCEPT !.pc = "removed", !.tile = t] /\ cl = [closer EXCEPT ![k] = b]
                        /\ c = Without(captains, {t})
    OBVIOUS
  <2>3. b \in Closer
    BY <2>2 DEF Stopped, Closer, CloserPcs
  <2>4. cl \in [Closers -> Closer]
    BY <1>1, <2>2, <2>3, CloserMoves
  <2>5. captains' = captains \/ Commit(c, ops, excluded, cl)
    BY <2>1, <2>2 DEF KillRemoves, registryVars
  <2>6. c = Without(captains, {t}) /\ {t} \in SUBSET Tiles
    BY <2>2
  <2>7. c \in Registry /\ Spares(c, captains, {t})
    BY <1>1, <2>6, WithoutIs
  <2>8. ASSUME t # captains[s].term PROVE FALSE
    <3>1. Commit(c, ops, excluded, cl)
      BY <2>5, NobodyDisplaced
    <3>2. Committed(c, ops, excluded, cl)
      BY <1>1, <2>4, <2>7, <3>1, CommitFacts
    <3>3. PICK u : u = captains[s].term
      OBVIOUS
    <3>4. captains[s] # Nil /\ u \in Tiles \ {t} /\ u \in live
      BY <2>8, <3>3 DEF Displaced, CaptainsInv, Typed
    <3>5. captains'[s] # Nil /\ captains'[s].term = u
      BY <1>1, <2>7, <3>2, <3>3, <3>4 DEF Committed, Spares
    <3>6. s \in Captaining(captains', u)
      BY <3>5 DEF Captaining
    <3> QED BY <3>3, <3>6 DEF Displaced
  <2> QED BY <2>1, <2>8
<1>6. \/ \E t \in Tiles, r \in Ships \cup {Nil} : CloseAuthorizes(k, t, r)
      \/ CloseRevalidates(k) \/ CloseFreezes(k) \/ ClosePrepares(k)
      \/ CloseGivesUp(k) \/ CloseKills(k) \/ CloseCommits(k) \/ CloseRetires(k)
      \/ (\E t \in Tiles : KillRemoves(k, t)) \/ KillKills(k)
  BY Zenon DEF CloserStep
<1> QED BY <1>2, <1>3, <1>4, <1>5, <1>6, Zenon

LEMMA ReleaseSpares ==
  ASSUME CaptainsInv, NEW r \in Ships, Release(r), NEW s \in Ships \ {r}
  PROVE  ~Displaced(s)
<1>1. PICK kept \in BOOLEAN : kept <=> \E t \in Tiles : captains[r].crew[t] \in {"Active", "Orphaned"}
  OBVIOUS
<1>2. PICK c : c = [captains EXCEPT ![r] = IF kept THEN [@ EXCEPT !.state = "Vacant", !.term = Nil] ELSE Nil]
  OBVIOUS
<1>3. Commit(c, ops, excluded, closer) /\ captains[r] # Nil
  BY <1>1, <1>2 DEF Release
<1>4. c \in Registry /\ \A q \in Ships \ {r} : c[q] = captains[q]
  <2>1. captains \in Registry /\ captains[r] # Nil
    BY <1>3 DEF CaptainsInv, Typed
  <2>2. c \in Registry /\ ChangesOnly(c, r)
    BY <1>2, <2>1, ReleasedIs
  <2> QED BY <2>2 DEF ChangesOnly
<1>5. Committed(c, ops, excluded, closer)
  BY <1>3, <1>4, CommitFacts DEF CaptainsInv, Typed
<1> SUFFICES ASSUME Displaced(s) PROVE FALSE
  OBVIOUS
<1>6. PICK u : u = captains[s].term
  OBVIOUS
<1>7. captains[s] # Nil /\ u \in Tiles \ excluded
  BY <1>6 DEF Displaced, CaptainsInv, Typed, Gone
<1>8. c[s] # Nil /\ c[s].term = u
  BY <1>4, <1>6, <1>7
<1>9. captains'[s] # Nil /\ captains'[s].term = u
  BY <1>5, <1>7, <1>8 DEF Committed, Spares
<1>10. s \in Captaining(captains', u)
  BY <1>9 DEF Captaining
<1> QED BY <1>6, <1>10 DEF Displaced

LEMMA RecoverSpares ==
  ASSUME CaptainsInv, NEW o \in todo, Recover(o), NEW s \in Ships, Displaced(s)
  PROVE  o.tile = captains[s].term
<1>1. PICK t, u : t = o.tile /\ u = captains[s].term
  OBVIOUS
<1>2. /\ captains \in Registry /\ closer \in [Closers -> Closer]
      /\ excluded \in SUBSET Tiles /\ t \in Tiles /\ u \in Tiles \ excluded /\ captains[s] # Nil
  <2>1. o \in Operation /\ o.tile \in Tiles
    BY DEF CaptainsInv, Typed, Used
  <2>2. u \in live /\ captains[s] # Nil
    BY <1>1 DEF Displaced
  <2>3. excluded \subseteq Tiles /\ u \in Tiles \ excluded
    BY <2>2 DEF CaptainsInv, Typed, Gone
  <2> QED BY <1>1, <2>1, <2>2, <2>3 DEF CaptainsInv, Typed
<1>3. PICK c, q : c = (IF Intent(o) THEN captains ELSE Without(captains, {t})) /\ q = ops \ {o}
  OBVIOUS
<1>4. c \in Registry /\ Spares(c, captains, {t})
  <2>1. CASE Intent(o)
    BY <1>2, <1>3, <2>1 DEF Spares
  <2>2. CASE ~Intent(o)
    <3>1. c = Without(captains, {t}) /\ {t} \in SUBSET Tiles
      BY <1>2, <1>3, <2>2
    <3> QED BY <1>2, <3>1, WithoutIs
  <2> QED BY <2>1, <2>2
<1>5. captains' = captains \/ Commit(c, q, excluded, closer)
  BY <1>1, <1>3 DEF Recover, registryVars
<1>6. ASSUME t # u PROVE FALSE
  <2>1. Commit(c, q, excluded, closer)
    BY <1>5, NobodyDisplaced
  <2>2. Committed(c, q, excluded, closer)
    BY <1>2, <1>4, <2>1, CommitFacts
  <2>3. captains'[s] # Nil /\ captains'[s].term = u
    BY <1>1, <1>2, <1>4, <1>6, <2>2 DEF Committed, Spares
  <2>4. s \in Captaining(captains', u)
    BY <2>3 DEF Captaining
  <2> QED BY <1>1, <2>4 DEF Displaced
<1> QED BY <1>1, <1>6

LEMMA ReconcileSpares ==
  ASSUME CaptainsInv, StartupReconciles, NEW s \in Ships
  PROVE  ~Displaced(s)
<1>1. PICK e : e = excluded \cup GoneAtStartup
  OBVIOUS
<1>2. e \in SUBSET Tiles /\ e \cap live = {} /\ closer \in [Closers -> Closer]
  BY <1>1 DEF GoneAtStartup, CaptainsInv, Used, Gone, Typed
<1>3. captains' = captains \/ Commit(captains, ops, e, closer)
  BY <1>1 DEF StartupReconciles, registryVars
<1> QED BY <1>2, <1>3, SameCommit, NobodyDisplaced

(* No soft signal ever seizes a live ship: whatever claims, commissions,   *)
(* closes and the startup reconciliation do, a captain whose terminal is   *)
(* alive loses it only by a release, by the webview's kill of that         *)
(* terminal, or by the recovery of its own pending operation.  It needs no *)
(* condition on the windows the other two properties exclude.              *)
THEOREM LiveShipsAreKept == Spec => NoLiveShipSeized
<1>1. ASSUME CaptainsInv, [Next]_vars, NEW s \in Ships, Displaced(s)
      PROVE  \/ Release(s)
             \/ \E k \in Closers : KillRemoves(k, captains[s].term)
             \/ \E o \in todo : o.tile = captains[s].term /\ Recover(o)
  <2>1. CASE UNCHANGED vars
    BY <1>1, <2>1, NobodyDisplaced DEF vars, registryVars
  <2>2. CASE Next
    <3>1. Typed
      BY <1>1 DEF CaptainsInv
    <3>2. \/ BuilderStep \/ \E k \in Closers : CloserStep(k)
          \/ \E t \in Tiles : Dies(t)
          \/ \E r \in Ships : Release(r)
          \/ Crash \/ \E o \in todo : Recover(o)
          \/ StartupBasis \/ StartupLists \/ StartupReconciles \/ StartupPrunes
      BY <2>2, <3>1, NextIs, Zenon
    <3>3. ~BuilderStep
      BY <1>1, BuilderSpares
    <3>4. CASE \E k \in Closers : CloserStep(k)
      BY <1>1, <3>4, CloserSpares
    <3>5. CASE \/ \E t \in Tiles : Dies(t)
               \/ Crash \/ StartupBasis \/ StartupLists \/ StartupPrunes
      <4>1. captains' = captains
        BY <3>5 DEF Dies, Crash, StartupBasis, StartupLists, StartupPrunes, registryVars
      <4> QED BY <1>1, <4>1, NobodyDisplaced
    <3>6. CASE \E r \in Ships : Release(r)
      BY <1>1, <3>6, ReleaseSpares
    <3>7. CASE \E o \in todo : Recover(o)
      BY <1>1, <3>7, RecoverSpares
    <3>8. ~StartupReconciles
      BY <1>1, ReconcileSpares
    <3> QED BY <3>2, <3>3, <3>4, <3>5, <3>6, <3>7, <3>8, Zenon
  <2> QED BY <1>1, <2>1, <2>2
<1>2. CaptainsInv /\ [Next]_vars =>
        \A s \in Ships : Displaced(s) =>
          \/ Release(s)
          \/ \E k \in Closers : KillRemoves(k, captains[s].term)
          \/ \E o \in todo : o.tile = captains[s].term /\ Recover(o)
  BY <1>1
<1> QED BY <1>2, CaptainsInvariant, PTL DEF Spec, NoLiveShipSeized
=============================================================================
