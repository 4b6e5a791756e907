------------------------- MODULE CubeScheduleProofs -------------------------
(***************************************************************************)
(* The safety properties of CubeSchedule for every number of cubes, every  *)
(* grid and every choice of phases.                                        *)
(***************************************************************************)
EXTENDS CubeSchedule, FiniteSetTheorems, TLAPS

(***************************************************************************)
(* What the frontier holds: the seed before the first visit, afterwards    *)
(* every unplaced neighbour of a placed cube.                              *)
(***************************************************************************)
FrontierExact ==
  pc = "flood" =>
    IF order = <<>>
    THEN Frontier = {seed_idx}
    ELSE \A j \in Cubes : j \in Frontier <=> (j \notin placed /\ \E i \in placed : j \in nbr[i])

\* The caller's seed is resolved, the links are there, nothing is placed early.
Phased ==
  /\ pc # "link" => nbr = Links
  /\ pc \in {"flood", "done"} => seed_idx \in Cubes
  /\ pc \in {"link", "seed"} => order = <<>>
  /\ order = <<>> => ncomp = 0
  /\ pc = "done" => Len(order) = N

\* A component that is no longer flooded has no neighbour left, and linked
\* cubes carry the same number.
CompsClosed ==
  \A i \in placed :
    /\ comp[i] <= ncomp
    /\ comp[i] < ncomp => nbr[i] \subseteq placed
    /\ \A j \in nbr[i] : j \in placed => comp[j] = comp[i]

\* The set of placed cubes has as many members as the order is long.
Counted == IsFiniteSet(placed) /\ Cardinality(placed) = Len(order)

Unsplit ==
  \A S \in SUBSET Cubes : Closed(S) =>
    \A i, j \in placed : i \in S /\ comp[i] = comp[j] => j \in S

OnceOnly == \A t \in 1 .. Len(order) : order[t] \notin Earlier(t)

IInv ==
  /\ TypeOK
  /\ Phased
  /\ FrontierExact
  /\ CompsClosed
  /\ Counted
  /\ OnceOnly
  /\ AttachedToPlaced
  /\ Unsplit
  /\ ComponentsInOrder
  /\ SpiralSweep

\* A link holds in both directions.
LEMMA LinksSymmetric ==
  ASSUME TypeOK, nbr = Links, NEW i \in Cubes, NEW j \in nbr[i]
  PROVE  j \in Cubes /\ i \in nbr[j]
<1>1. j \in Cubes /\ Adjacent(origin[i], origin[j])
  BY DEF Links
<1>2. origin \in [Cubes -> [Axes -> Int]]
  BY LayoutAssumption DEF TypeOK
<1>3. PICK d \in Axes : /\ origin[i][d] - origin[j][d] \in {-1, 1}
                        /\ \A e \in Axes \ {d} : origin[i][e] = origin[j][e]
  BY <1>1 DEF Adjacent
<1>4. origin[i][d] \in Int /\ origin[j][d] \in Int
  BY <1>1, <1>2
<1>5. origin[j][d] - origin[i][d] \in {-1, 1}
  BY <1>3, <1>4
<1>6. Adjacent(origin[j], origin[i])
  BY <1>3, <1>5 DEF Adjacent
<1> QED
  BY <1>1, <1>6 DEF Links

\* What placing one cube does to the order, to the placed set and to the
\* numbers of the components.
LEMMA PlaceFacts ==
  ASSUME TypeOK, NEW i \in Cubes, i \notin placed, NEW c \in Nat, Place(i, c)
  PROVE  /\ order' \in Seq(Cubes)
         /\ Len(order') = Len(order) + 1
         /\ \A t \in 1 .. Len(order) : order'[t] = order[t]
         /\ order'[Len(order) + 1] = i
         /\ placed' = placed \cup {i}
         /\ \A t \in 1 .. Len(order) : Earlier(t)' = Earlier(t)
         /\ \A t \in Nat : t = Len(order) + 1 => Earlier(t)' = placed
         /\ comp' \in [Cubes -> Nat]
         /\ comp'[i] = c
         /\ \A j \in placed : j \in Cubes /\ j # i /\ comp'[j] = comp[j]
<1>1. order \in Seq(Cubes) /\ comp \in [Cubes -> Nat] /\ Len(order) \in Nat
  BY DEF TypeOK
<1>2. order' = Append(order, i) /\ comp' = [comp EXCEPT ![i] = c]
  BY DEF Place
<1>3. /\ order' \in Seq(Cubes)
      /\ Len(order') = Len(order) + 1
      /\ \A t \in 1 .. Len(order) : order'[t] = order[t]
      /\ order'[Len(order) + 1] = i
  BY <1>1, <1>2
<1>4. placed' = placed \cup {i}
  <2>1. ASSUME NEW x \in placed' PROVE x \in placed \cup {i}
    <3>1. PICK t \in 1 .. Len(order') : x = order'[t]
      BY DEF placed
    <3>2. CASE t = Len(order) + 1
      BY <1>3, <3>1, <3>2
    <3>3. CASE t \in 1 .. Len(order)
      BY <1>3, <3>1, <3>3 DEF placed
    <3> QED
      BY <1>1, <1>3, <3>1, <3>2, <3>3
  <2>2. ASSUME NEW x \in placed PROVE x \in placed'
    <3>1. PICK t \in 1 .. Len(order) : x = order[t]
      BY DEF placed
    <3>2. t \in 1 .. Len(order') /\ x = order'[t]
      BY <1>1, <1>3, <3>1
    <3> QED
      BY <3>2 DEF placed
  <2>3. i \in placed'
    <3>1. Len(order) + 1 \in 1 .. Len(order')
      BY <1>1, <1>3
    <3> QED
      BY <1>3, <3>1 DEF placed
  <2> QED
    BY <2>1, <2>2, <2>3
<1>5. ASSUME NEW t \in 1 .. Len(order) PROVE Earlier(t)' = Earlier(t)
  <2>1. \A s \in 1 .. t - 1 : order'[s] = order[s]
    BY <1>1, <1>3
  <2> QED
    BY <2>1 DEF Earlier
<1>6. ASSUME NEW t \in Nat, t = Len(order) + 1 PROVE Earlier(t)' = placed
  <2>1. 1 .. t - 1 = 1 .. Len(order)
    BY <1>1, <1>6
  <2> QED
    BY <1>3, <2>1 DEF Earlier, placed
<1>7. \A j \in placed : j \in Cubes /\ j # i
  BY <1>1 DEF placed
<1>8. /\ comp' \in [Cubes -> Nat]
      /\ comp'[i] = c
      /\ \A j \in placed : comp'[j] = comp[j]
  BY <1>1, <1>2, <1>7
<1> QED
  BY <1>3, <1>4, <1>5, <1>6, <1>7, <1>8

\* The two ways a cube is placed, as the invariant sees them: next to a cube
\* of the component being flooded, or with nothing left to flood.
LEMMA VisitFacts ==
  ASSUME IInv, NEW i \in Cubes, Visit(i)
  PROVE  /\ i \notin placed
         /\ order = <<>> => i = seed_idx
         /\ order # <<>> => \E q \in placed : i \in nbr[q] /\ comp[q] = ncomp
<1>1. pc = "flood" /\ i \in Frontier /\ nbr = Links
  BY DEF Visit, Best, IInv, Phased
<1>2. i \notin placed
  BY <1>1 DEF Frontier
<1>3. order = <<>> => i = seed_idx
  BY <1>1 DEF IInv, FrontierExact
<1>4. ASSUME order # <<>> PROVE \E q \in placed : i \in nbr[q] /\ comp[q] = ncomp
  <2>1. PICK q \in placed : i \in nbr[q]
    BY <1>1, <1>4 DEF IInv, FrontierExact
  <2>2. comp[q] <= ncomp /\ (comp[q] < ncomp => nbr[q] \subseteq placed)
    BY DEF IInv, CompsClosed
  <2>3. q \in Cubes
    BY DEF IInv, TypeOK, placed
  <2>4. comp[q] \in Nat /\ ncomp \in Nat
    BY <2>3 DEF IInv, TypeOK
  <2>5. comp[q] = ncomp
    BY <1>2, <2>1, <2>2, <2>4
  <2> QED
    BY <2>1, <2>5
<1> QED
  BY <1>2, <1>3, <1>4

LEMMA ReseedFacts ==
  ASSUME IInv, NEW i \in Cubes, Reseed(i)
  PROVE  /\ i \notin placed
         /\ order # <<>>
         /\ \A q \in placed : nbr[q] \subseteq placed
<1>1. pc = "flood" /\ Frontier = {} /\ i \in Cubes \ placed
  BY DEF Reseed, Best
<1>2. order # <<>>
  BY <1>1 DEF IInv, FrontierExact
<1>3. ASSUME NEW q \in placed, NEW j \in nbr[q] PROVE j \in placed
  <2>1. q \in Cubes /\ j \in Cubes
    BY DEF IInv, TypeOK, placed
  <2> QED
    BY <1>1, <1>2, <2>1 DEF IInv, FrontierExact
<1> QED
  BY <1>1, <1>2, <1>3

\* Types, the count and the absence of repetitions survive any placement.
LEMMA PlacePreserves ==
  ASSUME IInv, NEW i \in Cubes, i \notin placed, NEW c \in Nat, Place(i, c),
         pc = "flood", Len(order) < N
  PROVE  TypeOK' /\ Phased' /\ Counted' /\ OnceOnly'
<1>1. TypeOK
  BY DEF IInv
<1>2. /\ order' \in Seq(Cubes)
      /\ Len(order') = Len(order) + 1
      /\ \A t \in 1 .. Len(order) : order'[t] = order[t]
      /\ order'[Len(order) + 1] = i
      /\ placed' = placed \cup {i}
      /\ \A t \in 1 .. Len(order) : Earlier(t)' = Earlier(t)
      /\ \A t \in Nat : t = Len(order) + 1 => Earlier(t)' = placed
      /\ comp' \in [Cubes -> Nat]
  BY <1>1, PlaceFacts
<1>3. Len(order) \in Nat /\ N \in Nat
  BY <1>1, CountAssumption DEF TypeOK
<1>4. TypeOK'
  <2>1. elig' \subseteq Cubes
    BY <1>1 DEF Place, Marked, TypeOK
  <2>2. Len(order') <= N
    BY <1>2, <1>3
  <2>3. /\ origin' = origin /\ r' = r /\ w_phase' = w_phase
        /\ seed_idx' = seed_idx /\ nbr' = nbr /\ pc' = pc /\ ncomp' = c
    BY DEF Place, input
  <2> QED
    BY <1>1, <1>2, <2>1, <2>2, <2>3 DEF TypeOK
<1>5. Phased'
  <2>1. /\ origin' = origin /\ seed_idx' = seed_idx /\ nbr' = nbr /\ pc' = pc
    BY DEF Place, input
  <2>2. nbr = Links /\ seed_idx \in Cubes
    BY DEF IInv, Phased
  <2>3. Links' = Links
    BY <2>1 DEF Links
  <2>4. order' # <<>>
    BY <1>2, <1>3
  <2> QED
    BY <2>1, <2>2, <2>3, <2>4 DEF Phased
<1>6. Counted'
  <2>1. IsFiniteSet(placed) /\ Cardinality(placed) = Len(order)
    BY DEF IInv, Counted
  <2>2. IsFiniteSet(placed \cup {i}) /\ Cardinality(placed \cup {i}) = Len(order) + 1
    BY <2>1, FS_AddElement
  <2> QED
    BY <1>2, <2>2 DEF Counted
<1>7. OnceOnly'
  <2>1. SUFFICES ASSUME NEW t \in 1 .. Len(order') PROVE order'[t] \notin Earlier(t)'
    BY DEF OnceOnly
  <2>2. CASE t \in 1 .. Len(order)
    <3>1. order[t] \notin Earlier(t)
      BY <2>2 DEF IInv, OnceOnly
    <3> QED
      BY <1>2, <2>2, <3>1
  <2>3. CASE t = Len(order) + 1
    BY <1>2, <1>3, <2>3
  <2> QED
    BY <1>2, <1>3, <2>1, <2>2, <2>3
<1> QED
  BY <1>4, <1>5, <1>6, <1>7

\* The frontier after a visit: its old members and the new cube's neighbours.
LEMMA FrontierPreserved ==
  ASSUME IInv, NEW i \in Cubes, i \notin placed, NEW c \in Nat, Place(i, c),
         pc = "flood", order = <<>> => i = seed_idx
  PROVE  FrontierExact'
<1>1. /\ placed' = placed \cup {i}
      /\ Len(order') = Len(order) + 1
  BY PlaceFacts DEF IInv
<1>2. /\ elig' = elig \cup {j \in nbr[i] : j \notin placed \cup {i}}
      /\ nbr' = nbr
  BY DEF Place, Marked
<1>3. /\ nbr \in [Cubes -> SUBSET Cubes]
      /\ elig \subseteq Cubes
      /\ Len(order) \in Nat
  BY DEF IInv, TypeOK
<1>4. order' # <<>>
  BY <1>1, <1>3
<1>5. ASSUME NEW j \in Cubes
      PROVE  j \in Frontier' <=>
               (j \notin placed' /\ \E q \in placed' : j \in nbr'[q])
  <2>1. j \in Frontier' <=>
          j \notin placed \cup {i} /\ (j \in Frontier \/ j \in nbr[i])
    BY <1>1, <1>2 DEF Frontier
  <2>2. CASE order = <<>>
    <3>1. placed = {} /\ Frontier = {i}
      BY <2>2 DEF IInv, FrontierExact, placed
    <3> QED
      BY <1>1, <1>2, <2>1, <3>1
  <2>3. CASE order # <<>>
    <3>1. j \in Frontier <=> (j \notin placed /\ \E q \in placed : j \in nbr[q])
      BY <2>3 DEF IInv, FrontierExact
    <3> QED
      BY <1>1, <1>2, <2>1, <3>1
  <2> QED
    BY <2>2, <2>3
<1> QED
  BY <1>4, <1>5 DEF FrontierExact

\* A cube placed next to a cube of its component, or in a new component,
\* keeps every component in one piece and attached to what came before.
LEMMA AttachPreserves ==
  ASSUME IInv, NEW i \in Cubes, i \notin placed, NEW c \in Nat, Place(i, c),
         pc = "flood",
         \/ \A q \in placed : comp[q] # c
         \/ \E q \in placed : i \in nbr[q] /\ comp[q] = c
  PROVE  AttachedToPlaced' /\ Unsplit'
<1>1. /\ order \in Seq(Cubes) /\ Len(order) \in Nat
      /\ nbr = Links
      /\ nbr \in [Cubes -> SUBSET Cubes]
  BY DEF IInv, TypeOK, Phased
<1>2. /\ Len(order') = Len(order) + 1
      /\ \A t \in 1 .. Len(order) : order'[t] = order[t]
      /\ order'[Len(order) + 1] = i
      /\ placed' = placed \cup {i}
      /\ \A t \in 1 .. Len(order) : Earlier(t)' = Earlier(t)
      /\ \A t \in Nat : t = Len(order) + 1 => Earlier(t)' = placed
      /\ comp'[i] = c
      /\ \A j \in placed : j \in Cubes /\ j # i /\ comp'[j] = comp[j]
  BY PlaceFacts DEF IInv
<1>3. nbr' = nbr
  BY DEF Place
<1>4. \A q \in placed : i \in nbr[q] => q \in nbr[i]
  BY <1>1, <1>2, LinksSymmetric DEF IInv
<1>5. AttachedToPlaced'
  <2>1. SUFFICES ASSUME NEW t \in 1 .. Len(order'), ~ Opens(t)'
                 PROVE \E q \in Earlier(t)' : /\ q \in nbr'[order'[t]]
                                              /\ comp'[q] = comp'[order'[t]]
    BY DEF AttachedToPlaced
  <2>2. CASE t \in 1 .. Len(order)
    <3>1. Earlier(t) \subseteq placed /\ order[t] \in placed
      BY <1>1, <2>2 DEF Earlier, placed
    <3>2. Earlier(t)' = Earlier(t) /\ order'[t] = order[t]
      BY <1>2, <2>2
    <3>3. ~ Opens(t)
      BY <1>2, <2>1, <3>1, <3>2 DEF Opens
    <3>4. PICK q \in Earlier(t) : q \in nbr[order[t]] /\ comp[q] = comp[order[t]]
      BY <2>2, <3>3 DEF IInv, AttachedToPlaced
    <3> QED
      BY <1>2, <1>3, <3>1, <3>2, <3>4
  <2>3. CASE t = Len(order) + 1
    <3>1. Earlier(t)' = placed /\ order'[t] = i
      BY <1>1, <1>2, <2>3
    <3>2. \E q \in placed : comp[q] = c
      BY <1>2, <2>1, <3>1 DEF Opens
    <3>3. PICK q \in placed : i \in nbr[q] /\ comp[q] = c
      BY <3>2
    <3> QED
      BY <1>2, <1>3, <1>4, <3>1, <3>3
  <2> QED
    BY <1>1, <1>2, <2>1, <2>2, <2>3
<1>6. Unsplit'
  <2>1. SUFFICES ASSUME NEW S \in SUBSET Cubes, Closed(S),
                        NEW a \in placed \cup {i}, NEW b \in placed \cup {i},
                        a \in S, comp'[a] = comp'[b]
                 PROVE b \in S
    BY <1>2, <1>3 DEF Unsplit, Closed
  <2>2. \A x, y \in placed : x \in S /\ comp[x] = comp[y] => y \in S
    BY <2>1 DEF IInv, Unsplit
  <2>3. CASE a \in placed /\ b \in placed
    BY <1>2, <2>1, <2>2, <2>3
  <2>4. CASE a = i /\ b \in placed
    <3>1. comp[b] = c
      BY <1>2, <2>1, <2>4
    <3>2. PICK q \in placed : i \in nbr[q] /\ comp[q] = c
      BY <2>4, <3>1
    <3>3. q \in S
      BY <1>4, <2>1, <2>4, <3>2 DEF Closed
    <3> QED
      BY <2>2, <2>4, <3>1, <3>2, <3>3
  <2>5. CASE a \in placed /\ b = i
    <3>1. comp[a] = c
      BY <1>2, <2>1, <2>5
    <3>2. PICK q \in placed : i \in nbr[q] /\ comp[q] = c
      BY <2>5, <3>1
    <3>3. q \in S
      BY <2>1, <2>2, <2>5, <3>1, <3>2
    <3> QED
      BY <2>1, <2>5, <3>2, <3>3 DEF Closed
  <2> QED
    BY <2>1, <2>3, <2>4, <2>5
<1> QED
  BY <1>5, <1>6

\* Whoever is linked to the new cube belongs to its component, and a component
\* left behind has no neighbour left.
LEMMA ClosedPreserved ==
  ASSUME IInv, NEW i \in Cubes, i \notin placed, NEW c \in Nat, Place(i, c),
         pc = "flood",
         \A q \in placed : /\ comp[q] <= c
                           /\ comp[q] < c => nbr[q] \subseteq placed
                           /\ i \in nbr[q] => comp[q] = c
  PROVE  CompsClosed'
<1>1. nbr = Links /\ nbr \in [Cubes -> SUBSET Cubes]
  BY DEF IInv, TypeOK, Phased
<1>2. /\ placed' = placed \cup {i}
      /\ comp'[i] = c
      /\ \A j \in placed : j \in Cubes /\ j # i /\ comp'[j] = comp[j]
  BY PlaceFacts DEF IInv
<1>3. nbr' = nbr /\ ncomp' = c
  BY DEF Place
<1>4. \A q \in placed : q \in nbr[i] => comp[q] = c
  BY <1>1, LinksSymmetric DEF IInv
<1>5. SUFFICES ASSUME NEW a \in placed \cup {i}
               PROVE /\ comp'[a] <= c
                     /\ comp'[a] < c => nbr[a] \subseteq placed \cup {i}
                     /\ \A j \in nbr[a] : j \in placed \cup {i} => comp'[j] = comp'[a]
  BY <1>2, <1>3 DEF CompsClosed
<1>6. CASE a = i
  BY <1>2, <1>4, <1>6
<1>7. CASE a \in placed
  <2>1. \A j \in nbr[a] : j \in placed => comp[j] = comp[a]
    BY <1>7 DEF IInv, CompsClosed
  <2> QED
    BY <1>2, <1>7, <2>1
<1> QED
  BY <1>5, <1>6, <1>7

\* The new cube is the seed in component 0, or carries the number of the last
\* cube or the next one.
LEMMA OrderPreserved ==
  ASSUME IInv, NEW i \in Cubes, i \notin placed, NEW c \in Nat, Place(i, c),
         pc = "flood",
         order = <<>> => i = seed_idx /\ c = 0,
         c \in {ncomp, ncomp + 1}
  PROVE  ComponentsInOrder'
<1>1. /\ order \in Seq(Cubes) /\ Len(order) \in Nat
  BY DEF IInv, TypeOK
<1>2. /\ Len(order') = Len(order) + 1
      /\ \A t \in 1 .. Len(order) : order'[t] = order[t]
      /\ order'[Len(order) + 1] = i
      /\ comp'[i] = c
      /\ \A j \in placed : j \in Cubes /\ j # i /\ comp'[j] = comp[j]
  BY PlaceFacts DEF IInv
<1>3. ncomp' = c /\ seed_idx' = seed_idx
  BY DEF Place
<1>4. \A t \in 1 .. Len(order) : comp'[order[t]] = comp[order[t]]
  BY <1>2 DEF placed
<1>5. SUFFICES ASSUME NEW t \in 1 .. Len(order')
               PROVE /\ t = 1 => order'[t] = seed_idx /\ comp'[order'[t]] = 0
                     /\ t > 1 => comp'[order'[t]] \in
                           {comp'[order'[t - 1]], comp'[order'[t - 1]] + 1}
                     /\ t = Len(order') => comp'[order'[t]] = c
  BY <1>3 DEF ComponentsInOrder
<1>6. CASE t \in 1 .. Len(order)
  <2>1. /\ t = 1 => order[t] = seed_idx /\ comp[order[t]] = 0
        /\ t > 1 => comp[order[t]] \in {comp[order[t - 1]], comp[order[t - 1]] + 1}
    BY <1>6 DEF IInv, ComponentsInOrder
  <2>2. t > 1 => t - 1 \in 1 .. Len(order)
    BY <1>1, <1>6
  <2>3. t # Len(order')
    BY <1>1, <1>2, <1>6
  <2> QED
    BY <1>2, <1>4, <1>6, <2>1, <2>2, <2>3
<1>7. CASE t = Len(order) + 1
  <2>1. order'[t] = i /\ comp'[order'[t]] = c
    BY <1>2, <1>7
  <2>2. CASE order = <<>>
    <3>1. t = 1
      BY <1>1, <1>7, <2>2
    <3> QED
      BY <2>1, <2>2, <3>1
  <2>3. CASE order # <<>>
    <3>1. Len(order) \in 1 .. Len(order) /\ t > 1 /\ t - 1 = Len(order)
      BY <1>1, <1>7, <2>3
    <3>2. comp[order[Len(order)]] = ncomp
      BY <3>1 DEF IInv, ComponentsInOrder
    <3>3. comp'[order'[t - 1]] = ncomp
      BY <1>2, <1>4, <3>1, <3>2
    <3> QED
      BY <2>1, <3>1, <3>3
  <2> QED
    BY <2>2, <2>3
<1> QED
  BY <1>1, <1>2, <1>5, <1>6, <1>7

\* Nothing nearer is left next to the placed cubes; a component is opened at
\* the nearest cube of all when they have no neighbour left.
LEMMA SweepPreserved ==
  ASSUME IInv, NEW i \in Cubes, i \notin placed, NEW c \in Nat, Place(i, c),
         pc = "flood",
         order # <<>> =>
           /\ \A q \in placed : \A j \in nbr[q] : Key(j) < Key(i) => j \in placed
           /\ \/ \E q \in placed : comp[q] = c
              \/ /\ \A q \in placed : nbr[q] \subseteq placed
                 /\ \A j \in Cubes \ placed : Key(i) <= Key(j)
  PROVE  SpiralSweep'
<1>1. /\ order \in Seq(Cubes) /\ Len(order) \in Nat
  BY DEF IInv, TypeOK
<1>2. /\ Len(order') = Len(order) + 1
      /\ \A t \in 1 .. Len(order) : order'[t] = order[t]
      /\ order'[Len(order) + 1] = i
      /\ \A t \in 1 .. Len(order) : Earlier(t)' = Earlier(t)
      /\ \A t \in Nat : t = Len(order) + 1 => Earlier(t)' = placed
      /\ comp'[i] = c
      /\ \A j \in placed : j \in Cubes /\ j # i /\ comp'[j] = comp[j]
  BY PlaceFacts DEF IInv
<1>3. nbr' = nbr /\ \A j : Key(j)' = Key(j)
  BY DEF Place, input, Key
<1>4. SUFFICES ASSUME NEW t \in 2 .. Len(order')
               PROVE /\ \A q \in Earlier(t)' : \A j \in nbr[q] :
                           Key(j) < Key(order'[t]) => j \in Earlier(t)'
                     /\ Opens(t)' =>
                          /\ \A q \in Earlier(t)' : nbr[q] \subseteq Earlier(t)'
                          /\ \A j \in Cubes \ Earlier(t)' : Key(order'[t]) <= Key(j)
  BY <1>3 DEF SpiralSweep, Closed, Key, Place, input
<1>5. CASE t \in 1 .. Len(order)
  <2>1. Earlier(t) \subseteq placed /\ order[t] \in placed
    BY <1>1, <1>5 DEF Earlier, placed
  <2>2. Earlier(t)' = Earlier(t) /\ order'[t] = order[t]
    BY <1>2, <1>5
  <2>3. Opens(t)' => Opens(t)
    BY <1>2, <2>1, <2>2 DEF Opens
  <2>4. t \in 2 .. Len(order)
    BY <1>1, <1>4, <1>5
  <2>5. /\ \A q \in Earlier(t) : \A j \in nbr[q] :
              Key(j) < Key(order[t]) => j \in Earlier(t)
        /\ Opens(t) =>
             /\ \A q \in Earlier(t) : nbr[q] \subseteq Earlier(t)
             /\ \A j \in Cubes \ Earlier(t) : Key(order[t]) <= Key(j)
    BY <2>4 DEF IInv, SpiralSweep, Closed
  <2> QED
    BY <2>2, <2>3, <2>5
<1>6. CASE t = Len(order) + 1
  <2>1. Earlier(t)' = placed /\ order'[t] = i /\ order # <<>>
    BY <1>1, <1>2, <1>4, <1>6
  <2>2. Opens(t)' => \A q \in placed : comp[q] # c
    BY <1>2, <2>1 DEF Opens
  <2> QED
    BY <2>1, <2>2
<1> QED
  BY <1>1, <1>2, <1>4, <1>5, <1>6

\* A visit preserves the invariant.
LEMMA VisitStep ==
  ASSUME IInv, NEW i \in Cubes, Visit(i)
  PROVE  IInv'
<1>1. /\ pc = "flood" /\ Len(order) < N
      /\ i \in Frontier
      /\ \A j \in Frontier : Key(i) <= Key(j)
      /\ Place(i, ncomp)
  BY DEF Visit, Best
<1>2. /\ i \notin placed
      /\ order = <<>> => i = seed_idx
      /\ order # <<>> => \E q \in placed : i \in nbr[q] /\ comp[q] = ncomp
  BY VisitFacts
<1>3. /\ ncomp \in Nat /\ comp \in [Cubes -> Nat]
      /\ nbr \in [Cubes -> SUBSET Cubes]
      /\ \A q \in placed : q \in Cubes
  BY DEF IInv, TypeOK, placed
<1>4. order = <<>> => placed = {} /\ ncomp = 0
  BY DEF IInv, Phased, placed
<1>5. TypeOK' /\ Phased' /\ Counted' /\ OnceOnly'
  BY <1>1, <1>2, <1>3, PlacePreserves
<1>6. FrontierExact'
  BY <1>1, <1>2, <1>3, FrontierPreserved
<1>7. AttachedToPlaced' /\ Unsplit'
  <2>1. \/ \A q \in placed : comp[q] # ncomp
        \/ \E q \in placed : i \in nbr[q] /\ comp[q] = ncomp
    BY <1>2, <1>4
  <2> QED
    BY <1>1, <1>2, <1>3, <2>1, AttachPreserves
<1>8. CompsClosed'
  <2>1. ASSUME NEW q \in placed
        PROVE  /\ comp[q] <= ncomp
               /\ comp[q] < ncomp => nbr[q] \subseteq placed
               /\ i \in nbr[q] => comp[q] = ncomp
    <3>1. comp[q] <= ncomp /\ (comp[q] < ncomp => nbr[q] \subseteq placed)
      BY DEF IInv, CompsClosed
    <3>2. comp[q] \in Nat
      BY <1>3
    <3> QED
      BY <1>2, <1>3, <3>1, <3>2
  <2> QED
    BY <1>1, <1>2, <1>3, <2>1, ClosedPreserved
<1>9. ComponentsInOrder'
  BY <1>1, <1>2, <1>3, <1>4, OrderPreserved
<1>10. SpiralSweep'
  <2>1. ASSUME order # <<>>, NEW q \in placed, NEW j \in nbr[q], Key(j) < Key(i)
        PROVE  j \in placed
    <3>1. j \in Cubes
      BY <1>3
    <3>2. j \in Frontier \/ j \in placed
      BY <1>1, <2>1, <3>1 DEF IInv, FrontierExact
    <3>3. Key(i) \in Int /\ Key(j) \in Int
      <4>1. w_phase \in [Cubes -> Int] /\ seed_idx \in Cubes
        BY <1>1, GeometryAssumption DEF IInv, TypeOK, Phased
      <4>2. w_phase[i] \in Int /\ w_phase[j] \in Int /\ w_phase[seed_idx] \in Int
        BY <3>1, <4>1
      <4> QED
        BY <4>2 DEF Key, Distance
    <3> QED
      BY <1>1, <2>1, <3>2, <3>3
  <2> QED
    BY <1>1, <1>2, <1>3, <2>1, SweepPreserved
<1> QED
  BY <1>5, <1>6, <1>7, <1>8, <1>9, <1>10 DEF IInv

\* Opening a component preserves the invariant.
LEMMA ReseedStep ==
  ASSUME IInv, NEW i \in Cubes, Reseed(i)
  PROVE  IInv'
<1>1. /\ pc = "flood" /\ Len(order) < N
      /\ \A j \in Cubes \ placed : Key(i) <= Key(j)
      /\ Place(i, Opened)
  BY DEF Reseed, Best
<1>2. /\ i \notin placed
      /\ order # <<>>
      /\ \A q \in placed : nbr[q] \subseteq placed
  BY ReseedFacts
<1>3. /\ ncomp \in Nat /\ Opened \in Nat /\ Opened = ncomp + 1
      /\ comp \in [Cubes -> Nat]
      /\ nbr \in [Cubes -> SUBSET Cubes]
      /\ \A q \in placed : q \in Cubes
  BY DEF IInv, TypeOK, placed, Opened
<1>4. \A q \in placed : comp[q] \in Nat /\ comp[q] <= ncomp
  BY <1>3 DEF IInv, CompsClosed
<1>5. TypeOK' /\ Phased' /\ Counted' /\ OnceOnly'
  BY <1>1, <1>2, <1>3, PlacePreserves
<1>6. FrontierExact'
  BY <1>1, <1>2, <1>3, FrontierPreserved
<1>7. AttachedToPlaced' /\ Unsplit'
  <2>1. \A q \in placed : comp[q] # Opened
    BY <1>3, <1>4
  <2> QED
    BY <1>1, <1>2, <1>3, <2>1, AttachPreserves
<1>8. CompsClosed'
  <2>1. \A q \in placed : /\ comp[q] <= Opened
                          /\ comp[q] < Opened => nbr[q] \subseteq placed
                          /\ i \in nbr[q] => comp[q] = Opened
    BY <1>2, <1>3, <1>4
  <2> QED
    BY <1>1, <1>2, <1>3, <2>1, ClosedPreserved
<1>9. ComponentsInOrder'
  BY <1>1, <1>2, <1>3, OrderPreserved
<1>10. SpiralSweep'
  <2>1. \A q \in placed : \A j \in nbr[q] : Key(j) < Key(i) => j \in placed
    BY <1>2
  <2> QED
    BY <1>1, <1>2, <1>3, <2>1, SweepPreserved
<1> QED
  BY <1>5, <1>6, <1>7, <1>8, <1>9, <1>10 DEF IInv

\* The invariant holds in every reachable state.
THEOREM Invariance == Spec => []IInv
<1>1. Init => IInv
  <2> SUFFICES ASSUME Init PROVE IInv
    OBVIOUS
  <2>1. order = <<>> /\ Len(order) = 0 /\ order \in Seq(Cubes)
    BY DEF Init
  <2>2. placed = {}
    BY <2>1 DEF placed
  <2>3. TypeOK
    BY <2>1, CountAssumption DEF Init, TypeOK
  <2>4. Phased /\ FrontierExact
    BY DEF Init, Phased, FrontierExact
  <2>5. CompsClosed /\ Unsplit
    BY <2>2 DEF CompsClosed, Unsplit
  <2>6. Counted
    BY <2>1, <2>2, FS_EmptySet DEF Counted
  <2>7. OnceOnly /\ AttachedToPlaced /\ ComponentsInOrder /\ SpiralSweep
    BY <2>1 DEF OnceOnly, AttachedToPlaced, ComponentsInOrder, SpiralSweep
  <2> QED
    BY <2>3, <2>4, <2>5, <2>6, <2>7 DEF IInv
<1>2. IInv /\ [Next]_vars => IInv'
  <2> SUFFICES ASSUME IInv, [Next]_vars PROVE IInv'
    OBVIOUS
  <2>1. /\ order = <<>> => placed = {} /\ Len(order) = 0
        /\ order \in Seq(Cubes) /\ Len(order) \in Nat
    BY DEF placed, IInv, TypeOK
  <2>2. CASE Link
    <3>1. /\ pc = "link" /\ order = <<>> /\ ncomp = 0
          /\ nbr' = Links /\ pc' = "seed"
          /\ UNCHANGED <<origin, r, w_phase, seed_idx, elig, order, comp, ncomp>>
      BY <2>2 DEF Link, input, IInv, Phased
    <3>2. TypeOK'
      BY <3>1 DEF IInv, TypeOK, Links
    <3>3. Phased' /\ FrontierExact'
      BY <3>1 DEF Phased, FrontierExact, Links
    <3>4. placed' = {} /\ placed = {}
      BY <2>1, <3>1 DEF placed
    <3>5. CompsClosed' /\ Unsplit' /\ Counted'
      BY <3>1, <3>4 DEF CompsClosed, Unsplit, Counted, IInv
    <3>6. OnceOnly' /\ AttachedToPlaced' /\ ComponentsInOrder' /\ SpiralSweep'
      BY <2>1, <3>1 DEF OnceOnly, AttachedToPlaced, ComponentsInOrder, SpiralSweep
    <3> QED
      BY <3>2, <3>3, <3>5, <3>6 DEF IInv
  <2>3. ASSUME NEW s \in Cubes, TakeSeed(s) PROVE IInv'
    <3>1. /\ pc = "seed" /\ order = <<>> /\ ncomp = 0 /\ nbr = Links
          /\ seed_idx' = s /\ elig' = {s} /\ pc' = "flood"
          /\ UNCHANGED <<origin, r, w_phase, nbr, order, comp, ncomp>>
      BY <2>3 DEF TakeSeed, SeedElig, input, IInv, Phased
    <3>2. TypeOK'
      BY <3>1 DEF IInv, TypeOK
    <3>3. placed' = {} /\ placed = {}
      BY <2>1, <3>1 DEF placed
    <3>4. Phased' /\ FrontierExact'
      BY <3>1, <3>3 DEF Phased, FrontierExact, Links, Frontier
    <3>5. CompsClosed' /\ Unsplit' /\ Counted'
      BY <3>1, <3>3 DEF CompsClosed, Unsplit, Counted, IInv
    <3>6. OnceOnly' /\ AttachedToPlaced' /\ ComponentsInOrder' /\ SpiralSweep'
      BY <2>1, <3>1 DEF OnceOnly, AttachedToPlaced, ComponentsInOrder, SpiralSweep
    <3> QED
      BY <3>2, <3>4, <3>5, <3>6 DEF IInv
  <2>4. ASSUME NEW i \in Cubes, Visit(i) PROVE IInv'
    BY <2>4, VisitStep
  <2>5. ASSUME NEW i \in Cubes, Reseed(i) PROVE IInv'
    BY <2>5, ReseedStep
  <2>6. CASE Return \/ UNCHANGED vars
    <3>1. /\ UNCHANGED <<origin, r, w_phase, seed_idx, nbr, elig, order, comp, ncomp>>
          /\ pc' = pc \/ (pc = "flood" /\ pc' = "done" /\ Len(order) = N)
      BY <2>6 DEF Return, vars, input
    <3>2. TypeOK'
      BY <3>1 DEF IInv, TypeOK
    <3>3. Phased'
      BY <3>1 DEF IInv, Phased, Links
    <3>4. placed' = placed
      BY <3>1 DEF placed
    <3>5. FrontierExact'
      BY <3>1, <3>4 DEF IInv, FrontierExact, Frontier
    <3>6. CompsClosed' /\ Unsplit' /\ Counted'
      BY <3>1, <3>4 DEF CompsClosed, Unsplit, Closed, Counted, IInv
    <3>7. OnceOnly' /\ AttachedToPlaced'
      BY <3>1 DEF OnceOnly, AttachedToPlaced, Earlier, Opens, IInv
    <3>8. ComponentsInOrder /\ SpiralSweep
      BY DEF IInv
    <3>9. ComponentsInOrder'
      BY <3>1, <3>8 DEF ComponentsInOrder
    <3>10. SpiralSweep'
      BY <3>1, <3>8 DEF SpiralSweep, Earlier, Opens, Closed, Key
    <3> QED
      BY <3>2, <3>3, <3>5, <3>6, <3>7, <3>9, <3>10 DEF IInv
  <2> QED
    BY <2>2, <2>3, <2>4, <2>5, <2>6 DEF Next, Flood, Returned
<1> QED
  BY <1>1, <1>2, PTL DEF Spec

\* The registration order is a permutation of the cubes.
THEOREM OrderComplete == Spec => []EveryCubeOnce
<1>1. IInv => EveryCubeOnce
  <2> SUFFICES ASSUME IInv PROVE EveryCubeOnce
    OBVIOUS
  <2>1. ASSUME pc = "done" PROVE placed = Cubes
    <3>1. Cardinality(placed) = N /\ N \in Nat
      BY <2>1, CountAssumption DEF IInv, Phased, Counted
    <3>2. IsFiniteSet(Cubes) /\ Cardinality(Cubes) = N
      BY <3>1, FS_Interval DEF Cubes
    <3>3. placed \subseteq Cubes
      BY DEF IInv, TypeOK, placed
    <3> QED
      BY <3>1, <3>2, <3>3, FS_Subset
  <2> QED
    BY <2>1 DEF EveryCubeOnce, IInv, OnceOnly
<1> QED
  BY <1>1, Invariance, PTL

\* Every cube is registered against an earlier one of its component, the
\* components come one after the other, and the sweep is best-first.
THEOREM OrderValid == Spec => [](AttachedToPlaced /\ ComponentsInOrder /\ SpiralSweep)
<1>1. IInv => AttachedToPlaced /\ ComponentsInOrder /\ SpiralSweep
  BY DEF IInv
<1> QED
  BY <1>1, Invariance, PTL

\* The flood components are the connected components of the grid.
THEOREM ComponentsCorrect == Spec => []ComponentsExact
<1>1. IInv /\ EveryCubeOnce => ComponentsExact
  <2> SUFFICES ASSUME IInv, EveryCubeOnce PROVE ComponentsExact
    OBVIOUS
  <2>1. ASSUME pc = "done", NEW i \in Cubes
        PROVE  Closed({j \in Cubes : comp[j] = comp[i]})
    <3>1. placed = Cubes /\ nbr \in [Cubes -> SUBSET Cubes]
      BY <2>1 DEF EveryCubeOnce, IInv, TypeOK
    <3> QED
      BY <3>1 DEF Closed, IInv, CompsClosed
  <2> QED
    BY <2>1 DEF ComponentsExact, IInv, Unsplit
<1> QED
  BY <1>1, Invariance, OrderComplete, PTL
=============================================================================
