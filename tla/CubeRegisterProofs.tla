------------------------- MODULE CubeRegisterProofs -------------------------
(***************************************************************************)
(* The safety properties of the registration and of the polish for every   *)
(* number of cubes, every grid, every skin and every team of threads.      *)
(***************************************************************************)
EXTENDS CubePolish, CubeScheduleProofs, WellFoundedInduction

-----------------------------------------------------------------------------
(* Least elements and medians. *)

\* A set of numbers that is not empty has a least one.
LEMMA Least ==
  ASSUME NEW T, T \subseteq Nat, T # {}
  PROVE  \E x \in T : \A y \in T : x <= y
<1>1. \E x \in T : \A y \in T : ~ (<<y, x>> \in OpToRel(<, Nat))
  BY NatLessThanWellFounded, WFMin
<1>2. PICK x \in T : \A y \in T : ~ (<<y, x>> \in OpToRel(<, Nat))
  BY <1>1
<1>3. ASSUME NEW y \in T PROVE x <= y
  <2>1. x \in Nat /\ y \in Nat
    OBVIOUS
  <2>2. ~(y < x)
    BY <1>2, <2>1 DEF OpToRel
  <2> QED
    BY <2>1, <2>2
<1> QED
  BY <1>3

AtMost(D, v) == {w \in DOMAIN D : D[w] <= D[v]}
Below(D, v) == {w \in DOMAIN D : D[w] < D[v]}

\* The sets of smaller differences are ordered by their sizes.
LEMMA AtMostOrdered ==
  ASSUME NEW S, IsFiniteSet(S), NEW D \in [S -> Int], NEW v \in S
  PROVE  /\ Cardinality(AtMost(D, v)) \in Nat \ {0}
         /\ Cardinality(AtMost(D, v)) <= Cardinality(S)
         /\ \A w \in S : D[v] < D[w] => Cardinality(AtMost(D, v)) < Cardinality(AtMost(D, w))
<1>1. /\ DOMAIN D = S
      /\ \A u \in S : D[u] \in Int
  OBVIOUS
<1>2. \A u \in S : AtMost(D, u) \subseteq S /\ u \in AtMost(D, u)
  BY <1>1 DEF AtMost
<1>3. \A u \in S : IsFiniteSet(AtMost(D, u)) /\ Cardinality(AtMost(D, u)) \in Nat
  BY <1>2, FS_Subset, FS_CardinalityType
<1>4. Cardinality(AtMost(D, v)) # 0
  BY <1>2, <1>3, FS_EmptySet
<1>5. Cardinality(AtMost(D, v)) <= Cardinality(S)
  BY <1>2, FS_Subset
<1>6. ASSUME NEW w \in S, D[v] < D[w]
      PROVE  Cardinality(AtMost(D, v)) < Cardinality(AtMost(D, w))
  <2>1. AtMost(D, v) \subseteq AtMost(D, w)
    BY <1>1, <1>6 DEF AtMost
  <2>2. w \notin AtMost(D, v) /\ w \in AtMost(D, w)
    BY <1>1, <1>2, <1>6 DEF AtMost
  <2>3. Cardinality(AtMost(D, v)) <= Cardinality(AtMost(D, w))
    BY <1>3, <2>1, FS_Subset
  <2>4. Cardinality(AtMost(D, v)) # Cardinality(AtMost(D, w))
    BY <1>3, <2>1, <2>2, FS_Subset
  <2> QED
    BY <1>3, <2>3, <2>4
<1> QED
  BY <1>3, <1>4, <1>5, <1>6

\* Some vertex has the largest difference of those below a bound.
LEMMA Greatest ==
  ASSUME NEW S, IsFiniteSet(S), NEW D \in [S -> Int], NEW T, T \subseteq S, T # {}
  PROVE  \E v \in T : \A w \in T : D[w] <= D[v]
<1> DEFINE R == {Cardinality(S) - Cardinality(AtMost(D, v)) : v \in T}
<1>1. Cardinality(S) \in Nat
  BY FS_CardinalityType
<1>2. \A v \in S : /\ Cardinality(AtMost(D, v)) \in Nat
                   /\ Cardinality(AtMost(D, v)) <= Cardinality(S)
  BY AtMostOrdered
<1>3. R \subseteq Nat /\ R # {}
  BY <1>1, <1>2
<1>4. PICK r0 \in R : \A y \in R : r0 <= y
  BY <1>3, Least
<1>5. PICK v \in T : r0 = Cardinality(S) - Cardinality(AtMost(D, v))
  BY <1>4
<1>6. ASSUME NEW w \in T PROVE D[w] <= D[v]
  <2>1. r0 <= Cardinality(S) - Cardinality(AtMost(D, w))
    BY <1>4
  <2>2. ~(Cardinality(AtMost(D, v)) < Cardinality(AtMost(D, w)))
    BY <2>1, <1>1, <1>2, <1>5
  <2>3. ~(D[v] < D[w])
    BY <2>2, AtMostOrdered
  <2> QED
    BY <2>3
<1> QED
  BY <1>6

\* The median is one of the differences.
LEMMA MedianTaken ==
  ASSUME NEW S, IsFiniteSet(S), S # {}, NEW D \in [S -> Int]
  PROVE  \E v \in S : Median(D) = D[v]
<1> DEFINE n == Cardinality(S) \div 2
           Upper == {v \in S : Cardinality(AtMost(D, v)) > n}
           R == {Cardinality(AtMost(D, v)) : v \in Upper}
<1>1. DOMAIN D = S /\ \A u \in S : D[u] \in Int
  OBVIOUS
<1>2. Cardinality(S) \in Nat \ {0}
  BY FS_CardinalityType, FS_EmptySet
<1>3. n \in Nat /\ n < Cardinality(S)
  BY <1>2
<1>4. \A v \in S : Cardinality(AtMost(D, v)) \in Nat
  BY AtMostOrdered
<1>5. Upper # {}
  <2>1. PICK v \in S : \A w \in S : D[w] <= D[v]
    BY Greatest
  <2>2. AtMost(D, v) = S
    BY <1>1, <2>1 DEF AtMost
  <2> QED
    BY <1>3, <2>2
<1>6. PICK r0 \in R : \A y \in R : r0 <= y
  <2>1. R \subseteq Nat /\ R # {}
    BY <1>4, <1>5
  <2> QED
    BY <2>1, Least
<1>7. PICK v \in Upper : r0 = Cardinality(AtMost(D, v))
  BY <1>6
<1>8. Cardinality(Below(D, v)) <= n
  <2>1. Below(D, v) \subseteq S
    BY <1>1 DEF Below
  <2>2. CASE Below(D, v) = {}
    BY <2>2, <1>3, FS_EmptySet
  <2>3. CASE Below(D, v) # {}
    <3>1. PICK u \in Below(D, v) : \A w \in Below(D, v) : D[w] <= D[u]
      BY <2>1, <2>3, Greatest
    <3>2. u \in S /\ D[u] < D[v]
      BY <1>1, <3>1 DEF Below
    <3>3. Below(D, v) = AtMost(D, u)
      BY <1>1, <3>1, <3>2 DEF Below, AtMost
    <3>4. Cardinality(AtMost(D, u)) < r0
      BY <3>2, <1>7, AtMostOrdered
    <3>5. u \notin Upper
      <4>1. Cardinality(AtMost(D, u)) \in Nat /\ r0 \in Nat
        BY <1>4, <1>7, <3>2
      <4>2. ~(r0 <= Cardinality(AtMost(D, u)))
        BY <3>4, <4>1
      <4> QED
        BY <4>2, <1>6
    <3> QED
      BY <3>2, <3>3, <3>5, <1>3, <1>4
  <2> QED
    BY <2>2, <2>3
<1>9. \E m \in {D[w] : w \in DOMAIN D} :
        /\ Cardinality({w \in DOMAIN D : D[w] < m}) <= Cardinality(DOMAIN D) \div 2
        /\ Cardinality({w \in DOMAIN D : D[w] <= m}) > Cardinality(DOMAIN D) \div 2
  <2>1. v \in S /\ Cardinality(AtMost(D, v)) > n
    BY <1>7
  <2>2. D[v] \in {D[w] : w \in DOMAIN D}
    BY <1>1, <2>1
  <2> QED
    BY <1>1, <1>8, <2>1, <2>2 DEF Below, AtMost
<1>10. Median(D) \in {D[w] : w \in DOMAIN D}
  BY <1>9 DEF Median
<1> QED
  BY <1>1, <1>10
-----------------------------------------------------------------------------
(* The solve. *)

\* Skins are finite, and every match is a vertex of some skin.
SkinOK ==
  /\ IsFiniteSet(Verts)
  /\ \A v \in Verts :
       /\ skin[v].cube \in Cubes /\ skin[v].gid \in Gids
       /\ DOMAIN skin[v].near \subseteq Nat
       /\ \A n \in DOMAIN skin[v].near :
            skin[v].near[n].vertex \in Verts /\ skin[v].near[n].turns \in Int

LEMMA ScenesOK ==
  ASSUME scene \in Scenes \cup {EmptyScene}
  PROVE  SkinOK /\ scene.off \in [Cubes -> Tables]
<1>1. CASE scene = EmptyScene
  <2>1. skin = <<>> /\ Verts = {}
    BY <1>1 DEF skin, Verts, EmptyScene
  <2>2. Aligned \in Tables /\ scene.off = [i \in Cubes |-> Aligned]
    BY <1>1 DEF EmptyScene, Aligned, Tables
  <2> QED
    BY <2>1, <2>2, FS_EmptySet DEF SkinOK
<1>2. CASE scene \in Scenes
  <2> DEFINE l == Len(skin)
  <2>1. skin \in Seq(SkinVert(l)) /\ scene.off \in [Cubes -> Tables]
    BY <1>2, SceneAssumption DEF skin
  <2>2. l \in Nat /\ Verts = 1 .. l
    BY <2>1 DEF Verts
  <2>3. IsFiniteSet(Verts)
    BY <2>2, FS_Interval
  <2>4. ASSUME NEW v \in Verts
        PROVE  /\ skin[v].cube \in Cubes /\ skin[v].gid \in Gids
               /\ skin[v].near \in Seq(Match(l))
    <3>1. skin[v] \in SkinVert(l)
      BY <2>1, <2>2, <2>4
    <3> QED
      BY <3>1 DEF SkinVert
  <2>5. ASSUME NEW v \in Verts, NEW n \in DOMAIN skin[v].near
        PROVE  n \in Nat /\ skin[v].near[n].vertex \in Verts /\ skin[v].near[n].turns \in Int
    <3>1. skin[v].near[n] \in Match(l) /\ n \in Nat
      BY <2>4, <2>5
    <3> QED
      BY <2>2, <3>1 DEF Match
  <2> QED
    BY <2>1, <2>3, <2>4, <2>5 DEF SkinOK
<1> QED
  BY <1>1, <1>2

\* A vertex that pairs does so with one of the pooled vertices.
LEMMA NearestPooled ==
  ASSUME SkinOK, NEW P, NEW v \in Verts, Pooled(v, P) # {}
  PROVE  \E n \in DOMAIN skin[v].near :
           /\ Nearest(v, P) = skin[v].near[n]
           /\ CubeOf(skin[v].near[n]) \in P
<1>1. Pooled(v, P) \subseteq Nat
  BY DEF SkinOK, Pooled
<1>2. \E n \in Pooled(v, P) : \A m \in Pooled(v, P) : n <= m
  BY <1>1, Least
<1> DEFINE c == CHOOSE n \in Pooled(v, P) : \A m \in Pooled(v, P) : n <= m
<1>3. c \in Pooled(v, P)
  BY <1>2
<1>4. Nearest(v, P) = skin[v].near[c]
  BY DEF Nearest
<1> HIDE DEF c
<1> QED
  BY <1>3, <1>4 DEF Pooled

\* The pairs of a cube are finitely many vertices of it, and their
\* differences are whole turns.
LEMMA DphiTyped ==
  ASSUME SkinOK, NEW i, NEW P, P \subseteq Cubes, NEW R,
         \A j \in P : R[j] \in Tables
  PROVE  /\ IsFiniteSet(Pairs(i, P)) /\ Pairs(i, P) \subseteq Verts
         /\ Dphi(i, P, R) \in [Pairs(i, P) -> Int]
<1>1. Pairs(i, P) \subseteq Verts /\ IsFiniteSet(Pairs(i, P))
  <2>1. Pairs(i, P) \subseteq Verts
    BY DEF Pairs
  <2> QED
    BY <2>1, FS_Subset DEF SkinOK
<1>2. ASSUME NEW v \in Pairs(i, P) PROVE Corrected(Nearest(v, P), R) \in Int
  <2>1. v \in Verts /\ Pooled(v, P) # {}
    BY DEF Pairs
  <2>2. PICK n \in DOMAIN skin[v].near : /\ Nearest(v, P) = skin[v].near[n]
                                         /\ CubeOf(skin[v].near[n]) \in P
    BY <2>1, NearestPooled
  <2>3. /\ skin[v].near[n].vertex \in Verts /\ skin[v].near[n].turns \in Int
        /\ skin[skin[v].near[n].vertex].gid \in Gids
    BY <2>1, <2>2 DEF SkinOK
  <2>4. R[CubeOf(skin[v].near[n])] \in Tables
    BY <2>2
  <2>5. R[CubeOf(skin[v].near[n])][skin[skin[v].near[n].vertex].gid] \in Int
    BY <2>3, <2>4 DEF Tables
  <2> QED
    BY <2>2, <2>3, <2>5 DEF Corrected
<1> QED
  BY <1>1, <1>2 DEF Dphi

\* A confident solve answers whole turns.
LEMMA SolveTyped ==
  ASSUME SkinOK, NEW i, NEW P, P \subseteq Cubes, NEW R,
         \A j \in P : R[j] \in Tables, Confident(i, P)
  PROVE  Solve(i, P, R) \in Tables
<1> DEFINE D == Dphi(i, P, R)
<1>1. /\ IsFiniteSet(Pairs(i, P))
      /\ D \in [Pairs(i, P) -> Int]
  BY DphiTyped
<1>2. Pairs(i, P) # {}
  BY FS_EmptySet, OptionAssumption DEF Confident
<1>3. Median(D) \in Int
  <2>1. PICK v \in Pairs(i, P) : Median(D) = D[v]
    BY <1>1, <1>2, MedianTaken
  <2> QED
    BY <1>1, <2>1
<1>4. ASSUME NEW g \in Groups, Cardinality(InGroup(D, g)) >= min_group_pairs
      PROVE  Median([v \in InGroup(D, g) |-> D[v]]) \in Int
  <2> DEFINE S == InGroup(D, g)
             E == [v \in S |-> D[v]]
  <2>1. S \subseteq Pairs(i, P)
    BY <1>1 DEF InGroup
  <2>2. IsFiniteSet(S) /\ S # {}
    BY <1>1, <1>4, <2>1, FS_Subset, FS_EmptySet, OptionAssumption
  <2>3. E \in [S -> Int]
    BY <1>1, <2>1
  <2>4. PICK v \in S : Median(E) = E[v]
    BY <2>2, <2>3, MedianTaken
  <2> QED
    BY <2>3, <2>4
<1>5. ASSUME NEW g \in Gids PROVE Correction(D, g) \in Int
  BY <1>3, <1>4 DEF Correction
<1> QED
  BY <1>5 DEF Solve, Tables
-----------------------------------------------------------------------------
(* The schedule under the run. *)

\* What the schedule has returned, and what its links join: two cubes of one
\* component and of different colours.
Scheduled ==
  /\ \A t \in 1 .. N : order[t] \in Cubes
  /\ \A i \in Cubes : \E t \in 1 .. N : order[t] = i
  /\ \A s, t \in 1 .. N : s < t => order[s] # order[t]
  /\ nbr \in [Cubes -> SUBSET Cubes]
  /\ \A i \in Cubes : \A j \in nbr[i] : comp[j] = comp[i] /\ Color(j) # Color(i)

\* One step along an axis changes the parity.
LEMMA AdjacentColors ==
  ASSUME TypeOK, NEW i \in Cubes, NEW j \in Cubes, Adjacent(origin[i], origin[j])
  PROVE  Color(j) # Color(i)
<1>1. origin \in [Cubes -> [Axes -> Int]]
  BY LayoutAssumption DEF TypeOK
<1>2. /\ origin[i]["z"] \in Int /\ origin[i]["y"] \in Int /\ origin[i]["x"] \in Int
      /\ origin[j]["z"] \in Int /\ origin[j]["y"] \in Int /\ origin[j]["x"] \in Int
  BY <1>1 DEF Axes
<1> DEFINE a == origin[i]
           b == origin[j]
<1>3. PICK d \in Axes : /\ a[d] - b[d] \in {-1, 1}
                        /\ \A e \in Axes \ {d} : a[e] = b[e]
  BY DEF Adjacent
<1>4. \/ (a["z"] + a["y"] + a["x"]) - (b["z"] + b["y"] + b["x"]) = 1
      \/ (b["z"] + b["y"] + b["x"]) - (a["z"] + a["y"] + a["x"]) = 1
  <2>1. CASE d = "z"
    <3>1. a["y"] = b["y"] /\ a["x"] = b["x"] /\ a["z"] - b["z"] \in {-1, 1}
      BY <1>3, <2>1 DEF Axes
    <3> QED
      BY <1>2, <3>1
  <2>2. CASE d = "y"
    <3>1. a["z"] = b["z"] /\ a["x"] = b["x"] /\ a["y"] - b["y"] \in {-1, 1}
      BY <1>3, <2>2 DEF Axes
    <3> QED
      BY <1>2, <3>1
  <2>3. CASE d = "x"
    <3>1. a["z"] = b["z"] /\ a["y"] = b["y"] /\ a["x"] - b["x"] \in {-1, 1}
      BY <1>3, <2>3 DEF Axes
    <3> QED
      BY <1>2, <3>1
  <2> QED
    BY <2>1, <2>2, <2>3 DEF Axes
<1> DEFINE p == a["z"] + a["y"] + a["x"]
           q == b["z"] + b["y"] + b["x"]
<1>5. p \in Int /\ q \in Int /\ (p - q = 1 \/ q - p = 1)
  BY <1>2, <1>4
<1>6. Color(i) = p % 2 /\ Color(j) = q % 2
  BY DEF Color
<1> HIDE DEF p, q
<1> QED
  BY <1>5, <1>6

LEMMA ScheduleReady ==
  ASSUME IInv, EveryCubeOnce, pc = "done"
  PROVE  Scheduled
<1>1. /\ order \in Seq(Cubes) /\ Len(order) = N /\ N \in Nat
      /\ nbr = Links /\ nbr \in [Cubes -> SUBSET Cubes]
      /\ placed = Cubes
  BY CountAssumption DEF IInv, TypeOK, Phased, EveryCubeOnce
<1>2. \A t \in 1 .. N : order[t] \in Cubes
  BY <1>1
<1>3. \A i \in Cubes : \E t \in 1 .. N : order[t] = i
  BY <1>1 DEF placed
<1>4. ASSUME NEW s \in 1 .. N, NEW t \in 1 .. N, s < t PROVE order[s] # order[t]
  <2>1. order[t] \notin Earlier(t)
    BY <1>1 DEF EveryCubeOnce
  <2>2. s \in 1 .. t - 1
    BY <1>4
  <2> QED
    BY <2>1, <2>2 DEF Earlier
<1>5. ASSUME NEW i \in Cubes, NEW j \in nbr[i]
      PROVE  comp[j] = comp[i] /\ Color(j) # Color(i)
  <2>1. j \in Cubes /\ Adjacent(origin[i], origin[j])
    BY <1>1 DEF Links
  <2>2. comp[j] = comp[i]
    BY <1>1, <2>1 DEF IInv, CompsClosed
  <2>3. TypeOK
    BY DEF IInv
  <2> QED
    BY <2>1, <2>2, <2>3, AdjacentColors
<1> QED
  BY <1>1, <1>2, <1>3, <1>4, <1>5 DEF Scheduled

LEMMA RunsTheSchedule == RunSpec => Spec
<1>1. RunInit => Init
  BY DEF RunInit
<1>2. [RunNext]_allvars => [Next]_vars
  BY DEF RunNext, allvars, Next
<1> QED
  BY <1>1, <1>2, PTL DEF RunSpec, Spec

\* The registration works on a schedule that is complete and valid.
THEOREM ScheduleCorrect ==
  RunSpec => [](IInv /\ EveryCubeOnce /\ AttachedToPlaced /\ SpiralSweep /\ ComponentsExact)
  BY RunsTheSchedule, Invariance, OrderComplete, OrderValid, ComponentsCorrect, PTL
-----------------------------------------------------------------------------
(* Types. *)

RegTyped ==
  /\ stage \in {"before", "chain", "defer", "sweep", "polish", "registered"}
  /\ stage # "before" => pc = "done"
  /\ scene \in Scenes \cup {EmptyScene}
  /\ usable \subseteq Cubes
  /\ t_reg \in 0 .. N
  /\ defer \in Seq(Cubes)
  /\ sweep \in Nat /\ changes \in Nat
  /\ low_conf \subseteq Cubes
  /\ tab \in [Cubes -> Tables]

\* Before the registration nothing is loaded, and a polish uses no chain.
Fresh ==
  /\ stage = "before" => /\ scene = EmptyScene /\ t_reg = 0
                         /\ tab = [i \in Cubes |-> Aligned]
  /\ stage \in {"before", "polish"} => usable = {}

PolishTyped ==
  /\ color \in {0, 1} /\ todo \subseteq Cubes
  /\ at \in [Threads -> Cubes \cup {NoCube}]
  /\ DOMAIN seen = Threads
  /\ \A t \in Threads : /\ DOMAIN seen[t] \subseteq Cubes
                        /\ \A j \in DOMAIN seen[t] : seen[t][j] \in Tables

RunTyped == RegTyped /\ Fresh /\ PolishTyped

\* Every cube that is looked at is a cube of the schedule.
LEMMA PoolOfCubes ==
  ASSUME Scheduled, NEW i \in Cubes, NEW P
  PROVE  Pool(i, P) \subseteq Cubes /\ Pool(i, P) \subseteq P /\ Pool(i, P) \subseteq nbr[i]
BY DEF Pool, Scheduled

\* A correction changes the table of one cube.
LEMMA CorrectTyped ==
  ASSUME RegTyped, Scheduled, NEW i \in Cubes, Correct(i)
  PROVE  /\ tab' \in [Cubes -> Tables]
         /\ \A j \in Cubes : j # i => tab'[j] = tab[j]
         /\ low_conf' \subseteq low_conf
<1>1. SkinOK
  BY ScenesOK DEF RegTyped
<1>2. \A j \in PoolAll(i) : tab[j] \in Tables
  BY PoolOfCubes DEF PoolAll, RegTyped
<1>3. PoolAll(i) \subseteq Cubes
  BY PoolOfCubes DEF PoolAll
<1>4. CASE Confident(i, PoolAll(i))
  <2>1. Solve(i, PoolAll(i), tab) \in Tables
    BY <1>1, <1>2, <1>3, <1>4, SolveTyped
  <2>2. tab' = [tab EXCEPT ![i] = Solve(i, PoolAll(i), tab)] /\ low_conf' = low_conf \ {i}
    BY <1>4 DEF Correct
  <2> QED
    BY <2>1, <2>2 DEF RegTyped
<1>5. CASE ~Confident(i, PoolAll(i))
  BY <1>5 DEF Correct, RegTyped
<1> QED
  BY <1>4, <1>5

LEMMA RegisterTyped ==
  ASSUME RegTyped, Scheduled, NEW i \in Cubes, Register(i)
  PROVE  /\ tab' \in [Cubes -> Tables]
         /\ \A j \in Cubes : j # i => tab'[j] = tab[j]
         /\ low_conf' \subseteq Cubes /\ defer' \in Seq(Cubes)
<1> DEFINE P == Pool(i, Placed)
<1>1. P \subseteq Cubes /\ \A j \in P : tab[j] \in Tables
  BY PoolOfCubes DEF RegTyped
<1>2. CASE Confident(i, P) /\ tab' = [tab EXCEPT ![i] = Solve(i, P, tab)]
  <2>1. SkinOK
    BY ScenesOK DEF RegTyped
  <2>2. Solve(i, P, tab) \in Tables
    BY <1>1, <1>2, <2>1, SolveTyped
  <2>3. /\ tab' \in [Cubes -> Tables]
        /\ \A j \in Cubes : j # i => tab'[j] = tab[j]
    BY <1>2, <2>2 DEF RegTyped
  <2>4. low_conf' \subseteq Cubes /\ defer' \in Seq(Cubes)
    BY DEF Register, RegTyped
  <2> QED
    BY <2>3, <2>4
<1>3. CASE UNCHANGED tab
  BY <1>3 DEF Register, RegTyped
<1> QED
  BY <1>2, <1>3 DEF Register

LEMMA RegInitTyped ==
  ASSUME RunInit
  PROVE  RunTyped
<1>1. Aligned \in Tables
  BY DEF Aligned, Tables
<1>2. RegTyped
  BY <1>1, CountAssumption DEF RunInit, RegInit, RegTyped
<1>3. Fresh
  BY DEF RunInit, RegInit, Fresh
<1>4. PolishTyped
  <2>1. at \in [Threads -> Cubes \cup {NoCube}]
    BY DEF RunInit, PolishInit, Idle
  <2>2. DOMAIN seen = Threads
    BY DEF RunInit, PolishInit, Unread
  <2>3. ASSUME NEW t \in Threads PROVE DOMAIN seen[t] = {}
    BY DEF RunInit, PolishInit, Unread
  <2> QED
    BY <2>1, <2>2, <2>3 DEF RunInit, PolishInit, PolishTyped
<1> QED
  BY <1>2, <1>3, <1>4 DEF RunTyped

\* Pass C works on what the schedule returned.
LEMMA PassCTyped ==
  ASSUME RunTyped, Scheduled, PassC, UNCHANGED <<vars, polishvars>>
  PROVE  RunTyped'
<1> USE DEF RunTyped
<1>1. pc' = pc /\ PolishTyped'
  BY DEF polishvars, PolishTyped, vars
<1>2. CASE LoadSkins
  <2>1. pc = "done" /\ stage = "before" /\ stage' = "chain" /\ scene' \in Scenes
    BY <1>2 DEF LoadSkins
  <2>2. PICK n \in Limits, s \in Scenes :
          usable' = {order[t] : t \in 1 .. (IF n > 0 /\ n < N THEN n ELSE N)} \ s.failed
    BY <1>2 DEF LoadSkins
  <2>3. usable' \subseteq Cubes
    <3>1. n \in Nat /\ N \in Nat
      BY OptionAssumption, CountAssumption
    <3> QED
      BY <2>2, <3>1 DEF Scheduled
  <2>4. UNCHANGED <<t_reg, defer, sweep, changes, low_conf, tab>>
    BY <1>2 DEF LoadSkins
  <2> QED
    BY <1>1, <2>1, <2>3, <2>4 DEF RegTyped, Fresh
<1>3. CASE EndChain
  BY <1>1, <1>3 DEF EndChain, RegTyped, Fresh
<1>4. CASE EndRetries
  BY <1>1, <1>4, CountAssumption DEF EndRetries, AfterRetries, RegTyped, Fresh
<1>5. CASE EndSweep
  BY <1>1, <1>5, CountAssumption DEF EndSweep, RegTyped, Fresh
<1>6. ASSUME NEW i \in Cubes, Register(i)
      PROVE  RegTyped' /\ Fresh'
  <2>1. tab' \in [Cubes -> Tables] /\ low_conf' \subseteq Cubes /\ defer' \in Seq(Cubes)
    BY <1>6, RegisterTyped
  <2>2. /\ stage = "chain" /\ t_reg < N /\ t_reg' = t_reg + 1
        /\ UNCHANGED <<stage, scene, usable, sweep, changes>>
    BY <1>6 DEF Register
  <2> QED
    BY <1>1, <2>1, <2>2, CountAssumption DEF RegTyped, Fresh
<1>7. ASSUME NEW i \in Cubes, Retry(i)
      PROVE  RegTyped' /\ Fresh'
  <2>1. /\ stage = "defer" /\ defer # <<>> /\ defer' = Tail(defer) /\ Correct(i)
        /\ UNCHANGED <<stage, scene, usable, t_reg, sweep, changes>>
    BY <1>7 DEF Retry
  <2>2. tab' \in [Cubes -> Tables] /\ low_conf' \subseteq Cubes
    BY <2>1, CorrectTyped DEF RegTyped
  <2> QED
    BY <1>1, <2>1, <2>2 DEF RegTyped, Fresh
<1>8. ASSUME NEW i \in Cubes, Resolve(i)
      PROVE  RegTyped' /\ Fresh'
  <2>1. /\ stage = "sweep" /\ t_reg < N /\ t_reg' = t_reg + 1
        /\ UNCHANGED <<stage, scene, usable, defer, sweep>>
        /\ Correct(i) \/ UNCHANGED <<tab, low_conf>>
    BY <1>8 DEF Resolve
  <2>2. tab' \in [Cubes -> Tables] /\ low_conf' \subseteq Cubes
    BY <2>1, CorrectTyped DEF RegTyped
  <2>3. changes' \in Nat
    BY <1>8 DEF Resolve, RegTyped
  <2> QED
    BY <1>1, <2>1, <2>2, <2>3, CountAssumption DEF RegTyped, Fresh
<1> QED
  BY <1>1, <1>2, <1>3, <1>4, <1>5, <1>6, <1>7, <1>8 DEF PassC

\* A thread answers with a table.
LEMMA AnswersTyped ==
  ASSUME RunTyped, Scheduled, NEW t \in Threads, at[t] # NoCube
  PROVE  Answers(t) \subseteq Tables
<1>1. at[t] \in Cubes /\ tab[at[t]] \in Tables
  BY DEF RunTyped, PolishTyped, RegTyped
<1>2. Corrections \subseteq Tables
  BY TeamAssumption
<1>3. ASSUME Confident(at[t], DOMAIN seen[t])
      PROVE  Solve(at[t], DOMAIN seen[t], seen[t]) \in Tables
  <2>1. SkinOK
    BY ScenesOK DEF RunTyped, RegTyped
  <2>2. DOMAIN seen[t] \subseteq Cubes /\ \A j \in DOMAIN seen[t] : seen[t][j] \in Tables
    BY DEF RunTyped, PolishTyped
  <2> QED
    BY <1>1, <1>3, <2>1, <2>2, SolveTyped
<1> QED
  BY <1>1, <1>2, <1>3 DEF Answers

\* The polish works on what the schedule returned.
LEMMA PolishStepTyped ==
  ASSUME RunTyped, Scheduled, Polish, UNCHANGED vars
  PROVE  RunTyped'
<1> USE DEF RunTyped
<1>1. pc' = pc
  BY DEF vars
<1>2. CASE TakeGraph
  <2>1. tab' \in [Cubes -> Tables]
    BY <1>2, TeamAssumption DEF TakeGraph
  <2> QED
    BY <1>1, <1>2, <2>1 DEF TakeGraph, RegTyped, Fresh, PolishTyped
<1>3. CASE EndHalf
  <2>1. RegTyped' /\ Fresh'
    BY <1>1, <1>3 DEF EndHalf, HalfDone, RegTyped, Fresh
  <2>2. PolishTyped'
    BY <1>3 DEF EndHalf, PolishTyped
  <2> QED
    BY <2>1, <2>2
<1>4. ASSUME NEW t \in Threads, Write(t)
      PROVE  RunTyped'
  <2>1. PICK k \in Answers(t) :
          /\ tab' = [tab EXCEPT ![at[t]] = k]
          /\ changes' = changes + (IF Delta(tab[at[t]], k) THEN 1 ELSE 0)
    BY <1>4 DEF Write
  <2>2. k \in Tables
    BY <1>4, AnswersTyped DEF Write
  <2>3. tab' \in [Cubes -> Tables] /\ changes' \in Nat
    <3>1. tab' \in [Cubes -> Tables]
      BY <2>1, <2>2 DEF RegTyped
    <3>2. changes' = changes + 1 \/ changes' = changes + 0
      BY <2>1
    <3> QED
      BY <3>1, <3>2 DEF RegTyped
  <2>4. RegTyped' /\ Fresh'
    BY <1>1, <1>4, <2>3 DEF Write, RegTyped, Fresh
  <2>5. PolishTyped'
    BY <1>4 DEF Write, PolishTyped
  <2> QED
    BY <2>4, <2>5
<1>5. ASSUME NEW t \in Threads, NEW i \in Cubes, Take(t, i)
      PROVE  RunTyped'
  <2>1. RegTyped' /\ Fresh'
    BY <1>1, <1>5 DEF Take, RegTyped, Fresh
  <2>2. /\ todo' = todo \ {i} /\ color' = color
        /\ at' = [at EXCEPT ![t] = i] \/ at' = at
    BY <1>5 DEF Take
  <2>3. seen' = [seen EXCEPT ![t] = <<>>] \/ seen' = seen
    BY <1>5 DEF Take
  <2>4. DOMAIN seen' = Threads
    BY <2>3 DEF PolishTyped
  <2>5. ASSUME NEW u \in Threads PROVE seen'[u] = <<>> \/ seen'[u] = seen[u]
    BY <2>3 DEF PolishTyped
  <2>6. DOMAIN <<>> = {}
    OBVIOUS
  <2>7. \A u \in Threads : /\ DOMAIN seen'[u] \subseteq Cubes
                           /\ \A j \in DOMAIN seen'[u] : seen'[u][j] \in Tables
    BY <2>5, <2>6 DEF PolishTyped
  <2> QED
    BY <2>1, <2>2, <2>4, <2>7 DEF PolishTyped
<1>6. ASSUME NEW t \in Threads, NEW j \in Cubes, Read(t, j)
      PROVE  RunTyped'
  <2>1. RegTyped' /\ Fresh'
    BY <1>1, <1>6 DEF Read, RegTyped, Fresh
  <2> DEFINE f == [n \in DOMAIN seen[t] \cup {j} |-> IF n = j THEN tab[j] ELSE seen[t][n]]
  <2>2. seen' = [seen EXCEPT ![t] = f] /\ UNCHANGED <<color, todo, at>>
    BY <1>6 DEF Read
  <2>3. DOMAIN f \subseteq Cubes /\ \A n \in DOMAIN f : f[n] \in Tables
    BY DEF PolishTyped, RegTyped
  <2> HIDE DEF f
  <2> QED
    BY <2>1, <2>2, <2>3 DEF PolishTyped
<1> QED
  BY <1>2, <1>3, <1>4, <1>5, <1>6 DEF Polish

\* The flood is over when the registration begins.
LEMMA FloodFirst ==
  ASSUME RegTyped, Flood
  PROVE  stage = "before"
<1>1. pc # "done"
  BY DEF Flood, Link, Return, TakeSeed, Visit, Reseed
<1> QED
  BY <1>1 DEF RegTyped

Ready == pc = "done" => Scheduled

LEMMA TypedStep ==
  ASSUME RunTyped, Ready, [RunNext]_allvars
  PROVE  RunTyped'
<1>1. CASE UNCHANGED allvars
  BY <1>1 DEF allvars, vars, regvars, polishvars, RunTyped, RegTyped, Fresh, PolishTyped
<1>2. CASE Flood /\ UNCHANGED <<regvars, polishvars>>
  <2>1. stage = "before" /\ stage' = stage
    BY <1>2, FloodFirst DEF regvars, RunTyped
  <2> QED
    BY <1>2, <2>1 DEF regvars, polishvars, RunTyped, RegTyped, Fresh, PolishTyped
<1>3. CASE PassC /\ UNCHANGED <<vars, polishvars>>
  <2>1. pc = "done"
    BY <1>3 DEF PassC, LoadSkins, EndChain, EndRetries, EndSweep, Register, Retry, Resolve,
                RunTyped, RegTyped
  <2> QED
    BY <1>3, <2>1, PassCTyped DEF Ready
<1>4. CASE Polish /\ UNCHANGED vars
  <2>1. pc = "done"
    BY <1>4 DEF Polish, TakeGraph, EndHalf, HalfDone, Write, Take, Read, RunTyped, RegTyped
  <2> QED
    BY <1>4, <2>1, PolishStepTyped DEF Ready
<1> QED
  BY <1>1, <1>2, <1>3, <1>4 DEF RunNext

\* Every variable of the registration and of the polish keeps its type.
THEOREM RunTypesKept == RunSpec => [](RunTyped /\ Ready)
<1>1. IInv /\ EveryCubeOnce => Ready
  BY ScheduleReady DEF Ready
<1>2. RunInit => RunTyped
  BY RegInitTyped
<1>3. RunTyped /\ Ready /\ [RunNext]_allvars => RunTyped'
  BY TypedStep
<1> QED
  BY <1>1, <1>2, <1>3, ScheduleCorrect, PTL DEF RunSpec
-----------------------------------------------------------------------------
(* What a solve answers when no pair joins two wraps. *)

LEMMA MedianConstant ==
  ASSUME NEW S, IsFiniteSet(S), S # {}, NEW D \in [S -> Int], NEW d, \A v \in S : D[v] = d
  PROVE  Median(D) = d
BY MedianTaken

\* More cubes to pool give more pairs.
LEMMA PairsGrow ==
  ASSUME SkinOK, NEW i, NEW P, NEW Q, P \subseteq Q
  PROVE  /\ Pairs(i, P) \subseteq Pairs(i, Q)
         /\ IsFiniteSet(Pairs(i, P)) /\ IsFiniteSet(Pairs(i, Q))
         /\ Cardinality(Pairs(i, P)) \in Nat /\ Cardinality(Pairs(i, Q)) \in Nat
         /\ Cardinality(Pairs(i, P)) <= Cardinality(Pairs(i, Q))
<1>1. \A v \in Verts : Pooled(v, P) \subseteq Pooled(v, Q)
  BY DEF Pooled
<1>2. Pairs(i, P) \subseteq Pairs(i, Q)
  BY <1>1 DEF Pairs
<1>3. Pairs(i, Q) \subseteq Verts
  BY DEF Pairs
<1>4. IsFiniteSet(Pairs(i, Q))
  BY <1>3, FS_Subset DEF SkinOK
<1> QED
  BY <1>2, <1>4, FS_Subset, FS_CardinalityType

\* A solve looks at the corrections of the pooled cubes and at no others.
LEMMA SolveDepends ==
  ASSUME SkinOK, NEW i, NEW P, NEW Q, NEW R, \A j \in P : Q[j] = R[j]
  PROVE  Solve(i, P, Q) = Solve(i, P, R)
<1>1. ASSUME NEW v \in Pairs(i, P)
      PROVE  Corrected(Nearest(v, P), Q) = Corrected(Nearest(v, P), R)
  <2>1. v \in Verts /\ Pooled(v, P) # {}
    BY DEF Pairs
  <2>2. CubeOf(Nearest(v, P)) \in P
    BY <2>1, NearestPooled
  <2> QED
    BY <2>2 DEF Corrected
<1>2. Dphi(i, P, Q) = Dphi(i, P, R)
  BY <1>1 DEF Dphi
<1> QED
  BY <1>2 DEF Solve

Shift(v) == scene.off[skin[v].cube][skin[v].gid]

LEMMA SolveAligns ==
  ASSUME SkinOK, scene.off \in [Cubes -> Tables], Consistent,
         NEW i \in Cubes, NEW P, P \subseteq Cubes, NEW R, \A j \in P : R[j] \in Tables,
         NEW W \in Int,
         \A x \in Verts : skin[x].cube \in P => Shift(x) + R[skin[x].cube][skin[x].gid] = W,
         Confident(i, P), NEW v \in Verts, skin[v].cube = i,
         \/ Cardinality({w \in Pairs(i, P) : skin[w].gid = skin[v].gid}) >= min_group_pairs
         \/ \A w \in Verts : skin[w].cube = i => Shift(w) = Shift(v)
  PROVE  Shift(v) + Solve(i, P, R)[skin[v].gid] = W
<1> DEFINE D == Dphi(i, P, R)
           g == skin[v].gid
<1>1. /\ IsFiniteSet(Pairs(i, P)) /\ Pairs(i, P) \subseteq Verts
      /\ D \in [Pairs(i, P) -> Int]
  BY DphiTyped
<1>2. Pairs(i, P) # {}
  BY FS_EmptySet, OptionAssumption DEF Confident
<1>3. \A w \in Verts : Shift(w) \in Int
  <2> TAKE w \in Verts
  <2>1. skin[w].cube \in Cubes /\ skin[w].gid \in Gids
    BY DEF SkinOK
  <2>2. scene.off[skin[w].cube] \in Tables
    BY <2>1
  <2> QED
    BY <2>1, <2>2 DEF Shift, Tables
<1>4. ASSUME NEW w \in Pairs(i, P) PROVE D[w] = W - Shift(w)
  <2>1. w \in Verts /\ Pooled(w, P) # {}
    BY DEF Pairs
  <2>2. PICK n \in DOMAIN skin[w].near : /\ Nearest(w, P) = skin[w].near[n]
                                         /\ CubeOf(skin[w].near[n]) \in P
    BY <2>1, NearestPooled
  <2> DEFINE m == skin[w].near[n]
             x == m.vertex
  <2>3. x \in Verts /\ skin[x].cube \in P /\ skin[x].cube \in Cubes /\ skin[x].gid \in Gids
    BY <2>1, <2>2 DEF SkinOK, CubeOf
  <2>4. m.turns = Shift(x) - Shift(w)
    BY <2>1, <2>2 DEF Consistent, Shift
  <2>5. D[w] = m.turns + R[skin[x].cube][skin[x].gid]
    BY <2>2 DEF Dphi, Corrected, CubeOf
  <2>6. Shift(x) + R[skin[x].cube][skin[x].gid] = W
    BY <2>3
  <2>7. R[skin[x].cube][skin[x].gid] \in Int
    <3>1. R[skin[x].cube] \in Tables
      BY <2>3
    <3> QED
      BY <2>3, <3>1 DEF Tables
  <2>8. Shift(x) \in Int /\ Shift(w) \in Int
    BY <1>3, <2>1, <2>3
  <2> HIDE DEF m, x, D
  <2> QED
    BY <2>4, <2>5, <2>6, <2>7, <2>8
<1>5. g \in Groups /\ g \in Gids
  BY DEF Consistent, Gids
<1>6. Solve(i, P, R)[g] = Correction(D, g)
  BY <1>5 DEF Solve
<1>7. InGroup(D, g) = {w \in Pairs(i, P) : skin[w].gid = g}
  BY <1>1 DEF InGroup
<1>8. ASSUME NEW w \in InGroup(D, g) PROVE w \in Pairs(i, P) /\ Shift(w) = Shift(v)
  BY <1>7 DEF Pairs, Shift
<1>9. Correction(D, g) = W - Shift(v)
  <2>1. CASE Cardinality(InGroup(D, g)) >= min_group_pairs
    <3> DEFINE S == InGroup(D, g)
               E == [w \in S |-> D[w]]
    <3>1. S \subseteq Pairs(i, P)
      BY <1>7
    <3>2. IsFiniteSet(S) /\ S # {}
      BY <1>1, <2>1, <3>1, FS_Subset, FS_EmptySet, OptionAssumption
    <3>3. E \in [S -> Int]
      BY <1>1, <3>1
    <3>4. \A w \in S : E[w] = W - Shift(v)
      BY <1>4, <1>8
    <3>5. Median(E) = W - Shift(v)
      BY <3>2, <3>3, <3>4, MedianConstant
    <3> QED
      BY <1>5, <2>1, <3>5 DEF Correction
  <2>2. CASE ~(Cardinality(InGroup(D, g)) >= min_group_pairs)
    <3>1. \A w \in Pairs(i, P) : Shift(w) = Shift(v)
      BY <1>1, <1>7, <2>2 DEF Pairs
    <3>2. \A w \in Pairs(i, P) : D[w] = W - Shift(v)
      BY <1>4, <3>1
    <3>3. Median(D) = W - Shift(v)
      BY <1>1, <1>2, <3>2, MedianConstant
    <3> QED
      BY <2>2, <3>3 DEF Correction
  <2> QED
    BY <2>1, <2>2
<1> QED
  BY <1>3, <1>6, <1>9
-----------------------------------------------------------------------------
(* Seams close. *)

\* The chain has not touched the cubes it has still to come to.
ChainAhead ==
  stage = "chain" => \A t \in t_reg + 1 .. N : tab[order[t]] = Aligned

WindingIn(T, v) == Shift(v) + T[skin[v].cube][skin[v].gid]

\* Within the cubes Q, the table T puts every component into one winding.
InOne(Q, T) ==
  \A v, w \in Verts :
    /\ skin[v].cube \in Q /\ skin[w].cube \in Q
    /\ comp[skin[v].cube] = comp[skin[w].cube]
    => WindingIn(T, v) = WindingIn(T, w)

LEMMA WindingTyped ==
  ASSUME SkinOK, scene.off \in [Cubes -> Tables], NEW T, NEW v \in Verts,
         T[skin[v].cube] \in Tables
  PROVE  Shift(v) \in Int /\ WindingIn(T, v) \in Int
<1>1. skin[v].cube \in Cubes /\ skin[v].gid \in Gids
  BY DEF SkinOK
<1>2. scene.off[skin[v].cube] \in Tables
  BY <1>1
<1>3. Shift(v) \in Int
  BY <1>1, <1>2 DEF Shift, Tables
<1>4. T[skin[v].cube][skin[v].gid] \in Int
  BY <1>1 DEF Tables
<1> QED
  BY <1>3, <1>4 DEF WindingIn

\* A cube solved on what a set of aligned cubes is joins them, if no group of
\* it is left over.
LEMMA SolveJoins ==
  ASSUME SkinOK, scene.off \in [Cubes -> Tables], Scheduled, Consistent,
         NEW i \in Cubes, NEW Q, Q \subseteq Cubes, NEW T \in [Cubes -> Tables], InOne(Q, T),
         NEW R, \A j \in Pool(i, Q) : R[j] = T[j],
         Confident(i, Pool(i, Q)),
         \A v \in Verts : skin[v].cube = i =>
           \/ Cardinality({w \in Pairs(i, Pool(i, Q)) : skin[w].gid = skin[v].gid}) >= min_group_pairs
           \/ \A w \in Verts : skin[w].cube = i => Shift(w) = Shift(v)
  PROVE  InOne(Q \cup {i}, [T EXCEPT ![i] = Solve(i, Pool(i, Q), R)])
<1> DEFINE P == Pool(i, Q)
           k == Solve(i, P, R)
           U == [T EXCEPT ![i] = k]
<1>1. P \subseteq Cubes /\ P \subseteq Q /\ P \subseteq nbr[i]
  BY PoolOfCubes
<1>2. \A j \in P : R[j] \in Tables /\ comp[j] = comp[i]
  BY <1>1 DEF Scheduled
<1>3. PICK x \in Verts : skin[x].cube \in P
  <2>1. Pairs(i, P) # {}
    <3>1. P \subseteq Cubes
      BY <1>1
    <3> QED
      BY FS_EmptySet, OptionAssumption DEF Confident
  <2>2. PICK u \in Pairs(i, P) : TRUE
    BY <2>1
  <2>3. u \in Verts /\ Pooled(u, P) # {}
    BY DEF Pairs
  <2>4. PICK n \in DOMAIN skin[u].near : CubeOf(skin[u].near[n]) \in P
    BY <2>3 DEF Pooled
  <2> QED
    BY <2>3, <2>4 DEF SkinOK, CubeOf
<1> DEFINE W == WindingIn(T, x)
<1>4. W \in Int
  <2>1. T[skin[x].cube] \in Tables
    BY <1>1, <1>3
  <2> QED
    BY <2>1, WindingTyped
<1>5. ASSUME NEW y \in Verts, skin[y].cube \in Q, comp[skin[y].cube] = comp[i]
      PROVE  WindingIn(T, y) = W
  <2>1. comp[skin[x].cube] = comp[i] /\ skin[x].cube \in Q
    BY <1>1, <1>2, <1>3
  <2> QED
    BY <1>5, <2>1 DEF InOne
<1>6. \A y \in Verts : skin[y].cube \in P => Shift(y) + R[skin[y].cube][skin[y].gid] = W
  <2> SUFFICES ASSUME NEW y \in Verts, skin[y].cube \in P
               PROVE  Shift(y) + R[skin[y].cube][skin[y].gid] = W
    OBVIOUS
  <2>1. WindingIn(T, y) = W
    BY <1>1, <1>2, <1>5
  <2> QED
    BY <2>1 DEF WindingIn
<1>7. ASSUME NEW v \in Verts, skin[v].cube = i
      PROVE  WindingIn(U, v) = W
  <2>1. Shift(v) + k[skin[v].gid] = W
    <3>1. \/ Cardinality({w \in Pairs(i, P) : skin[w].gid = skin[v].gid}) >= min_group_pairs
          \/ \A w \in Verts : skin[w].cube = i => Shift(w) = Shift(v)
      BY <1>7
    <3>2. Confident(i, P) /\ P \subseteq Cubes /\ \A j \in P : R[j] \in Tables
      BY <1>1, <1>2
    <3> HIDE DEF W, P
    <3>3. Shift(v) + Solve(i, P, R)[skin[v].gid] = W
      BY <1>4, <1>6, <1>7, <3>1, <3>2, SolveAligns
    <3> QED
      BY <3>3
  <2>2. U[skin[v].cube] = k
    BY <1>7
  <2> QED
    BY <2>1, <2>2 DEF WindingIn
<1>8. ASSUME NEW v \in Verts, skin[v].cube # i
      PROVE  WindingIn(U, v) = WindingIn(T, v)
  BY <1>8 DEF WindingIn
<1>9. ASSUME NEW v \in Verts, skin[v].cube \in Q \cup {i}, comp[skin[v].cube] = comp[i]
      PROVE  WindingIn(U, v) = W
  BY <1>5, <1>7, <1>8, <1>9
<1>10. ASSUME NEW v \in Verts, NEW w \in Verts,
              skin[v].cube \in Q \cup {i}, skin[w].cube \in Q \cup {i},
              comp[skin[v].cube] = comp[skin[w].cube]
       PROVE  WindingIn(U, v) = WindingIn(U, w)
  <2>1. CASE comp[skin[v].cube] = comp[i]
    BY <1>9, <1>10, <2>1
  <2>2. CASE comp[skin[v].cube] # comp[i]
    <3>1. skin[v].cube # i /\ skin[w].cube # i
      BY <1>10, <2>2
    <3>2. WindingIn(T, v) = WindingIn(T, w)
      BY <1>10, <3>1 DEF InOne
    <3> QED
      BY <1>8, <3>1, <3>2
  <2> QED
    BY <2>1, <2>2
<1> HIDE DEF U
<1>11. InOne(Q \cup {i}, U)
  BY <1>10 DEF InOne
<1> QED
  BY <1>11 DEF U

LEMMA RegisteredFacts ==
  ASSUME RegTyped, Scheduled
  PROVE  /\ Registered(0) = {}
         /\ Registered(N) = usable
         /\ \A t \in 1 .. N : /\ Registered(t - 1) \subseteq usable
                              /\ Registered(t - 1) \subseteq Earlier(t)
                              /\ Registered(t) = Registered(t - 1) \cup ({order[t]} \cap usable)
<1>1. N \in Nat
  BY CountAssumption
<1>2. Registered(0) = {}
  BY DEF Registered
<1>3. Registered(N) = usable
  BY DEF Registered, Scheduled, RegTyped
<1>4. ASSUME NEW t \in 1 .. N
      PROVE  /\ Registered(t - 1) \subseteq usable
             /\ Registered(t - 1) \subseteq Earlier(t)
             /\ Registered(t) = Registered(t - 1) \cup ({order[t]} \cap usable)
  <2>1. 1 .. t = (1 .. t - 1) \cup {t}
    BY <1>1
  <2> QED
    BY <2>1 DEF Registered, Earlier
<1> QED
  BY <1>2, <1>3, <1>4

\* A cube that is solved at its turn or later leaves no group over.
LEMMA NoGroupLeft ==
  ASSUME SkinOK, WellPaired, NEW t \in 1 .. N, order[t] \in usable,
         NEW Q, Registered(t - 1) \subseteq Q,
         NEW v \in Verts, skin[v].cube = order[t]
  PROVE  \/ Cardinality({w \in Pairs(order[t], Pool(order[t], Q)) : skin[w].gid = skin[v].gid})
              >= min_group_pairs
         \/ \A w \in Verts : skin[w].cube = order[t] => Shift(w) = Shift(v)
<1> DEFINE i == order[t]
           own == {u \in Verts : skin[u].cube = i}
           P == Pool(i, Registered(t - 1))
           A == {w \in Pairs(i, P) : skin[w].gid = skin[v].gid}
           B == {w \in Pairs(i, Pool(i, Q)) : skin[w].gid = skin[v].gid}
<1>1. \/ /\ Opens(t)
         /\ \A u, w \in own : scene.off[i][skin[u].gid] = scene.off[i][skin[w].gid]
      \/ \A u \in own : Cardinality({w \in Pairs(i, P) : skin[w].gid = skin[u].gid}) >= min_group_pairs
  BY DEF WellPaired
<1>2. CASE \A u, w \in own : scene.off[i][skin[u].gid] = scene.off[i][skin[w].gid]
  BY <1>2 DEF Shift
<1>3. CASE Cardinality(A) >= min_group_pairs
  <2>1. P \subseteq Pool(i, Q)
    BY DEF Pool
  <2>2. Pairs(i, P) \subseteq Pairs(i, Pool(i, Q)) /\ IsFiniteSet(Pairs(i, Pool(i, Q)))
    BY <2>1, PairsGrow
  <2>3. A \subseteq B /\ B \subseteq Pairs(i, Pool(i, Q))
    BY <2>2
  <2>4. IsFiniteSet(B)
    BY <2>2, <2>3, FS_Subset
  <2>5. Cardinality(A) <= Cardinality(B) /\ IsFiniteSet(A)
    BY <2>3, <2>4, FS_Subset
  <2>6. Cardinality(A) \in Nat /\ Cardinality(B) \in Nat /\ min_group_pairs \in Nat
    BY <2>4, <2>5, FS_CardinalityType, OptionAssumption
  <2>7. Cardinality(B) >= min_group_pairs
    <3> HIDE DEF A, B
    <3> QED
      BY <1>3, <2>5, <2>6
  <2> QED
    BY <2>7
<1> QED
  BY <1>1, <1>2, <1>3

\* A cube without pairs enough at its turn is the first of its component.
LEMMA UnpairedOpens ==
  ASSUME WellPaired, NEW t \in 1 .. N, order[t] \in usable,
         ~Confident(order[t], Pool(order[t], Registered(t - 1)))
  PROVE  /\ Opens(t)
         /\ \A v, w \in Verts : skin[v].cube = order[t] /\ skin[w].cube = order[t] => Shift(v) = Shift(w)
<1> DEFINE i == order[t]
           own == {u \in Verts : skin[u].cube = i}
<1>1. /\ Opens(t)
      /\ \A u, w \in own : scene.off[i][skin[u].gid] = scene.off[i][skin[w].gid]
  BY DEF WellPaired, Confident
<1> QED
  BY <1>1 DEF Shift

SeamsHold == pc = "done" /\ Consistent /\ WellPaired => InOne(Placed, tab)

LEMMA SeamsEquivalent ==
  ASSUME SeamsHold
  PROVE  SeamsClose
BY DEF SeamsHold, SeamsClose, InOne, WindingIn, Winding, Shift

\* The skins and the schedule stay as they are after LoadSkins.
LEMMA SameScene ==
  ASSUME UNCHANGED <<scene, usable, vars>>
  PROVE  /\ Consistent' <=> Consistent
         /\ WellPaired' <=> WellPaired
         /\ Registered(t_reg)' = Registered(t_reg')
         /\ \A Q, T : InOne(Q, T)' <=> InOne(Q, T)
<1>1. /\ skin' = skin /\ Verts' = Verts /\ skinned' = skinned
      /\ order' = order /\ comp' = comp /\ nbr' = nbr
  BY DEF skin, Verts, skinned, vars
<1>2. Consistent' <=> Consistent
  BY <1>1 DEF Consistent
<1>3. WellPaired' <=> WellPaired
  BY <1>1 DEF WellPaired, Registered, Opens, Earlier, Pool, Pairs, Pooled, CubeOf
<1>4. Registered(t_reg)' = Registered(t_reg')
  BY <1>1 DEF Registered
<1>5. \A Q, T : InOne(Q, T)' <=> InOne(Q, T)
  BY <1>1 DEF InOne, WindingIn, Shift
<1> QED
  BY <1>2, <1>3, <1>4, <1>5

LEMMA RegisterSeams ==
  ASSUME RunTyped, Scheduled, ChainAhead, SeamsHold,
         NEW i \in Cubes, Register(i), UNCHANGED vars
  PROVE  SeamsHold' /\ ChainAhead'
<1> DEFINE t == t_reg + 1
           Q == Registered(t_reg)
<1>1. /\ stage = "chain" /\ stage' = "chain" /\ pc = "done" /\ pc' = pc
      /\ t_reg < N /\ i = order[t] /\ t_reg' = t
      /\ UNCHANGED <<scene, usable>>
  BY DEF Register, RunTyped, RegTyped, vars
<1>2. t \in 1 .. N /\ t - 1 = t_reg /\ N \in Nat /\ t_reg \in Nat
  BY <1>1, CountAssumption DEF RunTyped, RegTyped
<1>3. Placed = Q /\ Q \subseteq usable /\ Q \subseteq Earlier(t) /\ Q \subseteq Cubes
  BY <1>1, <1>2, RegisteredFacts DEF Placed, RunTyped, RegTyped
<1>4. Placed' = Q \cup ({i} \cap usable)
  <2>1. Registered(t) = Registered(t - 1) \cup ({order[t]} \cap usable)
    BY <1>2, RegisteredFacts DEF RunTyped
  <2>2. Placed' = Registered(t_reg)'
    BY <1>1 DEF Placed
  <2>3. Registered(t_reg)' = Registered(t)
    BY <1>1, SameScene
  <2> QED
    BY <1>1, <1>2, <2>1, <2>2, <2>3
<1>5. SkinOK /\ scene.off \in [Cubes -> Tables]
  BY ScenesOK DEF RunTyped, RegTyped
<1>6. ChainAhead'
  <2>1. \A j \in Cubes : j # i => tab'[j] = tab[j]
    BY RegisterTyped DEF RunTyped
  <2>2. ASSUME NEW s \in t + 1 .. N PROVE tab'[order[s]] = Aligned
    <3>1. s \in 1 .. N /\ t < s /\ s \in t_reg + 1 .. N
      BY <1>2
    <3>2. order[s] # i /\ order[s] \in Cubes
      BY <1>1, <1>2, <3>1 DEF Scheduled
    <3> QED
      BY <1>1, <2>1, <3>1, <3>2 DEF ChainAhead
  <2>3. order' = order
    BY DEF vars
  <2> HIDE DEF t
  <2> QED
    BY <1>1, <2>2, <2>3 DEF ChainAhead
<1>7. SUFFICES ASSUME Consistent', WellPaired' PROVE InOne(Placed, tab)'
  BY <1>6 DEF SeamsHold
<1>8. Consistent /\ WellPaired
  BY <1>1, <1>7, SameScene
<1>9. InOne(Q, tab)
  BY <1>1, <1>3, <1>8 DEF SeamsHold
<1>10. InOne(Placed', tab')
  <2>1. CASE i \notin usable
    <3>1. Placed' = Q
      BY <1>4, <2>1
    <3>2. tab' = tab
      BY <2>1 DEF Register
    <3> QED
      BY <1>9, <3>1, <3>2
  <2>2. CASE i \in usable /\ Confident(i, Pool(i, Q))
    <3>1. tab' = [tab EXCEPT ![i] = Solve(i, Pool(i, Q), tab)]
      BY <1>3, <2>2 DEF Register
    <3>2. Placed' = Q \cup {i}
      BY <1>4, <2>2
    <3>3. ASSUME NEW v \in Verts, skin[v].cube = i
          PROVE  \/ Cardinality({w \in Pairs(i, Pool(i, Q)) : skin[w].gid = skin[v].gid}) >= min_group_pairs
                 \/ \A w \in Verts : skin[w].cube = i => Shift(w) = Shift(v)
      <4>1. order[t] \in usable /\ Registered(t - 1) \subseteq Q /\ skin[v].cube = order[t]
        BY <1>1, <1>2, <2>2, <3>3
      <4> HIDE DEF t, Q
      <4>2. \/ Cardinality({w \in Pairs(order[t], Pool(order[t], Q)) : skin[w].gid = skin[v].gid})
                 >= min_group_pairs
            \/ \A w \in Verts : skin[w].cube = order[t] => Shift(w) = Shift(v)
        BY <1>2, <1>5, <1>8, <4>1, NoGroupLeft
      <4> QED
        BY <1>1, <4>2
    <3>4. tab \in [Cubes -> Tables]
      BY DEF RunTyped, RegTyped
    <3>5. InOne(Q \cup {i}, [tab EXCEPT ![i] = Solve(i, Pool(i, Q), tab)])
      <4> HIDE DEF Q
      <4> QED
        BY <1>3, <1>5, <1>8, <1>9, <2>2, <3>3, <3>4, SolveJoins
    <3> QED
      BY <3>1, <3>2, <3>5
  <2>3. CASE i \in usable /\ ~Confident(i, Pool(i, Q))
    <3>1. tab' = tab
      BY <1>3, <2>3 DEF Register
    <3>2. Placed' = Q \cup {i}
      BY <1>4, <2>3
    <3>3. /\ Opens(t)
          /\ \A v, w \in Verts : skin[v].cube = i /\ skin[w].cube = i => Shift(v) = Shift(w)
      <4>1. order[t] \in usable /\ ~Confident(order[t], Pool(order[t], Registered(t - 1)))
        BY <1>1, <1>2, <2>3
      <4> HIDE DEF t
      <4> QED
        BY <1>1, <1>2, <1>8, <4>1, UnpairedOpens
    <3>4. tab[i] = Aligned
      BY <1>1, <1>2 DEF ChainAhead
    <3>5. ASSUME NEW v \in Verts, skin[v].cube = i PROVE WindingIn(tab, v) = Shift(v)
      <4>1. skin[v].gid \in Gids /\ Shift(v) \in Int
        <5>1. tab[skin[v].cube] \in Tables
          BY <3>5 DEF RunTyped, RegTyped
        <5> QED
          BY <1>5, <5>1, WindingTyped DEF SkinOK
      <4>2. tab[skin[v].cube][skin[v].gid] = 0
        BY <3>4, <3>5, <4>1 DEF Aligned
      <4> QED
        BY <4>1, <4>2 DEF WindingIn
    <3>6. \A j \in Q : comp[j] # comp[i]
      BY <1>1, <1>3, <3>3 DEF Opens
    <3>7. InOne(Q \cup {i}, tab)
      BY <1>9, <3>3, <3>5, <3>6 DEF InOne
    <3> QED
      BY <3>1, <3>2, <3>7
  <2> QED
    BY <2>1, <2>2, <2>3
<1> QED
  BY <1>1, <1>10, SameScene

\* A retry or a sweep solves a cube on all its neighbours.
LEMMA CorrectSeams ==
  ASSUME RunTyped, Scheduled, SeamsHold, NEW i \in Cubes,
         stage \in {"defer", "sweep"}, stage' = stage, pc = "done",
         Correct(i), UNCHANGED <<scene, usable, vars>>
  PROVE  SeamsHold'
<1>1. Placed = usable /\ Placed' = usable /\ usable \subseteq Cubes
  BY DEF Placed, RunTyped, RegTyped
<1>2. SkinOK /\ scene.off \in [Cubes -> Tables]
  BY ScenesOK DEF RunTyped, RegTyped
<1>3. SUFFICES ASSUME Consistent', WellPaired' PROVE InOne(Placed, tab)'
  BY DEF SeamsHold
<1>4. Consistent /\ WellPaired
  BY <1>3, SameScene
<1>5. InOne(usable, tab)
  BY <1>1, <1>4 DEF SeamsHold
<1>6. tab \in [Cubes -> Tables]
  BY DEF RunTyped, RegTyped
<1>7. PoolAll(i) = Pool(i, usable)
  BY <1>1 DEF PoolAll
<1>8. InOne(usable, tab')
  <2>1. CASE ~Confident(i, PoolAll(i))
    BY <1>5, <2>1 DEF Correct
  <2>2. CASE Confident(i, PoolAll(i)) /\ i \notin usable
    <3>1. \A j \in Cubes : j # i => tab'[j] = tab[j]
      BY CorrectTyped DEF RunTyped
    <3>2. \A v \in Verts : skin[v].cube \in usable => WindingIn(tab', v) = WindingIn(tab, v)
      BY <1>1, <2>2, <3>1 DEF WindingIn
    <3> QED
      BY <1>5, <3>2 DEF InOne
  <2>3. CASE Confident(i, PoolAll(i)) /\ i \in usable
    <3>1. tab' = [tab EXCEPT ![i] = Solve(i, Pool(i, usable), tab)]
      BY <1>7, <2>3 DEF Correct
    <3>2. PICK t \in 1 .. N : order[t] = i
      BY DEF Scheduled
    <3>3. Registered(t - 1) \subseteq usable
      BY DEF Registered
    <3>4. ASSUME NEW v \in Verts, skin[v].cube = i
          PROVE  \/ Cardinality({w \in Pairs(i, Pool(i, usable)) : skin[w].gid = skin[v].gid}) >= min_group_pairs
                 \/ \A w \in Verts : skin[w].cube = i => Shift(w) = Shift(v)
      <4>1. order[t] \in usable /\ skin[v].cube = order[t]
        BY <2>3, <3>2, <3>4
      <4>2. \/ Cardinality({w \in Pairs(order[t], Pool(order[t], usable)) : skin[w].gid = skin[v].gid})
                 >= min_group_pairs
            \/ \A w \in Verts : skin[w].cube = order[t] => Shift(w) = Shift(v)
        BY <1>2, <1>4, <3>3, <4>1, NoGroupLeft
      <4> QED
        BY <3>2, <4>2
    <3>5. Confident(i, Pool(i, usable))
      BY <1>7, <2>3
    <3>6. InOne(usable \cup {i}, [tab EXCEPT ![i] = Solve(i, Pool(i, usable), tab)])
      BY <1>1, <1>2, <1>4, <1>5, <1>6, <3>4, <3>5, SolveJoins
    <3>7. usable \cup {i} = usable
      BY <2>3
    <3> QED
      BY <3>1, <3>6, <3>7
  <2> QED
    BY <2>1, <2>2, <2>3
<1>9. InOne(Placed', tab')
  BY <1>1, <1>8
<1> QED
  BY <1>9, SameScene

\* The seams of cubes whose corrections do not change.
LEMMA KeptSeams ==
  ASSUME SeamsHold, UNCHANGED <<scene, usable, tab, vars>>, Placed' = Placed
  PROVE  SeamsHold'
<1>1. pc' = pc
  BY DEF vars
<1>2. InOne(Placed, tab)' <=> InOne(Placed', tab')
  BY SameScene
<1>3. (Consistent' <=> Consistent) /\ (WellPaired' <=> WellPaired)
  BY SameScene
<1> QED
  BY <1>1, <1>2, <1>3 DEF SeamsHold

LEMMA SeamsStep ==
  ASSUME RunTyped, Ready, ChainAhead, SeamsHold, RunTyped', [RunNext]_allvars
  PROVE  SeamsHold' /\ ChainAhead'
<1> USE DEF RunTyped
<1>1. Placed' = {} => SeamsHold'
  BY DEF SeamsHold, InOne
<1>2. CASE UNCHANGED allvars
  <2>1. UNCHANGED <<scene, usable, tab, vars, stage, t_reg, order>>
    BY <1>2 DEF allvars, regvars, vars
  <2>2. Placed' = Placed
    BY <2>1 DEF Placed, Registered
  <2> QED
    BY <2>1, <2>2, KeptSeams DEF ChainAhead
<1>3. CASE Flood /\ UNCHANGED <<regvars, polishvars>>
  <2>1. stage' = "before" /\ usable' = {}
    BY <1>3, FloodFirst DEF regvars, Fresh
  <2> QED
    BY <1>1, <2>1 DEF Placed, ChainAhead
<1>4. CASE Polish /\ UNCHANGED vars
  <2>1. stage \in {"before", "polish"} /\ stage' \in {"polish", "registered"} /\ usable' = usable
    BY <1>4 DEF Polish, TakeGraph, EndHalf, HalfDone, Write, Take, Read
  <2>2. usable' = {}
    BY <2>1 DEF Fresh
  <2> QED
    BY <1>1, <2>1, <2>2 DEF Placed, ChainAhead
<1>5. CASE PassC /\ UNCHANGED <<vars, polishvars>>
  <2> USE <1>5
  <2>1. pc = "done" /\ Scheduled
    BY DEF PassC, LoadSkins, EndChain, EndRetries, EndSweep, Register, Retry, Resolve,
           RegTyped, Ready
  <2>2. UNCHANGED vars /\ UNCHANGED order
    BY DEF vars
  <2>3. CASE LoadSkins
    <3>1. /\ stage' = "chain" /\ t_reg' = 0 /\ tab' = [j \in Cubes |-> Aligned]
      BY <2>3 DEF LoadSkins, Fresh
    <3>2. Placed' = {}
      BY <3>1 DEF Placed, Registered
    <3>3. \A t \in 1 .. N : tab'[order'[t]] = Aligned
      BY <2>1, <2>2, <3>1 DEF Scheduled
    <3> QED
      BY <1>1, <3>1, <3>2, <3>3 DEF ChainAhead
  <2>4. CASE EndChain
    <3>1. /\ stage = "chain" /\ stage' = "defer" /\ t_reg = N
          /\ UNCHANGED <<scene, usable, tab>>
      BY <2>4 DEF EndChain
    <3>2. Placed' = Placed
      BY <2>1, <3>1, RegisteredFacts DEF Placed
    <3> QED
      BY <2>2, <3>1, <3>2, KeptSeams DEF ChainAhead
  <2>5. CASE EndRetries \/ EndSweep
    <3>1. /\ stage # "chain" /\ stage' # "chain"
          /\ UNCHANGED <<scene, usable, tab>>
      BY <2>5 DEF EndRetries, EndSweep, AfterRetries
    <3>2. Placed' = Placed
      BY <3>1 DEF Placed
    <3> QED
      BY <2>2, <3>1, <3>2, KeptSeams DEF ChainAhead
  <2>6. ASSUME NEW i \in Cubes, Register(i) PROVE SeamsHold' /\ ChainAhead'
    BY <2>1, <2>2, <2>6, RegisterSeams
  <2>7. ASSUME NEW i \in Cubes, Retry(i) \/ Resolve(i) PROVE SeamsHold' /\ ChainAhead'
    <3>1. /\ stage \in {"defer", "sweep"} /\ stage' = stage /\ UNCHANGED <<scene, usable>>
          /\ Correct(i) \/ UNCHANGED tab
      BY <2>7 DEF Retry, Resolve
    <3>2. Placed' = Placed
      BY <3>1 DEF Placed
    <3> QED
      BY <2>1, <2>2, <3>1, <3>2, CorrectSeams, KeptSeams DEF ChainAhead
  <2> QED
    BY <2>3, <2>4, <2>5, <2>6, <2>7 DEF PassC
<1>6. CASE stage = "registered" /\ UNCHANGED allvars
  BY <1>2, <1>6
<1> QED
  BY <1>2, <1>3, <1>4, <1>5, <1>6 DEF RunNext

\* If no pair joins two wraps and no group is cut off, every seam between
\* placed cubes is closed at every step of the chain, the retries and the
\* sweeps.
THEOREM SeamsCorrect == RunSpec => []SeamsClose
<1>1. RunInit => SeamsHold /\ ChainAhead
  <2> SUFFICES ASSUME RunInit PROVE SeamsHold /\ ChainAhead
    OBVIOUS
  <2>1. stage = "before" /\ usable = {}
    BY DEF RunInit, RegInit
  <2>2. Placed = {}
    BY <2>1 DEF Placed
  <2> QED
    BY <2>1, <2>2 DEF SeamsHold, InOne, ChainAhead
<1>2. RunTyped /\ RunTyped' /\ Ready /\ ChainAhead /\ SeamsHold /\ [RunNext]_allvars
      => SeamsHold' /\ ChainAhead'
  BY SeamsStep
<1>3. SeamsHold => SeamsClose
  BY SeamsEquivalent
<1> QED
  BY <1>1, <1>2, <1>3, RunTypesKept, PTL DEF RunSpec
-----------------------------------------------------------------------------
(* The sweeps reach every cube and settle. *)

Sure(i) == Confident(i, Pool(i, usable))
Settled(i) == i \notin low_conf /\ (changes = 0 => tab[i] = Solve(i, Pool(i, usable), tab))

\* A cube without pairs enough stays on the list of the uncorrected ones.
LowKept ==
  /\ stage = "chain" =>
       \A i \in Registered(t_reg) : ~Sure(i) => i \in low_conf
  /\ stage \in {"defer", "sweep", "registered"} =>
       \A i \in usable : ~Sure(i) => i \in low_conf

\* A sweep has settled the cubes it has passed.
Swept ==
  /\ stage = "sweep" =>
       \A i \in Registered(t_reg) : Sure(i) => Settled(i)
  /\ stage = "registered" /\ sweeps > 0 =>
       \A i \in usable : Sure(i) => Settled(i)

LEMMA SameSolve ==
  ASSUME UNCHANGED <<scene, usable, vars>>
  PROVE  /\ \A i : Sure(i)' <=> Sure(i)
         /\ \A i : Solve(i, Pool(i, usable), tab)' = Solve(i, Pool(i, usable), tab')
<1>1. /\ skin' = skin /\ Verts' = Verts /\ skinned' = skinned /\ usable' = usable
      /\ order' = order /\ nbr' = nbr
  BY DEF skin, Verts, skinned, vars
<1>2. ASSUME NEW i PROVE Pool(i, usable)' = Pool(i, usable)
  BY <1>1 DEF Pool
<1>3. ASSUME NEW i, NEW P PROVE Pairs(i, P)' = Pairs(i, P)
  BY <1>1 DEF Pairs, Pooled, CubeOf
<1>4. ASSUME NEW i PROVE Sure(i)' <=> Sure(i)
  BY <1>2, <1>3 DEF Sure, Confident
<1>5. ASSUME NEW i PROVE Solve(i, Pool(i, usable), tab)' = Solve(i, Pool(i, usable), tab')
  <2> DEFINE P == Pool(i, usable)
  <2>1. ASSUME NEW v PROVE Nearest(v, P)' = Nearest(v, P)
    <3>1. Pooled(v, P)' = Pooled(v, P)
      BY <1>1, <1>2 DEF Pooled, CubeOf
    <3> QED
      BY <1>1, <3>1 DEF Nearest
  <2>2. Dphi(i, P, tab)' = Dphi(i, P, tab')
    BY <1>1, <1>2, <1>3, <2>1 DEF Dphi, Corrected, CubeOf, Pairs, Pooled
  <2>3. ASSUME NEW g PROVE Correction(Dphi(i, P, tab), g)' = Correction(Dphi(i, P, tab'), g)
    BY <1>1, <2>2 DEF Correction, InGroup
  <2> QED
    BY <2>3 DEF Solve
<1> QED
  BY <1>1, <1>4, <1>5

LEMMA RegisteredNext ==
  ASSUME RegTyped, Scheduled, t_reg < N
  PROVE  Registered(t_reg + 1) = Registered(t_reg) \cup ({order[t_reg + 1]} \cap usable)
<1> DEFINE t == t_reg + 1
<1>1. t \in 1 .. N /\ t - 1 = t_reg
  BY CountAssumption DEF RegTyped
<1> HIDE DEF t
<1>2. Registered(t) = Registered(t - 1) \cup ({order[t]} \cap usable)
  BY <1>1, RegisteredFacts
<1> QED
  BY <1>1, <1>2 DEF t

LEMMA ChainLow ==
  ASSUME RunTyped, Scheduled, LowKept, NEW i \in Cubes, Register(i), UNCHANGED vars
  PROVE  LowKept'
<1>1. /\ stage = "chain" /\ stage' = "chain" /\ t_reg < N /\ t_reg' = t_reg + 1
      /\ i = order[t_reg + 1] /\ UNCHANGED <<scene, usable>>
  BY DEF Register
<1>2. t_reg \in Nat
  BY DEF RunTyped, RegTyped
<1>3. low_conf \subseteq low_conf'
  BY DEF Register
<1>4. ASSUME i \in usable, ~Sure(i) PROVE i \in low_conf'
  <2> DEFINE P == Pool(i, Placed)
  <2>1. Placed \subseteq usable
    BY <1>1 DEF Placed, Registered
  <2>2. P \subseteq Pool(i, usable)
    BY <2>1 DEF Pool
  <2>3. SkinOK
    BY ScenesOK DEF RunTyped, RegTyped
  <2>4. /\ Cardinality(Pairs(i, P)) <= Cardinality(Pairs(i, Pool(i, usable)))
        /\ Cardinality(Pairs(i, P)) \in Nat /\ Cardinality(Pairs(i, Pool(i, usable))) \in Nat
    BY <2>2, <2>3, PairsGrow
  <2>5. ~Confident(i, P)
    BY <1>4, <2>4, OptionAssumption DEF Sure, Confident
  <2> QED
    BY <1>4, <2>5 DEF Register
<1>5. Registered(t_reg') = Registered(t_reg) \cup ({i} \cap usable)
  BY <1>1, <1>2, RegisteredNext DEF RunTyped
<1>6. ASSUME NEW j \in Registered(t_reg'), ~Sure(j)
      PROVE  j \in low_conf'
  BY <1>1, <1>3, <1>4, <1>5, <1>6 DEF LowKept
<1>7. /\ \A j : Sure(j)' <=> Sure(j)
      /\ Registered(t_reg)' = Registered(t_reg')
  BY <1>1, SameSolve, SameScene
<1> QED
  BY <1>1, <1>6, <1>7 DEF LowKept

LEMMA CorrectLow ==
  ASSUME RunTyped, Scheduled, LowKept, NEW i \in Cubes,
         stage \in {"defer", "sweep"}, stage' = stage,
         Correct(i), UNCHANGED <<scene, usable, vars>>
  PROVE  LowKept'
<1>1. PoolAll(i) = Pool(i, usable)
  BY DEF PoolAll, Placed
<1>2. \A j \in Cubes : ~Sure(j) /\ j \in low_conf => j \in low_conf'
  BY <1>1 DEF Correct, Sure
<1>3. usable' = usable /\ \A j : Sure(j)' <=> Sure(j)
  BY SameSolve
<1>4. usable \subseteq Cubes
  BY DEF RunTyped, RegTyped
<1> QED
  BY <1>2, <1>3, <1>4 DEF LowKept

LEMMA ResolveSwept ==
  ASSUME RunTyped, Scheduled, Swept, NEW i \in Cubes, Resolve(i), UNCHANGED vars
  PROVE  Swept'
<1>1. /\ stage = "sweep" /\ stage' = "sweep" /\ t_reg < N /\ t_reg' = t_reg + 1
      /\ i = order[t_reg + 1] /\ UNCHANGED <<scene, usable>>
  BY DEF Resolve
<1>2. t_reg \in Nat /\ changes \in Nat /\ tab \in [Cubes -> Tables]
  BY DEF RunTyped, RegTyped
<1>3. /\ \A j : Sure(j)' <=> Sure(j)
      /\ \A j : Solve(j, Pool(j, usable), tab)' = Solve(j, Pool(j, usable), tab')
      /\ Registered(t_reg)' = Registered(t_reg')
      /\ Registered(t_reg') = Registered(t_reg) \cup ({i} \cap usable)
  BY <1>1, <1>2, SameSolve, SameScene, RegisteredNext DEF RunTyped
<1>4. PoolAll(i) = Pool(i, usable)
  BY <1>1 DEF PoolAll, Placed
<1>5. /\ low_conf' \subseteq low_conf
      /\ changes' = 0 => changes = 0 /\ tab' = tab
  <2>1. CASE i \notin usable
    BY <2>1 DEF Resolve
  <2>2. CASE i \in usable
    <3>1. Correct(i) /\ changes' = changes + (IF Delta(tab[i], tab'[i]) THEN 1 ELSE 0)
      BY <2>2 DEF Resolve
    <3>2. /\ tab' \in [Cubes -> Tables] /\ low_conf' \subseteq low_conf
          /\ \A j \in Cubes : j # i => tab'[j] = tab[j]
      BY <3>1, CorrectTyped DEF RunTyped
    <3>3. ASSUME ~Delta(tab[i], tab'[i]) PROVE tab' = tab
      <4>1. tab[i] \in Tables /\ tab'[i] \in Tables
        BY <1>2, <3>2
      <4>2. tab[i] = tab'[i]
        BY <3>3, <4>1 DEF Delta, Tables
      <4>3. \A j \in Cubes : tab'[j] = tab[j]
        BY <3>2, <4>2
      <4> QED
        BY <1>2, <3>2, <4>3
    <3>4. CASE Delta(tab[i], tab'[i])
      <4>1. changes' = changes + 1
        BY <3>1, <3>4
      <4> QED
        BY <1>2, <3>2, <4>1
    <3>5. CASE ~Delta(tab[i], tab'[i])
      <4>1. changes' = changes + 0
        BY <3>1, <3>5
      <4> QED
        BY <1>2, <3>2, <3>3, <3>5, <4>1
    <3> QED
      BY <3>4, <3>5
  <2> QED
    BY <2>1, <2>2
<1>6. ASSUME NEW j \in Registered(t_reg'), Sure(j)
      PROVE  /\ j \notin low_conf'
             /\ changes' = 0 => tab'[j] = Solve(j, Pool(j, usable), tab')
  <2>1. CASE j \in Registered(t_reg)
    <3>1. Settled(j)
      BY <1>1, <1>6, <2>1 DEF Swept
    <3> QED
      BY <1>5, <3>1 DEF Settled
  <2>2. CASE j = i /\ i \in usable
    <3>1. Correct(i) /\ Confident(i, PoolAll(i))
      BY <1>1, <1>4, <1>6, <2>2 DEF Resolve, Sure
    <3>2. tab' = [tab EXCEPT ![i] = Solve(i, Pool(i, usable), tab)] /\ low_conf' = low_conf \ {i}
      BY <1>4, <3>1 DEF Correct
    <3>3. tab'[i] = Solve(i, Pool(i, usable), tab)
      BY <1>2, <3>2
    <3> QED
      BY <1>5, <2>2, <3>2, <3>3
  <2> QED
    BY <1>3, <1>6, <2>1, <2>2
<1>7. ASSUME NEW j \in Registered(t_reg'), Sure(j) PROVE Settled(j)'
  BY <1>3, <1>6, <1>7 DEF Settled
<1> QED
  BY <1>1, <1>3, <1>7 DEF Swept

LEMMA KeptSweeps ==
  ASSUME LowKept, Swept, UNCHANGED <<scene, usable, vars, stage, t_reg, low_conf, changes, tab>>
  PROVE  LowKept' /\ Swept'
<1>1. /\ \A j : Sure(j)' <=> Sure(j)
      /\ \A j : Solve(j, Pool(j, usable), tab)' = Solve(j, Pool(j, usable), tab')
      /\ Registered(t_reg)' = Registered(t_reg')
  BY SameSolve, SameScene
<1>2. ASSUME NEW j, Settled(j) PROVE Settled(j)'
  BY <1>1, <1>2 DEF Settled
<1> QED
  BY <1>1, <1>2 DEF LowKept, Swept

LEMMA SweepStep ==
  ASSUME RunTyped, Ready, LowKept, Swept, [RunNext]_allvars
  PROVE  LowKept' /\ Swept'
<1> USE DEF RunTyped
<1>1. CASE UNCHANGED allvars
  BY <1>1, KeptSweeps DEF allvars, regvars
<1>2. CASE Flood /\ UNCHANGED <<regvars, polishvars>>
  <2>1. stage' = "before"
    BY <1>2, FloodFirst DEF regvars
  <2> QED
    BY <2>1 DEF LowKept, Swept
<1>3. CASE Polish /\ UNCHANGED vars
  <2>1. stage \in {"before", "polish"} /\ stage' \in {"polish", "registered"} /\ usable' = usable
    BY <1>3 DEF Polish, TakeGraph, EndHalf, HalfDone, Write, Take, Read
  <2>2. usable' = {}
    BY <2>1 DEF Fresh
  <2> QED
    BY <2>1, <2>2 DEF LowKept, Swept
<1>4. CASE PassC /\ UNCHANGED <<vars, polishvars>>
  <2> USE <1>4
  <2>1. pc = "done" /\ Scheduled
    BY DEF PassC, LoadSkins, EndChain, EndRetries, EndSweep, Register, Retry, Resolve,
           RegTyped, Ready
  <2>2. UNCHANGED vars
    OBVIOUS
  <2>3. CASE LoadSkins
    <3>1. stage' = "chain" /\ t_reg' = 0
      BY <2>3 DEF LoadSkins, Fresh
    <3>2. Registered(t_reg)' = {}
      BY <3>1 DEF Registered
    <3> QED
      BY <3>1, <3>2 DEF LowKept, Swept
  <2>4. CASE EndChain
    <3>1. /\ stage = "chain" /\ stage' = "defer" /\ t_reg = N
          /\ UNCHANGED <<scene, usable, low_conf>>
      BY <2>4 DEF EndChain
    <3>2. \A i \in usable : ~Sure(i) => i \in low_conf
      BY <2>1, <3>1, RegisteredFacts DEF LowKept
    <3>3. \A j : Sure(j)' <=> Sure(j)
      BY <3>1, SameSolve
    <3> QED
      BY <3>1, <3>2, <3>3 DEF LowKept, Swept
  <2>5. CASE EndRetries
    <3>1. /\ stage = "defer" /\ t_reg' = 0
          /\ stage' = (IF sweeps = 0 THEN "registered" ELSE "sweep")
          /\ UNCHANGED <<scene, usable, low_conf>>
      BY <2>5 DEF EndRetries, AfterRetries
    <3>2. Registered(t_reg)' = {}
      BY <3>1 DEF Registered
    <3>3. \A j : Sure(j)' <=> Sure(j)
      BY <3>1, SameSolve
    <3>4. LowKept'
      BY <3>1, <3>3 DEF LowKept
    <3>5. sweeps > 0 => stage' = "sweep"
      BY <3>1, OptionAssumption
    <3> QED
      BY <3>1, <3>2, <3>4, <3>5 DEF Swept
  <2>6. CASE EndSweep
    <3>1. /\ stage = "sweep" /\ t_reg = N /\ UNCHANGED <<scene, usable, low_conf, tab>>
          /\ \/ stage' = "registered" /\ UNCHANGED <<t_reg, changes>>
             \/ stage' = "sweep" /\ t_reg' = 0
      BY <2>6 DEF EndSweep
    <3>2. /\ \A j : Sure(j)' <=> Sure(j)
          /\ \A j : Solve(j, Pool(j, usable), tab)' = Solve(j, Pool(j, usable), tab')
      BY <3>1, SameSolve
    <3>3. LowKept'
      BY <3>1, <3>2 DEF LowKept
    <3>4. CASE stage' = "registered" /\ UNCHANGED <<t_reg, changes>>
      <4>1. \A j \in usable : Sure(j) => Settled(j)
        BY <2>1, <3>1, RegisteredFacts DEF Swept
      <4>2. ASSUME NEW j, Settled(j) PROVE Settled(j)'
        BY <3>1, <3>2, <3>4, <4>2 DEF Settled
      <4> QED
        BY <3>1, <3>2, <3>3, <3>4, <4>1, <4>2 DEF Swept
    <3>5. CASE stage' = "sweep" /\ t_reg' = 0
      <4>1. Registered(t_reg)' = {}
        BY <3>5 DEF Registered
      <4> QED
        BY <3>3, <3>5, <4>1 DEF Swept
    <3> QED
      BY <3>1, <3>4, <3>5
  <2>7. ASSUME NEW i \in Cubes, Register(i) PROVE LowKept' /\ Swept'
    <3>1. stage' = "chain"
      BY <2>7 DEF Register
    <3> QED
      BY <2>1, <2>2, <2>7, <3>1, ChainLow DEF Swept
  <2>8. ASSUME NEW i \in Cubes, Retry(i) PROVE LowKept' /\ Swept'
    <3>1. stage = "defer" /\ stage' = "defer" /\ Correct(i) /\ UNCHANGED <<scene, usable>>
      BY <2>8 DEF Retry
    <3> QED
      BY <2>1, <2>2, <3>1, CorrectLow DEF Swept
  <2>9. ASSUME NEW i \in Cubes, Resolve(i) PROVE LowKept' /\ Swept'
    <3>1. /\ stage = "sweep" /\ stage' = "sweep" /\ UNCHANGED <<scene, usable>>
          /\ Correct(i) \/ UNCHANGED low_conf
      BY <2>9 DEF Resolve
    <3>2. Swept'
      BY <2>1, <2>2, <2>9, ResolveSwept
    <3>3. ASSUME UNCHANGED low_conf PROVE LowKept'
      <4>1. \A j : Sure(j)' <=> Sure(j)
        BY <2>2, <3>1, SameSolve
      <4> QED
        BY <3>1, <3>3, <4>1 DEF LowKept
    <3>4. ASSUME Correct(i) PROVE LowKept'
      BY <2>1, <2>2, <3>1, <3>4, CorrectLow
    <3> QED
      BY <3>1, <3>2, <3>3, <3>4
  <2> QED
    BY <2>3, <2>4, <2>5, <2>6, <2>7, <2>8, <2>9 DEF PassC
<1>5. CASE stage = "registered" /\ UNCHANGED allvars
  BY <1>1, <1>5
<1> QED
  BY <1>1, <1>2, <1>3, <1>4, <1>5 DEF RunNext

LEMMA SweepsKept == RunSpec => [](LowKept /\ Swept)
<1>1. RunInit => LowKept /\ Swept
  BY DEF RunInit, RegInit, LowKept, Swept
<1>2. RunTyped /\ Ready /\ LowKept /\ Swept /\ [RunNext]_allvars => LowKept' /\ Swept'
  BY SweepStep
<1> QED
  BY <1>1, <1>2, RunTypesKept, PTL DEF RunSpec

\* The cubes without a correction are, at the end, those without pairs enough.
THEOREM PairedCorrect == RunSpec => []PairedRegistered
<1>1. LowKept /\ Swept => PairedRegistered
  BY DEF LowKept, Swept, PairedRegistered, Sure, Settled, PoolAll, Placed
<1> QED
  BY <1>1, SweepsKept, PTL

\* A sweep without a change leaves a fixed point of the solve.
THEOREM SettleCorrect == RunSpec => []SweepSettles
<1>1. Swept => SweepSettles
  BY DEF Swept, SweepSettles, Sure, Settled, PoolAll, Placed
<1> QED
  BY <1>1, SweepsKept, PTL
-----------------------------------------------------------------------------
(* A half-sweep has one outcome. *)

Busy(i) == i \in todo \/ \E t \in Threads : at[t] = i
Changed == {i \in Cubes : tab[i] # half.tab[i]}

\* A thread at a cube has read neighbours as the half-sweep found them.
AtWork(t) ==
  /\ at[t] \notin todo /\ at[t] \in skinned /\ Color(at[t]) = color
  /\ DOMAIN seen[t] \subseteq Pool(at[t], Cubes)
  /\ \A j \in DOMAIN seen[t] : seen[t][j] = half.tab[j]

\* Every cube is as it was or renewed, and no two threads are at one cube.
HalfWay ==
  /\ half.tab \in [Cubes -> Tables] /\ half.changes \in Nat
  /\ \A t \in Threads : at[t] # NoCube => AtWork(t)
  /\ \A t, u \in Threads : t # u /\ at[t] # NoCube => at[u] # at[t]
  /\ \A i \in Cubes : tab[i] = IF Busy(i) THEN half.tab[i] ELSE Renewed(i)
  /\ changes = half.changes + Cardinality(Changed)

PolishInv ==
  /\ clobbered = Untouched
  /\ stage = "before" => at = Idle /\ changes = 0
  /\ stage = "polish" => HalfWay

\* A half-sweep begins.
LEMMA HalfBegins ==
  ASSUME RunTyped', at' = Idle, todo' = Cubes, half' = [tab |-> tab', changes |-> changes']
  PROVE  HalfWay'
<1>1. half'.tab = tab' /\ half'.changes = changes'
  OBVIOUS
<1>2. tab' \in [Cubes -> Tables] /\ changes' \in Nat
  BY DEF RunTyped, RegTyped
<1>3. \A t \in Threads : at'[t] = NoCube
  BY DEF Idle
<1>4. Changed' = {}
  BY <1>1 DEF Changed
<1>5. changes' = half'.changes + Cardinality(Changed')
  BY <1>1, <1>2, <1>4, FS_EmptySet
<1>6. \A i \in Cubes : Busy(i)'
  BY DEF Busy
<1> QED
  BY <1>1, <1>2, <1>3, <1>5, <1>6 DEF HalfWay

\* What a half-sweep renews is fixed when it begins.
LEMMA SameRenewed ==
  ASSUME UNCHANGED <<scene, color, half, vars>>
  PROVE  /\ skinned' = skinned
         /\ \A i : Color(i)' = Color(i)
         /\ \A i : Pool(i, Cubes)' = Pool(i, Cubes)
         /\ \A i : Renewed(i)' = Renewed(i)
<1>1. /\ skin' = skin /\ Verts' = Verts /\ skinned' = skinned
      /\ origin' = origin /\ nbr' = nbr
  BY DEF skin, Verts, skinned, vars
<1>2. ASSUME NEW i PROVE Pool(i, Cubes)' = Pool(i, Cubes)
  BY <1>1 DEF Pool
<1>3. ASSUME NEW i PROVE Color(i)' = Color(i)
  BY <1>1 DEF Color
<1>4. ASSUME NEW i, NEW P PROVE Pairs(i, P)' = Pairs(i, P)
  BY <1>1 DEF Pairs, Pooled, CubeOf
<1>5. ASSUME NEW i PROVE Solve(i, Pool(i, Cubes), half.tab)' = Solve(i, Pool(i, Cubes), half.tab)
  <2> DEFINE P == Pool(i, Cubes)
             R == half.tab
  <2>1. ASSUME NEW v PROVE Nearest(v, P)' = Nearest(v, P)
    <3>1. Pooled(v, P)' = Pooled(v, P)
      BY <1>1, <1>2 DEF Pooled, CubeOf
    <3> QED
      BY <1>1, <3>1 DEF Nearest
  <2>2. Dphi(i, P, R)' = Dphi(i, P, R)
    BY <1>1, <1>2, <1>4, <2>1 DEF Dphi, Corrected, CubeOf, Pairs, Pooled
  <2>3. ASSUME NEW g PROVE Correction(Dphi(i, P, R), g)' = Correction(Dphi(i, P, R), g)
    BY <1>1, <2>2 DEF Correction, InGroup
  <2> QED
    BY <2>3 DEF Solve
<1>6. ASSUME NEW i PROVE Renewed(i)' = Renewed(i)
  BY <1>1, <1>2, <1>3, <1>4, <1>5 DEF Renewed, Confident
<1> QED
  BY <1>1, <1>2, <1>3, <1>6

\* A cube without a neighbour to pool is left as it is.
LEMMA RenewedAlone ==
  ASSUME NEW i, ~(Color(i) = color /\ i \in skinned /\ Pool(i, Cubes) # {})
  PROVE  Renewed(i) = half.tab[i]
<1>1. CASE Pool(i, Cubes) = {}
  <2>1. Pairs(i, Pool(i, Cubes)) = {}
    BY <1>1 DEF Pairs, Pooled
  <2>2. ~Confident(i, Pool(i, Cubes))
    BY <2>1, FS_EmptySet, OptionAssumption DEF Confident
  <2> QED
    BY <2>2 DEF Renewed
<1> QED
  BY <1>1 DEF Renewed

\* The cubes of the other colour stay as they were.
LEMMA OtherColor ==
  ASSUME HalfWay, NEW j \in Cubes, Color(j) # color
  PROVE  tab[j] = half.tab[j]
BY RenewedAlone DEF HalfWay

\* With an arena for each thread, none is shared.
LEMMA ArenasPrivate ==
  ASSUME Team <= RR_POLISH_MAX_THREADS, NEW t \in Threads
  PROVE  Sharing(t) = {}
<1>1. polish_nt = Team
  BY TeamAssumption DEF polish_nt
<1>2. \A u \in Threads : Arena(u) = u
  BY <1>1, TeamAssumption DEF Arena, Threads
<1> QED
  BY <1>2 DEF Sharing

LEMMA TakeStep ==
  ASSUME Team <= RR_POLISH_MAX_THREADS, RunTyped, Scheduled, PolishInv,
         NEW t \in Threads, NEW i \in Cubes, Take(t, i), UNCHANGED vars
  PROVE  PolishInv'
<1> DEFINE takes == Color(i) = color /\ i \in skinned /\ Pool(i, Cubes) # {}
<1>1. /\ stage = "polish" /\ stage' = "polish" /\ at[t] = NoCube /\ i \in todo
      /\ todo' = todo \ {i}
      /\ UNCHANGED <<scene, tab, changes, color, half>>
      /\ HalfWay
  BY DEF Take, PolishInv
<1>2. /\ skinned' = skinned
      /\ \A j : Color(j)' = Color(j)
      /\ \A j : Pool(j, Cubes)' = Pool(j, Cubes)
      /\ \A j : Renewed(j)' = Renewed(j)
  BY <1>1, SameRenewed
<1>3. Changed' = Changed
  BY <1>1 DEF Changed
<1>4. \A u \in Threads : at[u] # i
  BY <1>1, TeamAssumption DEF HalfWay, AtWork, NoCube, Cubes
<1>5. at \in [Threads -> Cubes \cup {NoCube}] /\ DOMAIN seen = Threads
  BY DEF RunTyped, PolishTyped
<1>7. CASE ~takes
  <2>1. UNCHANGED <<at, seen, clobbered>>
    BY <1>7 DEF Take
  <2>2. tab[i] = half.tab[i] /\ Renewed(i) = half.tab[i]
    BY <1>1, <1>7, RenewedAlone DEF HalfWay, Busy
  <2>3. ASSUME NEW u \in Threads, at'[u] # NoCube PROVE AtWork(u)'
    <3>1. AtWork(u)
      BY <1>1, <2>1, <2>3 DEF HalfWay
    <3> QED
      BY <1>1, <1>2, <2>1, <3>1 DEF AtWork
  <2>4. \A j \in Cubes : j # i => (Busy(j)' <=> Busy(j))
    BY <1>1, <2>1 DEF Busy
  <2>5. ASSUME NEW j \in Cubes
        PROVE  tab'[j] = IF Busy(j)' THEN half'.tab[j] ELSE Renewed(j)'
    BY <1>1, <1>2, <2>2, <2>4 DEF HalfWay
  <2>6. HalfWay'
    BY <1>1, <1>3, <2>1, <2>3, <2>5 DEF HalfWay
  <2> QED
    BY <1>1, <2>1, <2>6 DEF PolishInv
<1>8. CASE takes
  <2>1. /\ at' = [at EXCEPT ![t] = i] /\ seen' = [seen EXCEPT ![t] = <<>>]
        /\ clobbered' = [u \in Threads |->
             IF u = t THEN Sharing(t) # {} ELSE clobbered[u] \/ u \in Sharing(t)]
    BY <1>8 DEF Take
  <2>2. clobbered' = Untouched
    <3>1. Sharing(t) = {} /\ \A u \in Threads : clobbered[u] = FALSE
      BY ArenasPrivate DEF PolishInv, Untouched
    <3> QED
      BY <2>1, <3>1 DEF Untouched
  <2>3. /\ at'[t] = i /\ seen'[t] = <<>>
        /\ \A u \in Threads : u # t => at'[u] = at[u] /\ seen'[u] = seen[u]
    BY <1>5, <2>1
  <2>4. ASSUME NEW u \in Threads, at'[u] # NoCube PROVE AtWork(u)'
    <3>1. CASE u = t
      <4>1. DOMAIN seen'[t] = {}
        BY <2>3
      <4>2. at'[t] \notin todo' /\ at'[t] \in skinned' /\ Color(i) = color
        BY <1>1, <1>2, <1>8, <2>3
      <4>3. Color(at[t])' = color'
        BY <1>1, <2>3, <4>2 DEF Color, vars
      <4> QED
        BY <3>1, <4>1, <4>2, <4>3 DEF AtWork
    <3>2. CASE u # t
      <4>1. AtWork(u) /\ at'[u] = at[u] /\ seen'[u] = seen[u]
        BY <1>1, <2>3, <2>4, <3>2 DEF HalfWay
      <4>2. Color(at[u])' = Color(at[u]) /\ Pool(at[u], Cubes)' = Pool(at[u], Cubes)
        BY <1>1, <1>2, <4>1 DEF Color, Pool, vars
      <4> QED
        BY <1>1, <1>2, <4>1, <4>2 DEF AtWork
    <3> QED
      BY <3>1, <3>2
  <2>5. ASSUME NEW u \in Threads, NEW w \in Threads, u # w, at'[u] # NoCube
        PROVE  at'[w] # at'[u]
    BY <1>1, <1>4, <2>3, <2>5 DEF HalfWay
  <2>6. ASSUME NEW j \in Cubes PROVE Busy(j)' <=> Busy(j)
    <3>1. j # NoCube
      BY CountAssumption DEF Cubes, NoCube
    <3>2. CASE j = i
      BY <1>1, <2>3, <3>2 DEF Busy
    <3>3. CASE j # i
      <4>1. j \in todo' <=> j \in todo
        BY <1>1, <3>3
      <4>2. \A u \in Threads : at'[u] = j <=> at[u] = j
        BY <1>1, <2>3, <3>1, <3>3
      <4> QED
        BY <4>1, <4>2 DEF Busy
    <3> QED
      BY <3>2, <3>3
  <2>7. ASSUME NEW j \in Cubes
        PROVE  tab'[j] = IF Busy(j)' THEN half'.tab[j] ELSE Renewed(j)'
    BY <1>1, <1>2, <2>6 DEF HalfWay
  <2>8. HalfWay'
    BY <1>1, <1>3, <2>4, <2>5, <2>7 DEF HalfWay
  <2> QED
    BY <1>1, <2>2, <2>8 DEF PolishInv
<1> QED
  BY <1>7, <1>8

LEMMA ReadStep ==
  ASSUME RunTyped, Scheduled, PolishInv,
         NEW t \in Threads, NEW j \in Cubes, Read(t, j), UNCHANGED vars
  PROVE  PolishInv'
<1>1. /\ stage = "polish" /\ stage' = "polish" /\ at[t] # NoCube
      /\ j \in Pool(at[t], Cubes)
      /\ UNCHANGED <<scene, tab, changes, color, half, todo, at, clobbered>>
      /\ HalfWay
  BY DEF Read, PolishInv
<1> DEFINE f == [n \in DOMAIN seen[t] \cup {j} |-> IF n = j THEN tab[j] ELSE seen[t][n]]
<1>2. seen' = [seen EXCEPT ![t] = f]
  BY DEF Read
<1>3. /\ skinned' = skinned
      /\ \A i : Color(i)' = Color(i)
      /\ \A i : Pool(i, Cubes)' = Pool(i, Cubes)
      /\ \A i : Renewed(i)' = Renewed(i)
  BY <1>1, SameRenewed
<1>4. at \in [Threads -> Cubes \cup {NoCube}] /\ DOMAIN seen = Threads
  BY DEF RunTyped, PolishTyped
<1>5. tab[j] = half.tab[j]
  <2>1. at[t] \in Cubes /\ Color(at[t]) = color
    BY <1>1, <1>4 DEF HalfWay, AtWork
  <2>2. j \in nbr[at[t]] /\ Color(j) # Color(at[t])
    BY <1>1, <2>1 DEF Pool, Scheduled
  <2> QED
    BY <1>1, <2>1, <2>2, OtherColor
<1>6. AtWork(t)
  BY <1>1 DEF HalfWay
<1>7. /\ DOMAIN f \subseteq Pool(at[t], Cubes)
      /\ \A n \in DOMAIN f : f[n] = half.tab[n]
  BY <1>1, <1>5, <1>6 DEF AtWork
<1>8. ASSUME NEW u \in Threads, at'[u] # NoCube PROVE AtWork(u)'
  <2>1. AtWork(u) /\ at'[u] = at[u]
    BY <1>1, <1>8 DEF HalfWay
  <2>2. Color(at[u])' = Color(at[u]) /\ Pool(at[u], Cubes)' = Pool(at[u], Cubes)
    BY <1>1, <1>3 DEF Color, Pool, vars
  <2>3. seen'[u] = IF u = t THEN f ELSE seen[u]
    BY <1>2, <1>4
  <2> HIDE DEF f
  <2>4. /\ DOMAIN seen'[u] \subseteq Pool(at[u], Cubes)
        /\ \A n \in DOMAIN seen'[u] : seen'[u][n] = half.tab[n]
    BY <1>7, <2>1, <2>3 DEF AtWork
  <2> QED
    BY <1>1, <1>3, <2>1, <2>2, <2>4 DEF AtWork
<1>9. ASSUME NEW i \in Cubes PROVE tab'[i] = IF Busy(i)' THEN half'.tab[i] ELSE Renewed(i)'
  BY <1>1, <1>3 DEF HalfWay, Busy
<1>10. Changed' = Changed
  BY <1>1 DEF Changed
<1>11. HalfWay'
  BY <1>1, <1>8, <1>9, <1>10 DEF HalfWay
<1> QED
  BY <1>1, <1>11 DEF PolishInv

\* What a thread that owns its arena answers is the cube renewed.
LEMMA AnswerRenewed ==
  ASSUME RunTyped, Scheduled, PolishInv, stage = "polish",
         NEW t \in Threads, at[t] # NoCube, DOMAIN seen[t] = Pool(at[t], Cubes),
         NEW k \in Answers(t)
  PROVE  k = Renewed(at[t]) /\ tab[at[t]] = half.tab[at[t]] /\ k \in Tables
<1> DEFINE i == at[t]
           P == Pool(i, Cubes)
<1>1. HalfWay /\ AtWork(t) /\ clobbered[t] = FALSE
  BY DEF PolishInv, HalfWay, Untouched
<1>2. i \in Cubes
  BY DEF RunTyped, PolishTyped
<1>3. tab[i] = half.tab[i]
  BY <1>1, <1>2 DEF HalfWay, Busy
<1>4. i \in skinned /\ Color(i) = color
  BY <1>1 DEF AtWork
<1>5. CASE Confident(i, P)
  <2>1. k = Solve(i, P, seen[t])
    BY <1>1, <1>5 DEF Answers
  <2>2. \A j \in P : seen[t][j] = half.tab[j]
    BY <1>1 DEF AtWork
  <2>3. SkinOK
    BY ScenesOK DEF RunTyped, RegTyped
  <2>4. Solve(i, P, seen[t]) = Solve(i, P, half.tab)
    BY <2>2, <2>3, SolveDepends
  <2> QED
    BY <1>3, <1>4, <1>5, <2>1, <2>4, AnswersTyped DEF Renewed
<1>6. CASE ~Confident(i, P)
  <2>1. k = tab[i]
    BY <1>1, <1>6 DEF Answers
  <2> QED
    BY <1>3, <1>6, <2>1, AnswersTyped DEF Renewed
<1> QED
  BY <1>5, <1>6

LEMMA WriteStep ==
  ASSUME RunTyped, Scheduled, PolishInv, NEW t \in Threads, Write(t), UNCHANGED vars
  PROVE  PolishInv'
<1> DEFINE i == at[t]
<1>1. /\ stage = "polish" /\ stage' = "polish" /\ at[t] # NoCube
      /\ DOMAIN seen[t] = Pool(at[t], Cubes)
      /\ at' = [at EXCEPT ![t] = NoCube]
      /\ UNCHANGED <<scene, color, half, todo, seen, clobbered>>
      /\ HalfWay
  BY DEF Write, PolishInv
<1>2. PICK k \in Answers(t) :
        /\ tab' = [tab EXCEPT ![at[t]] = k]
        /\ changes' = changes + (IF Delta(tab[at[t]], k) THEN 1 ELSE 0)
  BY DEF Write
<1>3. k = Renewed(i) /\ tab[i] = half.tab[i] /\ k \in Tables
  BY <1>1, AnswerRenewed
<1>4. /\ at \in [Threads -> Cubes \cup {NoCube}] /\ tab \in [Cubes -> Tables]
      /\ i \in Cubes
  BY <1>1 DEF RunTyped, PolishTyped, RegTyped
<1>5. /\ skinned' = skinned
      /\ \A j : Color(j)' = Color(j)
      /\ \A j : Pool(j, Cubes)' = Pool(j, Cubes)
      /\ \A j : Renewed(j)' = Renewed(j)
  BY <1>1, SameRenewed
<1>6. /\ tab'[i] = k
      /\ \A j \in Cubes : j # i => tab'[j] = tab[j]
  BY <1>2, <1>4
<1>7. /\ at'[t] = NoCube
      /\ \A u \in Threads : u # t => at'[u] = at[u]
  BY <1>1, <1>4
<1>8. ASSUME NEW u \in Threads, at'[u] # NoCube PROVE AtWork(u)'
  <2>1. AtWork(u) /\ at'[u] = at[u]
    BY <1>1, <1>7, <1>8 DEF HalfWay
  <2>2. Color(at[u])' = Color(at[u]) /\ Pool(at[u], Cubes)' = Pool(at[u], Cubes)
    BY <1>1, <1>5, <2>1 DEF Color, Pool, vars
  <2> QED
    BY <1>1, <1>5, <2>1, <2>2 DEF AtWork
<1>9. ASSUME NEW u \in Threads, NEW w \in Threads, u # w, at'[u] # NoCube
      PROVE  at'[w] # at'[u]
  BY <1>1, <1>7, <1>9 DEF HalfWay
<1>10. ASSUME NEW j \in Cubes PROVE tab'[j] = IF Busy(j)' THEN half'.tab[j] ELSE Renewed(j)'
  <2>0. j # NoCube
    BY CountAssumption DEF Cubes, NoCube
  <2>1. CASE j = i
    <3>1. ~Busy(j)'
      <4>1. j \notin todo'
        BY <1>1, <2>1 DEF HalfWay, AtWork
      <4>2. \A u \in Threads : at'[u] # j
        BY <1>1, <1>7, <2>0, <2>1 DEF HalfWay
      <4> QED
        BY <4>1, <4>2 DEF Busy
    <3> QED
      BY <1>3, <1>5, <1>6, <2>1, <3>1
  <2>2. CASE j # i
    <3>1. Busy(j)' <=> Busy(j)
      <4>1. \A u \in Threads : at'[u] = j <=> at[u] = j
        BY <1>7, <2>0, <2>2
      <4> QED
        BY <1>1, <4>1 DEF Busy
    <3> QED
      BY <1>1, <1>5, <1>6, <2>2, <3>1 DEF HalfWay
  <2> QED
    BY <2>1, <2>2
<1>11. changes' = half'.changes + Cardinality(Changed')
  <2>1. Changed \subseteq Cubes /\ IsFiniteSet(Changed) /\ i \notin Changed
    <3>1. IsFiniteSet(Cubes)
      BY FS_Interval, CountAssumption DEF Cubes
    <3> QED
      BY <1>3, <3>1, FS_Subset DEF Changed
  <2>2. changes = half.changes + Cardinality(Changed) /\ half.changes \in Nat
    BY <1>1 DEF HalfWay
  <2>3. Cardinality(Changed) \in Nat
    BY <2>1, FS_CardinalityType
  <2>4. Delta(tab[i], k) <=> tab[i] # k
    BY <1>3, <1>4 DEF Delta, Tables
  <2>5. CASE tab[i] # k
    <3>1. Changed' = Changed \cup {i}
      BY <1>1, <1>3, <1>4, <1>6, <2>5 DEF Changed
    <3>2. Cardinality(Changed') = Cardinality(Changed) + 1
      BY <2>1, <3>1, FS_AddElement
    <3>3. changes' = changes + 1
      BY <1>2, <2>4, <2>5
    <3> QED
      BY <1>1, <2>2, <2>3, <3>2, <3>3
  <2>6. CASE tab[i] = k
    <3>1. Changed' = Changed
      BY <1>1, <1>3, <1>4, <1>6, <2>6 DEF Changed
    <3>2. changes' = changes + 0
      BY <1>2, <2>4, <2>6
    <3> QED
      BY <1>1, <2>2, <2>3, <3>1, <3>2
  <2> QED
    BY <2>5, <2>6
<1>12. HalfWay'
  BY <1>1, <1>8, <1>9, <1>10, <1>11 DEF HalfWay
<1> QED
  BY <1>1, <1>12 DEF PolishInv

LEMMA PolishInvStep ==
  ASSUME Team <= RR_POLISH_MAX_THREADS, RunTyped, Ready, RunTyped', PolishInv, [RunNext]_allvars
  PROVE  PolishInv'
<1> USE DEF RunTyped
<1>1. CASE UNCHANGED allvars
  <2>1. /\ UNCHANGED <<scene, color, half, vars>>
        /\ UNCHANGED <<stage, tab, changes, todo, at, seen, clobbered>>
    BY <1>1 DEF allvars, regvars, polishvars
  <2>2. /\ skinned' = skinned
        /\ \A j : Renewed(j)' = Renewed(j)
    BY <2>1, SameRenewed
  <2>3. ASSUME NEW u \in Threads, AtWork(u) PROVE AtWork(u)'
    <3>1. Color(at[u])' = Color(at[u]) /\ Pool(at[u], Cubes)' = Pool(at[u], Cubes)
      BY <2>1, <2>2 DEF Color, Pool, vars
    <3> QED
      BY <2>1, <2>2, <2>3, <3>1 DEF AtWork
  <2>4. \A j : Busy(j)' <=> Busy(j)
    BY <2>1 DEF Busy
  <2>5. Changed' = Changed
    BY <2>1 DEF Changed
  <2>6. HalfWay => HalfWay'
    <3> SUFFICES ASSUME HalfWay PROVE HalfWay'
      OBVIOUS
    <3>1. ASSUME NEW u \in Threads, at'[u] # NoCube PROVE AtWork(u)'
      BY <2>1, <2>3, <3>1 DEF HalfWay
    <3>2. ASSUME NEW j \in Cubes PROVE tab'[j] = IF Busy(j)' THEN half'.tab[j] ELSE Renewed(j)'
      BY <2>1, <2>2, <2>4 DEF HalfWay
    <3> QED
      BY <2>1, <2>5, <3>1, <3>2 DEF HalfWay
  <2> QED
    BY <2>1, <2>6 DEF PolishInv
<1>2. CASE Flood /\ UNCHANGED <<regvars, polishvars>>
  <2>1. stage = "before" /\ UNCHANGED <<stage, changes, at, clobbered>>
    BY <1>2, FloodFirst DEF regvars, polishvars
  <2> QED
    BY <2>1 DEF PolishInv
<1>3. CASE PassC /\ UNCHANGED <<vars, polishvars>>
  <2>1. UNCHANGED clobbered
    BY <1>3 DEF polishvars
  <2>2. stage' \notin {"before", "polish"}
    BY <1>3 DEF PassC, LoadSkins, EndChain, EndRetries, AfterRetries, EndSweep, Register, Retry, Resolve
  <2> QED
    BY <2>1, <2>2 DEF PolishInv
<1>4. CASE Polish /\ UNCHANGED vars
  <2>1. pc = "done" /\ Scheduled /\ UNCHANGED vars
    BY <1>4 DEF Polish, TakeGraph, EndHalf, HalfDone, Write, Take, Read, RegTyped, Ready
  <2>2. CASE TakeGraph
    <3>1. /\ at' = Idle /\ todo' = Cubes /\ clobbered' = Untouched
          /\ stage' \in {"polish", "registered"}
          /\ half' = [tab |-> tab', changes |-> changes']
      BY <2>2 DEF TakeGraph, PolishInv
    <3>2. HalfWay'
      BY <3>1, HalfBegins
    <3> QED
      BY <3>1, <3>2 DEF PolishInv
  <2>3. CASE EndHalf
    <3>1. /\ at' = Idle /\ clobbered' = Untouched /\ stage' # "before"
          /\ stage' = "polish" => todo' = Cubes /\ half' = [tab |-> tab', changes |-> changes']
      BY <2>3 DEF EndHalf, HalfDone, PolishInv
    <3>2. stage' = "polish" => HalfWay'
      BY <3>1, HalfBegins
    <3> QED
      BY <3>1, <3>2 DEF PolishInv
  <2>4. ASSUME NEW t \in Threads, Write(t) PROVE PolishInv'
    BY <2>1, <2>4, WriteStep
  <2>5. ASSUME NEW t \in Threads, NEW i \in Cubes, Take(t, i) PROVE PolishInv'
    BY <2>1, <2>5, TakeStep
  <2>6. ASSUME NEW t \in Threads, NEW i \in Cubes, Read(t, i) PROVE PolishInv'
    BY <2>1, <2>6, ReadStep
  <2> QED
    BY <1>4, <2>2, <2>3, <2>4, <2>5, <2>6 DEF Polish
<1>5. CASE stage = "registered" /\ UNCHANGED allvars
  BY <1>1, <1>5
<1> QED
  BY <1>1, <1>2, <1>3, <1>4, <1>5 DEF RunNext

LEMMA HalfWayKept ==
  ASSUME Team <= RR_POLISH_MAX_THREADS
  PROVE  RunSpec => []PolishInv
<1>1. RunInit => PolishInv
  BY DEF RunInit, RegInit, PolishInit, PolishInv
<1>2. RunTyped /\ Ready /\ RunTyped' /\ PolishInv /\ [RunNext]_allvars => PolishInv'
  BY PolishInvStep
<1> QED
  BY <1>1, <1>2, RunTypesKept, PTL DEF RunSpec

\* However the threads interleave, a half-sweep ends with every cube of its
\* colour renewed at once, if there is an arena for each of them.
THEOREM OutcomeCorrect ==
  ASSUME Team <= RR_POLISH_MAX_THREADS
  PROVE  RunSpec => []OneOutcome
<1>1. RunTyped /\ PolishInv => OneOutcome
  <2> SUFFICES ASSUME RunTyped, PolishInv, HalfDone
               PROVE  /\ tab = [i \in Cubes |-> Renewed(i)]
                      /\ changes = half.changes + Cardinality({i \in Cubes : tab[i] # half.tab[i]})
    BY DEF OneOutcome
  <2>1. HalfWay /\ todo = {} /\ at = Idle
    BY DEF HalfDone, PolishInv
  <2>2. tab \in [Cubes -> Tables]
    BY DEF RunTyped, RegTyped
  <2>3. ASSUME NEW i \in Cubes PROVE tab[i] = Renewed(i)
    <3>1. i # NoCube
      BY CountAssumption DEF Cubes, NoCube
    <3>2. ~Busy(i)
      BY <2>1, <3>1 DEF Busy, Idle
    <3> QED
      BY <2>1, <3>2 DEF HalfWay
  <2>4. changes = half.changes + Cardinality({i \in Cubes : tab[i] # half.tab[i]})
    BY <2>1 DEF HalfWay, Changed
  <2> QED
    BY <2>2, <2>3, <2>4
<1> QED
  BY <1>1, RunTypesKept, HalfWayKept, PTL
-----------------------------------------------------------------------------
(* The polish defends a right answer. *)

LEMMA WriteDefends ==
  ASSUME RunTyped, Scheduled, PolishInv, NEW t \in Threads, Write(t), UNCHANGED vars,
         Consistent, GroupsPaired, InOneWinding
  PROVE  InOneWinding'
<1> DEFINE i == at[t]
           P == Pool(i, Cubes)
<1>1. /\ stage = "polish" /\ at[t] # NoCube /\ DOMAIN seen[t] = Pool(at[t], Cubes)
      /\ UNCHANGED <<scene, usable>>
  BY DEF Write
<1>2. HalfWay /\ AtWork(t) /\ clobbered[t] = FALSE
  BY <1>1 DEF PolishInv, HalfWay, Untouched
<1>3. i \in Cubes /\ tab \in [Cubes -> Tables]
  BY <1>1 DEF RunTyped, PolishTyped, RegTyped
<1>4. SkinOK /\ scene.off \in [Cubes -> Tables]
  BY ScenesOK DEF RunTyped, RegTyped
<1>5. \A v \in Verts : skin[v].cube \in Cubes
  BY <1>4 DEF SkinOK
<1>6. InOne(Cubes, tab)
  BY <1>5 DEF InOneWinding, InOne, WindingIn, Winding, Shift
<1>7. PICK k \in Answers(t) : tab' = [tab EXCEPT ![i] = k]
  BY DEF Write
<1>8. InOne(Cubes, tab')
  <2>1. CASE Confident(i, P)
    <3>1. k = Solve(i, P, seen[t])
      BY <1>1, <1>2, <1>7, <2>1 DEF Answers
    <3>2. ASSUME NEW j \in P PROVE seen[t][j] = tab[j]
      <4>1. seen[t][j] = half.tab[j]
        BY <1>1, <1>2 DEF AtWork
      <4>2. j \in Cubes /\ Color(j) # color
        BY <1>2, <1>3 DEF AtWork, Pool, Scheduled
      <4> QED
        BY <1>2, <4>1, <4>2, OtherColor
    <3>3. \A v \in Verts : skin[v].cube = i =>
            Cardinality({w \in Pairs(i, P) : skin[w].gid = skin[v].gid}) >= min_group_pairs
      BY <1>3, <2>1 DEF GroupsPaired
    <3>4. InOne(Cubes \cup {i}, [tab EXCEPT ![i] = Solve(i, Pool(i, Cubes), seen[t])])
      BY <1>3, <1>4, <1>6, <2>1, <3>2, <3>3, SolveJoins
    <3>5. Cubes \cup {i} = Cubes
      BY <1>3
    <3> QED
      BY <1>7, <3>1, <3>4, <3>5
  <2>2. CASE ~Confident(i, P)
    <3>1. k = tab[i]
      BY <1>1, <1>2, <1>7, <2>2 DEF Answers
    <3>2. tab' = tab
      BY <1>3, <1>7, <3>1
    <3> QED
      BY <1>6, <3>2
  <2> QED
    BY <2>1, <2>2
<1>9. InOne(Cubes, tab)'
  BY <1>1, <1>8, SameScene
<1>10. skin' = skin /\ Verts' = Verts
  BY <1>1 DEF skin, Verts
<1> QED
  BY <1>5, <1>9, <1>10 DEF InOneWinding, InOne, WindingIn, Winding, Shift

LEMMA DefendStep ==
  ASSUME RunTyped, Ready, PolishInv, [RunNext]_allvars,
         stage = "polish", Consistent, GroupsPaired, InOneWinding
  PROVE  InOneWinding'
<1>1. ASSUME UNCHANGED <<scene, tab, comp>> PROVE InOneWinding'
  BY <1>1 DEF InOneWinding, Winding, skin, Verts
<1>2. CASE UNCHANGED allvars
  BY <1>1, <1>2 DEF allvars, regvars, vars
<1>3. CASE Flood /\ UNCHANGED <<regvars, polishvars>>
  BY <1>3, FloodFirst DEF RunTyped
<1>4. CASE PassC /\ UNCHANGED <<vars, polishvars>>
  BY <1>4 DEF PassC, LoadSkins, EndChain, EndRetries, EndSweep, Register, Retry, Resolve
<1>5. CASE Polish /\ UNCHANGED vars
  <2>1. Scheduled /\ UNCHANGED comp
    BY <1>5 DEF Ready, RunTyped, RegTyped, vars
  <2>2. CASE EndHalf
    BY <1>1, <2>1, <2>2 DEF EndHalf
  <2>3. ASSUME NEW t \in Threads, Write(t) PROVE InOneWinding'
    BY <1>5, <2>1, <2>3, WriteDefends
  <2>4. ASSUME NEW t \in Threads, NEW i \in Cubes, Take(t, i) \/ Read(t, i) PROVE InOneWinding'
    BY <1>1, <2>1, <2>4 DEF Take, Read
  <2> QED
    BY <1>5, <2>2, <2>3, <2>4 DEF Polish, TakeGraph
<1> QED
  BY <1>2, <1>3, <1>4, <1>5 DEF RunNext

\* If no pair joins two wraps, corrections that put every component into one
\* winding stay that way through the polish, whatever the interleaving.
THEOREM DefendsCorrect ==
  ASSUME Team <= RR_POLISH_MAX_THREADS
  PROVE  RunSpec => PolishDefends
<1>1. RunTyped /\ Ready /\ PolishInv /\ [RunNext]_allvars
      => [stage = "polish" /\ Consistent /\ GroupsPaired /\ InOneWinding => InOneWinding']_allvars
  BY DefendStep
<1> QED
  BY <1>1, RunTypesKept, HalfWayKept, PTL DEF RunSpec, PolishDefends
=============================================================================
