---------------------------- MODULE CubeRegister ----------------------------
(***************************************************************************)
(* The registration of the cubes of a whole-scroll run: pass_c of          *)
(* src/src/tools/scroll_whole.c and CubeReg_solve of                       *)
(* src/src/whole/cube_register.c, in the order CubeSchedule returned.      *)
(* Every cube was unwrapped on its own and its winding groups may lie      *)
(* whole turns off.  Each cube is corrected by the medians of what its     *)
(* placed neighbours' skins say; cubes with too few pairs are retried      *)
(* when all are placed; sweeps repeat the solve until no correction        *)
(* changes.  One action per iteration of the three loops.                  *)
(*                                                                         *)
(* Only whole turns are kept: rounding is monotone, so the rounded median  *)
(* of the differences is the median of the rounded ones.  The shift du is  *)
(* left out.                                                               *)
(***************************************************************************)
EXTENDS CubeSchedule

CONSTANTS
  Groups,           \* the winding groups of a cube, gid >= 0
  Scenes,           \* what the unwrapping of the cubes can leave
  Limits,           \* --limit: the cubes to use, 0 for all
  min_pairs, min_group_pairs, sweeps

NoGroup == -1       \* gid of an unmapped vertex
Gids == Groups \cup {NoGroup}
Tables == [Gids -> Int]
Aligned == [g \in Gids |-> 0]
EmptyScene == [skin |-> <<>>, failed |-> {}, off |-> [i \in Cubes |-> Aligned]]

(* A vertex of a skin has its cube, its group, and the vertices of other    *)
(* skins within the pair gate, the nearest first, each with the turns its   *)
(* phi is ahead.  off is what the code cannot know: the turns each group    *)
(* is off by.                                                               *)
Match(n) == [vertex : 1 .. n, turns : Int]
SkinVert(n) == [cube : Cubes, gid : Gids, near : Seq(Match(n))]

ASSUME SceneAssumption ==
  \A s \in Scenes : /\ s.skin \in Seq(SkinVert(Len(s.skin)))
                    /\ s.failed \subseteq Cubes
                    /\ s.off \in [Cubes -> Tables]
ASSUME OptionAssumption ==
  /\ Groups \subseteq Nat /\ Limits \subseteq Nat
  /\ min_pairs \in Nat \ {0} /\ min_group_pairs \in Nat \ {0} /\ sweeps \in Nat

VARIABLES
  stage,            \* "before", "chain", "defer", "sweep" or "registered"
  scene,            \* the skins, what failed, and how far off the groups are
  usable,           \* the cubes that are active and were unwrapped
  t_reg,            \* how far the loop over the order is
  defer,            \* the cubes to retry
  sweep, changes,   \* the sweep and the corrections it has changed
  low_conf,         \* the cubes without a correction
  tab               \* tab[i][g]: the turns cube i's group g is corrected by

regvars == <<stage, scene, usable, t_reg, defer, sweep, changes, low_conf, tab>>

skin == scene.skin
Verts == DOMAIN skin
skinned == {skin[v].cube : v \in Verts}
-----------------------------------------------------------------------------
(* CubeReg_solve. *)

\* The placed neighbours that have a skin to pool.
Pool(i, P) == {j \in nbr[i] : j \in P /\ j \in skinned}

CubeOf(match) == skin[match.vertex].cube
Pooled(v, P) == {n \in DOMAIN skin[v].near : CubeOf(skin[v].near[n]) \in P}
Pairs(i, P) == {v \in Verts : skin[v].cube = i /\ Pooled(v, P) # {}}

Nearest(v, P) ==
  skin[v].near[CHOOSE n \in Pooled(v, P) : \A m \in Pooled(v, P) : n <= m]

\* The table R corrects the neighbours' skins before they are pooled.
Corrected(match, R) == match.turns + R[CubeOf(match)][skin[match.vertex].gid]
Dphi(i, P, R) == [v \in Pairs(i, P) |-> Corrected(Nearest(v, P), R)]

\* Entry n \div 2 of the sorted differences.
Median(D) ==
  CHOOSE m \in {D[v] : v \in DOMAIN D} :
    /\ Cardinality({v \in DOMAIN D : D[v] < m}) <= Cardinality(DOMAIN D) \div 2
    /\ Cardinality({v \in DOMAIN D : D[v] <= m}) > Cardinality(DOMAIN D) \div 2

InGroup(D, g) == {v \in DOMAIN D : skin[v].gid = g}

\* Mutant: the cube's median for every group.
CubeCorrection(D, g) == Median(D)

\* A group with too few pairs takes the cube's median.
Correction(D, g) ==
  IF g \in Groups /\ Cardinality(InGroup(D, g)) >= min_group_pairs
  THEN Median([v \in InGroup(D, g) |-> D[v]])
  ELSE Median(D)

Confident(i, P) == Cardinality(Pairs(i, P)) >= min_pairs
Solve(i, P, R) == [g \in Gids |-> Correction(Dphi(i, P, R), g)]
-----------------------------------------------------------------------------
(* pass_c. *)

RegInit ==
  /\ stage = "before"
  /\ scene = EmptyScene /\ usable = {}
  /\ t_reg = 0 /\ defer = <<>> /\ sweep = 0 /\ changes = 0
  /\ low_conf = {} /\ tab = [i \in Cubes |-> Aligned]

Registered(t) == {order[s] : s \in 1 .. t} \cap usable

\* The array placed of pass_c: set in the chain and never reset.
Placed == IF stage = "chain" THEN Registered(t_reg) ELSE usable

\* Pairs are within a few voxels, so the two cubes touch.
Fits(s) ==
  \A v \in DOMAIN s.skin : \A n \in DOMAIN s.skin[v].near :
    s.skin[s.skin[v].near[n].vertex].cube \in nbr[s.skin[v].cube]

\* The first cubes of the order were unwrapped, some in vain, and the skins
\* of the others are read; a cube whose skin cannot be read has no vertex.
LoadSkins ==
  /\ pc = "done" /\ stage = "before"
  /\ \E s \in Scenes, n \in Limits :
       /\ Fits(s)
       /\ scene' = s
       /\ usable' = {order[t] : t \in 1 .. (IF n > 0 /\ n < N THEN n ELSE N)} \ s.failed
  /\ stage' = "chain"
  /\ UNCHANGED <<t_reg, defer, sweep, changes, low_conf, tab>>

\* An iteration of the chain: correct the next cube of the order, or put it
\* off if there were skins to pair with but too few pairs.
Register(i) ==
  /\ stage = "chain" /\ t_reg < N /\ i = order[t_reg + 1]
  /\ t_reg' = t_reg + 1
  /\ LET P == Pool(i, Placed)
     IN  \/ /\ i \in usable /\ Confident(i, P)
            /\ tab' = [tab EXCEPT ![i] = Solve(i, P, tab)]
            /\ UNCHANGED <<low_conf, defer>>
         \/ /\ i \in usable /\ ~Confident(i, P)
            /\ low_conf' = low_conf \cup {i}
            /\ defer' = IF P # {} THEN Append(defer, i) ELSE defer
            /\ UNCHANGED tab
         \/ i \notin usable /\ UNCHANGED <<tab, low_conf, defer>>
  /\ UNCHANGED <<stage, scene, usable, sweep, changes>>

EndChain ==
  /\ stage = "chain" /\ t_reg = N
  /\ stage' = "defer"
  /\ UNCHANGED <<scene, usable, t_reg, defer, sweep, changes, low_conf, tab>>

\* Mutant: a sweep pools the cubes before it, as the chain does.
PoolEarlier(i) == Pool(i, Registered(t_reg))
PoolAll(i) == Pool(i, Placed)

Correct(i) ==
  IF Confident(i, PoolAll(i))
  THEN /\ tab' = [tab EXCEPT ![i] = Solve(i, PoolAll(i), tab)]
       /\ low_conf' = low_conf \ {i}
  ELSE UNCHANGED <<tab, low_conf>>

\* An iteration of the second pass.
Retry(i) ==
  /\ stage = "defer" /\ defer # <<>> /\ i = Head(defer)
  /\ Correct(i)
  /\ defer' = Tail(defer)
  /\ UNCHANGED <<stage, scene, usable, t_reg, sweep, changes>>

AfterRetries == IF sweeps = 0 THEN "registered" ELSE "sweep"

EndRetries ==
  /\ stage = "defer" /\ defer = <<>>
  /\ stage' = AfterRetries /\ sweep' = 1 /\ t_reg' = 0
  /\ UNCHANGED <<scene, usable, defer, changes, low_conf, tab>>

\* Mutant: only the fallback correction of the cube is compared.
DeltaCube(old, new) == old[NoGroup] # new[NoGroup]
Delta(old, new) == \E g \in Gids : old[g] # new[g]

\* An iteration of a sweep.
Resolve(i) ==
  /\ stage = "sweep" /\ t_reg < N /\ i = order[t_reg + 1]
  /\ t_reg' = t_reg + 1
  /\ \/ /\ i \in usable
        /\ Correct(i)
        /\ changes' = changes + (IF Delta(tab[i], tab'[i]) THEN 1 ELSE 0)
     \/ i \notin usable /\ UNCHANGED <<tab, low_conf, changes>>
  /\ UNCHANGED <<stage, scene, usable, defer, sweep>>

EndSweep ==
  /\ stage = "sweep" /\ t_reg = N
  /\ \/ /\ changes = 0 \/ sweep = sweeps
        /\ stage' = "registered"
        /\ UNCHANGED <<t_reg, sweep, changes>>
     \/ /\ changes # 0 /\ sweep < sweeps
        /\ sweep' = sweep + 1 /\ t_reg' = 0 /\ changes' = 0
        /\ UNCHANGED stage
  /\ UNCHANGED <<scene, usable, defer, low_conf, tab>>

PassC ==
  \/ LoadSkins \/ EndChain \/ EndRetries \/ EndSweep
  \/ \E i \in Cubes : Register(i) \/ Retry(i) \/ Resolve(i)
-----------------------------------------------------------------------------
(* Properties *)

Winding(v) == scene.off[skin[v].cube][skin[v].gid] + tab[skin[v].cube][skin[v].gid]

\* The pairs join no two wraps of the sheet: what they tell is how far off
\* the groups are.
Consistent ==
  \A v \in Verts :
    /\ skin[v].gid \in Groups
    /\ \A n \in DOMAIN skin[v].near :
         LET m == skin[v].near[n]
             w == skin[m.vertex]
         IN  m.turns = scene.off[w.cube][w.gid] - scene.off[skin[v].cube][skin[v].gid]

\* The first cube of a component is in one piece, and each other one has
\* pairs enough, for every group of its skin, with usable cubes before it.
WellPaired ==
  \A t \in 1 .. N : order[t] \in usable =>
    LET i == order[t]
        own == {v \in Verts : skin[v].cube = i}
        paired == Pairs(i, Pool(i, Registered(t - 1)))
    IN  \/ /\ Opens(t)
           /\ \A v, w \in own : scene.off[i][skin[v].gid] = scene.off[i][skin[w].gid]
        \/ /\ Cardinality(paired) >= min_pairs
           /\ \A v \in own :
                Cardinality({w \in paired : skin[w].gid = skin[v].gid}) >= min_group_pairs

\* If no pair joins two wraps and no group is cut off from the cubes before
\* it, the chain alone puts each flood component into one winding, whatever
\* each group was off by, and neither retries nor sweeps move a vertex of it
\* out of it again (cube_register.h:11-24, scroll_whole.c:592-600).
SeamsClose ==
  pc = "done" /\ Consistent /\ WellPaired =>
    \A v, w \in Verts :
      /\ {skin[v].cube, skin[w].cube} \subseteq Placed
      /\ comp[skin[v].cube] = comp[skin[w].cube]
      => Winding(v) = Winding(w)

\* However late a cube's neighbours were placed, put off or corrected, a
\* sweep corrects every cube that has pairs enough, among them those the
\* chain met before any neighbour and did not put off
\* (scroll_whole.c:534-537, 601-640).
PairedRegistered ==
  stage = "registered" /\ sweeps > 0 =>
    \A i \in usable : i \in low_conf <=> ~Confident(i, PoolAll(i))

\* A sweep that has changed nothing has settled every cube: solved again, on
\* what all its neighbours are by then, each would be left as it is
\* ("Gauss-Seidel to a fixed point", scroll_whole.c:597-599).
SweepSettles ==
  stage = "registered" /\ sweeps > 0 /\ changes = 0 =>
    \A i \in usable : Confident(i, PoolAll(i)) => tab[i] = Solve(i, PoolAll(i), tab)

\* "the ensemble cannot run away" (scroll_whole.c:600): no correction is
\* more than a way through all the cubes adds up.
CannotRunAway ==
  \A i \in Cubes, g \in Gids :
    \/ tab[i][g] = 0
    \/ \E v \in Verts : \E n \in DOMAIN skin[v].near :
         Distance(tab[i][g], 0) <= N * Distance(skin[v].near[n].turns, 0)
=============================================================================
