---------------------------- MODULE CubeSchedule ----------------------------
(***************************************************************************)
(* The registration order of a whole-scroll run                            *)
(* (src/src/whole/cube_schedule.c).  The cubes of a dump are linked to     *)
(* their six grid neighbours, a seed of median radius is taken unless the  *)
(* caller names one, and a best-first flood visits the cubes in the order  *)
(* of their distance in winding phase from the seed, restarting at the     *)
(* nearest cube left when the frontier is empty.  One action per iteration *)
(* of the loop over t.                                                     *)
(*                                                                         *)
(* A cube is its index in the node array.  Its origin is counted in        *)
(* chunks; its radius r and its winding phase w_phase are integers, which  *)
(* keeps the comparisons of the code and leaves out the trigonometry.      *)
(***************************************************************************)
EXTENDS Integers, Sequences, FiniteSets

CONSTANTS
  N,        \* the number of cubes found in the dump
  Layouts,  \* the placements of the cubes on the grid, a set of functions
  Radii,    \* the radii a cube's centre can have
  Phases    \* the winding phases a cube's centre can have

Cubes == 0 .. N - 1
Axes == {"z", "y", "x"}

ASSUME CountAssumption == N \in Nat \ {0}
\* Two directories of a dump have two origins: the name spells the origin.
ASSUME LayoutAssumption ==
  \A f \in Layouts :
    /\ f \in [Cubes -> [Axes -> Int]]
    /\ \A i, j \in Cubes : f[i] = f[j] => i = j
ASSUME GeometryAssumption == Radii \subseteq Int /\ Phases \subseteq Int

NoSeed == -1

VARIABLES
  origin,   \* origin[i]: where cube i lies, in chunks
  r,        \* r[i]: distance of its centre from the axis
  w_phase,  \* w_phase[i]: winding phase of its centre
  seed_idx, \* the seed the caller forces, NoSeed for the default; then the seed
  nbr,      \* nbr[i]: the cubes one chunk away from cube i
  elig,     \* the cubes that were marked eligible
  order,    \* the cubes placed so far, in order
  comp,     \* comp[i]: the flood component of cube i, once placed
  ncomp,    \* the component being flooded
  pc        \* "link", "seed", "flood" or "done"

input == <<origin, r, w_phase>>
vars == <<origin, r, w_phase, seed_idx, nbr, elig, order, comp, ncomp, pc>>

(***************************************************************************)
(* Cubes one chunk apart along one axis.                                   *)
(***************************************************************************)
Adjacent(a, b) ==
  \E d \in Axes : /\ a[d] - b[d] \in {-1, 1}
                  /\ \A e \in Axes \ {d} : a[e] = b[e]

(***************************************************************************)
(* scan_cubes lists the directories in whatever order the system returns   *)
(* them; pitch <= 0 asks for the provisional radial order, in which the    *)
(* phase is the radius.                                                    *)
(***************************************************************************)
Init ==
  /\ origin \in Layouts
  /\ r \in [Cubes -> Radii]
  /\ w_phase = r \/ w_phase \in [Cubes -> Phases]
  /\ seed_idx \in Cubes \cup {NoSeed}
  /\ nbr = [i \in Cubes |-> {}]
  /\ elig = {}
  /\ order = <<>>
  /\ comp = [i \in Cubes |-> 0]
  /\ ncomp = 0
  /\ pc = "link"

\* The six links of every cube, found by origin.
Links == [i \in Cubes |-> {j \in Cubes : Adjacent(origin[i], origin[j])}]

Link ==
  /\ pc = "link"
  /\ nbr' = Links
  /\ pc' = "seed"
  /\ UNCHANGED <<input, seed_idx, elig, order, comp, ncomp>>

\* Mutant: the seed must have exactly N \div 2 cubes below it, which equal
\* radii can make impossible.
MedianExact(s) == Cardinality({i \in Cubes : r[i] < r[s]}) = N \div 2

(***************************************************************************)
(* Entry N \div 2 of the sorted radii is cube s's, and no cube before s    *)
(* has the same radius.                                                    *)
(***************************************************************************)
MedianRadius(s) ==
  /\ Cardinality({i \in Cubes : r[i] < r[s]}) <= N \div 2
  /\ Cardinality({i \in Cubes : r[i] <= r[s]}) > N \div 2
  /\ \A i \in Cubes : i < s => r[i] # r[s]

SeedElig(s) == {s}

TakeSeed(s) ==
  /\ pc = "seed"
  /\ s = seed_idx \/ (seed_idx = NoSeed /\ MedianRadius(s))
  /\ seed_idx' = s
  /\ elig' = SeedElig(s)
  /\ pc' = "flood"
  /\ UNCHANGED <<input, nbr, order, comp, ncomp>>

placed == {order[t] : t \in 1 .. Len(order)}

Distance(a, b) == IF a < b THEN b - a ELSE a - b
Key(i) == Distance(w_phase[i], w_phase[seed_idx])

\* Mutant: the scan keeps the first candidate, whatever its key.
BestUnordered(S, i) == i \in S /\ \A j \in S : i <= j

\* The scan keeps the first cube of the smallest key.
Best(S, i) ==
  /\ i \in S
  /\ \A j \in S : /\ Key(i) <= Key(j)
                  /\ j < i => Key(i) < Key(j)

\* Mutants: the scan forgets the test of placed[i], or the test of elig[i];
\* only one of the two neighbours of an axis is marked.
FrontierPlaced == elig
FrontierAny == Cubes \ placed
MarkedOneWay(i) == elig \cup {j \in nbr[i] : j \notin placed /\ j > i}

Frontier == elig \ placed
Marked(i) == elig \cup {j \in nbr[i] : j \notin placed \cup {i}}

Place(i, c) ==
  /\ order' = Append(order, i)
  /\ comp' = [comp EXCEPT ![i] = c]
  /\ ncomp' = c
  /\ elig' = Marked(i)
  /\ UNCHANGED <<input, seed_idx, nbr, pc>>

Visit(i) ==
  /\ pc = "flood"
  /\ Len(order) < N
  /\ Best(Frontier, i)
  /\ Place(i, ncomp)

Opened == ncomp + 1

Reseed(i) ==
  /\ pc = "flood"
  /\ Len(order) < N
  /\ Frontier = {}
  /\ Best(Cubes \ placed, i)
  /\ Place(i, Opened)

Return ==
  /\ pc = "flood"
  /\ Len(order) = N
  /\ pc' = "done"
  /\ UNCHANGED <<input, seed_idx, nbr, elig, order, comp, ncomp>>

\* The order is handed to the caller and nothing happens to it any more.
Returned == pc = "done" /\ UNCHANGED vars

Flood == Link \/ Return \/ \E i \in Cubes : TakeSeed(i) \/ Visit(i) \/ Reseed(i)
Next == Flood \/ Returned

Spec == Init /\ [][Next]_vars

-----------------------------------------------------------------------------
(* Properties *)

\* Every variable keeps its type, and no more than N cubes are listed.
TypeOK ==
  /\ origin \in Layouts
  /\ r \in [Cubes -> Radii]
  /\ w_phase \in [Cubes -> Radii \cup Phases]
  /\ seed_idx \in Cubes \cup {NoSeed}
  /\ nbr \in [Cubes -> SUBSET Cubes]
  /\ elig \subseteq Cubes
  /\ order \in Seq(Cubes)
  /\ Len(order) <= N
  /\ comp \in [Cubes -> Nat]
  /\ ncomp \in Nat
  /\ pc \in {"link", "seed", "flood", "done"}

Earlier(t) == {order[s] : s \in 1 .. t - 1}
Opens(t) == \A i \in Earlier(t) : comp[i] # comp[order[t]]

\* The order visits no cube twice and, when the loop over t is over, has
\* visited all of them: a cube is neither lost between two components nor
\* listed again because a neighbour marked it eligible a second time.
EveryCubeOnce ==
  /\ \A t \in 1 .. Len(order) : order[t] \notin Earlier(t)
  /\ pc = "done" => placed = Cubes

\* "Only ever visit a cube adjacent to placed ones" (cube_schedule.h:16): a
\* cube that does not open its flood component has a neighbour of the same
\* component earlier in the order, the one registration corrects it against.
AttachedToPlaced ==
  \A t \in 1 .. Len(order) :
    \/ Opens(t)
    \/ \E i \in Earlier(t) : i \in nbr[order[t]] /\ comp[i] = comp[order[t]]

Closed(S) == \A i \in S : nbr[i] \subseteq S

\* The flood components are the connected components of the grid: no set of
\* cubes closed under the links separates two cubes of one component, and at
\* the end a component is closed, so no link joins two components.
ComponentsExact ==
  /\ \A S \in SUBSET Cubes : Closed(S) =>
       \A i, j \in placed : i \in S /\ comp[i] = comp[j] => j \in S
  /\ pc = "done" => \A i \in Cubes : Closed({j \in Cubes : comp[j] = comp[i]})

\* The order starts at the seed, floods the components one after the other,
\* and numbers them 0, 1, .. ncomp without a gap; the caller takes the largest
\* number plus one for the count (scroll_whole.c:2614).
ComponentsInOrder ==
  \A t \in 1 .. Len(order) :
    /\ t = 1 => order[t] = seed_idx /\ comp[order[t]] = 0
    /\ t > 1 => comp[order[t]] \in
                  {comp[order[t - 1]], comp[order[t - 1]] + 1}
    /\ t = Len(order) => comp[order[t]] = ncomp

\* The sweep is best-first over the whole run: when a cube is visited, no
\* cube nearer to the seed in phase is a neighbour of an earlier one and
\* still to come, and a component is opened, at its nearest cube, only when
\* the earlier cubes have no neighbour left.
SpiralSweep ==
  \A t \in 2 .. Len(order) :
    /\ \A i \in Earlier(t) : \A j \in nbr[i] :
         Key(j) < Key(order[t]) => j \in Earlier(t)
    /\ Opens(t) =>
         /\ Closed(Earlier(t))
         /\ \A j \in Cubes \ Earlier(t) : Key(order[t]) <= Key(j)

\* The schedule is handed to the caller.
ScheduleReturned == <>(pc = "done")
=============================================================================
