----------------------------- MODULE CubePolish -----------------------------
(***************************************************************************)
(* The polish of a re-registration: the red/black half-sweeps of           *)
(* src/src/tools/scroll_whole.c, over the corrections a group graph has    *)
(* found.  The threads of an OpenMP team share out the cubes; each solves  *)
(* the cubes of one colour again, on what their neighbours are, in a       *)
(* scratch arena its number gives it.  Taking a cube, reading a neighbour  *)
(* and writing the cube's correction are steps of their own.               *)
(***************************************************************************)
EXTENDS CubeRegister

CONSTANTS
  Team,                   \* the number of threads
  RR_POLISH_MAX_THREADS,  \* the number of arenas there is room for
  Corrections             \* what the group graph can answer for a cube

ASSUME TeamAssumption ==
  /\ Team \in Nat \ {0} /\ RR_POLISH_MAX_THREADS \in Nat \ {0}
  /\ Corrections \subseteq Tables

Threads == 0 .. Team - 1
NoCube == -1

VARIABLES
  color,    \* the colour of this half-sweep
  todo,     \* the iterations no thread has taken
  at,       \* per thread: the cube it is at, NoCube between two iterations
  seen,     \* per thread: the neighbours it has pooled, as they were
  clobbered,\* per thread: its arena was used by another one meanwhile
  half      \* history: the corrections and changes when the half-sweep began

polishvars == <<color, todo, at, seen, clobbered, half>>
allvars == <<vars, regvars, polishvars>>
-----------------------------------------------------------------------------
\* Mutant: the parity of the first two coordinates.
ColorFlat(i) == (origin[i]["z"] + origin[i]["y"]) % 2

Color(i) == (origin[i]["z"] + origin[i]["y"] + origin[i]["x"]) % 2

polish_nt == IF Team > RR_POLISH_MAX_THREADS THEN RR_POLISH_MAX_THREADS ELSE Team
Arena(t) == IF t >= polish_nt THEN 0 ELSE t

Idle == [t \in Threads |-> NoCube]
Unread == [t \in Threads |-> <<>>]
Untouched == [t \in Threads |-> FALSE]

PolishInit ==
  /\ color = 0 /\ todo = {} /\ at = Idle /\ seen = Unread /\ clobbered = Untouched
  /\ half = [tab |-> tab, changes |-> 0]

\* A re-registration: the first cube is the seed, the skins are read, the
\* graph is built and solved; the polish is left out without sweeps, or with
\* --raw-component-gauge.
TakeGraph ==
  /\ pc = "done" /\ stage = "before" /\ seed_idx = 0
  /\ scene' \in {s \in Scenes : Fits(s)}
  /\ tab' \in [Cubes -> Corrections]
  /\ \/ stage' = "polish" /\ sweeps > 0
     \/ stage' = "registered"
  /\ sweep' = 1 /\ todo' = Cubes
  /\ half' = [tab |-> tab', changes |-> 0]
  /\ UNCHANGED <<usable, t_reg, defer, changes, low_conf, color, at, seen, clobbered>>

Sharing(t) == {u \in Threads \ {t} : at[u] # NoCube /\ Arena(u) = Arena(t)}

\* A thread takes an iteration; it goes on with a cube of this colour that
\* has a skin and a neighbour with one.
Take(t, i) ==
  /\ stage = "polish" /\ at[t] = NoCube /\ i \in todo
  /\ todo' = todo \ {i}
  /\ \/ /\ Color(i) = color /\ i \in skinned /\ Pool(i, Cubes) # {}
        /\ at' = [at EXCEPT ![t] = i]
        /\ seen' = [seen EXCEPT ![t] = <<>>]
        /\ clobbered' = [u \in Threads |->
             IF u = t THEN Sharing(t) # {} ELSE clobbered[u] \/ u \in Sharing(t)]
     \/ /\ ~(Color(i) = color /\ i \in skinned /\ Pool(i, Cubes) # {})
        /\ UNCHANGED <<at, seen, clobbered>>
  /\ UNCHANGED <<stage, scene, usable, t_reg, defer, sweep, changes, low_conf, tab, color, half>>

\* It pools the skin of a neighbour, corrected as the neighbour is now.
Read(t, j) ==
  /\ stage = "polish" /\ at[t] # NoCube
  /\ j \in Pool(at[t], Cubes) \ DOMAIN seen[t]
  /\ seen' = [seen EXCEPT ![t] = [n \in DOMAIN seen[t] \cup {j} |->
                                    IF n = j THEN tab[j] ELSE seen[t][n]]]
  /\ UNCHANGED <<stage, scene, usable, t_reg, defer, sweep, changes, low_conf, tab,
                 color, todo, at, clobbered, half>>

\* What the thread solves; anything if its arena was not its own.
Answers(t) ==
  LET i == at[t]
  IN  IF clobbered[t] THEN Corrections \cup {tab[i]}
      ELSE IF Confident(i, DOMAIN seen[t]) THEN {Solve(i, DOMAIN seen[t], seen[t])}
      ELSE {tab[i]}

Write(t) ==
  /\ stage = "polish" /\ at[t] # NoCube
  /\ DOMAIN seen[t] = Pool(at[t], Cubes)
  /\ \E k \in Answers(t) :
       /\ tab' = [tab EXCEPT ![at[t]] = k]
       /\ changes' = changes + (IF Delta(tab[at[t]], k) THEN 1 ELSE 0)
  /\ at' = [at EXCEPT ![t] = NoCube]
  /\ UNCHANGED <<stage, scene, usable, t_reg, defer, sweep, low_conf,
                 color, todo, seen, clobbered, half>>

HalfDone == stage = "polish" /\ todo = {} /\ at = Idle

EndHalf ==
  /\ HalfDone
  /\ \/ /\ color = 0
        /\ color' = 1 /\ todo' = Cubes
        /\ half' = [tab |-> tab, changes |-> changes]
        /\ UNCHANGED <<stage, sweep, changes>>
     \/ /\ color = 1 /\ (changes = 0 \/ sweep = sweeps)
        /\ stage' = "registered"
        /\ UNCHANGED <<color, todo, half, sweep, changes>>
     \/ /\ color = 1 /\ changes # 0 /\ sweep < sweeps
        /\ sweep' = sweep + 1 /\ changes' = 0
        /\ color' = 0 /\ todo' = Cubes
        /\ half' = [tab |-> tab, changes |-> 0]
        /\ UNCHANGED stage
  /\ UNCHANGED <<scene, usable, t_reg, defer, low_conf, tab, at, seen, clobbered>>

Polish ==
  \/ TakeGraph \/ EndHalf
  \/ \E t \in Threads : Write(t) \/ \E i \in Cubes : Take(t, i) \/ Read(t, i)

-----------------------------------------------------------------------------
(* main: the schedule; pass C on what it returned, or a re-registration. *)
RunInit == Init /\ RegInit /\ PolishInit
RunNext ==
  \/ Flood /\ UNCHANGED <<regvars, polishvars>>
  \/ PassC /\ UNCHANGED <<vars, polishvars>>
  \/ Polish /\ UNCHANGED vars
  \/ stage = "registered" /\ UNCHANGED allvars
RunSpec == RunInit /\ [][RunNext]_allvars

\* One thread runs the flood to its end.
RunFairSpec == RunSpec /\ WF_allvars(Flood /\ UNCHANGED <<regvars, polishvars>>)
-----------------------------------------------------------------------------
(* Properties *)

\* The cube solved again on the corrections the half-sweep began with.
Renewed(i) ==
  IF Color(i) = color /\ i \in skinned /\ Confident(i, Pool(i, Cubes))
  THEN Solve(i, Pool(i, Cubes), half.tab)
  ELSE half.tab[i]

\* "the result is deterministic regardless of thread schedule"
\* (scroll_whole.c:1837-1838): a half-sweep corrects its cubes all at once,
\* and counts those that changed.
OneOutcome ==
  HalfDone =>
    /\ tab = [i \in Cubes |-> Renewed(i)]
    /\ changes = half.changes + Cardinality({i \in Cubes : tab[i] # half.tab[i]})

InOneWinding ==
  \A v, w \in Verts :
    comp[skin[v].cube] = comp[skin[w].cube] => Winding(v) = Winding(w)

\* A cube that is solved at all has pairs enough for every group of its skin.
GroupsPaired ==
  \A i \in Cubes : Confident(i, Pool(i, Cubes)) =>
    \A v \in Verts : skin[v].cube = i =>
      Cardinality({w \in Pairs(i, Pool(i, Cubes)) : skin[w].gid = skin[v].gid})
        >= min_group_pairs

\* "from a correct basin, coordinate descent defends the RIGHT majority"
\* (scroll_whole.c:1823-1824): if no pair joins two wraps, corrections that
\* put every component into one winding stay that way, whatever half of the
\* cubes is being solved and however old what a thread has read.
PolishDefends ==
  [][stage = "polish" /\ Consistent /\ GroupsPaired /\ InOneWinding => InOneWinding']_allvars
=============================================================================
