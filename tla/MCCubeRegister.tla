--------------------------- MODULE MCCubeRegister ---------------------------
(***************************************************************************)
(* Small grids and skins for TLC.                                          *)
(***************************************************************************)
EXTENDS CubePolish, SequencesExt

At(z, y, x) == [z |-> z, y |-> y, x |-> x]
Cube(s) == [i \in Cubes |-> s[i + 1]]

MCLayouts == {
  Cube(<<At(0,0,0), At(0,0,1), At(0,0,2), At(0,0,3)>>),   \* a row
  Cube(<<At(0,0,2), At(0,0,0), At(0,0,3), At(0,0,1)>>),   \* a row, shuffled
  Cube(<<At(0,0,0), At(0,1,0), At(0,0,1), At(0,1,1)>>),   \* a ring
  Cube(<<At(0,1,1), At(0,0,1), At(0,2,1), At(1,1,1)>>),   \* a star
  Cube(<<At(0,0,0), At(0,5,0), At(0,0,1), At(0,5,1)>>),   \* two islands
  Cube(<<At(0,0,0), At(1,0,0), At(3,0,0), At(0,7,7)>>)}   \* with a hole
MCPolishLayouts == {
  Cube(<<At(0,0,0), At(0,0,1), At(0,0,2), At(0,0,3)>>),   \* a row
  Cube(<<At(0,0,0), At(0,1,0), At(0,0,1), At(0,1,1)>>)}   \* a ring
MCRing == {Cube(<<At(0,0,0), At(0,1,0), At(0,0,1), At(0,1,1)>>)}

(* A group of a cube that is off by some turns, and a seam: two vertices,   *)
(* one of each group, that see each other over some slipped wraps.          *)
Off(s) == [i \in Cubes |-> [g \in Gids |-> IF g = 1 THEN s[i + 1][2] ELSE s[i + 1][1]]]
Seam(i, g, j, h, slip) == <<[cube |-> i, gid |-> g, slip |-> slip],
                            [cube |-> j, gid |-> h, slip |-> -slip]>>
Twin(v) == IF v % 2 = 1 THEN v + 1 ELSE v - 1
Turns(ends, off, v, w) == off[ends[w].cube][ends[w].gid] - off[ends[v].cube][ends[v].gid]

(* also[v] is a vertex v sees behind its own.                               *)
Scene(off, seams, also, failed) ==
  LET ends == FlattenSeq(seams)
      near(v) == <<[vertex |-> Twin(v), turns |-> Turns(ends, off, v, Twin(v)) + ends[v].slip]>>
      behind(v) == [n \in DOMAIN also[v] |->
                      [vertex |-> also[v][n], turns |-> Turns(ends, off, v, also[v][n])]]
  IN  [skin |-> [v \in DOMAIN ends |->
                   [cube |-> ends[v].cube, gid |-> ends[v].gid,
                    near |-> IF v \in DOMAIN also THEN near(v) \o behind(v) ELSE near(v)]],
       failed |-> failed,
       off |-> off]
None == [v \in {} |-> <<>>]

Shifted == Off(<<<<0, 0>>, <<1, 1>>, <<-1, -1>>, <<2, 2>>>>)
Split   == Off(<<<<0, 1>>, <<1, 1>>, <<-1, -1>>, <<0, 0>>>>)
Flat    == Off(<<<<0, 0>>, <<0, 0>>, <<0, 0>>, <<0, 0>>>>)

Twice(i, j) == <<Seam(i, 0, j, 0, 0), Seam(i, 0, j, 0, 0)>>
Both(i, j)  == <<Seam(i, 0, j, 0, 0), Seam(i, 1, j, 0, 0)>>

MCScenes == {
  Scene(Flat, <<>>, None, {}),                            \* no skin is read
  \* the row 1-3-0-2, whose cube 0 has two groups a turn apart
  Scene(Split, Twice(1, 3) \o Both(0, 3) \o Both(0, 2), None, {}),
  \* the row, in which 3 and 0 share one pair
  Scene(Shifted, Twice(1, 3) \o <<Seam(3, 0, 0, 0, 0)>> \o Twice(0, 2), None, {}),
  \* the ring 0-1-3-2, closed, and with a corner that sees two cubes
  Scene(Shifted, Twice(0, 1) \o Twice(1, 3) \o Twice(3, 2) \o Twice(2, 0), None, {}),
  Scene(Shifted, <<Seam(0, 0, 1, 0, 1)>> \o Twice(0, 1) \o Twice(1, 3) \o <<Seam(3, 0, 2, 0, 0)>> \o Twice(2, 0),
        1 :> <<11>>, {}),
  \* the star around 0: one pair a seam, and a cube that failed
  Scene(Shifted, <<Seam(0, 0, 1, 0, 0), Seam(0, 0, 2, 0, 0), Seam(0, 0, 3, 0, 0)>>, None, {}),
  Scene(Shifted, Twice(0, 1) \o Both(0, 2) \o Twice(0, 3), None, {1}),
  \* the islands 0-2 and 1-3, of which the second groups disagree
  Scene(Shifted, Twice(0, 2) \o Twice(1, 3) \o <<Seam(1, 0, 3, 0, 0), Seam(1, 1, 3, 1, 0), Seam(1, 1, 3, 1, 1)>>,
        None, {})}

(* The ring with one pair a seam, of which one slipped a wrap.              *)
MCRunaway == {Scene(Flat, <<Seam(0, 0, 1, 0, 1), Seam(1, 0, 3, 0, 0),
                            Seam(3, 0, 2, 0, 0), Seam(2, 0, 0, 0, 0)>>, None, {})}

(* Cube 0 has two groups a turn apart, and cube 1 is a turn off; one of the *)
(* answers for each cube is the right one.                                  *)
Apart == Off(<<<<0, 1>>, <<1, 1>>, <<0, 0>>, <<0, 0>>>>)
MCCorrections == {Aligned, [g \in Gids |-> IF g = 1 THEN -1 ELSE 0], [g \in Gids |-> -1]}

MCPolishScenes == {
  Scene(Apart, <<>>, None, {}),
  \* the row 0-1-2-3, whole and with a seam that slipped
  Scene(Apart, Both(0, 1) \o Twice(1, 2) \o Twice(2, 3), None, {}),
  Scene(Apart, Both(0, 1) \o <<Seam(1, 0, 2, 0, 1)>> \o Twice(1, 2) \o Twice(2, 3), None, {}),
  \* the ring 0-1-3-2, whole and with a corner that sees two cubes
  Scene(Apart, Both(0, 1) \o Twice(1, 3) \o Twice(3, 2) \o Both(0, 2), None, {}),
  Scene(Apart, <<Seam(0, 0, 1, 0, 1)>> \o Both(0, 1) \o Twice(1, 3) \o <<Seam(3, 0, 2, 0, 0)>>
               \o Both(0, 2), 1 :> <<13>>, {})}
=============================================================================
