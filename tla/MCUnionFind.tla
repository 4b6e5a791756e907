---------------------------- MODULE MCUnionFind ----------------------------
(***************************************************************************)
(* Unions for TLC: any two of the elements, one pair in both orders and    *)
(* an element with itself.                                                 *)
(***************************************************************************)
EXTENDS UnionFind

AllPairs == {p \in Elements \X Elements : p[1] < p[2]} \cup {<<1, 0>>, <<0, 0>>}
=============================================================================
