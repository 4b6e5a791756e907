----------------------------- MODULE MCAsmStore -----------------------------
(* Instances of AsmStore for TLC.                                           *)
EXTENDS AsmStore, TLC

CONSTANTS w1, w2, o1, o2
MCWorkers == {w1, w2}
MCOptions == {o1, o2}
Symmetry == Permutations(Workers) \cup Permutations(Options)
=============================================================================
