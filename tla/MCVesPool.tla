----------------------------- MODULE MCVesPool -----------------------------
(* Instances of VesPool for TLC, and what its callers wait for.              *)
EXTENDS VesPoolLoop

CONSTANTS a, b, h1, h2

MCCallers == {a, b}
MCHelpers == {h1, h2}
MCOne == {a}
(* A range of three chunks of which the last is short, and one the share of *)
(* helpers divides.                                                         *)
MCWorks == {[n |-> 5, chunk |-> 2, max |-> 2], [n |-> 2, chunk |-> 1, max |-> 1]}
MCSettings == {3}
-----------------------------------------------------------------------------
(* Every call of VesPool_run returns. *)
RunReturns == \A c \in Callers : pc[c] = "share" ~> pc[c] = "out"
=============================================================================
