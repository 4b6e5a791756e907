----------------------------- MODULE ParallelFor -----------------------------
(***************************************************************************)
(* What VesPool_run promises (src/common/ves_pool.h:9-10, 24-26): fn is run *)
(* on every index of the caller's range, on each exactly once, and the call *)
(* returns when every chunk is done and no thread is still in fn for it.    *)
(***************************************************************************)
EXTENDS Integers

CONSTANT Callers

VARIABLES
  size,    \* the length of each caller's range, 0 outside a call
  doing,   \* the indices some thread is in fn for
  ready    \* the indices fn has returned from

vars == <<size, doing, ready>>

Init == /\ size  = [c \in Callers |-> 0]
        /\ doing = [c \in Callers |-> {}]
        /\ ready = [c \in Callers |-> {}]

Begin(c) ==
  /\ size[c] = 0 /\ size'[c] > 0
  /\ size' = [size EXCEPT ![c] = size'[c]]
  /\ UNCHANGED <<doing, ready>>

(* A thread enters fn for the indices S, none of them begun before. *)
Start(c) == LET S == doing'[c] \ doing[c] IN
  /\ S # {} /\ S \subseteq (0 .. size[c] - 1) \ ready[c]
  /\ doing' = [doing EXCEPT ![c] = @ \cup S]
  /\ UNCHANGED <<size, ready>>

(* fn returns from the indices S. *)
Finish(c) == LET S == doing[c] \ doing'[c] IN
  /\ S # {}
  /\ doing' = [doing EXCEPT ![c] = @ \ S]
  /\ ready' = [ready EXCEPT ![c] = @ \cup S]
  /\ UNCHANGED size

Return(c) ==
  /\ size[c] > 0 /\ ready[c] = 0 .. size[c] - 1 /\ doing[c] = {}
  /\ size'  = [size EXCEPT ![c] = 0]
  /\ ready' = [ready EXCEPT ![c] = {}]
  /\ UNCHANGED doing

Next == \E c \in Callers : Begin(c) \/ Start(c) \/ Finish(c) \/ Return(c)

Spec == Init /\ [][Next]_vars
=============================================================================
