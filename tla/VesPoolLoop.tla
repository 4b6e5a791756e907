---------------------------- MODULE VesPoolLoop ----------------------------
(***************************************************************************)
(* The parallel loop the pool implements: a refinement mapping of VesPool  *)
(* to ParallelFor.  A thread is in fn for its chunk between the claim and  *)
(* the return of fn, and a caller on its own for its whole range.          *)
(***************************************************************************)
EXTENDS VesPoolInv

Sizes == [c \in Callers |-> call[c].n]
Doing(c) == IF pc[c] = "serial" THEN 0 .. call[c].n - 1
            ELSE UNION {Chunk(t) : t \in {u \in Threads : InCall(u, c)}}
Doings == [c \in Callers |-> Doing(c)]

Loop == INSTANCE ParallelFor WITH size <- Sizes, doing <- Doings, ready <- done

(* Each call of VesPool_run is a parallel loop: fn is given every index of  *)
(* its range, none twice, and the call returns when all are done.           *)
EveryIndexOnce == Loop!Spec

(* A range is empty exactly outside a call: VesPool_run returns at once on  *)
(* n = 0 (ves_pool.c:125).                                                  *)
Sized == \A c \in Callers : call[c].n = 0 <=> pc[c] = "out"
=============================================================================
