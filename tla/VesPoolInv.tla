----------------------------- MODULE VesPoolInv -----------------------------
(***************************************************************************)
(* The inductive invariant of VesPool: its conjuncts are the facts about   *)
(* ves_pool.c a step relies on.  TLC checks them on small instances and    *)
(* VesPoolProofs proves them for every value of the constants.             *)
(***************************************************************************)
EXTENDS VesPool

Leaving == {"finish", "drain", "waiting", "locking"}

(* Where threads can be, that lock names the one between two halves of a    *)
(* region under the lock, and that helpers are made once.                   *)
Places ==
  /\ started = 1 \/ \A h \in Helpers : pc[h] = "none"
  /\ \A c \in Callers : pc[c] \in CallerPlaces
  /\ \A h \in Helpers : pc[h] \in HelperPlaces
  /\ \A t \in Threads : lock = t <=> pc[t] \in {"look", "drain"}

(* A frame exists exactly while its caller is between memset and return,    *)
(* and only a helper that holds a seat refers to a run.                     *)
Frames ==
  /\ \A c \in Callers : IF Live(c) THEN at[c].run = c /\ at[c].slot = 0 ELSE run[c] = NoRun
  /\ \A h \in Helpers : IF Seated(h) THEN at[h].run \in Callers /\ Live(at[h].run) ELSE at[h] = NoSeat

(* running is what the caller's last wait counts down: it is the number of  *)
(* helpers that may still touch the run.                                    *)
SeatedAt(c) == {h \in Helpers : Seated(h) /\ at[h].run = c}
RunningCounts == \A c \in Callers : run[c].running = Cardinality(SeatedAt(c))

(* A run leaves the queue before its caller waits for its helpers. *)
CancelledBeforeWait == \A c \in Callers : Queued(c) => pc[c] \in {"chunks", "call", "finish"}

(* A run's slots are numbered by the seats taken so far, within the share   *)
(* and so within a max_helpers that is not negative.                        *)
SlotsByJoining ==
  /\ \A c \in Callers : pc[c] = "borrow" /\ call[c].max >= 0 => call[c].want <= call[c].max
  /\ \A c \in Callers : Live(c) /\ call[c].max >= 0 =>
       run[c].joined + run[c].tickets <= call[c].max
  /\ \A h \in Helpers : Seated(h) => at[h].slot \in 1 .. run[at[h].run].joined
  /\ \A h, g \in Helpers : Seated(h) /\ Seated(g) /\ h # g /\ at[h].run = at[g].run
                           => at[h].slot # at[g].slot

(* The indices below next are done or being run, and no others are.         *)
Claimed(c) == 0 .. Least(run[c].next, call[c].n) - 1
Claims ==
  /\ \A t \in Threads, c \in Callers : InCall(t, c) =>
       at[t].lo < call[c].n /\ at[t].lo + call[c].chunk <= run[c].next
  /\ \A c \in Callers : Live(c) => done[c] \subseteq Claimed(c)
  /\ \A c \in Callers : Live(c) => \A i \in Claimed(c) :
       i \in done[c] \/ \E t \in Threads : InCall(t, c) /\ i \in Chunk(t)
  /\ \A c \in Callers : pc[c] \in Leaving => run[c].next >= call[c].n
  /\ \A c \in Callers : ~Live(c) => done[c] = IF pc[c] = "served" THEN 0 .. call[c].n - 1 ELSE {}

IInv ==
  /\ TypeOK /\ Places /\ Frames /\ RunningCounts
  /\ CancelledBeforeWait /\ FramesOutliveUses /\ QueueIsList
  /\ SlotsByJoining /\ Claims /\ ChunksDisjoint

(* The seats a caller borrowed, in three places that must agree: idle, the  *)
(* queued runs, and the helpers that are awake to take them.                *)
SeatsKept == IsFiniteSet(OpenSeats) /\ SeatsConserved /\ NoSeatSleeps
=============================================================================
