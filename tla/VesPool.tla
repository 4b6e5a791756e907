------------------------------- MODULE VesPool -------------------------------
(***************************************************************************)
(* The helper pool of src/common/ves_pool.c: one mutex, a queue of runs    *)
(* whose nodes (VpRun) live on the stack of the thread that called         *)
(* VesPool_run, and detached helper threads that take a run's seats.       *)
(*                                                                         *)
(* A step is one access outside the lock (a read of the configuration, a   *)
(* fetch-and-add on a run's next chunk, a call of fn) or one region under  *)
(* the lock.  A region a condition wait can cut in two is two steps, and   *)
(* lock holds the thread in between.                                       *)
(***************************************************************************)
EXTENDS Integers, FiniteSets

CONSTANTS
  Callers,       \* threads that call VesPool_run; each owns one VpRun at a time
  Announced,     \* the callers that announce themselves as outer jobs
  Helpers,       \* threads vp_spawn can create
  Nil,           \* the null pointer, and the owner of a free lock
  CoreSettings,  \* arguments VesPool_configure is given
  Works,         \* [n, chunk, max]: the arguments VesPool_run is given
  MaxCalls,      \* bound: runs started in a behaviour
  MaxSpurious    \* bound: spurious wakeups in a behaviour

Threads == Callers \cup Helpers

ASSUME PoolAssumption ==
  /\ IsFiniteSet(Callers) /\ IsFiniteSet(Helpers)
  /\ Announced \subseteq Callers /\ Callers \cap Helpers = {} /\ Nil \notin Threads
  /\ CoreSettings \subseteq Int
  /\ Works \subseteq [n : Nat, chunk : Nat, max : Int]
  /\ MaxCalls \in Nat /\ MaxSpurious \in Nat

VARIABLES
  cores, jobs,            \* vp_cores; the outer jobs vp_busy counts
  started, idle,          \* vp_started, vp_idle
  head, tail, lock,       \* vp_head, vp_tail, the owner of vp_mutex
  run,                    \* each caller's VpRun
  call,                   \* each caller's arguments and its local `want`
  pc,                     \* where each thread is
  at,                     \* the run and slot a thread serves, and its chunk's start
  done,                   \* history: indices fn has returned from, per caller
  calls, spurious         \* counted against the bounds

shared == <<cores, jobs, started, idle>>
queue  == <<head, tail>>
bounds == <<calls, spurious>>
vars   == <<shared, queue, lock, run, call, pc, at, done, bounds>>

Least(a, b)    == IF a < b THEN a ELSE b
Greatest(a, b) == IF a < b THEN b ELSE a

NoRun  == [next |-> 0, tickets |-> 0, joined |-> 0, running |-> 0, link |-> Nil]
NoCall == [n |-> 0, chunk |-> 1, max |-> 0, want |-> 0]
NoSeat == [run |-> Nil, slot |-> 0, lo |-> 0]

Init ==
  /\ cores = 1 /\ jobs = {} /\ started = 0 /\ idle = 0
  /\ head = Nil /\ tail = Nil /\ lock = Nil
  /\ run  = [c \in Callers |-> NoRun]
  /\ call = [c \in Callers |-> NoCall]
  /\ pc   = [t \in Threads |-> IF t \in Callers THEN "out" ELSE "none"]
  /\ at   = [t \in Threads |-> NoSeat]
  /\ done = [c \in Callers |-> {}]
  /\ calls = 0 /\ spurious = 0

Goto(t, to) == pc' = [pc EXCEPT ![t] = to]
-----------------------------------------------------------------------------
(* The configuration and the outer jobs. *)

VesPool_configure(k) ==
  /\ lock = Nil
  /\ cores' = Greatest(k, 1)
  /\ UNCHANGED <<jobs, started, idle, queue, lock, run, call, pc, at, done, bounds>>

VesPool_job_enter(c) ==
  /\ pc[c] = "out" /\ c \in Announced \ jobs
  /\ jobs' = jobs \cup {c}
  /\ UNCHANGED <<cores, started, idle, queue, lock, run, call, pc, at, done, bounds>>

VesPool_job_leave(c) ==
  /\ pc[c] = "out" /\ c \in jobs
  /\ jobs' = jobs \ {c}
  /\ UNCHANGED <<cores, started, idle, queue, lock, run, call, pc, at, done, bounds>>
-----------------------------------------------------------------------------
(* VesPool_run on the calling thread, in program order. *)

(* VesPool_share for the vp_cores and vp_busy it read. *)
VesPool_share(k, busy) ==
  LET js == Greatest(busy, 1)
  IN  IF k <= 1 THEN 0 ELSE Greatest((k - js) \div js, 0)

(* Entry, and the unlocked read of vp_cores (kept in want).  n = 0 returns  *)
(* at once and changes nothing.                                             *)
Enter(c, w) ==
  /\ pc[c] = "out" /\ w.n > 0 /\ calls < MaxCalls
  /\ call' = [call EXCEPT ![c] = [n |-> w.n, chunk |-> Greatest(w.chunk, 1),
                                  max |-> w.max, want |-> cores]]
  /\ calls' = calls + 1
  /\ Goto(c, "share")
  /\ UNCHANGED <<shared, queue, lock, run, at, done, spurious>>

(* (size_t)want > chunks - 1: a negative want is a huge size_t.             *)
ExceedsAsSize(want, left) == want < 0 \/ want > left

(* The unlocked read of vp_busy, and want clipped to the share, to          *)
(* max_helpers and to the chunks the caller leaves over.                    *)
Share(c) ==
  LET chunks == (call[c].n + call[c].chunk - 1) \div call[c].chunk
      share  == VesPool_share(call[c].want, Cardinality(jobs))
      most   == Least(share, call[c].max)
      want   == IF ExceedsAsSize(most, chunks - 1) THEN chunks - 1 ELSE most
  IN  /\ pc[c] = "share"
      /\ call' = [call EXCEPT ![c].want = want]
      /\ Goto(c, IF want <= 0 THEN "serial" ELSE "borrow")
      /\ UNCHANGED <<shared, queue, lock, run, at, done, bounds>>

(* The first region under the lock, want clipped to the idle helpers: the   *)
(* first caller here creates the helpers, and vp_spawn may fail for any.    *)
Spawnable(S) == IF started = 1 THEN S = {} ELSE Cardinality(S) <= cores - 1
Grant(c, S) == Least(call[c].want, idle + Cardinality(S))

(* vp_wake_one for one seat, vp_wake_all for more. *)
Asleep == {h \in Helpers : pc[h] = "asleep"}
WakesOne(W, want) ==                     \* mutant: one helper woken for any run
  W \subseteq Asleep /\ Cardinality(W) = Least(1, Cardinality(Asleep))
Woken(W, want) ==
  W \subseteq Asleep /\ IF want = 1 THEN Cardinality(W) = Least(1, Cardinality(Asleep)) ELSE W = Asleep

BorrowNone(c, S) ==
  /\ pc[c] = "borrow" /\ lock = Nil /\ Spawnable(S)
  /\ Grant(c, S) <= 0
  /\ started' = 1 /\ idle' = idle + Cardinality(S)
  /\ pc' = [t \in Threads |-> IF t = c THEN "serial" ELSE IF t \in S THEN "locking" ELSE pc[t]]
  /\ UNCHANGED <<cores, jobs, queue, lock, run, call, at, done, bounds>>

Borrow(c, S, W) ==
  LET want == Grant(c, S)
  IN  /\ pc[c] = "borrow" /\ lock = Nil /\ Spawnable(S) /\ want > 0
      /\ started' = 1 /\ idle' = idle + Cardinality(S) - want
      /\ run' = [r \in Callers |->
                   IF r = c THEN [NoRun EXCEPT !.tickets = want]
                   ELSE IF r = tail THEN [run[r] EXCEPT !.link = c] ELSE run[r]]
      /\ head' = IF tail = Nil THEN c ELSE head
      /\ tail' = c
      /\ Woken(W, want)
      /\ pc' = [t \in Threads |-> IF t = c THEN "chunks"
                                  ELSE IF t \in S \cup W THEN "locking" ELSE pc[t]]
      /\ at' = [at EXCEPT ![c] = [run |-> c, slot |-> 0, lo |-> 0]]
      /\ UNCHANGED <<cores, jobs, lock, call, done, bounds>>

(* fn over the whole range on the caller alone, and its return. *)
Serial(c) ==
  /\ pc[c] = "serial"
  /\ done' = [done EXCEPT ![c] = 0 .. call[c].n - 1]
  /\ Goto(c, "served")
  /\ UNCHANGED <<shared, queue, lock, run, call, at, bounds>>

(* The last region under the lock begins: the seats nobody took go back to  *)
(* idle and the run leaves the queue, from wherever in it the walk finds it. *)
Queued(r) == run[r].tickets > 0
Before(c) == {p \in Callers : Queued(p) /\ run[p].link = c}

SeatsBorrowed(c) == run[c].tickets + run[c].joined     \* mutant: gives back seats taken too
SeatsLeft(c) == run[c].tickets

StaleTail(c) == tail                                   \* mutant: vp_tail is left alone
TailWithout(c) ==
  IF tail # c THEN tail ELSE IF head = c THEN Nil ELSE CHOOSE p \in Before(c) : TRUE

CancelSeats(c) ==
  /\ pc[c] = "finish" /\ lock = Nil
  /\ lock' = c
  /\ Goto(c, "drain")
  /\ IF Queued(c)
     THEN /\ idle' = idle + SeatsLeft(c)
          /\ run' = [r \in Callers |->
                       IF r = c THEN [run[r] EXCEPT !.tickets = 0]
                       ELSE IF r \in Before(c) THEN [run[r] EXCEPT !.link = run[c].link]
                       ELSE run[r]]
          /\ head' = IF head = c THEN run[c].link ELSE head
          /\ tail' = TailWithout(c)
     ELSE UNCHANGED <<idle, run, queue>>
  /\ UNCHANGED <<cores, jobs, started, call, at, done, bounds>>

NoSeatOpen(c) == run[c].tickets = 0      \* mutant: the wait for helpers that joined is gone
HelpersGone(c) == run[c].running = 0

AwaitHelpers(c) ==
  /\ pc[c] = "drain" /\ lock = c /\ ~HelpersGone(c)
  /\ lock' = Nil
  /\ Goto(c, "waiting")
  /\ UNCHANGED <<shared, queue, run, call, at, done, bounds>>

(* VesPool_run returns: its frame, the VpRun in it, is gone. *)
Return(c) ==
  /\ \/ pc[c] = "served" /\ UNCHANGED lock
     \/ pc[c] = "drain" /\ lock = c /\ HelpersGone(c) /\ lock' = Nil
  /\ run'  = [run EXCEPT ![c] = NoRun]
  /\ call' = [call EXCEPT ![c] = NoCall]
  /\ at'   = [at EXCEPT ![c] = NoSeat]
  /\ done' = [done EXCEPT ![c] = {}]
  /\ Goto(c, "out")
  /\ UNCHANGED <<shared, queue, bounds>>
-----------------------------------------------------------------------------
(* vp_chunks, on the caller and on every helper of its run. *)

Claim(t) ==
  LET r == at[t].run
      s == run[r].next
  IN  /\ pc[t] = "chunks"
      /\ run' = [run EXCEPT ![r].next = s + call[r].chunk]
      /\ \/ /\ s < call[r].n
            /\ at' = [at EXCEPT ![t].lo = s]
            /\ Goto(t, "call")
         \/ /\ s >= call[r].n
            /\ Goto(t, IF t \in Callers THEN "finish" ELSE "back")
            /\ UNCHANGED at
      /\ UNCHANGED <<shared, queue, lock, call, done, bounds>>

(* The indices of the chunk thread t runs: the last chunk is cut at n. *)
ChunkUncut(t) == at[t].lo .. at[t].lo + call[at[t].run].chunk - 1        \* mutant: not cut
Chunk(t) == LET r == at[t].run
            IN  at[t].lo .. Least(at[t].lo + call[r].chunk, call[r].n) - 1

FnReturns(t) ==
  /\ pc[t] = "call"
  /\ done' = [done EXCEPT ![at[t].run] = @ \cup Chunk(t)]
  /\ at' = [at EXCEPT ![t].lo = 0]
  /\ Goto(t, "chunks")
  /\ UNCHANGED <<shared, queue, lock, run, call, bounds>>
-----------------------------------------------------------------------------
(* vp_thread_main. *)

Lock(t) ==
  /\ pc[t] = "locking" /\ lock = Nil
  /\ lock' = t
  /\ Goto(t, IF t \in Callers THEN "drain" ELSE "look")
  /\ UNCHANGED <<shared, queue, run, call, at, done, bounds>>

Sleep(h) ==
  /\ pc[h] = "look" /\ lock = h /\ head = Nil
  /\ lock' = Nil
  /\ Goto(h, "asleep")
  /\ UNCHANGED <<shared, queue, run, call, at, done, bounds>>

SlotFromZero(r) == run[r].joined         \* mutant: the first helper gets the caller's slot
Slot(r) == 1 + run[r].joined

TakeSeat(h) ==
  LET r == head
      last == run[r].tickets = 1
  IN  /\ pc[h] = "look" /\ lock = h /\ head # Nil
      /\ run' = [run EXCEPT ![r].joined = @ + 1, ![r].running = @ + 1, ![r].tickets = @ - 1]
      /\ at' = [at EXCEPT ![h] = [run |-> r, slot |-> Slot(r), lo |-> 0]]
      /\ head' = IF last THEN run[r].link ELSE head
      /\ tail' = IF last /\ run[r].link = Nil THEN Nil ELSE tail
      /\ lock' = Nil
      /\ Goto(h, "chunks")
      /\ UNCHANGED <<shared, call, done, bounds>>

LastAlready(r) == run[r].running = 0     \* mutant: tested before the decrement
LastToLeave(r) == run[r].running = 1

LeaveSeat(h) ==
  LET r == at[h].run
      woken == {c \in Callers : pc[c] = "waiting" /\ LastToLeave(r)}
  IN  /\ pc[h] = "back" /\ lock = Nil
      /\ lock' = h
      /\ idle' = idle + 1
      /\ run' = [run EXCEPT ![r].running = @ - 1]
      /\ at' = [at EXCEPT ![h] = NoSeat]
      /\ pc' = [t \in Threads |-> IF t = h THEN "look" ELSE IF t \in woken THEN "locking" ELSE pc[t]]
      /\ UNCHANGED <<cores, jobs, started, queue, call, done, bounds>>

(* A condition wait may return without a wake. *)
SpuriousWake(t) ==
  /\ pc[t] \in {"asleep", "waiting"} /\ spurious < MaxSpurious
  /\ spurious' = spurious + 1
  /\ Goto(t, "locking")
  /\ UNCHANGED <<shared, queue, lock, run, call, at, done, calls>>
-----------------------------------------------------------------------------
BorrowStep(c) == \E S, W \in SUBSET Helpers : BorrowNone(c, S) \/ Borrow(c, S, W)

(* What a thread does once VesPool_run has been entered, or a helper made. *)
CallerStep(c) ==
  \/ Share(c) \/ BorrowStep(c) \/ Serial(c)
  \/ CancelSeats(c) \/ AwaitHelpers(c) \/ Return(c)
HelperStep(h) == Sleep(h) \/ TakeSeat(h) \/ LeaveSeat(h)
ChunkStep(t)  == Claim(t) \/ FnReturns(t) \/ Lock(t)

Next ==
  \/ \E k \in CoreSettings : VesPool_configure(k)
  \/ \E c \in Callers :
       VesPool_job_enter(c) \/ VesPool_job_leave(c) \/ CallerStep(c) \/ \E w \in Works : Enter(c, w)
  \/ \E h \in Helpers : HelperStep(h)
  \/ \E t \in Threads : ChunkStep(t) \/ SpuriousWake(t)

Spec == Init /\ [][Next]_vars

(* Every thread keeps running: the operating system schedules it and fn     *)
(* returns.  Weak fairness is enough for the mutex because the runs and the *)
(* spurious wakeups of a behaviour are bounded.                             *)
FairSpec ==
  /\ Spec
  /\ \A c \in Callers : WF_vars(CallerStep(c)) /\ WF_vars(ChunkStep(c))
  /\ \A h \in Helpers : WF_vars(HelperStep(h)) /\ WF_vars(ChunkStep(h))
-----------------------------------------------------------------------------
(* Properties. *)

VpRun     == [next : Nat, tickets : Nat, joined : Nat, running : Nat, link : Callers \cup {Nil}]
Arguments == [n : Nat, chunk : Nat \ {0}, max : Int, want : Int]
Seat      == [run : Callers \cup {Nil}, slot : Nat, lo : Nat]
CallerPlaces == {"out", "share", "borrow", "serial", "served", "chunks", "call",
                 "finish", "drain", "waiting", "locking"}
HelperPlaces == {"none", "locking", "look", "asleep", "chunks", "call", "back"}

TypeOK ==
  /\ cores \in Nat \ {0} /\ jobs \subseteq Callers
  /\ started \in {0, 1} /\ idle \in Nat
  /\ {head, tail} \subseteq Callers \cup {Nil} /\ lock \in Threads \cup {Nil}
  /\ run \in [Callers -> VpRun] /\ call \in [Callers -> Arguments]
  /\ pc \in [Threads -> CallerPlaces \cup HelperPlaces] /\ at \in [Threads -> Seat]
  /\ done \in [Callers -> SUBSET Nat]
  /\ calls \in Nat /\ spurious \in Nat

(* The VpRun of c exists: c is between the memset of its frame and return.  *)
Live(c) == pc[c] \in {"chunks", "call", "finish", "drain", "waiting", "locking"}
Seated(h) == pc[h] \in {"chunks", "call", "back"}

(* No stack frame is used after its return: the queue's ends, the links of  *)
(* queued runs and the run every helper works on are frames of callers still *)
(* inside VesPool_run (ves_pool.c keeps VpRun on the caller's stack).        *)
FramesOutliveUses ==
  /\ \A h \in Helpers : Seated(h) => at[h].run \in Callers /\ Live(at[h].run)
  /\ \A c \in Callers : c \in {head, tail} => Live(c) /\ Queued(c)
  /\ \A c \in Callers : Queued(c) => Live(c) /\ (run[c].link # Nil => Queued(run[c].link))

(* vp_head, vp_tail and the links spell one list of the runs with seats left, *)
(* under some arrival order: head is its first run, tail its last, and each   *)
(* link is the next; removing a run from any place keeps it so.               *)
Waiting == {c \in Callers : Queued(c)}
Links   == [c \in Callers |-> run[c].link]
InOrder(Q, before, hd, tl, link) ==
  /\ \A x, y, z \in Q : <<x, y>> \in before /\ <<y, z>> \in before => <<x, z>> \in before
  /\ \A x, y \in Q : x # y => (<<x, y>> \in before <=> <<y, x>> \notin before)
  /\ \A x \in Q : <<x, x>> \notin before
  /\ IF Q = {} THEN hd = Nil /\ tl = Nil ELSE {hd, tl} \subseteq Q
  /\ \A x \in Q : <<x, hd>> \notin before /\ <<tl, x>> \notin before
  /\ \A x \in Q : IF x = tl THEN link[x] = Nil
                  ELSE /\ link[x] \in Q /\ <<x, link[x]>> \in before
                       /\ \A y \in Q : <<x, y>> \in before => <<y, link[x]>> \notin before
  /\ \A x \in Q \ {hd} : \E y \in Q : link[y] = x
ListOf(Q, hd, tl, link) == \E before \in SUBSET (Q \X Q) : InOrder(Q, before, hd, tl, link)
QueueIsList == ListOf(Waiting, head, tail, Links)

(* fn is never run twice on an index: the chunks being run are disjoint from *)
(* each other and from the indices fn has returned from, on every run.       *)
InCall(t, c) == pc[t] = "call" /\ at[t].run = c
ChunksDisjoint ==
  \A c \in Callers, t \in Threads : InCall(t, c) =>
    /\ Chunk(t) \cap done[c] = {}
    /\ \A u \in Threads : InCall(u, c) /\ u # t => Chunk(t) \cap Chunk(u) = {}

(* When VesPool_run is about to return, fn has returned from every index and *)
(* no thread is in fn for it (ves_pool.h:9-10).                              *)
ReturnsWhenDone ==
  \A c \in Callers : pc[c] = "served" \/ (pc[c] = "drain" /\ HelpersGone(c)) =>
    /\ done[c] = 0 .. call[c].n - 1
    /\ \A t \in Threads : ~InCall(t, c)

(* Two threads on one run never have one slot, and a slot is less than the   *)
(* 1 + max_helpers buffers the caller made (asm_contacts.c:922-930), unless  *)
(* max_helpers is negative: ves_pool.c:130 makes that as many helpers as     *)
(* there are chunks left over.                                               *)
SlotsPrivate ==
  \A t, u \in Threads : pc[t] \in {"chunks", "call"} /\ pc[u] \in {"chunks", "call"}
                        /\ at[t].run = at[u].run =>
    /\ call[at[t].run].max >= 0 => at[t].slot <= call[at[t].run].max
    /\ t # u => at[t].slot # at[u].slot
(* The seats of queued runs nobody has taken yet; the helpers serving no    *)
(* run, and those of them that will look at the queue before they sleep.    *)
OpenSeats == UNION {{c} \X (1 .. run[c].tickets) : c \in Callers}
Unseated  == {h \in Helpers : pc[h] # "none" /\ ~Seated(h)}
Awake     == {h \in Unseated : pc[h] # "asleep"}

(* No helper seat is lost or lent twice (ves_pool.c:142-157, 93): idle and  *)
(* the seats still open are together the helpers serving nobody, so when    *)
(* every run has returned each helper is idle again (selftest 4).           *)
SeatsConserved == idle + Cardinality(OpenSeats) = Cardinality(Unseated)

(* No wakeup is lost: for every open seat there is a helper awake that will *)
(* look at the queue, though a run of one seat wakes only one helper.       *)
NoSeatSleeps == Cardinality(OpenSeats) <= Cardinality(Awake)
=============================================================================
