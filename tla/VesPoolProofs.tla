---------------------------- MODULE VesPoolProofs ----------------------------
(***************************************************************************)
(* Proofs that the pool of VesPool keeps its inductive invariant, and what *)
(* follows from it, for any callers, helpers, configurations and ranges;   *)
(* that it keeps the balance of its seats; and that it implements the      *)
(* parallel loop of ParallelFor.                                           *)
(***************************************************************************)
EXTENDS VesPoolLoop, FiniteSetTheorems, TLAPS

LEMMA FiniteHelpers ==
  ASSUME NEW S \in SUBSET Helpers
  PROVE  IsFiniteSet(S) /\ Cardinality(S) \in Nat
BY FS_Subset, FS_CardinalityType, PoolAssumption

(* What the invariant says where an action uses it. *)

LEMMA HeadQueued ==
  ASSUME FramesOutliveUses, head \in Callers
  PROVE  Live(head) /\ Queued(head)
BY DEF FramesOutliveUses, Live, Queued

LEMMA ServesLive ==
  ASSUME Places, Frames, NEW t \in Threads, pc[t] \in {"chunks", "call", "back"}
  PROVE  at[t].run \in Callers /\ Live(at[t].run)
BY DEF Places, CallerPlaces, Frames, Threads, Seated, Live

LEMMA RunningPositive ==
  ASSUME RunningCounts, Frames, NEW h \in Helpers, Seated(h)
  PROVE  at[h].run \in Callers /\ run[at[h].run].running \in Nat \ {0}
<1>1. at[h].run \in Callers /\ h \in SeatedAt(at[h].run)
  BY DEF Frames, SeatedAt
<1>2. SeatedAt(at[h].run) \in SUBSET Helpers
  BY DEF SeatedAt
<1>3. Cardinality(SeatedAt(at[h].run)) \in Nat \ {0}
  BY <1>1, <1>2, FiniteHelpers, FS_EmptySet
<1> QED BY <1>1, <1>3 DEF RunningCounts

LEMMA NoHelperLeft ==
  ASSUME RunningCounts, NEW c \in Callers, HelpersGone(c),
         NEW h \in Helpers, Seated(h)
  PROVE  at[h].run # c
<1>1. SeatedAt(c) \in SUBSET Helpers /\ Cardinality(SeatedAt(c)) = 0
  BY DEF RunningCounts, HelpersGone, SeatedAt
<1>2. SeatedAt(c) = {}
  BY <1>1, FiniteHelpers, FS_EmptySet
<1> QED BY <1>2 DEF SeatedAt

LEMMA LastHasPredecessor ==
  ASSUME QueueIsList, NEW c \in Callers, Queued(c), head # c
  PROVE  Before(c) # {}
<1>1. c \in Waiting /\ c # head
  BY DEF Waiting
<1>2. PICK x \in Waiting : Links[x] = c
  BY <1>1 DEF QueueIsList, ListOf, InOrder
<1>3. x \in Before(c)
  BY <1>2 DEF Waiting, Before, Links
<1> QED BY <1>3

LEMMA InitType == Init => TypeOK
<1> SUFFICES ASSUME Init PROVE TypeOK
  OBVIOUS
<1>1. NoRun \in VpRun /\ NoCall \in Arguments /\ NoSeat \in Seat
  BY DEF NoRun, VpRun, NoCall, Arguments, NoSeat, Seat
<1>2. pc \in [Threads -> CallerPlaces \cup HelperPlaces]
  BY DEF Init, CallerPlaces, HelperPlaces
<1>3. run \in [Callers -> VpRun] /\ call \in [Callers -> Arguments] /\ at \in [Threads -> Seat]
  BY <1>1 DEF Init
<1>4. done \in [Callers -> SUBSET Nat]
  BY DEF Init
<1>5. cores \in Nat \ {0} /\ jobs \subseteq Callers /\ idle \in Nat /\ calls \in Nat /\ spurious \in Nat
  BY DEF Init
<1>6. {head, tail} \subseteq Callers \cup {Nil} /\ lock \in Threads \cup {Nil} /\ started \in {0, 1}
  BY DEF Init
<1> QED BY <1>2, <1>3, <1>4, <1>5, <1>6 DEF TypeOK

LEMMA NextType ==
  ASSUME IInv, Next
  PROVE  TypeOK'
<1> USE PoolAssumption DEF TypeOK, Threads
<1>a. TypeOK /\ Places /\ Frames /\ FramesOutliveUses /\ RunningCounts
  BY DEF IInv
<1> USE <1>a
<1>0. ASSUME NEW t \in Threads, NEW to \in CallerPlaces \cup HelperPlaces, Goto(t, to)
      PROVE  pc' \in [Threads -> CallerPlaces \cup HelperPlaces]
  BY <1>0 DEF Goto
<1>1. ASSUME NEW k \in CoreSettings, VesPool_configure(k) PROVE TypeOK'
  BY <1>1 DEF VesPool_configure, Greatest, queue, bounds
<1>2. ASSUME NEW c \in Callers, VesPool_job_enter(c) \/ VesPool_job_leave(c) PROVE TypeOK'
  BY <1>2 DEF VesPool_job_enter, VesPool_job_leave, queue, bounds
<1>3. ASSUME NEW c \in Callers, NEW w \in Works, Enter(c, w) PROVE TypeOK'
  <2>1. [n |-> w.n, chunk |-> Greatest(w.chunk, 1), max |-> w.max, want |-> cores] \in Arguments
    BY DEF Greatest, Arguments
  <2>2. Goto(c, "share") /\ "share" \in CallerPlaces
    BY <1>3 DEF Enter, CallerPlaces
  <2> QED BY <1>3, <1>0, <2>1, <2>2 DEF Enter, shared, queue
<1>4. ASSUME NEW c \in Callers, Share(c) PROVE TypeOK'
  <2>1. Cardinality(jobs) \in Nat
    BY FS_Subset, FS_CardinalityType
  <2>2. ASSUME NEW k \in Int, NEW b \in Nat PROVE VesPool_share(k, b) \in Int
    BY DEF VesPool_share, Greatest
  <2>3. call[c].n \in Nat /\ call[c].chunk \in Nat \ {0} /\ call[c].max \in Int /\ call[c].want \in Int
    BY DEF Arguments
  <2>4. (call[c].n + call[c].chunk - 1) \div call[c].chunk \in Int
    BY <2>3
  <2>5. PICK want \in Int : call' = [call EXCEPT ![c].want = want]
    <3> DEFINE chunks == (call[c].n + call[c].chunk - 1) \div call[c].chunk
               share  == VesPool_share(call[c].want, Cardinality(jobs))
               most   == Least(share, call[c].max)
               want   == IF ExceedsAsSize(most, chunks - 1) THEN chunks - 1 ELSE most
    <3>1. chunks \in Int /\ share \in Int
      BY <2>1, <2>2, <2>3, <2>4
    <3>2. want \in Int
      <4> HIDE DEF chunks, share
      <4> QED BY <2>3, <3>1 DEF Least, ExceedsAsSize
    <3>3. call' = [call EXCEPT ![c].want = want]
      BY <1>4 DEF Share
    <3> HIDE DEF want
    <3> QED BY <3>2, <3>3
  <2>6. call' \in [Callers -> Arguments]
    BY <2>5 DEF Arguments
  <2>7. {"serial", "borrow"} \subseteq CallerPlaces
    BY DEF CallerPlaces
  <2> QED BY <1>4, <1>0, <2>6, <2>7 DEF Share, shared, queue, bounds
<1>5. ASSUME NEW c \in Callers, NEW S \in SUBSET Helpers, BorrowNone(c, S) PROVE TypeOK'
  <2>1. {"serial", "locking"} \subseteq CallerPlaces
    BY DEF CallerPlaces
  <2> QED BY <1>5, <2>1, FiniteHelpers DEF BorrowNone, queue, bounds
<1>6. ASSUME NEW c \in Callers, NEW S \in SUBSET Helpers, NEW W \in SUBSET Helpers, Borrow(c, S, W)
      PROVE  TypeOK'
  <2>1. Cardinality(S) \in Nat
    BY FiniteHelpers
  <2>2. Grant(c, S) \in Nat /\ Grant(c, S) <= idle + Cardinality(S)
    BY <1>6, <2>1 DEF Borrow, Grant, Least, Arguments
  <2>3. run' \in [Callers -> VpRun]
    BY <1>6, <2>2 DEF Borrow, NoRun, VpRun
  <2>4. at' \in [Threads -> Seat]
    BY <1>6 DEF Borrow, Seat
  <2>5. {"chunks", "locking"} \subseteq CallerPlaces
    BY DEF CallerPlaces
  <2> QED BY <1>6, <2>1, <2>2, <2>3, <2>4, <2>5 DEF Borrow, bounds
<1>7. ASSUME NEW c \in Callers, Serial(c) PROVE TypeOK'
  <2>1. "served" \in CallerPlaces
    BY DEF CallerPlaces
  <2>2. done' \in [Callers -> SUBSET Nat]
    BY <1>7 DEF Serial, Arguments
  <2> QED BY <1>7, <1>0, <2>1, <2>2 DEF Serial, shared, queue, bounds
<1>8. ASSUME NEW c \in Callers, CancelSeats(c) PROVE TypeOK'
  <2>1. "drain" \in CallerPlaces
    BY DEF CallerPlaces
  <2>2. run' \in [Callers -> VpRun] /\ idle' \in Nat
    BY <1>8 DEF CancelSeats, SeatsLeft, VpRun
  <2>3. {head', tail'} \subseteq Callers \cup {Nil}
    <3>1. CASE ~Queued(c)
      BY <1>8, <3>1 DEF CancelSeats, queue
    <3>2. CASE Queued(c) /\ (tail # c \/ head = c)
      BY <1>8, <3>2 DEF CancelSeats, TailWithout, VpRun
    <3>3. CASE Queued(c) /\ tail = c /\ head # c
      <4>1. Before(c) # {}
        BY <1>8, <3>3, LastHasPredecessor DEF IInv
      <4>2. tail' \in Before(c) /\ head' = head
        BY <1>8, <3>3, <4>1 DEF CancelSeats, TailWithout
      <4> QED BY <4>2 DEF Before
    <3> QED BY <3>1, <3>2, <3>3
  <2> QED BY <1>8, <1>0, <2>1, <2>2, <2>3 DEF CancelSeats, bounds
<1>9. ASSUME NEW c \in Callers, AwaitHelpers(c) PROVE TypeOK'
  <2>1. "waiting" \in CallerPlaces
    BY DEF CallerPlaces
  <2> QED BY <1>9, <1>0, <2>1 DEF AwaitHelpers, shared, queue, bounds
<1>10. ASSUME NEW c \in Callers, Return(c) PROVE TypeOK'
  <2>1. NoRun \in VpRun /\ NoCall \in Arguments /\ NoSeat \in Seat
    BY DEF NoRun, VpRun, NoCall, Arguments, NoSeat, Seat
  <2>2. "out" \in CallerPlaces
    BY DEF CallerPlaces
  <2> QED BY <1>10, <1>0, <2>1, <2>2 DEF Return, shared, queue, bounds
<1>11. ASSUME NEW t \in Threads, Claim(t) PROVE TypeOK'
  <2>1. {"call", "finish", "back"} \subseteq CallerPlaces \cup HelperPlaces
    BY DEF CallerPlaces, HelperPlaces
  <2>2. run' \in [Callers -> VpRun]
    <3>1. at[t].run \in Callers
      BY <1>11, ServesLive DEF Claim
    <3>2. run[at[t].run].next + call[at[t].run].chunk \in Nat
      BY <3>1 DEF VpRun, Arguments
    <3>3. run' = [run EXCEPT ![at[t].run].next = run[at[t].run].next + call[at[t].run].chunk]
      BY <1>11 DEF Claim
    <3> QED BY <3>1, <3>2, <3>3 DEF VpRun
  <2>3. at' \in [Threads -> Seat]
    <3>1. at[t].run \in Callers
      BY <1>11, ServesLive DEF Claim
    <3>2. run[at[t].run].next \in Nat
      BY <3>1 DEF VpRun
    <3>3. at' = at \/ at' = [at EXCEPT ![t].lo = run[at[t].run].next]
      BY <1>11 DEF Claim
    <3> QED BY <3>2, <3>3 DEF Seat
  <2> QED BY <1>11, <1>0, <2>1, <2>2, <2>3 DEF Claim, shared, queue, bounds
<1>12. ASSUME NEW t \in Threads, FnReturns(t) PROVE TypeOK'
  <2>1. "chunks" \in CallerPlaces
    BY DEF CallerPlaces
  <2>2. at' \in [Threads -> Seat] /\ Chunk(t) \subseteq Nat
    BY <1>12 DEF FnReturns, Seat, Chunk
  <2> QED BY <1>12, <1>0, <2>1, <2>2 DEF FnReturns, shared, queue, bounds
<1>13. ASSUME NEW t \in Threads, Lock(t) \/ SpuriousWake(t) PROVE TypeOK'
  <2>1. {"drain", "look", "locking"} \subseteq CallerPlaces \cup HelperPlaces
    BY DEF CallerPlaces, HelperPlaces
  <2> QED BY <1>13, <1>0, <2>1 DEF Lock, SpuriousWake, shared, queue, bounds
<1>14. ASSUME NEW h \in Helpers, Sleep(h) PROVE TypeOK'
  <2>1. "asleep" \in HelperPlaces
    BY DEF HelperPlaces
  <2> QED BY <1>14, <1>0, <2>1 DEF Sleep, shared, queue, bounds
<1>15. ASSUME NEW h \in Helpers, TakeSeat(h) PROVE TypeOK'
  <2>1. "chunks" \in HelperPlaces
    BY DEF HelperPlaces
  <2>2. run' \in [Callers -> VpRun]
    BY <1>15, HeadQueued DEF TakeSeat, VpRun, Queued
  <2>3. at' \in [Threads -> Seat] /\ head' \in Callers \cup {Nil}
    BY <1>15, HeadQueued DEF TakeSeat, Slot, VpRun, Seat
  <2> QED BY <1>15, <1>0, <2>1, <2>2, <2>3 DEF TakeSeat, shared, bounds
<1>16. ASSUME NEW h \in Helpers, LeaveSeat(h) PROVE TypeOK'
  <2>1. {"look", "locking"} \subseteq HelperPlaces
    BY DEF HelperPlaces
  <2>2. run' \in [Callers -> VpRun]
    <3>1. at[h].run \in Callers /\ run[at[h].run].running - 1 \in Nat
      BY <1>16, RunningPositive DEF LeaveSeat, Seated
    <3>2. run' = [run EXCEPT ![at[h].run].running = run[at[h].run].running - 1]
      BY <1>16 DEF LeaveSeat
    <3> QED BY <3>1, <3>2 DEF VpRun
  <2>3. at' \in [Threads -> Seat]
    BY <1>16 DEF LeaveSeat, NoSeat, Seat
  <2> QED BY <1>16, <2>1, <2>2, <2>3 DEF LeaveSeat, queue, bounds
<1> QED
  BY <1>1, <1>2, <1>3, <1>4, <1>5, <1>6, <1>7, <1>8, <1>9, <1>10, <1>11, <1>12, <1>13,
     <1>14, <1>15, <1>16
  DEF Next, CallerStep, HelperStep, ChunkStep, BorrowStep
-----------------------------------------------------------------------------
LEMMA NextPlaces ==
  ASSUME IInv, Next
  PROVE  Places'
<1> USE PoolAssumption DEF Places, CallerPlaces, HelperPlaces, Threads, Goto, shared
<1>a. pc \in [Threads -> CallerPlaces \cup HelperPlaces] /\ Places /\ lock \in Threads \cup {Nil}
  BY DEF IInv, TypeOK
<1> USE <1>a
<1>1. ASSUME NEW k \in CoreSettings, VesPool_configure(k) PROVE Places'
  BY <1>1 DEF VesPool_configure
<1>2. ASSUME NEW c \in Callers, VesPool_job_enter(c) \/ VesPool_job_leave(c) PROVE Places'
  BY <1>2 DEF VesPool_job_enter, VesPool_job_leave
<1>3. ASSUME NEW c \in Callers, NEW w \in Works, Enter(c, w) PROVE Places'
  BY <1>3 DEF Enter
<1>4. ASSUME NEW c \in Callers, Share(c) PROVE Places'
  BY <1>4 DEF Share
<1>5. ASSUME NEW c \in Callers, NEW S \in SUBSET Helpers, BorrowNone(c, S) PROVE Places'
  BY <1>5 DEF BorrowNone
<1>6. ASSUME NEW c \in Callers, NEW S \in SUBSET Helpers, NEW W \in SUBSET Helpers, Borrow(c, S, W)
      PROVE  Places'
  BY <1>6 DEF Borrow
<1>7. ASSUME NEW c \in Callers, Serial(c) PROVE Places'
  BY <1>7 DEF Serial
<1>8. ASSUME NEW c \in Callers, CancelSeats(c) PROVE Places'
  BY <1>8 DEF CancelSeats
<1>9. ASSUME NEW c \in Callers, AwaitHelpers(c) PROVE Places'
  BY <1>9 DEF AwaitHelpers
<1>10. ASSUME NEW c \in Callers, Return(c) PROVE Places'
  BY <1>10 DEF Return
<1>11. ASSUME NEW t \in Threads, Claim(t) PROVE Places'
  BY <1>11 DEF Claim
<1>12. ASSUME NEW t \in Threads, FnReturns(t) PROVE Places'
  BY <1>12 DEF FnReturns
<1>13. ASSUME NEW t \in Threads, Lock(t) \/ SpuriousWake(t) PROVE Places'
  BY <1>13 DEF Lock, SpuriousWake
<1>14. ASSUME NEW h \in Helpers, Sleep(h) PROVE Places'
  BY <1>14 DEF Sleep
<1>15. ASSUME NEW h \in Helpers, TakeSeat(h) PROVE Places'
  BY <1>15 DEF TakeSeat
<1>16. ASSUME NEW h \in Helpers, LeaveSeat(h) PROVE Places'
  BY <1>16 DEF LeaveSeat
<1> QED
  BY <1>1, <1>2, <1>3, <1>4, <1>5, <1>6, <1>7, <1>8, <1>9, <1>10, <1>11, <1>12, <1>13,
     <1>14, <1>15, <1>16
  DEF Next, CallerStep, HelperStep, ChunkStep, BorrowStep
-----------------------------------------------------------------------------
LEMMA NextFrames ==
  ASSUME IInv, Next
  PROVE  Frames'
<1> USE PoolAssumption DEF Frames, Live, Seated, Threads, Goto, TypeOK, Places, CallerPlaces, HelperPlaces, shared
<1>a. TypeOK /\ Places /\ Frames /\ FramesOutliveUses /\ RunningCounts
  BY DEF IInv
<1> USE <1>a
<1>1. ASSUME NEW k \in CoreSettings, VesPool_configure(k) PROVE Frames'
  BY <1>1 DEF VesPool_configure
<1>2. ASSUME NEW c \in Callers, VesPool_job_enter(c) \/ VesPool_job_leave(c) PROVE Frames'
  BY <1>2 DEF VesPool_job_enter, VesPool_job_leave
<1>3. ASSUME NEW c \in Callers, NEW w \in Works, Enter(c, w) PROVE Frames'
  BY <1>3 DEF Enter
<1>4. ASSUME NEW c \in Callers, Share(c) PROVE Frames'
  BY <1>4 DEF Share
<1>5. ASSUME NEW c \in Callers, NEW S \in SUBSET Helpers, BorrowNone(c, S) PROVE Frames'
  BY <1>5 DEF BorrowNone, Spawnable
<1>6. ASSUME NEW c \in Callers, NEW S \in SUBSET Helpers, NEW W \in SUBSET Helpers, Borrow(c, S, W)
      PROVE  Frames'
  <2>1. ~Live(c) /\ (tail \in Callers => Live(tail)) /\ c # tail
    BY <1>6 DEF Borrow, FramesOutliveUses
  <2>2. ASSUME NEW d \in Callers, d # c
        PROVE  /\ Live(d)' <=> Live(d)
               /\ at'[d] = at[d]
               /\ ~Live(d) => run'[d] = run[d]
    BY <1>6, <2>1, <2>2 DEF Borrow, Spawnable
  <2>3. Live(c)' /\ at'[c].run = c /\ at'[c].slot = 0
    BY <1>6 DEF Borrow
  <2>4. ASSUME NEW h \in Helpers
        PROVE  (Seated(h)' <=> Seated(h)) /\ at'[h] = at[h]
    BY <1>6, <2>4 DEF Borrow, Spawnable, Woken, Asleep
  <2>5. ASSUME NEW d \in Callers
        PROVE  (IF Live(d) THEN at[d].run = d /\ at[d].slot = 0 ELSE run[d] = NoRun)'
    <3> HIDE DEF Live, NoRun
    <3> QED BY <2>2, <2>3
  <2>6. ASSUME NEW h \in Helpers
        PROVE  (IF Seated(h) THEN at[h].run \in Callers /\ Live(at[h].run) ELSE at[h] = NoSeat)'
    <3> HIDE DEF Live, Seated
    <3> QED BY <2>1, <2>2, <2>4
  <2> QED BY <2>5, <2>6
<1>7. ASSUME NEW c \in Callers, Serial(c) PROVE Frames'
  BY <1>7 DEF Serial
<1>8. ASSUME NEW c \in Callers, CancelSeats(c) PROVE Frames'
  <2>1. ASSUME NEW d \in Callers, ~Live(d)
        PROVE  run'[d] = run[d]
    <3>1. d # c /\ d \notin Before(c)
      BY <1>8, <2>1 DEF CancelSeats, Before, FramesOutliveUses
    <3> QED BY <1>8, <3>1 DEF CancelSeats
  <2>2. ASSUME NEW d \in Callers PROVE Live(d)' <=> Live(d)
    BY <1>8 DEF CancelSeats
  <2>3. ASSUME NEW h \in Helpers PROVE Seated(h)' <=> Seated(h)
    BY <1>8 DEF CancelSeats
  <2>4. at' = at
    BY <1>8 DEF CancelSeats
  <2> HIDE DEF Live, Seated, NoRun, NoSeat
  <2> QED BY <2>1, <2>2, <2>3, <2>4
<1>9. ASSUME NEW c \in Callers, AwaitHelpers(c) PROVE Frames'
  BY <1>9 DEF AwaitHelpers
<1>10. ASSUME NEW c \in Callers, Return(c) PROVE Frames'
  <2>1. ~Live(c)' /\ run'[c] = NoRun
    BY <1>10 DEF Return
  <2>2. ASSUME NEW d \in Callers, d # c
        PROVE  (Live(d)' <=> Live(d)) /\ run'[d] = run[d] /\ at'[d] = at[d]
    BY <1>10, <2>2 DEF Return
  <2>3. ASSUME NEW h \in Helpers
        PROVE  /\ (Seated(h)' <=> Seated(h)) /\ at'[h] = at[h]
               /\ Seated(h) => at[h].run # c
    <3>1. (Seated(h)' <=> Seated(h)) /\ at'[h] = at[h]
      BY <1>10 DEF Return
    <3>2. CASE pc[c] = "served"
      BY <3>1, <3>2
    <3>3. CASE HelpersGone(c)
      <4> HIDE DEF Seated
      <4> QED BY <3>1, <3>3, NoHelperLeft
    <3> QED BY <1>10, <3>1, <3>2, <3>3 DEF Return
  <2> HIDE DEF Live, Seated, NoRun
  <2> QED BY <2>1, <2>2, <2>3
<1>11. ASSUME NEW t \in Threads, Claim(t) PROVE Frames'
  <2>1. at[t].run \in Callers /\ Live(at[t].run)
    BY <1>11, ServesLive DEF Claim
  <2>2. ASSUME NEW d \in Callers
        PROVE  (Live(d)' <=> Live(d)) /\ (~Live(d) => run'[d] = run[d])
    BY <1>11, <2>1 DEF Claim
  <2>3. ASSUME NEW u \in Threads
        PROVE  at'[u].run = at[u].run /\ at'[u].slot = at[u].slot /\ (u # t => at'[u] = at[u])
    BY <1>11 DEF Claim, Seat
  <2>4. ASSUME NEW h \in Helpers
        PROVE  (Seated(h)' <=> Seated(h)) /\ (h = t => Seated(h))
    BY <1>11 DEF Claim
  <2> HIDE DEF Live, Seated
  <2> QED BY <2>1, <2>2, <2>3, <2>4
<1>12. ASSUME NEW t \in Threads, FnReturns(t) PROVE Frames'
  BY <1>12 DEF FnReturns
<1>13. ASSUME NEW t \in Threads, Lock(t) \/ SpuriousWake(t) PROVE Frames'
  BY <1>13 DEF Lock, SpuriousWake
<1>14. ASSUME NEW h \in Helpers, Sleep(h) PROVE Frames'
  BY <1>14 DEF Sleep
<1>15. ASSUME NEW h \in Helpers, TakeSeat(h) PROVE Frames'
  <2>1. head \in Callers /\ Live(head)
    BY <1>15, HeadQueued DEF TakeSeat
  <2>2. ASSUME NEW d \in Callers
        PROVE  (Live(d)' <=> Live(d)) /\ (~Live(d) => run'[d] = run[d]) /\ at'[d] = at[d]
    BY <1>15, <2>1 DEF TakeSeat
  <2>3. Seated(h)' /\ at'[h].run = head
    BY <1>15 DEF TakeSeat
  <2>4. ASSUME NEW g \in Helpers, g # h
        PROVE  (Seated(g)' <=> Seated(g)) /\ at'[g] = at[g]
    BY <1>15, <2>4 DEF TakeSeat
  <2> HIDE DEF Live, Seated
  <2> QED BY <2>1, <2>2, <2>3, <2>4
<1>16. ASSUME NEW h \in Helpers, LeaveSeat(h) PROVE Frames'
  BY <1>16 DEF LeaveSeat
<1> QED
  BY <1>1, <1>2, <1>3, <1>4, <1>5, <1>6, <1>7, <1>8, <1>9, <1>10, <1>11, <1>12, <1>13,
     <1>14, <1>15, <1>16
  DEF Next, CallerStep, HelperStep, ChunkStep, BorrowStep
-----------------------------------------------------------------------------
LEMMA NextRunning ==
  ASSUME IInv, Next
  PROVE  RunningCounts'
<1> USE PoolAssumption DEF TypeOK, Threads, Goto, Places, CallerPlaces, HelperPlaces, shared
<1>a. TypeOK /\ Places /\ Frames /\ FramesOutliveUses /\ RunningCounts
  BY DEF IInv
<1> USE <1>a
<1>0. ASSUME \A d \in Callers : run'[d].running = run[d].running,
             \A g \in Helpers : (Seated(g)' <=> Seated(g)) /\ (Seated(g) => at'[g].run = at[g].run)
      PROVE  RunningCounts'
  <2>1. ASSUME NEW d \in Callers PROVE SeatedAt(d)' = SeatedAt(d)
    BY <1>0 DEF SeatedAt
  <2> QED BY <1>0, <2>1 DEF RunningCounts
<1>1. ASSUME NEW k \in CoreSettings, VesPool_configure(k) PROVE RunningCounts'
  <2>1. \A d \in Callers : run'[d].running = run[d].running
    BY <1>1 DEF VesPool_configure
  <2>2. \A g \in Helpers : (Seated(g)' <=> Seated(g)) /\ (Seated(g) => at'[g].run = at[g].run)
    BY <1>1 DEF VesPool_configure, Seated
  <2> QED BY <1>0, <2>1, <2>2
<1>2. ASSUME NEW c \in Callers, VesPool_job_enter(c) \/ VesPool_job_leave(c) PROVE RunningCounts'
  <2>1. \A d \in Callers : run'[d].running = run[d].running
    BY <1>2 DEF VesPool_job_enter, VesPool_job_leave
  <2>2. \A g \in Helpers : (Seated(g)' <=> Seated(g)) /\ (Seated(g) => at'[g].run = at[g].run)
    BY <1>2 DEF VesPool_job_enter, VesPool_job_leave, Seated
  <2> QED BY <1>0, <2>1, <2>2
<1>3. ASSUME NEW c \in Callers, NEW w \in Works, Enter(c, w) PROVE RunningCounts'
  <2>1. \A d \in Callers : run'[d].running = run[d].running
    BY <1>3 DEF Enter
  <2>2. \A g \in Helpers : (Seated(g)' <=> Seated(g)) /\ (Seated(g) => at'[g].run = at[g].run)
    BY <1>3 DEF Enter, Seated
  <2> QED BY <1>0, <2>1, <2>2
<1>4. ASSUME NEW c \in Callers, Share(c) PROVE RunningCounts'
  <2>1. \A d \in Callers : run'[d].running = run[d].running
    BY <1>4 DEF Share
  <2>2. \A g \in Helpers : (Seated(g)' <=> Seated(g)) /\ (Seated(g) => at'[g].run = at[g].run)
    BY <1>4 DEF Share, Seated
  <2> QED BY <1>0, <2>1, <2>2
<1>5. ASSUME NEW c \in Callers, NEW S \in SUBSET Helpers, BorrowNone(c, S) PROVE RunningCounts'
  <2>1. \A d \in Callers : run'[d].running = run[d].running
    BY <1>5 DEF BorrowNone, Spawnable
  <2>2. \A g \in Helpers : (Seated(g)' <=> Seated(g)) /\ (Seated(g) => at'[g].run = at[g].run)
    BY <1>5 DEF BorrowNone, Spawnable, Seated
  <2> QED BY <1>0, <2>1, <2>2
<1>6. ASSUME NEW c \in Callers, NEW S \in SUBSET Helpers, NEW W \in SUBSET Helpers, Borrow(c, S, W)
      PROVE  RunningCounts'
  <2>1. c # tail /\ ~Live(c)
    BY <1>6 DEF Borrow, FramesOutliveUses, Live
  <2>2. \A d \in Callers : run'[d].running = IF d = c THEN 0 ELSE run[d].running
    BY <1>6, <2>1 DEF Borrow, NoRun, VpRun
  <2>3. run[c].running = 0
    BY <2>1 DEF Frames, NoRun
  <2>4. \A g \in Helpers : (Seated(g)' <=> Seated(g)) /\ (Seated(g) => at'[g].run = at[g].run)
    BY <1>6 DEF Borrow, Spawnable, Woken, Asleep, Seated
  <2> QED BY <1>0, <2>2, <2>3, <2>4
<1>7. ASSUME NEW c \in Callers, Serial(c) PROVE RunningCounts'
  <2>1. \A d \in Callers : run'[d].running = run[d].running
    BY <1>7 DEF Serial
  <2>2. \A g \in Helpers : (Seated(g)' <=> Seated(g)) /\ (Seated(g) => at'[g].run = at[g].run)
    BY <1>7 DEF Serial, Seated
  <2> QED BY <1>0, <2>1, <2>2
<1>8. ASSUME NEW c \in Callers, CancelSeats(c) PROVE RunningCounts'
  <2>1. \A d \in Callers : run'[d].running = run[d].running
    BY <1>8 DEF CancelSeats, VpRun
  <2>2. \A g \in Helpers : (Seated(g)' <=> Seated(g)) /\ (Seated(g) => at'[g].run = at[g].run)
    BY <1>8 DEF CancelSeats, Seated
  <2> QED BY <1>0, <2>1, <2>2
<1>9. ASSUME NEW c \in Callers, AwaitHelpers(c) PROVE RunningCounts'
  <2>1. \A d \in Callers : run'[d].running = run[d].running
    BY <1>9 DEF AwaitHelpers
  <2>2. \A g \in Helpers : (Seated(g)' <=> Seated(g)) /\ (Seated(g) => at'[g].run = at[g].run)
    BY <1>9 DEF AwaitHelpers, Seated
  <2> QED BY <1>0, <2>1, <2>2
<1>10. ASSUME NEW c \in Callers, Return(c) PROVE RunningCounts'
  <2>1. run[c].running = 0
    BY <1>10 DEF Return, HelpersGone, Frames, Live, NoRun
  <2>2. \A d \in Callers : run'[d].running = run[d].running
    BY <1>10, <2>1 DEF Return, NoRun
  <2>3. \A g \in Helpers : (Seated(g)' <=> Seated(g)) /\ (Seated(g) => at'[g].run = at[g].run)
    BY <1>10 DEF Return, Seated
  <2> QED BY <1>0, <2>2, <2>3
<1>11. ASSUME NEW t \in Threads, Claim(t) PROVE RunningCounts'
  <2>1. \A d \in Callers : run'[d].running = run[d].running
    BY <1>11 DEF Claim, VpRun
  <2>2. \A g \in Helpers : (Seated(g)' <=> Seated(g)) /\ (Seated(g) => at'[g].run = at[g].run)
    BY <1>11 DEF Claim, Seated, Seat
  <2> QED BY <1>0, <2>1, <2>2
<1>12. ASSUME NEW t \in Threads, FnReturns(t) PROVE RunningCounts'
  <2>1. \A d \in Callers : run'[d].running = run[d].running
    BY <1>12 DEF FnReturns
  <2>2. \A g \in Helpers : (Seated(g)' <=> Seated(g)) /\ (Seated(g) => at'[g].run = at[g].run)
    BY <1>12 DEF FnReturns, Seated, Seat
  <2> QED BY <1>0, <2>1, <2>2
<1>13. ASSUME NEW t \in Threads, Lock(t) \/ SpuriousWake(t) PROVE RunningCounts'
  <2>1. \A d \in Callers : run'[d].running = run[d].running
    BY <1>13 DEF Lock, SpuriousWake
  <2>2. \A g \in Helpers : (Seated(g)' <=> Seated(g)) /\ (Seated(g) => at'[g].run = at[g].run)
    BY <1>13 DEF Lock, SpuriousWake, Seated
  <2> QED BY <1>0, <2>1, <2>2
<1>14. ASSUME NEW h \in Helpers, Sleep(h) PROVE RunningCounts'
  <2>1. \A d \in Callers : run'[d].running = run[d].running
    BY <1>14 DEF Sleep
  <2>2. \A g \in Helpers : (Seated(g)' <=> Seated(g)) /\ (Seated(g) => at'[g].run = at[g].run)
    BY <1>14 DEF Sleep, Seated
  <2> QED BY <1>0, <2>1, <2>2
<1>15. ASSUME NEW h \in Helpers, TakeSeat(h) PROVE RunningCounts'
  <2>1. head \in Callers /\ ~Seated(h)
    BY <1>15 DEF TakeSeat, Seated
  <2>2. \A d \in Callers : run'[d].running = IF d = head THEN run[d].running + 1 ELSE run[d].running
    BY <1>15, <2>1 DEF TakeSeat, VpRun
  <2>3. Seated(h)' /\ at'[h].run = head
    BY <1>15 DEF TakeSeat, Seated, Seat
  <2>4. \A g \in Helpers \ {h} : (Seated(g)' <=> Seated(g)) /\ at'[g] = at[g]
    BY <1>15 DEF TakeSeat, Seated
  <2>5. \A d \in Callers : SeatedAt(d)' = IF d = head THEN SeatedAt(d) \cup {h} ELSE SeatedAt(d)
    BY <2>1, <2>3, <2>4 DEF SeatedAt
  <2>6. h \notin SeatedAt(head) /\ SeatedAt(head) \in SUBSET Helpers
    BY <2>1 DEF SeatedAt
  <2>7. Cardinality(SeatedAt(head) \cup {h}) = Cardinality(SeatedAt(head)) + 1
    BY <2>6, FiniteHelpers, FS_AddElement
  <2> QED BY <2>2, <2>5, <2>7 DEF RunningCounts
<1>16. ASSUME NEW h \in Helpers, LeaveSeat(h) PROVE RunningCounts'
  <2> DEFINE r == at[h].run
  <2>1. Seated(h) /\ r \in Callers
    BY <1>16 DEF LeaveSeat, Seated, Frames
  <2>2. \A d \in Callers : run'[d].running = IF d = r THEN run[d].running - 1 ELSE run[d].running
    BY <1>16, <2>1 DEF LeaveSeat, VpRun
  <2>3. ~Seated(h)'
    BY <1>16 DEF LeaveSeat, Seated
  <2>4. \A g \in Helpers \ {h} : (Seated(g)' <=> Seated(g)) /\ at'[g] = at[g]
    BY <1>16 DEF LeaveSeat, Seated
  <2>5. \A d \in Callers : SeatedAt(d)' = IF d = r THEN SeatedAt(d) \ {h} ELSE SeatedAt(d)
    BY <2>1, <2>3, <2>4 DEF SeatedAt
  <2>6. h \in SeatedAt(r) /\ SeatedAt(r) \in SUBSET Helpers
    BY <2>1 DEF SeatedAt
  <2>7. Cardinality(SeatedAt(r) \ {h}) = Cardinality(SeatedAt(r)) - 1
    BY <2>6, FiniteHelpers, FS_RemoveElement
  <2> HIDE DEF r
  <2> QED BY <2>2, <2>5, <2>7 DEF RunningCounts
<1> QED
  BY <1>1, <1>2, <1>3, <1>4, <1>5, <1>6, <1>7, <1>8, <1>9, <1>10, <1>11, <1>12, <1>13,
     <1>14, <1>15, <1>16
  DEF Next, CallerStep, HelperStep, ChunkStep, BorrowStep
-----------------------------------------------------------------------------
LEMMA NextCancelled ==
  ASSUME IInv, Next
  PROVE  CancelledBeforeWait'
<1> USE PoolAssumption DEF TypeOK, Threads, Goto, CancelledBeforeWait, Queued, Places, CallerPlaces, HelperPlaces
<1>a. TypeOK /\ Places /\ CancelledBeforeWait
  BY DEF IInv
<1> USE <1>a
<1>1. ASSUME NEW k \in CoreSettings, VesPool_configure(k) PROVE CancelledBeforeWait'
  BY <1>1 DEF VesPool_configure
<1>2. ASSUME NEW c \in Callers, VesPool_job_enter(c) \/ VesPool_job_leave(c)
      PROVE  CancelledBeforeWait'
  BY <1>2 DEF VesPool_job_enter, VesPool_job_leave
<1>3. ASSUME NEW c \in Callers, NEW w \in Works, Enter(c, w) PROVE CancelledBeforeWait'
  BY <1>3 DEF Enter
<1>4. ASSUME NEW c \in Callers, Share(c) PROVE CancelledBeforeWait'
  BY <1>4 DEF Share
<1>5. ASSUME NEW c \in Callers, NEW S \in SUBSET Helpers, BorrowNone(c, S)
      PROVE  CancelledBeforeWait'
  BY <1>5 DEF BorrowNone, Spawnable
<1>6. ASSUME NEW c \in Callers, NEW S \in SUBSET Helpers, NEW W \in SUBSET Helpers, Borrow(c, S, W)
      PROVE  CancelledBeforeWait'
  BY <1>6 DEF Borrow, NoRun, Spawnable, Woken, Asleep
<1>7. ASSUME NEW c \in Callers, Serial(c) PROVE CancelledBeforeWait'
  BY <1>7 DEF Serial
<1>8. ASSUME NEW c \in Callers, CancelSeats(c) PROVE CancelledBeforeWait'
  <2>1. \A d \in Callers : run'[d].tickets > 0 => run[d].tickets > 0 /\ d # c
    BY <1>8 DEF CancelSeats, VpRun
  <2> QED BY <1>8, <2>1 DEF CancelSeats
<1>9. ASSUME NEW c \in Callers, AwaitHelpers(c) PROVE CancelledBeforeWait'
  BY <1>9 DEF AwaitHelpers
<1>10. ASSUME NEW c \in Callers, Return(c) PROVE CancelledBeforeWait'
  BY <1>10 DEF Return, NoRun
<1>11. ASSUME NEW t \in Threads, Claim(t) PROVE CancelledBeforeWait'
  <2>1. \A d \in Callers : run'[d].tickets = run[d].tickets
    BY <1>11 DEF Claim, VpRun
  <2> QED BY <1>11, <2>1 DEF Claim
<1>12. ASSUME NEW t \in Threads, FnReturns(t) PROVE CancelledBeforeWait'
  BY <1>12 DEF FnReturns
<1>13. ASSUME NEW t \in Threads, Lock(t) \/ SpuriousWake(t) PROVE CancelledBeforeWait'
  BY <1>13 DEF Lock, SpuriousWake
<1>14. ASSUME NEW h \in Helpers, Sleep(h) PROVE CancelledBeforeWait'
  BY <1>14 DEF Sleep
<1>15. ASSUME NEW h \in Helpers, TakeSeat(h) PROVE CancelledBeforeWait'
  <2>1. \A d \in Callers : run'[d].tickets > 0 => run[d].tickets > 0
    BY <1>15 DEF TakeSeat, VpRun
  <2> QED BY <1>15, <2>1 DEF TakeSeat
<1>16. ASSUME NEW h \in Helpers, LeaveSeat(h) PROVE CancelledBeforeWait'
  <2>1. \A d \in Callers : run'[d].tickets = run[d].tickets
    BY <1>16 DEF LeaveSeat, VpRun
  <2> QED BY <1>16, <2>1 DEF LeaveSeat
<1> QED
  BY <1>1, <1>2, <1>3, <1>4, <1>5, <1>6, <1>7, <1>8, <1>9, <1>10, <1>11, <1>12, <1>13,
     <1>14, <1>15, <1>16
  DEF Next, CallerStep, HelperStep, ChunkStep, BorrowStep
-----------------------------------------------------------------------------
(* The queue as a list: what an enqueue and the removal of any run do to it. *)

LEMMA ListAppend ==
  ASSUME NEW Q, Nil \notin Q, NEW hd, NEW tl, NEW link, NEW lk,
         ListOf(Q, hd, tl, link), NEW c, c \notin Q, c # Nil,
         NEW R, R = Q \cup {c}, NEW first, first = IF tl = Nil THEN c ELSE hd,
         lk[c] = Nil, \A x \in Q : lk[x] = IF x = tl THEN c ELSE link[x]
  PROVE  ListOf(R, first, c, lk)
<1>0. PICK before \in SUBSET (Q \X Q) : InOrder(Q, before, hd, tl, link)
  BY DEF ListOf
<1> DEFINE after == before \cup {<<x, c>> : x \in Q}
<1>1. after \in SUBSET (R \X R)
  OBVIOUS
<1>2. \A x, y \in R : <<x, y>> \in after <=> <<x, y>> \in before \/ (y = c /\ x \in Q)
  OBVIOUS
<1>3. \A x : <<x, c>> \notin before /\ <<c, x>> \notin before
  OBVIOUS
<1>4. tl = Nil <=> Q = {}
  BY <1>0 DEF InOrder
<1> HIDE DEF after
<1>5. \A x, y, z \in R : <<x, y>> \in after /\ <<y, z>> \in after => <<x, z>> \in after
  BY <1>0, <1>2, <1>3 DEF InOrder
<1>6. \A x, y \in R : x # y => (<<x, y>> \in after <=> <<y, x>> \notin after)
  BY <1>0, <1>2, <1>3 DEF InOrder
<1>7. \A x \in R : <<x, x>> \notin after
  BY <1>0, <1>2, <1>3 DEF InOrder
<1>8. R # {} /\ {first, c} \subseteq R
  BY <1>0, <1>4 DEF InOrder
<1>9. \A x \in R : <<x, first>> \notin after /\ <<c, x>> \notin after
  <2>1. \A x \in R : <<c, x>> \notin after
    BY <1>0, <1>2, <1>3
  <2>2. CASE tl = Nil
    BY <1>0, <2>2, <1>2, <1>3, <1>4
  <2>3. CASE tl # Nil
    <3>1. hd \in Q /\ \A x \in Q : <<x, hd>> \notin before
      BY <1>0, <2>3, <1>4 DEF InOrder
    <3> QED BY <1>0, <2>1, <2>3, <3>1, <1>2, <1>3
  <2> QED BY <1>0, <2>1, <2>2, <2>3
<1>10. ASSUME NEW x \in Q
       PROVE  lk[x] \in R /\ <<x, lk[x]>> \in after
              /\ \A y \in R : <<x, y>> \in after => <<y, lk[x]>> \notin after
  <2>1. CASE x = tl
    <3>1. lk[x] = c /\ \A y \in Q : <<x, y>> \notin before
      BY <1>0, <2>1 DEF InOrder
    <3> QED BY <1>0, <3>1, <1>2, <1>3
  <2>2. CASE x # tl
    <3>1. lk[x] = link[x] /\ link[x] \in Q /\ <<x, link[x]>> \in before
          /\ \A y \in Q : <<x, y>> \in before => <<y, link[x]>> \notin before
      BY <1>0, <2>2 DEF InOrder
    <3> QED BY <1>0, <3>1, <1>2, <1>3
  <2> QED BY <1>0, <2>1, <2>2
<1>11. ASSUME NEW x \in R, x # first PROVE \E y \in R : lk[y] = x
  <2>1. tl \in Q /\ hd \in Q
    BY <1>0, <1>4, <1>11 DEF InOrder
  <2>2. CASE x = c
    BY <1>0, <2>1, <2>2
  <2>3. CASE x # c
    <3>1. PICK y \in Q : link[y] = x
      BY <1>0, <2>1, <2>3, <1>4, <1>11 DEF InOrder
    <3>2. y # tl
      BY <1>0, <2>3, <3>1 DEF InOrder
    <3> QED BY <1>0, <3>1, <3>2
  <2> QED BY <1>0, <2>2, <2>3
<1>12. InOrder(R, after, first, c, lk)
  BY <1>0, <1>5, <1>6, <1>7, <1>8, <1>9, <1>10, <1>11 DEF InOrder
<1> QED BY <1>1, <1>12 DEF ListOf

LEMMA ListRemove ==
  ASSUME NEW Q, Nil \notin Q, NEW hd, NEW tl, NEW link, NEW lk,
         ListOf(Q, hd, tl, link), NEW c \in Q, NEW end,
         NEW R, R = Q \ {c}, NEW first, first = IF hd = c THEN link[c] ELSE hd,
         end = IF tl # c THEN tl ELSE IF hd = c THEN Nil ELSE end,
         tl = c /\ hd # c => end \in Q /\ link[end] = c,
         \A x \in Q \ {c} : lk[x] = IF link[x] = c THEN link[c] ELSE link[x]
  PROVE  ListOf(R, first, end, lk)
<1>0. PICK before \in SUBSET (Q \X Q) : InOrder(Q, before, hd, tl, link)
  BY DEF ListOf
<1> DEFINE after == before \cap (R \X R)
<1>1. after \in SUBSET (R \X R)
  OBVIOUS
<1>2. \A x, y \in R : <<x, y>> \in after <=> <<x, y>> \in before
  OBVIOUS
<1> HIDE DEF after
<1>3. /\ \A x, y, z \in Q : <<x, y>> \in before /\ <<y, z>> \in before => <<x, z>> \in before
      /\ \A x, y \in Q : x # y => (<<x, y>> \in before <=> <<y, x>> \notin before)
      /\ \A x \in Q : <<x, x>> \notin before
      /\ hd \in Q /\ tl \in Q
      /\ \A x \in Q : <<x, hd>> \notin before /\ <<tl, x>> \notin before
  BY <1>0 DEF InOrder
<1>4. /\ link[tl] = Nil
      /\ \A x \in Q : x # tl => link[x] \in Q /\ <<x, link[x]>> \in before
      /\ \A x, y \in Q : x # tl /\ <<x, y>> \in before => <<y, link[x]>> \notin before
  BY <1>0, <1>3 DEF InOrder
<1>5. \A x \in Q : x # hd => \E y \in Q : link[y] = x
  BY <1>0 DEF InOrder
<1>6. \A x, y, z \in R : <<x, y>> \in after /\ <<y, z>> \in after => <<x, z>> \in after
  BY <1>2, <1>3
<1>7. \A x, y \in R : x # y => (<<x, y>> \in after <=> <<y, x>> \notin after)
  BY <1>2, <1>3
<1>8. \A x \in R : <<x, x>> \notin after
  BY <1>2, <1>3
<1>9. CASE R = {}
  <2>1. hd = c /\ tl = c
    BY <1>3, <1>9
  <2>2. first = Nil /\ end = Nil
    BY <2>1, <1>4
  <2> QED BY <1>1, <1>9, <2>2 DEF InOrder, ListOf
<1>10. CASE R # {}
  <2>1. ~(hd = c /\ tl = c)
    BY <1>3, <1>10
  <2>2. link[c] \in Q \cup {Nil} /\ link[c] # c
    BY <1>3, <1>4
  <2>3. end \in R
    <3>1. CASE tl # c
      BY <3>1, <1>3
    <3>2. CASE tl = c
      BY <3>2, <2>1, <1>4
    <3> QED BY <3>1, <3>2
  <2>4. first \in R
    <3>1. CASE hd = c
      BY <3>1, <2>1, <1>3, <1>4
    <3>2. CASE hd # c
      BY <3>2, <1>3
    <3> QED BY <3>1, <3>2
  <2>5. ASSUME NEW x \in R PROVE <<x, first>> \notin before
    <3>1. CASE hd = c
      <4>1. <<c, x>> \in before
        BY <3>1, <1>3
      <4> QED BY <3>1, <4>1, <2>1, <1>4
    <3>2. CASE hd # c
      BY <3>2, <1>3
    <3> QED BY <3>1, <3>2
  <2>6. ASSUME NEW x \in R PROVE <<end, x>> \notin before
    <3>1. CASE tl # c
      BY <3>1, <1>3
    <3>2. CASE tl = c
      <4>1. link[end] = c /\ <<x, c>> \in before
        BY <3>2, <2>1, <1>3
      <4> QED BY <4>1, <3>2, <2>3, <1>4
    <3> QED BY <3>1, <3>2
  <2>7. ASSUME NEW x \in R
        PROVE  IF x = end THEN lk[x] = Nil
               ELSE /\ lk[x] \in R /\ <<x, lk[x]>> \in before
                    /\ \A y \in R : <<x, y>> \in before => <<y, lk[x]>> \notin before
    <3>1. CASE link[x] # c
      <4>1. lk[x] = link[x]
        BY <3>1
      <4>2. CASE x = tl
        BY <4>1, <4>2, <1>4
      <4>3. CASE x # tl
        <5>1. x # end
          BY <3>1, <4>3, <2>1
        <5> QED BY <4>1, <4>3, <5>1, <3>1, <1>4
      <4> QED BY <4>2, <4>3
    <3>2. CASE link[x] = c
      <4>1. lk[x] = link[c]
        BY <3>2
      <4>2. x # tl /\ <<x, c>> \in before /\ \A y \in Q : <<x, y>> \in before => <<y, c>> \notin before
        BY <3>2, <1>4
      <4>3. CASE tl = c
        <5>1. hd # c /\ link[end] = c /\ end # tl
          BY <4>3, <2>1, <2>3
        <5>2. <<end, c>> \in before /\ \A y \in Q : <<end, y>> \in before => <<y, c>> \notin before
          BY <5>1, <2>3, <1>4
        <5>3. x = end
          BY <4>2, <5>2, <2>3, <1>3
        <5> QED BY <4>1, <4>3, <5>3, <1>4
      <4>4. CASE tl # c
        <5>1. x # end
          BY <4>2, <4>4
        <5>2. link[c] \in R /\ <<c, link[c]>> \in before
              /\ \A y \in Q : <<c, y>> \in before => <<y, link[c]>> \notin before
          BY <4>4, <2>2, <1>4
        <5>3. <<x, link[c]>> \in before
          BY <4>2, <5>2, <1>3
        <5>4. ASSUME NEW y \in R, <<x, y>> \in before PROVE <<y, link[c]>> \notin before
          <6>1. <<c, y>> \in before
            BY <4>2, <5>4, <1>3
          <6> QED BY <6>1, <5>2
        <5> QED BY <4>1, <5>1, <5>2, <5>3, <5>4
      <4> QED BY <4>3, <4>4
    <3> QED BY <3>1, <3>2
  <2>8. ASSUME NEW x \in R, x # first PROVE \E y \in R : lk[y] = x
    <3>1. CASE link[c] = x
      <4>1. hd # c
        BY <3>1, <2>8
      <4>2. PICK y \in Q : link[y] = c
        BY <4>1, <1>5
      <4>3. y # c
        BY <4>2, <2>2
      <4> QED BY <3>1, <4>2, <4>3
    <3>2. CASE link[c] # x
      <4>1. x # hd
        BY <2>8
      <4>2. PICK y \in Q : link[y] = x
        BY <4>1, <1>5
      <4> QED BY <3>2, <4>2
    <3> QED BY <3>1, <3>2
  <2>9. {first, end} \subseteq R
    BY <2>3, <2>4
  <2>10. \A x \in R : <<x, first>> \notin after /\ <<end, x>> \notin after
    BY <2>3, <2>4, <2>5, <2>6, <1>2
  <2>11. \A x \in R : IF x = end THEN lk[x] = Nil
                      ELSE /\ lk[x] \in R /\ <<x, lk[x]>> \in after
                           /\ \A y \in R : <<x, y>> \in after => <<y, lk[x]>> \notin after
    BY <2>7, <1>2
  <2>12. \A x \in R \ {first} : \E y \in R : lk[y] = x
    BY <2>8
  <2>13. InOrder(R, after, first, end, lk)
    BY <1>6, <1>7, <1>8, <1>10, <2>9, <2>10, <2>11, <2>12 DEF InOrder
  <2> QED BY <1>1, <2>13 DEF ListOf
<1> QED BY <1>9, <1>10

-----------------------------------------------------------------------------
LEMMA QueueSame ==
  ASSUME QueueIsList, head' = head, tail' = tail,
         \A d \in Callers : (Queued(d)' <=> Queued(d)) /\ (Queued(d) => run'[d].link = run[d].link)
  PROVE  QueueIsList'
<1>1. Waiting' = Waiting
  BY DEF Waiting
<1>2. PICK before \in SUBSET (Waiting \X Waiting) : InOrder(Waiting, before, head, tail, Links)
  BY DEF QueueIsList, ListOf
<1>3. \A x \in Waiting : Links'[x] = Links[x]
  BY DEF Waiting, Links
<1>4. InOrder(Waiting, before, head, tail, Links')
  BY <1>2, <1>3 DEF InOrder
<1> QED BY <1>1, <1>4 DEF QueueIsList, ListOf
-----------------------------------------------------------------------------
(* An action that leaves the queue and every run's seats and links alone. *)
LEMMA QueueUntouched ==
  ASSUME QueueIsList, UNCHANGED queue,
         \A d \in Callers : run'[d].tickets = run[d].tickets /\ run'[d].link = run[d].link
  PROVE  QueueIsList'
<1>1. head' = head /\ tail' = tail
  BY DEF queue
<1> QED BY <1>1, QueueSame DEF Queued
-----------------------------------------------------------------------------
(* The last seat of the first run is taken: the run leaves the queue. *)
LEMMA QueuePop ==
  ASSUME QueueIsList, PoolAssumption, head \in Callers, Queued(head),
         head' = run[head].link, tail' = IF run[head].link = Nil THEN Nil ELSE tail,
         Waiting' = Waiting \ {head},
         \A d \in Callers : run'[d].link = run[d].link
  PROVE  QueueIsList'
<1>1. PICK before \in SUBSET (Waiting \X Waiting) : InOrder(Waiting, before, head, tail, Links)
  BY DEF QueueIsList, ListOf
<1>2. head \in Waiting /\ Nil \notin Waiting
  BY PoolAssumption DEF Waiting, Threads
<1>3. \A x \in Waiting : Links[x] # head
  BY <1>1, <1>2 DEF InOrder
<1>4. Links[head] = Nil <=> tail = head
  <2>1. tail \in Waiting /\ Links[tail] = Nil
    BY <1>1, <1>2 DEF InOrder
  <2>2. head # tail => Links[head] \in Waiting
    BY <1>1, <1>2 DEF InOrder
  <2> QED BY <2>1, <2>2, <1>2
<1>5. Links[head] = run[head].link /\ Links' = Links
  BY DEF Links
<1>6. tail' = IF tail # head THEN tail ELSE Nil
  BY <1>4, <1>5
<1>7. \A x \in Waiting \ {head} : Links[x] = IF Links[x] = head THEN Links[head] ELSE Links[x]
  BY <1>3
<1>8. ListOf(Waiting, head, tail, Links)
  BY DEF QueueIsList
<1>9. ListOf(Waiting', head', tail', Links)
  <2>1. PICK c \in Waiting : c = head
    BY <1>2
  <2>2. /\ tail' = IF tail # c THEN tail ELSE IF head = c THEN Nil ELSE tail'
        /\ head' = IF head = c THEN Links[c] ELSE head
        /\ Waiting' = Waiting \ {c}
        /\ \A x \in Waiting \ {c} : Links[x] = IF Links[x] = c THEN Links[c] ELSE Links[x]
    BY <2>1, <1>5, <1>6, <1>7
  <2>3. tail = c /\ head # c => tail' \in Waiting /\ Links[tail'] = c
    BY <2>1
  <2> QED BY <2>2, <2>3, <1>2, <1>8, ListRemove
<1> QED BY <1>5, <1>9 DEF QueueIsList
-----------------------------------------------------------------------------
LEMMA NextQueue ==
  ASSUME IInv, Next
  PROVE  QueueIsList'
<1> USE PoolAssumption DEF TypeOK, Threads, shared
<1>a. TypeOK /\ Places /\ Frames /\ FramesOutliveUses /\ CancelledBeforeWait /\ QueueIsList
  BY DEF IInv
<1> USE <1>a
<1>1. ASSUME NEW k \in CoreSettings, VesPool_configure(k) PROVE QueueIsList'
  <2>1. \A d \in Callers : run'[d].tickets = run[d].tickets /\ run'[d].link = run[d].link
    BY <1>1 DEF VesPool_configure, VpRun
  <2> QED BY <1>1, <2>1, QueueUntouched DEF VesPool_configure
<1>2. ASSUME NEW c \in Callers, VesPool_job_enter(c) \/ VesPool_job_leave(c) PROVE QueueIsList'
  <2>1. \A d \in Callers : run'[d].tickets = run[d].tickets /\ run'[d].link = run[d].link
    BY <1>2 DEF VesPool_job_enter, VesPool_job_leave, VpRun
  <2> QED BY <1>2, <2>1, QueueUntouched DEF VesPool_job_enter, VesPool_job_leave
<1>3. ASSUME NEW c \in Callers, NEW w \in Works, Enter(c, w) PROVE QueueIsList'
  <2>1. \A d \in Callers : run'[d].tickets = run[d].tickets /\ run'[d].link = run[d].link
    BY <1>3 DEF Enter, VpRun
  <2> QED BY <1>3, <2>1, QueueUntouched DEF Enter
<1>4. ASSUME NEW c \in Callers, Share(c) PROVE QueueIsList'
  <2>1. \A d \in Callers : run'[d].tickets = run[d].tickets /\ run'[d].link = run[d].link
    BY <1>4 DEF Share, VpRun
  <2> QED BY <1>4, <2>1, QueueUntouched DEF Share
<1>5. ASSUME NEW c \in Callers, NEW S \in SUBSET Helpers, BorrowNone(c, S) PROVE QueueIsList'
  <2>1. \A d \in Callers : run'[d].tickets = run[d].tickets /\ run'[d].link = run[d].link
    BY <1>5 DEF BorrowNone, Spawnable, VpRun
  <2> QED BY <1>5, <2>1, QueueUntouched DEF BorrowNone, Spawnable
<1>6. ASSUME NEW c \in Callers, NEW S \in SUBSET Helpers, NEW W \in SUBSET Helpers, Borrow(c, S, W)
      PROVE  QueueIsList'
  <2>1. pc[c] = "borrow" /\ Grant(c, S) > 0
    BY <1>6 DEF Borrow
  <2>2. c \notin Waiting /\ c # tail
    BY <2>1 DEF Waiting, FramesOutliveUses, Live
  <2>3. Cardinality(S) \in Nat /\ Grant(c, S) \in Int
    BY FiniteHelpers DEF Grant, Least, Arguments
  <2>4. run' = [r \in Callers |->
                 IF r = c THEN [NoRun EXCEPT !.tickets = Grant(c, S)]
                 ELSE IF r = tail THEN [run[r] EXCEPT !.link = c] ELSE run[r]]
    BY <1>6 DEF Borrow
  <2>5. run'[c].tickets > 0 /\ run'[c].link = Nil
    BY <2>1, <2>4 DEF NoRun
  <2>6. \A d \in Callers \ {c} : /\ run'[d].tickets = run[d].tickets
                                 /\ run'[d].link = IF d = tail THEN c ELSE run[d].link
    BY <2>4 DEF VpRun
  <2>7. Waiting' = Waiting \cup {c}
    BY <2>5, <2>6 DEF Waiting, Queued
  <2>8. ListOf(Waiting, head, tail, Links)
    BY DEF QueueIsList
  <2>9. Links'[c] = Nil /\ \A x \in Waiting : Links'[x] = IF x = tail THEN c ELSE Links[x]
    BY <2>2, <2>5, <2>6 DEF Waiting, Links
  <2>10. head' = (IF tail = Nil THEN c ELSE head) /\ tail' = c
    BY <1>6 DEF Borrow
  <2>11. Nil \notin Waiting /\ c # Nil
    BY DEF Waiting
  <2> HIDE DEF TypeOK, Threads, PoolAssumption
  <2>12. ListOf(Waiting', head', c, Links')
    BY <2>2, <2>7, <2>8, <2>9, <2>10, <2>11, ListAppend
  <2> QED BY <2>10, <2>12 DEF QueueIsList
<1>7. ASSUME NEW c \in Callers, Serial(c) PROVE QueueIsList'
  <2>1. \A d \in Callers : run'[d].tickets = run[d].tickets /\ run'[d].link = run[d].link
    BY <1>7 DEF Serial, VpRun
  <2> QED BY <1>7, <2>1, QueueUntouched DEF Serial
<1>8. ASSUME NEW c \in Callers, CancelSeats(c) PROVE QueueIsList'
  <2>1. CASE ~Queued(c)
    BY <1>8, <2>1, QueueUntouched DEF CancelSeats, queue
  <2>2. CASE Queued(c)
    <3>1. /\ run' = [r \in Callers |->
                       IF r = c THEN [run[r] EXCEPT !.tickets = 0]
                       ELSE IF r \in Before(c) THEN [run[r] EXCEPT !.link = run[c].link]
                       ELSE run[r]]
          /\ head' = IF head = c THEN run[c].link ELSE head
          /\ tail' = TailWithout(c)
      BY <1>8, <2>2 DEF CancelSeats
    <3>2. \A d \in Callers : /\ run'[d].tickets = IF d = c THEN 0 ELSE run[d].tickets
                             /\ d # c => run'[d].link = IF d \in Before(c) THEN run[c].link ELSE run[d].link
      BY <3>1 DEF VpRun
    <3>3. Waiting' = Waiting \ {c} /\ c \in Waiting
      BY <2>2, <3>2 DEF Waiting, Queued
    <3>4. \A x \in Waiting \ {c} : Links'[x] = IF Links[x] = c THEN Links[c] ELSE Links[x]
      BY <3>2 DEF Waiting, Links, Before
    <3>5. ListOf(Waiting, head, tail, Links)
      BY DEF QueueIsList
    <3>6. tail = c /\ head # c => tail' \in Waiting /\ Links[tail'] = c
      <4> SUFFICES ASSUME tail = c, head # c PROVE tail' \in Before(c)
        BY DEF Before, Waiting, Links
      <4> QED BY <2>2, <3>1, LastHasPredecessor DEF TailWithout
    <3>7. tail' = IF tail # c THEN tail ELSE IF head = c THEN Nil ELSE tail'
      BY <3>1 DEF TailWithout
    <3>8. Nil \notin Waiting /\ Links[c] = run[c].link
      BY DEF Waiting, Links
    <3>9. head' = IF head = c THEN Links[c] ELSE head
      BY <3>1, <3>8
    <3> HIDE DEF TypeOK, Threads, PoolAssumption
    <3>10. ListOf(Waiting', head', tail', Links')
      BY <3>3, <3>4, <3>5, <3>6, <3>7, <3>8, <3>9, ListRemove
    <3> QED BY <3>10 DEF QueueIsList
  <2> QED BY <2>1, <2>2
<1>9. ASSUME NEW c \in Callers, AwaitHelpers(c) PROVE QueueIsList'
  <2>1. \A d \in Callers : run'[d].tickets = run[d].tickets /\ run'[d].link = run[d].link
    BY <1>9 DEF AwaitHelpers, VpRun
  <2> QED BY <1>9, <2>1, QueueUntouched DEF AwaitHelpers
<1>10. ASSUME NEW c \in Callers, Return(c) PROVE QueueIsList'
  <2>1. ~Queued(c)
    BY <1>10 DEF Return, CancelledBeforeWait
  <2>2. \A d \in Callers : (Queued(d)' <=> Queued(d)) /\ (Queued(d) => run'[d].link = run[d].link)
    BY <1>10, <2>1 DEF Return, Queued, NoRun
  <2> QED BY <1>10, <2>2, QueueSame DEF Return, queue
<1>11. ASSUME NEW t \in Threads, Claim(t) PROVE QueueIsList'
  <2>1. \A d \in Callers : run'[d].tickets = run[d].tickets /\ run'[d].link = run[d].link
    BY <1>11 DEF Claim, VpRun
  <2> QED BY <1>11, <2>1, QueueUntouched DEF Claim
<1>12. ASSUME NEW t \in Threads, FnReturns(t) PROVE QueueIsList'
  <2>1. \A d \in Callers : run'[d].tickets = run[d].tickets /\ run'[d].link = run[d].link
    BY <1>12 DEF FnReturns, VpRun
  <2> QED BY <1>12, <2>1, QueueUntouched DEF FnReturns
<1>13. ASSUME NEW t \in Threads, Lock(t) \/ SpuriousWake(t) PROVE QueueIsList'
  <2>1. \A d \in Callers : run'[d].tickets = run[d].tickets /\ run'[d].link = run[d].link
    BY <1>13 DEF Lock, SpuriousWake, VpRun
  <2> QED BY <1>13, <2>1, QueueUntouched DEF Lock, SpuriousWake
<1>14. ASSUME NEW h \in Helpers, Sleep(h) PROVE QueueIsList'
  <2>1. \A d \in Callers : run'[d].tickets = run[d].tickets /\ run'[d].link = run[d].link
    BY <1>14 DEF Sleep, VpRun
  <2> QED BY <1>14, <2>1, QueueUntouched DEF Sleep
<1>15. ASSUME NEW h \in Helpers, TakeSeat(h) PROVE QueueIsList'
  <2>1. head \in Callers /\ Queued(head) /\ head # Nil
    BY <1>15, HeadQueued DEF TakeSeat
  <2>2. run' = [run EXCEPT ![head].joined = @ + 1, ![head].running = @ + 1, ![head].tickets = @ - 1]
    BY <1>15 DEF TakeSeat
  <2>3. \A d \in Callers : /\ run'[d].tickets = IF d = head THEN run[d].tickets - 1 ELSE run[d].tickets
                           /\ run'[d].link = run[d].link
    BY <2>1, <2>2 DEF VpRun
  <2>4. CASE run[head].tickets = 1
    <3>1. Waiting' = Waiting \ {head}
      BY <2>1, <2>3, <2>4 DEF Waiting, Queued
    <3>2. head' = run[head].link /\ tail' = IF run[head].link = Nil THEN Nil ELSE tail
      BY <1>15, <2>4 DEF TakeSeat
    <3> QED BY <2>1, <2>3, <3>1, <3>2, QueuePop
  <2>5. CASE run[head].tickets # 1
    <3>1. \A d \in Callers : Queued(d)' <=> Queued(d)
      BY <2>1, <2>3, <2>5 DEF Queued, VpRun
    <3>2. head' = head /\ tail' = tail
      BY <1>15, <2>5 DEF TakeSeat
    <3> QED BY <2>3, <3>1, <3>2, QueueSame
  <2> QED BY <2>4, <2>5
<1>16. ASSUME NEW h \in Helpers, LeaveSeat(h) PROVE QueueIsList'
  <2>1. \A d \in Callers : run'[d].tickets = run[d].tickets /\ run'[d].link = run[d].link
    BY <1>16 DEF LeaveSeat, VpRun
  <2> QED BY <1>16, <2>1, QueueUntouched DEF LeaveSeat
<1> QED
  BY <1>1, <1>2, <1>3, <1>4, <1>5, <1>6, <1>7, <1>8, <1>9, <1>10, <1>11, <1>12, <1>13,
     <1>14, <1>15, <1>16
  DEF Next, CallerStep, HelperStep, ChunkStep, BorrowStep
-----------------------------------------------------------------------------
(* Frames outlive their uses because helpers only serve live frames, queued  *)
(* runs are live and the queue's pointers lead to queued runs.               *)
LEMMA FramesOutlive ==
  Frames /\ CancelledBeforeWait /\ QueueIsList => FramesOutliveUses
<1> SUFFICES ASSUME Frames, CancelledBeforeWait, QueueIsList PROVE FramesOutliveUses
  OBVIOUS
<1>1. PICK before \in SUBSET (Waiting \X Waiting) : InOrder(Waiting, before, head, tail, Links)
  BY DEF QueueIsList, ListOf
<1>2. Nil \notin Waiting
  BY PoolAssumption DEF Waiting, Threads
<1>3. \A c \in Callers : Queued(c) => Live(c)
  BY DEF CancelledBeforeWait, Live
<1>4. \A c \in Callers : c \in {head, tail} => Queued(c)
  <2>1. {head, tail} \subseteq Waiting \/ (head = Nil /\ tail = Nil)
    BY <1>1 DEF InOrder
  <2> QED BY <2>1, PoolAssumption DEF Waiting, Threads
<1>5. \A c \in Callers : Queued(c) /\ run[c].link # Nil => Queued(run[c].link)
  <2> SUFFICES ASSUME NEW c \in Callers, Queued(c), run[c].link # Nil PROVE Queued(run[c].link)
    OBVIOUS
  <2>1. c \in Waiting /\ Links[c] = run[c].link
    BY DEF Waiting, Links
  <2>2. Links[c] \in Waiting
    BY <1>1, <2>1 DEF InOrder
  <2> QED BY <2>1, <2>2 DEF Waiting
<1> QED BY <1>3, <1>4, <1>5 DEF FramesOutliveUses, Frames
-----------------------------------------------------------------------------
LEMMA NextSlots ==
  ASSUME IInv, Next
  PROVE  SlotsByJoining'
<1> USE PoolAssumption DEF TypeOK, Threads, Goto, Places, CallerPlaces, HelperPlaces, shared
<1>a. TypeOK /\ Places /\ Frames /\ FramesOutliveUses /\ SlotsByJoining
  BY DEF IInv
<1> USE <1>a
<1>b. Frames' /\ TypeOK'
  BY NextFrames, NextType
<1>0. ASSUME \A d \in Callers : pc'[d] = "borrow" => pc[d] = "borrow" /\ call'[d] = call[d],
             \A d \in Callers : Live(d)' => /\ Live(d) /\ call'[d].max = call[d].max
                                            /\ run'[d].tickets \in {0, run[d].tickets} /\ run'[d].joined = run[d].joined,
             \A g \in Helpers : Seated(g)' => Seated(g) /\ at'[g].run = at[g].run /\ at'[g].slot = at[g].slot
      PROVE  SlotsByJoining'
  <2>1. ASSUME NEW d \in Callers PROVE (pc[d] = "borrow" /\ call[d].max >= 0 => call[d].want <= call[d].max)'
    BY <1>0 DEF SlotsByJoining
  <2>2. ASSUME NEW d \in Callers PROVE (Live(d) /\ call[d].max >= 0 => run[d].joined + run[d].tickets <= call[d].max)'
    <3>1. run[d].joined \in Nat /\ run[d].tickets \in Nat /\ run'[d].tickets \in Nat /\ call[d].max \in Int
      BY <1>b DEF VpRun, Arguments
    <3> QED BY <1>0, <3>1 DEF SlotsByJoining
  <2>3. ASSUME NEW g \in Helpers PROVE (Seated(g) => at[g].slot \in 1 .. run[at[g].run].joined)'
    BY <1>0, <1>b DEF SlotsByJoining, Frames
  <2>4. ASSUME NEW g \in Helpers, NEW k \in Helpers
        PROVE  (Seated(k) /\ Seated(g) /\ k # g /\ at[k].run = at[g].run => at[k].slot # at[g].slot)'
    BY <1>0 DEF SlotsByJoining
  <2> QED BY <2>1, <2>2, <2>3, <2>4 DEF SlotsByJoining
<1>1. ASSUME NEW k \in CoreSettings, VesPool_configure(k) PROVE SlotsByJoining'
  <2>1. \A d \in Callers : pc'[d] = "borrow" => pc[d] = "borrow" /\ call'[d] = call[d]
    BY <1>1 DEF VesPool_configure
  <2>2. \A d \in Callers : Live(d)' => Live(d) /\ call'[d].max = call[d].max
    BY <1>1 DEF VesPool_configure, Live, Arguments
  <2>3. \A d \in Callers : run'[d].tickets = run[d].tickets /\ run'[d].joined = run[d].joined
    BY <1>1 DEF VesPool_configure, VpRun
  <2>4. \A g \in Helpers : Seated(g)' => Seated(g) /\ at'[g].run = at[g].run /\ at'[g].slot = at[g].slot
    BY <1>1 DEF VesPool_configure, Seated, Seat
  <2> QED BY <1>0, <2>1, <2>2, <2>3, <2>4
<1>2. ASSUME NEW c \in Callers, VesPool_job_enter(c) \/ VesPool_job_leave(c) PROVE SlotsByJoining'
  <2>1. \A d \in Callers : pc'[d] = "borrow" => pc[d] = "borrow" /\ call'[d] = call[d]
    BY <1>2 DEF VesPool_job_enter, VesPool_job_leave
  <2>2. \A d \in Callers : Live(d)' => Live(d) /\ call'[d].max = call[d].max
    BY <1>2 DEF VesPool_job_enter, VesPool_job_leave, Live, Arguments
  <2>3. \A d \in Callers : run'[d].tickets = run[d].tickets /\ run'[d].joined = run[d].joined
    BY <1>2 DEF VesPool_job_enter, VesPool_job_leave, VpRun
  <2>4. \A g \in Helpers : Seated(g)' => Seated(g) /\ at'[g].run = at[g].run /\ at'[g].slot = at[g].slot
    BY <1>2 DEF VesPool_job_enter, VesPool_job_leave, Seated, Seat
  <2> QED BY <1>0, <2>1, <2>2, <2>3, <2>4
<1>3. ASSUME NEW c \in Callers, NEW w \in Works, Enter(c, w) PROVE SlotsByJoining'
  <2>1. \A d \in Callers : pc'[d] = "borrow" => pc[d] = "borrow" /\ call'[d] = call[d]
    BY <1>3 DEF Enter
  <2>2. \A d \in Callers : Live(d)' => Live(d) /\ call'[d].max = call[d].max
    BY <1>3 DEF Enter, Live, Arguments
  <2>3. \A d \in Callers : run'[d].tickets = run[d].tickets /\ run'[d].joined = run[d].joined
    BY <1>3 DEF Enter, VpRun
  <2>4. \A g \in Helpers : Seated(g)' => Seated(g) /\ at'[g].run = at[g].run /\ at'[g].slot = at[g].slot
    BY <1>3 DEF Enter, Seated, Seat
  <2> QED BY <1>0, <2>1, <2>2, <2>3, <2>4
<1>4. ASSUME NEW c \in Callers, Share(c) PROVE SlotsByJoining'
  <2> DEFINE share  == VesPool_share(call[c].want, Cardinality(jobs))
             chunks == (call[c].n + call[c].chunk - 1) \div call[c].chunk
             most   == Least(share, call[c].max)
             want   == IF ExceedsAsSize(most, chunks - 1) THEN chunks - 1 ELSE most
  <2>1. call' = [call EXCEPT ![c].want = want] /\ pc[c] = "share"
    BY <1>4 DEF Share
  <2>2. call[c].max >= 0 => want <= call[c].max
    <3>1. Cardinality(jobs) \in Nat
      BY FS_Subset, FS_CardinalityType
    <3>2. share \in Int /\ share >= 0
      BY <3>1 DEF VesPool_share, Greatest, Arguments
    <3>3. call[c].n \in Nat /\ call[c].chunk \in Nat \ {0} /\ call[c].max \in Int
      BY DEF Arguments
    <3>4. chunks \in Int
      BY <3>3
    <3> HIDE DEF share, chunks
    <3> QED BY <3>2, <3>3, <3>4 DEF Least, ExceedsAsSize
  <2> HIDE DEF want
  <2>3. (call'[c].max >= 0 => call'[c].want <= call'[c].max) /\ \A d \in Callers \ {c} : call'[d] = call[d]
    BY <2>1, <2>2 DEF Arguments
  <2>4. \A d \in Callers \ {c} : pc'[d] = pc[d]
    BY <1>4 DEF Share
  <2>5. run' = run /\ at' = at
    BY <1>4 DEF Share
  <2>6. ~Live(c) /\ ~Live(c)'
    BY <1>4, <2>1 DEF Share, Live
  <2>7. \A d \in Callers \ {c} : Live(d)' <=> Live(d)
    BY <2>4 DEF Live
  <2>8. \A g \in Helpers : Seated(g)' <=> Seated(g)
    BY <1>4 DEF Share, Seated
  <2> QED BY <2>3, <2>4, <2>5, <2>6, <2>7, <2>8 DEF SlotsByJoining
<1>5. ASSUME NEW c \in Callers, NEW S \in SUBSET Helpers, BorrowNone(c, S) PROVE SlotsByJoining'
  <2>1. \A d \in Callers : pc'[d] = "borrow" => pc[d] = "borrow" /\ call'[d] = call[d]
    BY <1>5 DEF BorrowNone, Spawnable
  <2>2. \A d \in Callers : Live(d)' => Live(d) /\ call'[d].max = call[d].max
    BY <1>5 DEF BorrowNone, Spawnable, Live, Arguments
  <2>3. \A d \in Callers : run'[d].tickets = run[d].tickets /\ run'[d].joined = run[d].joined
    BY <1>5 DEF BorrowNone, Spawnable, VpRun
  <2>4. \A g \in Helpers : Seated(g)' => Seated(g) /\ at'[g].run = at[g].run /\ at'[g].slot = at[g].slot
    BY <1>5 DEF BorrowNone, Spawnable, Seated, Seat
  <2> QED BY <1>0, <2>1, <2>2, <2>3, <2>4
<1>6. ASSUME NEW c \in Callers, NEW S \in SUBSET Helpers, NEW W \in SUBSET Helpers, Borrow(c, S, W)
      PROVE  SlotsByJoining'
  <2>1. /\ pc[c] = "borrow" /\ Grant(c, S) <= call[c].want /\ Grant(c, S) \in Int
        /\ call[c].max >= 0 => call[c].want <= call[c].max
        /\ call[c].max \in Int /\ call[c].want \in Int
    BY <1>6, FiniteHelpers DEF Borrow, Grant, Least, Arguments, SlotsByJoining
  <2>2. run'[c].tickets = Grant(c, S) /\ run'[c].joined = 0
    BY <1>6 DEF Borrow, NoRun
  <2>3. \A d \in Callers \ {c} : run'[d].tickets = run[d].tickets /\ run'[d].joined = run[d].joined
    BY <1>6 DEF Borrow, VpRun
  <2>4. call' = call /\ pc'[c] # "borrow"
    BY <1>6 DEF Borrow
  <2>5. \A d \in Callers \ {c} : pc'[d] = pc[d] \/ (pc[d] = "locking" /\ pc'[d] = "locking")
    BY <1>6 DEF Borrow, Woken, Asleep
  <2>6. \A d \in Callers \ {c} : Live(d)' <=> Live(d)
    BY <2>5 DEF Live
  <2>7. \A g \in Helpers : (Seated(g)' <=> Seated(g)) /\ at'[g] = at[g] /\ (Seated(g) => at[g].run # c)
    BY <1>6 DEF Borrow, Spawnable, Woken, Asleep, Seated, Frames, Live
  <2> QED BY <2>1, <2>2, <2>3, <2>4, <2>5, <2>6, <2>7 DEF SlotsByJoining, Frames
<1>7. ASSUME NEW c \in Callers, Serial(c) PROVE SlotsByJoining'
  <2>1. \A d \in Callers : pc'[d] = "borrow" => pc[d] = "borrow" /\ call'[d] = call[d]
    BY <1>7 DEF Serial
  <2>2. \A d \in Callers : Live(d)' => Live(d) /\ call'[d].max = call[d].max
    BY <1>7 DEF Serial, Live, Arguments
  <2>3. \A d \in Callers : run'[d].tickets = run[d].tickets /\ run'[d].joined = run[d].joined
    BY <1>7 DEF Serial, VpRun
  <2>4. \A g \in Helpers : Seated(g)' => Seated(g) /\ at'[g].run = at[g].run /\ at'[g].slot = at[g].slot
    BY <1>7 DEF Serial, Seated, Seat
  <2> QED BY <1>0, <2>1, <2>2, <2>3, <2>4
<1>8. ASSUME NEW c \in Callers, CancelSeats(c) PROVE SlotsByJoining'
  <2>1. \A d \in Callers : pc'[d] = "borrow" => pc[d] = "borrow" /\ call'[d] = call[d]
    BY <1>8 DEF CancelSeats
  <2>2. \A d \in Callers : Live(d)' => Live(d) /\ call'[d].max = call[d].max
    BY <1>8 DEF CancelSeats, Live, Arguments
  <2>3. \A d \in Callers : run'[d].tickets \in {0, run[d].tickets} /\ run'[d].joined = run[d].joined
    BY <1>8 DEF CancelSeats, VpRun
  <2>4. \A g \in Helpers : Seated(g)' => Seated(g) /\ at'[g].run = at[g].run /\ at'[g].slot = at[g].slot
    BY <1>8 DEF CancelSeats, Seated, Seat
  <2> QED BY <1>0, <2>1, <2>2, <2>3, <2>4
<1>9. ASSUME NEW c \in Callers, AwaitHelpers(c) PROVE SlotsByJoining'
  <2>1. \A d \in Callers : pc'[d] = "borrow" => pc[d] = "borrow" /\ call'[d] = call[d]
    BY <1>9 DEF AwaitHelpers
  <2>2. \A d \in Callers : Live(d)' => Live(d) /\ call'[d].max = call[d].max
    BY <1>9 DEF AwaitHelpers, Live, Arguments
  <2>3. \A d \in Callers : run'[d].tickets = run[d].tickets /\ run'[d].joined = run[d].joined
    BY <1>9 DEF AwaitHelpers, VpRun
  <2>4. \A g \in Helpers : Seated(g)' => Seated(g) /\ at'[g].run = at[g].run /\ at'[g].slot = at[g].slot
    BY <1>9 DEF AwaitHelpers, Seated, Seat
  <2> QED BY <1>0, <2>1, <2>2, <2>3, <2>4
<1>10. ASSUME NEW c \in Callers, Return(c) PROVE SlotsByJoining'
  <2>1. \A d \in Callers : pc'[d] = "borrow" => pc[d] = "borrow" /\ call'[d] = call[d]
    BY <1>10 DEF Return
  <2>2. \A d \in Callers : Live(d)' => /\ Live(d) /\ call'[d].max = call[d].max
                                       /\ run'[d].tickets \in {0, run[d].tickets} /\ run'[d].joined = run[d].joined
    BY <1>10 DEF Return, Live, VpRun
  <2>3. \A g \in Helpers : Seated(g)' => Seated(g) /\ at'[g].run = at[g].run /\ at'[g].slot = at[g].slot
    BY <1>10 DEF Return, Seated
  <2> QED BY <1>0, <2>1, <2>2, <2>3
<1>11. ASSUME NEW t \in Threads, Claim(t) PROVE SlotsByJoining'
  <2>1. \A d \in Callers : pc'[d] = "borrow" => pc[d] = "borrow" /\ call'[d] = call[d]
    BY <1>11 DEF Claim
  <2>2. \A d \in Callers : Live(d)' => Live(d) /\ call'[d].max = call[d].max
    BY <1>11 DEF Claim, Live, Arguments
  <2>3. \A d \in Callers : run'[d].tickets = run[d].tickets /\ run'[d].joined = run[d].joined
    BY <1>11 DEF Claim, VpRun
  <2>4. \A g \in Helpers : Seated(g)' => Seated(g) /\ at'[g].run = at[g].run /\ at'[g].slot = at[g].slot
    BY <1>11 DEF Claim, Seated, Seat
  <2> QED BY <1>0, <2>1, <2>2, <2>3, <2>4
<1>12. ASSUME NEW t \in Threads, FnReturns(t) PROVE SlotsByJoining'
  <2>1. \A d \in Callers : pc'[d] = "borrow" => pc[d] = "borrow" /\ call'[d] = call[d]
    BY <1>12 DEF FnReturns
  <2>2. \A d \in Callers : Live(d)' => Live(d) /\ call'[d].max = call[d].max
    BY <1>12 DEF FnReturns, Live, Arguments
  <2>3. \A d \in Callers : run'[d].tickets = run[d].tickets /\ run'[d].joined = run[d].joined
    BY <1>12 DEF FnReturns, VpRun
  <2>4. \A g \in Helpers : Seated(g)' => Seated(g) /\ at'[g].run = at[g].run /\ at'[g].slot = at[g].slot
    BY <1>12 DEF FnReturns, Seated, Seat
  <2> QED BY <1>0, <2>1, <2>2, <2>3, <2>4
<1>13. ASSUME NEW t \in Threads, Lock(t) \/ SpuriousWake(t) PROVE SlotsByJoining'
  <2>1. \A d \in Callers : pc'[d] = "borrow" => pc[d] = "borrow" /\ call'[d] = call[d]
    BY <1>13 DEF Lock, SpuriousWake
  <2>2. \A d \in Callers : Live(d)' => Live(d) /\ call'[d].max = call[d].max
    BY <1>13 DEF Lock, SpuriousWake, Live, Arguments
  <2>3. \A d \in Callers : run'[d].tickets = run[d].tickets /\ run'[d].joined = run[d].joined
    BY <1>13 DEF Lock, SpuriousWake, VpRun
  <2>4. \A g \in Helpers : Seated(g)' => Seated(g) /\ at'[g].run = at[g].run /\ at'[g].slot = at[g].slot
    BY <1>13 DEF Lock, SpuriousWake, Seated, Seat
  <2> QED BY <1>0, <2>1, <2>2, <2>3, <2>4
<1>14. ASSUME NEW h \in Helpers, Sleep(h) PROVE SlotsByJoining'
  <2>1. \A d \in Callers : pc'[d] = "borrow" => pc[d] = "borrow" /\ call'[d] = call[d]
    BY <1>14 DEF Sleep
  <2>2. \A d \in Callers : Live(d)' => Live(d) /\ call'[d].max = call[d].max
    BY <1>14 DEF Sleep, Live, Arguments
  <2>3. \A d \in Callers : run'[d].tickets = run[d].tickets /\ run'[d].joined = run[d].joined
    BY <1>14 DEF Sleep, VpRun
  <2>4. \A g \in Helpers : Seated(g)' => Seated(g) /\ at'[g].run = at[g].run /\ at'[g].slot = at[g].slot
    BY <1>14 DEF Sleep, Seated, Seat
  <2> QED BY <1>0, <2>1, <2>2, <2>3, <2>4
<1>15. ASSUME NEW h \in Helpers, TakeSeat(h) PROVE SlotsByJoining'
  <2>1. head \in Callers /\ Queued(head) /\ ~Seated(h) /\ Live(head)
    BY <1>15, HeadQueued DEF TakeSeat, Seated
  <2>2. /\ run'[head].joined = run[head].joined + 1 /\ run'[head].tickets = run[head].tickets - 1
        /\ \A d \in Callers \ {head} : run'[d].joined = run[d].joined /\ run'[d].tickets = run[d].tickets
    BY <1>15, <2>1 DEF TakeSeat, VpRun
  <2>3. at'[h].run = head /\ at'[h].slot = run[head].joined + 1
    BY <1>15, <2>1 DEF TakeSeat, Slot, Seat, VpRun
  <2>4. \A g \in Helpers \ {h} : (Seated(g)' <=> Seated(g)) /\ at'[g] = at[g]
    BY <1>15 DEF TakeSeat, Seated
  <2>5. \A d \in Callers : pc'[d] = pc[d] /\ (Live(d)' <=> Live(d))
    BY <1>15 DEF TakeSeat, Live
  <2>6. call' = call /\ \A d \in Callers : run[d].joined \in Nat /\ run[d].tickets \in Nat /\ call[d].max \in Int
    BY <1>15 DEF TakeSeat, VpRun, Arguments
  <2>7. \A d \in Callers : (pc[d] = "borrow" /\ call[d].max >= 0 => call[d].want <= call[d].max)'
    BY <2>5, <2>6 DEF SlotsByJoining
  <2>8. \A d \in Callers : (Live(d) /\ call[d].max >= 0 => run[d].joined + run[d].tickets <= call[d].max)'
    BY <2>2, <2>5, <2>6, <2>1 DEF SlotsByJoining
  <2>9. \A g \in Helpers : (Seated(g) => at[g].slot \in 1 .. run[at[g].run].joined)'
    <3>1. at'[h].slot \in 1 .. run'[head].joined
      BY <2>1, <2>2, <2>3, <2>6
    <3>2. \A g \in Helpers \ {h} : Seated(g) => at[g].run \in Callers /\ at[g].slot \in 1 .. run[at[g].run].joined
      BY DEF SlotsByJoining, Frames
    <3> QED BY <3>1, <3>2, <2>1, <2>2, <2>3, <2>4, <2>6
  <2>10. ASSUME NEW g \in Helpers \ {h}, Seated(g), at[g].run = head PROVE at[g].slot # run[head].joined + 1
    BY <2>1, <2>6, <2>10 DEF SlotsByJoining
  <2>11. \A g, k \in Helpers :
           (Seated(k) /\ Seated(g) /\ k # g /\ at[k].run = at[g].run => at[k].slot # at[g].slot)'
    BY <2>3, <2>4, <2>10 DEF SlotsByJoining
  <2> QED BY <2>7, <2>8, <2>9, <2>11 DEF SlotsByJoining
<1>16. ASSUME NEW h \in Helpers, LeaveSeat(h) PROVE SlotsByJoining'
  <2>1. \A d \in Callers : pc'[d] = "borrow" => pc[d] = "borrow" /\ call'[d] = call[d]
    BY <1>16 DEF LeaveSeat
  <2>2. \A d \in Callers : Live(d)' => Live(d) /\ call'[d].max = call[d].max
    BY <1>16 DEF LeaveSeat, Live, Arguments
  <2>3. \A d \in Callers : run'[d].tickets = run[d].tickets /\ run'[d].joined = run[d].joined
    BY <1>16 DEF LeaveSeat, VpRun
  <2>4. \A g \in Helpers : Seated(g)' => Seated(g) /\ at'[g].run = at[g].run /\ at'[g].slot = at[g].slot
    BY <1>16 DEF LeaveSeat, Seated, Seat
  <2> QED BY <1>0, <2>1, <2>2, <2>3, <2>4
<1> QED
  BY <1>1, <1>2, <1>3, <1>4, <1>5, <1>6, <1>7, <1>8, <1>9, <1>10, <1>11, <1>12, <1>13,
     <1>14, <1>15, <1>16
  DEF Next, CallerStep, HelperStep, ChunkStep, BorrowStep
-----------------------------------------------------------------------------
(* A thread is in fn only for a live run. *)
LEMMA InCallLive ==
  ASSUME Places, Frames, NEW t \in Threads, NEW c \in Callers, InCall(t, c)
  PROVE  Live(c) /\ (t \in Callers => t = c)
<1>1. Live(c)
  BY ServesLive DEF InCall
<1>2. t \in Callers => t = c
  BY DEF InCall, Frames, Live
<1> QED BY <1>1, <1>2
-----------------------------------------------------------------------------
(* An action that changes nothing the claims are about. *)
LEMMA ClaimsSame ==
  ASSUME TypeOK, Places, Frames, Claims,
         \A d \in Callers : Live(d)' <=> Live(d),
         \A d \in Callers : pc'[d] \in Leaving => pc[d] \in Leaving,
         \A d \in Callers : ~Live(d) => (pc'[d] = "served" <=> pc[d] = "served"),
         \A d \in Callers : Live(d) \/ pc[d] = "served" => call'[d].n = call[d].n,
         \A d \in Callers : Live(d) => call'[d].chunk = call[d].chunk /\ run'[d].next = run[d].next,
         \A t \in Threads : pc'[t] = "call" <=> pc[t] = "call",
         \A t \in Threads : pc[t] = "call" => at'[t] = at[t],
         done' = done
  PROVE  Claims'
<1>1. \A t \in Threads, c \in Callers : InCall(t, c)' <=> InCall(t, c)
  BY DEF InCall
<1>2. \A t \in Threads, c \in Callers : InCall(t, c) =>
        Live(c) /\ at[t].run = c /\ at'[t].run = c /\ at'[t].lo = at[t].lo
  BY InCallLive DEF InCall
<1>3. \A t \in Threads, c \in Callers : InCall(t, c) => Chunk(t)' = Chunk(t)
  BY <1>2 DEF Chunk
<1>4. \A c \in Callers : Live(c) => Claimed(c)' = Claimed(c)
  BY DEF Claimed
<1>5. ASSUME NEW t \in Threads, NEW c \in Callers
      PROVE  (InCall(t, c) => at[t].lo < call[c].n /\ at[t].lo + call[c].chunk <= run[c].next)'
  BY <1>1, <1>2 DEF Claims
<1>6. \A c \in Callers : (Live(c) => done[c] \subseteq Claimed(c))'
  BY <1>4 DEF Claims
<1>7. \A c \in Callers : (Live(c) => \A i \in Claimed(c) :
        i \in done[c] \/ \E t \in Threads : InCall(t, c) /\ i \in Chunk(t))'
  BY <1>1, <1>3, <1>4 DEF Claims
<1>8. \A c \in Callers : (pc[c] \in Leaving => run[c].next >= call[c].n)'
  <2>1. \A c \in Callers : pc[c] \in Leaving => Live(c)
    BY DEF Leaving, Live
  <2> QED BY <2>1 DEF Claims
<1>9. \A c \in Callers : (~Live(c) => done[c] = IF pc[c] = "served" THEN 0 .. call[c].n - 1 ELSE {})'
  BY DEF Claims
<1> QED BY <1>5, <1>6, <1>7, <1>8, <1>9 DEF Claims
-----------------------------------------------------------------------------
LEMMA NextClaims ==
  ASSUME IInv, Next
  PROVE  Claims'
<1> USE PoolAssumption DEF TypeOK, Threads, Goto, Places, CallerPlaces, HelperPlaces, shared
<1>a. TypeOK /\ Places /\ Frames /\ FramesOutliveUses /\ RunningCounts /\ Claims
  BY DEF IInv
<1> USE <1>a
<1>c. \A t \in Threads, c \in Callers : InCall(t, c) =>
        at[t].lo < call[c].n /\ at[t].lo + call[c].chunk <= run[c].next
  BY DEF Claims
<1>d. \A c \in Callers : Live(c) => done[c] \subseteq Claimed(c)
  BY DEF Claims
<1>e. \A c \in Callers : Live(c) => \A i \in Claimed(c) :
        i \in done[c] \/ \E t \in Threads : InCall(t, c) /\ i \in Chunk(t)
  BY DEF Claims
<1>f. \A c \in Callers : pc[c] \in Leaving => run[c].next >= call[c].n
  BY DEF Claims
<1>1. ASSUME NEW k \in CoreSettings, VesPool_configure(k) PROVE Claims'
  <2>1. \A d \in Callers : Live(d)' <=> Live(d)
    BY <1>1 DEF VesPool_configure, Live
  <2>2. \A d \in Callers : pc'[d] \in Leaving => pc[d] \in Leaving
    BY <1>1 DEF VesPool_configure, Leaving
  <2>3. \A d \in Callers : ~Live(d) => (pc'[d] = "served" <=> pc[d] = "served")
    BY <1>1 DEF VesPool_configure, Live
  <2>4. \A d \in Callers : Live(d) \/ pc[d] = "served" => call'[d].n = call[d].n
    BY <1>1 DEF VesPool_configure, Live
  <2>5. \A d \in Callers : Live(d) => call'[d].chunk = call[d].chunk /\ run'[d].next = run[d].next
    BY <1>1 DEF VesPool_configure, Live, VpRun
  <2>6. \A u \in Threads : pc'[u] = "call" <=> pc[u] = "call"
    BY <1>1 DEF VesPool_configure
  <2>7. \A u \in Threads : pc[u] = "call" => at'[u] = at[u]
    BY <1>1 DEF VesPool_configure
  <2>8. done' = done
    BY <1>1 DEF VesPool_configure
  <2> HIDE DEF TypeOK, Threads, Places
  <2> QED BY <2>1, <2>2, <2>3, <2>4, <2>5, <2>6, <2>7, <2>8, ClaimsSame
<1>2. ASSUME NEW c \in Callers, VesPool_job_enter(c) \/ VesPool_job_leave(c) PROVE Claims'
  <2>1. \A d \in Callers : Live(d)' <=> Live(d)
    BY <1>2 DEF VesPool_job_enter, VesPool_job_leave, Live
  <2>2. \A d \in Callers : pc'[d] \in Leaving => pc[d] \in Leaving
    BY <1>2 DEF VesPool_job_enter, VesPool_job_leave, Leaving
  <2>3. \A d \in Callers : ~Live(d) => (pc'[d] = "served" <=> pc[d] = "served")
    BY <1>2 DEF VesPool_job_enter, VesPool_job_leave, Live
  <2>4. \A d \in Callers : Live(d) \/ pc[d] = "served" => call'[d].n = call[d].n
    BY <1>2 DEF VesPool_job_enter, VesPool_job_leave, Live
  <2>5. \A d \in Callers : Live(d) => call'[d].chunk = call[d].chunk /\ run'[d].next = run[d].next
    BY <1>2 DEF VesPool_job_enter, VesPool_job_leave, Live, VpRun
  <2>6. \A u \in Threads : pc'[u] = "call" <=> pc[u] = "call"
    BY <1>2 DEF VesPool_job_enter, VesPool_job_leave
  <2>7. \A u \in Threads : pc[u] = "call" => at'[u] = at[u]
    BY <1>2 DEF VesPool_job_enter, VesPool_job_leave
  <2>8. done' = done
    BY <1>2 DEF VesPool_job_enter, VesPool_job_leave
  <2> HIDE DEF TypeOK, Threads, Places
  <2> QED BY <2>1, <2>2, <2>3, <2>4, <2>5, <2>6, <2>7, <2>8, ClaimsSame
<1>3. ASSUME NEW c \in Callers, NEW w \in Works, Enter(c, w) PROVE Claims'
  <2>1. \A d \in Callers : Live(d)' <=> Live(d)
    BY <1>3 DEF Enter, Live
  <2>2. \A d \in Callers : pc'[d] \in Leaving => pc[d] \in Leaving
    BY <1>3 DEF Enter, Leaving
  <2>3. \A d \in Callers : ~Live(d) => (pc'[d] = "served" <=> pc[d] = "served")
    BY <1>3 DEF Enter, Live
  <2>4. \A d \in Callers : Live(d) \/ pc[d] = "served" => call'[d].n = call[d].n
    BY <1>3 DEF Enter, Live
  <2>5. \A d \in Callers : Live(d) => call'[d].chunk = call[d].chunk /\ run'[d].next = run[d].next
    BY <1>3 DEF Enter, Live, VpRun
  <2>6. \A u \in Threads : pc'[u] = "call" <=> pc[u] = "call"
    BY <1>3 DEF Enter
  <2>7. \A u \in Threads : pc[u] = "call" => at'[u] = at[u]
    BY <1>3 DEF Enter
  <2>8. done' = done
    BY <1>3 DEF Enter
  <2> HIDE DEF TypeOK, Threads, Places
  <2> QED BY <2>1, <2>2, <2>3, <2>4, <2>5, <2>6, <2>7, <2>8, ClaimsSame
<1>4. ASSUME NEW c \in Callers, Share(c) PROVE Claims'
  <2> DEFINE share  == VesPool_share(call[c].want, Cardinality(jobs))
             chunks == (call[c].n + call[c].chunk - 1) \div call[c].chunk
             most   == Least(share, call[c].max)
             want   == IF ExceedsAsSize(most, chunks - 1) THEN chunks - 1 ELSE most
  <2>0. call' = [call EXCEPT ![c].want = want] /\ pc[c] = "share" /\ UNCHANGED <<run, at, done>>
        /\ (Goto(c, "serial") \/ Goto(c, "borrow"))
    BY <1>4 DEF Share
  <2> HIDE DEF want
  <2>1. \A d \in Callers : Live(d)' <=> Live(d)
    BY <2>0 DEF Live
  <2>2. \A d \in Callers : pc'[d] \in Leaving => pc[d] \in Leaving
    BY <2>0 DEF Leaving
  <2>3. \A d \in Callers : ~Live(d) => (pc'[d] = "served" <=> pc[d] = "served")
    BY <2>0 DEF Live
  <2>4. \A d \in Callers : Live(d) \/ pc[d] = "served" => call'[d].n = call[d].n
    BY <2>0 DEF Live
  <2>5. \A d \in Callers : Live(d) => call'[d].chunk = call[d].chunk /\ run'[d].next = run[d].next
    BY <2>0 DEF Live, VpRun
  <2>6. \A u \in Threads : pc'[u] = "call" <=> pc[u] = "call"
    BY <2>0
  <2>7. \A u \in Threads : pc[u] = "call" => at'[u] = at[u]
    BY <2>0
  <2>8. done' = done
    BY <2>0
  <2> HIDE DEF TypeOK, Threads, Places
  <2> QED BY <2>1, <2>2, <2>3, <2>4, <2>5, <2>6, <2>7, <2>8, ClaimsSame
<1>5. ASSUME NEW c \in Callers, NEW S \in SUBSET Helpers, BorrowNone(c, S) PROVE Claims'
  <2>1. \A d \in Callers : Live(d)' <=> Live(d)
    BY <1>5 DEF BorrowNone, Spawnable, Live
  <2>2. \A d \in Callers : pc'[d] \in Leaving => pc[d] \in Leaving
    BY <1>5 DEF BorrowNone, Spawnable, Leaving
  <2>3. \A d \in Callers : ~Live(d) => (pc'[d] = "served" <=> pc[d] = "served")
    BY <1>5 DEF BorrowNone, Spawnable, Live
  <2>4. \A d \in Callers : Live(d) \/ pc[d] = "served" => call'[d].n = call[d].n
    BY <1>5 DEF BorrowNone, Spawnable, Live
  <2>5. \A d \in Callers : Live(d) => call'[d].chunk = call[d].chunk /\ run'[d].next = run[d].next
    BY <1>5 DEF BorrowNone, Spawnable, Live, VpRun
  <2>6. \A u \in Threads : pc'[u] = "call" <=> pc[u] = "call"
    BY <1>5 DEF BorrowNone, Spawnable
  <2>7. \A u \in Threads : pc[u] = "call" => at'[u] = at[u]
    BY <1>5 DEF BorrowNone, Spawnable
  <2>8. done' = done
    BY <1>5 DEF BorrowNone, Spawnable
  <2> HIDE DEF TypeOK, Threads, Places
  <2> QED BY <2>1, <2>2, <2>3, <2>4, <2>5, <2>6, <2>7, <2>8, ClaimsSame
<1>6. ASSUME NEW c \in Callers, NEW S \in SUBSET Helpers, NEW W \in SUBSET Helpers, Borrow(c, S, W)
      PROVE  Claims'
  <2>1. pc[c] = "borrow" /\ ~Live(c) /\ c # tail /\ done[c] = {} /\ call' = call /\ done' = done
    BY <1>6 DEF Borrow, Live, Claims, FramesOutliveUses
  <2>2. \A d \in Callers \ {c} : /\ pc'[d] = pc[d] \/ (pc[d] = "locking" /\ pc'[d] = "locking")
                                 /\ run'[d].next = run[d].next
    BY <1>6 DEF Borrow, Woken, Asleep, VpRun
  <2>3. pc'[c] = "chunks" /\ run'[c].next = 0
    BY <1>6 DEF Borrow, NoRun
  <2>4. \A t \in Threads : pc'[t] = "call" <=> pc[t] = "call"
    BY <1>6 DEF Borrow, Spawnable, Woken, Asleep
  <2>5. \A t \in Threads : pc[t] = "call" => at'[t] = at[t]
    BY <1>6 DEF Borrow
  <2>6. \A d \in Callers \ {c} : Live(d)' <=> Live(d)
    BY <2>2 DEF Live
  <2>7. \A t \in Threads, d \in Callers : InCall(t, d) => d # c /\ Live(d)
    BY <2>1, InCallLive
  <2>8. \A t \in Threads, d \in Callers : InCall(t, d)' <=> InCall(t, d)
    BY <2>4, <2>5 DEF InCall
  <2>9. \A t \in Threads, d \in Callers : InCall(t, d) => at'[t] = at[t] /\ at[t].run = d /\ Chunk(t)' = Chunk(t)
    BY <2>1, <2>5 DEF Chunk, InCall
  <2>10. Claimed(c)' = {} /\ \A d \in Callers \ {c} : Claimed(d)' = Claimed(d)
    <3>1. call'[c].n \in Nat
      BY <2>1 DEF Arguments
    <3>2. Least(run'[c].next, call'[c].n) - 1 = -1
      BY <3>1, <2>3 DEF Least
    <3>3. Claimed(c)' = {}
      BY <3>2 DEF Claimed
    <3>4. \A d \in Callers \ {c} : Claimed(d)' = Claimed(d)
      BY <2>1, <2>2 DEF Claimed
    <3> QED BY <3>3, <3>4
  <2>11. ASSUME NEW t \in Threads, NEW d \in Callers
         PROVE  (InCall(t, d) => at[t].lo < call[d].n /\ at[t].lo + call[d].chunk <= run[d].next)'
    BY <2>1, <2>2, <2>7, <2>8, <2>9 DEF Claims
  <2>12. \A d \in Callers : (Live(d) => done[d] \subseteq Claimed(d))'
    BY <2>1, <2>6, <2>10 DEF Claims
  <2>13. \A d \in Callers : (Live(d) => \A i \in Claimed(d) :
           i \in done[d] \/ \E t \in Threads : InCall(t, d) /\ i \in Chunk(t))'
    BY <2>1, <2>6, <2>8, <2>9, <2>10 DEF Claims
  <2>14. \A d \in Callers : (pc[d] \in Leaving => run[d].next >= call[d].n)'
    BY <2>1, <2>2, <2>3 DEF Claims, Leaving
  <2>15. \A d \in Callers : (~Live(d) => done[d] = IF pc[d] = "served" THEN 0 .. call[d].n - 1 ELSE {})'
    BY <2>1, <2>2, <2>3, <2>6 DEF Claims, Live
  <2> QED BY <2>11, <2>12, <2>13, <2>14, <2>15 DEF Claims
<1>7. ASSUME NEW c \in Callers, Serial(c) PROVE Claims'
  <2>1. ~Live(c) /\ ~Live(c)' /\ pc'[c] = "served" /\ done'[c] = 0 .. call[c].n - 1
    BY <1>7 DEF Serial, Live
  <2>2. \A d \in Callers \ {c} : pc'[d] = pc[d] /\ done'[d] = done[d] /\ (Live(d)' <=> Live(d))
    BY <1>7 DEF Serial, Live
  <2>3. call' = call /\ run' = run /\ at' = at
    BY <1>7 DEF Serial
  <2>4. \A t \in Threads : pc'[t] = "call" <=> pc[t] = "call"
    BY <1>7 DEF Serial
  <2>5. \A t \in Threads, d \in Callers : (InCall(t, d)' <=> InCall(t, d)) /\ Chunk(t)' = Chunk(t)
    BY <2>3, <2>4 DEF InCall, Chunk
  <2>6. \A d \in Callers : Claimed(d)' = Claimed(d)
    BY <2>3 DEF Claimed
  <2>7. "served" \notin Leaving
    BY DEF Leaving
  <2> HIDE DEF Live
  <2>8. \A t \in Threads, d \in Callers :
          (InCall(t, d) => at[t].lo < call[d].n /\ at[t].lo + call[d].chunk <= run[d].next)'
    BY <2>3, <2>5 DEF Claims
  <2>9. \A d \in Callers : (Live(d) => done[d] \subseteq Claimed(d))'
    BY <2>1, <2>2, <2>6 DEF Claims
  <2>10. \A d \in Callers : (Live(d) => \A i \in Claimed(d) :
           i \in done[d] \/ \E t \in Threads : InCall(t, d) /\ i \in Chunk(t))'
    BY <2>1, <2>2, <2>5, <2>6 DEF Claims
  <2>11. \A d \in Callers : (pc[d] \in Leaving => run[d].next >= call[d].n)'
    BY <2>1, <2>2, <2>3, <2>7 DEF Claims
  <2>12. \A d \in Callers : (~Live(d) => done[d] = IF pc[d] = "served" THEN 0 .. call[d].n - 1 ELSE {})'
    BY <2>1, <2>2, <2>3 DEF Claims
  <2> QED BY <2>8, <2>9, <2>10, <2>11, <2>12 DEF Claims
<1>8. ASSUME NEW c \in Callers, CancelSeats(c) PROVE Claims'
  <2>1. \A d \in Callers : Live(d)' <=> Live(d)
    BY <1>8 DEF CancelSeats, Live
  <2>2. \A d \in Callers : pc'[d] \in Leaving => pc[d] \in Leaving
    BY <1>8 DEF CancelSeats, Leaving
  <2>3. \A d \in Callers : ~Live(d) => (pc'[d] = "served" <=> pc[d] = "served")
    BY <1>8 DEF CancelSeats, Live
  <2>4. \A d \in Callers : Live(d) \/ pc[d] = "served" => call'[d].n = call[d].n
    BY <1>8 DEF CancelSeats, Live
  <2>5. \A d \in Callers : Live(d) => call'[d].chunk = call[d].chunk /\ run'[d].next = run[d].next
    BY <1>8 DEF CancelSeats, Live, VpRun
  <2>6. \A u \in Threads : pc'[u] = "call" <=> pc[u] = "call"
    BY <1>8 DEF CancelSeats
  <2>7. \A u \in Threads : pc[u] = "call" => at'[u] = at[u]
    BY <1>8 DEF CancelSeats
  <2>8. done' = done
    BY <1>8 DEF CancelSeats
  <2> HIDE DEF TypeOK, Threads, Places
  <2> QED BY <2>1, <2>2, <2>3, <2>4, <2>5, <2>6, <2>7, <2>8, ClaimsSame
<1>9. ASSUME NEW c \in Callers, AwaitHelpers(c) PROVE Claims'
  <2>1. \A d \in Callers : Live(d)' <=> Live(d)
    BY <1>9 DEF AwaitHelpers, Live
  <2>2. \A d \in Callers : pc'[d] \in Leaving => pc[d] \in Leaving
    BY <1>9 DEF AwaitHelpers, Leaving
  <2>3. \A d \in Callers : ~Live(d) => (pc'[d] = "served" <=> pc[d] = "served")
    BY <1>9 DEF AwaitHelpers, Live
  <2>4. \A d \in Callers : Live(d) \/ pc[d] = "served" => call'[d].n = call[d].n
    BY <1>9 DEF AwaitHelpers, Live
  <2>5. \A d \in Callers : Live(d) => call'[d].chunk = call[d].chunk /\ run'[d].next = run[d].next
    BY <1>9 DEF AwaitHelpers, Live, VpRun
  <2>6. \A u \in Threads : pc'[u] = "call" <=> pc[u] = "call"
    BY <1>9 DEF AwaitHelpers
  <2>7. \A u \in Threads : pc[u] = "call" => at'[u] = at[u]
    BY <1>9 DEF AwaitHelpers
  <2>8. done' = done
    BY <1>9 DEF AwaitHelpers
  <2> HIDE DEF TypeOK, Threads, Places
  <2> QED BY <2>1, <2>2, <2>3, <2>4, <2>5, <2>6, <2>7, <2>8, ClaimsSame
<1>10. ASSUME NEW c \in Callers, Return(c) PROVE Claims'
  <2>1. ~Live(c)' /\ pc'[c] = "out" /\ done'[c] = {}
    BY <1>10 DEF Return, Live
  <2>2. \A d \in Callers \ {c} : /\ pc'[d] = pc[d] /\ done'[d] = done[d] /\ (Live(d)' <=> Live(d))
                                 /\ call'[d] = call[d] /\ run'[d] = run[d] /\ at'[d] = at[d]
    BY <1>10 DEF Return, Live
  <2>3. \A h \in Helpers : pc'[h] = pc[h] /\ at'[h] = at[h]
    BY <1>10 DEF Return
  <2>4. \A t \in Threads, d \in Callers : InCall(t, d) => d # c
    <3>1. CASE ~Live(c)
      BY <3>1, InCallLive
    <3>2. CASE Live(c)
      <4>1. HelpersGone(c) /\ pc[c] = "drain"
        BY <1>10, <3>2 DEF Return, Live
      <4>2. \A h \in Helpers : ~InCall(h, c)
        BY <4>1, NoHelperLeft DEF InCall, Seated
      <4>3. \A d \in Callers : ~InCall(d, c)
        BY <4>1, InCallLive DEF InCall
      <4> QED BY <4>2, <4>3
    <3> QED BY <3>1, <3>2
  <2>5. \A t \in Threads, d \in Callers : InCall(t, d)' => InCall(t, d)
    BY <1>10, <2>2, <2>3 DEF InCall, Return, NoSeat
  <2>6. \A t \in Threads, d \in Callers : InCall(t, d) =>
          t # c /\ at'[t] = at[t] /\ at[t].run = d /\ InCall(t, d)'
    <3> SUFFICES ASSUME NEW t \in Threads, NEW d \in Callers, InCall(t, d) PROVE t # c /\ at'[t] = at[t] /\ at[t].run = d /\ InCall(t, d)'
      OBVIOUS
    <3>1. t # c
      BY <2>4, InCallLive
    <3> QED BY <3>1, <2>2, <2>3 DEF InCall
  <2>7. \A t \in Threads, d \in Callers : InCall(t, d) => Chunk(t)' = Chunk(t)
    BY <2>2, <2>4, <2>6 DEF Chunk
  <2>8. \A d \in Callers \ {c} : Claimed(d)' = Claimed(d)
    BY <2>2 DEF Claimed
  <2>9. "out" \notin Leaving
    BY DEF Leaving
  <2> HIDE DEF Live
  <2>10. \A t \in Threads, d \in Callers :
           (InCall(t, d) => at[t].lo < call[d].n /\ at[t].lo + call[d].chunk <= run[d].next)'
    BY <2>2, <2>4, <2>5, <2>6 DEF Claims
  <2>11. \A d \in Callers : (Live(d) => done[d] \subseteq Claimed(d))'
    BY <2>1, <2>2, <2>8 DEF Claims
  <2>12. \A d \in Callers : (Live(d) => \A i \in Claimed(d) :
           i \in done[d] \/ \E t \in Threads : InCall(t, d) /\ i \in Chunk(t))'
    BY <2>1, <2>2, <2>6, <2>7, <2>8 DEF Claims
  <2>13. \A d \in Callers : (pc[d] \in Leaving => run[d].next >= call[d].n)'
    BY <2>1, <2>2, <2>9 DEF Claims
  <2>14. \A d \in Callers : (~Live(d) => done[d] = IF pc[d] = "served" THEN 0 .. call[d].n - 1 ELSE {})'
    BY <2>1, <2>2 DEF Claims
  <2> QED BY <2>10, <2>11, <2>12, <2>13, <2>14 DEF Claims
<1>11. ASSUME NEW t \in Threads, Claim(t) PROVE Claims'
  <2>r. PICK r \in Callers : r = at[t].run /\ Live(r)
    BY <1>11, ServesLive DEF Claim
  <2>s. PICK s \in Nat : s = run[r].next
    BY  DEF VpRun
  <2>1. pc[t] = "chunks" /\ r \in Callers /\ Live(r)
    BY <1>11, <2>r DEF Claim
  <2>2. s \in Nat /\ call[r].chunk \in Nat \ {0} /\ call[r].n \in Nat
    BY <2>1, <2>s DEF VpRun, Arguments
  <2>3. run'[r].next = s + call[r].chunk /\ \A d \in Callers \ {r} : run'[d].next = run[d].next
    BY <1>11, <2>1, <2>r, <2>s DEF Claim, VpRun
  <2>4. call' = call /\ done' = done
    BY <1>11 DEF Claim
  <2>5. \A u \in Threads \ {t} : pc'[u] = pc[u] /\ at'[u] = at[u]
    BY <1>11 DEF Claim
  <2>6. \A d \in Callers : ~Live(d) => pc'[d] = pc[d]
    BY <1>11, <2>5, <2>1, <2>r DEF Claim, Live, Frames
  <2>7. \A d \in Callers : Live(d)' <=> Live(d)
    BY <1>11 DEF Claim, Live
  <2>8. \A u \in Threads \ {t}, d \in Callers : (InCall(u, d)' <=> InCall(u, d))
    BY <2>5 DEF InCall
  <2>9. \A u \in Threads \ {t}, d \in Callers : InCall(u, d) => Chunk(u)' = Chunk(u)
    BY <2>4, <2>5 DEF Chunk, InCall
  <2>10. \A d \in Callers : ~InCall(t, d)
    BY <2>1 DEF InCall
  <2>11. CASE s < call[r].n
    <3>0. at' = [at EXCEPT ![t].lo = s] /\ pc'[t] = "call"
      BY <1>11, <2>11, <2>1, <2>2, <2>r, <2>s DEF Claim
    <3>1. at'[t].run = r /\ at'[t].lo = s /\ pc'[t] = "call"
      BY <3>0, <2>r DEF Seat
    <3>2. \A d \in Callers : InCall(t, d)' <=> d = r
      BY <3>1 DEF InCall
    <3>3. Chunk(t)' = s .. Least(s + call[r].chunk, call[r].n) - 1
      BY <3>1, <2>4 DEF Chunk
    <3>4. Claimed(r) = 0 .. s - 1 /\ Claimed(r)' = 0 .. Least(s + call[r].chunk, call[r].n) - 1
      <4>1. Claimed(r) = 0 .. Least(s, call[r].n) - 1
        BY <2>s DEF Claimed
      <4>2. Claimed(r)' = 0 .. Least(s + call[r].chunk, call[r].n) - 1
        BY <2>3, <2>4 DEF Claimed
      <4>3. Least(s, call[r].n) = s
        BY <2>2, <2>11 DEF Least
      <4> QED BY <4>1, <4>2, <4>3
    <3>5. Claimed(r)' = Claimed(r) \cup Chunk(t)' /\ \A d \in Callers \ {r} : Claimed(d)' = Claimed(d)
      <4>1. Claimed(r)' = Claimed(r) \cup Chunk(t)'
        BY <3>3, <3>4, <2>2, <2>11 DEF Least
      <4>2. \A d \in Callers \ {r} : Claimed(d)' = Claimed(d)
        BY <2>3, <2>4 DEF Claimed
      <4> QED BY <4>1, <4>2
    <3>6. \A d \in Callers : pc'[d] \in Leaving => pc[d] \in Leaving /\ d # t
      BY <3>1, <2>5 DEF Leaving
    <3> HIDE DEF Live
    <3>7. ASSUME NEW u \in Threads, NEW d \in Callers
          PROVE  (InCall(u, d) => at[u].lo < call[d].n /\ at[u].lo + call[d].chunk <= run[d].next)'
      <4>1. CASE u = t
        BY <4>1, <3>1, <3>2, <2>3, <2>4, <2>11, <2>2
      <4>2. CASE u # t /\ d # r
        BY <4>2, <2>3, <2>4, <2>5, <2>8 DEF Claims
      <4>3. CASE u # t /\ d = r
        <5>1. InCall(u, r)' => at[u].lo < call[r].n /\ at[u].lo + call[r].chunk <= s
          BY <4>3, <2>1, <2>8, <1>c, <2>s
        <5>2. at[u].lo \in Nat /\ at'[u] = at[u]
          BY <4>3, <2>5 DEF Seat
        <5>3. InCall(u, r)' => at[u].lo + call[r].chunk <= s + call[r].chunk
          BY <5>1, <5>2, <2>2
        <5>4. InCall(u, r)' => at'[u].lo < call'[r].n /\ at'[u].lo + call'[r].chunk <= run'[r].next
          BY <5>1, <5>2, <5>3, <2>3, <2>4
        <5> QED BY <4>3, <5>4
      <4> QED BY <4>1, <4>2, <4>3
    <3>8. ASSUME NEW d \in Callers PROVE (Live(d) => done[d] \subseteq Claimed(d))'
      <4>1. Live(d)' => done'[d] \subseteq Claimed(d)
        BY <2>4, <2>7, <1>d
      <4>2. Claimed(d) \subseteq Claimed(d)'
        BY <3>5
      <4> QED BY <4>1, <4>2
    <3>9. ASSUME NEW d \in Callers, Live(d)', NEW i \in Claimed(d)'
          PROVE  i \in done'[d] \/ \E u \in Threads : InCall(u, d)' /\ i \in Chunk(u)'
      <4>1. CASE i \in Claimed(d)
        <5>1. i \in done[d] \/ \E u \in Threads : InCall(u, d) /\ i \in Chunk(u)
          BY <4>1, <3>9, <2>7 DEF Claims
        <5> QED BY <5>1, <2>4, <2>8, <2>9, <2>10
      <4>2. CASE i \notin Claimed(d)
        <5>1. d = r
          BY <4>2, <3>5, <3>9
        <5>2. i \in Chunk(t)'
          BY <5>1, <4>2, <3>5, <3>9
        <5>3. InCall(t, d)'
          BY <5>1, <3>2
        <5> QED BY <5>2, <5>3
      <4> QED BY <4>1, <4>2
    <3>10. \A d \in Callers : (pc[d] \in Leaving => run[d].next >= call[d].n)'
      <4>1. \A d \in Callers : run'[d].next = run[d].next \/ (d = r /\ run'[d].next = s + call[r].chunk)
        BY <2>3
      <4>2. \A d \in Callers : run[d].next \in Nat /\ call[d].n \in Nat
        BY  DEF VpRun, Arguments
      <4> QED BY <4>1, <4>2, <3>6, <2>2, <2>4, <2>s DEF Claims
    <3>11. \A d \in Callers : (~Live(d) => done[d] = IF pc[d] = "served" THEN 0 .. call[d].n - 1 ELSE {})'
      BY <2>4, <2>6, <2>7 DEF Claims
    <3> QED BY <3>7, <3>8, <3>9, <3>10, <3>11 DEF Claims
  <2>12. CASE s >= call[r].n
    <3>1. at' = at /\ pc'[t] \in {"finish", "back"} /\ (t \in Callers => t = r)
      <4>1. at' = at /\ pc'[t] = IF t \in Callers THEN "finish" ELSE "back"
        BY <1>11, <2>1, <2>2, <2>12, <2>r, <2>s DEF Claim
      <4>2. t \in Callers => t = r
        BY <2>1, <2>r DEF Frames, Live
      <4> QED BY <4>1, <4>2
    <3>2. \A u \in Threads, d \in Callers : InCall(u, d)' <=> InCall(u, d)
      BY <3>1, <2>8, <2>10 DEF InCall
    <3>3. \A u \in Threads, d \in Callers : InCall(u, d) => Chunk(u)' = Chunk(u) /\ at'[u].lo = at[u].lo
      BY <3>1, <2>9, <2>10
    <3>4. Claimed(r)' = Claimed(r) /\ \A d \in Callers \ {r} : Claimed(d)' = Claimed(d)
      <4>1. Claimed(r)' = Claimed(r)
        <5>1. Claimed(r) = 0 .. Least(s, call[r].n) - 1
          BY <2>s DEF Claimed
        <5>2. Claimed(r)' = 0 .. Least(s + call[r].chunk, call[r].n) - 1
          BY <2>3, <2>4 DEF Claimed
        <5>3. Least(s, call[r].n) = call[r].n /\ Least(s + call[r].chunk, call[r].n) = call[r].n
          BY <2>2, <2>12 DEF Least
        <5> QED BY <5>1, <5>2, <5>3
      <4>2. \A d \in Callers \ {r} : Claimed(d)' = Claimed(d)
        BY <2>3, <2>4 DEF Claimed
      <4> QED BY <4>1, <4>2
    <3>5. \A d \in Callers : pc'[d] \in Leaving => pc[d] \in Leaving \/ d = r
      BY <3>1, <2>5
    <3> HIDE DEF Live
    <3>6. \A d \in Callers : run[d].next \in Nat /\ call[d].n \in Nat
      BY  DEF VpRun, Arguments
    <3>7. \A d \in Callers : run'[d].next \in Nat /\ run'[d].next >= run[d].next
      BY <2>2, <2>3, <3>6, <2>s
    <3>8. ASSUME NEW u \in Threads, NEW d \in Callers
          PROVE  (InCall(u, d) => at[u].lo < call[d].n /\ at[u].lo + call[d].chunk <= run[d].next)'
      <4>1. at[u].lo \in Nat /\ call[d].chunk \in Nat
        BY  DEF Seat, Arguments
      <4> QED BY <4>1, <3>2, <3>3, <3>6, <3>7, <2>4 DEF Claims
    <3>9. ASSUME NEW d \in Callers PROVE (Live(d) => done[d] \subseteq Claimed(d))'
      <4>1. Claimed(d)' = Claimed(d)
        BY <3>4
      <4> QED BY <4>1, <2>4, <2>7, <1>d
    <3>10. ASSUME NEW d \in Callers, Live(d)', NEW i \in Claimed(d)'
           PROVE  i \in done'[d] \/ \E u \in Threads : InCall(u, d)' /\ i \in Chunk(u)'
      <4>1. i \in Claimed(d)
        BY <3>4, <3>10
      <4>2. i \in done[d] \/ \E u \in Threads : InCall(u, d) /\ i \in Chunk(u)
        BY <4>1, <3>10, <2>7, <1>e
      <4> QED BY <4>2, <3>2, <3>3, <2>4
    <3>11. \A d \in Callers : (pc[d] \in Leaving => run[d].next >= call[d].n)'
      <4>1. run'[r].next >= call[r].n
        BY <2>2, <2>3, <2>12
      <4>2. ASSUME NEW d \in Callers, pc[d] \in Leaving PROVE run'[d].next >= call[d].n
        BY <4>2, <3>6, <3>7, <1>f
      <4> QED BY <4>1, <4>2, <3>5, <2>4
    <3>12. \A d \in Callers : (~Live(d) => done[d] = IF pc[d] = "served" THEN 0 .. call[d].n - 1 ELSE {})'
      BY <2>4, <2>6, <2>7 DEF Claims
    <3> QED BY <3>8, <3>9, <3>10, <3>11, <3>12 DEF Claims
  <2> QED BY <2>2, <2>11, <2>12
<1>12. ASSUME NEW t \in Threads, FnReturns(t) PROVE Claims'
  <2>r. PICK r \in Callers : r = at[t].run /\ Live(r)
    BY <1>12, ServesLive DEF FnReturns
  <2>1. pc[t] = "call" /\ r \in Callers /\ Live(r) /\ InCall(t, r)
    BY <1>12, <2>r DEF FnReturns, InCall
  <2>2. done'[r] = done[r] \cup Chunk(t) /\ \A d \in Callers \ {r} : done'[d] = done[d]
    BY <1>12, <2>1, <2>r DEF FnReturns
  <2>3. call' = call /\ run' = run
    BY <1>12 DEF FnReturns
  <2>4. \A u \in Threads \ {t} : pc'[u] = pc[u] /\ at'[u] = at[u]
    BY <1>12 DEF FnReturns
  <2>5. pc'[t] = "chunks"
    BY <1>12 DEF FnReturns
  <2>6. \A d \in Callers : (Live(d)' <=> Live(d)) /\ (~Live(d) => d # t)
    BY <2>1, <2>4, <2>5 DEF Live
  <2>7. \A u \in Threads, d \in Callers : InCall(u, d)' <=> InCall(u, d) /\ u # t
    BY <2>4, <2>5 DEF InCall
  <2>8. \A u \in Threads \ {t} : Chunk(u)' = Chunk(u)
    BY <2>3, <2>4 DEF Chunk
  <2>9. \A d \in Callers : Claimed(d)' = Claimed(d)
    BY <2>3 DEF Claimed
  <2>10. Chunk(t) \subseteq Claimed(r)
    <3>1. at[t].lo < call[r].n /\ at[t].lo + call[r].chunk <= run[r].next
      BY <2>1 DEF Claims
    <3>2. at[t].lo \in Nat /\ call[r].n \in Nat /\ call[r].chunk \in Nat /\ run[r].next \in Nat
      BY <2>1 DEF Seat, Arguments, VpRun
    <3> QED BY <3>1, <3>2, <2>r DEF Chunk, Claimed, Least
  <2>11. \A d \in Callers : pc'[d] \in Leaving => pc[d] \in Leaving
    BY <2>4, <2>5 DEF Leaving
  <2>12. \A d \in Callers : d # t => pc'[d] = pc[d]
    BY <2>4
  <2> HIDE DEF Live
  <2>13. \A u \in Threads, d \in Callers :
           (InCall(u, d) => at[u].lo < call[d].n /\ at[u].lo + call[d].chunk <= run[d].next)'
    BY <2>3, <2>4, <2>7 DEF Claims
  <2>14. \A d \in Callers : (Live(d) => done[d] \subseteq Claimed(d))'
    BY <2>1, <2>2, <2>6, <2>9, <2>10 DEF Claims
  <2>15. ASSUME NEW d \in Callers, Live(d)', NEW i \in Claimed(d)'
         PROVE  i \in done'[d] \/ \E u \in Threads : InCall(u, d)' /\ i \in Chunk(u)'
    <3>1. i \in done[d] \/ \E u \in Threads : InCall(u, d) /\ i \in Chunk(u)
      BY <2>15, <2>6, <2>9 DEF Claims
    <3>2. CASE i \in done[d]
      BY <3>2, <2>2
    <3>3. ASSUME NEW u \in Threads, InCall(u, d), i \in Chunk(u)
          PROVE  i \in done'[d] \/ \E v \in Threads : InCall(v, d)' /\ i \in Chunk(v)'
      <4>1. CASE u = t
        BY <4>1, <3>3, <2>2, <2>r DEF InCall
      <4>2. CASE u # t
        BY <4>2, <3>3, <2>7, <2>8
      <4> QED BY <4>1, <4>2
    <3> QED BY <3>1, <3>2, <3>3
  <2>16. \A d \in Callers : (pc[d] \in Leaving => run[d].next >= call[d].n)'
    BY <2>3, <2>11 DEF Claims
  <2>17. \A d \in Callers : (~Live(d) => done[d] = IF pc[d] = "served" THEN 0 .. call[d].n - 1 ELSE {})'
    BY <2>1, <2>2, <2>3, <2>6, <2>12 DEF Claims
  <2> QED BY <2>13, <2>14, <2>15, <2>16, <2>17 DEF Claims
<1>13. ASSUME NEW t \in Threads, Lock(t) \/ SpuriousWake(t) PROVE Claims'
  <2>1. \A d \in Callers : Live(d)' <=> Live(d)
    BY <1>13 DEF Lock, SpuriousWake, Live
  <2>2. \A d \in Callers : pc'[d] \in Leaving => pc[d] \in Leaving
    BY <1>13 DEF Lock, SpuriousWake, Leaving
  <2>3. \A d \in Callers : ~Live(d) => (pc'[d] = "served" <=> pc[d] = "served")
    BY <1>13 DEF Lock, SpuriousWake, Live
  <2>4. \A d \in Callers : Live(d) \/ pc[d] = "served" => call'[d].n = call[d].n
    BY <1>13 DEF Lock, SpuriousWake, Live
  <2>5. \A d \in Callers : Live(d) => call'[d].chunk = call[d].chunk /\ run'[d].next = run[d].next
    BY <1>13 DEF Lock, SpuriousWake, Live, VpRun
  <2>6. \A u \in Threads : pc'[u] = "call" <=> pc[u] = "call"
    BY <1>13 DEF Lock, SpuriousWake
  <2>7. \A u \in Threads : pc[u] = "call" => at'[u] = at[u]
    BY <1>13 DEF Lock, SpuriousWake
  <2>8. done' = done
    BY <1>13 DEF Lock, SpuriousWake
  <2> HIDE DEF TypeOK, Threads, Places
  <2> QED BY <2>1, <2>2, <2>3, <2>4, <2>5, <2>6, <2>7, <2>8, ClaimsSame
<1>14. ASSUME NEW h \in Helpers, Sleep(h) PROVE Claims'
  <2>1. \A d \in Callers : Live(d)' <=> Live(d)
    BY <1>14 DEF Sleep, Live
  <2>2. \A d \in Callers : pc'[d] \in Leaving => pc[d] \in Leaving
    BY <1>14 DEF Sleep, Leaving
  <2>3. \A d \in Callers : ~Live(d) => (pc'[d] = "served" <=> pc[d] = "served")
    BY <1>14 DEF Sleep, Live
  <2>4. \A d \in Callers : Live(d) \/ pc[d] = "served" => call'[d].n = call[d].n
    BY <1>14 DEF Sleep, Live
  <2>5. \A d \in Callers : Live(d) => call'[d].chunk = call[d].chunk /\ run'[d].next = run[d].next
    BY <1>14 DEF Sleep, Live, VpRun
  <2>6. \A u \in Threads : pc'[u] = "call" <=> pc[u] = "call"
    BY <1>14 DEF Sleep
  <2>7. \A u \in Threads : pc[u] = "call" => at'[u] = at[u]
    BY <1>14 DEF Sleep
  <2>8. done' = done
    BY <1>14 DEF Sleep
  <2> HIDE DEF TypeOK, Threads, Places
  <2> QED BY <2>1, <2>2, <2>3, <2>4, <2>5, <2>6, <2>7, <2>8, ClaimsSame
<1>15. ASSUME NEW h \in Helpers, TakeSeat(h) PROVE Claims'
  <2>1. \A d \in Callers : Live(d)' <=> Live(d)
    BY <1>15 DEF TakeSeat, Slot, Live
  <2>2. \A d \in Callers : pc'[d] \in Leaving => pc[d] \in Leaving
    BY <1>15 DEF TakeSeat, Slot, Leaving
  <2>3. \A d \in Callers : ~Live(d) => (pc'[d] = "served" <=> pc[d] = "served")
    BY <1>15 DEF TakeSeat, Slot, Live
  <2>4. \A d \in Callers : Live(d) \/ pc[d] = "served" => call'[d].n = call[d].n
    BY <1>15 DEF TakeSeat, Slot, Live
  <2>5. \A d \in Callers : Live(d) => call'[d].chunk = call[d].chunk /\ run'[d].next = run[d].next
    BY <1>15 DEF TakeSeat, Slot, Live, VpRun
  <2>6. \A u \in Threads : pc'[u] = "call" <=> pc[u] = "call"
    BY <1>15 DEF TakeSeat, Slot
  <2>7. \A u \in Threads : pc[u] = "call" => at'[u] = at[u]
    BY <1>15 DEF TakeSeat, Slot
  <2>8. done' = done
    BY <1>15 DEF TakeSeat, Slot
  <2> HIDE DEF TypeOK, Threads, Places
  <2> QED BY <2>1, <2>2, <2>3, <2>4, <2>5, <2>6, <2>7, <2>8, ClaimsSame
<1>16. ASSUME NEW h \in Helpers, LeaveSeat(h) PROVE Claims'
  <2>1. \A d \in Callers : Live(d)' <=> Live(d)
    BY <1>16 DEF LeaveSeat, Live
  <2>2. \A d \in Callers : pc'[d] \in Leaving => pc[d] \in Leaving
    BY <1>16 DEF LeaveSeat, Leaving
  <2>3. \A d \in Callers : ~Live(d) => (pc'[d] = "served" <=> pc[d] = "served")
    BY <1>16 DEF LeaveSeat, Live
  <2>4. \A d \in Callers : Live(d) \/ pc[d] = "served" => call'[d].n = call[d].n
    BY <1>16 DEF LeaveSeat, Live
  <2>5. \A d \in Callers : Live(d) => call'[d].chunk = call[d].chunk /\ run'[d].next = run[d].next
    BY <1>16 DEF LeaveSeat, Live, VpRun
  <2>6. \A u \in Threads : pc'[u] = "call" <=> pc[u] = "call"
    BY <1>16 DEF LeaveSeat
  <2>7. \A u \in Threads : pc[u] = "call" => at'[u] = at[u]
    BY <1>16 DEF LeaveSeat
  <2>8. done' = done
    BY <1>16 DEF LeaveSeat
  <2> HIDE DEF TypeOK, Threads, Places
  <2> QED BY <2>1, <2>2, <2>3, <2>4, <2>5, <2>6, <2>7, <2>8, ClaimsSame
<1> QED
  BY <1>1, <1>2, <1>3, <1>4, <1>5, <1>6, <1>7, <1>8, <1>9, <1>10, <1>11, <1>12, <1>13,
     <1>14, <1>15, <1>16
  DEF Next, CallerStep, HelperStep, ChunkStep, BorrowStep
-----------------------------------------------------------------------------
(* An action that starts no chunk and finishes none. *)
LEMMA DisjointSame ==
  ASSUME ChunksDisjoint,
         \A t \in Threads, d \in Callers : InCall(t, d)' =>
           InCall(t, d) /\ at'[t] = at[t] /\ call'[d] = call[d] /\ done'[d] = done[d]
  PROVE  ChunksDisjoint'
<1>1. ASSUME NEW t \in Threads, NEW d \in Callers, InCall(t, d)' PROVE Chunk(t)' = Chunk(t)
  BY <1>1 DEF Chunk, InCall
<1> QED BY <1>1 DEF ChunksDisjoint
-----------------------------------------------------------------------------
LEMMA NextDisjoint ==
  ASSUME IInv, Next
  PROVE  ChunksDisjoint'
<1> USE PoolAssumption DEF TypeOK, Threads, Goto, Places, CallerPlaces, HelperPlaces, shared
<1>a. TypeOK /\ Places /\ Frames /\ FramesOutliveUses /\ RunningCounts /\ Claims /\ ChunksDisjoint
  BY DEF IInv
<1> USE <1>a
<1>1. ASSUME NEW k \in CoreSettings, VesPool_configure(k) PROVE ChunksDisjoint'
  <2>1. ASSUME NEW u \in Threads, NEW d \in Callers, InCall(u, d)'
        PROVE  InCall(u, d) /\ at'[u] = at[u] /\ call'[d] = call[d] /\ done'[d] = done[d]
    <3>1. InCall(u, d) /\ at'[u] = at[u]
      BY <1>1, <2>1 DEF VesPool_configure, InCall
    <3> QED BY <1>1, <3>1, InCallLive DEF VesPool_configure, Live
  <2> QED BY <2>1, DisjointSame
<1>2. ASSUME NEW c \in Callers, VesPool_job_enter(c) \/ VesPool_job_leave(c) PROVE ChunksDisjoint'
  <2>1. ASSUME NEW u \in Threads, NEW d \in Callers, InCall(u, d)'
        PROVE  InCall(u, d) /\ at'[u] = at[u] /\ call'[d] = call[d] /\ done'[d] = done[d]
    <3>1. InCall(u, d) /\ at'[u] = at[u]
      BY <1>2, <2>1 DEF VesPool_job_enter, VesPool_job_leave, InCall
    <3> QED BY <1>2, <3>1, InCallLive DEF VesPool_job_enter, VesPool_job_leave, Live
  <2> QED BY <2>1, DisjointSame
<1>3. ASSUME NEW c \in Callers, NEW w \in Works, Enter(c, w) PROVE ChunksDisjoint'
  <2>1. ASSUME NEW u \in Threads, NEW d \in Callers, InCall(u, d)'
        PROVE  InCall(u, d) /\ at'[u] = at[u] /\ call'[d] = call[d] /\ done'[d] = done[d]
    <3>1. InCall(u, d) /\ at'[u] = at[u]
      BY <1>3, <2>1 DEF Enter, InCall
    <3> QED BY <1>3, <3>1, InCallLive DEF Enter, Live
  <2> QED BY <2>1, DisjointSame
<1>4. ASSUME NEW c \in Callers, Share(c) PROVE ChunksDisjoint'
  <2>1. ASSUME NEW u \in Threads, NEW d \in Callers, InCall(u, d)'
        PROVE  InCall(u, d) /\ at'[u] = at[u] /\ call'[d] = call[d] /\ done'[d] = done[d]
    <3>1. InCall(u, d) /\ at'[u] = at[u]
      BY <1>4, <2>1 DEF Share, InCall
    <3> QED BY <1>4, <3>1, InCallLive DEF Share, Live
  <2> QED BY <2>1, DisjointSame
<1>5. ASSUME NEW c \in Callers, NEW S \in SUBSET Helpers, BorrowNone(c, S) PROVE ChunksDisjoint'
  <2>1. ASSUME NEW u \in Threads, NEW d \in Callers, InCall(u, d)'
        PROVE  InCall(u, d) /\ at'[u] = at[u] /\ call'[d] = call[d] /\ done'[d] = done[d]
    <3>1. InCall(u, d) /\ at'[u] = at[u]
      BY <1>5, <2>1 DEF BorrowNone, Spawnable, InCall
    <3> QED BY <1>5, <3>1, InCallLive DEF BorrowNone, Spawnable, Live
  <2> QED BY <2>1, DisjointSame
<1>6. ASSUME NEW c \in Callers, NEW S \in SUBSET Helpers, NEW W \in SUBSET Helpers, Borrow(c, S, W)
      PROVE  ChunksDisjoint'
  <2>1. ASSUME NEW u \in Threads, NEW d \in Callers, InCall(u, d)'
        PROVE  InCall(u, d) /\ at'[u] = at[u] /\ call'[d] = call[d] /\ done'[d] = done[d]
    <3>1. InCall(u, d) /\ at'[u] = at[u]
      BY <1>6, <2>1 DEF Borrow, Spawnable, Woken, Asleep, InCall
    <3> QED BY <1>6, <3>1, InCallLive DEF Borrow, Spawnable, Woken, Asleep, Live
  <2> QED BY <2>1, DisjointSame
<1>7. ASSUME NEW c \in Callers, Serial(c) PROVE ChunksDisjoint'
  <2>1. ASSUME NEW u \in Threads, NEW d \in Callers, InCall(u, d)'
        PROVE  InCall(u, d) /\ at'[u] = at[u] /\ call'[d] = call[d] /\ done'[d] = done[d]
    <3>1. InCall(u, d) /\ at'[u] = at[u]
      BY <1>7, <2>1 DEF Serial, InCall
    <3> QED BY <1>7, <3>1, InCallLive DEF Serial, Live
  <2> QED BY <2>1, DisjointSame
<1>8. ASSUME NEW c \in Callers, CancelSeats(c) PROVE ChunksDisjoint'
  <2>1. ASSUME NEW u \in Threads, NEW d \in Callers, InCall(u, d)'
        PROVE  InCall(u, d) /\ at'[u] = at[u] /\ call'[d] = call[d] /\ done'[d] = done[d]
    <3>1. InCall(u, d) /\ at'[u] = at[u]
      BY <1>8, <2>1 DEF CancelSeats, InCall
    <3> QED BY <1>8, <3>1, InCallLive DEF CancelSeats, Live
  <2> QED BY <2>1, DisjointSame
<1>9. ASSUME NEW c \in Callers, AwaitHelpers(c) PROVE ChunksDisjoint'
  <2>1. ASSUME NEW u \in Threads, NEW d \in Callers, InCall(u, d)'
        PROVE  InCall(u, d) /\ at'[u] = at[u] /\ call'[d] = call[d] /\ done'[d] = done[d]
    <3>1. InCall(u, d) /\ at'[u] = at[u]
      BY <1>9, <2>1 DEF AwaitHelpers, InCall
    <3> QED BY <1>9, <3>1, InCallLive DEF AwaitHelpers, Live
  <2> QED BY <2>1, DisjointSame
<1>10. ASSUME NEW c \in Callers, Return(c) PROVE ChunksDisjoint'
  <2>1. ASSUME NEW u \in Threads, NEW d \in Callers, InCall(u, d)'
        PROVE  InCall(u, d) /\ at'[u] = at[u] /\ call'[d] = call[d] /\ done'[d] = done[d]
    <3>1. u # c /\ pc'[u] = pc[u] /\ at'[u] = at[u]
      BY <1>10, <2>1 DEF Return, InCall
    <3>2. InCall(u, d)
      BY <2>1, <3>1 DEF InCall
    <3>3. d # c
      <4>1. CASE ~Live(c)
        BY <4>1, <3>2, InCallLive
      <4>2. CASE Live(c)
        <5>1. HelpersGone(c)
          BY <1>10, <4>2 DEF Return, Live
        <5>2. u \in Helpers => Seated(u)
          BY <3>2 DEF InCall, Seated
        <5>3. u \in Callers => u = d
          BY <3>2, InCallLive
        <5> QED BY <3>1, <3>2, <5>1, <5>2, <5>3, NoHelperLeft DEF InCall
      <4> QED BY <4>1, <4>2
    <3> QED BY <1>10, <3>1, <3>2, <3>3 DEF Return
  <2> QED BY <2>1, DisjointSame
<1>11. ASSUME NEW t \in Threads, Claim(t) PROVE ChunksDisjoint'
  <2>r. PICK r \in Callers : r = at[t].run /\ Live(r)
    BY <1>11, ServesLive DEF Claim
  <2>s. PICK s \in Nat : s = run[r].next
    BY DEF VpRun
  <2>1. call' = call /\ done' = done /\ \A u \in Threads \ {t} : pc'[u] = pc[u] /\ at'[u] = at[u]
    BY <1>11 DEF Claim
  <2>2. call[r].chunk \in Nat \ {0} /\ call[r].n \in Nat
    BY <2>r DEF Arguments
  <2>3. \A u \in Threads \ {t}, d \in Callers : InCall(u, d)' =>
          InCall(u, d) /\ at'[u] = at[u] /\ call'[d] = call[d] /\ done'[d] = done[d]
    BY <2>1 DEF InCall
  <2>4. CASE s < call[r].n
    <3>1. at' = [at EXCEPT ![t].lo = s] /\ pc'[t] = "call"
      BY <1>11, <2>2, <2>4, <2>r, <2>s DEF Claim
    <3>2. at'[t].run = r /\ at'[t].lo = s
      BY <3>1, <2>r DEF Seat
    <3>3. Chunk(t)' = s .. Least(s + call[r].chunk, call[r].n) - 1
      BY <3>2, <2>1 DEF Chunk
    <3>4. \A u \in Threads \ {t}, d \in Callers : InCall(u, d)' => Chunk(u)' = Chunk(u)
      BY <2>1 DEF InCall, Chunk
    <3>5. \A d \in Callers : InCall(t, d)' <=> d = r
      BY <3>1, <3>2 DEF InCall
    <3>6. Chunk(t)' \cap done'[r] = {}
      <4>1. done'[r] \subseteq 0 .. Least(s, call[r].n) - 1
        BY <2>1, <2>r, <2>s DEF Claims, Claimed
      <4> QED BY <4>1, <3>3, <2>2 DEF Least
    <3>7. ASSUME NEW u \in Threads \ {t}, InCall(u, r)' PROVE Chunk(t)' \cap Chunk(u)' = {}
      <4>1. InCall(u, r) /\ at[u].lo + call[r].chunk <= s
        BY <3>7, <2>3, <2>s DEF Claims
      <4>2. Chunk(u)' = at[u].lo .. Least(at[u].lo + call[r].chunk, call[r].n) - 1
        BY <4>1, <3>4, <3>7 DEF Chunk, InCall
      <4>3. at[u].lo \in Nat
        BY DEF Seat
      <4> QED BY <4>1, <4>2, <4>3, <3>3, <2>2 DEF Least
    <3>8. ASSUME NEW d \in Callers, NEW u \in Threads, InCall(u, d)'
          PROVE  Chunk(u)' \cap done'[d] = {}
      <4>1. CASE u = t
        BY <4>1, <3>5, <3>6, <3>8
      <4>2. CASE u # t
        <5>1. InCall(u, d) /\ done'[d] = done[d] /\ Chunk(u)' = Chunk(u)
          BY <4>2, <3>8, <2>3, <3>4
        <5> QED BY <5>1 DEF ChunksDisjoint
      <4> QED BY <4>1, <4>2
    <3>9. ASSUME NEW d \in Callers, NEW u \in Threads, NEW v \in Threads,
                 InCall(u, d)', InCall(v, d)', v # u
          PROVE  Chunk(u)' \cap Chunk(v)' = {}
      <4>1. CASE u = t
        BY <4>1, <3>5, <3>7, <3>9
      <4>2. CASE v = t
        BY <4>2, <3>5, <3>7, <3>9
      <4>3. CASE u # t /\ v # t
        <5>1. InCall(u, d) /\ InCall(v, d) /\ Chunk(u)' = Chunk(u) /\ Chunk(v)' = Chunk(v)
          BY <4>3, <3>9, <2>3, <3>4
        <5> QED BY <5>1, <3>9 DEF ChunksDisjoint
      <4> QED BY <4>1, <4>2, <4>3
    <3>10. \A c \in Callers, u \in Threads : InCall(u, c)' =>
             /\ Chunk(u)' \cap done'[c] = {}
             /\ \A v \in Threads : InCall(v, c)' /\ v # u => Chunk(u)' \cap Chunk(v)' = {}
      BY <3>8, <3>9
    <3> QED BY <3>10 DEF ChunksDisjoint
  <2>5. CASE s >= call[r].n
    <3>1. pc'[t] # "call"
      BY <1>11, <2>2, <2>5, <2>r, <2>s DEF Claim
    <3>2. \A u \in Threads, d \in Callers : InCall(u, d)' =>
            InCall(u, d) /\ at'[u] = at[u] /\ call'[d] = call[d] /\ done'[d] = done[d]
      BY <3>1, <2>3 DEF InCall
    <3> QED BY <3>2, DisjointSame
  <2> QED BY <2>2, <2>4, <2>5
<1>12. ASSUME NEW t \in Threads, FnReturns(t) PROVE ChunksDisjoint'
  <2>r. PICK r \in Callers : r = at[t].run /\ Live(r)
    BY <1>12, ServesLive DEF FnReturns
  <2>1. call' = call /\ \A u \in Threads \ {t} : pc'[u] = pc[u] /\ at'[u] = at[u]
    BY <1>12 DEF FnReturns
  <2>2. pc'[t] = "chunks" /\ InCall(t, r)
    BY <1>12, <2>r DEF FnReturns, InCall
  <2>3. done'[r] = done[r] \cup Chunk(t) /\ \A d \in Callers \ {r} : done'[d] = done[d]
    BY <1>12, <2>r DEF FnReturns
  <2>4. \A u \in Threads, d \in Callers : InCall(u, d)' => u # t /\ InCall(u, d)
    BY <2>1, <2>2 DEF InCall
  <2>5. \A u \in Threads, d \in Callers : InCall(u, d)' => Chunk(u)' = Chunk(u)
    BY <2>1, <2>4 DEF InCall, Chunk
  <2>6. ASSUME NEW d \in Callers, NEW u \in Threads, InCall(u, d)'
        PROVE  Chunk(u)' \cap done'[d] = {}
    <3>1. u # t /\ InCall(u, d) /\ Chunk(u)' = Chunk(u)
      BY <2>4, <2>5, <2>6
    <3>2. Chunk(u) \cap done[d] = {}
      BY <3>1 DEF ChunksDisjoint
    <3>3. d = r => Chunk(u) \cap Chunk(t) = {}
      BY <3>1, <2>2 DEF ChunksDisjoint
    <3> QED BY <3>1, <3>2, <3>3, <2>3
  <2>7. ASSUME NEW d \in Callers, NEW u \in Threads, NEW v \in Threads,
               InCall(u, d)', InCall(v, d)', v # u
        PROVE  Chunk(u)' \cap Chunk(v)' = {}
    BY <2>4, <2>5, <2>7 DEF ChunksDisjoint
  <2>8. \A c \in Callers, u \in Threads : InCall(u, c)' =>
          /\ Chunk(u)' \cap done'[c] = {}
          /\ \A v \in Threads : InCall(v, c)' /\ v # u => Chunk(u)' \cap Chunk(v)' = {}
    BY <2>6, <2>7
  <2> QED BY <2>8 DEF ChunksDisjoint
<1>13. ASSUME NEW t \in Threads, Lock(t) \/ SpuriousWake(t) PROVE ChunksDisjoint'
  <2>1. ASSUME NEW u \in Threads, NEW d \in Callers, InCall(u, d)'
        PROVE  InCall(u, d) /\ at'[u] = at[u] /\ call'[d] = call[d] /\ done'[d] = done[d]
    <3>1. InCall(u, d) /\ at'[u] = at[u]
      BY <1>13, <2>1 DEF Lock, SpuriousWake, InCall
    <3> QED BY <1>13, <3>1, InCallLive DEF Lock, SpuriousWake, Live
  <2> QED BY <2>1, DisjointSame
<1>14. ASSUME NEW h \in Helpers, Sleep(h) PROVE ChunksDisjoint'
  <2>1. ASSUME NEW u \in Threads, NEW d \in Callers, InCall(u, d)'
        PROVE  InCall(u, d) /\ at'[u] = at[u] /\ call'[d] = call[d] /\ done'[d] = done[d]
    <3>1. InCall(u, d) /\ at'[u] = at[u]
      BY <1>14, <2>1 DEF Sleep, InCall
    <3> QED BY <1>14, <3>1, InCallLive DEF Sleep, Live
  <2> QED BY <2>1, DisjointSame
<1>15. ASSUME NEW h \in Helpers, TakeSeat(h) PROVE ChunksDisjoint'
  <2>1. ASSUME NEW u \in Threads, NEW d \in Callers, InCall(u, d)'
        PROVE  InCall(u, d) /\ at'[u] = at[u] /\ call'[d] = call[d] /\ done'[d] = done[d]
    <3>1. InCall(u, d) /\ at'[u] = at[u]
      BY <1>15, <2>1 DEF TakeSeat, Slot, InCall
    <3> QED BY <1>15, <3>1, InCallLive DEF TakeSeat, Slot, Live
  <2> QED BY <2>1, DisjointSame
<1>16. ASSUME NEW h \in Helpers, LeaveSeat(h) PROVE ChunksDisjoint'
  <2>1. ASSUME NEW u \in Threads, NEW d \in Callers, InCall(u, d)'
        PROVE  InCall(u, d) /\ at'[u] = at[u] /\ call'[d] = call[d] /\ done'[d] = done[d]
    <3>1. InCall(u, d) /\ at'[u] = at[u]
      BY <1>16, <2>1 DEF LeaveSeat, InCall
    <3> QED BY <1>16, <3>1, InCallLive DEF LeaveSeat, Live
  <2> QED BY <2>1, DisjointSame
<1> QED
  BY <1>1, <1>2, <1>3, <1>4, <1>5, <1>6, <1>7, <1>8, <1>9, <1>10, <1>11, <1>12, <1>13,
     <1>14, <1>15, <1>16
  DEF Next, CallerStep, HelperStep, ChunkStep, BorrowStep
-----------------------------------------------------------------------------
LEMMA InitIInv == Init => IInv
<1> SUFFICES ASSUME Init PROVE IInv
  OBVIOUS
<1>1. TypeOK
  BY InitType
<1>2. /\ \A c \in Callers : pc[c] = "out" /\ ~Live(c)
      /\ \A h \in Helpers : pc[h] = "none" /\ ~Seated(h)
      /\ \A t \in Threads : ~(pc[t] = "call")
  BY PoolAssumption DEF Init, Threads, Live, Seated
<1>3. run = [c \in Callers |-> NoRun] /\ at = [t \in Threads |-> NoSeat] /\ lock = Nil /\ head = Nil /\ tail = Nil
      /\ done = [c \in Callers |-> {}]
  BY DEF Init
<1>4. Places
  BY <1>2, <1>3, PoolAssumption DEF Places, CallerPlaces, HelperPlaces, Threads
<1>5. Frames
  BY <1>2, <1>3 DEF Frames, Threads
<1>6. RunningCounts
  <2>1. \A c \in Callers : SeatedAt(c) = {}
    BY <1>2 DEF SeatedAt
  <2> QED BY <2>1, <1>3, FS_EmptySet DEF RunningCounts, NoRun
<1>7. Waiting = {} /\ CancelledBeforeWait
  BY <1>3 DEF Waiting, CancelledBeforeWait, Queued, NoRun
<1>8. QueueIsList
  <2>1. {} \in SUBSET (Waiting \X Waiting) /\ InOrder(Waiting, {}, head, tail, Links)
    BY <1>3, <1>7 DEF InOrder
  <2> QED BY <2>1 DEF QueueIsList, ListOf
<1>9. FramesOutliveUses
  BY <1>5, <1>7, <1>8, FramesOutlive
<1>10. SlotsByJoining
  BY <1>2 DEF SlotsByJoining
<1>11. Claims /\ ChunksDisjoint
  BY <1>2, <1>3 DEF Claims, ChunksDisjoint, InCall, Leaving
<1> QED BY <1>1, <1>4, <1>5, <1>6, <1>7, <1>8, <1>9, <1>10, <1>11 DEF IInv
-----------------------------------------------------------------------------
LEMMA NextIInv == IInv /\ [Next]_vars => IInv'
<1> SUFFICES ASSUME IInv, [Next]_vars PROVE IInv'
  OBVIOUS
<1>1. CASE Next
  <2>1. TypeOK' /\ Places' /\ Frames' /\ RunningCounts' /\ CancelledBeforeWait' /\ QueueIsList'
    BY <1>1, NextType, NextPlaces, NextFrames, NextRunning, NextCancelled, NextQueue
  <2>2. SlotsByJoining' /\ Claims' /\ ChunksDisjoint'
    BY <1>1, NextSlots, NextClaims, NextDisjoint
  <2>3. FramesOutliveUses'
    BY <2>1, FramesOutlive, PTL
  <2> QED BY <2>1, <2>2, <2>3 DEF IInv
<1>2. CASE UNCHANGED vars
  <2> USE <1>2 DEF vars, shared, queue, bounds
  <2>1. TypeOK' /\ Places'
    BY DEF IInv, TypeOK, Places
  <2>2. Frames' /\ CancelledBeforeWait' /\ FramesOutliveUses'
    BY DEF IInv, Frames, CancelledBeforeWait, FramesOutliveUses, Live, Seated, Queued
  <2>3. RunningCounts'
    <3>1. \A c \in Callers : SeatedAt(c)' = SeatedAt(c)
      BY DEF SeatedAt, Seated
    <3> QED BY <3>1 DEF IInv, RunningCounts
  <2>4. QueueIsList'
    BY QueueUntouched DEF IInv
  <2>5. SlotsByJoining'
    BY DEF IInv, SlotsByJoining, Live, Seated
  <2>6. Claims' /\ ChunksDisjoint'
    <3>1. Claims'
      BY DEF IInv, Claims, InCall, Live, Claimed, Chunk, Leaving
    <3>2. ChunksDisjoint'
      BY DEF IInv, ChunksDisjoint, InCall, Chunk
    <3> QED BY <3>1, <3>2
  <2> HIDE DEF vars, shared, queue, bounds
  <2> QED BY <2>1, <2>2, <2>3, <2>4, <2>5, <2>6 DEF IInv
<1> QED BY <1>1, <1>2
-----------------------------------------------------------------------------
(* What the invariant gives at the places a reader asks about. *)
LEMMA SlotsArePrivate ==
  ASSUME IInv
  PROVE  SlotsPrivate
<1> SUFFICES ASSUME NEW t \in Threads, NEW u \in Threads, pc[t] \in {"chunks", "call"},
                    pc[u] \in {"chunks", "call"}, at[t].run = at[u].run
             PROVE  /\ call[at[t].run].max >= 0 => at[t].slot <= call[at[t].run].max
                    /\ (t # u => at[t].slot # at[u].slot)
  BY DEF SlotsPrivate
<1>1. TypeOK /\ Places /\ Frames /\ SlotsByJoining
  BY DEF IInv
<1>2. PICK r \in Callers : r = at[t].run /\ Live(r)
  BY <1>1, ServesLive
<1>3. \A v \in Callers : pc[v] \in {"chunks", "call"} => at[v].run = v /\ at[v].slot = 0
  BY <1>1 DEF Frames, Live
<1>4. \A h \in Helpers : pc[h] \in {"chunks", "call"} => Seated(h) /\ at[h].slot \in 1 .. run[at[h].run].joined
  BY <1>1 DEF SlotsByJoining, Seated
<1>5. /\ run[r].joined \in Nat /\ run[r].tickets \in Nat /\ call[r].max \in Int
      /\ call[r].max >= 0 => run[r].joined + run[r].tickets <= call[r].max
  BY <1>1, <1>2 DEF TypeOK, VpRun, Arguments, SlotsByJoining
<1>6. t \in Callers \cup Helpers /\ u \in Callers \cup Helpers
  BY DEF Threads
<1>7. call[r].max >= 0 => at[t].slot <= call[r].max
  BY <1>2, <1>3, <1>4, <1>5, <1>6
<1>8. ASSUME t # u PROVE at[t].slot # at[u].slot
  <2>1. CASE t \in Helpers /\ u \in Helpers
    BY <1>1, <1>4, <1>8, <2>1 DEF SlotsByJoining
  <2>2. CASE t \in Callers /\ u \in Callers
    BY <1>3, <1>8, <2>2
  <2>3. CASE t \in Callers /\ u \in Helpers
    BY <1>2, <1>3, <1>4, <1>5, <2>3
  <2>4. CASE t \in Helpers /\ u \in Callers
    BY <1>2, <1>3, <1>4, <1>5, <2>4
  <2> QED BY <1>6, <2>1, <2>2, <2>3, <2>4
<1> QED BY <1>2, <1>7, <1>8

LEMMA DoneWhenReturning ==
  ASSUME IInv
  PROVE  ReturnsWhenDone
<1> SUFFICES ASSUME NEW c \in Callers, pc[c] = "served" \/ (pc[c] = "drain" /\ HelpersGone(c))
             PROVE  done[c] = 0 .. call[c].n - 1 /\ \A t \in Threads : ~InCall(t, c)
  BY DEF ReturnsWhenDone
<1>1. TypeOK /\ Places /\ Frames /\ RunningCounts /\ Claims
  BY DEF IInv
<1>2. CASE pc[c] = "served"
  <2>1. ~Live(c)
    BY <1>2 DEF Live
  <2>2. done[c] = 0 .. call[c].n - 1
    BY <1>1, <1>2, <2>1 DEF Claims
  <2> QED BY <1>1, <2>1, <2>2, InCallLive
<1>3. CASE pc[c] = "drain" /\ HelpersGone(c)
  <2>1. Live(c) /\ pc[c] \in Leaving
    BY <1>3 DEF Live, Leaving
  <2>2. ASSUME NEW t \in Threads PROVE ~InCall(t, c)
    <3>1. t \in Helpers => ~InCall(t, c)
      BY <1>1, <1>3, NoHelperLeft DEF InCall, Seated
    <3>2. t \in Callers => ~InCall(t, c)
      BY <1>1, <1>3, InCallLive DEF InCall
    <3> QED BY <3>1, <3>2 DEF Threads
  <2>3. Claimed(c) = 0 .. call[c].n - 1
    <3>1. run[c].next >= call[c].n /\ run[c].next \in Nat /\ call[c].n \in Nat
      BY <1>1, <2>1 DEF Claims, TypeOK, VpRun, Arguments
    <3>2. Least(run[c].next, call[c].n) = call[c].n
      BY <3>1 DEF Least
    <3> QED BY <3>2 DEF Claimed
  <2>4. done[c] \subseteq Claimed(c) /\ \A i \in Claimed(c) : i \in done[c]
    BY <1>1, <2>1, <2>2 DEF Claims
  <2> QED BY <2>2, <2>3, <2>4
<1> QED BY <1>2, <1>3
-----------------------------------------------------------------------------
(* The invariant holds in every reachable state (ves_pool.c:65-162). *)
THEOREM Invariance == Spec => []IInv
BY InitIInv, NextIInv, PTL DEF Spec

(* Every variable keeps its type; in particular vp_idle, the seats of a run *)
(* and the helpers on it are never negative (ves_pool.c:91-93, 142-156).    *)
THEOREM TypeCorrect == Spec => []TypeOK
<1>1. IInv => TypeOK
  BY DEF IInv
<1> QED BY Invariance, <1>1, PTL

(* A VpRun is used by the queue and by helpers only while its caller is     *)
(* inside VesPool_run, so the stack frame that holds it exists.             *)
THEOREM FrameLifetime == Spec => []FramesOutliveUses
<1>1. IInv => FramesOutliveUses
  BY DEF IInv
<1> QED BY Invariance, <1>1, PTL

(* vp_head, vp_tail and the links are one list of the runs with open seats  *)
(* through enqueue, pop and removal from the middle.                        *)
THEOREM QueueCorrect == Spec => []QueueIsList
<1>1. IInv => QueueIsList
  BY DEF IInv
<1> QED BY Invariance, <1>1, PTL

(* What the caller's last wait reads, running, is the number of helpers on  *)
(* its run.                                                                 *)
THEOREM RunningCorrect == Spec => []RunningCounts
<1>1. IInv => RunningCounts
  BY DEF IInv
<1> QED BY Invariance, <1>1, PTL

(* No index is given to fn twice. *)
THEOREM ExactlyOnce == Spec => []ChunksDisjoint
<1>1. IInv => ChunksDisjoint
  BY DEF IInv
<1> QED BY Invariance, <1>1, PTL

(* Threads in fn for one run have different slots, all within max_helpers.  *)
THEOREM SlotsCorrect == Spec => []SlotsPrivate
BY Invariance, SlotsArePrivate, PTL

(* VesPool_run returns only when fn has returned from every index.          *)
THEOREM ReturnCorrect == Spec => []ReturnsWhenDone
BY Invariance, DoneWhenReturning, PTL
-----------------------------------------------------------------------------
(* Seats.  One more set per caller, counted: the sum over the callers of    *)
(* their open seats is the size of a union of disjoint intervals.           *)
SeatsOf(f) == UNION {{c} \X (1 .. f[c]) : c \in Callers}

LEMMA SeatOf ==
  ASSUME NEW f \in [Callers -> Nat], NEW x
  PROVE  x \in SeatsOf(f) <=> \E c \in Callers, i \in Nat : x = <<c, i>> /\ i \in 1 .. f[c]
<1>1. x \in SeatsOf(f) <=> \E c \in Callers : x \in {c} \X (1 .. f[c])
  BY Zenon DEF SeatsOf
<1>2. \A c \in Callers : x \in {c} \X (1 .. f[c]) <=> \E i \in Nat : x = <<c, i>> /\ i \in 1 .. f[c]
  OBVIOUS
<1> QED BY <1>1, <1>2

LEMMA MoreSeats ==
  ASSUME NEW f \in [Callers -> Nat], NEW g \in [Callers -> Nat], NEW c \in Callers, NEW n \in Nat,
         g[c] = f[c] + n, \A d \in Callers \ {c} : g[d] = f[d],
         IsFiniteSet(SeatsOf(f)) \/ IsFiniteSet(SeatsOf(g))
  PROVE  /\ IsFiniteSet(SeatsOf(f)) /\ IsFiniteSet(SeatsOf(g))
         /\ Cardinality(SeatsOf(g)) = Cardinality(SeatsOf(f)) + n
         /\ Cardinality(SeatsOf(f)) \in Nat
<1> DEFINE F == SeatsOf(f)
           G == SeatsOf(g)
           I == f[c] + 1 .. f[c] + n
           E == {c} \X I
<1>1. \A x : x \in G <=> x \in F \/ x \in E
  <2> TAKE x
  <2>1. x \in E <=> \E i \in Nat : x = <<c, i>> /\ i \in I
    BY f[c] \in Nat
  <2>2. x \in F <=> \E d \in Callers, i \in Nat : x = <<d, i>> /\ i \in 1 .. f[d]
    BY SeatOf
  <2>3. x \in G <=> \E d \in Callers, i \in Nat : x = <<d, i>> /\ i \in 1 .. g[d]
    BY SeatOf
  <2>4. \A i \in Nat : i \in 1 .. g[c] <=> i \in 1 .. f[c] \/ i \in I
    BY f[c] \in Nat
  <2> HIDE DEF F, G, I, E
  <2>5. x \in G => x \in F \/ x \in E
    BY <2>1, <2>2, <2>3, <2>4
  <2>6. x \in F => x \in G
    BY <2>2, <2>3, <2>4
  <2>7. x \in E => x \in G
    BY <2>1, <2>3, <2>4
  <2> QED BY <2>5, <2>6, <2>7
<1>2. \A x : ~(x \in F /\ x \in E)
  <2> SUFFICES ASSUME NEW x, x \in F, x \in E PROVE FALSE
    OBVIOUS
  <2>1. PICK d \in Callers, i \in Nat : x = <<d, i>> /\ i \in 1 .. f[d]
    BY SeatOf
  <2>2. PICK j \in I : x = <<c, j>>
    OBVIOUS
  <2> QED BY <2>1, <2>2, f[c] \in Nat
<1>3. G = F \cup E /\ F \cap E = {} /\ F \subseteq G
  <2> HIDE DEF F, G, E
  <2> QED BY <1>1, <1>2
<1>4. IsFiniteSet(I) /\ Cardinality(I) = n
  <2>1. f[c] + 1 \in Int /\ f[c] + n \in Int
    BY f[c] \in Nat
  <2>2. IsFiniteSet(I) /\ Cardinality(I) = IF f[c] + 1 > f[c] + n THEN 0 ELSE (f[c] + n) - (f[c] + 1) + 1
    BY <2>1, FS_Interval
  <2> QED BY <2>2, f[c] \in Nat
<1>5. IsFiniteSet({c}) /\ Cardinality({c}) = 1
  BY FS_Singleton
<1>6. IsFiniteSet(E) /\ Cardinality(E) = n
  <2> HIDE DEF I
  <2> QED BY <1>4, <1>5, FS_Product
<1> HIDE DEF F, G, I, E
<1>7. IsFiniteSet(F)
  BY <1>3, FS_Subset DEF F, G
<1>8. IsFiniteSet(G) /\ Cardinality(G) = Cardinality(F) + Cardinality(E) - Cardinality(F \cap E)
  BY <1>3, <1>6, <1>7, FS_Union
<1>9. Cardinality(F \cap E) = 0 /\ Cardinality(F) \in Nat
  BY <1>3, <1>7, FS_EmptySet, FS_CardinalityType
<1> QED BY <1>6, <1>7, <1>8, <1>9 DEF F, G

Tickets == [c \in Callers |-> run[c].tickets]

LEMMA OpenTickets == OpenSeats = SeatsOf(Tickets)
<1>1. \A c \in Callers : Tickets[c] = run[c].tickets
  BY DEF Tickets
<1>2. ASSUME NEW x PROVE x \in OpenSeats <=> x \in SeatsOf(Tickets)
  BY <1>1, Zenon DEF OpenSeats, SeatsOf
<1> QED BY <1>2, Zenon

LEMMA HelperSets ==
  ASSUME TypeOK
  PROVE  /\ IsFiniteSet(Unseated) /\ Cardinality(Unseated) \in Nat
         /\ IsFiniteSet(Awake) /\ Cardinality(Awake) \in Nat
BY FiniteHelpers DEF Unseated, Awake

(* A step that moves no seat keeps the balance. *)
LEMMA SeatsSame ==
  ASSUME TypeOK, SeatsKept, idle' = idle, TypeOK',
         \A c \in Callers : run'[c].tickets = run[c].tickets,
         \A h \in Helpers : h \in Unseated' <=> h \in Unseated,
         \A h \in Helpers : h \in Awake => h \in Awake'
  PROVE  SeatsKept'
<1>1. OpenSeats' = OpenSeats
  <2>1. Tickets' = Tickets
    BY DEF Tickets
  <2>2. OpenSeats' = SeatsOf(Tickets')
    <3>1. (OpenSeats = SeatsOf(Tickets))'
      BY OpenTickets, PTL
    <3> QED BY <3>1 DEF SeatsOf
  <2> QED BY <2>1, <2>2, OpenTickets
<1>2. Unseated' = Unseated /\ Awake \subseteq Awake'
  BY DEF Unseated, Awake
<1>3. IsFiniteSet(Awake') /\ Cardinality(Awake) <= Cardinality(Awake') /\ Cardinality(Awake') \in Nat
  <2>1. Awake' \in SUBSET Helpers
    BY DEF Awake, Unseated
  <2> QED BY <1>2, <2>1, FiniteHelpers, FS_Subset
<1>4. Cardinality(Awake) \in Nat /\ Cardinality(OpenSeats) \in Nat
  BY HelperSets, FS_CardinalityType DEF SeatsKept
<1> QED BY <1>1, <1>2, <1>3, <1>4 DEF SeatsKept, SeatsConserved, NoSeatSleeps

LEMMA DisjointHelpers ==
  ASSUME NEW S \in SUBSET Helpers, NEW T \in SUBSET Helpers, S \cap T = {}
  PROVE  Cardinality(S \cup T) = Cardinality(S) + Cardinality(T)
<1>1. IsFiniteSet(S) /\ IsFiniteSet(T) /\ Cardinality(S) \in Nat /\ Cardinality(T) \in Nat
  BY FiniteHelpers
<1>2. Cardinality(S \cup T) = Cardinality(S) + Cardinality(T) - Cardinality(S \cap T)
  BY <1>1, FS_Union
<1>3. Cardinality(S \cap T) = 0
  BY FS_EmptySet
<1> QED BY <1>1, <1>2, <1>3

(* Helpers that appear, or come back from a run, are awake and idle. *)
LEMMA SpawnKeeps ==
  ASSUME TypeOK, TypeOK', SeatsKept, NEW S \in SUBSET Helpers, idle' = idle + Cardinality(S),
         \A d \in Callers : run'[d].tickets = run[d].tickets,
         Unseated' = Unseated \cup S, Awake' = Awake \cup S, Unseated \cap S = {}
  PROVE  SeatsKept'
<1>1. OpenSeats' = OpenSeats
  BY Zenon DEF OpenSeats
<1>2. Awake \cap S = {} /\ Awake \in SUBSET Helpers /\ Unseated \in SUBSET Helpers
  BY DEF Awake, Unseated
<1>3. /\ Cardinality(Unseated') = Cardinality(Unseated) + Cardinality(S)
      /\ Cardinality(Awake') = Cardinality(Awake) + Cardinality(S)
  BY <1>2, DisjointHelpers
<1>4. /\ Cardinality(S) \in Nat /\ idle \in Nat /\ Cardinality(OpenSeats) \in Nat
      /\ Cardinality(Unseated) \in Nat /\ Cardinality(Awake) \in Nat
  BY FiniteHelpers, HelperSets, FS_CardinalityType DEF TypeOK, SeatsKept
<1> QED BY <1>1, <1>3, <1>4 DEF SeatsKept, SeatsConserved, NoSeatSleeps

LEMMA TicketsChange ==
  ASSUME TypeOK, TypeOK', IsFiniteSet(OpenSeats), NEW c \in Callers,
         \A d \in Callers \ {c} : run'[d].tickets = run[d].tickets
  PROVE  /\ IsFiniteSet(OpenSeats') /\ Cardinality(OpenSeats) \in Nat /\ Cardinality(OpenSeats') \in Nat
         /\ Cardinality(OpenSeats') = Cardinality(OpenSeats) + run'[c].tickets - run[c].tickets
<1> DEFINE T == Tickets
           U == Tickets'
<1>1. T \in [Callers -> Nat] /\ U \in [Callers -> Nat]
  BY DEF Tickets, TypeOK, VpRun
<1>2. \A d \in Callers : T[d] = run[d].tickets /\ U[d] = run'[d].tickets
  BY DEF Tickets
<1>3. OpenSeats = SeatsOf(T) /\ OpenSeats' = SeatsOf(U)
  <2>1. (OpenSeats = SeatsOf(Tickets))'
    BY OpenTickets, PTL
  <2> QED BY <2>1, OpenTickets DEF SeatsOf
<1> HIDE DEF T, U
<1>f. IsFiniteSet(SeatsOf(T)) /\ \A d \in Callers \ {c} : U[d] = T[d]
  BY <1>2, <1>3
<1>4. CASE U[c] >= T[c]
  <2>1. PICK n \in Nat : U[c] = T[c] + n
    BY <1>1, <1>4, U[c] - T[c] \in Nat, U[c] = T[c] + (U[c] - T[c])
  <2>2. IsFiniteSet(SeatsOf(U)) /\ Cardinality(SeatsOf(U)) = Cardinality(SeatsOf(T)) + n
        /\ Cardinality(SeatsOf(T)) \in Nat
    BY <1>1, <1>f, <2>1, MoreSeats
  <2>3. run'[c].tickets = run[c].tickets + n /\ run[c].tickets \in Nat
    BY <1>1, <1>2, <2>1
  <2> QED BY <1>3, <2>2, <2>3
<1>5. CASE T[c] >= U[c]
  <2>1. PICK n \in Nat : T[c] = U[c] + n
    BY <1>1, <1>5, T[c] - U[c] \in Nat, T[c] = U[c] + (T[c] - U[c])
  <2>2. IsFiniteSet(SeatsOf(U)) /\ Cardinality(SeatsOf(T)) = Cardinality(SeatsOf(U)) + n
        /\ Cardinality(SeatsOf(U)) \in Nat
    BY <1>1, <1>f, <2>1, MoreSeats
  <2> QED BY <1>1, <1>2, <1>3, <2>1, <2>2
<1> QED BY <1>1, <1>4, <1>5

LEMMA NextSeats ==
  ASSUME IInv, SeatsKept, Next
  PROVE  SeatsKept'
<1> USE PoolAssumption DEF Threads, Goto, shared
<1>a. TypeOK /\ Places /\ Frames /\ FramesOutliveUses /\ CancelledBeforeWait /\ QueueIsList
  BY DEF IInv
<1>b. TypeOK'
  BY NextType
<1> USE <1>a, <1>b
<1>1. ASSUME NEW k \in CoreSettings, VesPool_configure(k) PROVE SeatsKept'
  <2>1. idle' = idle /\ \A d \in Callers : run'[d].tickets = run[d].tickets
    BY <1>1 DEF VesPool_configure, queue, bounds
  <2>2. \A h \in Helpers : (h \in Unseated' <=> h \in Unseated) /\ (h \in Awake => h \in Awake')
    BY <1>1 DEF VesPool_configure, queue, bounds, TypeOK, Places, CallerPlaces, Unseated, Awake, Seated
  <2> QED BY <2>1, <2>2, SeatsSame
<1>2. ASSUME NEW c \in Callers, VesPool_job_enter(c) \/ VesPool_job_leave(c) PROVE SeatsKept'
  <2>1. idle' = idle /\ \A d \in Callers : run'[d].tickets = run[d].tickets
    BY <1>2 DEF VesPool_job_enter, VesPool_job_leave, queue, bounds
  <2>2. \A h \in Helpers : (h \in Unseated' <=> h \in Unseated) /\ (h \in Awake => h \in Awake')
    BY <1>2 DEF VesPool_job_enter, VesPool_job_leave, queue, bounds, TypeOK, Places, CallerPlaces, Unseated, Awake, Seated
  <2> QED BY <2>1, <2>2, SeatsSame
<1>3. ASSUME NEW c \in Callers, NEW w \in Works, Enter(c, w) PROVE SeatsKept'
  <2>1. idle' = idle /\ \A d \in Callers : run'[d].tickets = run[d].tickets
    BY <1>3 DEF Enter
  <2>2. \A h \in Helpers : (h \in Unseated' <=> h \in Unseated) /\ (h \in Awake => h \in Awake')
    BY <1>3 DEF Enter, TypeOK, Places, CallerPlaces, Unseated, Awake, Seated
  <2> QED BY <2>1, <2>2, SeatsSame
<1>4. ASSUME NEW c \in Callers, Share(c) PROVE SeatsKept'
  <2>1. idle' = idle /\ \A d \in Callers : run'[d].tickets = run[d].tickets
    BY <1>4 DEF Share
  <2>2. \A h \in Helpers : (h \in Unseated' <=> h \in Unseated) /\ (h \in Awake => h \in Awake')
    BY <1>4 DEF Share, TypeOK, Places, CallerPlaces, Unseated, Awake, Seated
  <2> QED BY <2>1, <2>2, SeatsSame
<1>5. ASSUME NEW c \in Callers, NEW S \in SUBSET Helpers, BorrowNone(c, S) PROVE SeatsKept'
  <2>1. run' = run /\ idle' = idle + Cardinality(S)
    BY <1>5 DEF BorrowNone
  <2>2. \A h \in S : pc[h] = "none" /\ pc'[h] = "locking"
    BY <1>5 DEF BorrowNone, Spawnable, Places, TypeOK
  <2>3. \A h \in Helpers \ S : pc'[h] = pc[h]
    BY <1>5 DEF BorrowNone
  <2>4. Unseated' = Unseated \cup S /\ Awake' = Awake \cup S /\ Unseated \cap S = {}
    BY <2>2, <2>3 DEF Unseated, Awake, Seated
  <2> QED BY <2>1, <2>4, SpawnKeeps
<1>6. ASSUME NEW c \in Callers, NEW S \in SUBSET Helpers, NEW W \in SUBSET Helpers, Borrow(c, S, W)
      PROVE  SeatsKept'
  <2> DEFINE want == Grant(c, S)
  <2>1. want \in Nat \ {0} /\ idle' = idle + Cardinality(S) - want
    <3>1. Cardinality(S) \in Nat
      BY FiniteHelpers
    <3> QED BY <1>6, <3>1 DEF Borrow, Grant, Least, TypeOK, Arguments
  <2>2. run[c].tickets = 0 /\ c # tail
    BY <1>6 DEF Borrow, Frames, FramesOutliveUses, Live, NoRun
  <2>3. run'[c].tickets = want /\ \A d \in Callers \ {c} : run'[d].tickets = run[d].tickets
    BY <1>6, <2>2 DEF Borrow, NoRun, TypeOK, VpRun
  <2>4. \A h \in S : pc[h] = "none" /\ pc'[h] = "locking"
    BY <1>6 DEF Borrow, Spawnable, Places, TypeOK
  <2>5. W \subseteq Asleep /\ (want = 1 => Cardinality(W) = Least(1, Cardinality(Asleep))) /\ (want # 1 => W = Asleep)
    BY <1>6 DEF Borrow, Woken
  <2>6. /\ \A h \in W : pc'[h] = "locking" /\ pc[h] = "asleep"
        /\ \A h \in Helpers \ (S \cup W) : pc'[h] = pc[h]
    BY <1>6, <2>5 DEF Borrow, TypeOK, Asleep
  <2>7. /\ Unseated' = Unseated \cup S /\ Unseated \cap S = {}
        /\ Awake' = Awake \cup S \cup W /\ Awake \cap W = {}
        /\ W = Asleep => Awake' = Unseated'
    BY <2>4, <2>6 DEF Unseated, Awake, Seated, Asleep
  <2> HIDE DEF want
  <2>8. /\ IsFiniteSet(OpenSeats') /\ Cardinality(OpenSeats) \in Nat
        /\ Cardinality(OpenSeats') = Cardinality(OpenSeats) + want
    <3>1. run'[c].tickets - run[c].tickets = want
      BY <2>1, <2>2, <2>3
    <3> QED BY <2>1, <2>2, <2>3, TicketsChange DEF SeatsKept
  <2>9. Cardinality(Unseated') = Cardinality(Unseated) + Cardinality(S) /\ Cardinality(S) \in Nat
    BY <2>7, DisjointHelpers, HelperSets, FiniteHelpers DEF Unseated
  <2>10. SeatsConserved'
    <3>1. idle \in Nat /\ Cardinality(Unseated) \in Nat
      BY HelperSets DEF TypeOK
    <3> QED BY <2>1, <2>8, <2>9, <3>1 DEF SeatsKept, SeatsConserved
  <2>11. Cardinality(OpenSeats') <= Cardinality(Unseated')
    <3>1. idle' \in Nat
      BY DEF TypeOK
    <3> QED BY <2>1, <2>8, <2>10, <3>1 DEF SeatsConserved
  <2>12. Cardinality(OpenSeats') <= Cardinality(Awake')
    <3>1. CASE W = Asleep
      BY <2>7, <2>11, <3>1
    <3>2. CASE W # Asleep
      <4>1. want = 1 /\ Cardinality(W) = Least(1, Cardinality(Asleep))
        BY <2>5, <3>2
      <4>2. /\ IsFiniteSet(W) /\ IsFiniteSet(Asleep) /\ Cardinality(W) \in Nat /\ Cardinality(Asleep) \in Nat
        BY FiniteHelpers DEF Asleep
      <4>3. Cardinality(W) = 1
        <5>1. Cardinality(Asleep) # 0
          BY <2>5, <3>2, <4>2, FS_EmptySet
        <5> QED BY <4>1, <4>2, <5>1 DEF Least
      <4>4. Cardinality(Awake \cup W) = Cardinality(Awake) + 1
        BY <2>7, <4>3, DisjointHelpers DEF Awake, Unseated
      <4>5. Cardinality(Awake \cup W) <= Cardinality(Awake') /\ Cardinality(Awake') \in Nat
        <5>1. Awake' \in SUBSET Helpers
          BY DEF Awake, Unseated
        <5> QED BY <2>7, <5>1, FiniteHelpers, FS_Subset
      <4>6. Cardinality(Awake) \in Nat /\ Cardinality(OpenSeats) <= Cardinality(Awake)
        BY HelperSets DEF SeatsKept, NoSeatSleeps
      <4> QED BY <2>8, <4>1, <4>4, <4>5, <4>6
    <3> QED BY <3>1, <3>2
  <2> QED BY <2>8, <2>10, <2>12 DEF SeatsKept, NoSeatSleeps
<1>7. ASSUME NEW c \in Callers, Serial(c) PROVE SeatsKept'
  <2>1. idle' = idle /\ \A d \in Callers : run'[d].tickets = run[d].tickets
    BY <1>7 DEF Serial
  <2>2. \A h \in Helpers : (h \in Unseated' <=> h \in Unseated) /\ (h \in Awake => h \in Awake')
    BY <1>7 DEF Serial, TypeOK, Places, CallerPlaces, Unseated, Awake, Seated
  <2> QED BY <2>1, <2>2, SeatsSame
<1>8. ASSUME NEW c \in Callers, CancelSeats(c) PROVE SeatsKept'
  <2>1. \A h \in Helpers : (h \in Unseated' <=> h \in Unseated) /\ (h \in Awake <=> h \in Awake')
    BY <1>8 DEF CancelSeats, TypeOK, Unseated, Awake, Seated
  <2>2. CASE ~Queued(c)
    <3>1. idle' = idle /\ run' = run
      BY <1>8, <2>2 DEF CancelSeats
    <3> QED BY <2>1, <3>1, SeatsSame
  <2>3. CASE Queued(c)
    <3>1. idle' = idle + run[c].tickets /\ run'[c].tickets = 0
          /\ \A d \in Callers \ {c} : run'[d].tickets = run[d].tickets
      BY <1>8, <2>3 DEF CancelSeats, SeatsLeft, TypeOK, VpRun
    <3>2. /\ IsFiniteSet(OpenSeats') /\ Cardinality(OpenSeats) \in Nat
          /\ Cardinality(OpenSeats') = Cardinality(OpenSeats) - run[c].tickets
      <4>1. run[c].tickets \in Nat
        BY DEF TypeOK, VpRun
      <4>2. /\ IsFiniteSet(OpenSeats') /\ Cardinality(OpenSeats) \in Nat
            /\ Cardinality(OpenSeats') = Cardinality(OpenSeats) + 0 - run[c].tickets
        BY <3>1, TicketsChange DEF SeatsKept
      <4> QED BY <4>1, <4>2
    <3>3. Unseated' = Unseated /\ Awake' = Awake
      BY <2>1 DEF Unseated, Awake
    <3>4. run[c].tickets \in Nat /\ idle \in Nat /\ Cardinality(Unseated) \in Nat /\ Cardinality(Awake) \in Nat
      BY HelperSets DEF TypeOK, VpRun
    <3> QED BY <3>1, <3>2, <3>3, <3>4 DEF SeatsKept, SeatsConserved, NoSeatSleeps
  <2> QED BY <2>2, <2>3
<1>9. ASSUME NEW c \in Callers, AwaitHelpers(c) PROVE SeatsKept'
  <2>1. idle' = idle /\ \A d \in Callers : run'[d].tickets = run[d].tickets
    BY <1>9 DEF AwaitHelpers
  <2>2. \A h \in Helpers : (h \in Unseated' <=> h \in Unseated) /\ (h \in Awake => h \in Awake')
    BY <1>9 DEF AwaitHelpers, TypeOK, Places, CallerPlaces, Unseated, Awake, Seated
  <2> QED BY <2>1, <2>2, SeatsSame
<1>10. ASSUME NEW c \in Callers, Return(c) PROVE SeatsKept'
  <2>1. run[c].tickets = 0
    BY <1>10 DEF Return, Frames, Live, NoRun, CancelledBeforeWait, Queued, TypeOK, VpRun
  <2>2. idle' = idle /\ \A d \in Callers : run'[d].tickets = run[d].tickets
    BY <1>10, <2>1 DEF Return, NoRun, TypeOK
  <2>3. \A h \in Helpers : (h \in Unseated' <=> h \in Unseated) /\ (h \in Awake => h \in Awake')
    BY <1>10 DEF Return, TypeOK, Unseated, Awake, Seated
  <2> QED BY <2>2, <2>3, SeatsSame
<1>11. ASSUME NEW t \in Threads, Claim(t) PROVE SeatsKept'
  <2>1. idle' = idle /\ \A d \in Callers : run'[d].tickets = run[d].tickets
    BY <1>11 DEF Claim, VpRun, TypeOK
  <2>2. \A h \in Helpers : (h \in Unseated' <=> h \in Unseated) /\ (h \in Awake => h \in Awake')
    BY <1>11 DEF Claim, TypeOK, Places, CallerPlaces, Unseated, Awake, Seated
  <2> QED BY <2>1, <2>2, SeatsSame
<1>12. ASSUME NEW t \in Threads, FnReturns(t) PROVE SeatsKept'
  <2>1. idle' = idle /\ \A d \in Callers : run'[d].tickets = run[d].tickets
    BY <1>12 DEF FnReturns
  <2>2. \A h \in Helpers : (h \in Unseated' <=> h \in Unseated) /\ (h \in Awake => h \in Awake')
    BY <1>12 DEF FnReturns, TypeOK, Places, CallerPlaces, Unseated, Awake, Seated
  <2> QED BY <2>1, <2>2, SeatsSame
<1>13. ASSUME NEW t \in Threads, Lock(t) \/ SpuriousWake(t) PROVE SeatsKept'
  <2>1. idle' = idle /\ \A d \in Callers : run'[d].tickets = run[d].tickets
    BY <1>13 DEF Lock, SpuriousWake
  <2>2. \A h \in Helpers : (h \in Unseated' <=> h \in Unseated) /\ (h \in Awake => h \in Awake')
    BY <1>13 DEF Lock, SpuriousWake, TypeOK, Places, CallerPlaces, Unseated, Awake, Seated
  <2> QED BY <2>1, <2>2, SeatsSame
<1>14. ASSUME NEW h \in Helpers, Sleep(h) PROVE SeatsKept'
  <2>1. Waiting = {}
    BY <1>14 DEF Sleep, QueueIsList, ListOf, InOrder, Waiting
  <2>2. \A d \in Callers : run[d].tickets = 0
    BY <2>1 DEF Waiting, Queued, TypeOK, VpRun
  <2>3. run' = run /\ idle' = idle
    BY <1>14 DEF Sleep
  <2>4. OpenSeats = {} /\ OpenSeats' = OpenSeats
    <3>1. \A d \in Callers : {d} \X (1 .. run[d].tickets) = {}
      BY <2>2
    <3> QED BY <2>3, <3>1, Zenon DEF OpenSeats
  <2>5. Unseated' = Unseated
    BY <1>14 DEF Sleep, TypeOK, Unseated, Seated
  <2>6. Cardinality(OpenSeats') = 0 /\ Cardinality(Awake') \in Nat
    <3>1. Awake' \in SUBSET Helpers
      BY DEF Awake, Unseated
    <3> QED BY <2>4, <3>1, FS_EmptySet, FiniteHelpers
  <2> QED BY <2>3, <2>4, <2>5, <2>6 DEF SeatsKept, SeatsConserved, NoSeatSleeps
<1>15. ASSUME NEW h \in Helpers, TakeSeat(h) PROVE SeatsKept'
  <2>1. head \in Callers /\ run[head].tickets \in Nat \ {0}
    BY <1>15 DEF TakeSeat, FramesOutliveUses, Queued, TypeOK, VpRun
  <2>2. idle' = idle /\ run'[head].tickets = run[head].tickets - 1
        /\ \A d \in Callers \ {head} : run'[d].tickets = run[d].tickets
    BY <1>15, <2>1 DEF TakeSeat, TypeOK, VpRun
  <2>3. /\ IsFiniteSet(OpenSeats') /\ Cardinality(OpenSeats) \in Nat
        /\ Cardinality(OpenSeats') = Cardinality(OpenSeats) - 1
    <3>1. /\ IsFiniteSet(OpenSeats') /\ Cardinality(OpenSeats) \in Nat
          /\ Cardinality(OpenSeats') = Cardinality(OpenSeats) + run'[head].tickets - run[head].tickets
      BY <2>1, <2>2, TicketsChange DEF SeatsKept
    <3> QED BY <2>1, <2>2, <3>1
  <2>4. pc[h] = "look" /\ pc'[h] = "chunks" /\ \A g \in Helpers \ {h} : pc'[g] = pc[g]
    BY <1>15 DEF TakeSeat, TypeOK
  <2>5. h \in Unseated /\ h \in Awake /\ Unseated' = Unseated \ {h} /\ Awake' = Awake \ {h}
    BY <2>4 DEF Unseated, Awake, Seated
  <2>6. /\ Cardinality(Unseated') = Cardinality(Unseated) - 1 /\ Cardinality(Awake') = Cardinality(Awake) - 1
        /\ Cardinality(Unseated) \in Nat /\ Cardinality(Awake) \in Nat
    BY <2>5, HelperSets, FS_RemoveElement
  <2>7. idle \in Nat
    BY DEF TypeOK
  <2> QED BY <2>2, <2>3, <2>6, <2>7 DEF SeatsKept, SeatsConserved, NoSeatSleeps
<1>16. ASSUME NEW h \in Helpers, LeaveSeat(h) PROVE SeatsKept'
  <2>1. idle' = idle + 1 /\ \A d \in Callers : run'[d].tickets = run[d].tickets
    BY <1>16 DEF LeaveSeat, TypeOK, VpRun
  <2>2. pc[h] = "back" /\ pc'[h] = "look" /\ \A g \in Helpers \ {h} : pc'[g] = pc[g]
    BY <1>16 DEF LeaveSeat, TypeOK
  <2>3. Unseated' = Unseated \cup {h} /\ Awake' = Awake \cup {h} /\ Unseated \cap {h} = {}
    BY <2>2 DEF Unseated, Awake, Seated
  <2>4. Cardinality({h}) = 1 /\ {h} \in SUBSET Helpers
    BY FS_Singleton
  <2> QED BY <2>1, <2>3, <2>4, SpawnKeeps
<1> QED
  BY <1>1, <1>2, <1>3, <1>4, <1>5, <1>6, <1>7, <1>8, <1>9, <1>10, <1>11, <1>12, <1>13,
     <1>14, <1>15, <1>16
  DEF Next, CallerStep, HelperStep, ChunkStep, BorrowStep

LEMMA SeatsInvariant == Spec => []SeatsKept
<1>1. Init => SeatsKept
  <2> SUFFICES ASSUME Init PROVE SeatsKept
    OBVIOUS
  <2>1. OpenSeats = {}
    <3>1. \A d \in Callers : {d} \X (1 .. run[d].tickets) = {}
      BY DEF Init, NoRun
    <3> QED BY <3>1, Zenon DEF OpenSeats
  <2>2. Unseated = {} /\ Awake = {}
    BY PoolAssumption DEF Init, Unseated, Awake, Threads
  <2> QED BY <2>1, <2>2, FS_EmptySet DEF Init, SeatsKept, SeatsConserved, NoSeatSleeps
<1>2. IInv /\ SeatsKept /\ [Next]_vars => SeatsKept'
  <2>1. CASE Next
    BY <2>1, NextSeats
  <2>2. CASE UNCHANGED vars
    BY <2>2 DEF vars, shared, queue, bounds, SeatsKept, SeatsConserved, NoSeatSleeps,
                OpenSeats, Unseated, Awake, Seated
  <2> QED BY <2>1, <2>2
<1> QED BY Invariance, <1>1, <1>2, PTL DEF Spec

(* No helper seat is lost or lent twice by borrowing, taking, cancelling,   *)
(* returning or leaving, in whatever order callers and helpers do so.       *)
THEOREM SeatsBalanced == Spec => []SeatsConserved
<1>1. SeatsKept => SeatsConserved
  BY DEF SeatsKept
<1> QED BY SeatsInvariant, <1>1, PTL

(* Waking one helper for a run of one seat, and all for a run of more, is   *)
(* enough: an open seat always has a helper awake that will look for it.    *)
THEOREM NoWakeupLost == Spec => []NoSeatSleeps
<1>1. SeatsKept => NoSeatSleeps
  BY DEF SeatsKept
<1> QED BY SeatsInvariant, <1>1, PTL
-----------------------------------------------------------------------------
(* The pool implements ParallelFor: every step of it is a step of the       *)
(* abstract loop or changes nothing the loop sees.                          *)
LEMMA SizedInvariant == Spec => []Sized
<1>1. Init => Sized
  BY DEF Init, Sized, NoCall, Threads
<1>2. TypeOK /\ Places /\ Sized /\ [Next]_vars => Sized'
  <2> SUFFICES ASSUME TypeOK, Places, Sized, [Next]_vars PROVE Sized'
    OBVIOUS
  <2> USE DEF Sized, Goto, Threads, shared
  <2>1. ASSUME NEW k \in CoreSettings, VesPool_configure(k) PROVE Sized'
    BY <2>1 DEF VesPool_configure
  <2>2. ASSUME NEW c \in Callers, VesPool_job_enter(c) \/ VesPool_job_leave(c) PROVE Sized'
    BY <2>2 DEF VesPool_job_enter, VesPool_job_leave
  <2>3. ASSUME NEW c \in Callers, NEW w \in Works, Enter(c, w) PROVE Sized'
    <3>1. w.n > 0 /\ w.n \in Nat
      BY <2>3, PoolAssumption DEF Enter
    <3>2. call'[c].n = w.n /\ pc'[c] = "share"
      BY <2>3 DEF Enter, TypeOK
    <3>3. \A d \in Callers \ {c} : call'[d] = call[d] /\ pc'[d] = pc[d]
      BY <2>3 DEF Enter, TypeOK
    <3> QED BY <3>1, <3>2, <3>3
  <2>4. ASSUME NEW c \in Callers, Share(c) PROVE Sized'
    <3>1. PICK want : call' = [call EXCEPT ![c].want = want]
      BY <2>4 DEF Share
    <3>2. \A d \in Callers : call'[d].n = call[d].n
      BY <3>1 DEF TypeOK, Arguments
    <3>3. pc[c] = "share" /\ pc'[c] # "out" /\ \A d \in Callers \ {c} : pc'[d] = pc[d]
      BY <2>4 DEF Share, TypeOK
    <3> QED BY <3>2, <3>3
  <2>5. ASSUME NEW c \in Callers, BorrowStep(c) PROVE Sized'
    <3>1. PICK S \in SUBSET Helpers, W \in SUBSET Helpers : BorrowNone(c, S) \/ Borrow(c, S, W)
      BY <2>5 DEF BorrowStep
    <3>2. call' = call /\ pc[c] = "borrow" /\ pc'[c] # "out"
      BY <3>1 DEF BorrowNone, Borrow
    <3>3. \A d \in Callers \ {c} : pc'[d] = pc[d] \/ (pc[d] = "locking" /\ pc'[d] = "locking")
      <4>1. S \cap Callers = {} /\ W \cap Callers = {}
        BY PoolAssumption
      <4> QED BY <3>1, <4>1 DEF BorrowNone, Borrow
    <3> QED BY <3>2, <3>3
  <2>6. ASSUME NEW c \in Callers, Serial(c) \/ CancelSeats(c) \/ AwaitHelpers(c) PROVE Sized'
    BY <2>6 DEF Serial, CancelSeats, AwaitHelpers, TypeOK
  <2>7. ASSUME NEW c \in Callers, Return(c) PROVE Sized'
    BY <2>7 DEF Return, NoCall, TypeOK
  <2>8. ASSUME NEW h \in Helpers, HelperStep(h) PROVE Sized'
    <3>1. call' = call
      BY <2>8 DEF HelperStep, Sleep, TakeSeat, LeaveSeat
    <3>2. \A d \in Callers : pc'[d] = pc[d] \/ (pc[d] = "waiting" /\ pc'[d] = "locking")
      <4>1. h \notin Callers
        BY PoolAssumption
      <4> QED BY <2>8, <4>1 DEF HelperStep, Sleep, TakeSeat, LeaveSeat, TypeOK
    <3> QED BY <3>1, <3>2
  <2>9. ASSUME NEW t \in Threads, ChunkStep(t) \/ SpuriousWake(t) PROVE Sized'
    <3>1. call' = call
      BY <2>9 DEF ChunkStep, Claim, FnReturns, Lock, SpuriousWake
    <3>2. \A d \in Callers : pc'[d] = pc[d] \/ (d = t /\ pc[d] # "out" /\ pc'[d] # "out")
      BY <2>9 DEF ChunkStep, Claim, FnReturns, Lock, SpuriousWake, TypeOK
    <3> QED BY <3>1, <3>2
  <2>10. CASE UNCHANGED vars
    BY <2>10 DEF vars
  <2> QED BY <2>1, <2>2, <2>3, <2>4, <2>5, <2>6, <2>7, <2>8, <2>9, <2>10 DEF Next, CallerStep
<1>3. IInv => TypeOK /\ Places
  BY DEF IInv
<1> QED BY <1>1, <1>2, <1>3, Invariance, PTL DEF Spec
-----------------------------------------------------------------------------
(* Steps of the loop, as the mapping sees them. *)

LEMMA DoingCall ==
  ASSUME NEW c \in Callers, NEW i, pc[c] # "serial"
  PROVE  i \in Doing(c) <=> \E t \in Threads : InCall(t, c) /\ i \in Chunk(t)
BY DEF Doing

(* A thread that is not in fn before or after, or in it for the same chunk. *)
LEMMA DoingSame ==
  ASSUME NEW c \in Callers, pc'[c] = "serial" <=> pc[c] = "serial", call'[c] = call[c],
         \A t \in Threads : InCall(t, c)' <=> InCall(t, c),
         \A t \in Threads : InCall(t, c) => at'[t] = at[t]
  PROVE  Doing(c)' = Doing(c)
<1>1. \A t \in Threads : InCall(t, c) => Chunk(t)' = Chunk(t)
  BY DEF Chunk, InCall
<1> QED BY <1>1 DEF Doing

LEMMA NobodyInCall ==
  ASSUME Places, Frames, NEW c \in Callers, ~Live(c), pc[c] # "serial"
  PROVE  Doing(c) = {}
BY InCallLive DEF Doing

(* A step that moves no thread into fn or out of it.                        *)
LEMMA NoLoopStep ==
  ASSUME \A c \in Callers : pc'[c] = "serial" <=> pc[c] = "serial",
         \A t \in Threads : pc'[t] = "call" <=> pc[t] = "call",
         \A t \in Threads : pc[t] = "call" => at'[t] = at[t],
         call' = call, done' = done
  PROVE  UNCHANGED Loop!vars
<1>1. \A t \in Threads, c \in Callers : InCall(t, c)' <=> InCall(t, c)
  BY DEF InCall
<1>2. \A t \in Threads, c \in Callers : InCall(t, c) => at'[t] = at[t]
  BY DEF InCall
<1>3. \A c \in Callers : Doing(c)' = Doing(c)
  BY <1>1, <1>2, DoingSame
<1>4. Sizes' = Sizes /\ Doings' = Doings
  BY <1>3 DEF Sizes, Doings
<1> QED BY <1>4 DEF Loop!vars

LEMMA BeginStep ==
  ASSUME TypeOK, Places, Frames, Sized, NEW c \in Callers, NEW w \in Works, Enter(c, w)
  PROVE  Loop!Begin(c)
<1> USE DEF TypeOK, Threads
<1>1. Sizes[c] = 0
  BY DEF Enter, Sized, Sizes
<1>2. w.n > 0 /\ Sizes'[c] = w.n
  BY DEF Enter, Sizes
<1>3. Sizes' = [Sizes EXCEPT ![c] = Sizes'[c]]
  BY DEF Enter, Sizes
<1>4. \A d \in Callers \ {c} : Doing(d)' = Doing(d)
  <2> SUFFICES ASSUME NEW d \in Callers \ {c} PROVE Doing(d)' = Doing(d)
    OBVIOUS
  <2>1. (pc'[d] = "serial" <=> pc[d] = "serial") /\ call'[d] = call[d]
    BY DEF Enter, Goto
  <2>2. \A t \in Threads : (InCall(t, d)' <=> InCall(t, d)) /\ at'[t] = at[t]
    BY DEF Enter, Goto, InCall
  <2> QED BY <2>1, <2>2, DoingSame
<1>5. Doing(c) = {}
  BY NobodyInCall DEF Enter, Live
<1>6. Doing(c)' = {}
  <2>1. \A t \in Threads : ~InCall(t, c)
    BY InCallLive DEF Enter, Live
  <2>2. \A t \in Threads : ~InCall(t, c)'
    BY <2>1 DEF Enter, Goto, InCall
  <2> QED BY <2>2 DEF Doing, Enter, Goto
<1>7. Doings' = Doings
  BY <1>4, <1>5, <1>6 DEF Doings
<1> QED BY <1>1, <1>2, <1>3, <1>7 DEF Loop!Begin, Enter

(* The caller starts on its own. *)
LEMMA SerialStart ==
  ASSUME TypeOK, Places, Frames, Sized, Claims, NEW c \in Callers,
         pc[c] \in {"share", "borrow"}, pc'[c] = "serial",
         \A d \in Callers : call'[d].n = call[d].n /\ (d # c => call'[d] = call[d]),
         \A t \in Threads \ {c} : pc'[t] = pc[t] \/ (pc[t] \notin {"call", "serial"} /\ pc'[t] = "locking"),
         at' = at, done' = done
  PROVE  Loop!Start(c)
<1> USE DEF TypeOK, Threads
<1>1. \A d \in Callers \ {c} : Doing(d)' = Doing(d)
  <2> SUFFICES ASSUME NEW d \in Callers \ {c} PROVE Doing(d)' = Doing(d)
    OBVIOUS
  <2>1. (pc'[d] = "serial" <=> pc[d] = "serial") /\ call'[d] = call[d]
    OBVIOUS
  <2>2. \A t \in Threads : (InCall(t, d)' <=> InCall(t, d)) /\ at'[t] = at[t]
    BY DEF InCall
  <2> QED BY <2>1, <2>2, DoingSame
<1>2. ~Live(c) /\ pc[c] # "served" /\ pc[c] # "out" /\ pc[c] # "serial"
  BY DEF Live
<1>3. Doing(c) = {} /\ done[c] = {} /\ call[c].n \in Nat \ {0}
  BY <1>2, NobodyInCall DEF Claims, Sized, Arguments
<1>4. Doing(c)' = 0 .. call[c].n - 1
  BY DEF Doing
<1>5. Sizes' = Sizes /\ Sizes[c] = call[c].n
  BY DEF Sizes
<1>6. Doings[c] = {} /\ Doings'[c] = 0 .. call[c].n - 1
  BY <1>3, <1>4 DEF Doings
<1>7. Doings' = [Doings EXCEPT ![c] = @ \cup (Doings'[c] \ Doings[c])]
  BY <1>1, <1>6 DEF Doings
<1>8. 0 \in 0 .. call[c].n - 1
  BY <1>3
<1> QED BY <1>3, <1>5, <1>6, <1>7, <1>8 DEF Loop!Start

LEMMA SerialFinish ==
  ASSUME TypeOK, Places, Frames, Sized, Claims, NEW c \in Callers, Serial(c)
  PROVE  Loop!Finish(c)
<1> USE DEF TypeOK, Threads
<1>1. pc[c] = "serial" /\ pc'[c] = "served" /\ call' = call /\ at' = at
      /\ \A t \in Threads \ {c} : pc'[t] = pc[t]
  BY DEF Serial, Goto
<1>2. \A d \in Callers \ {c} : Doing(d)' = Doing(d)
  <2> SUFFICES ASSUME NEW d \in Callers \ {c} PROVE Doing(d)' = Doing(d)
    OBVIOUS
  <2>1. \A t \in Threads : (InCall(t, d)' <=> InCall(t, d))
    BY <1>1 DEF InCall
  <2> QED BY <1>1, <2>1, DoingSame
<1>3. ~Live(c) /\ done[c] = {} /\ call[c].n \in Nat \ {0}
  BY <1>1 DEF Live, Claims, Sized, Arguments
<1>4. Doing(c) = 0 .. call[c].n - 1
  BY <1>1 DEF Doing
<1>5. Doing(c)' = {}
  <2>1. \A t \in Threads : ~InCall(t, c)'
    BY <1>1, <1>3, InCallLive DEF InCall
  <2> QED BY <1>1, <2>1 DEF Doing
<1>6. Sizes' = Sizes
  BY <1>1 DEF Sizes
<1>7. Doings[c] = 0 .. call[c].n - 1 /\ Doings'[c] = {}
  BY <1>4, <1>5 DEF Doings
<1>8. Doings' = [Doings EXCEPT ![c] = @ \ (Doings[c] \ Doings'[c])]
  BY <1>2, <1>7 DEF Doings
<1>9. done' = [done EXCEPT ![c] = @ \cup (Doings[c] \ Doings'[c])]
  BY <1>3, <1>7 DEF Serial
<1>10. 0 \in 0 .. call[c].n - 1
  BY <1>3
<1> QED BY <1>6, <1>7, <1>8, <1>9, <1>10 DEF Loop!Finish

LEMMA ReturnStep ==
  ASSUME IInv, Sized, NEW c \in Callers, Return(c)
  PROVE  Loop!Return(c)
<1>a. TypeOK /\ Places /\ Frames
  BY DEF IInv
<1> USE <1>a DEF TypeOK, Threads
<1>1. done[c] = 0 .. call[c].n - 1 /\ \A t \in Threads : ~InCall(t, c)
  BY DoneWhenReturning DEF ReturnsWhenDone, Return
<1>2. /\ pc[c] \in {"served", "drain"} /\ pc'[c] = "out" /\ call'[c] = NoCall /\ at'[c] = NoSeat
      /\ \A d \in Callers \ {c} : call'[d] = call[d]
      /\ \A t \in Threads \ {c} : pc'[t] = pc[t] /\ at'[t] = at[t]
  BY DEF Return, Goto
<1>3. Doing(c) = {}
  BY <1>1, <1>2 DEF Doing
<1>4. Doing(c)' = {}
  <2>1. \A t \in Threads : ~InCall(t, c)'
    <3> SUFFICES ASSUME NEW t \in Threads, InCall(t, c)' PROVE FALSE
      OBVIOUS
    <3>1. t # c
      BY <1>2 DEF InCall
    <3>2. InCall(t, c)
      BY <3>1, <1>2 DEF InCall
    <3> QED BY <3>2, <1>1
  <2> QED BY <1>2, <2>1 DEF Doing
<1>5. \A d \in Callers \ {c} : Doing(d)' = Doing(d)
  <2> SUFFICES ASSUME NEW d \in Callers \ {c} PROVE Doing(d)' = Doing(d)
    OBVIOUS
  <2>1. \A t \in Threads : (InCall(t, d)' <=> InCall(t, d)) /\ (InCall(t, d) => t # c)
    BY <1>2 DEF InCall
  <2>2. \A t \in Threads : InCall(t, d) => at'[t] = at[t]
    BY <1>2, <2>1
  <2> QED BY <1>2, <2>1, <2>2, DoingSame
<1>6. Doings' = Doings /\ Doings[c] = {}
  BY <1>3, <1>4, <1>5 DEF Doings
<1>7. Sizes' = [Sizes EXCEPT ![c] = 0] /\ Sizes[c] = call[c].n
  BY DEF Return, Sizes, NoCall
<1>8. call[c].n > 0
  BY <1>2 DEF Sized, Arguments
<1> QED BY <1>1, <1>6, <1>7, <1>8 DEF Loop!Return, Return

(* A thread starts a chunk that the claim of it cut from the range. *)
LEMMA ClaimStep ==
  ASSUME IInv, Next, NEW t \in Threads, Claim(t)
  PROVE  [Loop!Next]_(Loop!vars)
<1>a. TypeOK /\ Places /\ Frames /\ Claims /\ ChunksDisjoint'
  BY NextDisjoint DEF IInv
<1> USE <1>a DEF TypeOK, Threads
<1>r. PICK r \in Callers : r = at[t].run /\ Live(r)
  BY ServesLive DEF Claim
<1>s. PICK s \in Nat : s = run[r].next
  BY DEF VpRun
<1>1. /\ pc[t] = "chunks" /\ call' = call /\ done' = done
      /\ \A u \in Threads \ {t} : pc'[u] = pc[u] /\ at'[u] = at[u]
  BY DEF Claim, Goto
<1>2. call[r].chunk \in Nat \ {0} /\ call[r].n \in Nat
  BY DEF Arguments
<1>3. CASE s < call[r].n
  <2>1. at' = [at EXCEPT ![t].lo = s] /\ pc'[t] = "call"
    BY <1>2, <1>3, <1>r, <1>s DEF Claim, Goto
  <2>2. at'[t].run = r /\ at'[t].lo = s
    BY <2>1, <1>r DEF Seat
  <2>3. InCall(t, r)' /\ Chunk(t)' = s .. Least(s + call[r].chunk, call[r].n) - 1
    BY <2>1, <2>2, <1>1 DEF Chunk, InCall
  <2>4. s \in Chunk(t)' /\ Chunk(t)' \subseteq 0 .. call[r].n - 1
    BY <2>3, <1>2, <1>3 DEF Least
  <2>5. Chunk(t)' \cap done[r] = {}
    BY <2>3, <1>1 DEF ChunksDisjoint
  <2>6. pc[r] # "serial" /\ pc'[r] # "serial"
    BY <1>r, <1>1, <2>1 DEF Live
  <2>7. \A u \in Threads \ {t} : (InCall(u, r)' <=> InCall(u, r)) /\ (InCall(u, r) => Chunk(u)' = Chunk(u))
    BY <1>1 DEF InCall, Chunk
  <2>8. ~InCall(t, r)
    BY <1>1 DEF InCall
  <2>9. Doing(r) = UNION {Chunk(u) : u \in {v \in Threads : InCall(v, r)}}
        /\ Doing(r)' = UNION {Chunk(u)' : u \in {v \in Threads : InCall(v, r)'}}
    BY <2>6 DEF Doing
  <2>10. \A i : i \in Doing(r)' <=> i \in Doing(r) \/ i \in Chunk(t)'
    BY <2>3, <2>7, <2>8, <2>9
  <2>11. Chunk(t)' \cap Doing(r) = {}
    <3> SUFFICES ASSUME NEW u \in Threads, InCall(u, r) PROVE Chunk(t)' \cap Chunk(u) = {}
      BY <2>9
    <3>1. u # t /\ InCall(u, r)' /\ Chunk(u)' = Chunk(u)
      BY <2>7, <2>8
    <3> QED BY <3>1, <2>3 DEF ChunksDisjoint
  <2>12. \A d \in Callers \ {r} : Doing(d)' = Doing(d)
    <3> SUFFICES ASSUME NEW d \in Callers \ {r} PROVE Doing(d)' = Doing(d)
      OBVIOUS
    <3>1. \A u \in Threads : (InCall(u, d)' <=> InCall(u, d)) /\ (InCall(u, d) => u # t)
      BY <1>1, <2>2 DEF InCall
    <3>2. \A u \in Threads : InCall(u, d) => at'[u] = at[u]
      BY <1>1, <3>1
    <3>3. pc'[d] = "serial" <=> pc[d] = "serial"
      BY <1>1, <2>1
    <3> QED BY <1>1, <3>1, <3>2, <3>3, DoingSame
  <2>13. Doings'[r] \ Doings[r] = Chunk(t)'
    BY <2>10, <2>11 DEF Doings
  <2>14. Doings' = [Doings EXCEPT ![r] = @ \cup Chunk(t)']
    BY <2>10, <2>12 DEF Doings
  <2>15. Sizes' = Sizes /\ Sizes[r] = call[r].n
    BY <1>1 DEF Sizes
  <2>16. Chunk(t)' # {} /\ Chunk(t)' \subseteq (0 .. Sizes[r] - 1) \ done[r]
    BY <2>4, <2>5, <2>15
  <2>17. Loop!Start(r)
    BY <2>13, <2>14, <2>15, <2>16, <1>1 DEF Loop!Start
  <2> QED BY <2>17 DEF Loop!Next
<1>4. CASE s >= call[r].n
  <2>1. pc'[t] # "call" /\ pc'[t] # "serial" /\ at' = at
    BY <1>2, <1>4, <1>r, <1>s DEF Claim, Goto
  <2>2. \A c \in Callers : pc'[c] = "serial" <=> pc[c] = "serial"
    BY <2>1, <1>1
  <2>3. \A u \in Threads : pc'[u] = "call" <=> pc[u] = "call"
    BY <2>1, <1>1
  <2>4. \A u \in Threads : pc[u] = "call" => at'[u] = at[u]
    BY <2>1
  <2> HIDE DEF TypeOK, Threads
  <2> QED BY <1>1, <2>2, <2>3, <2>4, NoLoopStep
<1> QED BY <1>2, <1>3, <1>4

LEMMA FnReturnsStep ==
  ASSUME IInv, NEW t \in Threads, FnReturns(t)
  PROVE  \E c \in Callers : Loop!Finish(c)
<1>a. TypeOK /\ Places /\ Frames /\ Claims /\ ChunksDisjoint
  BY DEF IInv
<1> USE <1>a DEF TypeOK, Threads
<1>r. PICK r \in Callers : r = at[t].run /\ Live(r)
  BY ServesLive DEF FnReturns
<1>1. /\ pc[t] = "call" /\ pc'[t] = "chunks" /\ call' = call
      /\ \A u \in Threads \ {t} : pc'[u] = pc[u] /\ at'[u] = at[u]
  BY DEF FnReturns, Goto
<1>2. InCall(t, r) /\ \A d \in Callers : ~InCall(t, d)'
  BY <1>1, <1>r DEF InCall
<1>3. at[t].lo \in Chunk(t)
  <2>1. at[t].lo < call[r].n /\ at[t].lo \in Nat /\ call[r].chunk \in Nat \ {0} /\ call[r].n \in Nat
    BY <1>2 DEF Claims, Seat, Arguments
  <2> QED BY <2>1, <1>r DEF Chunk, Least
<1>4. pc[r] # "serial" /\ pc'[r] # "serial"
  BY <1>r, <1>1 DEF Live
<1>5. \A u \in Threads \ {t} : (InCall(u, r)' <=> InCall(u, r)) /\ Chunk(u)' = Chunk(u)
  BY <1>1 DEF InCall, Chunk
<1>6. Doing(r) = UNION {Chunk(u) : u \in {v \in Threads : InCall(v, r)}}
      /\ Doing(r)' = UNION {Chunk(u)' : u \in {v \in Threads : InCall(v, r)'}}
  BY <1>4 DEF Doing
<1>7. \A u \in Threads \ {t} : InCall(u, r) => Chunk(u) \cap Chunk(t) = {}
  BY <1>2 DEF ChunksDisjoint
<1>8. \A i : i \in Doing(r)' <=> i \in Doing(r) /\ i \notin Chunk(t)
  BY <1>2, <1>5, <1>6, <1>7
<1>9. Chunk(t) \subseteq Doing(r)
  BY <1>2, <1>6
<1>10. \A d \in Callers \ {r} : Doing(d)' = Doing(d)
  <2> SUFFICES ASSUME NEW d \in Callers \ {r} PROVE Doing(d)' = Doing(d)
    OBVIOUS
  <2>1. \A u \in Threads : (InCall(u, d)' <=> InCall(u, d)) /\ (InCall(u, d) => u # t)
    BY <1>1, <1>r DEF InCall
  <2>2. \A u \in Threads : InCall(u, d) => at'[u] = at[u]
    BY <1>1, <2>1
  <2>3. pc'[d] = "serial" <=> pc[d] = "serial"
    BY <1>1
  <2> QED BY <1>1, <2>1, <2>2, <2>3, DoingSame
<1>11. Doings[r] \ Doings'[r] = Chunk(t)
  BY <1>8, <1>9 DEF Doings
<1>12. Doings' = [Doings EXCEPT ![r] = @ \ Chunk(t)]
  BY <1>8, <1>10 DEF Doings
<1>13. Sizes' = Sizes
  BY <1>1 DEF Sizes
<1>14. done' = [done EXCEPT ![r] = @ \cup Chunk(t)]
  BY <1>r DEF FnReturns
<1> QED BY <1>3, <1>11, <1>12, <1>13, <1>14 DEF Loop!Finish

LEMMA LoopStep ==
  ASSUME IInv, Sized, [Next]_vars
  PROVE  [Loop!Next]_(Loop!vars)
<1>a. TypeOK /\ Places /\ Frames /\ FramesOutliveUses /\ Claims
  BY DEF IInv
<1> USE <1>a, PoolAssumption DEF TypeOK, Threads, Places, CallerPlaces, HelperPlaces, Goto, shared
<1>1. ASSUME NEW k \in CoreSettings, VesPool_configure(k) PROVE UNCHANGED Loop!vars
  <2>1. \A d \in Callers : pc'[d] = "serial" <=> pc[d] = "serial"
    BY <1>1 DEF VesPool_configure
  <2>2. \A u \in Threads : pc'[u] = "call" <=> pc[u] = "call"
    BY <1>1 DEF VesPool_configure
  <2>3. \A u \in Threads : pc[u] = "call" => at'[u] = at[u]
    BY <1>1 DEF VesPool_configure
  <2>4. call' = call /\ done' = done
    BY <1>1 DEF VesPool_configure
  <2> HIDE DEF TypeOK, Threads
  <2> QED BY <2>1, <2>2, <2>3, <2>4, NoLoopStep
<1>2. ASSUME NEW c \in Callers, VesPool_job_enter(c) \/ VesPool_job_leave(c)
      PROVE  UNCHANGED Loop!vars
  <2>1. \A d \in Callers : pc'[d] = "serial" <=> pc[d] = "serial"
    BY <1>2 DEF VesPool_job_enter, VesPool_job_leave
  <2>2. \A u \in Threads : pc'[u] = "call" <=> pc[u] = "call"
    BY <1>2 DEF VesPool_job_enter, VesPool_job_leave
  <2>3. \A u \in Threads : pc[u] = "call" => at'[u] = at[u]
    BY <1>2 DEF VesPool_job_enter, VesPool_job_leave
  <2>4. call' = call /\ done' = done
    BY <1>2 DEF VesPool_job_enter, VesPool_job_leave
  <2> HIDE DEF TypeOK, Threads
  <2> QED BY <2>1, <2>2, <2>3, <2>4, NoLoopStep
<1>6. ASSUME NEW c \in Callers, NEW S \in SUBSET Helpers, NEW W \in SUBSET Helpers, Borrow(c, S, W)
      PROVE  UNCHANGED Loop!vars
  <2>1. \A d \in Callers : pc'[d] = "serial" <=> pc[d] = "serial"
    BY <1>6 DEF Borrow, Spawnable, Woken, Asleep
  <2>2. \A u \in Threads : pc'[u] = "call" <=> pc[u] = "call"
    BY <1>6 DEF Borrow, Spawnable, Woken, Asleep
  <2>3. \A u \in Threads : pc[u] = "call" => at'[u] = at[u]
    BY <1>6 DEF Borrow, Spawnable, Woken, Asleep
  <2>4. call' = call /\ done' = done
    BY <1>6 DEF Borrow, Spawnable, Woken, Asleep
  <2> HIDE DEF TypeOK, Threads
  <2> QED BY <2>1, <2>2, <2>3, <2>4, NoLoopStep
<1>8. ASSUME NEW c \in Callers, CancelSeats(c) PROVE UNCHANGED Loop!vars
  <2>1. \A d \in Callers : pc'[d] = "serial" <=> pc[d] = "serial"
    BY <1>8 DEF CancelSeats
  <2>2. \A u \in Threads : pc'[u] = "call" <=> pc[u] = "call"
    BY <1>8 DEF CancelSeats
  <2>3. \A u \in Threads : pc[u] = "call" => at'[u] = at[u]
    BY <1>8 DEF CancelSeats
  <2>4. call' = call /\ done' = done
    BY <1>8 DEF CancelSeats
  <2> HIDE DEF TypeOK, Threads
  <2> QED BY <2>1, <2>2, <2>3, <2>4, NoLoopStep
<1>9. ASSUME NEW c \in Callers, AwaitHelpers(c) PROVE UNCHANGED Loop!vars
  <2>1. \A d \in Callers : pc'[d] = "serial" <=> pc[d] = "serial"
    BY <1>9 DEF AwaitHelpers
  <2>2. \A u \in Threads : pc'[u] = "call" <=> pc[u] = "call"
    BY <1>9 DEF AwaitHelpers
  <2>3. \A u \in Threads : pc[u] = "call" => at'[u] = at[u]
    BY <1>9 DEF AwaitHelpers
  <2>4. call' = call /\ done' = done
    BY <1>9 DEF AwaitHelpers
  <2> HIDE DEF TypeOK, Threads
  <2> QED BY <2>1, <2>2, <2>3, <2>4, NoLoopStep
<1>13. ASSUME NEW t \in Threads, Lock(t) \/ SpuriousWake(t) PROVE UNCHANGED Loop!vars
  <2>1. \A d \in Callers : pc'[d] = "serial" <=> pc[d] = "serial"
    BY <1>13 DEF Lock, SpuriousWake
  <2>2. \A u \in Threads : pc'[u] = "call" <=> pc[u] = "call"
    BY <1>13 DEF Lock, SpuriousWake
  <2>3. \A u \in Threads : pc[u] = "call" => at'[u] = at[u]
    BY <1>13 DEF Lock, SpuriousWake
  <2>4. call' = call /\ done' = done
    BY <1>13 DEF Lock, SpuriousWake
  <2> HIDE DEF TypeOK, Threads
  <2> QED BY <2>1, <2>2, <2>3, <2>4, NoLoopStep
<1>14. ASSUME NEW h \in Helpers, Sleep(h) PROVE UNCHANGED Loop!vars
  <2>1. \A d \in Callers : pc'[d] = "serial" <=> pc[d] = "serial"
    BY <1>14 DEF Sleep
  <2>2. \A u \in Threads : pc'[u] = "call" <=> pc[u] = "call"
    BY <1>14 DEF Sleep
  <2>3. \A u \in Threads : pc[u] = "call" => at'[u] = at[u]
    BY <1>14 DEF Sleep
  <2>4. call' = call /\ done' = done
    BY <1>14 DEF Sleep
  <2> HIDE DEF TypeOK, Threads
  <2> QED BY <2>1, <2>2, <2>3, <2>4, NoLoopStep
<1>15. ASSUME NEW h \in Helpers, TakeSeat(h) PROVE UNCHANGED Loop!vars
  <2>1. \A d \in Callers : pc'[d] = "serial" <=> pc[d] = "serial"
    BY <1>15 DEF TakeSeat, Slot
  <2>2. \A u \in Threads : pc'[u] = "call" <=> pc[u] = "call"
    BY <1>15 DEF TakeSeat, Slot
  <2>3. \A u \in Threads : pc[u] = "call" => at'[u] = at[u]
    BY <1>15 DEF TakeSeat, Slot
  <2>4. call' = call /\ done' = done
    BY <1>15 DEF TakeSeat, Slot
  <2> HIDE DEF TypeOK, Threads
  <2> QED BY <2>1, <2>2, <2>3, <2>4, NoLoopStep
<1>16. ASSUME NEW h \in Helpers, LeaveSeat(h) PROVE UNCHANGED Loop!vars
  <2>1. \A d \in Callers : pc'[d] = "serial" <=> pc[d] = "serial"
    BY <1>16 DEF LeaveSeat
  <2>2. \A u \in Threads : pc'[u] = "call" <=> pc[u] = "call"
    BY <1>16 DEF LeaveSeat
  <2>3. \A u \in Threads : pc[u] = "call" => at'[u] = at[u]
    BY <1>16 DEF LeaveSeat
  <2>4. call' = call /\ done' = done
    BY <1>16 DEF LeaveSeat
  <2> HIDE DEF TypeOK, Threads
  <2> QED BY <2>1, <2>2, <2>3, <2>4, NoLoopStep
<1>3. ASSUME NEW c \in Callers, NEW w \in Works, Enter(c, w) PROVE Loop!Begin(c)
  BY <1>3, BeginStep
<1>4. ASSUME NEW c \in Callers, Share(c) PROVE [Loop!Next]_(Loop!vars)
  <2>1. PICK want : call' = [call EXCEPT ![c].want = want] /\ (Goto(c, "serial") \/ Goto(c, "borrow"))
                    /\ pc[c] = "share" /\ UNCHANGED <<at, done>>
    BY <1>4 DEF Share
  <2>2. \A d \in Callers : call'[d].n = call[d].n /\ call'[d].chunk = call[d].chunk /\ (d # c => call'[d] = call[d])
    BY <2>1 DEF Arguments
  <2>3. \A t \in Threads \ {c} : pc'[t] = pc[t]
    BY <2>1
  <2>4. CASE pc'[c] = "serial"
    <3>1. Loop!Start(c)
      BY <2>1, <2>2, <2>3, <2>4, SerialStart
    <3> QED BY <3>1 DEF Loop!Next
  <2>5. CASE pc'[c] # "serial"
    <3>1. \A d \in Callers \ {c} : Doing(d)' = Doing(d)
      <4> SUFFICES ASSUME NEW d \in Callers \ {c} PROVE Doing(d)' = Doing(d)
        OBVIOUS
      <4>1. \A t \in Threads : InCall(t, d)' <=> InCall(t, d)
        BY <2>1, <2>3 DEF InCall
      <4> QED BY <2>1, <2>2, <2>3, <4>1, DoingSame
    <3>2. Doing(c) = {}
      BY <2>1, NobodyInCall DEF Live
    <3>3. Doing(c)' = {}
      <4>1. \A t \in Threads : ~InCall(t, c)
        BY <2>1, InCallLive DEF Live
      <4>2. \A t \in Threads : ~InCall(t, c)'
        BY <2>1, <2>3, <4>1 DEF InCall
      <4> QED BY <2>5, <4>2 DEF Doing
    <3>4. Sizes' = Sizes
      BY <2>2 DEF Sizes
    <3>5. \A d \in Callers : Doing(d)' = Doing(d)
      BY <3>1, <3>2, <3>3
    <3>6. Doings' = Doings
      BY <3>5 DEF Doings
    <3> QED BY <2>1, <3>4, <3>6 DEF Loop!vars
  <2> QED BY <2>4, <2>5
<1>5. ASSUME NEW c \in Callers, NEW S \in SUBSET Helpers, BorrowNone(c, S) PROVE Loop!Start(c)
  <2>1. pc[c] = "borrow" /\ pc'[c] = "serial" /\ call' = call /\ at' = at /\ done' = done
    BY <1>5 DEF BorrowNone
  <2>2. \A t \in Threads \ {c} : pc'[t] = pc[t] \/ (pc[t] \notin {"call", "serial"} /\ pc'[t] = "locking")
    BY <1>5 DEF BorrowNone, Spawnable
  <2> HIDE DEF TypeOK, Threads, Places
  <2> QED BY <2>1, <2>2, SerialStart
<1>7. ASSUME NEW c \in Callers, Serial(c) PROVE Loop!Finish(c)
  BY <1>7, SerialFinish
<1>10. ASSUME NEW c \in Callers, Return(c) PROVE Loop!Return(c)
  BY <1>10, ReturnStep
<1>11. ASSUME NEW t \in Threads, Claim(t) PROVE [Loop!Next]_(Loop!vars)
  <2>1. Next
    BY <1>11 DEF Next, ChunkStep
  <2> QED BY <1>11, <2>1, ClaimStep
<1>12. ASSUME NEW t \in Threads, FnReturns(t) PROVE \E c \in Callers : Loop!Finish(c)
  BY <1>12, FnReturnsStep
<1>17. CASE UNCHANGED vars
  <2>1. UNCHANGED <<pc, at, call, done>>
    BY <1>17 DEF vars
  <2>2. \A c \in Callers : pc'[c] = "serial" <=> pc[c] = "serial"
    BY <2>1
  <2>3. \A t \in Threads : pc'[t] = "call" <=> pc[t] = "call"
    BY <2>1
  <2>4. \A t \in Threads : pc[t] = "call" => at'[t] = at[t]
    BY <2>1
  <2> HIDE DEF TypeOK, Threads
  <2> QED BY <2>1, <2>2, <2>3, <2>4, NoLoopStep
<1> HIDE DEF TypeOK, Threads, Places
<1>18. CASE Next
  BY <1>18, <1>1, <1>2, <1>3, <1>4, <1>5, <1>6, <1>7, <1>8, <1>9, <1>10, <1>11, <1>12, <1>13,
     <1>14, <1>15, <1>16
  DEF Next, CallerStep, HelperStep, ChunkStep, BorrowStep, Loop!Next
<1> QED BY <1>17, <1>18

LEMMA LoopInit == Init => Loop!Init
<1> SUFFICES ASSUME Init PROVE Loop!Init
  OBVIOUS
<1>1. \A c \in Callers : Doing(c) = {}
  BY DEF Init, Doing, InCall, Threads
<1>2. Sizes = [c \in Callers |-> 0]
  BY DEF Init, Sizes, NoCall
<1> QED BY <1>1, <1>2 DEF Init, Loop!Init, Doings

(* The pool implements the parallel loop: however callers, helpers, wakeups *)
(* and reconfigurations interleave, fn is given every index exactly once    *)
(* and VesPool_run returns when all are done (ves_pool.h:9-10, 24-26).      *)
THEOREM Implements == Spec => EveryIndexOnce
<1>1. Spec => []IInv /\ []Sized
  BY Invariance, SizedInvariant
<1>2. IInv /\ Sized /\ [Next]_vars => [Loop!Next]_(Loop!vars)
  BY LoopStep
<1> QED BY <1>1, <1>2, LoopInit, PTL DEF Spec, EveryIndexOnce, Loop!Spec
=============================================================================
