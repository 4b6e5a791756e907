------------------------------ MODULE ZarrCache ------------------------------
(***************************************************************************)
(* The chunk cache of src/common/zarr_u8.c and zarr_u8_shared.inc: a       *)
(* family of handles cloned from one ZarrU8_open, each confined to one     *)
(* thread with a table of its own, sharing the chunks they have loaded.  A *)
(* slot of a table pins its chunk; a chunk nobody pins is freed.           *)
(*                                                                         *)
(* A step is the work of one thread up to and including one region under   *)
(* a bucket's lock or the lock of the statistics.  The load of a chunk,    *)
(* which reads a file with the bucket locked, is two steps.                *)
(***************************************************************************)
EXTENDS Integers, FiniteSets

CONSTANTS
  Handles,       \* the ZarrU8 structures, each used by one thread
  Keys,          \* chunks of the volume, each standing for its zu_hash
  Whole,         \* the keys whose file holds a whole chunk; the others' is short or absent
  Buckets,       \* ZU_SHARED_BUCKETS
  Cap,           \* slot_limit: the slots of a handle's table
  Addresses,     \* where chunks are allocated; a freed one is used again
  Malloc(_),     \* the addresses the allocator may choose from the free ones
  Nil, Free,     \* the null pointer; what a freed address holds
  Fill,          \* the fill value
  MaxMisses,     \* bound: misses in a behaviour
  MaxFailures    \* bound: failed allocations and failed opens of a present file

Slots == 0 .. Cap - 1
Chunk == [key : Keys, refs : Nat, data : BOOLEAN, listed : BOOLEAN]

ASSUME CacheAssumption ==
  /\ IsFiniteSet(Handles) /\ Nil \notin Handles
  /\ Keys \subseteq Nat /\ Whole \subseteq Keys /\ {Nil, Fill} \cap Keys = {}
  /\ Buckets \in Nat \ {0} /\ Cap \in Nat \ {0}
  /\ Nil \notin Addresses /\ Free \notin Chunk
  /\ \A F \in SUBSET Addresses : Malloc(F) \subseteq F
  /\ MaxMisses \in Nat /\ MaxFailures \in Nat

VARIABLES
  family,             \* the ZuSharedCache exists
  stats, lock,        \* its statistics, and the owner of each bucket's lock
  heap,               \* its chunks (ZuSharedChunk and the buffer) by address
  slot, evict, last,  \* each handle's table, next_evict and last chunk used
  pc, op,             \* where each handle is, and the locals of the call it is in
  answer,             \* history: the key each handle read last and what it got
  faulty,             \* history: keys a failure has ever kept from being read
  misses, failures    \* counted against the bounds

handle == <<slot, evict, last>>
seen   == <<answer, faulty>>
bounds == <<misses, failures>>
vars   == <<family, stats, lock, heap, handle, pc, op, seen, bounds>>

NoStats == [handles |-> 0, chunks |-> 0, peak_chunks |-> 0, bytes |-> 0, peak_bytes |-> 0]
NoSlot  == [key |-> Nil, entry |-> Nil]
NoLast  == [key |-> Nil, data |-> Nil]
NoOp    == [key |-> Nil, slot |-> 0, entry |-> Nil]
NoAnswer == [key |-> Nil, value |-> Fill]
EmptyTable == [s \in Slots |-> NoSlot]

Init ==
  /\ family = FALSE /\ stats = NoStats
  /\ lock = [b \in 0 .. Buckets - 1 |-> Nil]
  /\ heap = [a \in Addresses |-> Free]
  /\ slot = [h \in Handles |-> EmptyTable]
  /\ evict = [h \in Handles |-> 0]
  /\ last = [h \in Handles |-> NoLast]
  /\ pc = [h \in Handles |-> "closed"] /\ op = [h \in Handles |-> NoOp]
  /\ answer = [h \in Handles |-> NoAnswer] /\ faulty = {}
  /\ misses = 0 /\ failures = 0

Bucket(k) == k % Buckets
Unlocked(k) == lock[Bucket(k)] = Nil
Goto(h, to) == pc' = [pc EXCEPT ![h] = to]
Larger(m, n) == IF m < n THEN n ELSE m
-----------------------------------------------------------------------------
(* Opening, cloning and reading what the handle itself remembers. *)

ZarrU8_open(h) ==
  /\ pc[h] = "closed" /\ ~family
  /\ family' = TRUE /\ stats' = [NoStats EXCEPT !.handles = 1]
  /\ Goto(h, "idle")
  /\ UNCHANGED <<lock, heap, handle, op, seen, bounds>>

(* src is live until clone returns: its owner may be reading meanwhile.     *)
CloneUncounted(h) == stats.handles       \* mutant: the clone is not counted
Cloned(h) == stats.handles + 1

ZarrU8_clone(h, src) ==
  /\ pc[h] = "closed" /\ pc[src] \notin {"closed", "closing"}
  /\ stats' = [stats EXCEPT !.handles = Cloned(h)]
  /\ Goto(h, "idle")
  /\ UNCHANGED <<family, lock, heap, handle, op, seen, bounds>>

(* What a read through a data pointer finds in memory now. *)
BytesAt(p) == IF p = Nil THEN Fill ELSE heap[p].key
DataOf(a)  == IF heap[a].data THEN a ELSE Nil

(* The fast path of ZarrU8_get and ZarrU8_get8: no lookup. *)
ReadLast(h, k) ==
  /\ pc[h] = "idle" /\ last[h].key = k
  /\ answer' = [answer EXCEPT ![h] = [key |-> k, value |-> BytesAt(last[h].data)]]
  /\ UNCHANGED <<family, stats, lock, heap, handle, pc, op, faulty, bounds>>

(* zu_chunk: the slots probed from the key's own, the first unused one      *)
(* ending the walk.                                                         *)
Probe(k, i)    == (k + i) % Cap
Used(h, s)     == slot[h][s].key # Nil
Reached(h, k)  == {Probe(k, i) : i \in {j \in Slots : \A m \in 0 .. j - 1 : Used(h, Probe(k, m))}}
Found(h, k)    == {s \in Reached(h, k) : slot[h][s].key = k}
Unused(h, k)   == {s \in Reached(h, k) : ~Used(h, s)}

ReadSlot(h, k) ==
  /\ pc[h] = "idle"
  /\ \E s \in Found(h, k) :
       LET p == DataOf(slot[h][s].entry)
       IN  /\ last' = [last EXCEPT ![h] = [key |-> k, data |-> p]]
           /\ answer' = [answer EXCEPT ![h] = [key |-> k, value |-> BytesAt(p)]]
  /\ UNCHANGED <<family, stats, lock, heap, slot, evict, pc, op, faulty, bounds>>

TargetEvict(h, k) == {evict[h]}          \* mutant: any key goes to next_evict
Target(h, k) == IF Unused(h, k) = {} THEN {evict[h]} ELSE Unused(h, k)

Miss(h, k) ==
  /\ pc[h] = "idle" /\ Found(h, k) = {} /\ misses < MaxMisses
  /\ \E s \in Target(h, k) :
       op' = [op EXCEPT ![h] = [key |-> k, slot |-> s, entry |-> Nil]]
  /\ misses' = misses + 1
  /\ Goto(h, "acquire")
  /\ UNCHANGED <<family, stats, lock, heap, handle, seen, failures>>
-----------------------------------------------------------------------------
(* zu_shared_acquire. *)

Chunks == {a \in Addresses : heap[a] # Free}
Listed(a) == heap[a] # Free /\ heap[a].listed
InBucket(k) == {a \in Addresses : Listed(a) /\ Bucket(heap[a].key) = Bucket(k)}   \* mutant: keys not compared
Published(k) == {a \in Addresses : Listed(a) /\ heap[a].key = k}

HitUncounted(n) == n                     \* mutant: the hit takes no reference
HitRefs(n) == n + 1

(* Another handle's chunk is pinned. *)
AcquireHit(h) ==
  LET k == op[h].key
  IN  /\ pc[h] = "acquire" /\ Unlocked(k)
      /\ \E a \in Published(k) :
           /\ heap' = [heap EXCEPT ![a].refs = HitRefs(@)]
           /\ op' = [op EXCEPT ![h].entry = a]
      /\ Goto(h, "install")
      /\ UNCHANGED <<family, stats, lock, handle, seen, bounds>>

(* The chunk is allocated and its file read.  A short or an absent file     *)
(* leaves no buffer, and so does a present file that cannot be opened or    *)
(* read to its end.                                                         *)
LoadUnlocked(b, h) == Nil                \* mutant: the file is read outside the lock
LoadOwner(b, h) == h

Load(h) ==
  LET k == op[h].key
  IN  /\ pc[h] = "acquire" /\ Unlocked(k) /\ Published(k) = {}
      /\ lock' = [lock EXCEPT ![Bucket(k)] = LoadOwner(Bucket(k), h)]
      /\ \E a \in Malloc(Addresses \ Chunks), read \in BOOLEAN :
           /\ heap' = [heap EXCEPT ![a] = [key |-> k, refs |-> 0, data |-> read, listed |-> FALSE]]
           /\ op' = [op EXCEPT ![h].entry = a]
           /\ IF read = (k \in Whole)
              THEN UNCHANGED <<faulty, failures>>
              ELSE /\ ~read /\ failures < MaxFailures
                   /\ failures' = failures + 1 /\ faulty' = faulty \cup {k}
      /\ Goto(h, "publish")
      /\ UNCHANGED <<family, stats, handle, answer, misses>>

(* No memory for the chunk or for its buffer: the read is fill and the      *)
(* handle's table is as before.                                             *)
LoadFails(h) ==
  LET k == op[h].key
  IN  /\ pc[h] = "acquire" /\ Unlocked(k) /\ Published(k) = {} /\ failures < MaxFailures
      /\ failures' = failures + 1 /\ faulty' = faulty \cup {k}
      /\ answer' = [answer EXCEPT ![h] = [key |-> k, value |-> Fill]]
      /\ op' = [op EXCEPT ![h] = NoOp]
      /\ Goto(h, "idle")
      /\ UNCHANGED <<family, stats, lock, heap, handle, misses>>

KeepsLock(h) == h                        \* mutant: the bucket stays locked
Unlock(h) == Nil

Counted(st, n, m) ==
  [st EXCEPT !.chunks = n, !.peak_chunks = Larger(@, n), !.bytes = m, !.peak_bytes = Larger(@, m)]

Publish(h) ==
  LET a == op[h].entry
  IN  /\ pc[h] = "publish"
      /\ heap' = [heap EXCEPT ![a].refs = 1, ![a].listed = TRUE]
      /\ stats' = Counted(stats, stats.chunks + 1, stats.bytes + (IF heap[a].data THEN 1 ELSE 0))
      /\ lock' = [lock EXCEPT ![Bucket(op[h].key)] = Unlock(h)]
      /\ Goto(h, "install")
      /\ UNCHANGED <<family, handle, op, seen, bounds>>
-----------------------------------------------------------------------------
(* zu_shared_release: the last pin frees the chunk. *)

FreedAtOne(n) == n <= 2                  \* mutant: freed with a pin left
LastPin(n) == n = 1

Release(a) ==
  IF a = Nil THEN UNCHANGED <<heap, stats>>
  ELSE /\ Unlocked(heap[a].key)
       /\ IF LastPin(heap[a].refs)
          THEN /\ heap' = [heap EXCEPT ![a] = Free]
               /\ stats' = [stats EXCEPT !.chunks = @ - 1,
                                         !.bytes = IF heap[a].data THEN @ - 1 ELSE @]
          ELSE /\ heap' = [heap EXCEPT ![a].refs = @ - 1]
               /\ UNCHANGED stats

NextPastEnd(h) == op[h].slot + 1         \* mutant: next_evict does not wrap
NextEvict(h) == IF Unused(h, op[h].key) = {} THEN (op[h].slot + 1) % Cap ELSE evict[h]

Evicted(h) == slot[h][op[h].slot].entry

Remembered(h, p) == [key |-> op[h].key, data |-> p]

(* The end of zu_chunk: the slot's old chunk is released and the new one    *)
(* put there, remembered and read.                                          *)
Install(h) ==
  LET s == op[h].slot
      a == op[h].entry
  IN  /\ pc[h] = "install"
      /\ Release(Evicted(h))
      /\ slot' = [slot EXCEPT ![h][s] = [key |-> op[h].key, entry |-> a]]
      /\ evict' = [evict EXCEPT ![h] = NextEvict(h)]
      /\ last' = [last EXCEPT ![h] = Remembered(h, DataOf(a))]
      /\ answer' = [answer EXCEPT ![h] = [key |-> op[h].key, value |-> BytesAt(DataOf(a))]]
      /\ op' = [op EXCEPT ![h] = NoOp]
      /\ Goto(h, "idle")
      /\ UNCHANGED <<family, lock, faulty, bounds>>
-----------------------------------------------------------------------------
(* ZarrU8_close: each slot, then the handle's reference to the family. *)

ZarrU8_close(h) ==
  /\ pc[h] = "idle"
  /\ Goto(h, "closing")
  /\ UNCHANGED <<family, stats, lock, heap, handle, op, seen, bounds>>

CloseSlot(h) ==
  LET s == op[h].slot
  IN  /\ pc[h] = "closing" /\ s < Cap
      /\ Release(slot[h][s].entry)
      /\ op' = [op EXCEPT ![h].slot = s + 1]
      /\ UNCHANGED <<family, lock, handle, pc, seen, bounds>>

CloseFamily(h) ==
  /\ pc[h] = "closing" /\ op[h].slot = Cap
  /\ IF stats.handles = 1
     THEN family' = FALSE /\ stats' = NoStats
     ELSE family' = family /\ stats' = [stats EXCEPT !.handles = @ - 1]
  /\ slot' = [slot EXCEPT ![h] = EmptyTable]
  /\ evict' = [evict EXCEPT ![h] = 0]
  /\ last' = [last EXCEPT ![h] = NoLast]
  /\ op' = [op EXCEPT ![h] = NoOp]
  /\ answer' = [answer EXCEPT ![h] = NoAnswer]
  /\ Goto(h, "closed")
  /\ UNCHANGED <<lock, heap, faulty, bounds>>
-----------------------------------------------------------------------------
Read(h, k) == ReadLast(h, k) \/ ReadSlot(h, k) \/ Miss(h, k)

(* What a thread does once it is inside a call. *)
Inside(h) ==
  \/ AcquireHit(h) \/ Load(h) \/ LoadFails(h) \/ Publish(h) \/ Install(h)
  \/ CloseSlot(h) \/ CloseFamily(h)

Next == \E h \in Handles :
  \/ ZarrU8_open(h) \/ ZarrU8_close(h) \/ Inside(h)
  \/ \E src \in Handles : ZarrU8_clone(h, src)
  \/ \E k \in Keys : Read(h, k)

Spec == Init /\ [][Next]_vars

(* Threads keep running inside the calls they make. *)
FairSpec == Spec /\ \A h \in Handles : WF_vars(Inside(h))
-----------------------------------------------------------------------------
(* Properties. *)

TypeOK ==
  /\ family \in BOOLEAN
  /\ stats \in [handles : Nat, chunks : Nat, peak_chunks : Nat, bytes : Nat, peak_bytes : Nat]
  /\ lock \in [0 .. Buckets - 1 -> Handles \cup {Nil}]
  /\ heap \in [Addresses -> Chunk \cup {Free}]
  /\ slot \in [Handles -> [Slots -> [key : Keys \cup {Nil}, entry : Addresses \cup {Nil}]]]
  /\ evict \in [Handles -> Slots]
  /\ last \in [Handles -> [key : Keys \cup {Nil}, data : Addresses \cup {Nil}]]
  /\ pc \in [Handles -> {"closed", "idle", "acquire", "publish", "install", "closing"}]
  /\ op \in [Handles -> [key : Keys \cup {Nil}, slot : 0 .. Cap, entry : Addresses \cup {Nil}]]
  /\ answer \in [Handles -> [key : Keys \cup {Nil}, value : Keys \cup {Fill}]]
  /\ faulty \subseteq Keys /\ misses \in Nat /\ failures \in Nat

(* The references of a chunk: the slots that hold it and have not been      *)
(* released by a close, and the call about to put it in a slot.             *)
Held(h, s) == slot[h][s].entry # Nil /\ ~(pc[h] = "closing" /\ s < op[h].slot)
SlotPins(a) == {p \in Handles \X Slots : Held(p[1], p[2]) /\ slot[p[1]][p[2]].entry = a}
CallPins(a) == {h \in Handles : pc[h] = "install" /\ op[h].entry = a} \X {Cap}
Pins(a) == SlotPins(a) \cup CallPins(a)

(* Every published chunk's refs is the number of its pins, never none, so   *)
(* it is freed at the last release and at no other                          *)
(* (zarr_u8_shared.inc:67, 103, 124).                                       *)
RefsArePins ==
  \A a \in Addresses : Listed(a) =>
    heap[a].refs = Cardinality(Pins(a)) /\ heap[a].refs > 0

(* No pointer dangles, however other handles evict and close: what a table  *)
(* or a call holds is a published chunk of the key it was asked for, and    *)
(* the last chunk used is one of the handle's slots, so the read without a  *)
(* lookup never touches an evicted buffer (zarr_u8.c:175-177).              *)
PinsLive ==
  /\ \A h \in Handles, s \in Slots : Held(h, s) =>
       Listed(slot[h][s].entry) /\ heap[slot[h][s].entry].key = slot[h][s].key
  /\ \A h \in Handles : pc[h] = "install" =>
       Listed(op[h].entry) /\ heap[op[h].entry].key = op[h].key
  /\ \A h \in Handles : pc[h] # "closing" /\ last[h].key # Nil =>
       \E s \in Slots : /\ slot[h][s].key = last[h].key
                       /\ Listed(slot[h][s].entry) /\ last[h].data = DataOf(slot[h][s].entry)

(* Concurrent misses of one chunk load it once: no key has two chunks, one  *)
(* being read included (zarr_u8_shared.inc:7).                              *)
OneChunkPerKey ==
  \A a, b \in Chunks : heap[a].key = heap[b].key => a = b

(* The statistics are the chunks, the buffers and the handles there are,    *)
(* and the family is there as long as a handle is: the last close finds     *)
(* every chunk freed and frees the cache. Its memory is a table's worth of  *)
(* chunks for each handle and one more for each miss under way              *)
(* (zarr_u8_shared.inc:5).                                                  *)
Open == {h \in Handles : pc[h] # "closed"}
StatsExact ==
  /\ stats.handles = Cardinality(Open) /\ (family <=> Open # {})
  /\ stats.chunks = Cardinality({a \in Addresses : Listed(a)})
  /\ stats.bytes = Cardinality({a \in Addresses : Listed(a) /\ heap[a].data})
  /\ ~family => Chunks = {}
  /\ Cardinality(Chunks) <= Cap * Cardinality(Open)
                            + Cardinality({h \in Handles : pc[h] \in {"publish", "install"}})
  /\ stats.peak_chunks <= (Cap + 1) * Cardinality(Handles)

(* A key is in one slot of a table at most and probing finds it there,      *)
(* whatever was evicted: a cached chunk is never loaded again               *)
(* (zarr_u8.c:161-172).                                                     *)
TableFinds ==
  \A h \in Handles, s \in Slots : Used(h, s) => Found(h, slot[h][s].key) = {s}

(* Each read is the volume's, and fill for a whole chunk only where a       *)
(* failure kept the chunk from being read (zarr_u8.h:11-12, 55, 64).        *)
Volume == INSTANCE ZarrVolume WITH open <- Open
ReadsTheVolume == Volume!Spec

(* Every read and every close ends: a locked bucket is unlocked. *)
CallsReturn ==
  \A h \in Handles : pc[h] \in {"acquire", "closing"} ~> pc[h] \in {"idle", "closed"}
=============================================================================
