-------------------------- MODULE ZarrCacheProofs --------------------------
(***************************************************************************)
(* The inductive invariant of the chunk cache of ZarrCache, its proof for  *)
(* any handles, volume, table size and allocator, the safety properties    *)
(* that follow, and the proof that the cache implements ZarrVolume.        *)
(***************************************************************************)
EXTENDS ZarrCache, FiniteSetTheorems, FunctionTheorems, WellFoundedInduction, TLAPS

(* A bucket is locked exactly by the handle that reads a file for it. *)
LocksOwned ==
  \A b \in 0 .. Buckets - 1, h \in Handles :
    lock[b] = h <=> pc[h] = "publish" /\ Bucket(op[h].key) = b

(* What a handle has in hand at each place: outside a call nothing, in a    *)
(* miss the key its table does not have and the slot it will use, and from  *)
(* the load to the publication a chunk nobody else can see.                 *)
Missing == {"acquire", "publish", "install"}
InHand ==
  \A h \in Handles :
    /\ pc[h] = "closed" => slot[h] = EmptyTable
    /\ pc[h] \in {"closed", "idle"} => op[h] = NoOp
    /\ pc[h] \in Missing => /\ op[h].key \in Keys /\ Found(h, op[h].key) = {}
                            /\ op[h].slot \in Target(h, op[h].key)
    /\ pc[h] \in {"publish", "install"} => op[h].entry \in Chunks
    /\ pc[h] = "publish" => ~Listed(op[h].entry) /\ heap[op[h].entry].key = op[h].key

(* A slot is used when it has a chunk, and a chunk that is not listed is    *)
(* being read.                                                              *)
SlotsPaired == \A h \in Handles, s \in Slots : Used(h, s) <=> slot[h][s].entry # Nil
Unlisted == \A a \in Chunks : ~Listed(a) => \E h \in Handles : pc[h] = "publish" /\ op[h].entry = a

(* A chunk has a buffer if its file is whole and nothing failed. *)
DataTells ==
  \A a \in Chunks : IF heap[a].data THEN heap[a].key \in Whole
                    ELSE heap[a].key \in Whole => heap[a].key \in faulty

(* The counters: what is left of StatsExact follows from the pins. *)
Lists == {a \in Addresses : Listed(a)}
Buffers == {a \in Addresses : Listed(a) /\ heap[a].data}
Statistics ==
  /\ stats.handles = Cardinality(Open) /\ (family <=> Open # {})
  /\ stats.chunks = Cardinality(Lists)
  /\ stats.bytes = Cardinality(Buffers)
  /\ stats.peak_chunks <= (Cap + 1) * Cardinality(Handles)

IInv ==
  /\ TypeOK /\ LocksOwned /\ InHand /\ SlotsPaired /\ Unlisted
  /\ RefsArePins /\ PinsLive /\ OneChunkPerKey /\ DataTells
  /\ TableFinds /\ Statistics
-----------------------------------------------------------------------------
(* Arithmetic of the buckets and of the probe. *)
LEMMA InBucketRange == ASSUME NEW k \in Keys PROVE Bucket(k) \in 0 .. Buckets - 1
BY CacheAssumption DEF Bucket

LEMMA ProbeSlot == ASSUME NEW k \in Keys, NEW i \in Slots PROVE Probe(k, i) \in Slots
BY CacheAssumption DEF Probe, Slots

LEMMA ModOnto ==
  ASSUME NEW n \in Nat \ {0}, NEW k \in Nat, NEW s \in 0 .. n - 1
  PROVE  \E i \in 0 .. n - 1 : (k + i) % n = s
<1>1. PICK q \in Int, r \in 0 .. n - 1 : k = n * q + r
  <2>1. k % n = k - n * (k \div n) /\ k \div n \in Int /\ k % n \in 0 .. n - 1
    OBVIOUS
  <2>2. PICK q \in Int, r \in 0 .. n - 1 : q = k \div n /\ r = k % n
    BY <2>1
  <2>3. r = k - n * q
    BY <2>1, <2>2
  <2>4. k = n * q + r
    BY <2>3
  <2> QED BY <2>4
<1>2. \A p \in Int : (n * p + s) % n = s
  OBVIOUS
<1>3. CASE r <= s
  <2>1. k + (s - r) = n * q + s /\ s - r \in 0 .. n - 1
    BY <1>1, <1>3
  <2> QED BY <2>1, <1>2
<1>4. CASE s < r
  <2>1. PICK p \in Int : p = q + 1
    OBVIOUS
  <2>2. n * p = n * q + n
    BY <2>1
  <2>3. PICK i \in 0 .. n - 1 : i = s - r + n
    BY <1>4
  <2>4. k + i = n * p + s
    BY <1>1, <2>2, <2>3
  <2> QED BY <2>4, <1>2
<1> QED BY <1>3, <1>4

LEMMA ProbeOnto == ASSUME NEW k \in Keys, NEW s \in Slots PROVE \E i \in Slots : Probe(k, i) = s
BY CacheAssumption, ModOnto DEF Probe, Slots

(* The walk of a probe: it reaches a slot if all before it are used. *)
LEMMA ReachedBy ==
  ASSUME NEW h, NEW k, NEW s
  PROVE  s \in Reached(h, k) <=>
           \E i \in Slots : s = Probe(k, i) /\ \A m \in 0 .. i - 1 : Used(h, Probe(k, m))
BY Zenon DEF Reached

LEMMA WalkInTable ==
  ASSUME NEW h \in Handles, NEW k \in Keys
  PROVE  Reached(h, k) \subseteq Slots /\ Found(h, k) \subseteq Slots /\ Unused(h, k) \subseteq Slots
<1>1. Reached(h, k) \subseteq Slots
  BY ReachedBy, ProbeSlot
<1> QED BY <1>1 DEF Found, Unused

LEMMA TargetInTable ==
  ASSUME TypeOK, NEW h \in Handles, NEW k \in Keys
  PROVE  Target(h, k) \subseteq Slots
BY WalkInTable DEF Target, TypeOK

(* A probe that meets no unused slot has met them all. *)
LEMMA FullTable ==
  ASSUME NEW h \in Handles, NEW k \in Keys, Unused(h, k) = {}
  PROVE  Reached(h, k) = Slots /\ \A s \in Slots : Used(h, s)
<1>1. \A s \in Reached(h, k) : Used(h, s)
  BY DEF Unused
<1> DEFINE Bad == {i \in Slots : ~Used(h, Probe(k, i))}
<1>2. Bad = {}
  <2> SUFFICES ASSUME Bad # {} PROVE FALSE
    OBVIOUS
  <2>1. Bad \in SUBSET Nat
    BY CacheAssumption DEF Slots
  <2>2. PICK i \in Bad : \A m \in Bad : ~(m < i)
    <3> HIDE DEF Bad
    <3>1. \A m, i \in Nat : m < i <=> <<m, i>> \in OpToRel(<, Nat)
      BY DEF OpToRel
    <3>2. \E i \in Bad : \A m \in Bad : <<m, i>> \notin OpToRel(<, Nat)
      BY <2>1, NatLessThanWellFounded, WFMin
    <3> QED BY <2>1, <3>1, <3>2
  <2>3. \A m \in 0 .. i - 1 : Used(h, Probe(k, m))
    BY <2>2, CacheAssumption DEF Slots
  <2>4. Probe(k, i) \in Reached(h, k)
    BY <2>2, <2>3, ReachedBy
  <2> QED BY <1>1, <2>2, <2>4
<1>3. \A s \in Slots : Used(h, s)
  BY <1>2, ProbeOnto
<1>4. \A s \in Slots : s \in Reached(h, k)
  <2> TAKE s \in Slots
  <2>1. PICK i \in Slots : Probe(k, i) = s
    BY ProbeOnto
  <2>2. \A m \in 0 .. i - 1 : m \in Slots
    BY CacheAssumption DEF Slots
  <2>3. \A m \in 0 .. i - 1 : Used(h, Probe(k, m))
    BY <1>2, <2>2
  <2> QED BY <2>1, <2>3, ReachedBy
<1> QED BY <1>3, <1>4, WalkInTable
-----------------------------------------------------------------------------
(* A step is one handle's, and leaves the others as they were. *)
StepOf(h) ==
  \/ ZarrU8_open(h) \/ ZarrU8_close(h) \/ Inside(h)
  \/ \E src \in Handles : ZarrU8_clone(h, src)
  \/ \E k \in Keys : Read(h, k)

LEMMA OthersStay ==
  ASSUME TypeOK, NEW h \in Handles, StepOf(h), NEW g \in Handles, g # h
  PROVE  /\ pc'[g] = pc[g] /\ op'[g] = op[g] /\ slot'[g] = slot[g]
         /\ evict'[g] = evict[g] /\ last'[g] = last[g] /\ answer'[g] = answer[g]
<1> USE DEF TypeOK, Goto, handle, seen, bounds
<1>1. CASE ZarrU8_open(h) \/ ZarrU8_close(h) \/ \E src \in Handles : ZarrU8_clone(h, src)
  BY <1>1 DEF ZarrU8_open, ZarrU8_close, ZarrU8_clone
<1>2. CASE \E k \in Keys : Read(h, k)
  BY <1>2 DEF Read, ReadLast, ReadSlot, Miss
<1>3. CASE AcquireHit(h) \/ Load(h) \/ LoadFails(h) \/ Publish(h)
  BY <1>3 DEF AcquireHit, Load, LoadFails, Publish
<1>4. CASE Install(h) \/ CloseSlot(h) \/ CloseFamily(h)
  BY <1>4 DEF Install, CloseSlot, CloseFamily
<1> QED BY <1>1, <1>2, <1>3, <1>4 DEF StepOf, Inside

(* The slot a call or a close gives back, and its pin. *)
LEMMA PinsAre ==
  ASSUME NEW a, NEW h \in Handles
  PROVE  /\ \A s \in Slots : <<h, s>> \in Pins(a) <=> Held(h, s) /\ slot[h][s].entry = a
         /\ <<h, Cap>> \in Pins(a) <=> pc[h] = "install" /\ op[h].entry = a
<1>1. \A s \in Slots : <<h, s>> \in SlotPins(a) <=> Held(h, s) /\ slot[h][s].entry = a
  BY DEF SlotPins
<1>2. \A s : <<h, s>> \in CallPins(a) <=> s = Cap /\ pc[h] = "install" /\ op[h].entry = a
  BY DEF CallPins
<1>3. \A s : <<h, s>> \in SlotPins(a) => s \in Slots
  BY DEF SlotPins
<1>4. Cap \notin Slots
  BY CacheAssumption DEF Slots
<1> QED BY <1>1, <1>2, <1>3, <1>4 DEF Pins

LEMMA PinPairs ==
  ASSUME NEW a
  PROVE  /\ Pins(a) \in SUBSET (Handles \X (0 .. Cap))
         /\ IsFiniteSet(Pins(a)) /\ Cardinality(Pins(a)) \in Nat
<1>1. Pins(a) \in SUBSET (Handles \X (0 .. Cap))
  BY CacheAssumption DEF Pins, SlotPins, CallPins, Slots
<1>2. IsFiniteSet(0 .. Cap)
  BY CacheAssumption, FS_Interval
<1>3. IsFiniteSet(Handles \X (0 .. Cap))
  BY <1>2, CacheAssumption, FS_Product
<1> QED BY <1>1, <1>3, FS_Subset, FS_CardinalityType

GivesBack(h) == \/ pc[h] = "install"
                \/ pc[h] = "closing" /\ op[h].slot < Cap

LEMMA GivenBack ==
  ASSUME IInv, NEW h \in Handles, GivesBack(h), Evicted(h) # Nil
  PROVE  /\ op[h].slot \in Slots /\ Held(h, op[h].slot)
         /\ <<h, op[h].slot>> \in Pins(Evicted(h)) /\ Evicted(h) \in Addresses /\ Listed(Evicted(h))
         /\ heap[Evicted(h)].key = slot[h][op[h].slot].key
         /\ heap[Evicted(h)] \in Chunk /\ heap[Evicted(h)].refs = Cardinality(Pins(Evicted(h)))
         /\ heap[Evicted(h)].refs \in Nat \ {0}
         /\ LastPin(heap[Evicted(h)].refs) => Pins(Evicted(h)) = {<<h, op[h].slot>>}
<1> DEFINE s == op[h].slot
           e == Evicted(h)
<1>1. TypeOK /\ InHand /\ RefsArePins /\ PinsLive
  BY DEF IInv
<1>2. s \in Slots
  <2>1. CASE pc[h] = "install"
    BY <1>1, <2>1, TargetInTable DEF InHand, Missing
  <2>2. CASE pc[h] = "closing" /\ s < Cap
    BY <1>1, <2>2, CacheAssumption DEF TypeOK, Slots
  <2> QED BY <2>1, <2>2 DEF GivesBack
<1>3. e = slot[h][s].entry /\ e \in Addresses /\ Held(h, s)
  <2>1. e = slot[h][s].entry /\ e \in Addresses
    BY <1>1, <1>2 DEF Evicted, TypeOK
  <2>2. ~(pc[h] = "closing" /\ s < op[h].slot)
    BY <1>2, CacheAssumption DEF Slots
  <2> QED BY <2>1, <2>2 DEF Held
<1> HIDE DEF s, e
<1>4. <<h, s>> \in Pins(e)
  BY <1>2, <1>3, PinsAre
<1>5. Listed(e) /\ heap[e].key = slot[h][s].key
  BY <1>1, <1>2, <1>3 DEF PinsLive
<1>6. heap[e] \in Chunk /\ heap[e].refs = Cardinality(Pins(e)) /\ heap[e].refs \in Nat \ {0}
  BY <1>1, <1>3, <1>5 DEF RefsArePins, TypeOK, Listed, Chunk
<1>7. ASSUME heap[e].refs = 1 PROVE Pins(e) = {<<h, s>>}
  <2>1. PICK p : Pins(e) = {p}
    BY <1>6, <1>7, PinPairs, FS_Singleton
  <2> QED BY <1>4, <2>1
<1> QED BY <1>2, <1>3, <1>4, <1>5, <1>6, <1>7 DEF s, e, LastPin
-----------------------------------------------------------------------------
(* What a step can do to a chunk: nothing, a pin more or less, a load, its  *)
(* publication, or to free it when the pin given back was its last.         *)
Stays(a) == heap'[a] = heap[a]
Repinned(a) ==
  /\ Listed(a) /\ heap'[a] \in Chunk /\ heap'[a].listed
  /\ heap'[a].key = heap[a].key /\ heap'[a].data = heap[a].data
LoadedBy(h, a) ==
  /\ pc[h] = "acquire" /\ a \notin Chunks /\ Unlocked(op[h].key) /\ Published(op[h].key) = {}
  /\ heap'[a] \in Chunk /\ ~heap'[a].listed /\ heap'[a].key = op[h].key
  /\ IF heap'[a].data THEN op[h].key \in Whole ELSE op[h].key \in Whole => op[h].key \in faulty'
  /\ pc'[h] = "publish" /\ op'[h].entry = a
PublishedBy(h, a) ==
  /\ pc[h] = "publish" /\ op[h].entry = a /\ pc'[h] = "install"
  /\ heap'[a] \in Chunk /\ heap'[a].listed
  /\ heap'[a].key = heap[a].key /\ heap'[a].data = heap[a].data
FreedBy(h, a) ==
  /\ GivesBack(h) /\ Evicted(h) = a /\ Listed(a) /\ Pins(a) = {<<h, op[h].slot>>}
  /\ heap'[a] = Free

LEMMA InstallReleases ==
  ASSUME NEW h \in Handles, Install(h)
  PROVE  GivesBack(h) /\ Release(Evicted(h))
<1>1. pc[h] = "install" /\ Release(Evicted(h))
  BY Zenon DEF Install
<1> QED BY <1>1, Zenon DEF GivesBack

LEMMA CloseReleases ==
  ASSUME NEW h \in Handles, CloseSlot(h)
  PROVE  GivesBack(h) /\ Release(Evicted(h))
BY Zenon DEF CloseSlot, GivesBack, Evicted

LEMMA Releases ==
  ASSUME IInv, NEW h \in Handles, GivesBack(h), Release(Evicted(h))
  PROVE  /\ Evicted(h) = Nil => heap' = heap /\ stats' = stats
         /\ heap' \in [Addresses -> Chunk \cup {Free}]
         /\ Evicted(h) # Nil =>
              /\ \A a \in Addresses \ {Evicted(h)} : heap'[a] = heap[a]
              /\ IF LastPin(heap[Evicted(h)].refs)
                 THEN FreedBy(h, Evicted(h))
                 ELSE /\ heap'[Evicted(h)] = [heap[Evicted(h)] EXCEPT !.refs = @ - 1]
                      /\ Repinned(Evicted(h)) /\ stats' = stats
                      /\ heap[Evicted(h)].refs - 1 \in Nat \ {0}
<1>1. heap \in [Addresses -> Chunk \cup {Free}]
  BY DEF IInv, TypeOK
<1>2. CASE Evicted(h) = Nil
  BY <1>1, <1>2 DEF Release
<1>3. CASE Evicted(h) # Nil
  <2> DEFINE e == Evicted(h)
  <2>1. /\ e \in Addresses /\ Listed(e) /\ heap[e] \in Chunk /\ heap[e].refs \in Nat \ {0}
        /\ LastPin(heap[e].refs) => Pins(e) = {<<h, op[h].slot>>}
    BY <1>3, GivenBack
  <2> HIDE DEF e
  <2>2. Release(e) /\ e # Nil /\ e = Evicted(h)
    BY <1>3 DEF e
  <2>3. CASE LastPin(heap[e].refs)
    <3>1. heap' = [heap EXCEPT ![e] = Free]
      BY <2>2, <2>3 DEF Release
    <3> QED BY <1>1, <1>3, <2>1, <2>2, <2>3, <3>1 DEF FreedBy
  <2>4. CASE ~LastPin(heap[e].refs)
    <3>1. heap' = [heap EXCEPT ![e].refs = @ - 1] /\ stats' = stats
      BY <2>2, <2>4 DEF Release
    <3>2. heap[e].refs - 1 \in Nat \ {0}
      BY <2>1, <2>4 DEF LastPin
    <3>3. heap'[e] = [heap[e] EXCEPT !.refs = @ - 1] /\ heap'[e] \in Chunk
      BY <1>1, <2>1, <3>1, <3>2 DEF Chunk
    <3>4. Repinned(e)
      BY <2>1, <3>3 DEF Repinned, Chunk, Listed
    <3>5. heap' \in [Addresses -> Chunk \cup {Free}] /\ \A a \in Addresses \ {e} : heap'[a] = heap[a]
      BY <1>1, <2>1, <3>1, <3>3
    <3> QED BY <1>3, <2>2, <2>4, <3>1, <3>2, <3>3, <3>4, <3>5
  <2> QED BY <2>3, <2>4
<1> QED BY <1>2, <1>3

(* A bucket is locked by a handle that reads a file for a key of it, so a   *)
(* chunk that is not listed is alone with its handle.                       *)
LEMMA OneLoader ==
  ASSUME IInv, NEW h \in Handles, NEW g \in Handles, pc[h] = "publish", pc[g] = "publish",
         Bucket(op[g].key) = Bucket(op[h].key)
  PROVE  g = h
<1>1. op[h].key \in Keys /\ LocksOwned
  BY DEF IInv, InHand, Missing
<1> QED BY <1>1, InBucketRange DEF LocksOwned

LEMMA InHandChunk ==
  ASSUME IInv, NEW h \in Handles, pc[h] = "publish"
  PROVE  /\ op[h].entry \in Addresses /\ heap[op[h].entry] \in Chunk /\ ~heap[op[h].entry].listed
         /\ heap[op[h].entry].key = op[h].key /\ op[h].key \in Keys /\ op[h].slot \in Slots
<1>1. TypeOK /\ InHand
  BY DEF IInv
<1>2. op[h].entry \in Chunks /\ ~Listed(op[h].entry) /\ heap[op[h].entry].key = op[h].key
      /\ op[h].key \in Keys /\ op[h].slot \in Target(h, op[h].key)
  BY <1>1 DEF InHand, Missing
<1> QED BY <1>1, <1>2, TargetInTable DEF Chunks, Listed, TypeOK, Chunk

LEMMA LoadLoads ==
  ASSUME IInv, NEW h \in Handles, Load(h)
  PROVE  \E b \in Addresses : LoadedBy(h, b) /\ \A a \in Addresses \ {b} : heap'[a] = heap[a]
<1>a. TypeOK
  BY DEF IInv
<1>1. PICK b \in Malloc(Addresses \ Chunks), read \in BOOLEAN :
        /\ heap' = [heap EXCEPT ![b] = [key |-> op[h].key, refs |-> 0, data |-> read, listed |-> FALSE]]
        /\ op' = [op EXCEPT ![h].entry = b]
        /\ IF read = (op[h].key \in Whole)
           THEN UNCHANGED <<faulty, failures>>
           ELSE /\ ~read /\ failures < MaxFailures
                /\ failures' = failures + 1 /\ faulty' = faulty \cup {op[h].key}
  BY DEF Load
<1>2. b \in Addresses \ Chunks
  BY <1>1, CacheAssumption
<1>3. op[h].key \in Keys /\ pc[h] = "acquire" /\ Unlocked(op[h].key) /\ Published(op[h].key) = {}
  BY DEF Load, IInv, InHand, Missing
<1>4. heap'[b] = [key |-> op[h].key, refs |-> 0, data |-> read, listed |-> FALSE]
  BY <1>a, <1>1, <1>2 DEF TypeOK
<1>5. heap'[b] \in Chunk /\ ~heap'[b].listed /\ heap'[b].key = op[h].key /\ heap'[b].data = read
  BY <1>3, <1>4 DEF Chunk
<1>6. IF read THEN op[h].key \in Whole ELSE op[h].key \in Whole => op[h].key \in faulty'
  BY <1>1
<1>7. pc'[h] = "publish" /\ op'[h].entry = b
  BY <1>a, <1>1 DEF Load, Goto, TypeOK
<1>8. \A a \in Addresses \ {b} : heap'[a] = heap[a]
  BY <1>a, <1>1, <1>2 DEF TypeOK
<1> QED BY <1>2, <1>3, <1>5, <1>6, <1>7, <1>8 DEF LoadedBy

LEMMA HeapStep ==
  ASSUME IInv, NEW h \in Handles, StepOf(h), NEW a \in Addresses
  PROVE  Stays(a) \/ Repinned(a) \/ LoadedBy(h, a) \/ PublishedBy(h, a) \/ FreedBy(h, a)
<1>a. TypeOK
  BY DEF IInv
<1> USE DEF handle, seen, bounds, Goto
<1>1. CASE ZarrU8_open(h) \/ ZarrU8_close(h) \/ \E src \in Handles : ZarrU8_clone(h, src)
  BY <1>1 DEF ZarrU8_open, ZarrU8_close, ZarrU8_clone, Stays
<1>2. CASE \E k \in Keys : Read(h, k)
  BY <1>2 DEF Read, ReadLast, ReadSlot, Miss, Stays
<1>3. CASE AcquireHit(h)
  <2>1. PICK b \in Published(op[h].key) : heap' = [heap EXCEPT ![b].refs = HitRefs(@)]
    BY <1>3 DEF AcquireHit
  <2>2. b \in Addresses /\ Listed(b) /\ heap[b] \in Chunk
    BY <1>a, <2>1 DEF Published, Listed, TypeOK
  <2>3. heap[b].refs + 1 \in Nat
    BY <2>2 DEF Chunk
  <2>4. heap'[b] \in Chunk /\ heap'[b].listed /\ heap'[b].key = heap[b].key /\ heap'[b].data = heap[b].data
    BY <1>a, <2>1, <2>2, <2>3 DEF HitRefs, Chunk, Listed, TypeOK
  <2>5. a # b => heap'[a] = heap[a]
    BY <1>a, <2>1, <2>2 DEF TypeOK
  <2> QED BY <2>2, <2>4, <2>5 DEF Stays, Repinned
<1>4. CASE Load(h)
  <2>1. PICK b \in Addresses : LoadedBy(h, b) /\ \A c \in Addresses \ {b} : heap'[c] = heap[c]
    BY <1>4, LoadLoads
  <2> QED BY <2>1 DEF Stays
<1>5. CASE LoadFails(h) \/ CloseFamily(h)
  BY <1>5 DEF LoadFails, CloseFamily, Stays
<1>6. CASE Publish(h)
  <2> DEFINE e == op[h].entry
  <2>1. e \in Addresses /\ heap[e] \in Chunk
    BY <1>6, InHandChunk DEF Publish
  <2>2. heap' = [heap EXCEPT ![e].refs = 1, ![e].listed = TRUE] /\ pc[h] = "publish"
    BY <1>6 DEF Publish
  <2>3. pc'[h] = "install"
    BY <1>6, <1>a DEF Publish, TypeOK
  <2> HIDE DEF e
  <2>4. heap'[e] \in Chunk /\ heap'[e].listed /\ heap'[e].key = heap[e].key /\ heap'[e].data = heap[e].data
    BY <1>a, <2>1, <2>2 DEF Chunk, TypeOK
  <2>5. a # e => heap'[a] = heap[a]
    BY <1>a, <2>1, <2>2 DEF TypeOK
  <2> QED BY <2>2, <2>3, <2>4, <2>5 DEF Stays, PublishedBy, e
<1>7. CASE Install(h) \/ CloseSlot(h)
  <2>1. GivesBack(h) /\ Release(Evicted(h))
    BY <1>7, InstallReleases, CloseReleases
  <2>2. Evicted(h) = Nil => Stays(a)
    BY <2>1, Releases DEF Stays
  <2>3. Evicted(h) # Nil /\ a # Evicted(h) => Stays(a)
    BY <2>1, Releases DEF Stays
  <2>4. Evicted(h) # Nil => Repinned(Evicted(h)) \/ FreedBy(h, Evicted(h))
    BY <2>1, Releases
  <2> QED BY <2>2, <2>3, <2>4
<1> QED BY <1>1, <1>2, <1>3, <1>4, <1>5, <1>6, <1>7 DEF StepOf, Inside
-----------------------------------------------------------------------------
LEMMA HeapFunction ==
  ASSUME IInv, NEW h \in Handles, StepOf(h)
  PROVE  heap' = [a \in Addresses |-> heap'[a]]
<1>a. heap = [a \in Addresses |-> heap[a]]
  BY DEF IInv, TypeOK
<1>1. CASE heap' = heap
  BY <1>a, <1>1
<1>2. CASE AcquireHit(h)
  BY <1>a, <1>2 DEF AcquireHit
<1>3. CASE Load(h)
  BY <1>a, <1>3 DEF Load
<1>4. CASE Publish(h)
  BY <1>a, <1>4 DEF Publish
<1>5. CASE Install(h) \/ CloseSlot(h)
  <2>1. PICK e : Release(e)
    BY <1>5, Zenon DEF Install, CloseSlot
  <2> QED BY <1>a, <2>1 DEF Release
<1>6. CASE ZarrU8_open(h) \/ ZarrU8_close(h) \/ \E src \in Handles : ZarrU8_clone(h, src)
  BY <1>1, <1>6 DEF ZarrU8_open, ZarrU8_close, ZarrU8_clone
<1>7. CASE \E k \in Keys : Read(h, k)
  BY <1>1, <1>7 DEF Read, ReadLast, ReadSlot, Miss, handle, seen
<1>8. CASE LoadFails(h) \/ CloseFamily(h)
  BY <1>1, <1>8 DEF LoadFails, CloseFamily
<1> QED BY <1>2, <1>3, <1>4, <1>5, <1>6, <1>7, <1>8 DEF StepOf, Inside

LEMMA HeapType ==
  ASSUME IInv, NEW h \in Handles, StepOf(h)
  PROVE  heap' \in [Addresses -> Chunk \cup {Free}]
<1>1. ASSUME NEW a \in Addresses PROVE heap'[a] \in Chunk \cup {Free}
  <2>1. heap[a] \in Chunk \cup {Free}
    BY DEF IInv, TypeOK
  <2> QED BY <2>1, HeapStep DEF Stays, Repinned, LoadedBy, PublishedBy, FreedBy
<1> QED BY <1>1, HeapFunction

LEMMA FiniteHandles ==
  ASSUME NEW S \in SUBSET Handles
  PROVE  IsFiniteSet(S) /\ Cardinality(S) \in Nat
BY CacheAssumption, FS_Subset, FS_CardinalityType

(* A chunk is in one place at least: a pin, or the hands that load it. *)
Places == Handles \X (0 .. Cap)
Holds(a, p) == p \in Pins(a) \/ (p[2] = Cap /\ pc[p[1]] = "publish" /\ op[p[1]].entry = a)

LEMMA HeldSomewhere ==
  ASSUME TypeOK, InHand, Unlisted, RefsArePins, NEW a \in Chunks
  PROVE  \E p \in Places : Holds(a, p)
<1>1. CASE Listed(a)
  <2>1. Cardinality(Pins(a)) # 0
    BY <1>1 DEF RefsArePins, Chunks, Listed
  <2>2. Pins(a) # {}
    BY <2>1, FS_EmptySet
  <2> QED BY <2>2, PinPairs DEF Places, Holds
<1>2. CASE ~Listed(a)
  <2>1. PICK h \in Handles : pc[h] = "publish" /\ op[h].entry = a
    BY <1>2 DEF Unlisted
  <2>2. <<h, Cap>> \in Places
    BY CacheAssumption DEF Places
  <2> QED BY <2>1, <2>2 DEF Holds
<1> QED BY <1>1, <1>2

LEMMA HeldOnce ==
  ASSUME NEW a, NEW b, NEW p \in Places, Holds(a, p), Holds(b, p)
  PROVE  a = b
<1>1. PICK h \in Handles, i \in 0 .. Cap : p = <<h, i>>
  BY DEF Places
<1>2. i \in Slots \/ i = Cap
  BY CacheAssumption DEF Slots
<1>3. Cap \notin Slots
  BY CacheAssumption DEF Slots
<1>4. CASE i \in Slots
  <2>1. \A c : Holds(c, <<h, i>>) => slot[h][i].entry = c
    <3>1. <<h, i>>[2] # Cap
      BY <1>3, <1>4
    <3> TAKE c
    <3>2. <<h, i>> \in Pins(c) <=> Held(h, i) /\ slot[h][i].entry = c
      <4>1. \A t \in Slots : <<h, t>> \in Pins(c) <=> Held(h, t) /\ slot[h][t].entry = c
        BY PinsAre
      <4> QED BY <1>4, <4>1
    <3> QED BY <3>1, <3>2 DEF Holds
  <2> QED BY <1>1, <2>1
<1>5. CASE i = Cap
  <2>1. \A c : Holds(c, <<h, Cap>>) => op[h].entry = c
    BY PinsAre DEF Holds
  <2> QED BY <1>1, <1>5, <2>1
<1> QED BY <1>2, <1>4, <1>5

(* The room there is for chunks. *)
LEMMA ChunksFit ==
  ASSUME TypeOK, InHand, Unlisted, RefsArePins
  PROVE  /\ IsFiniteSet(Chunks) /\ Cardinality(Chunks) \in Nat
         /\ Cardinality(Chunks) <= Cap * Cardinality(Open)
                                   + Cardinality({h \in Handles : pc[h] \in {"publish", "install"}})
<1> DEFINE Busy == {h \in Handles : pc[h] \in {"publish", "install"}}
           T == (Open \X Slots) \cup (Busy \X {Cap})
           f == [a \in Chunks |-> CHOOSE p \in T : Holds(a, p)]
<1>1. IsFiniteSet(Open) /\ IsFiniteSet(Busy) /\ Cardinality(Open) \in Nat /\ Cardinality(Busy) \in Nat
  BY FiniteHandles DEF Open
<1>2. IsFiniteSet(Slots) /\ Cardinality(Slots) = Cap /\ IsFiniteSet({Cap}) /\ Cardinality({Cap}) = 1
  <2>1. IsFiniteSet(0 .. Cap - 1) /\ Cardinality(0 .. Cap - 1) = IF 0 > Cap - 1 THEN 0 ELSE (Cap - 1) - 0 + 1
    BY CacheAssumption, FS_Interval
  <2>2. IsFiniteSet(Slots) /\ Cardinality(Slots) = Cap
    BY <2>1, CacheAssumption DEF Slots
  <2>3. IsFiniteSet({Cap}) /\ Cardinality({Cap}) = 1
    BY FS_Singleton
  <2> QED BY <2>2, <2>3
<1>3. /\ IsFiniteSet(Open \X Slots) /\ Cardinality(Open \X Slots) = Cardinality(Open) * Cap
      /\ IsFiniteSet(Busy \X {Cap}) /\ Cardinality(Busy \X {Cap}) = Cardinality(Busy)
  <2> HIDE DEF Busy
  <2>1. IsFiniteSet(Open \X Slots) /\ Cardinality(Open \X Slots) = Cardinality(Open) * Cardinality(Slots)
    BY <1>1, <1>2, FS_Product
  <2>2. IsFiniteSet(Busy \X {Cap}) /\ Cardinality(Busy \X {Cap}) = Cardinality(Busy) * Cardinality({Cap})
    BY <1>1, <1>2, FS_Product
  <2> QED BY <1>1, <1>2, <2>1, <2>2
<1>4. IsFiniteSet(T) /\ Cardinality(T) = Cap * Cardinality(Open) + Cardinality(Busy)
  <2>1. (Open \X Slots) \cap (Busy \X {Cap}) = {}
    BY CacheAssumption DEF Slots
  <2>2. Cardinality((Open \X Slots) \cap (Busy \X {Cap})) = 0
    BY <2>1, FS_EmptySet
  <2> HIDE DEF Busy
  <2>3. IsFiniteSet(T) /\ Cardinality(T) = Cardinality(Open \X Slots) + Cardinality(Busy \X {Cap})
                                           - Cardinality((Open \X Slots) \cap (Busy \X {Cap}))
    BY <1>3, FS_Union
  <2> QED BY <1>1, <1>3, <2>2, <2>3, CacheAssumption
<1>5. ASSUME NEW a \in Chunks PROVE \E p \in T : Holds(a, p)
  <2>1. PICK p \in Places : Holds(a, p)
    BY HeldSomewhere
  <2>2. PICK h \in Handles, i \in 0 .. Cap : p = <<h, i>>
    BY <2>1 DEF Places
  <2>3. CASE p \in Pins(a)
    <3>1. CASE i \in Slots
      <4>1. slot[h][i].entry # Nil
        <5>1. <<h, i>> \in Pins(a)
          BY <2>2, <2>3
        <5>2. Held(h, i)
          BY <3>1, <5>1, PinsAre
        <5> QED BY <5>2 DEF Held
      <4>2. h \in Open
        BY <4>1, <3>1 DEF InHand, EmptyTable, NoSlot, Open
      <4> QED BY <2>1, <2>2, <3>1, <4>2
    <3>2. CASE i \notin Slots
      <4>1. i = Cap
        BY <3>2, CacheAssumption DEF Slots
      <4>2. pc[h] = "install"
        BY <2>2, <2>3, <4>1, PinsAre
      <4> QED BY <2>1, <2>2, <4>1, <4>2
    <3> QED BY <3>1, <3>2
  <2>4. CASE p \notin Pins(a)
    <3>1. i = Cap /\ pc[h] = "publish"
      BY <2>1, <2>2, <2>4 DEF Holds
    <3> QED BY <2>1, <2>2, <3>1
  <2> QED BY <2>3, <2>4
<1>6. T \subseteq Places
  BY CacheAssumption DEF Places, Slots, Open
<1> HIDE DEF T
<1>7. \A a \in Chunks : f[a] \in T /\ Holds(a, f[a])
  BY <1>5
<1>8. f \in Injection(Chunks, T)
  <2>1. \A a, b \in Chunks : f[a] = f[b] => a = b
    <3> TAKE a, b \in Chunks
    <3> HIDE DEF f
    <3> QED BY <1>6, <1>7, HeldOnce
  <2>2. f \in [Chunks -> T]
    BY <1>7
  <2> QED BY <2>1, <2>2 DEF Injection, IsInjective
<1> HIDE DEF f
<1>9. IsFiniteSet(Chunks) /\ Cardinality(Chunks) <= Cardinality(T)
  BY <1>4, <1>8, FS_Injection
<1> QED BY <1>4, <1>9, FS_CardinalityType

LEMMA ListsFit ==
  ASSUME TypeOK, InHand, Unlisted, RefsArePins
  PROVE  /\ IsFiniteSet(Lists) /\ Cardinality(Lists) \in Nat /\ Cardinality(Lists) <= Cardinality(Chunks)
         /\ IsFiniteSet(Buffers) /\ Cardinality(Buffers) \in Nat
<1>1. Lists \in SUBSET Chunks /\ Buffers \in SUBSET Chunks
  BY DEF Lists, Buffers, Chunks, Listed
<1> QED BY <1>1, ChunksFit, FS_Subset, FS_CardinalityType

(* A release counts the chunk it frees. *)
LEMMA ReleaseStats ==
  ASSUME IInv, NEW h \in Handles, GivesBack(h), Release(Evicted(h))
  PROVE  /\ stats' \in [handles : Nat, chunks : Nat, peak_chunks : Nat, bytes : Nat, peak_bytes : Nat]
         /\ stats'.handles = stats.handles /\ stats'.peak_chunks = stats.peak_chunks
         /\ stats'.chunks = Cardinality(Lists') /\ stats'.bytes = Cardinality(Buffers')
<1>a. TypeOK /\ InHand /\ Unlisted /\ RefsArePins /\ Statistics
  BY DEF IInv
<1>b. stats.chunks = Cardinality(Lists) /\ stats.bytes = Cardinality(Buffers)
  BY <1>a DEF Statistics
<1>1. CASE stats' = stats /\ \A a \in Addresses : Stays(a) \/ Repinned(a)
  <2>1. \A a \in Addresses : (Listed(a)' <=> Listed(a)) /\ (Listed(a) => heap'[a].data = heap[a].data)
    BY <1>1, CacheAssumption DEF Stays, Repinned, Listed
  <2>2. Lists' = Lists /\ Buffers' = Buffers
    BY <2>1 DEF Lists, Buffers
  <2> QED BY <1>1, <1>a, <1>b, <2>2 DEF TypeOK
<1>2. CASE Evicted(h) # Nil /\ LastPin(heap[Evicted(h)].refs)
  <2> DEFINE e == Evicted(h)
  <2>1. e \in Addresses /\ Listed(e) /\ heap'[e] = Free /\ \A a \in Addresses \ {e} : heap'[a] = heap[a]
    BY <1>2, GivenBack, Releases DEF FreedBy
  <2>2. stats' = [stats EXCEPT !.chunks = @ - 1, !.bytes = IF heap[e].data THEN @ - 1 ELSE @]
    BY <1>2 DEF Release
  <2> HIDE DEF e
  <2>3. e \in Lists /\ Lists' = Lists \ {e}
    BY <2>1 DEF Lists, Listed
  <2>4. (e \in Buffers <=> heap[e].data) /\ Buffers' = Buffers \ {e}
    BY <2>1 DEF Buffers, Listed
  <2>5. Cardinality(Lists') = Cardinality(Lists) - 1 /\ Cardinality(Lists') \in Nat
    BY <1>a, <2>3, ListsFit, FS_RemoveElement, FS_CardinalityType
  <2>6. Cardinality(Buffers') = (IF heap[e].data THEN Cardinality(Buffers) - 1 ELSE Cardinality(Buffers))
        /\ Cardinality(Buffers') \in Nat
    BY <1>a, <2>4, ListsFit, FS_RemoveElement, FS_CardinalityType
  <2> QED BY <1>a, <1>b, <2>2, <2>5, <2>6 DEF TypeOK
<1>3. CASE ~(Evicted(h) # Nil /\ LastPin(heap[Evicted(h)].refs))
  <2>1. stats' = stats /\ \A a \in Addresses : Stays(a) \/ Repinned(a)
    BY <1>3, Releases DEF Stays
  <2> QED BY <1>1, <2>1
<1> QED BY <1>2, <1>3
-----------------------------------------------------------------------------
LEMMA NextType ==
  ASSUME IInv, NEW h \in Handles, StepOf(h)
  PROVE  TypeOK'
<1>a. TypeOK /\ InHand /\ Statistics
  BY DEF IInv
<1>b. heap' \in [Addresses -> Chunk \cup {Free}]
  BY HeapType
<1>p. /\ NoOp \in [key : Keys \cup {Nil}, slot : 0 .. Cap, entry : Addresses \cup {Nil}]
      /\ NoLast \in [key : Keys \cup {Nil}, data : Addresses \cup {Nil}]
      /\ NoAnswer \in [key : Keys \cup {Nil}, value : Keys \cup {Fill}]
      /\ EmptyTable \in [Slots -> [key : Keys \cup {Nil}, entry : Addresses \cup {Nil}]]
      /\ NoStats \in [handles : Nat, chunks : Nat, peak_chunks : Nat, bytes : Nat, peak_bytes : Nat]
      /\ 0 \in Slots
  BY CacheAssumption DEF NoOp, NoLast, NoAnswer, EmptyTable, NoSlot, NoStats, Slots
<1>q. \A p \in Addresses \cup {Nil} : (p # Nil => heap[p] \in Chunk) => BytesAt(p) \in Keys \cup {Fill}
  BY DEF BytesAt, Chunk
<1> USE <1>a, <1>b, <1>p DEF Goto, handle, seen, bounds
<1>1. CASE ZarrU8_open(h)
  BY <1>1 DEF ZarrU8_open, TypeOK, NoStats
<1>2. CASE ZarrU8_close(h)
  BY <1>2 DEF ZarrU8_close, TypeOK
<1>3. CASE \E src \in Handles : ZarrU8_clone(h, src)
  <2>1. stats.handles + 1 \in Nat
    BY DEF TypeOK
  <2>2. stats' = [stats EXCEPT !.handles = stats.handles + 1]
    BY <1>3 DEF ZarrU8_clone, Cloned
  <2>3. stats' \in [handles : Nat, chunks : Nat, peak_chunks : Nat, bytes : Nat, peak_bytes : Nat]
    BY <2>1, <2>2 DEF TypeOK
  <2>4. pc' = [pc EXCEPT ![h] = "idle"] /\ UNCHANGED <<family, lock, heap, handle, op, seen, bounds>>
    BY <1>3 DEF ZarrU8_clone
  <2> QED BY <2>3, <2>4 DEF TypeOK
<1>4. ASSUME NEW k \in Keys, ReadLast(h, k) PROVE TypeOK'
  <2>1. last[h].data # Nil => heap[last[h].data] \in Chunk
    <3>1. pc[h] # "closing" /\ last[h].key # Nil
      BY <1>4, CacheAssumption DEF ReadLast
    <3>2. PICK s \in Slots : Listed(slot[h][s].entry) /\ last[h].data = DataOf(slot[h][s].entry)
      BY <3>1 DEF IInv, PinsLive
    <3> QED BY <3>2 DEF DataOf, Listed, TypeOK
  <2>2. BytesAt(last[h].data) \in Keys \cup {Fill}
    BY <1>q, <2>1 DEF TypeOK
  <2> QED BY <1>4, <2>2 DEF ReadLast, TypeOK
<1>5. ASSUME NEW k \in Keys, ReadSlot(h, k) PROVE TypeOK'
  <2>1. PICK s \in Found(h, k) :
          /\ last' = [last EXCEPT ![h] = [key |-> k, data |-> DataOf(slot[h][s].entry)]]
          /\ answer' = [answer EXCEPT ![h] = [key |-> k, value |-> BytesAt(DataOf(slot[h][s].entry))]]
    BY <1>5 DEF ReadSlot
  <2>2. s \in Slots /\ slot[h][s].key = k /\ pc[h] = "idle"
    BY <1>5, WalkInTable DEF ReadSlot, Found
  <2>3. Listed(slot[h][s].entry) /\ slot[h][s].entry \in Addresses
    <3>1. slot[h][s].entry # Nil
      BY <2>2, CacheAssumption DEF IInv, SlotsPaired, Used
    <3>2. Held(h, s)
      BY <2>2, <3>1 DEF Held
    <3> QED BY <2>2, <3>1, <3>2 DEF IInv, PinsLive, TypeOK
  <2>4. /\ DataOf(slot[h][s].entry) \in Addresses \cup {Nil}
        /\ BytesAt(DataOf(slot[h][s].entry)) \in Keys \cup {Fill}
    BY <1>q, <2>3 DEF DataOf, Listed, TypeOK
  <2> QED BY <1>5, <2>1, <2>4 DEF ReadSlot, TypeOK
<1>6. ASSUME NEW k \in Keys, Miss(h, k) PROVE TypeOK'
  <2>1. PICK s \in Target(h, k) : op' = [op EXCEPT ![h] = [key |-> k, slot |-> s, entry |-> Nil]]
    BY <1>6 DEF Miss
  <2>2. s \in 0 .. Cap
    BY TargetInTable, CacheAssumption DEF Slots
  <2> QED BY <1>6, <2>1, <2>2 DEF Miss, TypeOK
<1>7. CASE AcquireHit(h)
  <2>1. PICK a \in Published(op[h].key) : op' = [op EXCEPT ![h].entry = a]
    BY <1>7 DEF AcquireHit
  <2>2. a \in Addresses
    BY <2>1 DEF Published
  <2>3. op' \in [Handles -> [key : Keys \cup {Nil}, slot : 0 .. Cap, entry : Addresses \cup {Nil}]]
    BY <2>1, <2>2 DEF TypeOK
  <2>4. pc' = [pc EXCEPT ![h] = "install"] /\ UNCHANGED <<family, stats, lock, handle, seen, bounds>>
    BY <1>7 DEF AcquireHit
  <2> QED BY <2>3, <2>4 DEF TypeOK
<1>8. CASE Load(h)
  <2>1. op[h].key \in Keys
    BY <1>8 DEF Load, InHand, Missing
  <2>2. PICK a \in Malloc(Addresses \ Chunks) : op' = [op EXCEPT ![h].entry = a]
    BY <1>8 DEF Load
  <2>3. a \in Addresses
    BY <2>2, CacheAssumption
  <2>4. op' \in [Handles -> [key : Keys \cup {Nil}, slot : 0 .. Cap, entry : Addresses \cup {Nil}]]
    BY <2>2, <2>3 DEF TypeOK
  <2>5. faulty' \subseteq Keys /\ failures' \in Nat
    BY <1>8, <2>1 DEF Load, TypeOK
  <2>6. lock' \in [0 .. Buckets - 1 -> Handles \cup {Nil}]
    BY <1>8 DEF Load, LoadOwner, TypeOK
  <2> QED BY <1>8, <2>4, <2>5, <2>6 DEF Load, TypeOK
<1>9. CASE LoadFails(h)
  <2>1. op[h].key \in Keys
    BY <1>9 DEF LoadFails, InHand, Missing
  <2> QED BY <1>9, <2>1 DEF LoadFails, TypeOK
<1>10. CASE Publish(h)
  <2>1. stats' \in [handles : Nat, chunks : Nat, peak_chunks : Nat, bytes : Nat, peak_bytes : Nat]
    <3> DEFINE n == stats.chunks + 1
               m == stats.bytes + (IF heap[op[h].entry].data THEN 1 ELSE 0)
    <3>1. n \in Nat /\ m \in Nat /\ stats' = Counted(stats, n, m)
      BY <1>10 DEF Publish, TypeOK
    <3> HIDE DEF n, m
    <3> QED BY <3>1 DEF Counted, Larger, TypeOK
  <2> QED BY <1>10, <2>1 DEF Publish, Unlock, TypeOK
<1>r. ASSUME GivesBack(h), Release(Evicted(h))
      PROVE  stats' \in [handles : Nat, chunks : Nat, peak_chunks : Nat, bytes : Nat, peak_bytes : Nat]
  BY <1>r, ReleaseStats
<1>11. CASE Install(h)
  <2>1. GivesBack(h) /\ Release(Evicted(h))
    BY <1>11, InstallReleases
  <2>2. op[h].key \in Keys /\ op[h].slot \in Slots /\ op[h].entry \in Addresses /\ heap[op[h].entry] \in Chunk
    <3>1. pc[h] = "install"
      BY <1>11 DEF Install
    <3>2. op[h].key \in Keys /\ op[h].slot \in Target(h, op[h].key) /\ op[h].entry \in Chunks
      BY <3>1 DEF InHand, Missing
    <3> QED BY <3>2, TargetInTable DEF Chunks, TypeOK
  <2>3. /\ DataOf(op[h].entry) \in Addresses \cup {Nil}
        /\ BytesAt(DataOf(op[h].entry)) \in Keys \cup {Fill}
    BY <1>q, <2>2 DEF DataOf
  <2>4. NextEvict(h) \in Slots
    <3>1. (op[h].slot + 1) % Cap \in Slots
      BY <2>2, CacheAssumption DEF Slots
    <3> QED BY <3>1 DEF NextEvict, TypeOK
  <2>5. slot' \in [Handles -> [Slots -> [key : Keys \cup {Nil}, entry : Addresses \cup {Nil}]]]
    BY <1>11, <2>2 DEF Install, TypeOK
  <2>6. /\ evict' = [evict EXCEPT ![h] = NextEvict(h)]
        /\ last' = [last EXCEPT ![h] = [key |-> op[h].key, data |-> DataOf(op[h].entry)]]
        /\ answer' = [answer EXCEPT ![h] = [key |-> op[h].key, value |-> BytesAt(DataOf(op[h].entry))]]
        /\ op' = [op EXCEPT ![h] = NoOp] /\ pc' = [pc EXCEPT ![h] = "idle"]
        /\ UNCHANGED <<family, lock, faulty, misses, failures>>
    BY <1>11 DEF Install, Remembered
  <2>7. evict' \in [Handles -> Slots] /\ UNCHANGED <<family, lock, faulty, misses, failures>>
    BY <2>4, <2>6 DEF TypeOK
  <2>8. last' \in [Handles -> [key : Keys \cup {Nil}, data : Addresses \cup {Nil}]]
    BY <2>2, <2>3, <2>6 DEF TypeOK
  <2>9. answer' \in [Handles -> [key : Keys \cup {Nil}, value : Keys \cup {Fill}]]
    BY <2>2, <2>3, <2>6 DEF TypeOK
  <2> QED BY <1>r, <2>1, <2>5, <2>6, <2>7, <2>8, <2>9 DEF TypeOK
<1>12. CASE CloseSlot(h)
  <2>1. GivesBack(h) /\ Release(Evicted(h))
    BY <1>12, CloseReleases
  <2>2. op' = [op EXCEPT ![h].slot = op[h].slot + 1] /\ op[h].slot + 1 \in 0 .. Cap
    <3>1. op' = [op EXCEPT ![h].slot = op[h].slot + 1] /\ op[h].slot < Cap
      BY <1>12, Zenon DEF CloseSlot
    <3>2. op[h].slot \in 0 .. Cap
      BY DEF TypeOK
    <3> QED BY <3>1, <3>2, CacheAssumption
  <2>3. op' \in [Handles -> [key : Keys \cup {Nil}, slot : 0 .. Cap, entry : Addresses \cup {Nil}]]
    BY <2>2 DEF TypeOK
  <2> QED BY <1>12, <1>r, <2>1, <2>3 DEF CloseSlot, TypeOK
<1>13. CASE CloseFamily(h)
  <2>1. h \in Open /\ stats.handles = Cardinality(Open) /\ stats.handles \in Nat
    BY <1>13 DEF CloseFamily, Open, Statistics, TypeOK
  <2>2. stats.handles - 1 \in Nat
    <3>1. Cardinality(Open) # 0
      BY <2>1, FiniteHandles, FS_EmptySet DEF Open
    <3> QED BY <2>1, <3>1
  <2>3. stats' = NoStats \/ stats' = [stats EXCEPT !.handles = stats.handles - 1]
    BY <1>13 DEF CloseFamily
  <2>4. stats' \in [handles : Nat, chunks : Nat, peak_chunks : Nat, bytes : Nat, peak_bytes : Nat]
    BY <2>2, <2>3 DEF TypeOK
  <2> QED BY <1>13, <2>4 DEF CloseFamily, TypeOK
<1> QED BY <1>1, <1>2, <1>3, <1>4, <1>5, <1>6, <1>7, <1>8, <1>9, <1>10, <1>11, <1>12, <1>13
        DEF StepOf, Inside, Read
-----------------------------------------------------------------------------
(* Only a load and a publication touch a lock or the hands of a loader. *)
LEMMA LoaderFrame ==
  ASSUME TypeOK, NEW h \in Handles, StepOf(h), ~Load(h), ~Publish(h)
  PROVE  lock' = lock /\ pc[h] # "publish" /\ pc'[h] # "publish"
<1> USE DEF TypeOK, Goto, handle, seen, bounds
<1>1. CASE ZarrU8_open(h) \/ ZarrU8_close(h) \/ \E src \in Handles : ZarrU8_clone(h, src)
  BY <1>1 DEF ZarrU8_open, ZarrU8_close, ZarrU8_clone
<1>2. CASE \E k \in Keys : Read(h, k)
  BY <1>2 DEF Read, ReadLast, ReadSlot, Miss
<1>3. CASE AcquireHit(h) \/ LoadFails(h)
  BY <1>3 DEF AcquireHit, LoadFails
<1>4. CASE Install(h) \/ CloseSlot(h) \/ CloseFamily(h)
  BY <1>4 DEF Install, CloseSlot, CloseFamily
<1> QED BY <1>1, <1>2, <1>3, <1>4 DEF StepOf, Inside

LEMMA LoadMoves ==
  ASSUME IInv, NEW h \in Handles, Load(h)
  PROVE  /\ pc[h] = "acquire" /\ pc'[h] = "publish" /\ op[h].key \in Keys
         /\ op'[h].key = op[h].key /\ op'[h].slot = op[h].slot
         /\ lock[Bucket(op[h].key)] = Nil /\ lock' = [lock EXCEPT ![Bucket(op[h].key)] = h]
         /\ slot' = slot /\ evict' = evict /\ last' = last /\ stats' = stats /\ family' = family
         /\ faulty \subseteq faulty' /\ answer' = answer
<1>a. TypeOK /\ InHand
  BY DEF IInv
<1>1. pc[h] = "acquire" /\ pc'[h] = "publish" /\ lock[Bucket(op[h].key)] = Nil
      /\ lock' = [lock EXCEPT ![Bucket(op[h].key)] = h]
  BY <1>a DEF Load, Goto, Unlocked, LoadOwner, TypeOK
<1>2. op[h].key \in Keys
  BY <1>a, <1>1 DEF InHand, Missing
<1>3. op'[h].key = op[h].key /\ op'[h].slot = op[h].slot
  BY <1>a DEF Load, TypeOK
<1>4. slot' = slot /\ evict' = evict /\ last' = last /\ stats' = stats /\ family' = family
      /\ faulty \subseteq faulty' /\ answer' = answer
  BY DEF Load, handle
<1> QED BY <1>1, <1>2, <1>3, <1>4

LEMMA PublishMoves ==
  ASSUME IInv, NEW h \in Handles, Publish(h)
  PROVE  /\ pc[h] = "publish" /\ pc' = [pc EXCEPT ![h] = "install"] /\ op[h].key \in Keys
         /\ lock' = [lock EXCEPT ![Bucket(op[h].key)] = Nil]
         /\ heap' = [heap EXCEPT ![op[h].entry].refs = 1, ![op[h].entry].listed = TRUE]
         /\ op' = op /\ slot' = slot /\ evict' = evict /\ last' = last /\ family' = family
         /\ faulty' = faulty /\ answer' = answer
BY DEF Publish, Goto, Unlock, handle, seen, IInv, InHand, Missing

LEMMA NextLocks ==
  ASSUME IInv, NEW h \in Handles, StepOf(h)
  PROVE  LocksOwned'
<1>a. TypeOK /\ LocksOwned
  BY DEF IInv
<1>s. \A g \in Handles \ {h} : pc'[g] = pc[g] /\ op'[g] = op[g]
  BY <1>a, OthersStay
<1> SUFFICES ASSUME NEW b \in 0 .. Buckets - 1, NEW g \in Handles
             PROVE  lock'[b] = g <=> pc'[g] = "publish" /\ Bucket(op'[g].key) = b
  BY DEF LocksOwned, Bucket
<1>i. lock[b] = g <=> pc[g] = "publish" /\ Bucket(op[g].key) = b
  BY <1>a DEF LocksOwned
<1>n. g # Nil /\ h # Nil
  BY CacheAssumption
<1>1. CASE Load(h)
  <2>1. /\ pc[h] = "acquire" /\ pc'[h] = "publish" /\ op'[h].key = op[h].key
        /\ lock[Bucket(op[h].key)] = Nil /\ lock' = [lock EXCEPT ![Bucket(op[h].key)] = h]
    BY <1>1, LoadMoves
  <2>2. lock'[b] = IF b = Bucket(op[h].key) THEN h ELSE lock[b]
    BY <1>a, <2>1 DEF TypeOK
  <2>3. CASE g = h
    BY <1>i, <1>n, <2>1, <2>2, <2>3
  <2>4. CASE g # h
    BY <1>i, <1>n, <1>s, <2>1, <2>2, <2>4
  <2> QED BY <2>3, <2>4
<1>2. CASE Publish(h)
  <2>1. /\ pc[h] = "publish" /\ pc' = [pc EXCEPT ![h] = "install"] /\ op' = op
        /\ lock' = [lock EXCEPT ![Bucket(op[h].key)] = Nil]
    BY <1>2, PublishMoves
  <2>2. lock'[b] = IF b = Bucket(op[h].key) THEN Nil ELSE lock[b]
    BY <1>a, <2>1 DEF TypeOK
  <2>3. CASE g = h
    BY <1>a, <1>i, <1>n, <2>1, <2>2, <2>3 DEF TypeOK
  <2>4. CASE g # h
    <3>1. pc'[g] = pc[g]
      BY <1>s, <2>4
    <3>2. pc[g] = "publish" => Bucket(op[g].key) # Bucket(op[h].key)
      BY <2>1, <2>4, OneLoader
    <3> QED BY <1>i, <1>n, <2>1, <2>2, <3>1, <3>2
  <2> QED BY <2>3, <2>4
<1>3. CASE ~Load(h) /\ ~Publish(h)
  <2>1. lock' = lock /\ pc[h] # "publish" /\ pc'[h] # "publish"
    BY <1>3, <1>a, LoaderFrame
  <2>2. CASE g = h
    BY <1>i, <2>1, <2>2
  <2>3. CASE g # h
    BY <1>i, <1>s, <2>1, <2>3
  <2> QED BY <2>2, <2>3
<1> QED BY <1>1, <1>2, <1>3
-----------------------------------------------------------------------------
LEMMA PublishLists ==
  ASSUME IInv, NEW h \in Handles, Publish(h)
  PROVE  /\ op[h].entry \in Addresses /\ heap'[op[h].entry].listed /\ heap'[op[h].entry] \in Chunk
         /\ heap'[op[h].entry].refs = 1
         /\ heap'[op[h].entry].key = op[h].key /\ heap'[op[h].entry].data = heap[op[h].entry].data
         /\ \A a \in Addresses \ {op[h].entry} : heap'[a] = heap[a]
<1>a. TypeOK
  BY DEF IInv
<1> DEFINE e == op[h].entry
<1>1. e \in Addresses /\ heap[e] \in Chunk /\ heap[e].key = op[h].key
  BY InHandChunk DEF Publish
<1>2. heap' = [heap EXCEPT ![e].refs = 1, ![e].listed = TRUE]
  BY DEF Publish
<1> HIDE DEF e
<1>3. heap'[e] = [heap[e] EXCEPT !.refs = 1, !.listed = TRUE] /\ \A a \in Addresses \ {e} : heap'[a] = heap[a]
  BY <1>a, <1>1, <1>2 DEF TypeOK
<1>4. heap'[e].listed /\ heap'[e] \in Chunk /\ heap'[e].refs = 1 /\ heap'[e].key = heap[e].key /\ heap'[e].data = heap[e].data
  <2>1. /\ DOMAIN heap[e] = {"key", "refs", "data", "listed"}
        /\ heap[e] = [key |-> heap[e].key, refs |-> heap[e].refs, data |-> heap[e].data, listed |-> heap[e].listed]
        /\ heap[e].key \in Keys /\ heap[e].data \in BOOLEAN
    BY <1>1 DEF Chunk
  <2>2. heap'[e] = [key |-> heap[e].key, refs |-> 1, data |-> heap[e].data, listed |-> TRUE]
    BY <1>3, <2>1
  <2> QED BY <2>1, <2>2 DEF Chunk
<1> QED BY <1>1, <1>3, <1>4 DEF e

LEMMA NextUnlisted ==
  ASSUME IInv, NEW h \in Handles, StepOf(h)
  PROVE  Unlisted'
<1>a. TypeOK /\ Unlisted
  BY DEF IInv
<1> SUFFICES ASSUME NEW a \in Addresses, heap'[a] # Free, ~heap'[a].listed
             PROVE  \E g \in Handles : pc'[g] = "publish" /\ op'[g].entry = a
  BY DEF Unlisted, Chunks, Listed
<1>1. CASE Stays(a)
  <2>1. a \in Chunks /\ ~Listed(a)
    BY <1>1 DEF Stays, Chunks, Listed
  <2>2. PICK g \in Handles : pc[g] = "publish" /\ op[g].entry = a
    BY <1>a, <2>1 DEF Unlisted
  <2>3. CASE g = h
    <3>1. Publish(h)
      BY <1>a, <2>2, <2>3, LoaderFrame, LoadMoves
    <3> QED BY <2>2, <2>3, <3>1, PublishLists
  <2>4. CASE g # h
    BY <1>a, <2>2, <2>4, OthersStay
  <2> QED BY <2>3, <2>4
<1>2. CASE LoadedBy(h, a)
  BY <1>2 DEF LoadedBy
<1>3. ~Repinned(a) /\ ~PublishedBy(h, a) /\ ~FreedBy(h, a)
  BY DEF Repinned, PublishedBy, FreedBy
<1> QED BY <1>1, <1>2, <1>3, HeapStep

LEMMA FaultyGrows ==
  ASSUME NEW h \in Handles, StepOf(h)
  PROVE  faulty \subseteq faulty'
<1> USE DEF handle, seen, bounds
<1>1. CASE ZarrU8_open(h) \/ ZarrU8_close(h) \/ \E src \in Handles : ZarrU8_clone(h, src)
  BY <1>1 DEF ZarrU8_open, ZarrU8_close, ZarrU8_clone
<1>2. CASE \E k \in Keys : Read(h, k)
  BY <1>2 DEF Read, ReadLast, ReadSlot, Miss
<1>3. CASE AcquireHit(h) \/ Load(h) \/ LoadFails(h) \/ Publish(h)
  BY <1>3 DEF AcquireHit, Load, LoadFails, Publish
<1>4. CASE Install(h) \/ CloseSlot(h) \/ CloseFamily(h)
  BY <1>4 DEF Install, CloseSlot, CloseFamily
<1> QED BY <1>1, <1>2, <1>3, <1>4 DEF StepOf, Inside

LEMMA NextData ==
  ASSUME IInv, NEW h \in Handles, StepOf(h)
  PROVE  DataTells'
<1> SUFFICES ASSUME NEW a \in Addresses, heap'[a] # Free
             PROVE  IF heap'[a].data THEN heap'[a].key \in Whole
                    ELSE heap'[a].key \in Whole => heap'[a].key \in faulty'
  BY DEF DataTells, Chunks
<1>1. a \in Chunks => IF heap[a].data THEN heap[a].key \in Whole
                      ELSE heap[a].key \in Whole => heap[a].key \in faulty
  BY DEF IInv, DataTells
<1>2. faulty \subseteq faulty'
  BY FaultyGrows
<1>3. CASE Stays(a)
  BY <1>1, <1>2, <1>3 DEF Stays, Chunks
<1>4. CASE Repinned(a)
  BY <1>1, <1>2, <1>4 DEF Repinned, Chunks, Listed
<1>5. CASE PublishedBy(h, a)
  <2>1. heap[a] # Free
    BY <1>5, InHandChunk, CacheAssumption DEF PublishedBy
  <2> QED BY <1>1, <1>2, <1>5, <2>1 DEF PublishedBy, Chunks
<1>6. CASE LoadedBy(h, a)
  BY <1>6 DEF LoadedBy
<1> QED BY <1>3, <1>4, <1>5, <1>6, HeapStep DEF FreedBy

(* What a chunk was before the step, unless the step loads it. *)
LEMMA WasThere ==
  ASSUME IInv, NEW h \in Handles, StepOf(h), NEW a \in Addresses, heap'[a] # Free, ~LoadedBy(h, a)
  PROVE  a \in Chunks /\ heap'[a].key = heap[a].key /\ heap'[a].data = heap[a].data
<1>1. CASE Stays(a)
  BY <1>1 DEF Stays, Chunks
<1>2. CASE Repinned(a)
  BY <1>2 DEF Repinned, Chunks, Listed
<1>3. CASE PublishedBy(h, a)
  <2>1. heap[a] # Free
    BY <1>3, InHandChunk, CacheAssumption DEF PublishedBy
  <2> QED BY <1>3, <2>1 DEF PublishedBy, Chunks
<1> QED BY <1>1, <1>2, <1>3, HeapStep DEF FreedBy

(* While a bucket is unlocked, each chunk of its keys is published. *)
LEMMA NoneLoading ==
  ASSUME IInv, NEW k \in Keys, Unlocked(k), Published(k) = {}, NEW a \in Chunks
  PROVE  heap[a].key # k
<1> SUFFICES ASSUME heap[a].key = k PROVE FALSE
  OBVIOUS
<1>1. ~Listed(a)
  BY DEF Published, Chunks
<1>2. PICK g \in Handles : pc[g] = "publish" /\ op[g].entry = a
  BY <1>1 DEF IInv, Unlisted
<1>3. op[g].key = k
  BY <1>2, InHandChunk
<1>4. Bucket(k) \in 0 .. Buckets - 1
  BY InBucketRange
<1>5. lock[Bucket(k)] = g
  BY <1>2, <1>3, <1>4 DEF IInv, LocksOwned
<1> QED BY <1>5, CacheAssumption DEF Unlocked

LEMMA NextOneChunk ==
  ASSUME IInv, NEW h \in Handles, StepOf(h)
  PROVE  OneChunkPerKey'
<1> SUFFICES ASSUME NEW a \in Addresses, NEW b \in Addresses, heap'[a] # Free, heap'[b] # Free,
                    heap'[a].key = heap'[b].key
             PROVE  a = b
  BY DEF OneChunkPerKey, Chunks
<1>1. \A c, d \in Addresses : LoadedBy(h, c) /\ LoadedBy(h, d) => c = d
  BY DEF LoadedBy
<1>2. ASSUME NEW c \in Addresses, NEW d \in Addresses, LoadedBy(h, c), ~LoadedBy(h, d), heap'[d] # Free
      PROVE  heap'[c].key # heap'[d].key
  <2>1. d \in Chunks /\ heap'[d].key = heap[d].key
    BY <1>2, WasThere
  <2>2. /\ heap'[c].key = op[h].key /\ op[h].key \in Keys
        /\ Unlocked(op[h].key) /\ Published(op[h].key) = {}
    BY <1>2 DEF LoadedBy, IInv, InHand, Missing
  <2> QED BY <2>1, <2>2, NoneLoading
<1>3. CASE LoadedBy(h, a) \/ LoadedBy(h, b)
  BY <1>1, <1>2, <1>3
<1>4. CASE ~LoadedBy(h, a) /\ ~LoadedBy(h, b)
  <2>1. a \in Chunks /\ b \in Chunks /\ heap[a].key = heap[b].key
    BY <1>4, WasThere
  <2> QED BY <2>1 DEF IInv, OneChunkPerKey
<1> QED BY <1>3, <1>4
-----------------------------------------------------------------------------
LEMMA NotNil == Nil \notin Keys /\ Nil \notin Addresses
BY CacheAssumption

(* Only an installation and the end of a close change a table. *)
LEMMA TableFrame ==
  ASSUME NEW h \in Handles, StepOf(h), ~Install(h), ~CloseFamily(h)
  PROVE  slot' = slot /\ evict' = evict
<1> USE DEF handle, seen, bounds
<1>1. CASE ZarrU8_open(h) \/ ZarrU8_close(h) \/ \E src \in Handles : ZarrU8_clone(h, src)
  BY <1>1 DEF ZarrU8_open, ZarrU8_close, ZarrU8_clone
<1>2. CASE \E k \in Keys : Read(h, k)
  BY <1>2 DEF Read, ReadLast, ReadSlot, Miss
<1>3. CASE AcquireHit(h) \/ Load(h) \/ LoadFails(h) \/ Publish(h)
  BY <1>3 DEF AcquireHit, Load, LoadFails, Publish
<1>4. CASE CloseSlot(h)
  BY <1>4 DEF CloseSlot
<1> QED BY <1>1, <1>2, <1>3, <1>4 DEF StepOf, Inside

LEMMA InstallMoves ==
  ASSUME IInv, NEW h \in Handles, Install(h)
  PROVE  /\ pc[h] = "install" /\ pc' = [pc EXCEPT ![h] = "idle"] /\ op' = [op EXCEPT ![h] = NoOp]
         /\ op[h].key \in Keys /\ op[h].slot \in Slots /\ op[h].entry \in Addresses
         /\ op[h].slot \in Target(h, op[h].key) /\ Found(h, op[h].key) = {}
         /\ Listed(op[h].entry) /\ heap[op[h].entry].key = op[h].key
         /\ slot' = [slot EXCEPT ![h][op[h].slot] = [key |-> op[h].key, entry |-> op[h].entry]]
         /\ last' = [last EXCEPT ![h] = [key |-> op[h].key, data |-> DataOf(op[h].entry)]]
         /\ answer' = [answer EXCEPT ![h] = [key |-> op[h].key, value |-> BytesAt(DataOf(op[h].entry))]]
         /\ family' = family /\ faulty' = faulty
<1>a. TypeOK /\ InHand
  BY DEF IInv
<1>1. /\ pc[h] = "install" /\ pc' = [pc EXCEPT ![h] = "idle"] /\ op' = [op EXCEPT ![h] = NoOp]
      /\ slot' = [slot EXCEPT ![h][op[h].slot] = [key |-> op[h].key, entry |-> op[h].entry]]
      /\ last' = [last EXCEPT ![h] = [key |-> op[h].key, data |-> DataOf(op[h].entry)]]
      /\ answer' = [answer EXCEPT ![h] = [key |-> op[h].key, value |-> BytesAt(DataOf(op[h].entry))]]
      /\ family' = family /\ faulty' = faulty
  BY DEF Install, Goto, Remembered
<1>2. /\ op[h].key \in Keys /\ op[h].slot \in Target(h, op[h].key) /\ Found(h, op[h].key) = {}
      /\ op[h].entry \in Addresses
  BY <1>a, <1>1 DEF InHand, Missing, Chunks
<1>3. Listed(op[h].entry) /\ heap[op[h].entry].key = op[h].key
  BY <1>1 DEF IInv, PinsLive
<1>4. op[h].slot \in Slots
  BY <1>a, <1>2, TargetInTable
<1> QED BY <1>1, <1>2, <1>3, <1>4

LEMMA FamilyMoves ==
  ASSUME NEW h \in Handles, CloseFamily(h)
  PROVE  /\ pc[h] = "closing" /\ pc' = [pc EXCEPT ![h] = "closed"]
         /\ op[h].slot = Cap /\ op' = [op EXCEPT ![h] = NoOp]
         /\ slot' = [slot EXCEPT ![h] = EmptyTable] /\ last' = [last EXCEPT ![h] = NoLast]
         /\ heap' = heap /\ faulty' = faulty /\ answer' = [answer EXCEPT ![h] = NoAnswer]
BY DEF CloseFamily, Goto

LEMMA NextPaired ==
  ASSUME IInv, NEW h \in Handles, StepOf(h)
  PROVE  SlotsPaired'
<1>a. TypeOK /\ SlotsPaired
  BY DEF IInv
<1> SUFFICES ASSUME NEW g \in Handles, NEW s \in Slots
             PROVE  slot'[g][s].key # Nil <=> slot'[g][s].entry # Nil
  BY DEF SlotsPaired, Used
<1>1. slot[g][s].key # Nil <=> slot[g][s].entry # Nil
  BY <1>a DEF SlotsPaired, Used
<1>2. CASE Install(h)
  <2>1. slot' = [slot EXCEPT ![h][op[h].slot] = [key |-> op[h].key, entry |-> op[h].entry]]
    BY <1>2, InstallMoves
  <2>2. op[h].key # Nil /\ op[h].entry # Nil /\ op[h].slot \in Slots
    <3>1. op[h].key \in Keys /\ op[h].slot \in Slots /\ op[h].entry \in Addresses
      BY <1>2, InstallMoves
    <3> QED BY <3>1, NotNil
  <2>3. CASE g = h /\ s = op[h].slot
    BY <1>a, <2>1, <2>2, <2>3 DEF TypeOK
  <2>4. CASE ~(g = h /\ s = op[h].slot)
    <3>1. slot'[g][s] = slot[g][s]
      BY <1>a, <2>1, <2>2, <2>4 DEF TypeOK
    <3> QED BY <1>1, <3>1
  <2> QED BY <2>3, <2>4
<1>3. CASE CloseFamily(h)
  <2>1. slot' = [slot EXCEPT ![h] = EmptyTable]
    BY <1>3, FamilyMoves
  <2> QED BY <1>a, <1>1, <2>1 DEF TypeOK, EmptyTable, NoSlot
<1>4. CASE ~Install(h) /\ ~CloseFamily(h)
  BY <1>1, <1>4, TableFrame
<1> QED BY <1>2, <1>3, <1>4
-----------------------------------------------------------------------------
(* Filling one slot of a table: the walks of its handle go no shorter.      *)
Fills(h, s, k) ==
  /\ \A t \in Slots \ {s} : slot'[h][t] = slot[h][t]
  /\ slot'[h][s].key = k

LEMMA WalksGrow ==
  ASSUME NEW h \in Handles, NEW s \in Slots, NEW k \in Keys, Fills(h, s, k), NEW q \in Keys
  PROVE  Reached(h, q) \subseteq Reached(h, q)'
<1>1. \A t \in Slots : Used(h, t) => Used(h, t)'
  BY CacheAssumption DEF Used, Fills
<1> SUFFICES ASSUME NEW t \in Reached(h, q) PROVE t \in Reached(h, q)'
  OBVIOUS
<1>2. PICK i \in Slots : t = Probe(q, i) /\ \A m \in 0 .. i - 1 : Used(h, Probe(q, m))
  BY ReachedBy
<1>3. \A m \in 0 .. i - 1 : Used(h, Probe(q, m))'
  <2> TAKE m \in 0 .. i - 1
  <2>1. m \in Slots
    BY CacheAssumption DEF Slots
  <2>2. Used(h, Probe(q, m))
    BY <1>2
  <2>3. Probe(q, m) \in Slots
    BY <2>1, ProbeSlot
  <2> QED BY <1>1, <2>2, <2>3 DEF Probe
<1> QED BY <1>2, <1>3, Zenon DEF Reached, Probe

LEMMA WalksSame ==
  ASSUME NEW g, NEW k, slot'[g] = slot[g]
  PROVE  Reached(g, k)' = Reached(g, k) /\ Found(g, k)' = Found(g, k) /\ Unused(g, k)' = Unused(g, k)
<1>1. \A t : Used(g, t)' <=> Used(g, t)
  BY DEF Used
<1>2. Reached(g, k)' = Reached(g, k)
  BY <1>1 DEF Reached, Probe
<1> QED BY <1>1, <1>2 DEF Found, Unused

LEMMA FoundIs ==
  ASSUME NEW g, NEW k, NEW s
  PROVE  s \in Found(g, k) <=> s \in Reached(g, k) /\ slot[g][s].key = k
BY DEF Found

(* A key goes where its walk comes: to an unused slot on it or, in a full   *)
(* table, to any.                                                           *)
LEMMA TargetReached ==
  ASSUME TypeOK, NEW h \in Handles, NEW k \in Keys, NEW s \in Target(h, k)
  PROVE  s \in Reached(h, k) /\ s \in Slots
<1>1. CASE Unused(h, k) = {}
  BY <1>1, FullTable, TargetInTable
<1>2. CASE Unused(h, k) # {}
  BY <1>2, TargetInTable DEF Target, Unused
<1> QED BY <1>1, <1>2

LEMMA FilledFinds ==
  ASSUME IInv, NEW h \in Handles, NEW k \in Keys, NEW s \in Target(h, k), Found(h, k) = {}, Fills(h, s, k),
         NEW t \in Slots, NEW q \in Keys, slot'[h][t].key = q
  PROVE  Found(h, q)' = {t}
<1>a. TypeOK /\ TableFinds
  BY DEF IInv
<1>s. s \in Reached(h, k) /\ s \in Slots
  BY <1>a, TargetReached
<1>n. Nil \notin Keys
  BY NotNil
<1>f. \A r \in Slots : slot[h][r].key \in Keys => Found(h, slot[h][r].key) = {r}
  BY <1>a, <1>n DEF TableFinds, Used
<1>r. Reached(h, q) \subseteq Reached(h, q)'
  BY <1>s, WalksGrow
<1>w. Reached(h, q)' \subseteq Slots
  <2>1. \A i \in Slots : Probe(q, i) \in Slots
    BY ProbeSlot
  <2> QED BY <2>1, Zenon DEF Reached, Probe
<1>1. t \in Reached(h, q)
  <2>1. CASE t = s
    BY <1>s, <2>1 DEF Fills
  <2>2. CASE t # s
    <3>1. slot[h][t].key = q
      BY <2>2 DEF Fills
    <3> QED BY <1>f, <3>1, FoundIs
  <2> QED BY <2>1, <2>2
<1>2. ASSUME NEW r \in Slots, slot'[h][r].key = q PROVE r = t
  <2>1. CASE r = s /\ t = s
    BY <2>1
  <2>2. \A u \in Slots \ {s} : slot[h][u].key # k
    BY <1>f
  <2>3. CASE r = s /\ t # s
    BY <1>2, <2>2, <2>3 DEF Fills
  <2>4. CASE r # s /\ t = s
    BY <1>2, <2>2, <2>4 DEF Fills
  <2>5. CASE r # s /\ t # s
    <3>1. slot[h][r].key = q /\ slot[h][t].key = q
      BY <1>2, <2>5 DEF Fills
    <3>2. Found(h, q) = {r} /\ Found(h, q) = {t}
      BY <1>f, <3>1
    <3> QED BY <3>2
  <2> QED BY <2>1, <2>3, <2>4, <2>5
<1>3. \A r : r \in Found(h, q)' <=> r \in Reached(h, q)' /\ slot'[h][r].key = q
  BY DEF Found
<1>4. t \in Found(h, q)'
  BY <1>1, <1>3, <1>r
<1>5. \A r : r \in Found(h, q)' => r = t
  BY <1>2, <1>3, <1>w
<1> QED BY <1>4, <1>5

LEMMA InstallFills ==
  ASSUME IInv, NEW h \in Handles, Install(h)
  PROVE  /\ Fills(h, op[h].slot, op[h].key) /\ slot'[h][op[h].slot].entry = op[h].entry
         /\ slot'[h] \in [Slots -> [key : Keys \cup {Nil}, entry : Addresses \cup {Nil}]]
<1>1. slot' = [slot EXCEPT ![h][op[h].slot] = [key |-> op[h].key, entry |-> op[h].entry]]
  BY InstallMoves
<1>2. op[h].slot \in Slots /\ op[h].key \in Keys /\ op[h].entry \in Addresses
  BY InstallMoves
<1>3. slot \in [Handles -> [Slots -> [key : Keys \cup {Nil}, entry : Addresses \cup {Nil}]]]
  BY DEF IInv, TypeOK
<1> QED BY <1>1, <1>2, <1>3 DEF Fills

LEMMA NextTable ==
  ASSUME IInv, NEW h \in Handles, StepOf(h)
  PROVE  TableFinds'
<1>a. TypeOK /\ TableFinds
  BY DEF IInv
<1> SUFFICES ASSUME NEW g \in Handles, NEW s \in Slots, NEW q, slot'[g][s].key = q, q # Nil
             PROVE  Found(g, q)' = {s}
  BY DEF TableFinds, Used, Found, Reached, Probe
<1>1. CASE slot'[g] = slot[g]
  <2>1. Found(g, q) = {s}
    BY <1>a, <1>1 DEF TableFinds, Used
  <2> QED BY <1>1, <2>1, WalksSame
<1>2. CASE Install(h) /\ g = h
  <2>1. /\ op[h].key \in Keys /\ op[h].slot \in Target(h, op[h].key) /\ Found(h, op[h].key) = {}
        /\ Fills(h, op[h].slot, op[h].key)
        /\ slot'[h] \in [Slots -> [key : Keys \cup {Nil}, entry : Addresses \cup {Nil}]]
    BY <1>2, InstallMoves, InstallFills
  <2>2. q \in Keys
    BY <1>2, <2>1
  <2> QED BY <1>2, <2>1, <2>2, FilledFinds
<1>3. CASE CloseFamily(h) /\ g = h
  <2>1. slot' = [slot EXCEPT ![h] = EmptyTable]
    BY <1>3, FamilyMoves
  <2>2. slot'[g][s].key = Nil
    BY <1>a, <1>3, <2>1 DEF TypeOK, EmptyTable, NoSlot
  <2> QED BY <2>2
<1>4. slot'[g] = slot[g] \/ (g = h /\ (Install(h) \/ CloseFamily(h)))
  BY <1>a, OthersStay, TableFrame
<1> QED BY <1>1, <1>2, <1>3, <1>4
-----------------------------------------------------------------------------
(* A chunk stays while it has a pin the step does not give back. *)
LEMMA PinnedStays ==
  ASSUME IInv, NEW h \in Handles, StepOf(h), NEW a \in Addresses, Listed(a), NEW p \in Pins(a),
         ~(GivesBack(h) /\ p = <<h, op[h].slot>>)
  PROVE  heap'[a] \in Chunk /\ heap'[a].listed /\ heap'[a].key = heap[a].key /\ heap'[a].data = heap[a].data
<1>1. heap[a] \in Chunk /\ heap[a].listed /\ a \in Chunks
  BY DEF IInv, TypeOK, Listed, Chunks
<1>2. ~LoadedBy(h, a) /\ ~FreedBy(h, a)
  BY <1>1 DEF LoadedBy, FreedBy
<1> QED BY <1>1, <1>2, HeapStep DEF Stays, Repinned, PublishedBy

LEMMA ChunkListed ==
  ASSUME NEW a \in Addresses, heap'[a] \in Chunk
  PROVE  a \in Chunks' /\ (Listed(a)' <=> heap'[a].listed)
BY CacheAssumption DEF Chunks, Listed

(* The hands in the next state, with the key in hand named. *)
HandNext(g) ==
  /\ pc'[g] = "closed" => slot'[g] = EmptyTable
  /\ pc'[g] \in {"closed", "idle"} => op'[g] = NoOp
  /\ pc'[g] \in Missing => \E q \in Keys : /\ op'[g].key = q /\ Found(g, q)' = {}
                                          /\ op'[g].slot \in Target(g, q)'
  /\ pc'[g] \in {"publish", "install"} => op'[g].entry \in Chunks'
  /\ pc'[g] = "publish" => \E e \in Addresses : /\ op'[g].entry = e /\ ~Listed(e)'
                                               /\ heap'[e].key = op'[g].key

LEMMA HandsNext ==
  ASSUME \A g \in Handles : HandNext(g)
  PROVE  InHand'
<1>1. ASSUME NEW g \in Handles, NEW q, op'[g].key = q, Found(g, q)' = {}
      PROVE  (Found(g, op[g].key) = {})'
  BY <1>1 DEF Found, Reached, Probe, Used
<1>2. ASSUME NEW g \in Handles, NEW q, op'[g].key = q, op'[g].slot \in Target(g, q)'
      PROVE  (op[g].slot \in Target(g, op[g].key))'
  BY <1>2 DEF Target, Unused, Reached, Probe, Used
<1>3. ASSUME NEW g \in Handles, NEW e, op'[g].entry = e, ~Listed(e)', heap'[e].key = op'[g].key
      PROVE  (~Listed(op[g].entry) /\ heap[op[g].entry].key = op[g].key)'
  BY <1>3 DEF Listed
<1> QED BY <1>1, <1>2, <1>3 DEF InHand, Missing, HandNext

LEMMA NextInHand ==
  ASSUME IInv, NEW h \in Handles, StepOf(h)
  PROVE  InHand'
<1>a. TypeOK /\ InHand
  BY DEF IInv
<1> SUFFICES ASSUME NEW g \in Handles PROVE HandNext(g)
  BY HandsNext
<1> USE DEF HandNext
<1>1. CASE g # h
  <2>1. /\ pc'[g] = pc[g] /\ op'[g] = op[g] /\ slot'[g] = slot[g] /\ evict'[g] = evict[g]
    BY <1>a, <1>1, OthersStay
  <2>2. /\ pc[g] = "closed" => slot[g] = EmptyTable
        /\ pc[g] \in {"closed", "idle"} => op[g] = NoOp
        /\ pc[g] \in Missing => /\ op[g].key \in Keys /\ Found(g, op[g].key) = {}
                                /\ op[g].slot \in Target(g, op[g].key)
    BY <1>a DEF InHand
  <2>3. ASSUME NEW q \in Keys PROVE Found(g, q)' = Found(g, q) /\ Target(g, q)' = Target(g, q)
    BY <2>1, WalksSame DEF Target
  <2>4. ASSUME pc[g] = "publish"
        PROVE  \E e \in Addresses : /\ op[g].entry = e /\ e \in Chunks' /\ ~Listed(e)'
                                   /\ heap'[e].key = op[g].key
    <3>1. PICK e \in Addresses : /\ e = op[g].entry /\ heap[e] \in Chunk /\ ~heap[e].listed
                                 /\ heap[e].key = op[g].key /\ op[g].key \in Keys
      BY <2>4, InHandChunk
    <3>2. ~Listed(e) /\ e \in Chunks
      BY <3>1, CacheAssumption DEF Listed, Chunks
    <3>3. ~PublishedBy(h, e)
      <4> SUFFICES ASSUME PublishedBy(h, e) PROVE FALSE
        OBVIOUS
      <4>1. pc[h] = "publish" /\ op[h].entry = e
        BY DEF PublishedBy
      <4>2. op[h].key = op[g].key
        BY <3>1, <4>1, InHandChunk
      <4> QED BY <1>1, <2>4, <4>1, <4>2, OneLoader
    <3>4. heap'[e] = heap[e]
      BY <3>1, <3>2, <3>3, HeapStep DEF Stays, Repinned, LoadedBy, FreedBy
    <3>5. heap'[e] \in Chunk /\ ~heap'[e].listed /\ heap'[e].key = op[g].key
      BY <3>1, <3>4
    <3>6. e \in Chunks' /\ ~Listed(e)'
      BY <3>1, <3>5, ChunkListed
    <3> QED BY <3>1, <3>5, <3>6
  <2>5. ASSUME pc[g] = "install"
        PROVE  \E e \in Addresses : op[g].entry = e /\ e \in Chunks'
    <3>1. PICK e \in Addresses : e = op[g].entry /\ Listed(e)
      BY <1>a, <2>5 DEF IInv, PinsLive, InHand, Chunks
    <3>2. <<g, Cap>> \in Pins(e)
      BY <2>5, <3>1, PinsAre
    <3>3. heap'[e] \in Chunk
      BY <1>1, <3>1, <3>2, PinnedStays
    <3> QED BY <3>1, <3>3, ChunkListed
  <2> QED BY <2>1, <2>2, <2>3, <2>4, <2>5
<1>i. /\ pc[h] \in {"closed", "idle"} => op[h] = NoOp
      /\ pc[h] \in Missing => /\ op[h].key \in Keys /\ Found(h, op[h].key) = {}
                              /\ op[h].slot \in Target(h, op[h].key)
  BY <1>a DEF InHand
<1>k. ASSUME slot' = slot, evict' = evict, NEW q \in Keys
      PROVE  Found(h, q)' = Found(h, q) /\ Target(h, q)' = Target(h, q)
  BY <1>k, WalksSame DEF Target
<1>2. CASE g = h /\ (ZarrU8_open(h) \/ ZarrU8_close(h) \/ \E src \in Handles : ZarrU8_clone(h, src))
  <2>1. /\ op' = op /\ pc[h] \in {"closed", "idle"}
        /\ pc' = [pc EXCEPT ![h] = "idle"] \/ pc' = [pc EXCEPT ![h] = "closing"]
    BY <1>2 DEF ZarrU8_open, ZarrU8_close, ZarrU8_clone, Goto
  <2>2. op'[h] = NoOp /\ pc'[h] \in {"idle", "closing"}
    BY <1>a, <1>i, <2>1 DEF TypeOK
  <2> QED BY <1>2, <2>2 DEF Missing
<1>3. ASSUME NEW k \in Keys, ReadLast(h, k) \/ ReadSlot(h, k), g = h
      PROVE  pc'[h] = "idle" /\ op'[h] = NoOp
  BY <1>i, <1>3 DEF ReadLast, ReadSlot
<1>4. ASSUME NEW k \in Keys, Miss(h, k), g = h
      PROVE  /\ pc'[h] = "acquire"
             /\ op'[h].key = k /\ Found(h, k)' = {} /\ op'[h].slot \in Target(h, k)'
  <2>1. PICK s \in Target(h, k) : op' = [op EXCEPT ![h] = [key |-> k, slot |-> s, entry |-> Nil]]
    BY <1>4 DEF Miss
  <2>2. Found(h, k) = {} /\ slot' = slot /\ evict' = evict /\ pc' = [pc EXCEPT ![h] = "acquire"]
    BY <1>4 DEF Miss, Goto, handle
  <2>3. pc'[h] = "acquire" /\ op'[h].key = k /\ op'[h].slot = s
    BY <1>a, <2>1, <2>2 DEF TypeOK
  <2> QED BY <1>k, <2>1, <2>2, <2>3
<1>5. CASE g = h /\ AcquireHit(h)
  <2>1. PICK a \in Published(op[h].key) : op' = [op EXCEPT ![h].entry = a]
    BY <1>5 DEF AcquireHit
  <2>2. pc[h] = "acquire" /\ pc' = [pc EXCEPT ![h] = "install"] /\ slot' = slot /\ evict' = evict
    BY <1>5 DEF AcquireHit, Goto, handle
  <2>3. pc'[h] = "install" /\ op'[h].entry = a /\ op'[h].key = op[h].key /\ op'[h].slot = op[h].slot
    BY <1>a, <2>1, <2>2 DEF TypeOK
  <2>4. a \in Addresses /\ heap[a] \in Chunk
    BY <1>a, <2>1 DEF Published, Listed, TypeOK
  <2>5. ~FreedBy(h, a)
    BY <2>2 DEF FreedBy, GivesBack
  <2>6. heap'[a] \in Chunk
    BY <2>4, <2>5, HeapStep DEF Stays, Repinned, LoadedBy, PublishedBy
  <2>7. a \in Chunks'
    BY <2>4, <2>6, ChunkListed
  <2>8. PICK q \in Keys : q = op[h].key /\ Found(h, q) = {} /\ op[h].slot \in Target(h, q)
    BY <1>i, <2>2 DEF Missing
  <2>9. Found(h, q)' = {} /\ \A t \in Target(h, q) : t \in Target(h, q)'
    BY <1>k, <2>2, <2>8
  <2> QED BY <1>5, <2>3, <2>7, <2>8, <2>9
<1>6. CASE g = h /\ Load(h)
  <2>1. /\ pc[h] = "acquire" /\ pc'[h] = "publish" /\ op[h].key \in Keys
        /\ op'[h].key = op[h].key /\ op'[h].slot = op[h].slot
        /\ slot' = slot /\ evict' = evict
    BY <1>6, LoadMoves
  <2>2. PICK b \in Addresses : LoadedBy(h, b)
    BY <1>6, LoadLoads
  <2>3. op'[h].entry = b /\ heap'[b] \in Chunk /\ ~heap'[b].listed /\ heap'[b].key = op[h].key
    BY <2>2 DEF LoadedBy
  <2>4. b \in Chunks' /\ ~Listed(b)'
    BY <2>3, ChunkListed
  <2>8. PICK q \in Keys : q = op[h].key /\ Found(h, q) = {} /\ op[h].slot \in Target(h, q)
    BY <1>i, <2>1 DEF Missing
  <2>9. Found(h, q)' = {} /\ \A t \in Target(h, q) : t \in Target(h, q)'
    BY <1>k, <2>1, <2>8
  <2> QED BY <1>6, <2>1, <2>3, <2>4, <2>8, <2>9
<1>7. CASE g = h /\ (LoadFails(h) \/ Install(h))
  <2>1. op' = [op EXCEPT ![h] = NoOp] /\ pc' = [pc EXCEPT ![h] = "idle"]
    BY <1>7, InstallMoves DEF LoadFails, Goto
  <2>2. op'[h] = NoOp /\ pc'[h] = "idle"
    BY <1>a, <2>1 DEF TypeOK
  <2> QED BY <1>7, <2>2 DEF Missing
<1>8. CASE g = h /\ Publish(h)
  <2>1. /\ pc[h] = "publish" /\ pc' = [pc EXCEPT ![h] = "install"]
        /\ op' = op /\ slot' = slot /\ evict' = evict
    BY <1>8, PublishMoves
  <2>2. pc'[h] = "install"
    BY <1>a, <2>1 DEF TypeOK
  <2>3. PICK e \in Addresses : e = op[h].entry /\ heap'[e] \in Chunk
    BY <1>8, PublishLists
  <2>4. e \in Chunks'
    BY <2>3, ChunkListed
  <2>8. PICK q \in Keys : q = op[h].key /\ Found(h, q) = {} /\ op[h].slot \in Target(h, q)
    BY <1>i, <2>1 DEF Missing
  <2>9. Found(h, q)' = {} /\ \A t \in Target(h, q) : t \in Target(h, q)'
    BY <1>k, <2>1, <2>8
  <2> QED BY <1>8, <2>1, <2>2, <2>3, <2>4, <2>8, <2>9
<1>9. CASE g = h /\ CloseSlot(h)
  <2>1. pc'[h] = "closing"
    BY <1>9 DEF CloseSlot
  <2> QED BY <1>9, <2>1 DEF Missing
<1>10. CASE g = h /\ CloseFamily(h)
  <2>1. pc' = [pc EXCEPT ![h] = "closed"] /\ op' = [op EXCEPT ![h] = NoOp] /\ slot' = [slot EXCEPT ![h] = EmptyTable]
    BY <1>10, FamilyMoves
  <2>2. pc'[h] = "closed" /\ op'[h] = NoOp /\ slot'[h] = EmptyTable
    BY <1>a, <2>1 DEF TypeOK
  <2> QED BY <1>10, <2>2 DEF Missing
<1> QED BY <1>1, <1>2, <1>3, <1>4, <1>5, <1>6, <1>7, <1>8, <1>9, <1>10 DEF StepOf, Inside, Read, Missing
-----------------------------------------------------------------------------
(* Which step a handle takes from each place, and which comes to a place. *)
LEMMA FromPlace ==
  ASSUME TypeOK, NEW h \in Handles, StepOf(h)
  PROVE  /\ pc[h] = "install" => Install(h)
         /\ pc[h] = "closing" => CloseSlot(h) \/ CloseFamily(h)
         /\ pc'[h] = "install" => AcquireHit(h) \/ Publish(h)
<1> USE DEF TypeOK, Goto, handle, seen, bounds
<1>1. CASE ZarrU8_open(h) \/ ZarrU8_close(h) \/ \E src \in Handles : ZarrU8_clone(h, src)
  BY <1>1 DEF ZarrU8_open, ZarrU8_close, ZarrU8_clone
<1>2. CASE \E k \in Keys : Read(h, k)
  BY <1>2 DEF Read, ReadLast, ReadSlot, Miss
<1>3. CASE AcquireHit(h) \/ Load(h) \/ LoadFails(h) \/ Publish(h)
  BY <1>3 DEF AcquireHit, Load, LoadFails, Publish
<1>4. CASE Install(h) \/ CloseSlot(h) \/ CloseFamily(h)
  BY <1>4 DEF Install, CloseSlot, CloseFamily
<1> QED BY <1>1, <1>2, <1>3, <1>4 DEF StepOf, Inside

LEMMA CloseMoves ==
  ASSUME TypeOK, NEW h \in Handles, CloseSlot(h)
  PROVE  /\ pc[h] = "closing" /\ pc' = pc /\ op[h].slot \in Slots /\ op' = [op EXCEPT ![h].slot = op[h].slot + 1]
         /\ op'[h].slot = op[h].slot + 1 /\ slot' = slot /\ last' = last
<1>1. /\ pc[h] = "closing" /\ pc' = pc /\ op[h].slot < Cap
      /\ op' = [op EXCEPT ![h].slot = op[h].slot + 1] /\ slot' = slot /\ last' = last
  BY Zenon DEF CloseSlot, handle
<1>2. op[h].slot \in 0 .. Cap /\ op'[h].slot = op[h].slot + 1
  BY <1>1 DEF TypeOK
<1> QED BY <1>1, <1>2, CacheAssumption DEF Slots

(* The slot the step fills is the one new holder of a chunk. *)
LEMMA HeldBefore ==
  ASSUME IInv, NEW h \in Handles, StepOf(h), NEW g \in Handles, NEW s \in Slots, Held(g, s)',
         ~(Install(h) /\ g = h /\ s = op[h].slot)
  PROVE  /\ slot'[g][s] = slot[g][s] /\ Held(g, s)
         /\ ~(GivesBack(h) /\ <<g, s>> = <<h, op[h].slot>>)
<1>a. TypeOK
  BY DEF IInv
<1>1. CASE g # h
  BY <1>a, <1>1, OthersStay DEF Held
<1>2. CASE g = h /\ Install(h)
  <2>1. slot' = [slot EXCEPT ![h][op[h].slot] = [key |-> op[h].key, entry |-> op[h].entry]] /\ pc[h] = "install"
    BY <1>2, InstallMoves
  <2>2. slot'[h][s] = slot[h][s]
    BY <1>a, <1>2, <2>1 DEF TypeOK
  <2> QED BY <1>2, <2>1, <2>2 DEF Held
<1>3. CASE g = h /\ CloseSlot(h)
  <2>1. /\ pc[h] = "closing" /\ pc' = pc /\ op[h].slot \in Slots /\ op'[h].slot = op[h].slot + 1 /\ slot' = slot
    BY <1>3, <1>a, CloseMoves
  <2>2. ~(s < op[h].slot + 1) /\ slot[h][s].entry # Nil
    BY <1>3, <2>1 DEF Held
  <2> QED BY <1>3, <2>1, <2>2, CacheAssumption DEF Held, Slots
<1>4. CASE g = h /\ CloseFamily(h)
  <2>1. slot' = [slot EXCEPT ![h] = EmptyTable]
    BY <1>4, FamilyMoves
  <2>2. slot'[h][s].entry = Nil
    BY <1>a, <2>1 DEF TypeOK, EmptyTable, NoSlot
  <2> QED BY <1>4, <2>2 DEF Held
<1>5. CASE g = h /\ ~Install(h) /\ ~CloseSlot(h) /\ ~CloseFamily(h)
  <2>1. pc[h] # "install" /\ pc[h] # "closing"
    BY <1>a, <1>5, FromPlace
  <2>2. slot' = slot
    BY <1>5, TableFrame
  <2> QED BY <1>5, <2>1, <2>2 DEF Held, GivesBack
<1> QED BY <1>1, <1>2, <1>3, <1>4, <1>5

(* What a handle is about to install stays for it. *)
LEMMA HandedStays ==
  ASSUME IInv, NEW h \in Handles, StepOf(h), NEW g \in Handles, pc[g] = "install"
  PROVE  /\ op[g].entry \in Addresses /\ heap'[op[g].entry] \in Chunk /\ heap'[op[g].entry].listed
         /\ heap'[op[g].entry].key = op[g].key /\ heap'[op[g].entry].data = heap[op[g].entry].data
<1>1. op[g].entry \in Addresses /\ Listed(op[g].entry) /\ heap[op[g].entry].key = op[g].key
  BY DEF IInv, PinsLive, InHand, Chunks
<1>2. <<g, Cap>> \in Pins(op[g].entry)
  BY PinsAre
<1>3. GivesBack(h) => op[h].slot # Cap
  <2> SUFFICES ASSUME GivesBack(h) PROVE op[h].slot # Cap
    OBVIOUS
  <2>1. pc[h] = "install" => op[h].slot \in Slots
    BY InstallMoves, FromPlace DEF IInv
  <2> QED BY <2>1, CacheAssumption DEF GivesBack, Slots
<1> QED BY <1>1, <1>2, <1>3, PinnedStays

LEMMA SlotsLive ==
  ASSUME IInv, NEW h \in Handles, StepOf(h), NEW g \in Handles, NEW s \in Slots, Held(g, s)'
  PROVE  \E e \in Addresses : /\ e = slot'[g][s].entry
                              /\ heap'[e] \in Chunk /\ heap'[e].listed /\ heap'[e].key = slot'[g][s].key
<1>a. TypeOK
  BY DEF IInv
<1>1. CASE Install(h) /\ g = h /\ s = op[h].slot
  <2>1. slot'[h][s] = [key |-> op[h].key, entry |-> op[h].entry] /\ pc[h] = "install"
    BY <1>1, <1>a, InstallMoves DEF TypeOK
  <2> QED BY <1>1, <2>1, HandedStays
<1>2. CASE ~(Install(h) /\ g = h /\ s = op[h].slot)
  <2>1. /\ slot'[g][s] = slot[g][s] /\ Held(g, s)
        /\ ~(GivesBack(h) /\ <<g, s>> = <<h, op[h].slot>>)
    BY <1>2, HeldBefore
  <2>2. PICK e \in Addresses : e = slot[g][s].entry
    BY <1>a, <2>1 DEF Held, TypeOK
  <2>3. Listed(e) /\ heap[e].key = slot[g][s].key
    BY <2>1, <2>2 DEF IInv, PinsLive
  <2>4. <<g, s>> \in Pins(e)
    BY <2>1, <2>2, PinsAre
  <2> QED BY <2>1, <2>2, <2>3, <2>4, PinnedStays
<1> QED BY <1>1, <1>2

LEMMA CallsLive ==
  ASSUME IInv, NEW h \in Handles, StepOf(h), NEW g \in Handles, pc'[g] = "install"
  PROVE  \E e \in Addresses : /\ e = op'[g].entry
                              /\ heap'[e] \in Chunk /\ heap'[e].listed /\ heap'[e].key = op'[g].key
<1>a. TypeOK
  BY DEF IInv
<1>1. CASE g # h
  <2>1. pc[g] = "install" /\ op'[g] = op[g]
    BY <1>1, <1>a, OthersStay
  <2> QED BY <2>1, HandedStays
<1>2. CASE g = h /\ AcquireHit(h)
  <2>1. PICK e \in Published(op[h].key) : op' = [op EXCEPT ![h].entry = e]
    BY <1>2 DEF AcquireHit
  <2>2. e \in Addresses /\ Listed(e) /\ heap[e].key = op[h].key /\ heap[e] \in Chunk
    BY <1>a, <2>1 DEF Published, Listed, TypeOK
  <2>3. op'[h].entry = e /\ op'[h].key = op[h].key /\ pc[h] = "acquire"
    BY <1>a, <1>2, <2>1 DEF TypeOK, AcquireHit
  <2>4. ~FreedBy(h, e) /\ ~LoadedBy(h, e)
    BY <2>2, <2>3 DEF FreedBy, GivesBack, LoadedBy, Chunks, Listed
  <2>5. heap'[e] \in Chunk /\ heap'[e].listed /\ heap'[e].key = heap[e].key
    BY <2>2, <2>4, HeapStep DEF Stays, Repinned, PublishedBy, Listed
  <2> QED BY <1>2, <2>2, <2>3, <2>5
<1>3. CASE g = h /\ Publish(h)
  <2>1. op' = op
    BY <1>3, PublishMoves
  <2> QED BY <1>3, <2>1, PublishLists
<1> QED BY <1>a, <1>1, <1>2, <1>3, FromPlace

(* Only a read from a slot, an installation and a close change what is      *)
(* remembered.                                                              *)
LEMMA LastFrame ==
  ASSUME NEW h \in Handles, StepOf(h), ~Install(h), ~CloseFamily(h), \A k \in Keys : ~ReadSlot(h, k)
  PROVE  last' = last
<1> USE DEF handle, seen, bounds
<1>1. CASE ZarrU8_open(h) \/ ZarrU8_close(h) \/ \E src \in Handles : ZarrU8_clone(h, src)
  BY <1>1 DEF ZarrU8_open, ZarrU8_close, ZarrU8_clone
<1>2. CASE \E k \in Keys : Read(h, k)
  BY <1>2 DEF Read, ReadLast, Miss
<1>3. CASE AcquireHit(h) \/ Load(h) \/ LoadFails(h) \/ Publish(h)
  BY <1>3 DEF AcquireHit, Load, LoadFails, Publish
<1>4. CASE CloseSlot(h)
  BY <1>4 DEF CloseSlot
<1> QED BY <1>1, <1>2, <1>3, <1>4 DEF StepOf, Inside

(* A chunk in a slot of an open table. *)
LEMMA SlotChunk ==
  ASSUME IInv, NEW g \in Handles, NEW s \in Slots, pc[g] # "closing", Used(g, s)
  PROVE  /\ slot[g][s].entry \in Addresses /\ Held(g, s) /\ <<g, s>> \in Pins(slot[g][s].entry)
         /\ Listed(slot[g][s].entry) /\ heap[slot[g][s].entry] \in Chunk
         /\ heap[slot[g][s].entry].key = slot[g][s].key
<1>1. slot[g][s].entry # Nil /\ slot[g][s].entry \in Addresses
  BY DEF IInv, SlotsPaired, TypeOK
<1>2. Held(g, s)
  BY <1>1 DEF Held
<1>3. Listed(slot[g][s].entry) /\ heap[slot[g][s].entry].key = slot[g][s].key
  BY <1>2 DEF IInv, PinsLive
<1>4. heap[slot[g][s].entry] \in Chunk
  BY <1>1, <1>3 DEF IInv, TypeOK, Listed
<1> QED BY <1>1, <1>2, <1>3, <1>4, PinsAre

LEMMA LastLive ==
  ASSUME IInv, NEW h \in Handles, StepOf(h), NEW g \in Handles, pc'[g] # "closing", last'[g].key # Nil
  PROVE  \E s \in Slots, e \in Addresses :
           /\ slot'[g][s].key = last'[g].key /\ e = slot'[g][s].entry
           /\ heap'[e] \in Chunk /\ heap'[e].listed
           /\ last'[g].data = IF heap'[e].data THEN e ELSE Nil
<1>a. TypeOK
  BY DEF IInv
<1>1. CASE Install(h) /\ g = h
  <2>1. /\ pc[h] = "install" /\ op[h].slot \in Slots
        /\ slot'[h][op[h].slot] = [key |-> op[h].key, entry |-> op[h].entry]
        /\ last'[h] = [key |-> op[h].key, data |-> DataOf(op[h].entry)]
    BY <1>a, <1>1, InstallMoves DEF TypeOK
  <2>2. /\ op[h].entry \in Addresses /\ heap'[op[h].entry] \in Chunk /\ heap'[op[h].entry].listed
        /\ heap'[op[h].entry].data = heap[op[h].entry].data
    BY <2>1, HandedStays
  <2> QED BY <1>1, <2>1, <2>2 DEF DataOf
<1>2. CASE CloseFamily(h) /\ g = h
  BY <1>a, <1>2, FamilyMoves DEF TypeOK, NoLast
<1>3. ASSUME NEW k \in Keys, ReadSlot(h, k), g = h
      PROVE  \E s \in Slots, e \in Addresses :
               /\ slot'[g][s].key = last'[g].key /\ e = slot'[g][s].entry
               /\ heap'[e] \in Chunk /\ heap'[e].listed
               /\ last'[g].data = IF heap'[e].data THEN e ELSE Nil
  <2>1. PICK s \in Found(h, k) : last' = [last EXCEPT ![h] = [key |-> k, data |-> DataOf(slot[h][s].entry)]]
    BY <1>3 DEF ReadSlot
  <2>2. s \in Slots /\ slot[h][s].key = k /\ pc[h] = "idle" /\ heap' = heap /\ slot' = slot
    BY <1>3, WalkInTable DEF ReadSlot, Found
  <2>3. Used(h, s)
    BY <2>2, NotNil DEF Used
  <2>4. slot[h][s].entry \in Addresses /\ Listed(slot[h][s].entry) /\ heap[slot[h][s].entry] \in Chunk
    BY <2>2, <2>3, SlotChunk
  <2>5. last'[h] = [key |-> k, data |-> DataOf(slot[h][s].entry)]
    BY <1>a, <2>1 DEF TypeOK
  <2> QED BY <1>3, <2>2, <2>4, <2>5 DEF DataOf, Listed
<1>4. CASE g # h \/ (~Install(h) /\ ~CloseFamily(h) /\ \A k \in Keys : ~ReadSlot(h, k))
  <2>1. last'[g] = last[g] /\ slot'[g] = slot[g]
    BY <1>a, <1>4, OthersStay, LastFrame, TableFrame
  <2>2. pc[g] # "closing"
    <3> SUFFICES ASSUME pc[g] = "closing" PROVE FALSE
      OBVIOUS
    <3>1. g = h /\ CloseSlot(h)
      BY <1>a, <1>4, OthersStay, FromPlace
    <3> QED BY <1>a, <3>1, CloseMoves
  <2>3. PICK s \in Slots : /\ slot[g][s].key = last[g].key
                           /\ Listed(slot[g][s].entry) /\ last[g].data = DataOf(slot[g][s].entry)
    BY <2>1, <2>2 DEF IInv, PinsLive
  <2>4. PICK e \in Addresses : e = slot[g][s].entry /\ Listed(e) /\ <<g, s>> \in Pins(e)
    BY <2>1, <2>2, <2>3, SlotChunk DEF Used
  <2>5. ~(GivesBack(h) /\ <<g, s>> = <<h, op[h].slot>>)
    BY <1>a, <1>4, <2>2, FromPlace DEF GivesBack
  <2>6. heap'[e] \in Chunk /\ heap'[e].listed /\ heap'[e].data = heap[e].data
    BY <2>4, <2>5, PinnedStays
  <2> QED BY <2>1, <2>3, <2>4, <2>6 DEF DataOf
<1> QED BY <1>1, <1>2, <1>3, <1>4

LEMMA NextPins ==
  ASSUME IInv, NEW h \in Handles, StepOf(h)
  PROVE  PinsLive'
<1>1. ASSUME NEW g \in Handles, NEW s \in Slots, Held(g, s)'
      PROVE  (Listed(slot[g][s].entry) /\ heap[slot[g][s].entry].key = slot[g][s].key)'
  BY <1>1, SlotsLive, CacheAssumption DEF Listed
<1>2. ASSUME NEW g \in Handles, pc'[g] = "install"
      PROVE  (Listed(op[g].entry) /\ heap[op[g].entry].key = op[g].key)'
  BY <1>2, CallsLive, CacheAssumption DEF Listed
<1>3. ASSUME NEW g \in Handles, pc'[g] # "closing", last'[g].key # Nil
      PROVE  (\E s \in Slots : /\ slot[g][s].key = last[g].key
                               /\ Listed(slot[g][s].entry) /\ last[g].data = DataOf(slot[g][s].entry))'
  <2>1. PICK s \in Slots, e \in Addresses :
           /\ slot'[g][s].key = last'[g].key /\ e = slot'[g][s].entry
           /\ heap'[e] \in Chunk /\ heap'[e].listed
           /\ last'[g].data = IF heap'[e].data THEN e ELSE Nil
    BY <1>3, LastLive
  <2>2. (Listed(slot[g][s].entry) /\ last[g].data = DataOf(slot[g][s].entry))'
    BY <2>1, CacheAssumption DEF Listed, DataOf
  <2> QED BY <2>1, <2>2
<1> QED BY <1>1, <1>2, <1>3 DEF PinsLive
-----------------------------------------------------------------------------
(* The pins after a step: a pin of another handle is as it was. *)
LEMMA PinsNext ==
  ASSUME NEW a, NEW h \in Handles
  PROVE  /\ \A s \in Slots : <<h, s>> \in Pins(a)' <=> Held(h, s)' /\ slot'[h][s].entry = a
         /\ <<h, Cap>> \in Pins(a)' <=> pc'[h] = "install" /\ op'[h].entry = a
         /\ Pins(a)' \in SUBSET (Handles \X (0 .. Cap))
<1>1. \A s \in Slots : <<h, s>> \in SlotPins(a)' <=> Held(h, s)' /\ slot'[h][s].entry = a
  BY DEF SlotPins, Held
<1>2. \A s : <<h, s>> \in CallPins(a)' <=> s = Cap /\ pc'[h] = "install" /\ op'[h].entry = a
  BY DEF CallPins
<1>3. \A s : <<h, s>> \in SlotPins(a)' => s \in Slots
  BY DEF SlotPins
<1>4. Cap \notin Slots
  BY CacheAssumption DEF Slots
<1>5. Pins(a)' \in SUBSET (Handles \X (0 .. Cap))
  BY CacheAssumption DEF Pins, SlotPins, CallPins, Slots
<1> QED BY <1>1, <1>2, <1>3, <1>4, <1>5 DEF Pins

LEMMA SlotPin ==
  ASSUME NEW a, NEW h \in Handles, NEW s \in Slots
  PROVE  /\ <<h, s>> \in Pins(a) <=> Held(h, s) /\ slot[h][s].entry = a
         /\ <<h, s>> \in Pins(a)' <=> Held(h, s)' /\ slot'[h][s].entry = a
<1>1. \A t \in Slots : <<h, t>> \in Pins(a) <=> Held(h, t) /\ slot[h][t].entry = a
  BY PinsAre
<1>2. \A t \in Slots : <<h, t>> \in Pins(a)' <=> Held(h, t)' /\ slot'[h][t].entry = a
  BY PinsNext
<1> QED BY <1>1, <1>2

LEMMA PinsOfOthers ==
  ASSUME TypeOK, NEW h \in Handles, StepOf(h), NEW a, NEW g \in Handles, g # h, NEW i \in 0 .. Cap
  PROVE  <<g, i>> \in Pins(a)' <=> <<g, i>> \in Pins(a)
<1>1. pc'[g] = pc[g] /\ op'[g] = op[g] /\ slot'[g] = slot[g]
  BY OthersStay
<1>2. CASE i \in Slots
  <2>1. Held(g, i)' <=> Held(g, i)
    BY <1>1 DEF Held
  <2>2. <<g, i>> \in Pins(a)' <=> Held(g, i)' /\ slot'[g][i].entry = a
    BY <1>2, SlotPin
  <2>3. <<g, i>> \in Pins(a) <=> Held(g, i) /\ slot[g][i].entry = a
    BY <1>2, SlotPin
  <2> QED BY <1>1, <2>1, <2>2, <2>3
<1>3. CASE i = Cap
  BY <1>1, <1>3, PinsAre, PinsNext
<1> QED BY <1>2, <1>3, CacheAssumption DEF Slots

LEMMA PinsAfter ==
  ASSUME TypeOK, NEW h \in Handles, StepOf(h), NEW a, NEW S \in SUBSET Places,
         \A g \in Handles, i \in 0 .. Cap : g # h => (<<g, i>> \in S <=> <<g, i>> \in Pins(a)),
         \A i \in 0 .. Cap : <<h, i>> \in Pins(a)' <=> <<h, i>> \in S
  PROVE  Pins(a)' = S
<1>1. ASSUME NEW g \in Handles, NEW i \in 0 .. Cap
      PROVE  <<g, i>> \in Pins(a)' <=> <<g, i>> \in S
  BY PinsOfOthers
<1>2. Pins(a)' \in SUBSET Places
  BY PinsNext DEF Places
<1>3. \A p \in Places : p \in Pins(a)' <=> p \in S
  BY <1>1 DEF Places
<1> QED BY <1>2, <1>3

LEMMA PinsSame ==
  ASSUME TypeOK, NEW h \in Handles, StepOf(h), NEW a,
         \A i \in 0 .. Cap : <<h, i>> \in Pins(a)' <=> <<h, i>> \in Pins(a)
  PROVE  Pins(a)' = Pins(a)
<1>1. Pins(a) \in SUBSET Places
  BY PinPairs DEF Places
<1> QED BY <1>1, PinsAfter

(* The steps that neither take a pin nor give one back. *)
LEMMA PinsStay ==
  ASSUME IInv, NEW h \in Handles, StepOf(h),
         ~AcquireHit(h), ~Publish(h), ~Install(h), ~CloseSlot(h), NEW a \in Addresses
  PROVE  Pins(a)' = Pins(a)
<1>a. TypeOK /\ InHand
  BY DEF IInv
<1>1. pc[h] # "install" /\ pc'[h] # "install"
  BY <1>a, FromPlace
<1>2. ASSUME NEW s \in Slots
      PROVE  Held(h, s)' /\ slot'[h][s].entry = a <=> Held(h, s) /\ slot[h][s].entry = a
  <2>1. CASE CloseFamily(h)
    <3>1. pc[h] = "closing" /\ op[h].slot = Cap /\ slot' = [slot EXCEPT ![h] = EmptyTable]
      BY <2>1, FamilyMoves
    <3>2. ~Held(h, s)
      BY <3>1, CacheAssumption DEF Held, Slots
    <3>3. slot'[h][s].entry = Nil
      BY <1>a, <3>1 DEF TypeOK, EmptyTable, NoSlot
    <3> QED BY <3>2, <3>3 DEF Held
  <2>2. CASE ~CloseFamily(h)
    <3>1. slot' = slot
      BY <2>2, TableFrame
    <3>2. pc[h] # "closing"
      BY <1>a, <2>2, FromPlace
    <3>3. ~(pc'[h] = "closing" /\ s < op'[h].slot)
      <4> SUFFICES ASSUME pc'[h] = "closing" PROVE ~(s < op'[h].slot)
        OBVIOUS
      <4>1. ZarrU8_close(h)
        <5> USE DEF TypeOK, Goto
        <5>1. CASE ZarrU8_open(h) \/ \E src \in Handles : ZarrU8_clone(h, src)
          BY <1>a, <5>1 DEF ZarrU8_open, ZarrU8_clone
        <5>2. CASE \E k \in Keys : Read(h, k)
          BY <1>a, <3>2, <5>2 DEF Read, ReadLast, ReadSlot, Miss
        <5>3. CASE Load(h) \/ LoadFails(h)
          BY <1>a, <5>3 DEF Load, LoadFails
        <5> QED BY <2>2, <5>1, <5>2, <5>3 DEF StepOf, Inside
      <4>2. op'[h].slot = 0
        BY <1>a, <4>1 DEF ZarrU8_close, InHand, NoOp
      <4> QED BY <4>2, CacheAssumption DEF Slots
    <3> QED BY <3>1, <3>2, <3>3 DEF Held
  <2> QED BY <2>1, <2>2
<1>3. ASSUME NEW i \in 0 .. Cap PROVE <<h, i>> \in Pins(a)' <=> <<h, i>> \in Pins(a)
  <2>1. CASE i \in Slots
    <3>1. <<h, i>> \in Pins(a)' <=> Held(h, i)' /\ slot'[h][i].entry = a
      BY <2>1, SlotPin
    <3>2. <<h, i>> \in Pins(a) <=> Held(h, i) /\ slot[h][i].entry = a
      BY <2>1, SlotPin
    <3> QED BY <1>2, <2>1, <3>1, <3>2
  <2>2. CASE i = Cap
    BY <1>1, <2>2, PinsAre, PinsNext
  <2> QED BY <2>1, <2>2, CacheAssumption DEF Slots
<1> QED BY <1>a, <1>3, PinsSame

LEMMA TakesPin ==
  ASSUME TypeOK, NEW h \in Handles, StepOf(h), slot' = slot, pc[h] \in {"acquire", "publish"},
         pc'[h] = "install", NEW a \in Addresses
  PROVE  /\ <<h, Cap>> \notin Pins(a)
         /\ op'[h].entry = a => Pins(a)' = Pins(a) \cup {<<h, Cap>>}
         /\ op'[h].entry # a => Pins(a)' = Pins(a)
<1>1. <<h, Cap>> \notin Pins(a) /\ (<<h, Cap>> \in Pins(a)' <=> op'[h].entry = a)
  BY PinsAre, PinsNext
<1>2. ASSUME NEW i \in Slots PROVE <<h, i>> \in Pins(a)' <=> <<h, i>> \in Pins(a)
  <2>1. Held(h, i)' <=> Held(h, i)
    BY DEF Held
  <2>2. <<h, i>> \in Pins(a)' <=> Held(h, i)' /\ slot'[h][i].entry = a
    BY SlotPin
  <2>3. <<h, i>> \in Pins(a) <=> Held(h, i) /\ slot[h][i].entry = a
    BY SlotPin
  <2> QED BY <2>1, <2>2, <2>3
<1>3. \A i \in 0 .. Cap : i \in Slots \/ i = Cap
  BY CacheAssumption DEF Slots
<1>p. Pins(a) \in SUBSET Places
  BY PinPairs DEF Places
<1>4. ASSUME op'[h].entry = a PROVE Pins(a)' = Pins(a) \cup {<<h, Cap>>}
  <2> DEFINE S == Pins(a) \cup {<<h, Cap>>}
  <2>1. S \in SUBSET Places
    BY <1>p, CacheAssumption DEF Places
  <2>2. \A g \in Handles, i \in 0 .. Cap : g # h => (<<g, i>> \in S <=> <<g, i>> \in Pins(a))
    OBVIOUS
  <2>3. \A i \in 0 .. Cap : <<h, i>> \in Pins(a)' <=> <<h, i>> \in S
    BY <1>1, <1>2, <1>3, <1>4, CacheAssumption DEF Slots
  <2> HIDE DEF S
  <2>4. Pins(a)' = S
    BY <2>1, <2>2, <2>3, PinsAfter
  <2> QED BY <2>4 DEF S
<1>5. ASSUME op'[h].entry # a PROVE Pins(a)' = Pins(a)
  <2>1. \A i \in 0 .. Cap : <<h, i>> \in Pins(a)' <=> <<h, i>> \in Pins(a)
    BY <1>1, <1>2, <1>3, <1>5
  <2> QED BY <2>1, PinsSame
<1> QED BY <1>1, <1>4, <1>5

LEMMA InstallPins ==
  ASSUME IInv, NEW h \in Handles, StepOf(h), Install(h), NEW a \in Addresses
  PROVE  /\ a = op[h].entry =>
              Pins(a)' = (Pins(a) \ {<<h, Cap>>}) \cup {<<h, op[h].slot>>}
              /\ <<h, Cap>> \in Pins(a) /\ <<h, op[h].slot>> \notin Pins(a) /\ a # Evicted(h)
         /\ a # op[h].entry => Pins(a)' = Pins(a) \ {<<h, op[h].slot>>}
<1>a. TypeOK
  BY DEF IInv
<1> DEFINE s == op[h].slot
<1>1. /\ pc[h] = "install" /\ pc'[h] = "idle" /\ s \in Slots /\ op[h].entry \in Addresses
      /\ slot'[h][s] = [key |-> op[h].key, entry |-> op[h].entry] /\ \A t \in Slots \ {s} : slot'[h][t] = slot[h][t]
      /\ op[h].key \in Keys /\ s \in Target(h, op[h].key) /\ Found(h, op[h].key) = {}
      /\ heap[op[h].entry].key = op[h].key
  <2>1. /\ pc[h] = "install" /\ pc' = [pc EXCEPT ![h] = "idle"] /\ s \in Slots /\ op[h].entry \in Addresses
        /\ slot' = [slot EXCEPT ![h][s] = [key |-> op[h].key, entry |-> op[h].entry]]
        /\ op[h].key \in Keys /\ s \in Target(h, op[h].key) /\ Found(h, op[h].key) = {}
        /\ heap[op[h].entry].key = op[h].key
    BY InstallMoves
  <2> QED BY <1>a, <2>1 DEF TypeOK
<1> HIDE DEF s
<1>2. <<h, Cap>> \notin Pins(a)' /\ (<<h, Cap>> \in Pins(a) <=> a = op[h].entry)
  BY <1>1, PinsAre, PinsNext
<1>3. ASSUME NEW i \in Slots, i # s PROVE <<h, i>> \in Pins(a)' <=> <<h, i>> \in Pins(a)
  <2>1. slot'[h][i] = slot[h][i] /\ (Held(h, i)' <=> Held(h, i))
    BY <1>1, <1>3 DEF Held
  <2>2. <<h, i>> \in Pins(a)' <=> Held(h, i)' /\ slot'[h][i].entry = a
    BY SlotPin
  <2>3. <<h, i>> \in Pins(a) <=> Held(h, i) /\ slot[h][i].entry = a
    BY SlotPin
  <2> QED BY <2>1, <2>2, <2>3
<1>4. <<h, s>> \in Pins(a)' <=> a = op[h].entry
  <2>1. PICK t \in Slots : t = s /\ slot'[h][t].entry = op[h].entry /\ op[h].entry # Nil
    BY <1>1, NotNil
  <2>2. Held(h, t)'
    BY <1>1, <2>1 DEF Held
  <2>3. <<h, t>> \in Pins(a)' <=> Held(h, t)' /\ slot'[h][t].entry = a
    BY SlotPin
  <2> QED BY <2>1, <2>2, <2>3
<1>5. <<h, s>> \in Pins(a) => a = Evicted(h)
  <2>1. <<h, s>> \in Pins(a) <=> Held(h, s) /\ slot[h][s].entry = a
    BY <1>1, SlotPin
  <2> QED BY <2>1 DEF Evicted, s
<1>6. a = op[h].entry => a # Evicted(h)
  <2> SUFFICES ASSUME op[h].entry = Evicted(h) PROVE FALSE
    OBVIOUS
  <2>1. slot[h][s].entry = op[h].entry
    BY DEF Evicted, s
  <2>2. Used(h, s)
    BY <1>1, <2>1, NotNil DEF IInv, SlotsPaired
  <2>3. heap[slot[h][s].entry].key = slot[h][s].key
    BY <1>1, <2>2, SlotChunk
  <2>4. s \in Reached(h, op[h].key)
    BY <1>a, <1>1, TargetReached
  <2> QED BY <1>1, <2>1, <2>3, <2>4, FoundIs
<1>7. \A i \in 0 .. Cap : i \in Slots \/ i = Cap
  BY CacheAssumption DEF Slots
<1>8. Cap \notin Slots /\ {<<h, Cap>>} \in SUBSET Places /\ {<<h, s>>} \in SUBSET Places /\ {} \in SUBSET Places
  BY <1>1, CacheAssumption DEF Places, Slots
<1>p. Pins(a) \in SUBSET Places
  BY PinPairs DEF Places
<1>9. ASSUME a = op[h].entry PROVE Pins(a)' = (Pins(a) \ {<<h, Cap>>}) \cup {<<h, s>>}
  <2> DEFINE S == (Pins(a) \ {<<h, Cap>>}) \cup {<<h, s>>}
  <2>1. S \in SUBSET Places
    BY <1>p, <1>8
  <2>2. \A g \in Handles, i \in 0 .. Cap : g # h => (<<g, i>> \in S <=> <<g, i>> \in Pins(a))
    OBVIOUS
  <2>3. \A i \in 0 .. Cap : <<h, i>> \in Pins(a)' <=> <<h, i>> \in S
    BY <1>1, <1>2, <1>3, <1>4, <1>7, <1>8, <1>9
  <2> HIDE DEF S
  <2>4. Pins(a)' = S
    BY <1>a, <2>1, <2>2, <2>3, PinsAfter
  <2> QED BY <2>4 DEF S
<1>10. ASSUME a # op[h].entry PROVE Pins(a)' = Pins(a) \ {<<h, s>>}
  <2> DEFINE S == Pins(a) \ {<<h, s>>}
  <2>1. S \in SUBSET Places
    BY <1>p
  <2>2. \A g \in Handles, i \in 0 .. Cap : g # h => (<<g, i>> \in S <=> <<g, i>> \in Pins(a))
    OBVIOUS
  <2>3. \A i \in 0 .. Cap : <<h, i>> \in Pins(a)' <=> <<h, i>> \in S
    BY <1>1, <1>2, <1>3, <1>4, <1>7, <1>8, <1>10
  <2> HIDE DEF S
  <2>4. Pins(a)' = S
    BY <1>a, <2>1, <2>2, <2>3, PinsAfter
  <2> QED BY <2>4 DEF S
<1> QED BY <1>2, <1>5, <1>6, <1>9, <1>10 DEF s

LEMMA ClosePins ==
  ASSUME IInv, NEW h \in Handles, StepOf(h), CloseSlot(h), NEW a \in Addresses
  PROVE  Pins(a)' = Pins(a) \ {<<h, op[h].slot>>}
<1>a. TypeOK
  BY DEF IInv
<1> DEFINE s == op[h].slot
<1>1. pc[h] = "closing" /\ pc' = pc /\ s \in Slots /\ op'[h].slot = s + 1 /\ slot' = slot
  BY <1>a, CloseMoves
<1> HIDE DEF s
<1>2. ASSUME NEW i \in Slots PROVE <<h, i>> \in Pins(a)' <=> <<h, i>> \in Pins(a) /\ i # s
  <2>1. Held(h, i)' <=> Held(h, i) /\ i # s
    BY <1>1, CacheAssumption DEF Held, Slots, s
  <2>2. <<h, i>> \in Pins(a)' <=> Held(h, i)' /\ slot'[h][i].entry = a
    BY SlotPin
  <2>3. <<h, i>> \in Pins(a) <=> Held(h, i) /\ slot[h][i].entry = a
    BY SlotPin
  <2> QED BY <1>1, <2>1, <2>2, <2>3
<1>3. <<h, Cap>> \notin Pins(a)' /\ <<h, Cap>> \notin Pins(a)
  BY <1>1, PinsAre, PinsNext
<1>4. \A i \in 0 .. Cap : i \in Slots \/ i = Cap
  BY CacheAssumption DEF Slots
<1>p. Pins(a) \in SUBSET Places
  BY PinPairs DEF Places
<1> DEFINE S == Pins(a) \ {<<h, s>>}
<1>5. S \in SUBSET Places
  BY <1>p
<1>6. \A i \in 0 .. Cap : <<h, i>> \in Pins(a)' <=> <<h, i>> \in S
  BY <1>2, <1>3, <1>4
<1>7. \A g \in Handles, i \in 0 .. Cap : g # h => (<<g, i>> \in S <=> <<g, i>> \in Pins(a))
  OBVIOUS
<1> HIDE DEF S
<1>8. Pins(a)' = S
  BY <1>a, <1>5, <1>6, <1>7, PinsAfter
<1> QED BY <1>8 DEF s, S
-----------------------------------------------------------------------------
(* The references of each chunk after a step. *)
RefsOf(a) == heap[a].refs = Cardinality(Pins(a)) /\ heap[a].refs > 0

LEMMA HeapFrame ==
  ASSUME NEW h \in Handles, StepOf(h),
         ~AcquireHit(h), ~Load(h), ~Publish(h), ~Install(h), ~CloseSlot(h)
  PROVE  heap' = heap
<1> USE DEF handle, seen, bounds
<1>1. CASE ZarrU8_open(h) \/ ZarrU8_close(h) \/ \E src \in Handles : ZarrU8_clone(h, src)
  BY <1>1 DEF ZarrU8_open, ZarrU8_close, ZarrU8_clone
<1>2. CASE \E k \in Keys : Read(h, k)
  BY <1>2 DEF Read, ReadLast, ReadSlot, Miss
<1>3. CASE LoadFails(h) \/ CloseFamily(h)
  BY <1>3 DEF LoadFails, CloseFamily
<1> QED BY <1>1, <1>2, <1>3 DEF StepOf, Inside

LEMMA UnlistedUnpinned ==
  ASSUME IInv, NEW a \in Addresses, ~Listed(a)
  PROVE  Pins(a) = {}
<1> SUFFICES ASSUME NEW p \in Pins(a) PROVE FALSE
  OBVIOUS
<1>1. PICK g \in Handles, i \in 0 .. Cap : p = <<g, i>>
  BY PinPairs
<1>2. CASE i \in Slots
  <2>1. Held(g, i) /\ slot[g][i].entry = a
    BY <1>1, <1>2, SlotPin
  <2> QED BY <1>2, <2>1 DEF IInv, PinsLive
<1>3. CASE i = Cap
  <2>1. pc[g] = "install" /\ op[g].entry = a
    BY <1>1, <1>3, PinsAre
  <2> QED BY <2>1 DEF IInv, PinsLive
<1> QED BY <1>2, <1>3, CacheAssumption DEF Slots

LEMMA RefsWere ==
  ASSUME IInv, NEW a \in Addresses, Listed(a)
  PROVE  /\ RefsOf(a) /\ IsFiniteSet(Pins(a)) /\ Cardinality(Pins(a)) \in Nat
         /\ heap[a] \in Chunk /\ heap[a].refs \in Nat
<1>1. RefsOf(a)
  BY DEF IInv, RefsArePins, RefsOf
<1>2. heap[a] \in Chunk
  BY DEF IInv, TypeOK, Listed
<1> QED BY <1>1, <1>2, PinPairs DEF Chunk

LEMMA HitRefsAre ==
  ASSUME IInv, NEW h \in Handles, StepOf(h), AcquireHit(h), NEW a \in Addresses, heap'[a] # Free, heap'[a].listed
  PROVE  heap'[a].refs = Cardinality(Pins(a)') /\ heap'[a].refs > 0
<1>a. TypeOK
  BY DEF IInv
<1>1. PICK b \in Published(op[h].key) : /\ heap' = [heap EXCEPT ![b].refs = heap[b].refs + 1]
                                        /\ op' = [op EXCEPT ![h].entry = b]
  BY DEF AcquireHit, HitRefs
<1>2. b \in Addresses /\ Listed(b) /\ op'[h].entry = b
  BY <1>a, <1>1 DEF Published, TypeOK
<1>3. pc[h] = "acquire" /\ pc'[h] = "install" /\ slot' = slot
  BY <1>a DEF AcquireHit, Goto, TypeOK, handle
<1>4. CASE a = b
  <2>1. Pins(a)' = Pins(a) \cup {<<h, Cap>>} /\ <<h, Cap>> \notin Pins(a)
    BY <1>a, <1>2, <1>3, <1>4, TakesPin
  <2>2. heap[a].refs = Cardinality(Pins(a)) /\ IsFiniteSet(Pins(a)) /\ heap[a] \in Chunk /\ heap[a].refs \in Nat
    BY <1>2, <1>4, RefsWere DEF RefsOf
  <2>3. heap'[a].refs = heap[a].refs + 1
    BY <1>a, <1>1, <1>2, <1>4, <2>2 DEF TypeOK, Chunk
  <2>4. Cardinality(Pins(a) \cup {<<h, Cap>>}) = Cardinality(Pins(a)) + 1
    BY <2>1, <2>2, FS_AddElement
  <2> QED BY <2>1, <2>2, <2>3, <2>4
<1>5. CASE a # b
  <2>1. Pins(a)' = Pins(a)
    BY <1>a, <1>2, <1>3, <1>5, TakesPin
  <2>2. heap'[a] = heap[a] /\ Listed(a)
    BY <1>a, <1>1, <1>2, <1>5 DEF TypeOK, Listed
  <2> QED BY <2>1, <2>2, RefsWere DEF RefsOf
<1> QED BY <1>4, <1>5

LEMMA PublishRefsAre ==
  ASSUME IInv, NEW h \in Handles, StepOf(h), Publish(h), NEW a \in Addresses, heap'[a] # Free, heap'[a].listed
  PROVE  heap'[a].refs = Cardinality(Pins(a)') /\ heap'[a].refs > 0
<1>a. TypeOK
  BY DEF IInv
<1>1. pc[h] = "publish" /\ pc'[h] = "install" /\ slot' = slot /\ op' = op
  <2>1. pc[h] = "publish" /\ pc' = [pc EXCEPT ![h] = "install"] /\ slot' = slot /\ op' = op
    BY PublishMoves
  <2> QED BY <1>a, <2>1 DEF TypeOK
<1>2. CASE a = op[h].entry
  <2>1. Pins(a)' = Pins(a) \cup {<<h, Cap>>}
    BY <1>a, <1>1, <1>2, TakesPin
  <2>2. ~Listed(a)
    BY <1>1, <1>2, InHandChunk DEF Listed
  <2>3. Pins(a)' = {<<h, Cap>>}
    BY <2>1, <2>2, UnlistedUnpinned
  <2>4. Cardinality({<<h, Cap>>}) = 1
    BY FS_Singleton
  <2>5. heap'[a].refs = 1
    BY <1>2, PublishLists
  <2> QED BY <2>3, <2>4, <2>5
<1>3. CASE a # op[h].entry
  <2>1. Pins(a)' = Pins(a)
    BY <1>a, <1>1, <1>3, TakesPin
  <2>2. heap'[a] = heap[a] /\ Listed(a)
    BY <1>3, PublishLists DEF Listed
  <2> QED BY <2>1, <2>2, RefsWere DEF RefsOf
<1> QED BY <1>2, <1>3

LEMMA GivenRefsAre ==
  ASSUME IInv, NEW h \in Handles, GivesBack(h), op[h].slot \in Slots, Release(Evicted(h)),
         NEW a \in Addresses, heap'[a] # Free, heap'[a].listed, Pins(a)' = Pins(a) \ {<<h, op[h].slot>>}
  PROVE  heap'[a].refs = Cardinality(Pins(a)') /\ heap'[a].refs > 0
<1>1. CASE a = Evicted(h)
  <2>1. /\ <<h, op[h].slot>> \in Pins(a) /\ Listed(a)
        /\ heap'[a] = [heap[a] EXCEPT !.refs = @ - 1] /\ heap[a].refs - 1 \in Nat \ {0}
    <3>1. Evicted(h) # Nil
      BY <1>1, NotNil
    <3>2. ~LastPin(heap[a].refs)
      BY <1>1, <3>1, Releases DEF FreedBy
    <3> QED BY <1>1, <3>1, <3>2, Releases, GivenBack
  <2>2. heap[a].refs = Cardinality(Pins(a)) /\ IsFiniteSet(Pins(a)) /\ heap[a] \in Chunk /\ heap[a].refs \in Nat
    BY <2>1, RefsWere DEF RefsOf
  <2>3. heap'[a].refs = heap[a].refs - 1
    BY <2>1, <2>2 DEF Chunk
  <2>4. Cardinality(Pins(a) \ {<<h, op[h].slot>>}) = Cardinality(Pins(a)) - 1
    <3> DEFINE P == Pins(a)
               x == <<h, op[h].slot>>
    <3>1. x \in P /\ IsFiniteSet(P)
      BY <2>1, <2>2
    <3> HIDE DEF P, x
    <3>2. Cardinality(P \ {x}) = Cardinality(P) - 1
      BY <3>1, FS_RemoveElement
    <3> QED BY <3>2 DEF P, x
  <2> QED BY <2>1, <2>2, <2>3, <2>4
<1>2. CASE a # Evicted(h)
  <2>1. heap'[a] = heap[a]
    BY <1>2, Releases
  <2>2. <<h, op[h].slot>> \notin Pins(a)
    BY <1>2, SlotPin DEF Evicted
  <2>3. Pins(a)' = Pins(a) /\ Listed(a)
    BY <2>1, <2>2 DEF Listed
  <2> QED BY <2>1, <2>3, RefsWere DEF RefsOf
<1> QED BY <1>1, <1>2

LEMMA NextRefs ==
  ASSUME IInv, NEW h \in Handles, StepOf(h)
  PROVE  RefsArePins'
<1>a. TypeOK
  BY DEF IInv
<1> SUFFICES ASSUME NEW a \in Addresses, heap'[a] # Free, heap'[a].listed
             PROVE  heap'[a].refs = Cardinality(Pins(a)') /\ heap'[a].refs > 0
  BY DEF RefsArePins, Listed
<1>1. CASE AcquireHit(h)
  BY <1>1, HitRefsAre
<1>2. CASE Publish(h)
  BY <1>2, PublishRefsAre
<1>3. CASE Install(h)
  <2>1. GivesBack(h) /\ Release(Evicted(h)) /\ op[h].slot \in Slots
    BY <1>3, InstallReleases, InstallMoves
  <2>2. CASE a # op[h].entry
    BY <1>3, <2>1, <2>2, InstallPins, GivenRefsAre
  <2>3. CASE a = op[h].entry
    <3> DEFINE P == Pins(a)
               x == <<h, Cap>>
               y == <<h, op[h].slot>>
    <3>1. Pins(a)' = (P \ {x}) \cup {y} /\ x \in P /\ y \notin P /\ a # Evicted(h)
      BY <1>3, <2>3, InstallPins
    <3>2. heap'[a] = heap[a] /\ Listed(a)
      BY <2>1, <3>1, Releases DEF Listed
    <3>3. heap[a].refs = Cardinality(P) /\ heap[a].refs > 0 /\ IsFiniteSet(P)
      BY <3>2, RefsWere DEF RefsOf
    <3> HIDE DEF P, x, y
    <3>4. IsFiniteSet(P \ {x}) /\ Cardinality(P \ {x}) = Cardinality(P) - 1
      BY <3>1, <3>3, FS_RemoveElement
    <3>5. Cardinality((P \ {x}) \cup {y}) = Cardinality(P \ {x}) + 1
      BY <3>1, <3>4, FS_AddElement
    <3>6. Cardinality(P) \in Nat
      BY <3>3, FS_CardinalityType
    <3> QED BY <3>1, <3>2, <3>3, <3>4, <3>5, <3>6
  <2> QED BY <2>2, <2>3
<1>4. CASE CloseSlot(h)
  <2>1. GivesBack(h) /\ Release(Evicted(h)) /\ op[h].slot \in Slots
    BY <1>a, <1>4, CloseReleases, CloseMoves
  <2> QED BY <1>4, <2>1, ClosePins, GivenRefsAre
<1>5. CASE ~AcquireHit(h) /\ ~Publish(h) /\ ~Install(h) /\ ~CloseSlot(h)
  <2>1. Pins(a)' = Pins(a)
    BY <1>5, PinsStay
  <2>2. heap'[a] = heap[a]
    <3>1. CASE Load(h)
      BY <3>1, LoadLoads DEF LoadedBy
    <3>2. CASE ~Load(h)
      BY <1>5, <3>2, HeapFrame
    <3> QED BY <3>1, <3>2
  <2>3. Listed(a)
    BY <2>2 DEF Listed
  <2> QED BY <2>1, <2>2, <2>3, RefsWere DEF RefsOf
<1> QED BY <1>1, <1>2, <1>3, <1>4, <1>5
-----------------------------------------------------------------------------
(* The statistics.  In every state of the invariant the chunks fit and      *)
(* there is none when no handle is open; by PTL so in the next one.         *)
Room ==
  /\ IsFiniteSet(Lists) /\ Cardinality(Lists) \in Nat
  /\ Cardinality(Lists) <= (Cap + 1) * Cardinality(Handles)
  /\ Open = {} => Chunks = {} /\ Lists = {} /\ Buffers = {}

LEMMA Times ==
  ASSUME NEW c \in Nat, NEW m \in Nat, NEW n \in Nat, NEW b \in Nat, m <= n, b <= n
  PROVE  c * m + b <= (c + 1) * n
<1>1. PICK d \in Nat : n = m + d
  <2>1. n - m \in Nat /\ n = m + (n - m)
    OBVIOUS
  <2> QED BY <2>1
<1>2. c * n = c * m + c * d /\ c * d \in Nat /\ c * m \in Nat /\ c * n \in Nat
  BY <1>1
<1>3. (c + 1) * n = c * n + n
  OBVIOUS
<1> QED BY <1>2, <1>3

LEMMA RoomNow ==
  ASSUME TypeOK, InHand, Unlisted, RefsArePins
  PROVE  Room
<1> DEFINE Busy == {h \in Handles : pc[h] \in {"publish", "install"}}
           o == Cardinality(Open)
           b == Cardinality(Busy)
           n == Cardinality(Handles)
<1>1. /\ IsFiniteSet(Lists) /\ Cardinality(Lists) \in Nat /\ Cardinality(Lists) <= Cardinality(Chunks)
      /\ IsFiniteSet(Chunks) /\ Cardinality(Chunks) \in Nat /\ Cardinality(Chunks) <= Cap * o + b
      /\ Lists \subseteq Chunks /\ Buffers \subseteq Chunks
  BY ListsFit, ChunksFit DEF Lists, Buffers, Chunks, Listed
<1>2. o \in Nat /\ b \in Nat /\ n \in Nat /\ o <= n /\ b <= n
  <2>1. Open \in SUBSET Handles /\ Busy \in SUBSET Handles
    BY DEF Open
  <2> HIDE DEF Busy
  <2>2. IsFiniteSet(Handles) /\ Cardinality(Handles) \in Nat
    BY CacheAssumption, FS_CardinalityType
  <2>3. Cardinality(Open) <= Cardinality(Handles) /\ Cardinality(Busy) <= Cardinality(Handles)
    BY <2>1, <2>2, FS_Subset
  <2> QED BY <2>1, <2>2, <2>3, FiniteHandles
<1>3. Open = {} => o = 0 /\ b = 0
  <2>1. Open = {} => Busy = {}
    BY DEF Open
  <2> QED BY <2>1, FS_EmptySet
<1> HIDE DEF o, b, n
<1>4. Cardinality(Lists) <= (Cap + 1) * n
  <2>1. Cap * o + b <= (Cap + 1) * n
    BY <1>2, Times, CacheAssumption
  <2>2. Cap * o + b \in Int /\ (Cap + 1) * n \in Int
    BY <1>2, CacheAssumption
  <2> QED BY <1>1, <2>1, <2>2
<1>5. Open = {} => Chunks = {}
  <2> SUFFICES ASSUME Open = {} PROVE Chunks = {}
    OBVIOUS
  <2>1. Cap * 0 = 0
    BY CacheAssumption
  <2>2. Cardinality(Chunks) = 0
    BY <1>1, <1>3, <2>1
  <2> QED BY <1>1, <2>2, FS_EmptySet
<1> QED BY <1>1, <1>4, <1>5 DEF Room, n

LEMMA RoomNext ==
  ASSUME TypeOK', InHand', Unlisted', RefsArePins'
  PROVE  Room'
BY RoomNow, PTL

(* The steps that leave the statistics as they were. *)
LEMMA CountsFrame ==
  ASSUME IInv, NEW h \in Handles, StepOf(h), ~ZarrU8_open(h), ~CloseFamily(h), ~Publish(h), ~Install(h), ~CloseSlot(h),
         \A src \in Handles : ~ZarrU8_clone(h, src)
  PROVE  /\ stats' = stats /\ family' = family
         /\ \A a \in Addresses : heap'[a] = heap[a]
                                 \/ (Listed(a) /\ heap'[a] # Free /\ heap'[a].listed /\ heap'[a].data = heap[a].data)
                                 \/ (~Listed(a) /\ heap'[a] # Free /\ ~heap'[a].listed)
<1>1. stats' = stats /\ family' = family
  <2>1. CASE ZarrU8_close(h) \/ \E k \in Keys : Read(h, k)
    BY <2>1 DEF ZarrU8_close, Read, ReadLast, ReadSlot, Miss
  <2>2. CASE AcquireHit(h) \/ Load(h) \/ LoadFails(h)
    BY <2>2 DEF AcquireHit, Load, LoadFails
  <2> QED BY <2>1, <2>2 DEF StepOf, Inside
<1>2. ASSUME NEW a \in Addresses
      PROVE  heap'[a] = heap[a]
             \/ (Listed(a) /\ heap'[a] # Free /\ heap'[a].listed /\ heap'[a].data = heap[a].data)
             \/ (~Listed(a) /\ heap'[a] # Free /\ ~heap'[a].listed)
  <2>1. ~PublishedBy(h, a)
    BY LoaderFrame, LoadMoves DEF PublishedBy, IInv
  <2>2. ~FreedBy(h, a)
    <3>1. pc[h] # "install" /\ pc[h] # "closing"
      BY FromPlace DEF IInv
    <3> QED BY <3>1 DEF FreedBy, GivesBack
  <2>3. CASE Stays(a)
    BY <2>3 DEF Stays
  <2>4. CASE Repinned(a)
    BY <2>4, CacheAssumption DEF Repinned
  <2>5. CASE LoadedBy(h, a)
    BY <2>5, CacheAssumption DEF LoadedBy, Chunks, Listed
  <2> QED BY <2>1, <2>2, <2>3, <2>4, <2>5, HeapStep
<1> QED BY <1>1, <1>2

LEMMA OpenFrame ==
  ASSUME TypeOK, NEW h \in Handles, StepOf(h)
  PROVE  /\ ZarrU8_open(h) \/ (\E src \in Handles : ZarrU8_clone(h, src)) => Open' = Open \cup {h} /\ h \notin Open
         /\ CloseFamily(h) => Open' = Open \ {h} /\ h \in Open
         /\ ~ZarrU8_open(h) /\ ~CloseFamily(h) /\ (\A src \in Handles : ~ZarrU8_clone(h, src)) => Open' = Open
<1> USE DEF TypeOK, Goto, handle, seen, bounds
<1>1. \A g \in Handles \ {h} : pc'[g] = pc[g]
  BY OthersStay
<1>2. ASSUME ZarrU8_open(h) \/ (\E src \in Handles : ZarrU8_clone(h, src)) PROVE Open' = Open \cup {h} /\ h \notin Open
  <2>1. pc[h] = "closed" /\ pc'[h] = "idle"
    BY <1>2 DEF ZarrU8_open, ZarrU8_clone
  <2> QED BY <1>1, <2>1 DEF Open
<1>3. ASSUME CloseFamily(h) PROVE Open' = Open \ {h} /\ h \in Open
  <2>1. pc[h] = "closing" /\ pc'[h] = "closed"
    BY <1>3, FamilyMoves
  <2> QED BY <1>1, <2>1 DEF Open
<1>4. ASSUME ~ZarrU8_open(h), ~CloseFamily(h), \A src \in Handles : ~ZarrU8_clone(h, src) PROVE Open' = Open
  <2>1. pc[h] # "closed" /\ pc'[h] # "closed"
    <3>1. CASE ZarrU8_close(h) \/ \E k \in Keys : Read(h, k)
      BY <3>1 DEF ZarrU8_close, Read, ReadLast, ReadSlot, Miss
    <3>2. CASE AcquireHit(h) \/ Load(h) \/ LoadFails(h) \/ Publish(h)
      BY <3>2 DEF AcquireHit, Load, LoadFails, Publish
    <3>3. CASE Install(h) \/ CloseSlot(h)
      BY <3>3 DEF Install, CloseSlot
    <3> QED BY <1>4, <3>1, <3>2, <3>3 DEF StepOf, Inside
  <2> QED BY <1>1, <2>1 DEF Open
<1> QED BY <1>2, <1>3, <1>4

LEMMA NextStatistics ==
  ASSUME IInv, NEW h \in Handles, StepOf(h), TypeOK', InHand', Unlisted', RefsArePins'
  PROVE  Statistics'
<1>a. TypeOK /\ Statistics
  BY DEF IInv
<1>r. Room /\ Room'
  BY RoomNow, RoomNext DEF IInv
<1>s. /\ stats.handles = Cardinality(Open) /\ (family <=> Open # {})
      /\ stats.chunks = Cardinality(Lists) /\ stats.bytes = Cardinality(Buffers)
      /\ stats.peak_chunks <= (Cap + 1) * Cardinality(Handles)
      /\ stats.peak_chunks \in Nat /\ stats.handles \in Nat
  BY <1>a DEF Statistics, TypeOK
<1>o. IsFiniteSet(Open) /\ Cardinality(Open) \in Nat
  BY FiniteHandles DEF Open
<1>b. 0 <= (Cap + 1) * Cardinality(Handles)
  <2>1. Cardinality(Handles) \in Nat
    BY CacheAssumption, FS_CardinalityType
  <2> QED BY <2>1, CacheAssumption
<1> SUFFICES /\ stats'.handles = Cardinality(Open') /\ (family' <=> Open' # {})
             /\ stats'.chunks = Cardinality(Lists')
             /\ stats'.bytes = Cardinality(Buffers')
             /\ stats'.peak_chunks <= (Cap + 1) * Cardinality(Handles)
  BY DEF Statistics
<1>l. ASSUME \A a \in Addresses : heap'[a] = heap[a]
                \/ (Listed(a) /\ heap'[a] # Free /\ heap'[a].listed /\ heap'[a].data = heap[a].data)
                \/ (~Listed(a) /\ heap'[a] # Free /\ ~heap'[a].listed)
      PROVE  Lists' = Lists /\ Buffers' = Buffers
  <2>1. \A a \in Addresses : (Listed(a)' <=> Listed(a)) /\ (Listed(a) => heap'[a].data = heap[a].data)
    BY <1>l DEF Listed
  <2> QED BY <2>1 DEF Lists, Buffers
<1>1. CASE ZarrU8_open(h)
  <2>1. ~family /\ family' = TRUE /\ stats' = [NoStats EXCEPT !.handles = 1] /\ heap' = heap
    BY <1>1 DEF ZarrU8_open
  <2>2. Open = {} /\ Open' = {h}
    BY <1>1, <1>a, <1>s, <2>1, OpenFrame
  <2>3. Lists = {} /\ Buffers = {} /\ Lists' = Lists /\ Buffers' = Buffers
    BY <1>r, <1>l, <2>1, <2>2 DEF Room
  <2>4. Cardinality({h}) = 1 /\ Cardinality(Lists) = 0 /\ Cardinality(Buffers) = 0
    <3>1. Cardinality({h}) = 1
      BY FS_Singleton
    <3>2. Cardinality(Lists) = 0 /\ Cardinality(Buffers) = 0
      BY <2>3, FS_EmptySet
    <3> QED BY <3>1, <3>2
  <2>5. stats'.handles = 1 /\ stats'.chunks = 0 /\ stats'.bytes = 0 /\ stats'.peak_chunks = 0
    BY <2>1 DEF NoStats
  <2> QED BY <1>b, <2>1, <2>2, <2>3, <2>4, <2>5
<1>2. CASE \E src \in Handles : ZarrU8_clone(h, src)
  <2>1. PICK src \in Handles : ZarrU8_clone(h, src)
    BY <1>2
  <2>2. /\ stats' = [stats EXCEPT !.handles = stats.handles + 1] /\ heap' = heap /\ family' = family
        /\ src \in Open
    BY <2>1 DEF ZarrU8_clone, Cloned, Open
  <2>3. Open' = Open \cup {h} /\ h \notin Open
    BY <1>a, <1>2, OpenFrame
  <2>4. Cardinality(Open') = Cardinality(Open) + 1
    BY <1>o, <2>3, FS_AddElement
  <2>5. /\ stats'.handles = stats.handles + 1 /\ stats'.chunks = stats.chunks /\ stats'.bytes = stats.bytes
        /\ stats'.peak_chunks = stats.peak_chunks
    BY <1>a, <2>2 DEF TypeOK
  <2>6. Lists' = Lists /\ Buffers' = Buffers
    BY <1>l, <2>2
  <2> QED BY <1>s, <2>2, <2>3, <2>4, <2>5, <2>6
<1>3. CASE CloseFamily(h)
  <2>1. heap' = heap /\ Open' = Open \ {h} /\ h \in Open
    BY <1>3, <1>a, FamilyMoves, OpenFrame
  <2>2. Cardinality(Open') = Cardinality(Open) - 1 /\ IsFiniteSet(Open')
    BY <1>o, <2>1, FS_RemoveElement
  <2>3. Lists' = Lists /\ Buffers' = Buffers
    BY <1>l, <2>1
  <2>4. CASE stats.handles = 1
    <3>1. family' = FALSE /\ stats' = NoStats
      BY <1>3, <2>4 DEF CloseFamily
    <3>2. Open' = {}
      BY <1>s, <2>2, <2>4, FS_EmptySet
    <3>3. Lists' = {} /\ Buffers' = {}
      BY <1>r, <3>2 DEF Room
    <3>4. Cardinality(Lists') = 0 /\ Cardinality(Buffers') = 0 /\ Cardinality(Open') = 0
      BY <3>2, <3>3, FS_EmptySet
    <3>5. stats'.handles = 0 /\ stats'.chunks = 0 /\ stats'.bytes = 0 /\ stats'.peak_chunks = 0
      BY <3>1 DEF NoStats
    <3> QED BY <1>b, <3>1, <3>2, <3>4, <3>5
  <2>5. CASE stats.handles # 1
    <3>1. family' = family /\ stats' = [stats EXCEPT !.handles = stats.handles - 1]
      BY <1>3, <2>5 DEF CloseFamily
    <3>2. /\ stats'.handles = stats.handles - 1 /\ stats'.chunks = stats.chunks /\ stats'.bytes = stats.bytes
          /\ stats'.peak_chunks = stats.peak_chunks
      BY <1>a, <3>1 DEF TypeOK
    <3>3. Cardinality(Open') # 0
      BY <1>s, <2>2, <2>5
    <3>4. Open' # {} /\ Open # {}
      BY <2>1, <3>3, FS_EmptySet
    <3> QED BY <1>s, <2>2, <2>3, <3>1, <3>2, <3>4
  <2> QED BY <2>4, <2>5
<1>n. ASSUME ~ZarrU8_open(h), ~CloseFamily(h), \A src \in Handles : ~ZarrU8_clone(h, src)
      PROVE  Open' = Open
  BY <1>n, <1>a, OpenFrame
<1>x. ASSUME Publish(h) \/ Install(h) \/ CloseSlot(h)
      PROVE  Open' = Open /\ family' = family
  <2>1. pc[h] \in {"publish", "install", "closing"}
    BY <1>x, Zenon DEF Publish, Install, CloseSlot
  <2>2. pc'[h] # "closed"
    BY <1>a, <1>x DEF Publish, Install, CloseSlot, Goto, TypeOK
  <2>3. \A g \in Handles \ {h} : pc'[g] = pc[g]
    BY <1>a, OthersStay
  <2>4. family' = family
    BY <1>x, Zenon DEF Publish, Install, CloseSlot
  <2> QED BY <2>1, <2>2, <2>3, <2>4 DEF Open
<1>4. CASE Publish(h)
  <2> DEFINE e == op[h].entry
  <2>1. /\ e \in Addresses /\ heap'[e].listed /\ heap'[e] \in Chunk /\ heap'[e].data = heap[e].data
        /\ \A a \in Addresses \ {e} : heap'[a] = heap[a]
    BY <1>4, PublishLists
  <2>2. ~Listed(e)
    BY <1>4, InHandChunk DEF Publish, Listed
  <2>3. stats' = Counted(stats, stats.chunks + 1, stats.bytes + (IF heap[e].data THEN 1 ELSE 0))
    BY <1>4 DEF Publish
  <2> HIDE DEF e
  <2>4. heap'[e] # Free
    BY <2>1, CacheAssumption
  <2>5. Lists' = Lists \cup {e} /\ e \notin Lists
    BY <2>1, <2>2, <2>4 DEF Lists, Listed
  <2>6. Buffers' = (IF heap[e].data THEN Buffers \cup {e} ELSE Buffers) /\ e \notin Buffers
    BY <2>1, <2>2, <2>4 DEF Buffers, Listed
  <2>7. IsFiniteSet(Lists) /\ IsFiniteSet(Buffers) /\ Cardinality(Lists) \in Nat /\ Cardinality(Buffers) \in Nat
    BY ListsFit DEF IInv
  <2>8. Cardinality(Lists') = stats.chunks + 1
    <3>1. Cardinality(Lists \cup {e}) = Cardinality(Lists) + 1
      BY <2>5, <2>7, FS_AddElement
    <3> QED BY <1>s, <2>5, <3>1
  <2>9. Cardinality(Buffers') = stats.bytes + (IF heap[e].data THEN 1 ELSE 0)
    <3>1. Cardinality(Buffers \cup {e}) = Cardinality(Buffers) + 1
      BY <2>6, <2>7, FS_AddElement
    <3>2. CASE heap[e].data
      BY <1>s, <2>6, <3>1, <3>2
    <3>3. CASE ~heap[e].data
      BY <1>s, <2>6, <2>7, <3>3
    <3> QED BY <3>2, <3>3
  <2>10. Cardinality(Lists') <= (Cap + 1) * Cardinality(Handles)
    BY <1>r DEF Room
  <2> DEFINE n == stats.chunks + 1
             m == stats.bytes + (IF heap[e].data THEN 1 ELSE 0)
  <2>11. stats' = Counted(stats, n, m)
    BY <2>3
  <2> HIDE DEF n, m
  <2>12. /\ stats'.handles = stats.handles /\ stats'.chunks = n /\ stats'.bytes = m
         /\ stats'.peak_chunks = Larger(stats.peak_chunks, n)
    BY <1>a, <2>11 DEF Counted, TypeOK
  <2>13. stats'.peak_chunks <= (Cap + 1) * Cardinality(Handles)
    BY <1>s, <2>8, <2>10, <2>12 DEF Larger, n
  <2> QED BY <1>4, <1>x, <1>s, <2>8, <2>9, <2>12, <2>13 DEF n, m
<1>5. CASE Install(h) \/ CloseSlot(h)
  <2>1. GivesBack(h) /\ Release(Evicted(h))
    BY <1>5, InstallReleases, CloseReleases
  <2>2. /\ stats'.handles = stats.handles /\ stats'.peak_chunks = stats.peak_chunks
        /\ stats'.chunks = Cardinality(Lists') /\ stats'.bytes = Cardinality(Buffers')
    BY <2>1, ReleaseStats
  <2> QED BY <1>5, <1>x, <1>s, <2>2
<1>6. CASE ~ZarrU8_open(h) /\ ~CloseFamily(h) /\ ~Publish(h) /\ ~Install(h) /\ ~CloseSlot(h)
           /\ \A src \in Handles : ~ZarrU8_clone(h, src)
  <2>1. Lists' = Lists /\ Buffers' = Buffers /\ stats' = stats /\ family' = family
    BY <1>6, <1>l, CountsFrame
  <2>2. Open' = Open
    BY <1>6, <1>n
  <2> QED BY <1>s, <2>1, <2>2
<1> QED BY <1>1, <1>2, <1>3, <1>4, <1>5, <1>6
-----------------------------------------------------------------------------
LEMMA InitIInv == Init => IInv
<1> SUFFICES ASSUME Init PROVE IInv
  OBVIOUS
<1>1. Chunks = {} /\ Lists = {} /\ Buffers = {} /\ Open = {}
  BY DEF Init, Chunks, Lists, Buffers, Listed, Open
<1>2. Cardinality(Lists) = 0 /\ Cardinality(Buffers) = 0 /\ Cardinality(Open) = 0
  BY <1>1, FS_EmptySet
<1>3. TypeOK
  <2>1. /\ NoOp \in [key : Keys \cup {Nil}, slot : 0 .. Cap, entry : Addresses \cup {Nil}]
        /\ NoLast \in [key : Keys \cup {Nil}, data : Addresses \cup {Nil}]
        /\ NoAnswer \in [key : Keys \cup {Nil}, value : Keys \cup {Fill}]
        /\ EmptyTable \in [Slots -> [key : Keys \cup {Nil}, entry : Addresses \cup {Nil}]]
        /\ NoStats \in [handles : Nat, chunks : Nat, peak_chunks : Nat, bytes : Nat, peak_bytes : Nat]
        /\ 0 \in Slots
    BY CacheAssumption DEF NoOp, NoLast, NoAnswer, EmptyTable, NoSlot, NoStats, Slots
  <2> QED BY <2>1 DEF Init, TypeOK
<1>4. LocksOwned
  BY CacheAssumption DEF Init, LocksOwned
<1>5. InHand
  BY DEF Init, InHand, Missing
<1>6. SlotsPaired /\ Unlisted /\ DataTells /\ OneChunkPerKey
  BY <1>1 DEF Init, SlotsPaired, Unlisted, DataTells, OneChunkPerKey, Used, EmptyTable, NoSlot
<1>7. RefsArePins
  BY DEF Init, RefsArePins, Listed
<1>8. PinsLive
  BY DEF Init, PinsLive, Held, EmptyTable, NoSlot, NoLast
<1>9. TableFinds
  BY DEF Init, TableFinds, Used, EmptyTable, NoSlot
<1>10. Statistics
  <2>1. Cardinality(Handles) \in Nat
    BY CacheAssumption, FS_CardinalityType
  <2>2. 0 <= (Cap + 1) * Cardinality(Handles)
    BY <2>1, CacheAssumption
  <2> QED BY <1>1, <1>2, <2>2 DEF Init, Statistics, NoStats
<1> QED BY <1>3, <1>4, <1>5, <1>6, <1>7, <1>8, <1>9, <1>10 DEF IInv

LEMMA StepIInv ==
  ASSUME IInv, NEW h \in Handles, StepOf(h)
  PROVE  IInv'
<1>1. TypeOK' /\ InHand' /\ Unlisted' /\ RefsArePins'
  BY NextType, NextInHand, NextUnlisted, NextRefs
<1>2. Statistics'
  BY <1>1, NextStatistics
<1>3. LocksOwned' /\ SlotsPaired' /\ PinsLive' /\ OneChunkPerKey' /\ DataTells' /\ TableFinds'
  BY NextLocks, NextPaired, NextPins, NextOneChunk, NextData, NextTable
<1> QED BY <1>1, <1>2, <1>3 DEF IInv

LEMMA NextIInv == IInv /\ [Next]_vars => IInv'
<1>1. ASSUME IInv, Next PROVE IInv'
  BY <1>1, StepIInv DEF Next, StepOf
<1>2. ASSUME IInv, UNCHANGED vars PROVE IInv'
  <2>1. /\ family' = family /\ stats' = stats /\ lock' = lock /\ heap' = heap
        /\ slot' = slot /\ evict' = evict /\ last' = last /\ pc' = pc /\ op' = op
        /\ answer' = answer /\ faulty' = faulty /\ misses' = misses /\ failures' = failures
    BY <1>2 DEF vars, handle, seen, bounds
  <2>2. TypeOK' /\ LocksOwned' /\ SlotsPaired' /\ Unlisted' /\ OneChunkPerKey' /\ DataTells'
    BY <1>2, <2>1 DEF IInv, TypeOK, LocksOwned, SlotsPaired, Unlisted, OneChunkPerKey, DataTells,
                      Chunks, Listed, Used, Bucket
  <2>f. ASSUME NEW g \in Handles, NEW q PROVE Found(g, q)' = Found(g, q) /\ Target(g, q)' = Target(g, q)
    BY <2>1, WalksSame DEF Target
  <2>3. InHand'
    <3> SUFFICES ASSUME NEW g \in Handles PROVE HandNext(g)
      BY HandsNext
    <3>1. Chunks' = Chunks /\ \A e : Listed(e)' <=> Listed(e)
      BY <2>1 DEF Chunks, Listed
    <3> QED BY <1>2, <2>1, <2>f, <3>1 DEF IInv, InHand, HandNext, Chunks, Missing
  <2>6. TableFinds'
    <3> SUFFICES ASSUME NEW g \in Handles, NEW s \in Slots, NEW q, slot'[g][s].key = q, q # Nil
                 PROVE  Found(g, q)' = {s}
      BY DEF TableFinds, Used, Found, Reached, Probe
    <3> QED BY <1>2, <2>1, <2>f DEF IInv, TableFinds, Used
  <2>4. RefsArePins' /\ PinsLive'
    BY <1>2, <2>1 DEF IInv, RefsArePins, PinsLive, Pins, SlotPins, CallPins, Held, Listed, DataOf
  <2>5. Statistics'
    BY <1>2, <2>1 DEF IInv, Statistics, Lists, Buffers, Listed, Open
  <2> QED BY <2>2, <2>3, <2>4, <2>5, <2>6 DEF IInv
<1> QED BY <1>1, <1>2

(* IInv is inductive: it holds at first and every step of every handle      *)
(* keeps it.                                                                *)
THEOREM Invariance == Spec => []IInv
BY InitIInv, NextIInv, PTL DEF Spec

(* The type of every variable, at any number of handles, keys and slots. *)
THEOREM TypeCorrect == Spec => []TypeOK
BY Invariance, PTL DEF IInv

(* Every published chunk's references are its pins, whatever hits, misses,  *)
(* evictions and closes are under way: it is freed at the last release and  *)
(* at no other.                                                             *)
THEOREM RefsCorrect == Spec => []RefsArePins
BY Invariance, PTL DEF IInv

(* No pointer dangles: what a table, a call or the last chunk used refers   *)
(* to is published and of the key that was asked for.                       *)
THEOREM PinsCorrect == Spec => []PinsLive
BY Invariance, PTL DEF IInv

(* Concurrent misses of a chunk load it once. *)
THEOREM LoadedOnce == Spec => []OneChunkPerKey
BY Invariance, PTL DEF IInv

(* A key is in one slot at most and the probe finds it there. *)
THEOREM TableCorrect == Spec => []TableFinds
BY Invariance, PTL DEF IInv

(* The statistics are exact, the last close finds every chunk freed, and    *)
(* the chunks fit in the tables and the misses under way.                   *)
LEMMA ExactNow == IInv => StatsExact
<1> SUFFICES ASSUME IInv PROVE StatsExact
  OBVIOUS
<1>1. TypeOK /\ InHand /\ Unlisted /\ RefsArePins /\ Statistics
  BY DEF IInv
<1>2. Cardinality(Chunks) <= Cap * Cardinality(Open)
                             + Cardinality({h \in Handles : pc[h] \in {"publish", "install"}})
  BY <1>1, ChunksFit
<1>3. ~family => Chunks = {}
  BY <1>1, RoomNow DEF Statistics, Room
<1> QED BY <1>1, <1>2, <1>3 DEF StatsExact, Statistics, Lists, Buffers

THEOREM StatsCorrect == Spec => []StatsExact
BY Invariance, ExactNow, PTL
-----------------------------------------------------------------------------
(* The cache implements the volume: a key is answered by its file's chunk,  *)
(* or by fill where a failure was met.                                      *)
LEMMA ValueOf ==
  ASSUME IInv, NEW a \in Addresses, Listed(a), NEW k \in Keys, heap[a].key = k
  PROVE  BytesAt(DataOf(a)) \in {Volume!Value(k)} \cup (IF k \in faulty THEN {Fill} ELSE {})
<1>1. a \in Chunks /\ heap[a].data \in BOOLEAN /\ a # Nil
  BY NotNil DEF IInv, TypeOK, Listed, Chunks, Chunk
<1>2. CASE heap[a].data
  <2>1. k \in Whole
    BY <1>1, <1>2 DEF IInv, DataTells
  <2>2. BytesAt(DataOf(a)) = k
    BY <1>1, <1>2 DEF BytesAt, DataOf
  <2> QED BY <2>1, <2>2 DEF Volume!Value
<1>3. CASE ~heap[a].data
  <2>1. k \in Whole => k \in faulty
    BY <1>1, <1>3 DEF IInv, DataTells
  <2>2. BytesAt(DataOf(a)) = Fill
    BY <1>3 DEF BytesAt, DataOf
  <2> QED BY <2>1, <2>2 DEF Volume!Value
<1> QED BY <1>1, <1>2, <1>3

LEMMA ReadsOne ==
  ASSUME NEW h \in Handles, NEW k \in Keys, h \in Open, Open' = Open,
         faulty' = faulty \/ faulty' = faulty \cup {k},
         NEW v \in {Volume!Value(k)} \cup (IF k \in faulty' THEN {Fill} ELSE {}),
         answer' = [answer EXCEPT ![h] = [key |-> k, value |-> v]]
  PROVE  Volume!Next
<1>1. Volume!Read(h, k)
  BY DEF Volume!Read
<1> QED BY <1>1 DEF Volume!Next

LEMMA StepImplements ==
  ASSUME IInv, NEW h \in Handles, StepOf(h)
  PROVE  Volume!Next \/ UNCHANGED <<Open, answer, faulty>>
<1>a. TypeOK
  BY DEF IInv
<1>s. ASSUME pc[h] # "closed" PROVE h \in Open
  BY <1>s DEF Open
<1>n. ASSUME ~ZarrU8_open(h), ~CloseFamily(h), \A src \in Handles : ~ZarrU8_clone(h, src)
      PROVE  Open' = Open
  BY <1>n, <1>a, OpenFrame
<1>x. ASSUME pc[h] # "closed", ~CloseFamily(h) PROVE h \in Open /\ Open' = Open
  BY <1>x, <1>s, <1>n DEF ZarrU8_open, ZarrU8_clone
<1>1. CASE ZarrU8_open(h) \/ \E src \in Handles : ZarrU8_clone(h, src)
  <2>1. Open' = Open \cup {h} /\ h \notin Open
    BY <1>1, <1>a, OpenFrame
  <2>2. answer' = answer /\ faulty' = faulty
    BY <1>1 DEF ZarrU8_open, ZarrU8_clone, seen
  <2>3. Volume!Join(h)
    BY <2>1, <2>2 DEF Volume!Join
  <2> QED BY <2>3 DEF Volume!Next
<1>2. CASE CloseFamily(h)
  <2>1. Open' = Open \ {h} /\ h \in Open
    BY <1>2, <1>a, OpenFrame
  <2>2. answer' = [answer EXCEPT ![h] = Volume!NoAnswer] /\ faulty' = faulty
    BY <1>2, FamilyMoves DEF NoAnswer, Volume!NoAnswer
  <2>3. Volume!Close(h)
    BY <2>1, <2>2 DEF Volume!Close
  <2> QED BY <2>3 DEF Volume!Next
<1>3. ASSUME NEW k \in Keys, ReadLast(h, k) PROVE Volume!Next
  <2>1. /\ pc[h] = "idle" /\ last[h].key = k /\ faulty' = faulty /\ pc' = pc
        /\ answer' = [answer EXCEPT ![h] = [key |-> k, value |-> BytesAt(last[h].data)]]
    BY <1>3 DEF ReadLast
  <2>2. PICK s \in Slots : /\ slot[h][s].key = k /\ Listed(slot[h][s].entry)
                           /\ last[h].data = DataOf(slot[h][s].entry)
    BY <2>1, NotNil DEF IInv, PinsLive
  <2>3. slot[h][s].entry \in Addresses /\ heap[slot[h][s].entry].key = k
    BY <2>1, <2>2, SlotChunk, NotNil DEF Used
  <2>4. BytesAt(last[h].data) \in {Volume!Value(k)} \cup (IF k \in faulty THEN {Fill} ELSE {})
    BY <2>2, <2>3, ValueOf
  <2>5. h \in Open /\ Open' = Open
    BY <2>1 DEF Open
  <2> QED BY <2>1, <2>4, <2>5, ReadsOne
<1>4. ASSUME NEW k \in Keys, ReadSlot(h, k) PROVE Volume!Next
  <2>1. /\ pc[h] = "idle" /\ faulty' = faulty /\ pc' = pc
    BY <1>4 DEF ReadSlot
  <2>2. PICK s \in Found(h, k) :
          answer' = [answer EXCEPT ![h] = [key |-> k, value |-> BytesAt(DataOf(slot[h][s].entry))]]
    BY <1>4 DEF ReadSlot
  <2>3. s \in Slots /\ slot[h][s].key = k
    BY WalkInTable, FoundIs
  <2>4. slot[h][s].entry \in Addresses /\ Listed(slot[h][s].entry) /\ heap[slot[h][s].entry].key = k
    BY <2>1, <2>3, SlotChunk, NotNil DEF Used
  <2>5. BytesAt(DataOf(slot[h][s].entry)) \in {Volume!Value(k)} \cup (IF k \in faulty THEN {Fill} ELSE {})
    BY <2>4, ValueOf
  <2>6. h \in Open /\ Open' = Open
    BY <2>1 DEF Open
  <2> QED BY <2>1, <2>2, <2>5, <2>6, ReadsOne
<1>5. CASE Install(h)
  <2>1. /\ pc[h] = "install" /\ op[h].key \in Keys /\ op[h].entry \in Addresses /\ faulty' = faulty
        /\ Listed(op[h].entry) /\ heap[op[h].entry].key = op[h].key
        /\ answer' = [answer EXCEPT ![h] = [key |-> op[h].key, value |-> BytesAt(DataOf(op[h].entry))]]
    BY <1>5, InstallMoves
  <2>2. PICK k \in Keys : k = op[h].key
    BY <2>1
  <2>3. BytesAt(DataOf(op[h].entry)) \in {Volume!Value(k)} \cup (IF k \in faulty THEN {Fill} ELSE {})
    BY <2>1, <2>2, ValueOf
  <2>4. h \in Open /\ Open' = Open
    <3>1. ~CloseFamily(h)
      BY <2>1, FamilyMoves
    <3> QED BY <1>x, <2>1, <3>1
  <2> QED BY <2>1, <2>2, <2>3, <2>4, ReadsOne
<1>6. CASE LoadFails(h)
  <2>1. /\ pc[h] = "acquire" /\ faulty' = faulty \cup {op[h].key}
        /\ answer' = [answer EXCEPT ![h] = [key |-> op[h].key, value |-> Fill]]
    BY <1>6 DEF LoadFails
  <2>2. PICK k \in Keys : k = op[h].key
    BY <2>1 DEF IInv, InHand, Missing
  <2>3. Fill \in {Volume!Value(k)} \cup (IF k \in faulty' THEN {Fill} ELSE {})
    BY <2>1, <2>2
  <2>4. h \in Open /\ Open' = Open
    <3>1. ~CloseFamily(h)
      BY <2>1, FamilyMoves
    <3> QED BY <1>x, <2>1, <3>1
  <2> QED BY <2>1, <2>2, <2>3, <2>4, ReadsOne
<1>7. CASE Load(h)
  <2>1. pc[h] = "acquire" /\ op[h].key \in Keys /\ answer' = answer
    BY <1>7, LoadMoves
  <2>2. faulty' = faulty \/ (faulty' = faulty \cup {op[h].key} /\ op[h].key \in Whole)
    BY <1>7 DEF Load
  <2>3. h \in Open /\ Open' = Open
    <3>1. ~CloseFamily(h)
      BY <2>1, FamilyMoves
    <3> QED BY <1>x, <2>1, <3>1
  <2>4. ASSUME faulty' = faulty \cup {op[h].key}, op[h].key \in Whole PROVE Volume!Next
    <3>1. Volume!Fail(op[h].key)
      BY <2>1, <2>3, <2>4 DEF Volume!Fail
    <3> QED BY <2>1, <3>1 DEF Volume!Next
  <2> QED BY <2>1, <2>2, <2>3, <2>4
<1>8. CASE ZarrU8_close(h) \/ AcquireHit(h) \/ Publish(h) \/ CloseSlot(h) \/ \E k \in Keys : Miss(h, k)
  <2>1. answer' = answer /\ faulty' = faulty
    BY <1>8 DEF ZarrU8_close, AcquireHit, Publish, CloseSlot, Miss, seen
  <2>2. pc[h] # "closed"
    BY <1>8, Zenon DEF ZarrU8_close, AcquireHit, Publish, CloseSlot, Miss
  <2>3. pc'[h] # "closed"
    BY <1>8, <1>a DEF ZarrU8_close, AcquireHit, Publish, CloseSlot, Miss, Goto, TypeOK
  <2>4. \A g \in Handles \ {h} : pc'[g] = pc[g]
    BY <1>a, OthersStay
  <2>5. Open' = Open
    BY <2>2, <2>3, <2>4 DEF Open
  <2> QED BY <2>1, <2>5
<1> QED BY <1>1, <1>2, <1>3, <1>4, <1>5, <1>6, <1>7, <1>8 DEF StepOf, Inside, Read

(* The cache implements ZarrVolume, where a read is answered from the       *)
(* volume: hits, misses, evictions and closes of other handles are never    *)
(* seen by a reader, nor is a failure but in the chunk it kept from being   *)
(* read.                                                                    *)
THEOREM Implements == Spec => ReadsTheVolume
<1>1. Init => Volume!Init
  BY DEF Init, Volume!Init, Open, NoAnswer, Volume!NoAnswer
<1>2. IInv /\ [Next]_vars => [Volume!Next]_<<Open, answer, faulty>>
  <2>1. ASSUME IInv, Next PROVE [Volume!Next]_<<Open, answer, faulty>>
    BY <2>1, StepImplements DEF Next, StepOf
  <2>2. ASSUME UNCHANGED vars PROVE UNCHANGED <<Open, answer, faulty>>
    BY <2>2 DEF vars, seen, Open
  <2> QED BY <2>1, <2>2
<1> QED BY <1>1, <1>2, Invariance, PTL DEF Spec, ReadsTheVolume, Volume!Spec
=============================================================================
