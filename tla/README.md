# ScrollFiesta: models, checks and proofs

ScrollFiesta turns a scanned papyrus scroll into flat sheets.  `grid_pipeline`
meshes the cubes of a grid, then either `scroll_whole` and `scroll_unroll` fit
one surface to all of them, or `sheet_assemble` cleans the cubes' meshes into
charts, relates and places them and emits a sheet.  A C API
(`include/scrollfiesta.h`) offers the same operations to a host program.

Most of the code is numerical geometry and says little a model checker can
use.  What is modelled here is the part that is hard to test: threads that
share state, caches, files that survive a killed run, calls that leave by a
jump, signals that arrive late, and the discrete algorithms the rest leans on:
the order in which cubes are registered, the whole turns the registration
gives them, and union-find.

Paths below are relative to the repository's `src/`; the configurations are in
this directory.

## 1. Inventory

| part | state it keeps | operations | hard behaviour |
|---|---|---|---|
| helper pool, `common/ves_pool.c` | one mutex, two conditions, a queue of runs on their callers' stacks, idle helpers | configure, job enter/leave, share, run | stack frames shared across threads, wake-one, unlocked reads |
| volume chunk cache, `common/zarr_u8.c`, `zarr_u8_shared.inc` | per handle a table of slots and the last chunk; per family reference-counted chunks in locked buckets and statistics | open, clone, get, get8, close | hits and releases of several threads, concurrent loads of one chunk, stale pointers, failed allocations |
| chart store and clean stage, `assemble/asm_store.c`, `asm_store_run.inc`, `tools/sheet_assemble.c` | a record per cube, a checkpoint of the placed run | exists, read, write of a record; read, write of the run | kills between two file calls, resume with other options, a source rewritten meanwhile |
| later stages of `sheet_assemble` | the run: charts, relations, layers, poses | axis, relate, layer cut, pose, clean2, place, discover, repair, audit, sheet | a sequence in one thread; repair saves `stage6_progress.asr` with the same writer |
| contact measurement, `assemble/asm_contacts.c` | a box tree, a memo of earlier walks, buffers per slot | refit, measure, replay | results merged in fixed order whatever thread made them; a memo replayed when stale |
| C API guard, `api/scrollfiesta_api.c` | one process-wide mutex, a guard per call | begin, end, every public operation | cancellation by `longjmp` out of nested calls, callbacks made with the mutex held, deadlines |
| run context, exceptions, arena, `common/run_ctx.c`, `except.c`, `arena.c` | thread-local context and frame stack, chunks of memory | push, pop, check, progress; raise; save, restore | what OpenMP workers of a call can see; a frame left behind |
| Triangle guard, `holefill/hole_fill.c` (`safe_triangulate`), `common/ves_platform.c` (hard timeout) | two jumps, a guard flag, signal handlers, the one alarm of the process | a guarded or a plain call of the library; start and cancel the program's timeout | crashes, hangs, `exit` inside a library; an alarm that rings after the call it was for |
| rest of the platform layer, `common/ves_platform.c` | a subprocess, a watched thread | run with timeout, run with CPU bound | a timeout racing an exit; a thread killed outside the function it was started for |
| cube meshes, `common/mesh_bin.c`; `tools/grid_pipeline.c` | one binary mesh per cube | write to a temporary and replace, read, inspect; skip what is done | kills, a second run over a partial grid |
| whole-scroll schedule, `whole/cube_schedule.c` | the cubes of a dump with their neighbours, the order and flood components made so far | link, take a seed, visit, re-seed | a best-first flood with marks that outlive a visit; a dump in several pieces |
| cross-seam registration, `tools/scroll_whole.c` (`pass_c`), `whole/cube_register.c` | a table of whole-turn corrections per cube, the cubes placed, put off or without a correction | solve in schedule order, retry the cubes put off, sweep until nothing changes | corrections made on corrections; a sweep that does not settle |
| polish of a re-registration, `tools/scroll_whole.c` (`run_reregister`) | the tables, a count of changes, an arena per thread | red/black half-sweeps by a team of threads | threads that write the tables others read; more threads than arenas |
| union-find, `common/union_find.c` | a forest with ranks, a count of components | find, union | a search rewrites the pointers it follows; callers size arrays by the count |
| other shared algorithms, `common/maxflow.c`, `bfs.c`, `csr.c` | arrays | flow, search | boundary cases of pure functions |
| extraction, split, hole filling, flatten, remesh, topology, the surface solves | meshes and fields in floating point | one call per cube or sheet | numerical, not modelled |

How they interact.  A tool or an API operation runs OpenMP workers over cubes
or charts.  A worker reads the volume through a handle of its own, cloned from
one family so that chunks are loaded once.  A contact measurement inside a
worker borrows helpers of the pool for the cores the workers leave idle.
Stages talk to each other through files, written to a temporary name first.

What makes each modelled part correct:

* pool: every call of `VesPool_run` is a parallel loop, whatever helpers join
  it; no helper touches a frame after its return; helpers are neither lost nor
  lent twice; no seat is left with everyone asleep; calls return;
* cache: a read answers what the volume holds; a buffer is freed at the last
  release and at no other; a chunk is loaded by one thread; memory is bounded
  by slots and misses; no call ends with a bucket locked;
* schedule: each cube is visited once, next to one already placed, nearest in
  winding phase first, and the flood components are the connected components;
* union-find: elements share a root exactly if they were united, the count is
  the number of components, trees stay low and searches end;
* registration: if the pairs of vertices tell the truth, every flood component
  ends in one winding, whatever each group was off by; every cube with pairs
  enough is corrected; a sweep that counts no change has nothing left to do;
* polish: a half-sweep has one outcome, whatever the schedule of the threads,
  and does not undo a winding that is closed;
* operation guard: a call gives back the lock, the context, the arena and the
  frame on every way out; its status says why it stopped; its outputs are
  whole or empty, save those it fills in place before its last step that may
  fail; calls return;
* Triangle guard: a guarded call ends, whatever the library does, and leaves
  neither an alarm nor a handler behind; no jump goes to a frame that is gone
  and no signal ends the process, but for the windows section 3 names;
* store: whatever was killed, resumed or run with other options before, a run
  merges the charts a run from nothing would have made; a checkpoint once
  written is never lost or torn.

## 2. Modules

| module | what it is |
|---|---|
| `VesPool` | the helper pool: one action per region under the lock and per access outside it |
| `VesPoolInv` | its inductive invariant |
| `ParallelFor` | what `VesPool_run` promises, with no pool at all |
| `VesPoolLoop` | the refinement mapping of `VesPool` to `ParallelFor` |
| `VesPoolProofs` | the proofs of the invariant, of the seats and of the refinement |
| `MCVesPool` | instances for TLC |
| `ZarrCache` | the chunk cache of a family of handles |
| `ZarrVolume` | what a family promises, with no cache at all |
| `ZarrCacheProofs` | its inductive invariant, with the proofs of the properties and of the refinement |
| `MCZarrCache` | instances for TLC |
| `AsmStore` | the clean stage, its records and the checkpoint, with kills |
| `AsmStoreProofs` | the proofs of its invariant and of its properties |
| `MCAsmStore` | instances for TLC |
| `CubeSchedule` | the links, the seed and the best-first flood |
| `CubeScheduleProofs` | its invariant with the proofs |
| `CubeRegister` | the chain, the retries and the sweeps of `pass_c`, over a finished schedule |
| `CubePolish` | the red/black polish of a re-registration, and the whole run: schedule, then one or the other |
| `CubeRegisterProofs` | the proofs of both, on top of those of the schedule |
| `MCCubeRegister` | grids, skins and corrections for TLC |
| `SfOperation` | the guard of the C API, the run context and the exceptions, under host threads |
| `SfPrograms` | the operations, each as the steps its body can take |
| `SfOperationProofs`, `MCSfOperation` | the proofs for any operations, and an instance with all of them |
| `TriangleGuard`, `TriangleGuardProofs` | the guard around the Triangle library, and its proofs |
| `UnionFind` | the forest under any sequence of searches and unions |
| `UnionFindProofs`, `MCUnionFind` | its invariant with the proofs, and an instance for TLC |

### Helper pool

Variables are the globals of `ves_pool.c` by name without the prefix (`cores`,
`started`, `idle`, `head`, `tail`, `lock`), the `VpRun` of each caller
(`run`), its arguments and `want` (`call`), where each thread is (`pc`) and
the run, slot and chunk it serves (`at`).  `jobs` is the set of callers
`vp_busy` counts.  `done` is history: the indices `fn` has returned from.

`Enter` and `Share` are the two unlocked reads of `VesPool_share`; `Borrow`
and `BorrowNone` the first region under the lock (:135-149, :142);
`CancelSeats`, `AwaitHelpers` and `Return` the last one (:151-160), cut in
three because the wait gives the lock up in the middle.  A helper does `Lock`,
`Sleep` or `TakeSeat`, then `Claim` and `FnReturns` for each chunk, then
`LeaveSeat`.  `W` in `Borrow` is whom a wake reaches, `S` the helpers
`vp_spawn` has managed to create.  `SpuriousWake` is what both condition
variables allow.

`Share` clips `want` as the code does: the last comparison is one of `size_t`
(:130), so a negative `max_helpers` asks for a helper per chunk but one
(`ExceedsAsSize`).  The model takes any integer; the one caller passes at least
1 (`asm_contacts.c`:931, 1046-1048), and the runs do the same.

Not modelled: `fn` calling `VesPool_run` itself, and n so large that
`vp_fetch_add` wraps.

### Volume chunk cache

`slot`, `evict` and `last` are a handle's table, `next_evict` and last chunk;
`heap` holds the `ZuSharedChunk`s with their buffers; `stats` and `lock` are
the family's.  A chunk's contents are its key, so a read of the wrong or of a
reused buffer is a wrong answer.  An address that is freed is used again at
once (`MCMalloc` takes the lowest).  A key stands for its own `zu_hash`: keys
equal modulo `Buckets` share a bucket and keys equal modulo `Cap` collide in
the table.

`ReadLast` is the fast path of `ZarrU8_get` and `get8`, `ReadSlot` a hit in the
handle's table.  A miss is `Miss`, then `AcquireHit`, or `Load` and `Publish`,
or `LoadFails`, then `Install`, which releases what the slot held.  `Load` and
`Publish` are two steps since the file is read with the bucket locked, and
others may wait for it.  `ZarrU8_close`, `CloseSlot` and `CloseFamily` are a
close.  `Malloc` may fail, and a present file may fail to open or be read
short; both put the key in `faulty`.

Handles are confined to a thread, as the header asks.  `ZarrU8_clone` is
called by the tests only at this commit; it is part of the interface and is
modelled as such, from a source that may be in the middle of a read.

### Chart store and clean stage

`record` and `tmp` are `<cube>.asc` and `<cube>.asc.tmp`, `checkpoint` and
`newpoint` are `stage5_state.asr` and its temporary.  A mesh is known by its
size and mtime (`source`), charts by the mesh and the options they were made
from.  Each worker has the cube it took, where it is in the loop body, and the
identity `as_stat` gave it.  `Stat` is `as_stat`: it may fail for a file that
is there, and then leaves size 0 and mtime 0 (`NoStat`), which are stored and
compared like any other.  One action is one call that reads or changes a
file: `OpenTmp`, `WriteTmp`, `RemoveOld`, `Rename`.  `Crash` may come between
any two.  `Fails` is a file call that fails; the branch after it is the code's.

`Rewrite` is `grid_pipeline` writing a cube's mesh again.  With `Concurrent`
FALSE it happens only while no process runs.

A record that a failed read reported as stale and one that was malformed both
lead to `Reclean`.  `Merge` stands for the merge of stage 1 and the stages up
to placement: these change no file the model has, and end in `Finish` when
one of them fails.

### Whole-scroll schedule

A cube is its index in the node array.  `nbr`, `elig`, `order`, `comp` and the
two inputs `r` and `w_phase` have the names of the code; the array `placed` is
the set of the cubes in `order`.  `Link` is the loop that finds the six
neighbours by binary search, `TakeSeed` the median radius or the seed the
caller forces, and each iteration of the loop over `t` is a `Visit` (the
frontier has a cube) or a `Reseed` (it has none).  The scan for the smallest
key is `Best`; ties go to the lower index.  Radii and phases are integers:
only their comparisons matter here, and the arithmetic of the phase is not
modelled.  The directory scan is the
choice of a layout in `Init`; two cubes have two origins (`LayoutAssumption`).

### Registration and polish

A scene is what the unwrapping of the cubes left: the vertices of their skins
with the group each belongs to and, nearest first, the vertices of other skins
within the pair gate and how many whole turns each is ahead.  `off`, the turns
each group is really off by, is read by properties only.  `tab` holds the
table of each cube; `t_reg`, `defer`, `sweep`, `changes` and `low_conf` are the
locals and fields of `pass_c`, and its array `placed` is `Placed`.

`Solve` is `CubeReg_solve`: pair each vertex with the nearest pooled one
(`Dphi`), take the cube's median, and for each group with pairs enough its
own.  `Register`, `Retry` and `Resolve` are one iteration each of the chain,
the second pass and a sweep.  Only whole turns are kept.  The code takes the
median of angles and rounds it; rounding is monotone, so that is the median of
the rounded angles.  An even count takes the upper of the two middle entries,
as the code does.  The shift `du` never changes a turn and is left out.

In the polish a thread takes an iteration (`Take`), pools its neighbours one
by one (`Read`) and writes its cube (`Write`); `seen` is what it has read.
`Arena` is the arena of its number.  Two threads in one arena are a data race
on a bump allocator, so what such a thread solves is any of the corrections
(`Answers`).  The tables the group graph seeds the polish with are any.

`RunNext` is a run of the program: the flood, then `pass_c`, or, from the
first cube as the seed, a re-registration.

### Operation guard

A host thread calls an operation (`Call`), waits for the mutex (`LockOp`) and
gets an arena and a context (`NewArena`).  The body is a sequence of steps of
`SfPrograms`: each of the 23 operations under the guard is the set of
sequences its code can take.  Any step that allocates may raise, any module
may fail, any poll may be told to cancel, and the deadline may pass at any
moment.  `Raise` is the `longjmp`, with the depth of the frame stack; `EndTry`
and `FreeOutputs` are the tail every operation has, and `Pop`, `Dispose`,
`Unlock` are `sf_op_end`.  `Forget` clears what is gone with the guard.

`out` are the outputs of a call, of which there are two kinds.  An `emit`
copies one out in memory of its own, which the tail frees when the call fails.
An `answer` fills one the caller owns, and nothing takes it back: `filled` is
history and says whether a step that may fail was still to come when it did
(`"early"`).  The optional reports (`rep`) are apart: several operations fill
them before a poll, and no property speaks of them.

### Triangle guard

A jump buffer is modelled by the call whose frame it was set in.  A signal may
fall between any two statements of `safe_triangulate` that matter to it, so
each is an action: `InstallHandlers`, `RaiseGuard`, `SetJump`, `StartAlarm`
before the library, `CancelAlarm`, `LowerGuard`, `GuardedReturn` after it.  The
same three end a call the handler jumped back to, with the guard lowered before
the alarm is cancelled (:1083-1085), the other way round than after a normal
end (:1098-1100).  The library ends (`Finish`), calls `triexit`
(`TriangleExits`), follows a bad pointer (`TriangleCrashes`) or hangs.  A jump
to a frame that is gone is undefined behaviour and ends the model (`"wild"`).
The plain calls of `split/` arm `triexit`'s jump only.  The program's own
timeout has the same alarm.

### Union-find

`parent`, `rank` and `count` are the fields of `UnionFind`; `call`, `x` and
`found` are the locals of the call in progress.  `Split` is one iteration of
the loop of `uf_find`, which writes a pointer; `Found` is its return, into the
caller or back into `uf_union`; `Link` is the rest of `uf_union`.  `class` is
history: the partition the unions asked for.  One thread uses a forest at a
time, as everywhere in the code.

The loop goes on at the grandparent (`union_find.c`:30-32), so every other
node of the path keeps its parent.  That is path halving; the comment at :28
and `union_find.h`:17 call it path splitting, which moves every node.  Answers
and the logarithmic bound are the same.

## 3. Runs

| run | instance | shows |
|---|---|---|
| `pool_safety` | 2 callers, one of them announced, 2 helpers, 3 cores, ranges 5 by 2 and 2 by 1, 2 runs, 1 spurious wake | `FramesOutliveUses`, `SlotsPrivate`, `QueueIsList`, `SeatsConserved`, `NoSeatSleeps`, `RunReturns`, and the refinement `EveryIndexOnce` |
| `zarr_safety` | 2 handles of 2 slots, whole and short chunks, 2 buckets, 5 misses, 1 failure | the safety properties, the refinement `ReadsTheVolume`, and `CallsReturn` |
| `store_safety` | 2 cubes, 2 workers, 2 options, 2 rewrites, 1 failed call (of `stat` too), 1 kill | `RecordsHonest`, `MergedFresh`, `CheckpointKept` |
| `store_identity` | rewrites while a process runs | `RecordsHonest` is violated |
| `register_safety` | 6 grids of 4 cubes, radii and phases 0 and 1, any seed or none, 8 scenes, all cubes or 3, 3 sweeps | of the schedule `EveryCubeOnce`, `AttachedToPlaced`, `ComponentsExact`, `SpiralSweep`, `ScheduleReturned`; of the registration `SeamsClose`, `PairedRegistered`, `SweepSettles` |
| `register_runaway` | a ring of 4 cubes, one pair a seam, one of them slipped, 8 sweeps | `CannotRunAway` is violated |
| `polish_safety` | a row and a ring of 4 cubes, 2 threads, 5 scenes, 3 answers of the graph for each cube, 2 sweeps | `OneOutcome`, `PolishDefends` |
| `polish_arenas` | the ring, 3 threads, room for 2 arenas | `OneOutcome` is violated |
| `unionfind_safety` | 6 elements, any calls | `OneRoot`, `CountExact`, `RankLogarithmic`, `CallsReturn` |
| `operation_safety` | 2 threads, all 23 operations, 3 calls | `GuardHeld`, `StatusTells`, `OutputsWholeUnlessEarly`, `CallsReturn` |
| `triangle_safety` | 4 calls, with and without the program's timeout | `LeavesNoTrace`, `JumpsLandUnlessExit`, `ContainedOutsideWindows`, `GuardedCallsEnd` |
| `triangle_exit` | 2 calls, no program's timeout | `JumpsLand` is violated |

Why the bounds are enough.  *Pool*: a short last chunk, a range the seats do
not cover, two runs in the queue and a second generation of a frame all occur
with two callers and two runs.  A run that leaves the middle of the queue needs
a third caller, and a core setting of 0 a larger instance: both are covered by
the proofs only, which hold for any number of callers and any settings.
*Cache*: five misses fill both tables, evict from each and let an address be
used for another key.  *Store*: a second rewrite is needed for a record to
become stale twice, two options for a record to be refused, and one kill is
followed by any number of restarts, since starting is not bounded.  One failed
call shows that one blind `stat` harms nothing; two do (below).
*Schedule*: a row, a ring, a star over two layers, two islands and a row with a
hole, in and out of index order, give frontiers with ties, cubes marked by two
neighbours, and one and two re-seeds; two phases give equal and unequal keys,
ties between them, and radii in place of phases.  *Registration*: the scenes
have cubes with two groups a turn apart, a seam with too few pairs, a cube that
failed to unwrap, a ring that closes and one that does not, a vertex with two
neighbours in its gate, and islands; `Limits` leaves a cube inactive.  Three
sweeps reach the end by a fixed point and by the limit.  *Polish*: two threads
on a row of four have two cubes of each colour, so both may work at once.
*Union-find*: six elements reach rank 2 and paths a search shortens; any number
of calls may follow, since nothing counts them.  *Operations*: a call beside
one that holds the lock, and one after each of them; a mesh of two parts and a
descent of two iterations (`MaxParts`).  *Triangle*: a guarded call, a plain
one in the reach of its alarm, and two more after it; an alarm in every place
of each.

Deadlock is checked in all runs.

### Fairness

`pool_safety`, `zarr_safety` and `operation_safety` assume weak fairness of
each thread's steps inside a call: the operating system schedules it, `fn` and
the modules return, callbacks return, file reads end.  They assume nothing of
callers outside a call, nor that a deadline passes.  `register_safety` and
`unionfind_safety` assume that the one thread that runs the flood, or the
forest, goes on; of the registration only safety is checked.
`triangle_safety` assumes that the guard's own code goes on and that an alarm
that is set rings; it does not assume that `triangulate` ends.  Real mutexes
are not strongly fair in general; here weak fairness suffices because the calls
of a behaviour are bounded (`MaxCalls`, `MaxMisses`, `MaxSpurious`), so nobody
can overtake a waiting thread for ever.  What is shown is the absence of lost
wakeups and of locks that are not released, not the absence of starvation.

### Violations

* `triangle_exit`.  When Triangle ends by `triexit`, `safe_triangulate` returns
  at once (`hole_fill.c`:1065-1069) and leaves its alarm pending, its guard up
  and its handlers installed.  The alarm then jumps to a frame that has
  returned.  `LeavesNoTrace` and `JumpsLandUnlessExit` are what holds without
  `triexit`.  The run leaves out the program's timeout, which has a window of
  its own (below).
* `polish_arenas`.  There are at most 64 arenas for a team that
  `--max-concurrent` sizes (`scroll_whole.c`:1709-1711, 1844); a thread without
  one uses those of thread 0 (:1871) while that is at work, though the comment
  at :1833-1838 says one per thread and one outcome.  It takes more than 64
  threads and more than 64 cubes.
* `register_runaway`.  Around a ring whose seams disagree by a turn, with as
  many pairs for either answer, the upper median turns each cube once more in
  every sweep; the comment at `scroll_whole.c`:600 says the ensemble cannot run
  away.  `--sweeps` ends it, 8 turns later by default.
* `store_identity`.  The identity in a record is looked up when the record is
  written (`asm_store.c`:100), not when the mesh was read
  (`sheet_assemble.c`:354).  A mesh replaced during the cleaning is then stored
  under the identity of its successor.  `asm_store.h`:20-22 says a record is
  reusable for the same input only.

More disagreements were seen in the models and have no run of their own.  The
first three are the exceptions the properties make, and TLC reaches each of
them when the exception is dropped.

* After a crash the guard falls (`hole_fill.c`:1083) before the pending alarm is
  cancelled (:1085), with the handler still installed: an alarm in between
  takes the default action and ends the process, where :880-896 say that the
  wrapper catches a crash and carries on.  The program's own timeout has two
  such windows in the prologue: before the guard is up (:1077-1079) it ends the
  process, and before the jump is set (:1079-1081) it jumps to a frame that is
  gone.  `ContainedOutsideWindows` and `JumpsLandUnlessExit` say that there are
  no others.  As `main.c`:47 sets the limit, it never comes.
* `sf_topology_audit` fills eleven fields of its only output
  (`scrollfiesta_api.c`:368-378) and then counts components in the arena, which
  may raise (:379-380); it returns `SF_ERROR_OOM` with the output partly
  filled.  `sf_sever_short_handles` writes `*out_loops_cut` (:1530-1531) before
  its mesh is copied out, which may fail.  Both are against :7-10, that outputs
  are untouched or complete.  `OutputsWholeUnlessEarly` says that there is no
  other way to a half-made output.
* A `stat` that fails leaves 0/0 as the identity (`asm_store.c`:30), when a
  record is written and when it is looked up.  If both fail, the two are equal
  and the charts of a mesh that has been rewritten are merged, against
  `asm_store.h`:20-24.  With `MaxFailures` 2 TLC finds it; `MergeCorrect`
  assumes `~StatFails`.
* `VesPool_run` takes its share before the lock (`ves_pool.c`:127) and keeps it,
  so for a moment more threads run than `cores`, which `ves_pool.h`:7-8
  excludes.  No property looks at it: seats stay balanced all the same.
* `AsmStore_write_cube` removes the old record before the rename
  (`asm_store.c`:131), where `asm_store.h`:13-14 promises an atomic rename; a
  kill in between costs the cleaning of one cube, and `MergedFresh` shows it
  costs nothing else.
* Several operations fill the caller's report before a poll that can still
  cancel them (`scrollfiesta_api.c`:1195-1202), where `scrollfiesta.h`:47-49
  says that a cancelled call leaves outputs untouched (`Report`, `Stage`: `rep`
  stays set).
* A guarded call of Triangle replaces the program's timeout and cancels it on
  return (`ves_platform.c`:667; `StartAlarm`, `CancelAlarm`).  Nothing reads the
  flag it would set.

## 4. Theorems

All are proved by `tlapm` for every value of the constants that satisfies the
named assumptions.

**Pool** (`VesPoolProofs`, assumption `PoolAssumption`: finite disjoint sets of
callers and helpers).  `Invariance` is `Spec => []IInv`.  No property of the
list is inductive alone.  A frame outlives its uses because `running` counts
the helpers seated at it (`RunningCounts`) and its seats have left the queue
before its caller waits (`CancelledBeforeWait`).  The queue is a list because
only frames with open seats are in it (`Frames`) and each step appends at the
tail, drops the head or bridges one link; `QueueIsList` states it by an order
of the queued runs, so no step needs induction along the links.  Chunks are
disjoint because `next` separates indices claimed from those that are not
(`Claims`).  `TypeCorrect`, `FrameLifetime`, `QueueCorrect`, `RunningCorrect`,
`ExactlyOnce`, `SlotsCorrect` and `ReturnCorrect` follow; `SlotsCorrect` bounds
the slots of callers whose `max_helpers` is not negative.  `SeatsBalanced` and
`NoWakeupLost` need a sum over the callers; it is stated as the size of a union
of disjoint intervals (`OpenSeats`), and `MoreSeats` says what a change of one
run's tickets does to it.  The two hold only together (`SeatsKept`): after a
run borrows several seats everyone is awake, and then the balance bounds the
seats.  `Implements` is the refinement: each step of the pool is a step of
`ParallelFor` or changes none of its variables, under `IInv` and `Sized`.

**Cache** (`ZarrCacheProofs`, assumption `CacheAssumption`: finitely many
handles; the allocator gives free addresses, or none).  `Invariance` is again
`Spec => []IInv`.  A bucket is locked exactly by a handle that reads a file for
it (`LocksOwned`), and a chunk that is not listed is in that handle's hands
alone (`Unlisted`, `InHand`): so two misses of a key never both load it
(`LoadedOnce`).  `HeapStep` says all that a step can do to a chunk: leave it,
pin it, load it, publish it, or free it when the pin given back is its only
one.  With it a chunk that has any other pin stays what it was
(`PinnedStays`), which is `PinsCorrect`; and `RefsCorrect` follows each step's
pins, one more for a hit or a publication, one less for a release, the same
number for the chunk that goes from a call into its slot.  That slot's old
chunk is another one because the table did not have the key, which is why
`Found` is part of `InHand` and `TableFinds` of the invariant.  `TableCorrect`
needs that filling a slot shortens no probe (`WalksGrow`) and that a probe
which meets no unused slot has met them all (`FullTable`).  `StatsCorrect`
counts by an injection: each chunk is in a slot of an open table or in the
hands of a miss, and no place holds two (`ChunksFit`).  `Implements` is the
refinement of `ZarrVolume`: a chunk has its buffer unless its file is short or
a failure was met (`DataTells`).

**Store** (`AsmStoreProofs`, assumptions `StoreAssumption` and, in each
theorem, `~Concurrent`; in `MergeCorrect` also `~StatFails`).  `Invariance` is
again `Spec => []IInv`: a worker owns
the cube it took (`CubesOwned`), and with it the cube's files; from the clean
on it holds fresh charts, then the source's identity or none, then a whole
temporary file (`WorkInHand`); every cube below `next` is done or owned
(`CubesDone`), and done means fresh unless `stat` may fail (`Got`).
`RecordsCorrect` and `MergeCorrect` are conjuncts or consequences;
`CheckpointCorrect` is the action property, from `CubesDone`: what is renamed
is a run with a result for each cube.  `store_identity` shows that
`~Concurrent` cannot be dropped, and two blind `stat`s that `~StatFails`
cannot.

**Schedule** (`CubeScheduleProofs`, assumptions `CountAssumption`,
`LayoutAssumption`, `GeometryAssumption`).  The flood is correct because at
every iteration the frontier is exactly the neighbours of placed cubes
(`elig` may hold placed cubes too, hence `elig \ placed`), every component but
the last is closed under the links, and the prefix has as many cubes as
entries.  `OrderComplete` counts, `OrderValid` holds prefix by prefix and a
step only adds an entry, `ComponentsCorrect` follows from attachment and
closure.  Connectedness is stated by closed sets, so no path and no induction
is needed.

**Registration** (`CubeRegisterProofs`, assumptions of the schedule and
`SceneAssumption`, `OptionAssumption`).  `ScheduleCorrect` carries the results
on the schedule over to a whole run: `pass_c` and the polish change none of its
variables.  `RunTypesKept` is type correctness, with `Ready`: once the schedule
is done its facts stay.  Two lemmas about medians carry the rest: the median of
differences is one of them (`MedianTaken`), so if all are equal it is that one.
For `SeamsCorrect` the invariant is `SeamsHold`, that the placed cubes of a
component are in one winding, with `ChainAhead`, that the cubes still to come
in the chain have no correction: a cube's pairs with cubes that are in one
winding all tell one difference per group, and after the solve it is in that
winding too; in the retries and sweeps all its neighbours are.  For
`PairedCorrect` and `SettleCorrect` it is `LowKept` and `Swept`: how many pairs
a cube has does not depend on corrections, and a sweep that has counted no
change so far has left every cube it went over as it would solve it again.

**Polish** (same module; `OutcomeCorrect` and `DefendsCorrect` assume
`Team <= RR_POLISH_MAX_THREADS`, and `polish_arenas` shows that this cannot be
dropped).  `PolishInv`: neighbours have different colours, so what a thread has
read of a neighbour is what it was when the half-sweep began (`HalfWay`), and a
cube is untouched, in the hands of one thread, or renewed.

**Operation guard** (`SfOperationProofs`, assumption `OperationAssumption`: any
operations that end by emitting or answering).  `IInv` says where the lock, the
context, the arena and the frame are at each place of a call, what a raise has
recorded about why it stopped (`StopInv`), that what is left of a body ends
with an output and a body that got through has all of them (`OutInv`), and that
after an output filled last nothing is left that can fail (`LastInv`).  The
programs are any: an operation that fills early falls under the second disjunct
of `OutputsWholeUnlessEarly`, and no other does.

**Triangle guard** (`TriangleGuardProofs`, assumption `CallsAssumption`).  At
each place of a guarded call the invariant says which jump, handler and alarm
belongs to the call in progress (`AimInv`, `AlarmInv`), and what is as before
unless a call ended by `triexit` (`CleanInv`).  `ContainedCorrect` needs less
and holds after a `triexit` too: from the prologue on both handlers are the
guard's (`CoveredInv`), and an alarm that is pending finds the guard up or is
one of the two exceptions.

**Union-find** (`UnionFindProofs`, assumptions `SizeAssumption`,
`PairsAssumption`).  The classes are a partition; a pointer stays inside its
class and goes to a higher rank (`Forest`), so rewriting it to the grandparent
keeps both; a class has one root (`OneRoot`); a search stays in its class
(`SearchStays`).  `CountCorrect` is by the bijection between roots and
classes.  For `RankCorrect` the invariant is the property itself, that a root of
rank n has at least 2^n elements in its class: a rank grows only when two
classes of that many meet (`LinkKeepsRank`).  The provers know no law of
exponents, so `PowerDoubles` takes it from the subsets of a finite set.

**Only model-checked.**  Liveness (`RunReturns`, `CallsReturn`,
`ScheduleReturned`, `GuardedCallsEnd`), which is out of the prover's reach.
Every other property that a passing run checks is also proved.

**Only proved.**  The type invariants of all modules but `ZarrCache`,
`ChunksDisjoint` and `ReturnsWhenDone` of the pool, which `EveryIndexOnce`
implies, and `ComponentsInOrder` of the schedule.

## 5. Not modelled

* Floating-point geometry: extraction, split, hole filling but for its guard,
  flatten, remesh, topology, placement, and the surface solves.
* Of the registration: the shift `du`, the group graph, the warp of `ArcReg`,
  the unwrapping and welding passes around `pass_c`, the audits.
* The Windows branches: the guard around Triangle, the CPU-bounded thread
  (`ves_platform.c`:602), the subprocess with a timeout (:237), whose outcome
  is the platform's.
* OpenMP workers inside a module of the API: they have no run context, so they
  poll nothing and a raise there has no frame (`run_ctx.c`:17); operations that
  never poll do not honour a deadline; `ves_omp_set_threads` leaves an earlier
  team in place for n <= 0 (`ves_platform.c`:713).  A callback that calls an
  operation waits for itself, which `scrollfiesta.h`:140 forbids.
* Two processes on one output directory (`asm_store.c`:91); power loss, where a
  rename may be on the disk before the data it names (the code calls no
  `fsync`); a mesh rewritten within the second of its mtime with the same size,
  which the code cannot tell from the old one (`asm_store.c`:37); two
  directories whose names read as one origin (`cube_schedule.c`:21); allocation
  failure in the assembler's arenas, which ends the process.
* `slot_limit` changed after the first read of a handle: nothing in the code
  does it.
* Vendored code, viewers and experiments under `tools/`.

## 6. Plan

In this order.

1. `MeshBin` and `GridPipeline`: temporaries, replacement and the skip of cubes
   that are done, with kills; composed with `AsmStore` in place of `Rewrite`,
   and with `pass_b --skip-existing` in place of the scenes.
2. `AsmContacts`: the memo (version, frames, mask) and the merge of the slots'
   buffers, as a client of `ParallelFor`; then `stage6_progress.asr` and the
   repair ledger.
3. `VesPlatform`: the CPU-bounded thread (kill only inside `fn`) and the
   subprocess timeout.  Theorem: a thread is terminated only in state 1.
4. The group graph that seeds the polish: its spanning forest on `UnionFind`.
5. Breadth-first search and max-flow against reference definitions.
