------------------------------ MODULE AsmStore ------------------------------
(***************************************************************************)
(* The resumable clean stage of sheet_assemble (tools/sheet_assemble.c,    *)
(* sa_stage_clean), the store it leaves its charts in                      *)
(* (assemble/asm_store.c) and the checkpoint of the placed run             *)
(* (assemble/asm_store_run.inc).                                           *)
(*                                                                         *)
(* Workers take the cubes of a run in turn.  For each they reuse the       *)
(* stored record when it carries the identity of the same source and the   *)
(* same options, or clean the cube's mesh and store the charts.  The       *)
(* process may be killed at any step; the files stay as they are.  A step  *)
(* is one call that reads or changes a file.                               *)
(***************************************************************************)
EXTENDS Integers

CONSTANTS
  N,             \* the pile: cubes 0 .. N-1
  Workers,       \* the OpenMP threads of the stage
  Options,       \* fingerprints: the cleaning options and the code version
  None, Partial, \* no file or value; a file whose writing has not ended
  Failed,        \* the result of a cube whose mesh could not be read
  Concurrent,    \* whether meshes may be rewritten while a process runs
  StatFails,     \* whether stat of a mesh that is there may fail
  MaxRewrites, MaxFailures, MaxCrashes   \* bounds: meshes rewritten, file calls failed, kills

Cubes == 0 .. N - 1

AnyCharts == [mesh : Nat, options : Options]
AnyRecord == [charts : AnyCharts, stamp : Nat, options : Options]
AnyRun    == [Cubes -> AnyCharts \cup {None, Failed}]

ASSUME StoreAssumption ==
  /\ N \in Nat \ {0} /\ Concurrent \in BOOLEAN /\ StatFails \in BOOLEAN
  /\ None \notin AnyCharts \cup AnyRecord \cup {Failed, Partial}
  /\ {None, Partial} \cap AnyRun = {}
  /\ MaxRewrites \in Nat /\ MaxFailures \in Nat /\ MaxCrashes \in Nat

VARIABLES
  source,                \* each cube's mesh, known by its size and mtime
  record, tmp,           \* <cube>.asc and <cube>.asc.tmp
  checkpoint, newpoint,  \* stage5_state.asr and its .tmp
  process,               \* where the process is
  options, resume,       \* its fingerprint and cfg->resume
  next,                  \* the first cube no worker has taken
  worker,                \* each worker: where it is, its cube, and the identity it stores
  res,                   \* the charts each cube has got
  rewrites, failures, crashes

records     == <<record, tmp>>
checkpoints == <<checkpoint, newpoint>>
config      == <<options, resume>>
bounds      == <<rewrites, failures, crashes>>
vars        == <<source, records, checkpoints, process, config, next, worker, res, bounds>>

(* Charts are known by the mesh and the options they were made from; the    *)
(* size 0 and mtime 0 of a failed stat are no mesh's.                       *)
Charts(mesh, opts) == [mesh |-> mesh, options |-> opts]

NoStat == 0

NoWork == [pc |-> "idle", cube |-> 0, stamp |-> NoStat]
NoRes  == [c \in Cubes |-> None]

Init ==
  /\ source = [c \in Cubes |-> 1]
  /\ record = [c \in Cubes |-> None] /\ tmp = [c \in Cubes |-> None]
  /\ checkpoint = None /\ newpoint = None
  /\ process = "down" /\ options \in Options /\ resume = TRUE
  /\ next = 0 /\ worker = [w \in Workers |-> NoWork] /\ res = NoRes
  /\ rewrites = 0 /\ failures = 0 /\ crashes = 0

Succeeds == UNCHANGED failures
Fails    == failures < MaxFailures /\ failures' = failures + 1

At(w, place) == process = "clean" /\ worker[w].pc = place
Goto(w, to)  == worker' = [worker EXCEPT ![w].pc = to]
Leave(w)     == worker' = [worker EXCEPT ![w] = NoWork]
-----------------------------------------------------------------------------
(* The process and what happens around it. *)

Start(o, r) ==
  /\ process = "down"
  /\ process' = "clean" /\ options' = o /\ resume' = r
  /\ next' = 0 /\ worker' = [w \in Workers |-> NoWork] /\ res' = NoRes
  /\ UNCHANGED <<source, records, checkpoints, bounds>>

(* --resume-placement: AsmStore_read_run takes the whole run or nothing.    *)
ResumePlacement(o) ==
  /\ process = "down" /\ checkpoint \notin {None, Partial}
  /\ process' = "placed" /\ options' = o /\ res' = checkpoint
  /\ UNCHANGED <<source, records, checkpoints, resume, next, worker, bounds>>

Exit == process' = "down" /\ res' = NoRes /\ UNCHANGED worker

(* The run is over, a stage before the checkpoint failed or --stop-after    *)
(* named it.                                                                *)
Finish ==
  /\ process \in {"merged", "placed"} /\ Exit
  /\ UNCHANGED <<source, records, checkpoints, config, next, bounds>>

Crash ==
  /\ process # "down" /\ crashes < MaxCrashes
  /\ crashes' = crashes + 1
  /\ process' = "down" /\ res' = NoRes /\ worker' = [w \in Workers |-> NoWork]
  /\ UNCHANGED <<source, records, checkpoints, config, next, rewrites, failures>>

(* grid_pipeline writes a cube's mesh again. *)
Rewrite(c) ==
  /\ Concurrent \/ process = "down"
  /\ rewrites < MaxRewrites
  /\ rewrites' = rewrites + 1
  /\ source' = [source EXCEPT ![c] = rewrites + 2]
  /\ UNCHANGED <<records, checkpoints, process, config, next, worker, res, failures, crashes>>
-----------------------------------------------------------------------------
(* sa_stage_clean, one cube on one worker. *)

Take(w) ==
  /\ At(w, "idle") /\ next < N
  /\ next' = next + 1
  /\ worker' = [worker EXCEPT ![w] = [pc |-> "lookup", cube |-> next, stamp |-> NoStat]]
  /\ UNCHANGED <<source, records, checkpoints, process, config, res, bounds>>

FirstStamp(c) == 1                         \* mutant: the source is not looked at again
Stamp(c)  == source[c]
Stamps(c) == {NoStat, Stamp(c)}

Stat(c, s) ==
  \/ s = Stamp(c) /\ Succeeds
  \/ s = NoStat /\ StatFails /\ Fails

(* AsmStore_exists and AsmStore_read_cube: the identity in the file against *)
(* the source's stat and the options now.                                   *)
SameSource(r, s)   == r.stamp = s                              \* mutant: options not compared
SameIdentity(r, s) == r.stamp = s /\ r.options = options
Stored(c) == resume /\ record[c] \notin {None, Partial}

Reuse(w) ==
  LET c == worker[w].cube
  IN  /\ At(w, "lookup") /\ Stored(c)
      /\ \E s \in Stamps(c) : Stat(c, s) /\ SameIdentity(record[c], s)
      /\ res' = [res EXCEPT ![c] = record[c].charts]
      /\ Leave(w)
      /\ UNCHANGED <<source, records, checkpoints, process, config, next, rewrites, crashes>>

(* No record, another identity, or a record that cannot be read. *)
Reclean(w) ==
  LET c == worker[w].cube
  IN  /\ At(w, "lookup")
      /\ \/ ~Stored(c) /\ Succeeds
         \/ Stored(c) /\ \E s \in Stamps(c) : Stat(c, s) /\ ~SameIdentity(record[c], s)
         \/ Stored(c) /\ SameIdentity(record[c], Stamp(c)) /\ Fails
      /\ Goto(w, "mesh")
      /\ UNCHANGED <<source, records, checkpoints, process, config, next, res, rewrites, crashes>>

(* MeshBin_read_arena and AsmClean_cube. *)
Clean(w) ==
  LET c == worker[w].cube
  IN  /\ At(w, "mesh")
      /\ \/ Succeeds /\ res' = [res EXCEPT ![c] = Charts(source[c], options)] /\ Goto(w, "open")
         \/ Fails    /\ res' = [res EXCEPT ![c] = Failed] /\ Leave(w)
      /\ UNCHANGED <<source, records, checkpoints, process, config, next, rewrites, crashes>>

(* AsmStore_write_cube, from fopen and the stat of the source to rename.    *)
(* The stage goes on when the record cannot be stored.                      *)
OpenTmp(w) ==
  LET c == worker[w].cube
  IN  /\ At(w, "open")
      /\ \/ \E s \in Stamps(c) :
              /\ Stat(c, s)
              /\ tmp' = [tmp EXCEPT ![c] = Partial]
              /\ worker' = [worker EXCEPT ![w].pc = "write", ![w].stamp = s]
         \/ Fails /\ Leave(w) /\ UNCHANGED tmp
      /\ UNCHANGED <<source, record, checkpoints, process, config, next, res, rewrites, crashes>>

WriteFailed(w, c) ==
  Fails /\ tmp' = [tmp EXCEPT ![c] = None] /\ Leave(w)

WriteTmp(w) ==
  LET c == worker[w].cube
      whole == [charts |-> res[c], stamp |-> worker[w].stamp, options |-> options]
  IN  /\ At(w, "write")
      /\ \/ Succeeds /\ tmp' = [tmp EXCEPT ![c] = whole] /\ Goto(w, "remove")
         \/ WriteFailed(w, c)
      /\ UNCHANGED <<source, record, checkpoints, process, config, next, res, rewrites, crashes>>

RemoveOld(w) ==
  LET c == worker[w].cube
  IN  /\ At(w, "remove")
      /\ record' = [record EXCEPT ![c] = None]
      /\ Goto(w, "rename")
      /\ UNCHANGED <<source, tmp, checkpoints, process, config, next, res, bounds>>

Rename(w) ==
  LET c == worker[w].cube
  IN  /\ At(w, "rename")
      /\ \/ Succeeds /\ record' = [record EXCEPT ![c] = tmp[c]]
         \/ Fails /\ UNCHANGED record
      /\ tmp' = [tmp EXCEPT ![c] = None]
      /\ Leave(w)
      /\ UNCHANGED <<source, checkpoints, process, config, next, res, rewrites, crashes>>
-----------------------------------------------------------------------------
(* The stages up to placement, and AsmStore_write_run. *)

(* Without a chart there is nothing to place and the process exits.         *)
Merge ==
  /\ process = "clean" /\ next = N /\ \A w \in Workers : worker[w].pc = "idle"
  /\ IF \E c \in Cubes : res[c] # Failed
     THEN process' = "merged" /\ UNCHANGED <<worker, res>>
     ELSE Exit
  /\ UNCHANGED <<source, records, checkpoints, config, next, bounds>>

OpenCheckpoint ==
  /\ process = "merged"
  /\ \/ Succeeds /\ newpoint' = Partial /\ process' = "saving" /\ UNCHANGED <<worker, res>>
     \/ Fails /\ UNCHANGED newpoint /\ Exit
  /\ UNCHANGED <<source, records, checkpoint, config, next, rewrites, crashes>>

WriteCheckpoint ==
  /\ process = "saving"
  /\ \/ Succeeds /\ newpoint' = res /\ process' = "saved" /\ UNCHANGED <<worker, res>>
     \/ Fails /\ newpoint' = None /\ Exit
  /\ UNCHANGED <<source, records, checkpoint, config, next, rewrites, crashes>>

RemovedFirst == None                     \* mutant: the old file goes before the rename
Kept == checkpoint

RenameCheckpoint ==
  /\ process = "saved"
  /\ \/ Succeeds /\ checkpoint' = newpoint /\ process' = "placed" /\ UNCHANGED <<worker, res>>
     \/ Fails /\ checkpoint' = Kept /\ Exit
  /\ newpoint' = None
  /\ UNCHANGED <<source, records, config, next, rewrites, crashes>>
-----------------------------------------------------------------------------
Work(w) ==
  \/ Take(w) \/ Reuse(w) \/ Reclean(w) \/ Clean(w)
  \/ OpenTmp(w) \/ WriteTmp(w) \/ RemoveOld(w) \/ Rename(w)
Stages == Merge \/ OpenCheckpoint \/ WriteCheckpoint \/ RenameCheckpoint \/ Finish

Next ==
  \/ \E o \in Options : ResumePlacement(o) \/ \E r \in BOOLEAN : Start(o, r)
  \/ \E w \in Workers : Work(w)
  \/ Stages \/ Crash
  \/ \E c \in Cubes : Rewrite(c)

Spec == Init /\ [][Next]_vars
-----------------------------------------------------------------------------
(* Properties. *)

Places    == {"idle", "lookup", "mesh", "open", "write", "remove", "rename"}

TypeOK ==
  /\ source \in [Cubes -> Nat \ {NoStat}]
  /\ record \in [Cubes -> AnyRecord \cup {None}]
  /\ tmp \in [Cubes -> AnyRecord \cup {None, Partial}]
  /\ checkpoint \in AnyRun \cup {None} /\ newpoint \in AnyRun \cup {None, Partial}
  /\ process \in {"down", "clean", "merged", "saving", "saved", "placed"}
  /\ options \in Options /\ resume \in BOOLEAN /\ next \in 0 .. N
  /\ worker \in [Workers -> [pc : Places, cube : Cubes, stamp : Nat]]
  /\ res \in AnyRun
  /\ rewrites \in Nat /\ failures \in Nat /\ crashes \in Nat

(* A record's charts are those of the options it names, and of the source   *)
(* it names if it names one, so it is reused for the same input only        *)
(* (asm_store.h:20-24).                                                     *)
RecordsHonest ==
  \A c \in Cubes : record[c] \notin {None, Partial} =>
    LET r == record[c]
    IN  r.charts = Charts(IF r.stamp = NoStat THEN r.charts.mesh ELSE r.stamp, r.options)

(* However runs were killed and resumed, with whatever options, the charts  *)
(* merged are those a run from nothing would have made.                     *)
MergedFresh ==
  process \in {"merged", "saving", "saved"} =>
    \A c \in Cubes : res[c] \in {Charts(source[c], options), Failed}

(* A checkpoint, once there, is never lost and never torn: each step leaves *)
(* it or replaces it by a complete run (asm_store.h:49-51).                 *)
CheckpointKept ==
  [][checkpoint' # checkpoint =>
       checkpoint' \notin {None, Partial} /\ \A c \in Cubes : checkpoint'[c] # None]_vars

(* The inductive invariant when no mesh is rewritten under a running        *)
(* process.  A worker owns its cube, and with it the cube's files; from the *)
(* clean on it holds fresh charts, then their identity, then a whole file.  *)
(* What is reused is fresh as well when stat never fails.                   *)
Busy(w)  == worker[w].pc # "idle"
Fresh(c) == res[c] \in {Charts(source[c], options), Failed}
Got(c)   == Fresh(c) \/ (StatFails /\ res[c] \in AnyCharts)
Wholes(c) == {[charts |-> res[c], stamp |-> s, options |-> options] : s \in Stamps(c)}

CubesOwned ==
  process = "clean" => \A w \in Workers : Busy(w) =>
    /\ worker[w].cube < next
    /\ \A u \in Workers : Busy(u) /\ worker[u].cube = worker[w].cube => u = w

WorkInHand ==
  process = "clean" => \A w \in Workers :
    LET c == worker[w].cube
    IN  /\ worker[w].pc \in {"open", "write", "remove", "rename"} =>
             res[c] = Charts(source[c], options)
        /\ worker[w].pc = "write" => worker[w].stamp \in Stamps(c)
        /\ worker[w].pc \in {"remove", "rename"} => tmp[c] \in Wholes(c)

CubesDone ==
  /\ process = "clean" => \A c \in Cubes :
       c < next => Got(c) \/ \E w \in Workers : Busy(w) /\ worker[w].cube = c
  /\ process \in {"merged", "saving", "saved"} => \A c \in Cubes : Got(c)
  /\ process = "saved" => newpoint = res

IInv == TypeOK /\ RecordsHonest /\ CubesOwned /\ WorkInHand /\ CubesDone
=============================================================================
