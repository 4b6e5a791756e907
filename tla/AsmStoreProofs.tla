--------------------------- MODULE AsmStoreProofs ---------------------------
(***************************************************************************)
(* Proofs about AsmStore for any pile, workers, options and bounds, when   *)
(* no mesh is rewritten under a running process.                           *)
(***************************************************************************)
EXTENDS AsmStore, TLAPS

LEMMA WorkerType ==
  ASSUME TypeOK, NEW w \in Workers
  PROVE  worker[w].pc \in Places /\ worker[w].cube \in Cubes /\ worker[w].stamp \in Nat
BY DEF TypeOK

(* What a worker holds is typed, so what it writes is a record. *)
LEMMA WholeType ==
  ASSUME TypeOK, NEW c \in Cubes, res[c] = Charts(source[c], options)
  PROVE  res[c] \in AnyCharts /\ Stamps(c) \subseteq Nat /\ Wholes(c) \subseteq AnyRecord
BY DEF TypeOK, Charts, Stamp, Stamps, NoStat, Wholes, AnyCharts, AnyRecord

LEMMA InitInv == Init => IInv
<1> SUFFICES ASSUME Init PROVE IInv
  OBVIOUS
<1>1. TypeOK
  BY StoreAssumption DEF Init, TypeOK, Cubes, NoStat, NoWork, NoRes, Places, AnyRun
<1>2. RecordsHonest /\ CubesOwned /\ WorkInHand /\ CubesDone
  BY DEF Init, RecordsHonest, CubesOwned, WorkInHand, CubesDone
<1> QED BY <1>1, <1>2 DEF IInv

-----------------------------------------------------------------------------
(* TypeOK *)

LEMMA WorkType ==
  ASSUME IInv, NEW w \in Workers, Work(w)
  PROVE  TypeOK'
<1> DEFINE c == worker[w].cube
<1> USE DEF IInv, Succeeds, Fails, Goto, Leave, At, bounds, records, checkpoints, config
<1>0. TypeOK /\ c \in Cubes /\ NoWork \in [pc : Places, cube : Cubes, stamp : Nat]
  BY WorkerType, StoreAssumption DEF NoStat, NoWork, Places, Cubes
<1>1. CASE Take(w)
  <2>1. [pc |-> "lookup", cube |-> next, stamp |-> NoStat] \in [pc : Places, cube : Cubes, stamp : Nat]
    BY <1>0, <1>1, StoreAssumption DEF Take, NoStat, TypeOK, Places, Cubes
  <2> QED BY <1>0, <1>1, <2>1, StoreAssumption DEF Take, TypeOK
<1>2. CASE Reuse(w)
  <2>1. record[c].charts \in AnyCharts
    BY <1>0, <1>2 DEF Reuse, Stored, TypeOK, AnyRecord
  <2> QED BY <1>0, <1>2, <2>1 DEF Reuse, Stamp, Stat, TypeOK, AnyRun
<1>3. CASE Reclean(w)
  BY <1>0, <1>3 DEF Reclean, Stamp, Stat, TypeOK, Places
<1>4. CASE Clean(w)
  <2>1. Charts(source[c], options) \in AnyCharts
    BY <1>0 DEF TypeOK, Charts, AnyCharts
  <2>2. res' \in AnyRun
    BY <1>0, <1>4, <2>1 DEF Clean, TypeOK, AnyRun
  <2>3. worker' \in [Workers -> [pc : Places, cube : Cubes, stamp : Nat]]
    BY <1>0, <1>4 DEF Clean, TypeOK, Places
  <2>4. failures' \in Nat
    BY <1>0, <1>4 DEF Clean, TypeOK
  <2> QED BY <1>0, <1>4, <2>2, <2>3, <2>4 DEF Clean, TypeOK
<1>5. CASE OpenTmp(w)
  BY <1>0, <1>5 DEF OpenTmp, Stat, TypeOK, Places, Stamp, Stamps, NoStat
<1>6. CASE WriteTmp(w)
  <2>1. [charts |-> res[c], stamp |-> worker[w].stamp, options |-> options] \in AnyRecord
    BY <1>0, <1>6, WholeType DEF WriteTmp, WorkInHand, Wholes
  <2> QED BY <1>0, <1>6, <2>1 DEF WriteTmp, WriteFailed, TypeOK, Places
<1>7. CASE RemoveOld(w)
  BY <1>0, <1>7 DEF RemoveOld, TypeOK, Places
<1>8. CASE Rename(w)
  <2>1. tmp[c] \in AnyRecord
    BY <1>0, <1>8, WholeType DEF Rename, WorkInHand
  <2> QED BY <1>0, <1>8, <2>1 DEF Rename, TypeOK
<1> QED BY <1>1, <1>2, <1>3, <1>4, <1>5, <1>6, <1>7, <1>8 DEF Work

LEMMA RestType ==
  ASSUME IInv,
         \/ \E o \in Options : ResumePlacement(o) \/ \E r \in BOOLEAN : Start(o, r)
         \/ Stages \/ Crash
         \/ \E c \in Cubes : Rewrite(c)
         \/ UNCHANGED vars
  PROVE  TypeOK'
<1> USE DEF IInv, Succeeds, Fails, bounds, records, checkpoints, config, Exit
<1>0. TypeOK /\ NoRes \in AnyRun /\ NoWork \in [pc : Places, cube : Cubes, stamp : Nat]
  BY StoreAssumption DEF NoStat, NoWork, Places, Cubes, NoRes, AnyRun
<1>1. ASSUME NEW o \in Options, ResumePlacement(o) PROVE TypeOK'
  BY <1>0, <1>1 DEF ResumePlacement, TypeOK
<1>2. ASSUME NEW o \in Options, NEW r \in BOOLEAN, Start(o, r) PROVE TypeOK'
  BY <1>0, <1>2, StoreAssumption DEF Start, TypeOK
<1>3. CASE Merge
  BY <1>0, <1>3 DEF Merge, TypeOK
<1>4. CASE OpenCheckpoint
  BY <1>0, <1>4 DEF OpenCheckpoint, TypeOK
<1>5. CASE WriteCheckpoint
  BY <1>0, <1>5 DEF WriteCheckpoint, TypeOK
<1>6. CASE RenameCheckpoint
  BY <1>0, <1>6 DEF RenameCheckpoint, Kept, TypeOK, CubesDone
<1>7. CASE Finish
  BY <1>0, <1>7 DEF Finish, TypeOK
<1>8. CASE Crash
  BY <1>0, <1>8 DEF Crash, TypeOK
<1>9. ASSUME NEW c \in Cubes, Rewrite(c) PROVE TypeOK'
  BY <1>0, <1>9 DEF Rewrite, TypeOK, NoStat
<1>10. CASE UNCHANGED vars
  BY <1>0, <1>10 DEF vars, TypeOK
<1> QED BY <1>1, <1>2, <1>3, <1>4, <1>5, <1>6, <1>7, <1>8, <1>9, <1>10 DEF Stages

-----------------------------------------------------------------------------
(* What a worker's step leaves alone, and what it does to its own cube. *)

LEMMA WorkFrame ==
  ASSUME IInv, NEW w \in Workers, Work(w)
  PROVE  /\ process = "clean" /\ UNCHANGED <<source, process, options, checkpoint, newpoint>>
         /\ \A u \in Workers \ {w} : worker'[u] = worker[u]
         /\ ~Take(w) => /\ UNCHANGED next /\ Busy(w)
                        /\ \A c \in Cubes \ {worker[w].cube} :
                             res'[c] = res[c] /\ tmp'[c] = tmp[c] /\ record'[c] = record[c]
         /\ Take(w) => /\ UNCHANGED <<res, tmp, record>> /\ next' = next + 1 /\ ~Busy(w)
                       /\ worker'[w].pc = "lookup" /\ worker'[w].cube = next
BY DEF IInv, TypeOK, AnyRun, Work, Take, Reuse, Reclean, Clean, OpenTmp, WriteTmp, WriteFailed,
       RemoveOld, Rename, At, Goto, Leave, Busy, records, checkpoints, config

LEMMA WorkOwn ==
  ASSUME IInv, NEW w \in Workers, Work(w), ~Take(w),
         NEW c, c = worker[w].cube
  PROVE  /\ Busy(w)' => worker'[w].cube = c
         /\ ~Busy(w)' => Got(c)'
         /\ worker'[w].pc \in {"open", "write", "remove", "rename"} =>
              res'[c] = Charts(source[c], options)
         /\ worker'[w].pc = "write" => worker'[w].stamp \in Stamps(c)
         /\ worker'[w].pc \in {"remove", "rename"} => tmp'[c] \in Wholes(c)'
         /\ \/ record'[c] \in {record[c], None}
            \/ res[c] = Charts(source[c], options) /\ record'[c] \in Wholes(c)
<1> USE DEF IInv, At, Goto, Leave, Busy, Fresh, Got, Stamp, Stamps, records, checkpoints, config, NoWork
<1>0. /\ TypeOK /\ c \in Cubes /\ worker[w] \in [pc : Places, cube : Cubes, stamp : Nat]
      /\ worker \in [Workers -> [pc : Places, cube : Cubes, stamp : Nat]]
  BY DEF TypeOK
<1>1. CASE Reuse(w)
  <2>1. /\ record[c] \in AnyRecord /\ record[c] \notin {None, Partial}
        /\ record[c].options = options
        /\ record[c].stamp = source[c] \/ StatFails
    BY <1>0, <1>1 DEF Reuse, Stored, Stamp, Stat, SameIdentity, TypeOK
  <2>2. CASE StatFails
    <3>1. record[c].charts \in AnyCharts
      BY <2>1 DEF AnyRecord
    <3> QED BY <1>0, <1>1, <2>2, <3>1 DEF Reuse, TypeOK, AnyRun
  <2>3. CASE ~StatFails
    <3>1. record[c].charts = Charts(source[c], options)
      BY <1>0, <2>1, <2>3 DEF RecordsHonest, TypeOK
    <3> QED BY <1>0, <1>1, <3>1 DEF Reuse, TypeOK, AnyRun
  <2> QED BY <2>2, <2>3
<1>2. CASE Reclean(w)
  BY <1>0, <1>2 DEF Reclean
<1>3. CASE Clean(w)
  BY <1>0, <1>3 DEF Clean, TypeOK, AnyRun
<1>4. CASE OpenTmp(w)
  BY <1>0, <1>4 DEF OpenTmp, Stamp, Stat, WorkInHand
<1>5. CASE WriteTmp(w)
  <2>1. res[c] = Charts(source[c], options) /\ worker[w].stamp \in Stamps(c)
    BY <1>0, <1>5 DEF WriteTmp, WorkInHand
  <2>2. /\ UNCHANGED <<res, source, options, record>> /\ process = "clean"
        /\ \/ /\ tmp'[c] = [charts |-> res[c], stamp |-> worker[w].stamp, options |-> options]
              /\ worker'[w].pc = "remove" /\ worker'[w].cube = c
           \/ worker'[w] = NoWork
    BY <1>0, <1>5 DEF WriteTmp, WriteFailed, TypeOK
  <2>3. worker'[w] # NoWork => tmp'[c] \in Wholes(c)'
    BY <2>1, <2>2 DEF Wholes
  <2> QED BY <2>1, <2>2, <2>3
<1>6. CASE RemoveOld(w)
  <2>1. res[c] = Charts(source[c], options) /\ tmp[c] \in Wholes(c)
    BY <1>0, <1>6 DEF RemoveOld, WorkInHand
  <2>2. /\ UNCHANGED <<res, source, options, tmp>> /\ record'[c] = None
        /\ worker'[w].pc = "rename" /\ worker'[w].cube = c
    BY <1>0, <1>6 DEF RemoveOld, TypeOK
  <2>3. tmp'[c] \in Wholes(c)'
    BY <2>1, <2>2 DEF Wholes
  <2> QED BY <2>1, <2>2, <2>3
<1>7. CASE Rename(w)
  BY <1>0, <1>7 DEF Rename, WorkInHand, TypeOK
<1> QED BY <1>1, <1>2, <1>3, <1>4, <1>5, <1>6, <1>7 DEF Work

-----------------------------------------------------------------------------
LEMMA WorkInv ==
  ASSUME IInv, NEW w \in Workers, Work(w)
  PROVE  IInv'
<1> DEFINE c == worker[w].cube
<1>0. c \in Cubes /\ next \in Nat /\ next' \in Nat /\ TypeOK'
  BY WorkType, StoreAssumption DEF IInv, TypeOK
<1>1. \A u \in Workers : worker[u].cube \in Cubes /\ worker'[u].cube \in Cubes
  BY <1>0 DEF IInv, TypeOK
<1>2. RecordsHonest'
  <2> SUFFICES ASSUME NEW d \in Cubes, record'[d] \notin {None, Partial}
               PROVE  LET r == record'[d]
                      IN  r.charts = Charts(IF r.stamp = NoStat THEN r.charts.mesh ELSE r.stamp,
                                            r.options)
    BY DEF RecordsHonest, Charts
  <2>1. CASE record'[d] = record[d]
    BY <2>1 DEF IInv, RecordsHonest, Charts
  <2>2. CASE record'[d] # record[d]
    <3>1. d = c /\ ~Take(w)
      BY <2>2, WorkFrame
    <3>2. res[c] = Charts(source[c], options) /\ record'[c] \in Wholes(c)
      BY <2>2, <3>1, WorkOwn
    <3> QED BY <3>1, <3>2 DEF Wholes, Stamp, Stamps, Charts
  <2> QED BY <2>1, <2>2
<1>3. CubesOwned'
  <2> SUFFICES ASSUME NEW u \in Workers, Busy(u)'
               PROVE  /\ worker'[u].cube < next'
                      /\ \A v \in Workers : Busy(v)' /\ worker'[v].cube = worker'[u].cube => v = u
    BY DEF CubesOwned
  <2>1. CASE Take(w)
    <3>1. next' = next + 1 /\ worker'[w].cube = next
      BY <2>1, WorkFrame
    <3>2. \A v \in Workers \ {w} : worker'[v] = worker[v] /\ (Busy(v)' => worker[v].cube < next)
      BY WorkFrame DEF IInv, CubesOwned, Busy
    <3>3. \A v, x \in Workers \ {w} : Busy(v)' /\ Busy(x)' /\ worker[v].cube = worker[x].cube => v = x
      BY <3>2, WorkFrame DEF IInv, CubesOwned, Busy
    <3> QED BY <1>0, <1>1, <3>1, <3>2, <3>3 DEF Cubes
  <2>2. CASE ~Take(w)
    <3>1. \A v \in Workers : Busy(v)' => Busy(v) /\ worker'[v].cube = worker[v].cube
      BY <2>2, WorkFrame, WorkOwn DEF Busy
    <3>2. next' = next
      BY <2>2, WorkFrame
    <3> QED BY <3>1, <3>2, WorkFrame DEF IInv, CubesOwned
  <2> QED BY <2>1, <2>2
<1>4. WorkInHand'
  <2> SUFFICES ASSUME NEW u \in Workers, NEW d \in Cubes, d = worker'[u].cube
               PROVE  /\ worker'[u].pc \in {"open", "write", "remove", "rename"} =>
                           res'[d] = Charts(source'[d], options')
                      /\ worker'[u].pc = "write" => worker'[u].stamp \in Stamps(d)'
                      /\ worker'[u].pc \in {"remove", "rename"} => tmp'[d] \in Wholes(d)'
    BY <1>1 DEF WorkInHand, Charts, Stamp, Stamps, Wholes
  <2>1. CASE u # w /\ Busy(u)
    <3>1. worker'[u] = worker[u] /\ process = "clean" /\ UNCHANGED <<source, options>>
      BY <2>1, WorkFrame
    <3>2. res'[d] = res[d] /\ tmp'[d] = tmp[d]
      <4>1. CASE Take(w)
        BY <4>1, WorkFrame
      <4>2. CASE ~Take(w)
        <5>1. Busy(w) /\ d # worker[w].cube
          BY <2>1, <3>1, <4>2, WorkFrame DEF IInv, CubesOwned
        <5> QED BY <4>2, <5>1, WorkFrame
      <4> QED BY <4>1, <4>2
    <3> QED BY <3>1, <3>2 DEF IInv, WorkInHand, Stamp, Stamps, Wholes
  <2>2. CASE u # w /\ ~Busy(u)
    BY <2>2, WorkFrame DEF Busy
  <2>3. CASE u = w /\ Take(w)
    BY <2>3, WorkFrame
  <2>4. CASE u = w /\ ~Take(w)
    <3>1. CASE Busy(w)'
      BY <2>4, <3>1, WorkFrame, WorkOwn DEF Stamp, Stamps
    <3>2. CASE ~Busy(w)'
      BY <2>4, <3>2 DEF Busy
    <3> QED BY <3>1, <3>2
  <2> QED BY <2>1, <2>2, <2>3, <2>4
<1>5. CubesDone'
  <2>1. process' = "clean"
    BY WorkFrame
  <2> SUFFICES ASSUME NEW d \in Cubes, d < next'
               PROVE  Got(d)' \/ \E u \in Workers : Busy(u)' /\ worker'[u].cube = d
    BY <2>1 DEF CubesDone
  <2>2. CASE Take(w)
    <3>1. /\ next' = next + 1 /\ worker'[w].pc = "lookup" /\ worker'[w].cube = next
          /\ UNCHANGED <<res, source, options>> /\ ~Busy(w) /\ process = "clean"
          /\ \A u \in Workers \ {w} : worker'[u] = worker[u]
      BY <2>2, WorkFrame
    <3>2. CASE d = next
      BY <3>1, <3>2 DEF Busy
    <3>3. CASE d < next
      BY <3>1, <3>3 DEF IInv, CubesDone, Busy, Fresh, Got
    <3> QED BY <1>0, <3>1, <3>2, <3>3 DEF Cubes
  <2>3. CASE ~Take(w) /\ d # c
    <3>1. /\ next' = next /\ res'[d] = res[d] /\ UNCHANGED <<source, options>> /\ process = "clean"
          /\ \A u \in Workers \ {w} : worker'[u] = worker[u]
      BY <2>3, WorkFrame
    <3> QED BY <2>3, <3>1 DEF IInv, CubesDone, Busy, Fresh, Got
  <2>4. CASE ~Take(w) /\ d = c
    BY <2>4, WorkOwn
  <2> QED BY <2>2, <2>3, <2>4
<1> QED BY <1>0, <1>2, <1>3, <1>4, <1>5 DEF IInv

LEMMA RestInv ==
  ASSUME IInv, ~Concurrent,
         \/ \E o \in Options : ResumePlacement(o) \/ \E r \in BOOLEAN : Start(o, r)
         \/ Stages \/ Crash
         \/ \E c \in Cubes : Rewrite(c)
         \/ UNCHANGED vars
  PROVE  IInv'
<1> USE DEF IInv, bounds, records, checkpoints, config, Exit
<1>0. TypeOK'
  BY RestType
<1>1. RecordsHonest'
  <2>1. UNCHANGED record
    BY DEF ResumePlacement, Start, Stages, Merge, OpenCheckpoint, WriteCheckpoint, RenameCheckpoint,
           Finish, Crash, Rewrite, vars
  <2> QED BY <2>1 DEF RecordsHonest
<1>2. ASSUME NEW o \in Options, ResumePlacement(o) PROVE CubesOwned' /\ WorkInHand' /\ CubesDone'
  BY <1>2 DEF ResumePlacement, CubesOwned, WorkInHand, CubesDone
<1>3. ASSUME NEW o \in Options, NEW r \in BOOLEAN, Start(o, r)
      PROVE  CubesOwned' /\ WorkInHand' /\ CubesDone'
  BY <1>3 DEF Start, CubesOwned, WorkInHand, CubesDone, NoWork, Busy, Cubes
<1>4. CASE Merge
  <2>1. \A c \in Cubes : Got(c)
    <3>1. process = "clean" /\ next = N /\ \A w \in Workers : ~Busy(w)
      BY <1>4 DEF Merge, Busy
    <3>2. \A c \in Cubes : c < next
      BY <3>1, StoreAssumption DEF Cubes
    <3> QED BY <3>1, <3>2 DEF CubesDone
  <2> QED BY <1>0, <1>1, <1>4, <2>1 DEF Merge, CubesOwned, WorkInHand, CubesDone, Fresh, Got
<1>5. CASE OpenCheckpoint \/ WriteCheckpoint \/ RenameCheckpoint \/ Finish \/ Crash
  BY <1>0, <1>1, <1>5 DEF OpenCheckpoint, WriteCheckpoint, RenameCheckpoint, Finish, Crash,
                          CubesOwned, WorkInHand, CubesDone, Fresh, Got
<1>6. ASSUME NEW c \in Cubes, Rewrite(c) PROVE CubesOwned' /\ WorkInHand' /\ CubesDone'
  BY <1>6 DEF Rewrite, CubesOwned, WorkInHand, CubesDone
<1>7. CASE UNCHANGED vars
  BY <1>0, <1>1, <1>7 DEF vars, CubesOwned, WorkInHand, CubesDone, Fresh, Got, Stamp, Stamps,
                          Wholes, Busy
<1> QED BY <1>0, <1>1, <1>2, <1>3, <1>4, <1>5, <1>6, <1>7 DEF Stages
-----------------------------------------------------------------------------
(* The invariant holds: no reachable state of a stage whose meshes stand    *)
(* still while it runs breaks it.                                           *)
THEOREM Invariance ==
  ASSUME ~Concurrent
  PROVE  Spec => []IInv
<1>1. IInv /\ [Next]_vars => IInv'
  <2> SUFFICES ASSUME IInv, [Next]_vars PROVE IInv'
    OBVIOUS
  <2>1. ASSUME NEW w \in Workers, Work(w) PROVE IInv'
    BY <2>1, WorkInv
  <2> QED BY <2>1, RestInv DEF Next
<1> QED BY <1>1, InitInv, PTL DEF Spec

(* Every record's charts are those of the options it names, and of the      *)
(* source it names if stat gave it one, whichever calls failed.             *)
THEOREM RecordsCorrect ==
  ASSUME ~Concurrent
  PROVE  Spec => []RecordsHonest
<1>1. IInv => RecordsHonest
  BY DEF IInv
<1> QED BY <1>1, Invariance, PTL

(* The charts the clean stage merges are those a run from nothing makes,    *)
(* after any history of kills, resumptions, failures and other options, as  *)
(* long as stat of a mesh that is there does not fail.                      *)
THEOREM MergeCorrect ==
  ASSUME ~Concurrent, ~StatFails
  PROVE  Spec => []MergedFresh
<1>1. IInv => MergedFresh
  BY DEF IInv, CubesDone, MergedFresh, Got, Fresh
<1> QED BY <1>1, Invariance, PTL

(* The checkpoint is replaced by complete runs only and never removed. *)
THEOREM CheckpointCorrect ==
  ASSUME ~Concurrent
  PROVE  Spec => CheckpointKept
<1>1. IInv /\ [Next]_vars => [checkpoint' # checkpoint =>
        checkpoint' \notin {None, Partial} /\ \A c \in Cubes : checkpoint'[c] # None]_vars
  <2> SUFFICES ASSUME IInv, Next, checkpoint' # checkpoint
               PROVE  checkpoint' \notin {None, Partial} /\ \A c \in Cubes : checkpoint'[c] # None
    OBVIOUS
  <2>1. RenameCheckpoint /\ checkpoint' = newpoint
    BY DEF Next, ResumePlacement, Start, Work, Take, Reuse, Reclean, Clean, OpenTmp, WriteTmp, RemoveOld,
           Rename, Stages, Merge, OpenCheckpoint, WriteCheckpoint, RenameCheckpoint, Kept, Finish, Crash,
           Rewrite, checkpoints
  <2>2. newpoint = res /\ res \in AnyRun /\ \A c \in Cubes : Got(c)
    BY <2>1 DEF RenameCheckpoint, IInv, TypeOK, CubesDone
  <2>3. \A c \in Cubes : Charts(source[c], options) \in AnyCharts
    BY DEF IInv, TypeOK, Charts, AnyCharts
  <2>4. \A c \in Cubes : res[c] # None
    BY <2>2, <2>3, StoreAssumption DEF Got, Fresh
  <2> QED BY <2>1, <2>2, <2>4, StoreAssumption
<1> QED BY <1>1, Invariance, PTL DEF Spec, CheckpointKept
=============================================================================
