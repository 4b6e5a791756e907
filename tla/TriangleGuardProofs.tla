------------------------- MODULE TriangleGuardProofs -------------------------
(***************************************************************************)
(* Proofs about TriangleGuard: without a triexit a guarded call leaves no  *)
(* trace in the process and every jump lands, and with or without one a    *)
(* signal ends the process in two windows only.                            *)
(***************************************************************************)
EXTENDS TriangleGuard, TLAPS

(* The rest of a guarded call's code is reached by guarded calls only, and  *)
(* triexit has the frame of the call in progress, and none outside.         *)
PlacesInv ==
  /\ pc \notin {"out", "working", "plain_end"} => kind = "guarded"
  /\ pc = "plain_end" => kind = "plain"
  /\ triangle_jmpbuf = IF pc = "out" THEN 0 ELSE frame

(* From its prologue to its return both handlers are triangle's, and the    *)
(* guard is up from before the jump is set until it is taken down again.    *)
Installed == InGuarded /\ pc # "called"
CoveredInv ==
  /\ Installed => act["SIGSEGV"] = "triangle_segv_handler" /\ act["SIGALRM"] = "triangle_segv_handler"
  /\ InGuarded /\ pc \in {"guarded", "aimed", "working", "finished", "cancelled", "landed"} =>
       triangle_segv_guard
  /\ pc \in {"lowered", "bare", "given_up"} => ~triangle_segv_guard

(* The jump is the call's own from sigsetjmp on, and an older one before.   *)
Aimed == Installed /\ pc \notin {"installed", "guarded"}
AimInv ==
  /\ triangle_segv_jmpbuf <= frame
  /\ pc # "out" => (triangle_segv_jmpbuf = frame <=> Aimed)

(* An alarm has its handler.  The program's is gone once a guarded call has *)
(* started its own; a call's own finds the guard up, unless that has fallen *)
(* after a crash.                                                           *)
AlarmInv ==
  /\ alarm = "program" =>
       /\ timeout.limit = "running"
       /\ InGuarded => pc \in {"called", "installed", "guarded", "aimed"}
       /\ ~Installed => act["SIGALRM"] = "ves_alarm_handler"
  /\ alarm = "triangle" =>
       act["SIGALRM"] = "triangle_segv_handler" /\ (triangle_segv_guard \/ pc = "bare")
  /\ pc \in {"cancelled", "lowered", "given_up"} => alarm = "none"
  /\ pc \in {"landed", "bare"} /\ alarm # "none" => crashed

(* Until a call ends by triexit, what a guarded call changes is as before   *)
(* outside it, and what it will put back is the program's.                  *)
CleanInv ==
  ~exited =>
    /\ ~Installed =>
         ~triangle_segv_guard /\ act["SIGSEGV"] = "default" /\ act["SIGALRM"] # "triangle_segv_handler"
    /\ Installed => saved["SIGSEGV"] = "default" /\ saved["SIGALRM"] # "triangle_segv_handler"
    /\ pc = "installed" => ~triangle_segv_guard
    /\ pc = "guarded" => alarm # "triangle"

IInv == TypeOK /\ PlacesInv /\ CoveredInv /\ AimInv /\ AlarmInv /\ CleanInv /\
        JumpsLandUnlessExit
-----------------------------------------------------------------------------
(* Every state is of its type. *)
LEMMA HandlerTyped ==
  ASSUME TypeOK, Running, TriangleHandler, alarm' \in {alarm, "none"}, crashed' \in BOOLEAN
  PROVE  TypeOK'
BY DEF TypeOK, Running, TriangleHandler, call, jumps, handlers, Places

LEMMA StopTyped ==
  ASSUME TypeOK, Stop("killed") \/ Stop("wild")
  PROVE  TypeOK'
BY DEF TypeOK, Stop, call, jumps, signals, handlers, history

LEMMA StepTyped ==
  ASSUME TypeOK, [Next]_vars
  PROVE  TypeOK'
<1> USE DEF TypeOK, call, jumps, signals, handlers, history
<1>0. Both("triangle_segv_handler") \in [Signals -> Dispositions] /\ 0 \in 0 .. MaxCalls
  BY CallsAssumption DEF Both, Dispositions
<1>1. CASE GuardedCall \/ PlainCall
  <2>1. frame < MaxCalls => frame + 1 \in 0 .. MaxCalls
    BY CallsAssumption
  <2> QED BY <1>1, <2>1 DEF GuardedCall, PlainCall, Call, Places
<1>2. CASE InstallHandlers
  BY <1>0, <1>2 DEF InstallHandlers, Places
<1>3. CASE RaiseGuard \/ SetJump \/ StartAlarm
  BY <1>3 DEF RaiseGuard, GuardUp, SetJump, StartAlarm, Watchdog, Places
<1>4. CASE Finish
  BY <1>4 DEF Finish, Ended, Places
<1>5. CASE CancelAlarm \/ LowerGuard
  BY <1>5 DEF CancelAlarm, Cancelled, LowerGuard, Places
<1>6. CASE GuardedReturn \/ PlainReturn
  BY <1>0, <1>6 DEF GuardedReturn, PlainReturn, Return, Places
<1>7. CASE TriangleExits
  <2>1. CASE Live(triangle_jmpbuf)
    BY <1>0, <1>7, <2>1 DEF TriangleExits, Return, Places
  <2>2. CASE ~Live(triangle_jmpbuf)
    BY <1>7, <2>2, StopTyped DEF TriangleExits
  <2> QED BY <2>1, <2>2
<1>8. CASE TriangleCrashes
  BY <1>8, HandlerTyped, StopTyped DEF TriangleCrashes, At, Running
<1>9. CASE AlarmRings
  <2>1. CASE act["SIGALRM"] = "triangle_segv_handler"
    BY <1>9, <2>1, HandlerTyped DEF AlarmRings
  <2>2. CASE act["SIGALRM"] = "ves_alarm_handler"
    BY <1>9, <2>2 DEF AlarmRings
  <2>3. CASE act["SIGALRM"] \notin {"triangle_segv_handler", "ves_alarm_handler"}
    BY <1>9, <2>3, StopTyped DEF AlarmRings
  <2> QED BY <2>1, <2>2, <2>3
<1>10. CASE ves_hard_timeout_start
  BY <1>10 DEF ves_hard_timeout_start, Dispositions, Signals
<1>11. CASE ves_hard_timeout_cancel
  BY <1>11 DEF ves_hard_timeout_cancel
<1>12. CASE Stopped \/ UNCHANGED vars
  BY <1>12 DEF Stopped, vars
<1> QED
  BY <1>1, <1>2, <1>3, <1>4, <1>5, <1>6, <1>7, <1>8, <1>9, <1>10, <1>11, <1>12 DEF Next, Guarding

LEMMA InitTyped == Init => TypeOK
<1> SUFFICES ASSUME Init PROVE TypeOK
  OBVIOUS
<1>1. act \in [Signals -> Dispositions] /\ saved \in [Signals -> Dispositions]
  BY DEF Init, Both, Dispositions
<1>2. frame \in 0 .. MaxCalls /\ triangle_jmpbuf \in 0 .. MaxCalls /\ triangle_segv_jmpbuf \in 0 .. MaxCalls
  BY CallsAssumption DEF Init
<1>3. timeout \in [flag : BOOLEAN, limit : {"none", "running", "cancelled"}]
  BY DEF Init
<1> QED BY <1>1, <1>2, <1>3 DEF Init, TypeOK, Places

THEOREM TypeCorrect == Spec => []TypeOK
<1> QED BY InitTyped, StepTyped, PTL DEF Spec
-----------------------------------------------------------------------------
LEMMA InitEstablishes == Init => IInv
<1> SUFFICES ASSUME Init PROVE IInv
  OBVIOUS
<1>1. act["SIGSEGV"] = "default" /\ act["SIGALRM"] = "default"
  BY DEF Init, Both, Signals
<1> QED
  BY <1>1, InitTyped DEF Init, IInv, PlacesInv, InGuarded, Installed, CoveredInv, AimInv, AlarmInv,
                         CleanInv, JumpsLandUnlessExit, JumpsLand

(* The process stops: nothing else changes. *)
LEMMA StopKeeps ==
  ASSUME IInv, Stop("killed")
  PROVE  IInv'
<1>1. TypeOK'
  BY StopTyped DEF IInv
<1> QED
  BY <1>1 DEF IInv, Stop, call, jumps, signals, handlers, history, PlacesInv, InGuarded, Installed,
              CoveredInv, Aimed, AimInv, AlarmInv, CleanInv, JumpsLandUnlessExit, JumpsLand

(* The handler is reached by a crash in triangulate or by an alarm. *)
LEMMA HandlerKeeps ==
  ASSUME IInv, Running, TriangleHandler,
         \/ pc = "working" /\ act["SIGSEGV"] = "triangle_segv_handler" /\ crashed' = TRUE /\ UNCHANGED alarm
         \/ /\ alarm # "none" /\ act["SIGALRM"] = "triangle_segv_handler"
            /\ alarm' = "none" /\ UNCHANGED crashed
  PROVE  IInv'
<1> USE DEF call, jumps, handlers
<1>1. TypeOK'
  BY HandlerTyped DEF IInv, TypeOK
<1>2. status = "running" /\ UNCHANGED <<kind, frame, triangle_jmpbuf, triangle_segv_jmpbuf,
                                         triangle_segv_guard, act, saved, timeout, exited>>
  BY DEF Running, TriangleHandler
<1>3. CASE ~triangle_segv_guard
  <2>1. status' = "killed" /\ pc' = pc
    BY <1>3 DEF TriangleHandler
  <2> QED
    BY <1>1, <1>2, <2>1 DEF IInv, PlacesInv, InGuarded, Installed, CoveredInv, Aimed, AimInv, AlarmInv,
                            CleanInv, JumpsLandUnlessExit, JumpsLand
<1>4. CASE triangle_segv_guard /\ Live(triangle_segv_jmpbuf)
  <2>1. status' = "running" /\ pc' = "landed" /\ pc # "out"
    BY <1>4 DEF TriangleHandler, Live
  <2>2. triangle_segv_jmpbuf = frame
    BY <1>4 DEF Live
  <2>3. Aimed
    BY <2>1, <2>2 DEF IInv, AimInv
  <2> QED
    BY <1>1, <1>2, <1>4, <2>1, <2>2, <2>3 DEF IInv, PlacesInv, InGuarded, Installed, CoveredInv, Aimed,
                          AimInv, AlarmInv, CleanInv, JumpsLandUnlessExit, JumpsLand
<1>5. CASE triangle_segv_guard /\ ~Live(triangle_segv_jmpbuf)
  <2>1. status' = "wild" /\ pc' = pc
    BY <1>5 DEF TriangleHandler
  <2>2. exited \/ (timeout.limit = "running" /\ pc = "guarded")
    BY <1>2, <1>5 DEF IInv, TypeOK, Places, Live, PlacesInv, InGuarded, Installed, Aimed, AimInv,
                      AlarmInv, CleanInv
  <2> QED
    BY <1>1, <1>2, <2>1, <2>2 DEF IInv, PlacesInv, InGuarded, Installed, CoveredInv, Aimed, AimInv,
                            AlarmInv, CleanInv, JumpsLandUnlessExit, JumpsLand
<1> QED BY <1>3, <1>4, <1>5

(* Every step keeps the invariant. *)
LEMMA StepPreserves ==
  ASSUME IInv, [Next]_vars
  PROVE  IInv'
<1> USE DEF call, jumps, signals, handlers, history, At, Running
<1>t. TypeOK /\ TypeOK'
  BY StepTyped DEF IInv
<1>1. CASE GuardedCall \/ PlainCall
  <2>1. PICK k \in {"guarded", "plain"} : Call(k)
    BY <1>1 DEF GuardedCall, PlainCall
  <2>2. triangle_segv_jmpbuf < frame + 1 /\ frame # frame + 1
    BY <1>t DEF TypeOK, IInv, AimInv
  <2> QED
    BY <1>t, <2>1, <2>2 DEF TypeOK, Call, IInv, PlacesInv, InGuarded, Installed, CoveredInv, Aimed,
                       AimInv, AlarmInv, CleanInv, JumpsLandUnlessExit, JumpsLand
<1>2. CASE InstallHandlers
  <2>1. act'["SIGSEGV"] = "triangle_segv_handler" /\ act'["SIGALRM"] = "triangle_segv_handler"
    BY <1>2 DEF InstallHandlers, Both, Signals
  <2> QED
    BY <1>t, <1>2, <2>1 DEF InstallHandlers, IInv, PlacesInv, InGuarded, Installed, CoveredInv, Aimed,
                       AimInv, AlarmInv, CleanInv, JumpsLandUnlessExit, JumpsLand
<1>3. CASE RaiseGuard
  BY <1>t, <1>3 DEF RaiseGuard, GuardUp, IInv, PlacesInv, InGuarded, Installed, CoveredInv, Aimed,
                    AimInv, AlarmInv, CleanInv, JumpsLandUnlessExit, JumpsLand
<1>4. CASE SetJump
  BY <1>t, <1>4 DEF TypeOK, SetJump, IInv, PlacesInv, InGuarded, Installed, CoveredInv, Aimed, AimInv,
                    AlarmInv, CleanInv, JumpsLandUnlessExit, JumpsLand
<1>5. CASE StartAlarm
  BY <1>t, <1>5 DEF StartAlarm, Watchdog, IInv, PlacesInv, InGuarded, Installed, CoveredInv, Aimed,
                    AimInv, AlarmInv, CleanInv, JumpsLandUnlessExit, JumpsLand
<1>6. CASE Finish
  BY <1>t, <1>6 DEF TypeOK, Finish, Ended, IInv, PlacesInv, InGuarded, Installed, CoveredInv, Aimed,
                    AimInv, AlarmInv, CleanInv, JumpsLandUnlessExit, JumpsLand
<1>7. CASE CancelAlarm
  BY <1>t, <1>7 DEF CancelAlarm, Cancelled, IInv, PlacesInv, InGuarded, Installed, CoveredInv, Aimed,
                    AimInv, AlarmInv, CleanInv, JumpsLandUnlessExit, JumpsLand
<1>8. CASE LowerGuard
  BY <1>t, <1>8 DEF LowerGuard, IInv, PlacesInv, InGuarded, Installed, CoveredInv, Aimed, AimInv,
                    AlarmInv, CleanInv, JumpsLandUnlessExit, JumpsLand
<1>9. CASE GuardedReturn
  BY <1>t, <1>9 DEF GuardedReturn, Return, IInv, PlacesInv, InGuarded, Installed, CoveredInv, Aimed,
                    AimInv, AlarmInv, CleanInv, JumpsLandUnlessExit, JumpsLand
<1>10. CASE PlainReturn
  BY <1>t, <1>10 DEF PlainReturn, Return, IInv, PlacesInv, InGuarded, Installed, CoveredInv, Aimed,
                    AimInv, AlarmInv, CleanInv, JumpsLandUnlessExit, JumpsLand
<1>11. CASE TriangleExits
  <2>1. Live(triangle_jmpbuf)
    BY <1>11 DEF TriangleExits, Live, IInv, PlacesInv
  <2> QED
    BY <1>t, <1>11, <2>1 DEF TypeOK, TriangleExits, Return, IInv, PlacesInv, InGuarded, Installed,
                    CoveredInv, Aimed, AimInv, AlarmInv, CleanInv, JumpsLandUnlessExit, JumpsLand
<1>12. CASE TriangleCrashes
  BY <1>12, HandlerKeeps, StopKeeps DEF TriangleCrashes
<1>13. CASE AlarmRings
  <2>1. CASE act["SIGALRM"] = "triangle_segv_handler"
    BY <1>13, <2>1, HandlerKeeps DEF AlarmRings
  <2>2. CASE act["SIGALRM"] = "ves_alarm_handler"
    <3>1. timeout'.limit = timeout.limit
      BY <1>t, <1>13, <2>2 DEF AlarmRings, TypeOK
    <3> QED
      BY <1>t, <1>13, <2>2, <3>1 DEF AlarmRings, IInv, PlacesInv, InGuarded, Installed, CoveredInv,
                    Aimed, AimInv, AlarmInv, CleanInv, JumpsLandUnlessExit, JumpsLand
  <2>3. CASE act["SIGALRM"] \notin {"triangle_segv_handler", "ves_alarm_handler"}
    BY <1>13, <2>3, StopKeeps DEF AlarmRings
  <2> QED BY <2>1, <2>2, <2>3
<1>14. CASE ves_hard_timeout_start
  <2>1. /\ act'["SIGSEGV"] = act["SIGSEGV"] /\ act'["SIGALRM"] = "ves_alarm_handler"
        /\ timeout'.limit = "running"
    BY <1>t, <1>14 DEF ves_hard_timeout_start, TypeOK, Signals
  <2> QED
    BY <1>t, <1>14, <2>1 DEF ves_hard_timeout_start, IInv, PlacesInv, InGuarded, Installed, CoveredInv,
                    Aimed, AimInv, AlarmInv, CleanInv, JumpsLandUnlessExit, JumpsLand
<1>15. CASE ves_hard_timeout_cancel
  <2>1. timeout'.limit = "cancelled"
    BY <1>t, <1>15 DEF ves_hard_timeout_cancel, TypeOK
  <2> QED
    BY <1>t, <1>15, <2>1 DEF ves_hard_timeout_cancel, IInv, PlacesInv, InGuarded, Installed, CoveredInv,
                    Aimed, AimInv, AlarmInv, CleanInv, JumpsLandUnlessExit, JumpsLand
<1>16. CASE Stopped \/ UNCHANGED vars
  BY <1>t, <1>16 DEF Stopped, vars, IInv, PlacesInv, InGuarded, Installed, CoveredInv, Aimed, AimInv,
                    AlarmInv, CleanInv, JumpsLandUnlessExit, JumpsLand
<1> QED
  BY <1>1, <1>2, <1>3, <1>4, <1>5, <1>6, <1>7, <1>8, <1>9, <1>10, <1>11, <1>12, <1>13, <1>14, <1>15,
     <1>16 DEF Next, Guarding

THEOREM Invariance == Spec => []IInv
<1> QED BY InitEstablishes, StepPreserves, PTL DEF Spec

(* A guarded call leaves no alarm, guard or handler of its own, unless a    *)
(* call ended by triexit (hole_fill.c:1081-1104).                           *)
THEOREM TraceCorrect == Spec => []LeavesNoTrace
<1>1. IInv => LeavesNoTrace
  BY DEF IInv, PlacesInv, AlarmInv, CleanInv, Installed, InGuarded, LeavesNoTrace
<1> QED BY <1>1, Invariance, PTL

(* Every jump lands in the call that set it, unless a call ended by triexit *)
(* or the program's own limit rings between the guard and sigsetjmp         *)
(* (hole_fill.c:880-896, 1079-1081).                                        *)
THEOREM JumpsCorrect == Spec => []JumpsLandUnlessExit
<1>1. IInv => JumpsLandUnlessExit
  BY DEF IInv
<1> QED BY <1>1, Invariance, PTL

(* Whatever happened before, a signal ends the process from inside a        *)
(* guarded call in two windows only: the program's alarm before the guard   *)
(* is up, and after a crash between the guard's fall and alarm(0)           *)
(* (hole_fill.c:1076-1079, 1083-1085).                                      *)
THEOREM ContainedCorrect == Spec => ContainedOutsideWindows
<1> DEFINE Windows == (alarm = "program" /\ pc = "installed") \/ (crashed /\ pc = "bare")
<1>1. ASSUME IInv, [Next]_vars, InGuarded, Running, status' = "killed"
      PROVE  Windows
  <2>1. TriangleCrashes \/ AlarmRings
    BY <1>1 DEF Next, Guarding, vars, Running, GuardedCall, PlainCall, Call, InstallHandlers, RaiseGuard,
                SetJump, StartAlarm, Finish, CancelAlarm, LowerGuard, GuardedReturn, PlainReturn,
                TriangleExits, Stop, ves_hard_timeout_start, ves_hard_timeout_cancel, Stopped
  <2>2. CASE TriangleCrashes
    BY <1>1, <2>2 DEF TriangleCrashes, TriangleHandler, At, IInv, CoveredInv, Installed
  <2>3. CASE AlarmRings
    <3>1. alarm # "none"
      BY <2>3 DEF AlarmRings
    <3>2. CASE act["SIGALRM"] = "triangle_segv_handler"
      BY <1>1, <2>3, <3>1, <3>2 DEF AlarmRings, TriangleHandler, IInv, TypeOK, Places, PlacesInv,
         CoveredInv, AlarmInv, Installed, InGuarded
    <3>3. CASE act["SIGALRM"] = "ves_alarm_handler"
      BY <1>1, <2>3, <3>3 DEF AlarmRings, Running
    <3>4. CASE act["SIGALRM"] \notin {"triangle_segv_handler", "ves_alarm_handler"}
      BY <1>1, <3>1, <3>4 DEF IInv, TypeOK, AlarmInv, CoveredInv
    <3> QED BY <3>2, <3>3, <3>4
  <2> QED BY <2>1, <2>2, <2>3
<1>2. IInv /\ [Next]_vars => [InGuarded /\ Running /\ status' = "killed" => Windows]_vars
  BY <1>1
<1> QED BY <1>2, Invariance, PTL DEF Spec, ContainedOutsideWindows
=============================================================================
