---------------------------- MODULE TriangleGuard ----------------------------
(***************************************************************************)
(* The guard around the Triangle library on POSIX: safe_triangulate of     *)
(* src/holefill/hole_fill.c, the handler it installs and triexit of the    *)
(* vendored library; the calls of src/split/ that arm triexit's jump only; *)
(* and the hard timeout of src/common/ves_platform.c, which has the same   *)
(* process-wide alarm.                                                     *)
(*                                                                         *)
(* The statements of safe_triangulate that a signal may fall between are   *)
(* steps of their own.  A jump is modelled by the call whose frame it      *)
(* lands in: a jump to a frame that has returned is undefined behaviour    *)
(* and ends the model.                                                     *)
(***************************************************************************)
EXTENDS Integers

CONSTANTS
  MaxCalls,           \* bound: calls of triangulate in a behaviour
  HardTimeout         \* whether the program may be cube_mesh, which limits its own run

ASSUME CallsAssumption == MaxCalls \in Nat /\ HardTimeout \in BOOLEAN

VARIABLES
  status,             \* of the process: running, killed, or gone wild
  pc, kind, frame,    \* the call in progress, which guard it has, its number
  triangle_jmpbuf,    \* the frame triexit jumps to, 0 when triangle_jmpbuf_set is
  triangle_segv_jmpbuf, triangle_segv_guard,
  act, saved,         \* the disposition of each signal; sa_old_* of the call
  alarm,              \* who started the pending alarm of the process
  timeout,            \* the hard timeout's flag, and where its limit is
  rc,                 \* what the last call returned
  crashed, exited     \* history: this call crashed; a guarded call ended by triexit

jumps == <<triangle_jmpbuf, triangle_segv_jmpbuf, triangle_segv_guard>>
handlers == <<act, saved>>
signals == <<handlers, alarm, timeout>>
call == <<kind, frame>>
history == <<crashed, exited>>
vars == <<status, pc, call, jumps, signals, rc, history>>

Signals == {"SIGSEGV", "SIGALRM"}
Dispositions == {"default", "triangle_segv_handler", "ves_alarm_handler"}
Both(d) == [s \in Signals |-> d]

Init ==
  /\ status = "running" /\ pc = "out" /\ kind = "guarded" /\ frame = 0
  /\ triangle_jmpbuf = 0 /\ triangle_segv_jmpbuf = 0 /\ triangle_segv_guard = FALSE
  /\ act = Both("default") /\ saved = Both("default")
  /\ alarm = "none" /\ timeout = [flag |-> FALSE, limit |-> "none"]
  /\ rc = 0 /\ crashed = FALSE /\ exited = FALSE

Running == status = "running"
At(place) == Running /\ pc = place
Live(f) == pc # "out" /\ f = frame
-----------------------------------------------------------------------------
(* Up to triangulate. *)

(* The program makes no call after it has cancelled its limit.              *)
Call(k) ==
  /\ At("out") /\ frame < MaxCalls /\ timeout.limit # "cancelled"
  /\ frame' = frame + 1 /\ kind' = k /\ crashed' = FALSE
  /\ triangle_jmpbuf' = frame + 1
  /\ pc' = IF k = "guarded" THEN "called" ELSE "working"
  /\ UNCHANGED <<status, triangle_segv_jmpbuf, triangle_segv_guard, signals, rc, exited>>

GuardedCall == Call("guarded")
PlainCall == Call("plain")

InstallHandlers ==
  /\ At("called")
  /\ saved' = act /\ act' = Both("triangle_segv_handler")
  /\ pc' = "installed"
  /\ UNCHANGED <<status, call, jumps, alarm, timeout, rc, history>>

GuardForgotten == triangle_segv_guard    \* mutant: the handlers without the guard
GuardUp == TRUE

RaiseGuard ==
  /\ At("installed")
  /\ triangle_segv_guard' = GuardUp
  /\ pc' = "guarded"
  /\ UNCHANGED <<status, call, triangle_jmpbuf, triangle_segv_jmpbuf, signals, rc, history>>

(* sigsetjmp. *)
SetJump ==
  /\ At("guarded")
  /\ triangle_segv_jmpbuf' = frame
  /\ pc' = "aimed"
  /\ UNCHANGED <<status, call, triangle_jmpbuf, triangle_segv_guard, signals, rc, history>>

NoWatchdog == alarm                      \* mutant: the alarm is not started
Watchdog == "triangle"

StartAlarm ==
  /\ At("aimed")
  /\ alarm' = Watchdog
  /\ pc' = "working"
  /\ UNCHANGED <<status, call, jumps, handlers, timeout, rc, history>>
-----------------------------------------------------------------------------
(* From triangulate on. *)

(* mutant: the call returns without disarming *)
EndsAtOnce(k) == "out"
Ended(k) == IF k = "guarded" THEN "finished" ELSE "plain_end"

(* triangulate ends; until it does it may run for ever. *)
Finish ==
  /\ At("working")
  /\ pc' = Ended(kind)
  /\ UNCHANGED <<status, call, jumps, signals, rc, history>>

(* The same three statements disarm after triangulate and after the jump:   *)
(* alarm(0) is the first of them there, and the guard falls first here.     *)
NotCancelled == alarm                    \* mutant: no alarm(0)
Cancelled == "none"

CancelAlarm ==
  /\ \/ At("finished") /\ pc' = "cancelled"
     \/ At("bare") /\ pc' = "given_up"
  /\ alarm' = Cancelled
  /\ UNCHANGED <<status, call, jumps, handlers, timeout, rc, history>>

LowerGuard ==
  /\ \/ At("cancelled") /\ pc' = "lowered"
     \/ At("landed") /\ pc' = "bare"
  /\ triangle_segv_guard' = FALSE
  /\ UNCHANGED <<status, call, triangle_jmpbuf, triangle_segv_jmpbuf, signals, rc, history>>

Return(code) == pc' = "out" /\ rc' = code

(* The old handlers are put back and the call returns. *)
GuardedReturn ==
  /\ \/ At("lowered") /\ Return(0)
     \/ At("given_up") /\ Return(-1)
  /\ act' = saved /\ triangle_jmpbuf' = 0
  /\ UNCHANGED <<status, call, triangle_segv_jmpbuf, triangle_segv_guard, saved, alarm, timeout,
                 history>>

PlainReturn ==
  /\ At("plain_end") /\ Return(0)
  /\ triangle_jmpbuf' = 0
  /\ UNCHANGED <<status, call, triangle_segv_jmpbuf, triangle_segv_guard, signals, history>>

Stop(s) == status' = s /\ UNCHANGED <<pc, call, jumps, signals, rc, history>>

(* triexit jumps out of triangulate and the call returns at once.           *)
TriangleExits ==
  /\ At("working")
  /\ IF ~Live(triangle_jmpbuf)
     THEN Stop("wild")
     ELSE /\ triangle_jmpbuf' = 0 /\ Return(-1)
          /\ exited' = (exited \/ kind = "guarded")
          /\ UNCHANGED <<status, call, triangle_segv_jmpbuf, triangle_segv_guard, signals, crashed>>
-----------------------------------------------------------------------------
(* Signals. *)

(* triangle_segv_handler: the default action, which ends the process, or    *)
(* the jump.                                                                *)
TriangleHandler ==
  /\ status' = IF ~triangle_segv_guard THEN "killed"
               ELSE IF Live(triangle_segv_jmpbuf) THEN "running" ELSE "wild"
  /\ pc' = IF status' = "running" THEN "landed" ELSE pc
  /\ UNCHANGED <<call, jumps, handlers, timeout, rc, exited>>

(* Triangle follows a bad pointer. *)
TriangleCrashes ==
  /\ At("working")
  /\ IF act["SIGSEGV"] = "triangle_segv_handler"
     THEN TriangleHandler /\ crashed' = TRUE /\ UNCHANGED alarm
     ELSE Stop("killed")

(* The alarm runs out, wherever the program is, and its signal reaches this *)
(* thread.                                                                  *)
AlarmRings ==
  /\ Running /\ alarm # "none"
  /\ CASE act["SIGALRM"] = "triangle_segv_handler" ->
            TriangleHandler /\ alarm' = "none" /\ UNCHANGED crashed
       [] act["SIGALRM"] = "ves_alarm_handler" ->
            /\ timeout' = [timeout EXCEPT !.flag = @ \/ timeout.limit = "running"]
            /\ alarm' = "none"
            /\ UNCHANGED <<status, pc, call, jumps, handlers, rc, history>>
       [] OTHER -> Stop("killed")

(* cube_mesh limits its run: started before the stages, cancelled after     *)
(* them.                                                                    *)
ves_hard_timeout_start ==
  /\ HardTimeout /\ At("out") /\ frame = 0 /\ timeout.limit = "none"
  /\ timeout' = [flag |-> FALSE, limit |-> "running"]
  /\ act' = [act EXCEPT !["SIGALRM"] = "ves_alarm_handler"]
  /\ alarm' = "program"
  /\ UNCHANGED <<status, pc, call, jumps, saved, rc, history>>

ves_hard_timeout_cancel ==
  /\ At("out") /\ timeout.limit = "running"
  /\ timeout' = [timeout EXCEPT !.limit = "cancelled"]
  /\ alarm' = "none"
  /\ UNCHANGED <<status, pc, call, jumps, handlers, rc, history>>

(* Nothing happens any more: the process ended, or it has made its calls.   *)
Stopped ==
  /\ ~Running \/ (pc = "out" /\ (frame = MaxCalls \/ timeout.limit = "cancelled"))
  /\ UNCHANGED vars

(* The guard's own code. *)
Guarding ==
  InstallHandlers \/ RaiseGuard \/ SetJump \/ StartAlarm \/ CancelAlarm \/ LowerGuard \/ GuardedReturn

Next ==
  \/ GuardedCall \/ PlainCall \/ Guarding \/ Finish \/ PlainReturn
  \/ TriangleExits \/ TriangleCrashes \/ AlarmRings
  \/ ves_hard_timeout_start \/ ves_hard_timeout_cancel
  \/ Stopped

Spec == Init /\ [][Next]_vars

(* The thread runs its own code and time passes; triangulate may hang.      *)
FairSpec == Spec /\ WF_vars(Guarding) /\ WF_vars(AlarmRings)
-----------------------------------------------------------------------------
(* Properties. *)

Places == {"out", "called", "installed", "guarded", "aimed", "working", "finished", "cancelled",
           "lowered", "landed", "bare", "given_up", "plain_end"}

TypeOK ==
  /\ status \in {"running", "killed", "wild"}
  /\ pc \in Places /\ kind \in {"guarded", "plain"} /\ frame \in 0 .. MaxCalls
  /\ triangle_jmpbuf \in 0 .. MaxCalls /\ triangle_segv_jmpbuf \in 0 .. MaxCalls
  /\ triangle_segv_guard \in BOOLEAN
  /\ act \in [Signals -> Dispositions] /\ saved \in [Signals -> Dispositions]
  /\ alarm \in {"none", "triangle", "program"}
  /\ timeout \in [flag : BOOLEAN, limit : {"none", "running", "cancelled"}]
  /\ rc \in {-1, 0} /\ crashed \in BOOLEAN /\ exited \in BOOLEAN

(* Unless a call ended by triexit, a guarded call leaves no trace in the    *)
(* process: no alarm of its own, no guard, no handler, whatever way it      *)
(* ended and however late its alarm rang (hole_fill.c:1081-1104).           *)
LeavesNoTrace ==
  pc = "out" /\ ~exited =>
    /\ triangle_jmpbuf = 0 /\ ~triangle_segv_guard
    /\ alarm # "triangle"
    /\ act["SIGSEGV"] = "default" /\ act["SIGALRM"] # "triangle_segv_handler"

(* Every jump lands in the call that set it.  hole_fill.c:880-896 says that *)
(* the wrapper catches triexit, and that the program abandons the hole and  *)
(* carries on.                                                              *)
JumpsLand == status # "wild"

(* Jumps land as long as no guarded call has ended by triexit, except in    *)
(* one window: the program's own limit rings after the guard is raised and  *)
(* before the jump is set (hole_fill.c:1079-1081).                          *)
JumpsLandUnlessExit ==
  JumpsLand \/ exited \/ (timeout.limit = "running" /\ pc = "guarded")

InGuarded == pc # "out" /\ kind = "guarded"

(* A crash or a timeout is to be contained (hole_fill.c:880-896): a signal  *)
(* ends the process from inside a guarded call in two windows only, on the  *)
(* program's alarm before the guard is up, and on the call's own after a    *)
(* crash, when the guard has fallen and alarm(0) is still to come           *)
(* (hole_fill.c:1076-1079, 1083-1085).  A hang alone never ends it.         *)
ContainedOutsideWindows ==
  [][InGuarded /\ Running /\ status' = "killed" =>
       (alarm = "program" /\ pc = "installed") \/ (crashed /\ pc = "bare")]_vars

(* A guarded call ends even if triangulate never does (hole_fill.c:889-896).*)
GuardedCallsEnd == InGuarded ~> pc = "out" \/ ~Running
=============================================================================
