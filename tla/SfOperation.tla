----------------------------- MODULE SfOperation -----------------------------
(***************************************************************************)
(* The guard around every operation of the C API (sf_op_begin and          *)
(* sf_op_end of src/api/scrollfiesta_api.c), the run context a call is     *)
(* cancelled through (src/common/run_ctx.c) and the exceptions that carry  *)
(* it out of the modules (src/common/except.h, except.c), under host       *)
(* threads that call operations at will.                                   *)
(*                                                                         *)
(* An operation is a program of SfPrograms; TLC takes Programs from there, *)
(* the proofs take any.  A frame of a TRY is counted, not kept.            *)
(***************************************************************************)
EXTENDS Integers, Sequences

CONSTANTS
  Threads,      \* of the host
  None,         \* the owner of a free mutex
  Programs,     \* [opts, tunes, body]: what the operations do
  MaxCalls      \* bound: operations called in a behaviour

Kinds == {"alloc", "work", "check", "poll", "stage", "always", "report", "emit", "answer"}
Statuses == {"SF_OK", "SF_ERROR", "SF_ERROR_BAD_ARG", "SF_ERROR_OOM", "SF_ERROR_TIMEOUT",
             "SF_CANCELLED"}

ASSUME OperationAssumption ==
  /\ None \notin Threads
  /\ Programs \subseteq [opts : BOOLEAN, tunes : Nat, body : Seq(Kinds)]
  /\ \A p \in Programs : p.body # <<>> /\ p.body[Len(p.body)] \in {"emit", "answer"}
  /\ MaxCalls \in Nat

VARIABLES
  g_sf_op_mutex,    \* its owner
  pc,               \* where each thread is
  tunes, todo,      \* what is left of its program: before the body, and of it
  ctx,              \* the SfRunCtx of its guard
  g_run_ctx,        \* whether the thread's context is pushed
  arena,            \* whether its guard has an arena
  Except_stack,     \* how many frames are on the thread's stack
  rc,               \* the status so far, then the one returned
  out, rep,         \* the outputs and the report of the call
  filled,           \* history: when an output was filled in place in this call
  asked,            \* history: the callback asked to cancel in this call
  calls             \* counted against the bound

guard == <<g_sf_op_mutex, g_run_ctx, arena>>
caller == <<rc, out, filled, rep>>
program == <<tunes, todo>>
vars == <<guard, pc, program, ctx, Except_stack, caller, asked, calls>>

NoCtx == [progress |-> FALSE, cancel_requested |-> FALSE, deadline |-> "none",
          timed_out |-> FALSE]

Init ==
  /\ g_sf_op_mutex = None
  /\ pc = [t \in Threads |-> "out"]
  /\ tunes = [t \in Threads |-> 0] /\ todo = [t \in Threads |-> <<>>]
  /\ ctx = [t \in Threads |-> NoCtx]
  /\ g_run_ctx = [t \in Threads |-> FALSE]
  /\ arena = [t \in Threads |-> FALSE]
  /\ Except_stack = [t \in Threads |-> 0]
  /\ rc = [t \in Threads |-> "SF_ERROR"]
  /\ out = [t \in Threads |-> "empty"]
  /\ filled = [t \in Threads |-> "no"]
  /\ rep = [t \in Threads |-> FALSE]
  /\ asked = [t \in Threads |-> FALSE]
  /\ calls = 0

At(t, place) == pc[t] = place
Goto(t, place) == pc' = [pc EXCEPT ![t] = place]
Status(t, status) == rc' = [rc EXCEPT ![t] = status]
-----------------------------------------------------------------------------
(* The call. *)

(* Nothing is in the outputs yet; the arguments may be refused.             *)
Call(t) ==
  /\ At(t, "out") /\ calls < MaxCalls
  /\ calls' = calls + 1
  /\ asked' = [asked EXCEPT ![t] = FALSE]
  /\ out' = [out EXCEPT ![t] = "empty"]
  /\ filled' = [filled EXCEPT ![t] = "no"]
  /\ rep' = [rep EXCEPT ![t] = FALSE]
  /\ \/ Goto(t, "entering") /\ Status(t, "SF_OK")
     \/ Status(t, "SF_ERROR_BAD_ARG") /\ UNCHANGED pc
  /\ UNCHANGED <<guard, program, ctx, Except_stack>>

(* sf_op_begin up to the arena: the program and the options are the         *)
(* caller's arguments, and the deadline counts from here.                   *)
LockOp(t) ==
  /\ At(t, "entering") /\ g_sf_op_mutex = None
  /\ g_sf_op_mutex' = t
  /\ \E p \in Programs, progress, limit \in BOOLEAN :
       /\ p.opts \/ ~(progress \/ limit)
       /\ tunes' = [tunes EXCEPT ![t] = p.tunes] /\ todo' = [todo EXCEPT ![t] = p.body]
       /\ ctx' = [ctx EXCEPT ![t] =
                    [NoCtx EXCEPT !.progress = progress,
                                  !.deadline = IF limit THEN "ahead" ELSE "none"]]
  /\ Goto(t, "locked")
  /\ UNCHANGED <<g_run_ctx, arena, Except_stack, caller, asked, calls>>

(* The guard is gone with the call; the deadline is kept as history.        *)
Forget(t) ==
  /\ tunes' = [tunes EXCEPT ![t] = 0] /\ todo' = [todo EXCEPT ![t] = <<>>]
  /\ ctx' = [ctx EXCEPT ![t] = [NoCtx EXCEPT !.deadline = ctx[t].deadline]]

KeepsLock(t) == g_sf_op_mutex     \* mutant: no unlock when there is no arena
Unlocked(t) == None

(* The rest of sf_op_begin. *)
NewArena(t) ==
  /\ At(t, "locked")
  /\ \/ /\ arena' = [arena EXCEPT ![t] = TRUE]
        /\ g_run_ctx' = [g_run_ctx EXCEPT ![t] = TRUE]
        /\ Goto(t, "tuning")
        /\ UNCHANGED <<g_sf_op_mutex, rc, program, ctx>>
     \/ /\ g_sf_op_mutex' = Unlocked(t)
        /\ Status(t, "SF_ERROR_OOM") /\ Forget(t) /\ Goto(t, "out")
        /\ UNCHANGED <<g_run_ctx, arena>>
  /\ UNCHANGED <<Except_stack, out, filled, rep, asked, calls>>

LeavesOpen == "out"               \* mutant: an early return without sf_op_end
EndsGuard == "ending"

(* An allocation before the body, in a TRY of its own. *)
Tune(t) ==
  /\ At(t, "tuning") /\ tunes[t] > 0
  /\ \/ tunes' = [tunes EXCEPT ![t] = @ - 1] /\ UNCHANGED <<pc, rc>>
     \/ Status(t, "SF_ERROR_OOM") /\ Goto(t, EndsGuard) /\ UNCHANGED tunes
  /\ UNCHANGED <<guard, todo, ctx, Except_stack, out, filled, rep, asked, calls>>

(* TRY of the body. *)
Try(t) ==
  /\ At(t, "tuning") /\ tunes[t] = 0
  /\ Except_stack' = [Except_stack EXCEPT ![t] = @ + 1]
  /\ Goto(t, "body")
  /\ UNCHANGED <<guard, program, ctx, caller, asked, calls>>
-----------------------------------------------------------------------------
(* The steps of the body. *)

AtStep(t, kinds) ==
  /\ At(t, "body") /\ todo[t] # <<>>
  /\ Head(todo[t]) \in kinds
Done(t) == todo' = [todo EXCEPT ![t] = Tail(@)]

PrevFrame(n) == n - 1

(* RAISE, to the frame of the body, and the clause that catches it.         *)
Raise(t, status) ==
  /\ Except_stack' = [Except_stack EXCEPT ![t] = PrevFrame(@)]
  /\ Status(t, status) /\ Goto(t, "caught")
  /\ todo' = [todo EXCEPT ![t] = <<>>]

Going(t) == rc[t] = "SF_OK"

(* What is not polled for regardless is left out once the call has failed.  *)
Skip(t) ==
  /\ AtStep(t, Kinds \ {"always"}) /\ ~Going(t)
  /\ Done(t)
  /\ UNCHANGED <<guard, pc, tunes, ctx, Except_stack, caller, asked, calls>>

Alloc(t) ==
  /\ AtStep(t, {"alloc"}) /\ Going(t)
  /\ \/ Done(t) /\ UNCHANGED <<pc, Except_stack, rc>>
     \/ Raise(t, "SF_ERROR_OOM")
  /\ UNCHANGED <<guard, tunes, ctx, out, filled, rep, asked, calls>>

(* SF_ERROR stands for every status an operation has for its own failures.  *)
Work(t) ==
  /\ AtStep(t, {"work"}) /\ Going(t)
  /\ \/ Done(t) /\ UNCHANGED <<pc, Except_stack, rc>>
     \/ Done(t) /\ Status(t, "SF_ERROR") /\ UNCHANGED <<pc, Except_stack>>
     \/ Raise(t, "SF_ERROR_OOM")
  /\ UNCHANGED <<guard, tunes, ctx, out, filled, rep, asked, calls>>

Stage(t) ==
  /\ AtStep(t, {"stage"}) /\ Going(t)
  /\ \/ /\ todo' = [todo EXCEPT ![t] = <<"always">> \o Tail(@)]
        /\ \/ \E given \in BOOLEAN : rep' = [rep EXCEPT ![t] = @ \/ given] /\ UNCHANGED rc
           \/ Status(t, "SF_ERROR") /\ UNCHANGED rep
        /\ UNCHANGED <<pc, Except_stack>>
     \/ Raise(t, "SF_ERROR_OOM") /\ UNCHANGED rep
  /\ UNCHANGED <<guard, tunes, ctx, out, filled, asked, calls>>

(* The caller may have passed no report. *)
Report(t) ==
  /\ AtStep(t, {"report"}) /\ Going(t)
  /\ \E given \in BOOLEAN : rep' = [rep EXCEPT ![t] = @ \/ given]
  /\ Done(t)
  /\ UNCHANGED <<guard, pc, tunes, ctx, Except_stack, rc, out, filled, asked, calls>>

Late(c) == c.deadline = "past"
DeadlineFirst(c) == [c EXCEPT !.timed_out = @ \/ Late(c)]     \* mutant: of the two
CancelFirst(c) == [c EXCEPT !.timed_out = @ \/ (~c.cancel_requested /\ Late(c))]

(* RunCtx_should_stop on the context c, and RAISE(Sf_Cancelled) if it says so. *)
RunCtx_check(t, c) ==
  /\ ctx' = [ctx EXCEPT ![t] = CancelFirst(c)]
  /\ IF c.cancel_requested \/ Late(c)
     THEN Raise(t, IF ctx'[t].timed_out THEN "SF_ERROR_TIMEOUT" ELSE "SF_CANCELLED")
     ELSE Done(t) /\ UNCHANGED <<pc, Except_stack, rc>>

(* The host answers the progress callback, if it gave one.                  *)
RunCtx_progress_check(t) ==
  \E cancel \in BOOLEAN :
    /\ cancel => ctx[t].progress
    /\ asked' = [asked EXCEPT ![t] = @ \/ cancel]
    /\ RunCtx_check(t, [ctx[t] EXCEPT !.cancel_requested = @ \/ cancel])

Check(t) ==
  /\ AtStep(t, {"check"}) /\ Going(t)
  /\ RunCtx_check(t, ctx[t])
  /\ UNCHANGED <<guard, tunes, out, filled, rep, asked, calls>>

Poll(t) ==
  /\ (AtStep(t, {"poll"}) /\ Going(t)) \/ AtStep(t, {"always"})
  /\ RunCtx_progress_check(t)
  /\ UNCHANGED <<guard, tunes, out, filled, rep, calls>>

Rest(t) == {todo[t][i] : i \in 2 .. Len(todo[t])}
Emitted(t) == IF Rest(t) \cap {"emit", "answer"} # {} THEN "partial" ELSE "complete"

Emit(t) ==
  /\ AtStep(t, {"emit"}) /\ Going(t)
  /\ \/ out' = [out EXCEPT ![t] = Emitted(t)] /\ UNCHANGED rc
     \/ Status(t, "SF_ERROR_OOM") /\ UNCHANGED out
  /\ Done(t)
  /\ UNCHANGED <<guard, pc, tunes, ctx, Except_stack, filled, rep, asked, calls>>

(* The caller's own output is filled in place: last, or early, when a step  *)
(* that may fail is still to come.                                          *)
Unfailing == {"report", "answer"}
Filled(t) == IF Rest(t) \subseteq Unfailing THEN "last" ELSE "early"

Answer(t) ==
  /\ AtStep(t, {"answer"}) /\ Going(t)
  /\ out' = [out EXCEPT ![t] = Emitted(t)]
  /\ filled' = [filled EXCEPT ![t] = Filled(t)]
  /\ Done(t)
  /\ UNCHANGED <<guard, pc, tunes, ctx, Except_stack, rc, rep, asked, calls>>
-----------------------------------------------------------------------------
(* The end of the call. *)

(* END_TRY of a body that raised nothing. *)
EndTry(t) ==
  /\ At(t, "body") /\ todo[t] = <<>>
  /\ Except_stack' = [Except_stack EXCEPT ![t] = PrevFrame(@)]
  /\ Goto(t, "caught")
  /\ UNCHANGED <<guard, program, ctx, caller, asked, calls>>

(* A failed call frees what it copied out; what it filled in place stays.   *)
KeepOutputs(t) == out[t]          \* mutant: outputs are not freed on failure
FreedOutputs(t) ==
  IF Going(t) THEN out[t] ELSE IF filled[t] = "no" THEN "empty" ELSE "partial"

FreeOutputs(t) ==
  /\ At(t, "caught")
  /\ out' = [out EXCEPT ![t] = FreedOutputs(t)]
  /\ Goto(t, "ending")
  /\ UNCHANGED <<guard, program, ctx, Except_stack, rc, filled, rep, asked, calls>>

(* sf_op_end: pop, dispose and unlock. *)
Pop(t) ==
  /\ At(t, "ending") /\ g_run_ctx[t]
  /\ g_run_ctx' = [g_run_ctx EXCEPT ![t] = FALSE]
  /\ UNCHANGED <<g_sf_op_mutex, arena, pc, program, ctx, Except_stack, caller, asked, calls>>

Dispose(t) ==
  /\ At(t, "ending") /\ ~g_run_ctx[t] /\ arena[t]
  /\ arena' = [arena EXCEPT ![t] = FALSE]
  /\ UNCHANGED <<g_sf_op_mutex, g_run_ctx, pc, program, ctx, Except_stack, caller, asked, calls>>

Unlock(t) ==
  /\ At(t, "ending") /\ ~g_run_ctx[t] /\ ~arena[t]
  /\ g_sf_op_mutex' = None
  /\ Forget(t) /\ Goto(t, "out")
  /\ UNCHANGED <<g_run_ctx, arena, Except_stack, caller, asked, calls>>

DeadlinePasses(t) ==
  /\ ctx[t].deadline = "ahead" /\ ~At(t, "out") /\ ~At(t, "entering")
  /\ ctx' = [ctx EXCEPT ![t].deadline = "past"]
  /\ UNCHANGED <<guard, pc, program, Except_stack, caller, asked, calls>>

(* One of the calling thread's own steps. *)
Step(t) ==
  \/ LockOp(t) \/ NewArena(t) \/ Tune(t) \/ Try(t)
  \/ Skip(t) \/ Alloc(t) \/ Work(t) \/ Stage(t) \/ Report(t) \/ Check(t) \/ Poll(t)
  \/ Emit(t) \/ Answer(t)
  \/ EndTry(t) \/ FreeOutputs(t) \/ Pop(t) \/ Dispose(t) \/ Unlock(t)

(* The host makes no more calls. *)
Stopped ==
  /\ calls = MaxCalls /\ \A t \in Threads : At(t, "out")
  /\ UNCHANGED vars

Next == (\E t \in Threads : Call(t) \/ Step(t) \/ DeadlinePasses(t)) \/ Stopped

Spec == Init /\ [][Next]_vars

(* Modules and callbacks return; the mutex goes to a waiting thread.        *)
FairSpec == Spec /\ \A t \in Threads : WF_vars(Step(t))
-----------------------------------------------------------------------------
(* Properties. *)

TypeOK ==
  /\ g_sf_op_mutex \in Threads \cup {None}
  /\ pc \in [Threads -> {"out", "entering", "locked", "tuning", "body", "caught", "ending"}]
  /\ tunes \in [Threads -> Nat] /\ todo \in [Threads -> Seq(Kinds)]
  /\ ctx \in [Threads -> [progress : BOOLEAN, cancel_requested : BOOLEAN,
                          deadline : {"none", "ahead", "past"}, timed_out : BOOLEAN]]
  /\ g_run_ctx \in [Threads -> BOOLEAN] /\ arena \in [Threads -> BOOLEAN]
  /\ Except_stack \in [Threads -> 0 .. 1]
  /\ rc \in [Threads -> Statuses]
  /\ out \in [Threads -> {"empty", "partial", "complete"}] /\ rep \in [Threads -> BOOLEAN]
  /\ filled \in [Threads -> {"no", "early", "last"}]
  /\ asked \in [Threads -> BOOLEAN] /\ calls \in Nat

(* Whatever a call's way out, its thread is left as it was found: no lock,  *)
(* context, arena or frame of the call remains (sf_internal.h:28-49).  A    *)
(* context is pushed only over an arena, where its tuning table is, an      *)
(* arena is held only under the mutex, and every raise of a body finds the  *)
(* body's own frame.                                                        *)
GuardHeld ==
  \A t \in Threads :
    /\ At(t, "out") => g_sf_op_mutex # t
    /\ g_run_ctx[t] => arena[t]
    /\ arena[t] => g_sf_op_mutex = t
    /\ At(t, "body") => g_run_ctx[t] /\ Except_stack[t] = 1
    /\ ~At(t, "body") => Except_stack[t] = 0

(* The status tells why a call stopped: it is SF_CANCELLED exactly if the   *)
(* callback asked for it, whatever the clock says by then, and it is        *)
(* SF_ERROR_TIMEOUT only after the deadline (run_ctx.c:32-44).              *)
StatusTells ==
  \A t \in Threads :
    At(t, "out") =>
      /\ rc[t] = "SF_CANCELLED" <=> asked[t]
      /\ rc[t] = "SF_ERROR_TIMEOUT" => ctx[t].deadline = "past"

(* The outputs a call returns are complete if it succeeds and empty if it   *)
(* does not, even if only the second of two did not fit                     *)
(* (scrollfiesta_api.c:7-10, sf_pipeline.c:153-166).  A failed call leaves  *)
(* one half made only if it was filled in place before a step that may fail *)
(* (scrollfiesta_api.c:368-380, 1530-1532).                                 *)
OutputsWholeUnlessEarly ==
  \A t \in Threads :
    At(t, "out") =>
      \/ out[t] = (IF rc[t] = "SF_OK" THEN "complete" ELSE "empty")
      \/ rc[t] # "SF_OK" /\ filled[t] = "early"

(* Every call returns, and so does one that waits for another's.            *)
CallsReturn == \A t \in Threads : ~At(t, "out") ~> At(t, "out")
=============================================================================
