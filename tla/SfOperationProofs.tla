-------------------------- MODULE SfOperationProofs --------------------------
(* The inductive invariant of SfOperation and what follows from it.         *)
EXTENDS SfOperation, TLAPS

(* What the steps need of the types. *)
Domains ==
  /\ DOMAIN pc = Threads /\ DOMAIN tunes = Threads /\ DOMAIN todo = Threads /\ DOMAIN ctx = Threads
  /\ DOMAIN g_run_ctx = Threads /\ DOMAIN arena = Threads /\ DOMAIN Except_stack = Threads
  /\ DOMAIN rc = Threads /\ DOMAIN out = Threads /\ DOMAIN asked = Threads
  /\ DOMAIN filled = Threads

Contexts ==
  ctx \in [Threads -> [progress : BOOLEAN, cancel_requested : BOOLEAN,
                       deadline : {"none", "ahead", "past"}, timed_out : BOOLEAN]]

Left == todo \in [Threads -> Seq(Kinds)]

(* A call holds the mutex from LockOp to Unlock, its arena and its context  *)
(* from NewArena to sf_op_end, and a frame while in the body.               *)
GuardInv ==
  \A t \in Threads :
    /\ g_sf_op_mutex = t <=> pc[t] \notin {"out", "entering"}
    /\ pc[t] \in {"tuning", "body", "caught"} => arena[t] /\ g_run_ctx[t]
    /\ g_run_ctx[t] => arena[t]
    /\ arena[t] => pc[t] \in {"tuning", "body", "caught", "ending"}
    /\ Except_stack[t] = (IF pc[t] = "body" THEN 1 ELSE 0)

(* A call that goes on was neither cancelled nor found late.                *)
StopInv ==
  \A t \in Threads :
    /\ pc[t] \in {"entering", "locked", "tuning"} => rc[t] = "SF_OK"
    /\ pc[t] \in {"locked", "tuning", "body"} => ~ctx[t].cancel_requested /\ ~ctx[t].timed_out
    /\ pc[t] = "body" => rc[t] # "SF_CANCELLED"
    /\ asked[t] <=> rc[t] = "SF_CANCELLED"
    /\ rc[t] = "SF_ERROR_TIMEOUT" => ctx[t].deadline = "past"

EndsWithOutput(s) == s # <<>> /\ s[Len(s)] \in {"emit", "answer"}

(* What is left of a body ends with an output; once nothing is left and     *)
(* nothing failed, the outputs are complete.                                *)
OutInv ==
  \A t \in Threads :
    /\ pc[t] \in {"entering", "locked", "tuning"} => out[t] = "empty"
    /\ pc[t] \in {"locked", "tuning"} => EndsWithOutput(todo[t])
    /\ pc[t] = "body" /\ todo[t] # <<>> => EndsWithOutput(todo[t])
    /\ pc[t] = "body" /\ todo[t] = <<>> /\ rc[t] = "SF_OK" => out[t] = "complete"
    /\ pc[t] = "caught" /\ rc[t] = "SF_OK" => out[t] = "complete"
    /\ pc[t] \in {"ending", "out"} =>
         \/ out[t] = (IF rc[t] = "SF_OK" THEN "complete" ELSE "empty")
         \/ rc[t] # "SF_OK" /\ filled[t] = "early"

(* Once an output is filled in place for the last time, nothing fails.      *)
CannotFail(s) == \A i \in 1 .. Len(s) : s[i] \in Unfailing
LastInv ==
  \A t \in Threads :
    /\ filled[t] \in {"no", "early", "last"}
    /\ filled[t] = "last" =>
         /\ rc[t] = "SF_OK" /\ pc[t] \notin {"entering", "locked", "tuning"}
         /\ pc[t] = "body" => CannotFail(todo[t])

IInv == Domains /\ Contexts /\ Left /\ GuardInv /\ StopInv /\ OutInv /\ LastInv
-----------------------------------------------------------------------------
(* Each step keeps the domains of the functions. *)
LEMMA DomainsStep ==
  ASSUME Domains, [Next]_vars
  PROVE  Domains'
<1> USE OperationAssumption
<1> SUFFICES ASSUME NEW t \in Threads, Call(t) \/ Step(t) \/ DeadlinePasses(t)
             PROVE  Domains'
  <2>1. CASE Stopped
    BY <2>1 DEF Stopped, vars, guard, caller, program, Domains
  <2>2. CASE UNCHANGED vars
    BY <2>2 DEF vars, guard, caller, program, Domains
  <2> QED
    BY <2>1, <2>2 DEF Next
<1>1. CASE Call(t)
  BY <1>1 DEF At, Call, Domains, Goto, Status, guard, program
<1>2. CASE LockOp(t)
  BY <1>2 DEF At, Domains, Goto, LockOp, caller
<1>3. CASE NewArena(t)
  BY <1>3 DEF At, Domains, Forget, Goto, NewArena, Status, Unlocked, program
<1>4. CASE Tune(t)
  BY <1>4 DEF At, Domains, EndsGuard, Goto, Status, Tune, guard
<1>5. CASE Try(t)
  BY <1>5 DEF At, Domains, Goto, Try, caller, guard, program
<1>6. CASE Skip(t)
  BY <1>6 DEF At, AtStep, Domains, Done, Going, Skip, caller, guard
<1>7. CASE Alloc(t)
  BY <1>7 DEF Alloc, At, AtStep, Domains, Done, Going, Goto, PrevFrame, Raise, Status, guard
<1>8. CASE Work(t)
  BY <1>8 DEF At, AtStep, Domains, Done, Going, Goto, PrevFrame, Raise, Status, Work, guard
<1>9. CASE Stage(t)
  BY <1>9 DEF At, AtStep, Domains, Going, Goto, PrevFrame, Raise, Stage, Status, guard
<1>10. CASE Report(t)
  BY <1>10 DEF At, AtStep, Domains, Done, Going, Report, guard
<1>11. CASE Check(t)
  BY <1>11 DEF At, AtStep, CancelFirst, Check, Domains, Done, Going, Goto, Late, PrevFrame, Raise, RunCtx_check, Status, guard
<1>12. CASE Poll(t)
  BY <1>12 DEF At, AtStep, CancelFirst, Domains, Done, Going, Goto, Late, Poll, PrevFrame, Raise, RunCtx_check, RunCtx_progress_check, Status, guard
<1>13. CASE Emit(t)
  BY <1>13 DEF At, AtStep, Domains, Done, Emit, Emitted, Going, Status, guard
<1>13a. CASE Answer(t)
  BY <1>13a DEF At, AtStep, Domains, Answer, Done, Emitted, Filled, Going, Status, guard
<1>14. CASE EndTry(t)
  BY <1>14 DEF At, Domains, EndTry, Goto, PrevFrame, caller, guard, program
<1>15. CASE FreeOutputs(t)
  BY <1>15 DEF At, Domains, FreeOutputs, FreedOutputs, Going, Goto, guard, program
<1>16. CASE Pop(t)
  BY <1>16 DEF At, Domains, Pop, caller, program
<1>17. CASE Dispose(t)
  BY <1>17 DEF At, Dispose, Domains, caller, program
<1>18. CASE Unlock(t)
  BY <1>18 DEF At, Domains, Forget, Goto, Unlock, caller
<1>19. CASE DeadlinePasses(t)
  BY <1>19 DEF At, DeadlinePasses, Domains, caller, guard, program
<1> QED
  BY <1>1, <1>2, <1>3, <1>4, <1>5, <1>6, <1>7, <1>8, <1>9, <1>10, <1>11, <1>12, <1>13, <1>13a, <1>14, <1>15, <1>16, <1>17, <1>18, <1>19 DEF Step

(* What is left of a program once its first step is taken. *)
LEMMA Shortens ==
  ASSUME NEW s \in Seq(Kinds)
  PROVE  /\ <<>> \in Seq(Kinds)
         /\ s # <<>> => Tail(s) \in Seq(Kinds) /\ <<"always">> \o Tail(s) \in Seq(Kinds)
<1>1. <<"always">> \in Seq(Kinds)
  BY DEF Kinds
<1>2. s # <<>> => Tail(s) \in Seq(Kinds)
  OBVIOUS
<1>3. s # <<>> => <<"always">> \o Tail(s) \in Seq(Kinds)
  BY <1>1, <1>2
<1> QED
  BY <1>2, <1>3

(* Each step keeps the contexts to their type.                              *)
LEMMA ContextStep ==
  ASSUME Contexts, [Next]_vars
  PROVE  Contexts'
<1> USE OperationAssumption
<1> SUFFICES ASSUME NEW t \in Threads, Call(t) \/ Step(t) \/ DeadlinePasses(t)
             PROVE  Contexts'
  BY DEF Next, Stopped, vars, guard, program, caller, Contexts
<1>1. CASE Call(t) \/ Tune(t) \/ Try(t) \/ Skip(t) \/ Alloc(t) \/ Work(t) \/ Stage(t)
          \/ Report(t) \/ Emit(t) \/ Answer(t) \/ EndTry(t) \/ FreeOutputs(t) \/ Pop(t) \/ Dispose(t)
  BY <1>1 DEF Call, Tune, Try, Skip, Alloc, Work, Stage, Report, Emit, Answer, EndTry, FreeOutputs, Pop, Dispose, Contexts
<1>2. CASE LockOp(t)
  <2>1. PICK p \in Programs, progress \in BOOLEAN, limit \in BOOLEAN :
          ctx' = [ctx EXCEPT ![t] = [NoCtx EXCEPT !.progress = progress,
                                        !.deadline = IF limit THEN "ahead" ELSE "none"]]
    BY <1>2 DEF LockOp
  <2>2. [NoCtx EXCEPT !.progress = progress, !.deadline = IF limit THEN "ahead" ELSE "none"]
          \in [progress : BOOLEAN, cancel_requested : BOOLEAN,
               deadline : {"none", "ahead", "past"}, timed_out : BOOLEAN]
    BY DEF NoCtx
  <2> QED
    BY <2>1, <2>2 DEF Contexts
<1>3. CASE NewArena(t)
  BY <1>3 DEF NewArena, Forget, NoCtx, Contexts
<1>4. CASE Check(t)
  BY <1>4 DEF Check, RunCtx_check, CancelFirst, Late, Contexts
<1>5. CASE Poll(t)
  <2>1. PICK cancel \in BOOLEAN :
          RunCtx_check(t, [ctx[t] EXCEPT !.cancel_requested = ctx[t].cancel_requested \/ cancel])
    BY <1>5 DEF Poll, RunCtx_progress_check
  <2>2. ctx[t] \in [progress : BOOLEAN, cancel_requested : BOOLEAN,
                     deadline : {"none", "ahead", "past"}, timed_out : BOOLEAN]
    BY DEF Contexts
  <2>3. PICK c \in [progress : BOOLEAN, cancel_requested : BOOLEAN,
                     deadline : {"none", "ahead", "past"}, timed_out : BOOLEAN] :
          RunCtx_check(t, c)
    BY <2>1, <2>2
  <2> QED
    BY <2>3 DEF RunCtx_check, CancelFirst, Late, Contexts
<1>6. CASE Unlock(t)
  BY <1>6 DEF Unlock, Forget, NoCtx, Contexts
<1>7. CASE DeadlinePasses(t)
  BY <1>7 DEF DeadlinePasses, Contexts
<1> QED
  BY <1>1, <1>2, <1>3, <1>4, <1>5, <1>6, <1>7 DEF Step

(* Each step keeps the rest of a program to its type.                       *)
LEMMA LeftStep ==
  ASSUME Left, [Next]_vars
  PROVE  Left'
<1> USE OperationAssumption
<1> SUFFICES ASSUME NEW t \in Threads, Call(t) \/ Step(t) \/ DeadlinePasses(t)
             PROVE  Left'
  BY DEF Next, Stopped, vars, guard, program, caller, Left
<1>1. CASE Call(t) \/ Tune(t) \/ Try(t) \/ EndTry(t) \/ FreeOutputs(t) \/ Pop(t) \/ Dispose(t)
          \/ DeadlinePasses(t)
  BY <1>1 DEF Call, Tune, Try, EndTry, FreeOutputs, Pop, Dispose, DeadlinePasses, guard, program, Left
<1>2. CASE LockOp(t)
  BY <1>2 DEF LockOp, Left
<1>3. CASE NewArena(t)
  BY <1>3, Shortens DEF NewArena, Forget, program, Left
<1>4. CASE Skip(t)
  BY <1>4, Shortens DEF Skip, AtStep, Done, Left
<1>5. CASE Alloc(t)
  BY <1>5, Shortens DEF Alloc, AtStep, Done, Raise, Left
<1>6. CASE Work(t)
  BY <1>6, Shortens DEF Work, AtStep, Done, Raise, Left
<1>7. CASE Stage(t)
  <2>1. /\ <<"always">> \o Tail(todo[t]) \in Seq(Kinds) /\ <<>> \in Seq(Kinds)
    BY <1>7, Shortens DEF Stage, AtStep, Left
  <2>2. \E s \in Seq(Kinds) : todo' = [todo EXCEPT ![t] = s]
    BY <1>7, <2>1 DEF Stage, Raise
  <2> QED
    BY <2>2 DEF Left
<1>8. CASE Report(t)
  BY <1>8, Shortens DEF Report, AtStep, Done, Left
<1>9. CASE Check(t)
  <2>1. Tail(todo[t]) \in Seq(Kinds) /\ <<>> \in Seq(Kinds)
    BY <1>9, Shortens DEF Check, AtStep, Left
  <2>2. \E s \in Seq(Kinds) : todo' = [todo EXCEPT ![t] = s]
    BY <1>9, <2>1 DEF Check, RunCtx_check, Done, Raise
  <2> QED
    BY <2>2 DEF Left
<1>10. CASE Poll(t)
  <2>1. Tail(todo[t]) \in Seq(Kinds) /\ <<>> \in Seq(Kinds)
    BY <1>10, Shortens DEF Poll, AtStep, Left
  <2>2. PICK c : RunCtx_check(t, c)
    BY <1>10 DEF Poll, RunCtx_progress_check
  <2>3. \E s \in Seq(Kinds) : todo' = [todo EXCEPT ![t] = s]
    BY <2>1, <2>2 DEF RunCtx_check, Done, Raise
  <2> QED
    BY <2>3 DEF Left
<1>11. CASE Emit(t) \/ Answer(t)
  <2>1. todo[t] \in Seq(Kinds) /\ todo[t] # <<>> /\ todo' = [todo EXCEPT ![t] = Tail(todo[t])]
    BY <1>11 DEF Emit, Answer, AtStep, Done, Left
  <2> QED
    BY <2>1, Shortens DEF Left
<1>12. CASE Unlock(t)
  BY <1>12, Shortens DEF Unlock, Forget, Left
<1> QED
  BY <1>1, <1>2, <1>3, <1>4, <1>5, <1>6, <1>7, <1>8, <1>9, <1>10, <1>11, <1>12 DEF Step

(* Each step keeps what a call holds. *)
LEMMA GuardStep ==
  ASSUME Domains, GuardInv, [Next]_vars
  PROVE  GuardInv'
<1> USE OperationAssumption
<1> SUFFICES ASSUME NEW t \in Threads, Call(t) \/ Step(t) \/ DeadlinePasses(t)
             PROVE  GuardInv'
  <2>1. CASE Stopped
    BY <2>1 DEF Stopped, vars, guard, caller, program, Domains, GuardInv
  <2>2. CASE UNCHANGED vars
    BY <2>2 DEF vars, guard, caller, program, Domains, GuardInv
  <2> QED
    BY <2>1, <2>2 DEF Next
<1>1. CASE Call(t)
  BY <1>1 DEF At, Call, Domains, Goto, GuardInv, Status, guard, program
<1>2. CASE LockOp(t)
  BY <1>2 DEF At, Domains, Goto, GuardInv, LockOp, caller
<1>3. CASE NewArena(t)
  BY <1>3 DEF At, Domains, Forget, Goto, GuardInv, NewArena, Status, Unlocked, program
<1>4. CASE Tune(t)
  BY <1>4 DEF At, Domains, EndsGuard, Goto, GuardInv, Status, Tune, guard
<1>5. CASE Try(t)
  BY <1>5 DEF At, Domains, Goto, GuardInv, Try, caller, guard, program
<1>6. CASE Skip(t)
  BY <1>6 DEF At, AtStep, Domains, Done, Going, GuardInv, Skip, caller, guard
<1>7. CASE Alloc(t)
  BY <1>7 DEF Alloc, At, AtStep, Domains, Done, Going, Goto, GuardInv, PrevFrame, Raise, Status, guard
<1>8. CASE Work(t)
  BY <1>8 DEF At, AtStep, Domains, Done, Going, Goto, GuardInv, PrevFrame, Raise, Status, Work, guard
<1>9. CASE Stage(t)
  BY <1>9 DEF At, AtStep, Domains, Going, Goto, GuardInv, PrevFrame, Raise, Stage, Status, guard
<1>10. CASE Report(t)
  BY <1>10 DEF At, AtStep, Domains, Done, Going, GuardInv, Report, guard
<1>11. CASE Check(t)
  BY <1>11 DEF At, AtStep, CancelFirst, Check, Domains, Done, Going, Goto, GuardInv, Late, PrevFrame, Raise, RunCtx_check, Status, guard
<1>12. CASE Poll(t)
  BY <1>12 DEF At, AtStep, CancelFirst, Domains, Done, Going, Goto, GuardInv, Late, Poll, PrevFrame, Raise, RunCtx_check, RunCtx_progress_check, Status, guard
<1>13. CASE Emit(t)
  BY <1>13 DEF At, AtStep, Domains, Done, Emit, Emitted, Going, GuardInv, Status, guard
<1>13a. CASE Answer(t)
  BY <1>13a DEF At, AtStep, Domains, Answer, Done, Emitted, Filled, Going, GuardInv, Status, guard
<1>14. CASE EndTry(t)
  BY <1>14 DEF At, Domains, EndTry, Goto, GuardInv, PrevFrame, caller, guard, program
<1>15. CASE FreeOutputs(t)
  BY <1>15 DEF At, Domains, FreeOutputs, FreedOutputs, Going, Goto, GuardInv, guard, program
<1>16. CASE Pop(t)
  BY <1>16 DEF At, Domains, GuardInv, Pop, caller, program
<1>17. CASE Dispose(t)
  BY <1>17 DEF At, Dispose, Domains, GuardInv, caller, program
<1>18. CASE Unlock(t)
  BY <1>18 DEF At, Domains, Forget, Goto, GuardInv, Unlock, caller
<1>19. CASE DeadlinePasses(t)
  BY <1>19 DEF At, DeadlinePasses, Domains, GuardInv, caller, guard, program
<1> QED
  BY <1>1, <1>2, <1>3, <1>4, <1>5, <1>6, <1>7, <1>8, <1>9, <1>10, <1>11, <1>12, <1>13, <1>13a, <1>14, <1>15, <1>16, <1>17, <1>18, <1>19 DEF Step

(* A context c is asked whether to stop.  It is late or cancelled, the      *)
(* callback's answer being in c and in asked, and the clause that catches   *)
(* the exception tells the two apart.                                       *)
LEMMA CheckStops ==
  ASSUME Domains, StopInv, NEW t \in Threads, At(t, "body"), NEW c,
         DOMAIN c = {"progress", "cancel_requested", "deadline", "timed_out"},
         c.deadline = ctx[t].deadline, ~c.timed_out, RunCtx_check(t, c),
         asked'[t] <=> c.cancel_requested, \A u \in Threads \ {t} : asked'[u] = asked[u]
  PROVE  StopInv'
<1> DEFINE d == CancelFirst(c)
<1>1. /\ d.cancel_requested = c.cancel_requested /\ d.deadline = c.deadline
      /\ d.timed_out <=> ~c.cancel_requested /\ Late(c)
  BY DEF CancelFirst
<1>2. ctx' = [ctx EXCEPT ![t] = d]
  BY DEF RunCtx_check
<1>3. ctx'[t] = d /\ \A u \in Threads \ {t} : ctx'[u] = ctx[u]
  BY <1>2 DEF Domains
<1> HIDE DEF d
<1>4. pc[t] = "body" /\ rc[t] # "SF_CANCELLED"
  BY DEF At, StopInv
<1>5. CASE c.cancel_requested \/ Late(c)
  <2>1. /\ pc' = [pc EXCEPT ![t] = "caught"]
        /\ rc' = [rc EXCEPT ![t] = IF d.timed_out THEN "SF_ERROR_TIMEOUT" ELSE "SF_CANCELLED"]
    BY <1>3, <1>5 DEF RunCtx_check, Raise, Goto, Status
  <2>2. pc'[t] = "caught" /\ \A u \in Threads \ {t} : pc'[u] = pc[u] /\ rc'[u] = rc[u]
    BY <2>1 DEF Domains
  <2>3. CASE c.cancel_requested
    <3>1. rc'[t] = "SF_CANCELLED"
      BY <1>1, <2>1, <2>3 DEF Domains
    <3> QED
      BY <1>3, <2>2, <2>3, <3>1 DEF StopInv
  <2>4. CASE ~c.cancel_requested
    <3>1. rc'[t] = "SF_ERROR_TIMEOUT" /\ d.deadline = "past"
      BY <1>1, <1>5, <2>1, <2>4 DEF Domains, Late
    <3> QED
      BY <1>3, <2>2, <2>4, <3>1 DEF StopInv
  <2> QED
    BY <2>3, <2>4
<1>6. CASE ~(c.cancel_requested \/ Late(c))
  <2>1. pc' = pc /\ rc' = rc
    BY <1>6 DEF RunCtx_check
  <2>2. ~d.cancel_requested /\ ~d.timed_out /\ ~asked'[t]
    BY <1>1, <1>6
  <2>3. rc[t] = "SF_ERROR_TIMEOUT" => d.deadline = "past"
    BY <1>1, <1>3, <1>6, <1>4 DEF StopInv, RunCtx_check
  <2> QED
    BY <1>3, <1>4, <2>1, <2>2, <2>3 DEF StopInv
<1> QED
  BY <1>5, <1>6

(* Each step keeps the reason a call stops for. *)
LEMMA StopStep ==
  ASSUME Domains, Contexts, StopInv, [Next]_vars
  PROVE  StopInv'
<1> USE OperationAssumption
<1> SUFFICES ASSUME NEW t \in Threads, Call(t) \/ Step(t) \/ DeadlinePasses(t)
             PROVE  StopInv'
  <2>1. CASE Stopped
    BY <2>1 DEF Stopped, vars, guard, caller, program, Domains, Contexts, StopInv, NoCtx
  <2>2. CASE UNCHANGED vars
    BY <2>2 DEF vars, guard, caller, program, Domains, Contexts, StopInv, NoCtx
  <2> QED
    BY <2>1, <2>2 DEF Next
<1>1. CASE Call(t)
  BY <1>1 DEF At, Call, Contexts, Domains, Goto, NoCtx, Status, StopInv, guard, program
<1>2. CASE LockOp(t)
  BY <1>2 DEF At, Contexts, Domains, Goto, LockOp, NoCtx, StopInv, caller
<1>3. CASE NewArena(t)
  BY <1>3 DEF At, Contexts, Domains, Forget, Goto, NewArena, NoCtx, Status, StopInv, Unlocked, program
<1>4. CASE Tune(t)
  BY <1>4 DEF At, Contexts, Domains, EndsGuard, Goto, NoCtx, Status, StopInv, Tune, guard
<1>5. CASE Try(t)
  BY <1>5 DEF At, Contexts, Domains, Goto, NoCtx, StopInv, Try, caller, guard, program
<1>6. CASE Skip(t)
  BY <1>6 DEF At, AtStep, Contexts, Domains, Done, Going, NoCtx, Skip, StopInv, caller, guard
<1>7. CASE Alloc(t)
  BY <1>7 DEF Alloc, At, AtStep, Contexts, Domains, Done, Going, Goto, NoCtx, PrevFrame, Raise, Status, StopInv, guard
<1>8. CASE Work(t)
  BY <1>8 DEF At, AtStep, Contexts, Domains, Done, Going, Goto, NoCtx, PrevFrame, Raise, Status, StopInv, Work, guard
<1>9. CASE Stage(t)
  BY <1>9 DEF At, AtStep, Contexts, Domains, Going, Goto, NoCtx, PrevFrame, Raise, Stage, Status, StopInv, guard
<1>10. CASE Report(t)
  BY <1>10 DEF At, AtStep, Contexts, Domains, Done, Going, NoCtx, Report, StopInv, guard
<1>11. CASE Check(t)
  <2>1. /\ pc[t] = "body" /\ ~ctx[t].cancel_requested /\ ~ctx[t].timed_out /\ ~asked[t]
    BY <1>11 DEF Check, AtStep, At, StopInv
  <2> QED
    BY <1>11, <2>1, CheckStops DEF Check, AtStep, Contexts
<1>12. CASE Poll(t)
  <2>1. /\ At(t, "body") /\ pc[t] = "body" /\ ~ctx[t].cancel_requested /\ ~ctx[t].timed_out
        /\ ~asked[t]
    BY <1>12 DEF Poll, AtStep, At, StopInv
  <2>2. PICK cancel \in BOOLEAN :
          /\ cancel => ctx[t].progress
          /\ asked' = [asked EXCEPT ![t] = asked[t] \/ cancel]
          /\ RunCtx_check(t, [ctx[t] EXCEPT !.cancel_requested = ctx[t].cancel_requested \/ cancel])
    BY <1>12 DEF Poll, RunCtx_progress_check
  <2> DEFINE c == [ctx[t] EXCEPT !.cancel_requested = ctx[t].cancel_requested \/ cancel]
  <2>3. /\ DOMAIN c = {"progress", "cancel_requested", "deadline", "timed_out"}
        /\ c.timed_out = ctx[t].timed_out /\ (c.cancel_requested <=> cancel)
        /\ c.deadline = ctx[t].deadline
    BY <2>1 DEF Contexts
  <2>4. (asked'[t] <=> cancel) /\ \A u \in Threads \ {t} : asked'[u] = asked[u]
    BY <2>1, <2>2 DEF Domains
  <2>5. RunCtx_check(t, c)
    BY <2>2
  <2> HIDE DEF c
  <2>6. ~c.timed_out /\ (asked'[t] <=> c.cancel_requested)
    BY <2>1, <2>3, <2>4
  <2>7. DOMAIN c = {"progress", "cancel_requested", "deadline", "timed_out"}
    BY <2>3
  <2>8. c.deadline = ctx[t].deadline /\ \A u \in Threads \ {t} : asked'[u] = asked[u]
    BY <2>3, <2>4
  <2> QED
    BY <2>1, <2>5, <2>6, <2>7, <2>8, CheckStops
<1>13. CASE Emit(t)
  BY <1>13 DEF At, AtStep, Contexts, Domains, Done, Emit, Emitted, Going, NoCtx, Status, StopInv, guard
<1>13a. CASE Answer(t)
  BY <1>13a DEF At, Answer, AtStep, Contexts, Domains, Done, Emitted, Filled, Going, NoCtx, Status, StopInv, guard
<1>14. CASE EndTry(t)
  BY <1>14 DEF At, Contexts, Domains, EndTry, Goto, NoCtx, PrevFrame, StopInv, caller, guard, program
<1>15. CASE FreeOutputs(t)
  BY <1>15 DEF At, Contexts, Domains, FreeOutputs, FreedOutputs, Going, Goto, NoCtx, StopInv, guard, program
<1>16. CASE Pop(t)
  BY <1>16 DEF At, Contexts, Domains, NoCtx, Pop, StopInv, caller, program
<1>17. CASE Dispose(t)
  BY <1>17 DEF At, Contexts, Dispose, Domains, NoCtx, StopInv, caller, program
<1>18. CASE Unlock(t)
  BY <1>18 DEF At, Contexts, Domains, Forget, Goto, NoCtx, StopInv, Unlock, caller
<1>19. CASE DeadlinePasses(t)
  BY <1>19 DEF At, Contexts, DeadlinePasses, Domains, NoCtx, StopInv, caller, guard, program
<1> QED
  BY <1>1, <1>2, <1>3, <1>4, <1>5, <1>6, <1>7, <1>8, <1>9, <1>10, <1>11, <1>12, <1>13, <1>13a, <1>14, <1>15, <1>16, <1>17, <1>18, <1>19 DEF Step

(* What taking the first step off does to the end of what is left.          *)
LEMMA TailEnds ==
  ASSUME NEW s \in Seq(Kinds), s # <<>>, EndsWithOutput(s)
  PROVE  /\ Tail(s) # <<>> => EndsWithOutput(Tail(s))
         /\ Tail(s) = <<>> => Head(s) \in {"emit", "answer"} /\ Len(s) = 1
<1>1. Tail(s) \in Seq(Kinds) /\ Len(s) \in Nat \ {0} /\ Len(Tail(s)) = Len(s) - 1
  OBVIOUS
<1>2. ASSUME Tail(s) # <<>> PROVE EndsWithOutput(Tail(s))
  <2>1. Len(Tail(s)) \in Nat \ {0}
    BY <1>1, <1>2
  <2>2. Tail(s)[Len(Tail(s))] = s[Len(Tail(s)) + 1]
    BY <1>1, <2>1
  <2> QED
    BY <1>1, <1>2, <2>2 DEF EndsWithOutput
<1>3. ASSUME Tail(s) = <<>> PROVE Head(s) \in {"emit", "answer"} /\ Len(s) = 1
  <2>1. Len(s) = 1
    BY <1>1, <1>3
  <2>2. Head(s) = s[Len(s)]
    BY <2>1
  <2> QED
    BY <2>1, <2>2 DEF EndsWithOutput
<1> QED
  BY <1>2, <1>3

(* A stage is replaced by its poll.                                         *)
LEMMA StageEnds ==
  ASSUME NEW s \in Seq(Kinds), s # <<>>, EndsWithOutput(s), Tail(s) # <<>>
  PROVE  EndsWithOutput(<<"always">> \o Tail(s)) /\ <<"always">> \o Tail(s) # <<>>
<1> DEFINE r == Tail(s)
<1>1. r \in Seq(Kinds) /\ r # <<>> /\ EndsWithOutput(r)
  BY TailEnds
<1>2. <<"always">> \in Seq(Kinds) /\ Len(<<"always">>) = 1
  BY DEF Kinds
<1> HIDE DEF r
<1>3. /\ <<"always">> \o r \in Seq(Kinds) /\ Len(<<"always">> \o r) = 1 + Len(r)
      /\ Len(r) \in Nat \ {0}
  BY <1>1, <1>2
<1>4. (<<"always">> \o r)[1 + Len(r)] = r[Len(r)]
  BY <1>1, <1>2, <1>3
<1>5. <<"always">> \o r # <<>>
  BY <1>3
<1> QED
  BY <1>1, <1>3, <1>4, <1>5 DEF EndsWithOutput, r

(* Each step keeps the outputs. *)
LEMMA OutStep ==
  ASSUME Domains, Left, OutInv, LastInv, [Next]_vars
  PROVE  OutInv'
<1> USE OperationAssumption
<1> SUFFICES ASSUME NEW t \in Threads, Call(t) \/ Step(t) \/ DeadlinePasses(t)
             PROVE  OutInv'
  <2>1. CASE Stopped
    BY <2>1 DEF Stopped, vars, guard, caller, program, Domains, Left, OutInv, EndsWithOutput
  <2>2. CASE UNCHANGED vars
    BY <2>2 DEF vars, guard, caller, program, Domains, Left, OutInv, EndsWithOutput
  <2> QED
    BY <2>1, <2>2 DEF Next
<1>1. CASE Call(t)
  BY <1>1 DEF At, Call, Domains, EndsWithOutput, Goto, Left, OutInv, Status, guard, program
<1>2. CASE LockOp(t)
  BY <1>2 DEF At, Domains, EndsWithOutput, Goto, Left, LockOp, OutInv, caller
<1>3. CASE NewArena(t)
  BY <1>3 DEF At, Domains, EndsWithOutput, Forget, Goto, Left, NewArena, OutInv, Status, Unlocked, program
<1>4. CASE Tune(t)
  BY <1>4 DEF At, Domains, EndsGuard, EndsWithOutput, Goto, Left, OutInv, Status, Tune, guard
<1>5. CASE Try(t)
  BY <1>5 DEF At, Domains, EndsWithOutput, Goto, Left, OutInv, Try, caller, guard, program
<1>6. CASE Skip(t)
  BY <1>6, TailEnds DEF At, AtStep, Domains, Done, Going, Left, OutInv, Skip, caller, guard
<1>7. CASE Alloc(t) \/ Work(t) \/ Check(t) \/ Poll(t)
  <2>1. /\ pc[t] = "body" /\ todo[t] # <<>> /\ todo[t] \in Seq(Kinds)
        /\ Head(todo[t]) \notin {"emit", "answer"} /\ UNCHANGED <<out, filled>>
    BY <1>7 DEF Alloc, Work, Check, Poll, AtStep, At, Left
  <2>2. /\ EndsWithOutput(todo[t]) /\ Tail(todo[t]) # <<>>
    BY <2>1, TailEnds DEF OutInv
  <2>3. EndsWithOutput(Tail(todo[t]))
    BY <2>1, <2>2, TailEnds
  <2>4. ASSUME NEW c, RunCtx_check(t, c)
        PROVE  \/ Done(t) /\ UNCHANGED <<pc, rc>>
               \/ \E status : status # "SF_OK" /\ Raise(t, status)
    BY <2>4 DEF RunCtx_check
  <2>5. \/ Done(t) /\ UNCHANGED pc /\ (UNCHANGED rc \/ Status(t, "SF_ERROR"))
        \/ \E status : status # "SF_OK" /\ Raise(t, status)
    <3>1. CASE Alloc(t) \/ Work(t)
      BY <3>1 DEF Alloc, Work
    <3>2. CASE Check(t)
      BY <3>2, <2>4 DEF Check
    <3>3. CASE Poll(t)
      <4>1. PICK c : RunCtx_check(t, c)
        BY <3>3 DEF Poll, RunCtx_progress_check
      <4> QED BY <4>1, <2>4
    <3> QED BY <1>7, <3>1, <3>2, <3>3
  <2>6. CASE Done(t) /\ UNCHANGED <<pc, rc>>
    BY <2>1, <2>2, <2>3, <2>6 DEF Done, Domains, OutInv
  <2>7. CASE Done(t) /\ UNCHANGED pc /\ Status(t, "SF_ERROR")
    BY <2>1, <2>2, <2>3, <2>7 DEF Done, Status, Domains, OutInv
  <2>8. ASSUME NEW status, status # "SF_OK", Raise(t, status)
        PROVE  OutInv'
    BY <2>1, <2>8 DEF Raise, Goto, Status, Domains, OutInv
  <2> QED
    BY <2>5, <2>6, <2>7, <2>8
<1>9. CASE Stage(t)
  <2>1. /\ pc[t] = "body" /\ todo[t] # <<>> /\ todo[t] \in Seq(Kinds) /\ Head(todo[t]) = "stage"
        /\ UNCHANGED <<out, filled>>
    BY <1>9 DEF Stage, AtStep, At, Left
  <2>2. EndsWithOutput(todo[t])
    BY <2>1 DEF OutInv
  <2>3. Tail(todo[t]) # <<>>
    BY <2>1, <2>2, TailEnds
  <2>4. LET s == <<"always">> \o Tail(todo[t]) IN EndsWithOutput(s) /\ s # <<>>
    BY <2>1, <2>2, <2>3, StageEnds
  <2>5. CASE Raise(t, "SF_ERROR_OOM")
    BY <2>1, <2>5 DEF Raise, Goto, Status, Domains, OutInv
  <2> DEFINE s == <<"always">> \o Tail(todo[t])
  <2>6. CASE todo' = [todo EXCEPT ![t] = s] /\ pc' = pc
    <3>1. todo'[t] = s /\ \A u \in Threads \ {t} : todo'[u] = todo[u]
      BY <2>6 DEF Domains
    <3>2. \A u \in Threads \ {t} : rc'[u] = rc[u]
      BY <1>9 DEF Stage, Raise, Status, Domains
    <3>3. EndsWithOutput(s) /\ s # <<>>
      BY <2>4
    <3> HIDE DEF s
    <3> QED
      BY <2>1, <2>6, <3>1, <3>2, <3>3 DEF OutInv
  <2> QED
    BY <1>9, <2>5, <2>6 DEF Stage
<1>10. CASE Report(t)
  BY <1>10, TailEnds DEF At, AtStep, Domains, Done, Going, Left, OutInv, Report, guard
<1>13. CASE Emit(t) \/ Answer(t)
  <2>1. /\ pc[t] = "body" /\ todo[t] # <<>> /\ todo[t] \in Seq(Kinds) /\ rc[t] = "SF_OK"
        /\ UNCHANGED pc /\ todo' = [todo EXCEPT ![t] = Tail(todo[t])]
        /\ \A u \in Threads \ {t} : filled'[u] = filled[u]
    BY <1>13 DEF Emit, Answer, AtStep, At, Going, Left, Done, Domains
  <2>2. EndsWithOutput(todo[t])
    BY <2>1 DEF OutInv
  <2>3. /\ Tail(todo[t]) # <<>> => EndsWithOutput(Tail(todo[t]))
        /\ Tail(todo[t]) = <<>> => Len(todo[t]) = 1
    BY <2>1, <2>2, TailEnds
  <2>4. Len(todo[t]) = 1 => Emitted(t) = "complete"
    BY DEF Emitted, Rest
  <2>5. CASE out' = [out EXCEPT ![t] = Emitted(t)] /\ UNCHANGED rc
    BY <2>1, <2>3, <2>4, <2>5 DEF Domains, OutInv
  <2>6. CASE rc' = [rc EXCEPT ![t] = "SF_ERROR_OOM"] /\ UNCHANGED out
    BY <2>1, <2>3, <2>6 DEF Domains, OutInv
  <2> QED
    BY <1>13, <2>5, <2>6 DEF Emit, Answer, Status
<1>14. CASE EndTry(t)
  BY <1>14 DEF At, Domains, EndTry, EndsWithOutput, Goto, Left, OutInv, PrevFrame, caller, guard, program
<1>15. CASE FreeOutputs(t)
  BY <1>15 DEF At, Domains, EndsWithOutput, FreeOutputs, FreedOutputs, Going, Goto, LastInv, OutInv, guard, program
<1>16. CASE Pop(t)
  BY <1>16 DEF At, Domains, EndsWithOutput, Left, OutInv, Pop, caller, program
<1>17. CASE Dispose(t)
  BY <1>17 DEF At, Dispose, Domains, EndsWithOutput, Left, OutInv, caller, program
<1>18. CASE Unlock(t)
  BY <1>18 DEF At, Domains, EndsWithOutput, Forget, Goto, Left, OutInv, Unlock, caller
<1>19. CASE DeadlinePasses(t)
  BY <1>19 DEF At, DeadlinePasses, Domains, EndsWithOutput, Left, OutInv, caller, guard, program
<1> QED
  BY <1>1, <1>2, <1>3, <1>4, <1>5, <1>6, <1>7, <1>9, <1>10, <1>13, <1>14, <1>15, <1>16, <1>17, <1>18, <1>19 DEF Step

(* What is left of steps that cannot fail cannot fail, and its first step   *)
(* is one of them.                                                          *)
LEMMA TailCannotFail ==
  ASSUME NEW s \in Seq(Kinds), s # <<>>
  PROVE  /\ CannotFail(s) => Head(s) \in Unfailing /\ CannotFail(Tail(s))
         /\ {s[i] : i \in 2 .. Len(s)} \subseteq Unfailing => CannotFail(Tail(s))
<1>1. Tail(s) \in Seq(Kinds) /\ Len(s) \in Nat \ {0} /\ Len(Tail(s)) = Len(s) - 1
  OBVIOUS
<1>2. \A i \in 1 .. Len(Tail(s)) : Tail(s)[i] = s[i + 1] /\ i + 1 \in 2 .. Len(s) /\ i + 1 \in 1 .. Len(s)
  BY <1>1
<1>3. Head(s) = s[1] /\ 1 \in 1 .. Len(s)
  BY <1>1
<1> QED
  BY <1>1, <1>2, <1>3 DEF CannotFail

(* Each step keeps what is known once an output is filled for good.         *)
LEMMA LastStep ==
  ASSUME Domains, Left, LastInv, [Next]_vars
  PROVE  LastInv'
<1> USE OperationAssumption
<1> SUFFICES ASSUME NEW t \in Threads, Call(t) \/ Step(t) \/ DeadlinePasses(t)
             PROVE  LastInv'
  <2>1. CASE Stopped
    BY <2>1 DEF Stopped, vars, guard, caller, program, LastInv
  <2>2. CASE UNCHANGED vars
    BY <2>2 DEF vars, guard, caller, program, LastInv
  <2> QED
    BY <2>1, <2>2 DEF Next
(* A step that is not one of the body's, and has not failed.                *)
<1>1. CASE Call(t)
  BY <1>1 DEF Call, Goto, Status, guard, program, Domains, LastInv
<1>2. CASE LockOp(t) \/ NewArena(t) \/ Tune(t)
  <2>1. filled[t] # "last" /\ UNCHANGED filled
    BY <1>2 DEF LockOp, NewArena, Tune, At, caller, LastInv
  <2>2. \A u \in Threads \ {t} : pc'[u] = pc[u] /\ rc'[u] = rc[u] /\ todo'[u] = todo[u]
    BY <1>2 DEF LockOp, NewArena, Tune, Goto, Status, Forget, caller, program, Domains
  <2> QED
    BY <2>1, <2>2 DEF LastInv
<1>3. CASE Try(t)
  <2>1. filled[t] # "last" /\ UNCHANGED <<filled, rc, todo>>
    BY <1>3 DEF Try, At, caller, program, LastInv
  <2>2. \A u \in Threads \ {t} : pc'[u] = pc[u]
    BY <1>3 DEF Try, Goto, Domains
  <2> QED
    BY <2>1, <2>2 DEF LastInv
<1>4. CASE EndTry(t) \/ FreeOutputs(t) \/ Unlock(t)
  <2>1. UNCHANGED <<filled, rc>> /\ pc'[t] \in {"caught", "ending", "out"}
    BY <1>4 DEF EndTry, FreeOutputs, Unlock, Goto, caller, Domains
  <2>2. \A u \in Threads \ {t} : pc'[u] = pc[u] /\ todo'[u] = todo[u]
    BY <1>4 DEF EndTry, FreeOutputs, Unlock, Goto, Forget, program, Domains
  <2> QED
    BY <2>1, <2>2 DEF LastInv
<1>5. CASE Pop(t) \/ Dispose(t) \/ DeadlinePasses(t)
  BY <1>5 DEF Pop, Dispose, DeadlinePasses, caller, program, LastInv
(* A step of the body.                                                      *)
<1>6. CASE Skip(t) \/ Alloc(t) \/ Work(t) \/ Stage(t) \/ Check(t) \/ Poll(t) \/ Emit(t)
  <2>1. /\ pc[t] = "body" /\ todo[t] # <<>> /\ todo[t] \in Seq(Kinds) /\ UNCHANGED filled
        /\ Head(todo[t]) \notin Unfailing \/ rc[t] # "SF_OK"
    BY <1>6 DEF Skip, Alloc, Work, Stage, Check, Poll, Emit, AtStep, At, Going, Left, caller, Unfailing
  <2>2. filled[t] # "last"
    BY <2>1, TailCannotFail DEF LastInv
  <2>3. \A u \in Threads \ {t} : pc'[u] = pc[u] /\ rc'[u] = rc[u] /\ todo'[u] = todo[u]
    <3>1. CASE Skip(t) \/ Alloc(t) \/ Work(t) \/ Emit(t)
      BY <3>1 DEF Skip, Alloc, Work, Emit, Raise, Goto, Status, Done, caller, Domains
    <3>2. CASE Stage(t)
      BY <3>2 DEF Stage, Raise, Goto, Status, Domains
    <3>3. CASE Check(t)
      BY <3>3 DEF Check, RunCtx_check, Raise, Goto, Status, Done, Domains
    <3>4. CASE Poll(t)
      <4>1. PICK c : RunCtx_check(t, c)
        BY <3>4 DEF Poll, RunCtx_progress_check
      <4> QED
        BY <4>1 DEF RunCtx_check, Raise, Goto, Status, Done, Domains
    <3> QED BY <1>6, <3>1, <3>2, <3>3, <3>4
  <2> QED
    BY <2>1, <2>2, <2>3 DEF LastInv
<1>7. CASE Report(t) \/ Answer(t)
  <2>1. /\ pc[t] = "body" /\ todo[t] # <<>> /\ todo[t] \in Seq(Kinds) /\ rc[t] = "SF_OK"
        /\ UNCHANGED <<pc, rc>> /\ todo' = [todo EXCEPT ![t] = Tail(todo[t])]
    BY <1>7 DEF Report, Answer, AtStep, At, Going, Left, Done
  <2>2. \A u \in Threads \ {t} : filled'[u] = filled[u] /\ todo'[u] = todo[u]
    BY <1>7, <2>1 DEF Report, Answer, Domains
  <2>3. todo'[t] = Tail(todo[t])
    BY <2>1 DEF Domains
  <2>4. filled'[t] \in {"no", "early", "last"} /\ (filled'[t] = "last" => CannotFail(Tail(todo[t])))
    <3>1. CASE Report(t)
      BY <2>1, <3>1, TailCannotFail DEF Report, LastInv
    <3>2. CASE Answer(t)
      BY <2>1, <3>2, TailCannotFail DEF Answer, Filled, Rest, Domains
    <3> QED BY <1>7, <3>1, <3>2
  <2> QED
    BY <2>1, <2>2, <2>3, <2>4 DEF LastInv
<1> QED
  BY <1>1, <1>2, <1>3, <1>4, <1>5, <1>6, <1>7 DEF Step

(* The invariant of every behaviour, for any programs and any threads.      *)
LEMMA Invariance == Spec => []IInv
<1>1. Init => IInv
  BY OperationAssumption DEF Init, IInv, Domains, Contexts, Left, GuardInv, StopInv, OutInv, LastInv, NoCtx, Statuses, Kinds
<1>2. IInv /\ [Next]_vars => IInv'
  BY DomainsStep, ContextStep, LeftStep, GuardStep, StopStep, OutStep, LastStep DEF IInv
<1> QED
  BY <1>1, <1>2, PTL DEF Spec

(* Only one operation runs at a time, and each leaves its thread as it      *)
(* found it, whichever way it ends.                                         *)
THEOREM GuardCorrect == Spec => []GuardHeld
<1>1. IInv => GuardHeld
  BY OperationAssumption DEF IInv, GuardInv, GuardHeld, At
<1> QED
  BY Invariance, <1>1, PTL

(* A call returns SF_CANCELLED exactly if its callback asked for it, and    *)
(* SF_ERROR_TIMEOUT only after its deadline.                                *)
THEOREM StatusCorrect == Spec => []StatusTells
<1>1. IInv => StatusTells
  BY DEF IInv, StopInv, StatusTells, At
<1> QED
  BY Invariance, <1>1, PTL

(* Whatever the operations are, outputs are returned complete or empty,     *)
(* unless one was filled in place before a step that may fail.              *)
THEOREM OutputsCorrect == Spec => []OutputsWholeUnlessEarly
<1>1. IInv => OutputsWholeUnlessEarly
  BY DEF IInv, OutInv, OutputsWholeUnlessEarly, At
<1> QED
  BY Invariance, <1>1, PTL
-----------------------------------------------------------------------------
(* The rest of the type invariant. *)
PlacesTyped ==
  /\ g_sf_op_mutex \in Threads \cup {None}
  /\ pc \in [Threads -> {"out", "entering", "locked", "tuning", "body", "caught", "ending"}]
  /\ tunes \in [Threads -> Nat]
  /\ g_run_ctx \in [Threads -> BOOLEAN] /\ arena \in [Threads -> BOOLEAN]
  /\ calls \in Nat

AnswersTyped ==
  /\ rc \in [Threads -> Statuses]
  /\ out \in [Threads -> {"empty", "partial", "complete"}] /\ rep \in [Threads -> BOOLEAN]
  /\ filled \in [Threads -> {"no", "early", "last"}]
  /\ asked \in [Threads -> BOOLEAN]

FramesTyped == Except_stack \in [Threads -> 0 .. 1]

(* Each step keeps the places and the guard of a call to their types.       *)
LEMMA PlacesStep ==
  ASSUME PlacesTyped, [Next]_vars
  PROVE  PlacesTyped'
<1> USE OperationAssumption
<1> SUFFICES ASSUME NEW t \in Threads, Call(t) \/ Step(t) \/ DeadlinePasses(t)
             PROVE  PlacesTyped'
  <2>1. CASE Stopped
    BY <2>1 DEF Stopped, vars, guard, caller, program, PlacesTyped
  <2>2. CASE UNCHANGED vars
    BY <2>2 DEF vars, guard, caller, program, PlacesTyped
  <2> QED
    BY <2>1, <2>2 DEF Next
<1>1. CASE Call(t)
  <2>1. calls' \in Nat /\ UNCHANGED <<guard, program>>
    BY <1>1 DEF Call, PlacesTyped
  <2>2. pc' \in [Threads -> {"out", "entering", "locked", "tuning", "body", "caught", "ending"}]
    BY <1>1 DEF Call, Goto, PlacesTyped
  <2> QED
    BY <2>1, <2>2 DEF guard, program, PlacesTyped
<1>2. CASE LockOp(t)
  BY <1>2 DEF At, PlacesTyped, Goto, LockOp, caller
<1>3. CASE NewArena(t)
  <2>1. /\ arena' \in [Threads -> BOOLEAN] /\ g_run_ctx' \in [Threads -> BOOLEAN]
        /\ g_sf_op_mutex' \in Threads \cup {None} /\ calls' = calls
    BY <1>3 DEF NewArena, Unlocked, PlacesTyped
  <2>2. tunes' \in [Threads -> Nat]
    BY <1>3 DEF NewArena, Forget, program, PlacesTyped
  <2>3. pc' \in [Threads -> {"out", "entering", "locked", "tuning", "body", "caught", "ending"}]
    BY <1>3 DEF NewArena, Goto, PlacesTyped
  <2> QED
    BY <2>1, <2>2, <2>3 DEF PlacesTyped
<1>4. CASE Tune(t)
  BY <1>4 DEF At, PlacesTyped, EndsGuard, Goto, Status, Tune, guard
<1>5. CASE Try(t)
  BY <1>5 DEF At, PlacesTyped, Goto, Try, caller, guard, program
<1>6. CASE Skip(t)
  BY <1>6 DEF At, AtStep, PlacesTyped, Done, Going, Skip, caller, guard
<1>7. CASE Alloc(t)
  BY <1>7 DEF Alloc, At, AtStep, PlacesTyped, Done, Going, Goto, PrevFrame, Raise, Status, guard
<1>8. CASE Work(t)
  BY <1>8 DEF At, AtStep, PlacesTyped, Done, Going, Goto, PrevFrame, Raise, Status, Work, guard
<1>9. CASE Stage(t)
  BY <1>9 DEF At, AtStep, PlacesTyped, Going, Goto, PrevFrame, Raise, Stage, Status, guard
<1>10. CASE Report(t)
  BY <1>10 DEF At, AtStep, PlacesTyped, Done, Going, Report, guard
<1>11. CASE Check(t)
  BY <1>11 DEF At, AtStep, CancelFirst, Check, PlacesTyped, Done, Going, Goto, Late, PrevFrame, Raise, RunCtx_check, Status, guard
<1>12. CASE Poll(t)
  BY <1>12 DEF At, AtStep, CancelFirst, PlacesTyped, Done, Going, Goto, Late, Poll, PrevFrame, Raise, RunCtx_check, RunCtx_progress_check, Status, guard
<1>13. CASE Emit(t)
  BY <1>13 DEF At, AtStep, PlacesTyped, Done, Emit, Emitted, Going, Status, guard
<1>13a. CASE Answer(t)
  BY <1>13a DEF At, AtStep, PlacesTyped, Answer, Done, Emitted, Filled, Going, Status, guard
<1>14. CASE EndTry(t)
  BY <1>14 DEF At, PlacesTyped, EndTry, Goto, PrevFrame, caller, guard, program
<1>15. CASE FreeOutputs(t)
  BY <1>15 DEF At, PlacesTyped, FreeOutputs, FreedOutputs, Going, Goto, guard, program
<1>16. CASE Pop(t)
  BY <1>16 DEF At, PlacesTyped, Pop, caller, program
<1>17. CASE Dispose(t)
  BY <1>17 DEF At, Dispose, PlacesTyped, caller, program
<1>18. CASE Unlock(t)
  BY <1>18 DEF At, PlacesTyped, Forget, Goto, Unlock, caller
<1>19. CASE DeadlinePasses(t)
  BY <1>19 DEF At, DeadlinePasses, PlacesTyped, caller, guard, program
<1> QED
  BY <1>1, <1>2, <1>3, <1>4, <1>5, <1>6, <1>7, <1>8, <1>9, <1>10, <1>11, <1>12, <1>13, <1>13a, <1>14, <1>15, <1>16, <1>17, <1>18, <1>19 DEF Step

(* Each step keeps what a call returns to its type.                         *)
LEMMA AnswersStep ==
  ASSUME AnswersTyped, Contexts, [Next]_vars
  PROVE  AnswersTyped'
<1> USE OperationAssumption
<1> SUFFICES ASSUME NEW t \in Threads, Call(t) \/ Step(t) \/ DeadlinePasses(t)
             PROVE  AnswersTyped'
  <2>1. CASE Stopped
    BY <2>1 DEF Stopped, vars, guard, caller, program, AnswersTyped, Contexts, Statuses
  <2>2. CASE UNCHANGED vars
    BY <2>2 DEF vars, guard, caller, program, AnswersTyped, Contexts, Statuses
  <2> QED
    BY <2>1, <2>2 DEF Next
<1>1. CASE Call(t)
  BY <1>1 DEF At, Call, AnswersTyped, Contexts, Statuses, Goto, Status, guard, program
<1>2. CASE LockOp(t)
  BY <1>2 DEF At, AnswersTyped, Contexts, Statuses, Goto, LockOp, caller
<1>3. CASE NewArena(t)
  BY <1>3 DEF At, AnswersTyped, Contexts, Statuses, Forget, Goto, NewArena, Status, Unlocked, program
<1>4. CASE Tune(t)
  BY <1>4 DEF At, AnswersTyped, Contexts, Statuses, EndsGuard, Goto, Status, Tune, guard
<1>5. CASE Try(t)
  BY <1>5 DEF At, AnswersTyped, Contexts, Statuses, Goto, Try, caller, guard, program
<1>6. CASE Skip(t)
  BY <1>6 DEF At, AtStep, AnswersTyped, Contexts, Statuses, Done, Going, Skip, caller, guard
<1>7. CASE Alloc(t)
  BY <1>7 DEF Alloc, At, AtStep, AnswersTyped, Contexts, Statuses, Done, Going, Goto, PrevFrame, Raise, Status, guard
<1>8. CASE Work(t)
  BY <1>8 DEF At, AtStep, AnswersTyped, Contexts, Statuses, Done, Going, Goto, PrevFrame, Raise, Status, Work, guard
<1>9. CASE Stage(t)
  BY <1>9 DEF At, AtStep, AnswersTyped, Contexts, Statuses, Going, Goto, PrevFrame, Raise, Stage, Status, guard
<1>10. CASE Report(t)
  BY <1>10 DEF At, AtStep, AnswersTyped, Contexts, Statuses, Done, Going, Report, guard
<1>11. CASE Check(t)
  BY <1>11 DEF At, AtStep, CancelFirst, Check, AnswersTyped, Contexts, Statuses, Done, Going, Goto, Late, PrevFrame, Raise, RunCtx_check, Status, guard
<1>12. CASE Poll(t)
  BY <1>12 DEF At, AtStep, CancelFirst, AnswersTyped, Contexts, Statuses, Done, Going, Goto, Late, Poll, PrevFrame, Raise, RunCtx_check, RunCtx_progress_check, Status, guard
<1>13. CASE Emit(t)
  BY <1>13 DEF At, AtStep, AnswersTyped, Contexts, Statuses, Done, Emit, Emitted, Going, Status, guard
<1>13a. CASE Answer(t)
  BY <1>13a DEF At, AtStep, AnswersTyped, Contexts, Statuses, Answer, Done, Emitted, Filled, Going, Status, guard
<1>14. CASE EndTry(t)
  BY <1>14 DEF At, AnswersTyped, Contexts, Statuses, EndTry, Goto, PrevFrame, caller, guard, program
<1>15. CASE FreeOutputs(t)
  BY <1>15 DEF At, AnswersTyped, Contexts, Statuses, FreeOutputs, FreedOutputs, Going, Goto, guard, program
<1>16. CASE Pop(t)
  BY <1>16 DEF At, AnswersTyped, Contexts, Statuses, Pop, caller, program
<1>17. CASE Dispose(t)
  BY <1>17 DEF At, Dispose, AnswersTyped, Contexts, Statuses, caller, program
<1>18. CASE Unlock(t)
  BY <1>18 DEF At, AnswersTyped, Contexts, Statuses, Forget, Goto, Unlock, caller
<1>19. CASE DeadlinePasses(t)
  BY <1>19 DEF At, DeadlinePasses, AnswersTyped, Contexts, Statuses, caller, guard, program
<1> QED
  BY <1>1, <1>2, <1>3, <1>4, <1>5, <1>6, <1>7, <1>8, <1>9, <1>10, <1>11, <1>12, <1>13, <1>13a, <1>14, <1>15, <1>16, <1>17, <1>18, <1>19 DEF Step

(* Each step keeps the frames to their type: the invariant says when one is *)
(* pushed and popped.                                                       *)
LEMMA FramesStep ==
  ASSUME FramesTyped, GuardInv, [Next]_vars
  PROVE  FramesTyped'
<1> USE OperationAssumption
<1> SUFFICES ASSUME NEW t \in Threads, Call(t) \/ Step(t) \/ DeadlinePasses(t)
             PROVE  FramesTyped'
  BY DEF Next, Stopped, vars, guard, program, caller, FramesTyped
<1>1. CASE Call(t) \/ LockOp(t) \/ NewArena(t) \/ Tune(t) \/ Skip(t) \/ Report(t) \/ Emit(t) \/ Answer(t)
          \/ FreeOutputs(t) \/ Pop(t) \/ Dispose(t) \/ Unlock(t) \/ DeadlinePasses(t)
  BY <1>1 DEF Call, LockOp, NewArena, Tune, Skip, Report, Emit, Answer, FreeOutputs, Pop, Dispose, Unlock, DeadlinePasses, FramesTyped
<1>2. CASE Try(t)
  BY <1>2 DEF Try, At, FramesTyped, GuardInv
<1>3. CASE Alloc(t)
  BY <1>3 DEF Alloc, AtStep, At, Raise, PrevFrame, FramesTyped, GuardInv
<1>4. CASE Work(t)
  BY <1>4 DEF Work, AtStep, At, Raise, PrevFrame, FramesTyped, GuardInv
<1>5. CASE Stage(t)
  BY <1>5 DEF Stage, AtStep, At, Raise, PrevFrame, FramesTyped, GuardInv
<1>6. CASE Check(t)
  BY <1>6 DEF Check, AtStep, At, RunCtx_check, Raise, PrevFrame, FramesTyped, GuardInv
<1>7. CASE Poll(t)
  BY <1>7 DEF Poll, AtStep, At, RunCtx_progress_check, RunCtx_check, Raise, PrevFrame, FramesTyped, GuardInv
<1>8. CASE EndTry(t)
  BY <1>8 DEF EndTry, At, PrevFrame, FramesTyped, GuardInv
<1> QED
  BY <1>1, <1>2, <1>3, <1>4, <1>5, <1>6, <1>7, <1>8 DEF Step

(* Every state is of its type. *)
THEOREM TypeCorrect == Spec => []TypeOK
<1>1. Init => TypeOK
  BY OperationAssumption DEF Init, TypeOK, NoCtx, Statuses, Kinds
<1>2. TypeOK <=> PlacesTyped /\ AnswersTyped /\ Contexts /\ Left /\ FramesTyped
  BY DEF TypeOK, PlacesTyped, AnswersTyped, Contexts, Left, FramesTyped
<1>3. IInv /\ TypeOK /\ [Next]_vars => TypeOK'
  <2>1. (TypeOK <=> PlacesTyped /\ AnswersTyped /\ Contexts /\ Left /\ FramesTyped)'
    BY DEF TypeOK, PlacesTyped, AnswersTyped, Contexts, Left, FramesTyped
  <2> QED
    BY <1>2, <2>1, PlacesStep, AnswersStep, ContextStep, LeftStep, FramesStep DEF IInv
<1> QED
  BY <1>1, <1>3, Invariance, PTL DEF Spec
=============================================================================
