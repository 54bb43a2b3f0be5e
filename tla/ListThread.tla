----------------------------- MODULE ListThread -----------------------------
(***************************************************************************)
(* timer_list_thread_template: thread_impl_template over the list engine.  *)
(* A thread of its own (the body) processes the timers and sleeps on a     *)
(* condition variable until the first of them elapses or it is notified.   *)
(* Clients, and the timers' actions, call the methods from outside.        *)
(*                                                                         *)
(* A client's call holds the lock from its first to its last step and is   *)
(* one action.  The body holds it in several steps, see LockFree.          *)
(***************************************************************************)
EXTENDS ListEngine, TimerThread

\* There is no thread over a thread-unsafe engine.
ASSUME OneBody == Procs = {1} /\ ThreadSafe

vars == <<commonVars, engineVars, threadVars>>

LockFree == ~BodyHasLock(pc[1] \in {"check", "enter", "run"})

Init == EngineInit /\ ThreadInit

-----------------------------------------------------------------------------
\* Mutant: the body is notified of the first timer of an empty list only.
NotifyIfOnly(t) == body' = IF Len(list') = 1 THEN Notified(body) ELSE body

(***************************************************************************)
(* Clients.  activate and reschedule throw unless ensure_started() finds   *)
(* a thread; deactivate does not ask.                                      *)
(***************************************************************************)
NotifyIfFirst(t) == body' = IF Head(list') = t THEN Notified(body) ELSE body

CallActivate(t, pause, per) ==
  /\ LockFree /\ thread
  /\ Activate(t, pause, per)
  /\ NotifyIfFirst(t)
  /\ UNCHANGED <<thread, shutdown, wakeAt, joiner>>

CallReschedule(t, pause, per) ==
  /\ LockFree /\ thread
  /\ Reschedule(t, pause, per)
  /\ NotifyIfFirst(t)
  /\ UNCHANGED <<thread, shutdown, wakeAt, joiner>>

CallRescheduleThrows(t) ==
  /\ LockFree /\ thread
  /\ RescheduleThrows(t)
  /\ UNCHANGED threadVars

CallDeactivate(t) ==
  /\ LockFree
  /\ Deactivate(t)
  /\ UNCHANGED threadVars

TouchHolder(t) ==
  /\ Allocate(t) \/ Dismiss(t)
  /\ UNCHANGED threadVars

\* start, shutdown and join.
Locked == LockFree /\ LockedCall /\ UNCHANGED <<commonVars, engineVars>>

Unlocked == UnlockedJoin /\ UNCHANGED <<commonVars, engineVars>>

ClientStep ==
  \/ Locked
  \/ Unlocked
  \/ \E t \in Timers :
       \/ TouchHolder(t) \/ CallRescheduleThrows(t) \/ CallDeactivate(t)
       \/ \E pause \in Pauses, per \in Periods :
            CallActivate(t, pause, per) \/ CallReschedule(t, pause, per)

-----------------------------------------------------------------------------
(***************************************************************************)
(* The body.                                                               *)
(***************************************************************************)
LoopBegins == GetsLock /\ UNCHANGED <<commonVars, engineVars>>

LoopEnds == BodyReturns /\ ClearAll

LoopProcesses ==
  /\ BodyProcesses
  /\ \/ MakeExecList(1)
     \/ NothingElapsed /\ UNCHANGED <<commonVars, engineVars>>

Processes ==
  /\ body = "process"
  /\ \/ CheckPasses(1) \/ CheckFails(1) \/ CallAction(1) \/ FinishAction(1)
     \/ LockBack(1)
     \/ UtilizePeriodic(1) \/ UtilizeOther(1)
  /\ UNCHANGED threadVars

Sleeps ==
  /\ pc[1] = "idle"
  /\ SleepForNextEvent(list = <<>>, when[Head(list)])
  /\ UNCHANGED <<commonVars, engineVars>>

Wakes == TimesOut(now) /\ UNCHANGED <<commonVars, engineVars>>

WakesSpuriously == SpuriousWakeup /\ UNCHANGED <<commonVars, engineVars>>

BodyStep == LoopBegins \/ LoopEnds \/ LoopProcesses \/ Processes \/ Sleeps \/ Wakes

TimePasses == Tick /\ UNCHANGED <<refs, held, quantities, engineVars, threadVars>>

Next == TimePasses \/ ClientStep \/ BodyStep \/ WakesSpuriously

Spec == Init /\ [][Next]_vars

(***************************************************************************)
(* Fairness.  The operating system schedules the body and the joining      *)
(* threads, lets the body have the mutex, and wakes it when its time-out   *)
(* has passed; an action returns.  Nothing forces a client to call, or a   *)
(* spurious wakeup to happen.                                              *)
(***************************************************************************)
JoinGoesOn(c) ==
  /\ \/ JoinThrows(c) \/ JoinReturns(c)
     \/ LockFree /\ JoinResets(c)
  /\ UNCHANGED <<commonVars, engineVars>>

Fairness ==
  /\ WF_vars(TimePasses)
  /\ WF_vars(BodyStep)
  /\ \A c \in Joiners : WF_vars(JoinGoesOn(c))

FairSpec == Spec /\ Fairness

-----------------------------------------------------------------------------
TypeOK == EngineTypeOK /\ ThreadTypeOK

\* The engine's call and the body fit together.
BodyMatches == body # "process" => pc[1] = "idle"

(***************************************************************************)
(* No notification is lost that matters: while the body sleeps, shutdown   *)
(* has not been asked for, and it will wake no later than the first timer  *)
(* of the list elapses.  This is what the results of activate and          *)
(* reschedule and the repeated tests in sleep_for_next_event are for.      *)
(***************************************************************************)
NoLostWakeup ==
  /\ body = "wait" => ~shutdown /\ list = <<>>
  /\ body = "timed_wait" =>
       ~shutdown /\ (list # <<>> => wakeAt <= when[Head(list)])

IInv ==
  /\ EngineInv
  /\ TypeOK
  /\ JoinedOnce
  /\ BodyMatches
  /\ NoLostWakeup

-----------------------------------------------------------------------------
(***************************************************************************)
(* A timer that is due while the thread runs gets its action called, or is *)
(* deactivated or put off by a client: no interleaving of clients,         *)
(* notifications and wakeups makes the body sleep through it.              *)
(***************************************************************************)
DueTimerServed ==
  \A t \in Timers :
    Running /\ status[t] = "active" /\ when[t] <= now
      ~> t \in ran \/ status[t] = "deactivated" \/ when[t] > now
=============================================================================
