----------------------------- MODULE HeapThread -----------------------------
(***************************************************************************)
(* timer_heap_thread_template: thread_impl_template over the heap engine.  *)
(* The body takes the elapsed timers one by one, and gives the lock away   *)
(* around every action, so that clients' calls come between them.          *)
(***************************************************************************)
EXTENDS HeapEngine, TimerThread

\* There is no thread over a thread-unsafe engine.
ASSUME OneBody == Procs = {1} /\ ThreadSafe

vars == <<commonVars, engineVars, threadVars>>

LockFree == ~BodyHasLock(pc[1] \in {"enter", "run"})

Init == EngineInit /\ ThreadInit

-----------------------------------------------------------------------------
\* Mutant: the body is notified of the first timer of an empty heap only.
NotifyIfOnly(t) == body' = IF Len(h'.heap) = 1 THEN Notified(body) ELSE body

(***************************************************************************)
(* Clients.  They do not deactivate and then activate the timer whose      *)
(* action runs: see the manager.                                           *)
(***************************************************************************)
NotifyIfFirst(t) == body' = IF Head(h'.heap) = t THEN Notified(body) ELSE body

CallActivate(t, pause, per) ==
  /\ LockFree /\ thread
  /\ t # inProcessing
  /\ Activate(t, pause, per)
  /\ NotifyIfFirst(t)
  /\ UNCHANGED <<thread, shutdown, wakeAt, joiner>>

CallReschedule(t, pause, per) ==
  /\ LockFree /\ thread
  /\ Reschedule(t, pause, per)
  /\ NotifyIfFirst(t)
  /\ UNCHANGED <<thread, shutdown, wakeAt, joiner>>

CallRescheduleThrows(t) ==
  /\ LockFree /\ thread
  /\ RescheduleThrows(t)
  /\ UNCHANGED threadVars

CallDeactivate(t) ==
  /\ LockFree
  /\ Deactivate(t)
  /\ UNCHANGED threadVars

TouchHolder(t) ==
  /\ Allocate(t) \/ Dismiss(t)
  /\ UNCHANGED threadVars

\* start, shutdown and join.
Locked == LockFree /\ LockedCall /\ UNCHANGED <<commonVars, engineVars>>

Unlocked == UnlockedJoin /\ UNCHANGED <<commonVars, engineVars>>

ClientStep ==
  \/ Locked
  \/ Unlocked
  \/ \E t \in Timers :
       \/ TouchHolder(t) \/ CallRescheduleThrows(t) \/ CallDeactivate(t)
       \/ \E pause \in Pauses, per \in Periods :
            CallActivate(t, pause, per) \/ CallReschedule(t, pause, per)

-----------------------------------------------------------------------------
(***************************************************************************)
(* The body.                                                               *)
(***************************************************************************)
LoopBegins == GetsLock /\ UNCHANGED <<commonVars, engineVars>>

LoopEnds == BodyReturns /\ ClearAll

LoopProcesses ==
  /\ BodyProcesses
  /\ \/ BeginCall(1)
     \/ ~HeadElapsed(now) /\ UNCHANGED <<commonVars, engineVars>>

Processes ==
  /\ body = "process"
  /\ \/ TakeHead(1) \/ EndCall(1)
     \/ CallAction(1) \/ FinishAction(1)
     \/ UtilizePeriodic(1) \/ UtilizeOther(1)
  /\ UNCHANGED threadVars

Sleeps ==
  /\ pc[1] = "idle"
  /\ SleepForNextEvent(h.heap = <<>>, when[Head(h.heap)])
  /\ UNCHANGED <<commonVars, engineVars>>

Wakes == TimesOut(now) /\ UNCHANGED <<commonVars, engineVars>>

WakesSpuriously == SpuriousWakeup /\ UNCHANGED <<commonVars, engineVars>>

BodyStep == LoopBegins \/ LoopEnds \/ LoopProcesses \/ Processes \/ Sleeps \/ Wakes

TimePasses == Tick /\ UNCHANGED <<refs, held, quantities, engineVars, threadVars>>

Next == TimePasses \/ ClientStep \/ BodyStep \/ WakesSpuriously

Spec == Init /\ [][Next]_vars

\* Fairness as in ListThread.
JoinGoesOn(c) ==
  /\ \/ JoinThrows(c) \/ JoinReturns(c)
     \/ LockFree /\ JoinResets(c)
  /\ UNCHANGED <<commonVars, engineVars>>

Fairness ==
  /\ WF_vars(TimePasses)
  /\ WF_vars(BodyStep)
  /\ \A c \in Joiners : WF_vars(JoinGoesOn(c))

FairSpec == Spec /\ Fairness

-----------------------------------------------------------------------------
\* The engine's call and the body fit together.
BodyMatches == body # "process" => pc[1] = "idle"

(***************************************************************************)
(* While the body sleeps, shutdown has not been asked for, and it will     *)
(* wake no later than the time point of the first timer of the heap, also  *)
(* when heap_remove and heap_add have moved other timers to the top.       *)
(***************************************************************************)
NoLostWakeup ==
  /\ body = "wait" => ~shutdown /\ h.heap = <<>>
  /\ body = "timed_wait" =>
       ~shutdown /\ (h.heap # <<>> => wakeAt <= when[Head(h.heap)])

IInv == EngineInv /\ ThreadTypeOK /\ JoinedOnce /\ BodyMatches

-----------------------------------------------------------------------------
(***************************************************************************)
(* A timer whose time point has passed while the thread runs leaves the    *)
(* heap, to be processed or by a client's call, or is put off by a client. *)
(***************************************************************************)
DueTimerServed ==
  \A t \in Timers :
    (Running /\ t \in ToSet(h.heap) /\ when[t] < now)
      ~> (t \notin ToSet(h.heap) \/ when[t] >= now)
=============================================================================
