---------------------------- MODULE WheelThread -----------------------------
(***************************************************************************)
(* timer_wheel_thread_template: thread_impl_template over the wheel        *)
(* engine.  While there are timers the body wakes at every tick; without   *)
(* any it sleeps until it is notified, and the wheel stands still.         *)
(***************************************************************************)
EXTENDS WheelEngine, TimerThread

\* There is no thread over a thread-unsafe engine.
ASSUME ThreadIsSafe == ThreadSafe

vars == <<commonVars, engineVars, threadVars>>

LockFree == ~BodyHasLock(pc \in {"check", "enter", "run"})

Init == EngineInit /\ ThreadInit

-----------------------------------------------------------------------------
\* The sum of the two counters, a std::size_t.
TimerCount(q) == (q["single_shot"] + q["periodic"]) % (SizeMax + 1)

\* Mutant: the body is notified if the wheel was not empty.
NotifyIfMore == body' = IF TimerCount(quantities') # 1 THEN Notified(body) ELSE body

(***************************************************************************)
(* Clients.  Only the first timer of an empty wheel is worth a             *)
(* notification: reschedule of an active timer gives none.                 *)
(***************************************************************************)
NotifyIfOnly == body' = IF TimerCount(quantities') = 1 THEN Notified(body) ELSE body

CallActivate(t, pause, per) ==
  /\ LockFree /\ thread
  /\ Activate(t, pause, per)
  /\ NotifyIfOnly
  /\ UNCHANGED <<thread, shutdown, wakeAt, joiner>>

CallReschedule(t, pause, per) ==
  /\ LockFree /\ thread
  /\ Reschedule(t, pause, per)
  /\ UNCHANGED threadVars

CallRescheduleThrows(t) ==
  /\ LockFree /\ thread
  /\ RescheduleThrows(t)
  /\ UNCHANGED threadVars

CallDeactivate(t) ==
  /\ LockFree
  /\ Deactivate(t)
  /\ UNCHANGED threadVars

TouchHolder(t) ==
  /\ Allocate(t) \/ Dismiss(t)
  /\ UNCHANGED threadVars

\* start, shutdown and join.
Locked == LockFree /\ LockedCall /\ UNCHANGED <<commonVars, engineVars>>

Unlocked == UnlockedJoin /\ UNCHANGED <<commonVars, engineVars>>

ClientStep ==
  \/ Locked
  \/ Unlocked
  \/ \E t \in Timers :
       \/ TouchHolder(t) \/ CallRescheduleThrows(t) \/ CallDeactivate(t)
       \/ \E pause \in Pauses, per \in Periods :
            CallActivate(t, pause, per) \/ CallReschedule(t, pause, per)

-----------------------------------------------------------------------------
(***************************************************************************)
(* The body.                                                               *)
(***************************************************************************)
LoopBegins == GetsLock /\ UNCHANGED <<commonVars, engineVars>>

LoopEnds == BodyReturns /\ ClearAll

LoopProcesses ==
  /\ BodyProcesses
  /\ \/ BeginCall
     \/ processed /\ now < border /\ UNCHANGED <<commonVars, engineVars>>

Processes ==
  /\ body = "process"
  /\ \/ MakeExecList
     \/ CheckPasses \/ CheckFails \/ CallAction \/ FinishAction \/ LockBack
     \/ UtilizePeriodic \/ UtilizeOther
     \/ AdvancePosition \/ SwitchToNextTick \/ EndCall
  /\ UNCHANGED threadVars

\* empty() and nearest_time_point() of the wheel.
Empty == \A kind \in TimerKind : quantities[kind] = 0

Nearest == IF processed THEN border ELSE now

Sleeps ==
  /\ pc = "idle"
  /\ SleepForNextEvent(Empty, Nearest)
  /\ UNCHANGED <<commonVars, engineVars>>

Wakes == TimesOut(now) /\ UNCHANGED <<commonVars, engineVars>>

WakesSpuriously == SpuriousWakeup /\ UNCHANGED <<commonVars, engineVars>>

BodyStep == LoopBegins \/ LoopEnds \/ LoopProcesses \/ Processes \/ Sleeps \/ Wakes

TimePasses == Tick /\ UNCHANGED <<refs, held, quantities, engineVars, threadVars>>

Next == TimePasses \/ ClientStep \/ BodyStep \/ WakesSpuriously

Spec == Init /\ [][Next]_vars

\* Fairness as in ListThread.
JoinGoesOn(c) ==
  /\ \/ JoinThrows(c) \/ JoinReturns(c)
     \/ LockFree /\ JoinResets(c)
  /\ UNCHANGED <<commonVars, engineVars>>

Fairness ==
  /\ WF_vars(TimePasses)
  /\ WF_vars(BodyStep)
  /\ \A c \in Joiners : WF_vars(JoinGoesOn(c))

FairSpec == Spec /\ Fairness

-----------------------------------------------------------------------------
\* The engine's call and the body fit together.
BodyMatches == body # "process" => pc = "idle"

IInv == EngineInv /\ ThreadTypeOK /\ JoinedOnce /\ BodyMatches

(***************************************************************************)
(* While the body sleeps without a time-out no timer is known and shutdown *)
(* has not been asked for; otherwise it will wake when the current tick is *)
(* over.  That the counters are exact is what the first half rests on.     *)
(***************************************************************************)
NoLostWakeup ==
  /\ body = "wait" => ~shutdown /\ \A t \in Timers : status[t] = "deactivated"
  /\ body = "timed_wait" => ~shutdown /\ wakeAt <= border

-----------------------------------------------------------------------------
(***************************************************************************)
(* The tick of an active timer has come: its slot is processed next, or    *)
(* the border of a tick behind it has been passed.                         *)
(***************************************************************************)
TickHasCome(t) ==
  LET ahead == due[t] - tick
  IN  IF processed
      THEN border + ahead * Granularity <= now
      ELSE ahead = 0 \/ border + (ahead - 1) * Granularity <= now

(***************************************************************************)
(* A timer whose tick has come while the thread runs is taken, or is       *)
(* deactivated or put off by a client: no interleaving of clients,         *)
(* notifications and wakeups makes the body sleep through it.              *)
(***************************************************************************)
DueTimerServed ==
  \A t \in Timers :
    (Running /\ status[t] = "active" /\ TickHasCome(t))
      ~> (status[t] # "active" \/ ~TickHasCome(t))

(***************************************************************************)
(* "Pause before the first timer activation": the action is called less    *)
(* than two ticks before the pause asked for has passed, one for the place *)
(* of the call in its tick and a half for the rounding of the pause.       *)
(* Of which timers this is said depends on Remembered.                     *)
(***************************************************************************)
NotBeforePause ==
  [][pc = "enter" /\ pc' = "run" => now + 2 * Granularity > notBefore[AtCursor]]_vars
=============================================================================
