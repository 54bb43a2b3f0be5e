---------------------------- MODULE WheelManager ----------------------------
(***************************************************************************)
(* timer_wheel_manager_template: manager_impl_template over the wheel      *)
(* engine.                                                                 *)
(***************************************************************************)
EXTENDS WheelEngine

CONSTANT
  ResetWhileProcessing   \* may a client call reset() while actions run?

ASSUME WheelModeAssumption == ResetWhileProcessing \in BOOLEAN

managerVars == <<commonVars, engineVars>>

-----------------------------------------------------------------------------
MutexFree == pc \notin {"loop", "utilize", "advance"}

\* With a thread-unsafe manager only an action can call while timers are processed.
MayCall ==
  /\ MutexFree
  /\ ThreadSafe \/ pc \in {"idle", "run"}

\* allocate and the holder's destructor do not take the lock.
MayTouchHolder == ThreadSafe \/ MayCall

-----------------------------------------------------------------------------
ManagerInit == EngineInit

ClockAdvances == Tick /\ UNCHANGED <<refs, held, quantities, engineVars>>

Reset ==
  /\ MayCall
  /\ ResetWhileProcessing \/ pc = "idle"
  /\ ClearAll

ManagerCalls ==
  \E t \in Timers :
    \/ MayTouchHolder /\ Allocate(t)
    \/ MayTouchHolder /\ Dismiss(t)
    \/ MayCall /\ RescheduleThrows(t)
    \/ MayCall /\ Deactivate(t)
    \/ \E pause \in Pauses, per \in Periods :
         \/ MayCall /\ Activate(t, pause, per)
         \/ MayCall /\ Reschedule(t, pause, per)

ProcessStep ==
  \/ MutexFree /\ BeginCall
  \/ MakeExecList
  \/ CheckPasses \/ CheckFails \/ CallAction \/ FinishAction \/ LockBack
  \/ UtilizePeriodic \/ UtilizeOther
  \/ AdvancePosition \/ SwitchToNextTick \/ EndCall

ManagerNext == ClockAdvances \/ Reset \/ ManagerCalls \/ ProcessStep

ManagerSpec == ManagerInit /\ [][ManagerNext]_managerVars

-----------------------------------------------------------------------------
(***************************************************************************)
(* A timer is put into the execution list on the tick that is its pause,   *)
(* or its period, away from the one on which it was put into the wheel,    *)
(* whatever rolls of the wheel lie between.                                *)
(***************************************************************************)
TakenOnItsTick ==
  [][\A t \in Timers :
       status[t] = "active" /\ status'[t] = "wait_for_execution" => tick = due[t]]_managerVars

(***************************************************************************)
(* "Pause before the first timer activation": the action is called less    *)
(* than two ticks before the pause asked for has passed, one for the place *)
(* of the call in its tick and a half for the rounding of the pause.       *)
(* Of which timers this is said depends on Remembered.                     *)
(***************************************************************************)
NeverBeforePause ==
  [][pc = "enter" /\ pc' = "run" => now + 2 * Granularity > notBefore[AtCursor]]_managerVars

(***************************************************************************)
(* A call of process_expired_timers leaves no timer behind: it has passed  *)
(* over no timer's tick, also if actions put timers in or call reset()     *)
(* while it catches up, and it leaves none whose pause had been over for   *)
(* two ticks when the call began.  One tick is for the place of the        *)
(* client's call in its tick, and one for the pause, which is at least a   *)
(* tick.                                                                   *)
(***************************************************************************)
NoneLeftBehind ==
  [][pc = "loop" /\ pc' = "idle" =>
       \A t \in Timers : status[t] = "active" =>
         /\ due[t] >= tick
         /\ notBefore[t] # 0 => started < notBefore[t] + 2 * Granularity]_managerVars

(***************************************************************************)
(* "quantities of all timers known to manager/thread": empty() rests on    *)
(* the counters.  They stay exact in every step but a reset() that is      *)
(* called while timers are processed.                                      *)
(***************************************************************************)
CountsKept ==
  [][QuantitiesExact /\ (Reset => pc = "idle") => QuantitiesExact']_managerVars
=============================================================================
