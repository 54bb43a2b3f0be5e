---------------------------- MODULE ListManager -----------------------------
(***************************************************************************)
(* timer_list_manager_template: manager_impl_template over the list        *)
(* engine.  Every method takes the manager's lock for its whole duration,  *)
(* except process_expired_timers, which releases it while it runs the      *)
(* timers' actions.  From there on clients, and the actions themselves,    *)
(* may call any method of the manager.                                     *)
(***************************************************************************)
EXTENDS ListEngine

CONSTANT
  ResetWhileProcessing  \* may a client call reset() from a timer's action
                        \* or while another thread runs the actions?

ASSUME ModeAssumption == ResetWhileProcessing \in BOOLEAN

managerVars == <<commonVars, engineVars>>

-----------------------------------------------------------------------------
(***************************************************************************)
(* The lock.  thread_safe_manager_mixin has a mutex.  The lock of          *)
(* thread_unsafe_manager_mixin does nothing: a single thread makes every   *)
(* call, so a call of process_expired_timers is nested in the action an    *)
(* outer one runs, and the others are made by the innermost action or      *)
(* when nothing runs.                                                      *)
(***************************************************************************)
MutexFree == \A p \in Procs : pc[p] # "utilize"

MayCall ==
  /\ MutexFree
  /\ ThreadSafe \/ \A p \in Procs : pc[p] \in {"idle", "run"}

MayProcess(p) ==
  /\ MutexFree
  /\ \/ ThreadSafe
     \/ \A q \in Procs : /\ q < p => pc[q] = "run"
                         /\ q > p => pc[q] = "idle"

MayGoOn(p) == ThreadSafe \/ \A q \in Procs : q > p => pc[q] = "idle"

-----------------------------------------------------------------------------
ManagerInit == EngineInit

\* The clock is nobody's.
ClockAdvances == Tick /\ UNCHANGED <<refs, held, quantities, engineVars>>

Reset ==
  /\ MayCall
  /\ ResetWhileProcessing \/ \A p \in Procs : pc[p] = "idle"
  /\ ClearAll

\* allocate and the holder's destructor do not take the lock.
MayTouchHolder == ThreadSafe \/ MayCall

ManagerCalls ==
  \E t \in Timers :
    \/ MayTouchHolder /\ Allocate(t)
    \/ MayTouchHolder /\ Dismiss(t)
    \/ MayCall /\ RescheduleThrows(t)
    \/ MayCall /\ Deactivate(t)
    \/ \E pause \in Pauses, per \in Periods :
         \/ MayCall /\ Activate(t, pause, per)
         \/ MayCall /\ Reschedule(t, pause, per)

ProcessStep ==
  \E p \in Procs :
    \/ MayProcess(p) /\ MakeExecList(p)
    \/ MayGoOn(p) /\ CheckPasses(p)
    \/ MayGoOn(p) /\ CheckFails(p)
    \/ MayGoOn(p) /\ CallAction(p)
    \/ MayGoOn(p) /\ FinishAction(p)
    \/ MayGoOn(p) /\ MutexFree /\ LockBack(p)
    \/ MayGoOn(p) /\ UtilizePeriodic(p)
    \/ MayGoOn(p) /\ UtilizeOther(p)

ManagerNext == ClockAdvances \/ Reset \/ ManagerCalls \/ ProcessStep

ManagerSpec == ManagerInit /\ [][ManagerNext]_managerVars

-----------------------------------------------------------------------------
(***************************************************************************)
(* make_exec_list takes every timer that has elapsed: the scan stops at    *)
(* the first later one, so this rests on the order of the list.            *)
(***************************************************************************)
NoneLeftBehind ==
  [][\A p \in Procs : pc[p] = "idle" /\ pc'[p] = "check" =>
       \A t \in Timers : status'[t] = "active" => when[t] > now]_managerVars

(***************************************************************************)
(* "If timer is waiting for deregistration it must not be executed": no    *)
(* action begins after deactivate has returned for its timer.              *)
(***************************************************************************)
DeactivatedNeverRuns ==
  [][\A p \in Procs : pc[p] = "enter" /\ pc'[p] = "run" =>
       status[AtCursor(p)] = "wait_for_execution"]_managerVars

(***************************************************************************)
(* "The only possible switch for the timer is to deactivated status": a    *)
(* timer deactivated while it waits is never rescheduled, and one that     *)
(* waits is not touched by activate, reschedule or reset.                  *)
(***************************************************************************)
WaitingLeavesOnlyByUtilize ==
  [][\A t \in Timers :
       /\ status[t] = "wait_for_deactivation" /\ status'[t] # status[t] =>
            status'[t] = "deactivated"
       /\ Waiting(t) /\ ~(status'[t] \in {"wait_for_execution", "wait_for_deactivation"}) =>
            \E p \in Procs : pc[p] = "utilize" /\ t \in ToSet(exec[p])]_managerVars
=============================================================================
