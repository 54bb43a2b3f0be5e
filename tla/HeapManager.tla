---------------------------- MODULE HeapManager -----------------------------
(***************************************************************************)
(* timer_heap_manager_template: manager_impl_template over the heap        *)
(* engine.  Every method takes the manager's lock, except that             *)
(* process_expired_timers releases it around the action of every timer.    *)
(***************************************************************************)
EXTENDS HeapEngine

CONSTANTS
  ResetWhileProcessing,  \* may a client call reset() while an action runs?
  ActivateWhileProcessing \* may a client deactivate and then activate the
                          \* timer whose action runs?

ASSUME HeapModeAssumption ==
  /\ ResetWhileProcessing \in BOOLEAN
  /\ ActivateWhileProcessing \in BOOLEAN

managerVars == <<commonVars, engineVars>>

-----------------------------------------------------------------------------
MutexFree == \A p \in Procs : pc[p] \notin {"loop", "finish"}

(***************************************************************************)
(* process_expired_timers "must be called on the context on just one       *)
(* thread", so a second call is nested in an action of the first.  With a  *)
(* thread-unsafe manager that thread makes every other call as well.       *)
(***************************************************************************)
MayCall ==
  /\ MutexFree
  /\ ThreadSafe \/ \A p \in Procs : pc[p] \in {"idle", "run"}

MayProcess(p) ==
  /\ MutexFree
  /\ \A q \in Procs : (q < p => pc[q] = "run") /\ (q > p => pc[q] = "idle")

MayGoOn(p) == \A q \in Procs : q > p => pc[q] = "idle"

\* allocate and the holder's destructor do not take the lock.
MayTouchHolder == ThreadSafe \/ MayCall

-----------------------------------------------------------------------------
ManagerInit == EngineInit

ClockAdvances == Tick /\ UNCHANGED <<refs, held, quantities, engineVars>>

Reset ==
  /\ MayCall
  /\ ResetWhileProcessing \/ inProcessing = NoTimer
  /\ ClearAll

ManagerCalls ==
  \E t \in Timers :
    \/ MayTouchHolder /\ Allocate(t)
    \/ MayTouchHolder /\ Dismiss(t)
    \/ MayCall /\ RescheduleThrows(t)
    \/ MayCall /\ Deactivate(t)
    \/ \E pause \in Pauses, per \in Periods :
         \/ /\ MayCall
            /\ ActivateWhileProcessing \/ t # inProcessing
            /\ Activate(t, pause, per)
         \/ MayCall /\ Reschedule(t, pause, per)

ProcessStep ==
  \E p \in Procs :
    \/ MayProcess(p) /\ BeginCall(p)
    \/ TakeHead(p)
    \/ EndCall(p)
    \/ MayGoOn(p) /\ CallAction(p)
    \/ MayGoOn(p) /\ MutexFree /\ FinishAction(p)
    \/ UtilizePeriodic(p)
    \/ UtilizeOther(p)

ManagerNext == ClockAdvances \/ Reset \/ ManagerCalls \/ ProcessStep

ManagerSpec == ManagerInit /\ [][ManagerNext]_managerVars

-----------------------------------------------------------------------------
(***************************************************************************)
(* process_expired_timers leaves no timer behind that had elapsed when it  *)
(* was called, periodic ones and those rescheduled meanwhile included.     *)
(***************************************************************************)
NoneLeftBehind ==
  [][\A p \in Procs : pc[p] = "loop" /\ pc'[p] = "idle" =>
       \A t \in ToSet(h.heap) : when[t] >= started[p]]_managerVars

(***************************************************************************)
(* The timers are taken in the order of their time points, whatever is     *)
(* activated, rescheduled, deactivated or put back between two of them.    *)
(***************************************************************************)
EarliestFirst ==
  [][\A p \in Procs : pc[p] = "loop" /\ pc'[p] = "enter" =>
       \A t \in ToSet(h.heap) : when[taken'[p]] <= when[t]]_managerVars

(***************************************************************************)
(* "quantities of all timers known to manager/thread": the counters stay   *)
(* exact in every step but a reset() that is called while a timer is       *)
(* processed.                                                              *)
(***************************************************************************)
CountsKept ==
  [][QuantitiesExact /\ (Reset => inProcessing = NoTimer) => QuantitiesExact']_managerVars
=============================================================================
