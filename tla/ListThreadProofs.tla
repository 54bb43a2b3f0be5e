-------------------------- MODULE ListThreadProofs --------------------------
(***************************************************************************)
(* The list thread, for any number of timers, pauses and periods: what the *)
(* engine keeps true, that the body never sleeps past the first timer or a *)
(* shutdown, and that the counters are exact.                              *)
(***************************************************************************)
EXTENDS ListThread, ListProofs

\* The body is the engine's one caller.
LEMMA OneIsProc == 1 \in Procs /\ \A p \in Procs : p = 1
BY OneBody

\* A client's call on the engine, notification and guards apart.
EngineCall ==
  \E t \in Timers :
    \/ Allocate(t) \/ Dismiss(t) \/ RescheduleThrows(t)
    \/ DeactivateActive(t) \/ DeactivateWaiting(t)
    \/ \E pause \in Pauses, per \in Periods : Activate(t, pause, per) \/ Reschedule(t, pause, per)

\* A step of the body within process_expired_timers.
EngineProcesses ==
  \/ MakeExecList(1)
  \/ CheckPasses(1) \/ CheckFails(1) \/ CallAction(1) \/ FinishAction(1) \/ LockBack(1)
  \/ UtilizePeriodic(1) \/ UtilizeOther(1)

\* What a step of the thread does to the engine.
LEMMA EngineSteps ==
  ASSUME [Next]_vars
  PROVE  \/ Tick /\ UNCHANGED <<refs, held, quantities, engineVars>>
         \/ UNCHANGED <<commonVars, engineVars>>
         \/ EngineCall
         \/ EngineProcesses
         \/ LoopEnds
<1>1. CASE TimePasses
  BY <1>1 DEF TimePasses
<1>2. CASE ClientStep
  BY <1>2 DEF ClientStep, Locked, Unlocked, TouchHolder, CallRescheduleThrows, CallDeactivate,
              CallActivate, CallReschedule, Deactivate, EngineCall
<1>3. CASE BodyStep
  BY <1>3 DEF BodyStep, LoopBegins, LoopProcesses, Processes, Sleeps, Wakes, EngineProcesses
<1>4. CASE WakesSpuriously \/ UNCHANGED vars
  BY <1>4 DEF WakesSpuriously, vars
<1> QED
  BY <1>1, <1>2, <1>3, <1>4 DEF Next

\* The engine's invariant is inductive.
LEMMA EngineInvStep ==
  ASSUME EngineInv, [Next]_vars
  PROVE  EngineInv'
<1>1. CASE Tick /\ UNCHANGED <<refs, held, quantities, engineVars>>
  BY <1>1, TickPreserves
<1>2. CASE UNCHANGED <<commonVars, engineVars>>
  BY <1>2, EngineStutters
<1>3. CASE EngineCall
  <2> SUFFICES ASSUME NEW t \in Timers,
                      \/ Allocate(t) \/ Dismiss(t) \/ RescheduleThrows(t)
                      \/ DeactivateActive(t) \/ DeactivateWaiting(t)
                      \/ \E pause \in Pauses, per \in Periods :
                           Activate(t, pause, per) \/ Reschedule(t, pause, per)
               PROVE  EngineInv'
    BY <1>3 DEF EngineCall
  <2> QED
    BY HolderPreserves, LeaveListPreserves, DeactivateWaitingPreserves, ActivatePreserves,
       ReschedulePreserves
<1>4. CASE EngineProcesses
  BY <1>4, OneIsProc, MakeExecListPreserves, ExecStepPreserves, UtilizePeriodicPreserves,
     UtilizeOtherPreserves DEF EngineProcesses
<1>5. CASE LoopEnds
  BY <1>5, ClearAllPreserves DEF LoopEnds
<1> QED
  BY <1>1, <1>2, <1>3, <1>4, <1>5, EngineSteps

\* What a step of the thread does to its own variables.
LEMMA ThreadSteps ==
  ASSUME EngineInv, [Next]_vars
  PROVE  \/ UNCHANGED threadVars
         \/ body' = Notified(body) /\ UNCHANGED <<thread, shutdown, wakeAt, joiner>>
         \/ LockFree /\ LockedCall
         \/ UnlockedJoin
         \/ BodyMoves
<1>1. CASE TimePasses \/ UNCHANGED vars
  BY <1>1 DEF TimePasses, vars
<1>2. CASE ClientStep
  <2>1. ASSUME NEW t \in Timers, TouchHolder(t) \/ CallRescheduleThrows(t) \/ CallDeactivate(t)
        PROVE  UNCHANGED threadVars
    BY <2>1 DEF TouchHolder, CallRescheduleThrows, CallDeactivate
  <2>2. ASSUME NEW t \in Timers, NEW pause \in Pauses, NEW per \in Periods,
               CallActivate(t, pause, per) \/ CallReschedule(t, pause, per)
        PROVE  \/ UNCHANGED threadVars
               \/ body' = Notified(body) /\ UNCHANGED <<thread, shutdown, wakeAt, joiner>>
    BY <2>2 DEF CallActivate, CallReschedule, NotifyIfFirst, threadVars
  <2>3. Locked => LockFree /\ LockedCall
    BY DEF Locked
  <2>4. Unlocked => UnlockedJoin
    BY DEF Unlocked
  <2> QED
    BY <1>2, <2>1, <2>2, <2>3, <2>4 DEF ClientStep
<1>3. CASE BodyStep \/ WakesSpuriously
  <2>1. Sleeps => BodyMoves
    <3> SUFFICES ASSUME Sleeps PROVE BodyMoves
      OBVIOUS
    <3>1. /\ list \in Seq(Timers) /\ when \in [Timers -> Nat]
          /\ SleepForNextEvent(list = <<>>, when[Head(list)])
      BY DEF Sleeps, EngineInv, EngineTypeOK
    <3>2. CASE list = <<>>
      <4>1. SleepForNextEvent(TRUE, 0)
        BY <3>1, <3>2 DEF SleepForNextEvent
      <4> QED
        BY <4>1 DEF BodyMoves
    <3>3. CASE list # <<>>
      <4>1. when[Head(list)] \in Nat
        BY <3>1, <3>3
      <4>2. SleepForNextEvent(FALSE, when[Head(list)])
        BY <3>1, <3>3 DEF SleepForNextEvent
      <4> QED
        BY <4>1, <4>2 DEF BodyMoves
    <3> QED
      BY <3>2, <3>3
  <2>2. Wakes => BodyMoves
    BY DEF Wakes, BodyMoves, EngineInv, EngineTypeOK, CommonTypeOK
  <2>3. LoopBegins \/ LoopEnds \/ LoopProcesses \/ WakesSpuriously => BodyMoves
    BY DEF LoopBegins, LoopEnds, LoopProcesses, WakesSpuriously, BodyMoves
  <2>4. Processes => UNCHANGED threadVars
    BY DEF Processes
  <2> QED
    BY <1>3, <2>1, <2>2, <2>3, <2>4 DEF BodyStep
<1> QED
  BY <1>1, <1>2, <1>3 DEF Next

\* The engine is in a call only while the body is in process_expired_timers.
LEMMA BodyStepKeeps ==
  ASSUME EngineInv, ThreadTypeOK, JoinedOnce, BodyMatches, [Next]_vars
  PROVE  BodyMatches'
<1>1. pc \in [Procs -> Stage] /\ 1 \in Procs
  BY OneIsProc DEF EngineInv, EngineTypeOK
<1> USE DEF BodyMatches
<1>2. CASE TimePasses \/ WakesSpuriously \/ UNCHANGED vars
  BY <1>2 DEF TimePasses, WakesSpuriously, SpuriousWakeup, threadVars, vars, engineVars
<1>3. CASE ClientStep
  <2>1. CASE Locked
    <3>1. body' = "process" => body = "process" /\ UNCHANGED pc
      BY <2>1 DEF Locked, LockedCall, StartThread, ShutdownThread, Notified, JoinBegins,
                  JoinResets, engineVars
    <3>2. body = "process" /\ body' # "process" => ~thread
      BY <2>1 DEF Locked, LockedCall, StartThread, ShutdownThread, Notified, JoinBegins,
                  JoinResets, JoinedOnce
    <3>3. UNCHANGED pc
      BY <2>1 DEF Locked, engineVars
    <3> QED
      BY <3>1, <3>2, <3>3 DEF JoinedOnce
  <2>2. CASE Unlocked
    BY <2>2 DEF Unlocked, UnlockedJoin, JoinThrows, JoinReturns, engineVars
  <2>3. ASSUME NEW t \in Timers, TouchHolder(t) \/ CallRescheduleThrows(t) \/ CallDeactivate(t)
        PROVE  BodyMatches'
    BY <2>3 DEF TouchHolder, Allocate, Dismiss, CallRescheduleThrows, RescheduleThrows,
                CallDeactivate, Deactivate, DeactivateActive, DeactivateWaiting, threadVars,
                engineVars
  <2>4. ASSUME NEW t \in Timers, NEW pause \in Pauses, NEW per \in Periods,
               CallActivate(t, pause, per) \/ CallReschedule(t, pause, per)
        PROVE  BodyMatches'
    BY <2>4 DEF CallActivate, Activate, CallReschedule, Reschedule, NotifyIfFirst, Notified
  <2> QED
    BY <1>3, <2>1, <2>2, <2>3, <2>4 DEF ClientStep
<1>4. CASE BodyStep
  <2>1. CASE LoopBegins \/ LoopEnds \/ Sleeps \/ Wakes
    BY <2>1 DEF LoopBegins, GetsLock, LoopEnds, BodyReturns, ClearAll, Sleeps,
                SleepForNextEvent, Wakes, TimesOut, engineVars
  <2>2. CASE LoopProcesses \/ Processes
    BY <2>2 DEF LoopProcesses, BodyProcesses, Processes, threadVars
  <2> QED
    BY <1>4, <2>1, <2>2 DEF BodyStep
<1> QED
  BY <1>2, <1>3, <1>4 DEF Next

\* The head of the list is the first timer to elapse, so the body wakes before all of them.
LEMMA WakesBeforeAll ==
  ASSUME EngineInv, ThreadTypeOK, NoLostWakeup, body = "timed_wait"
  PROVE  \A t \in ToSet(list) : wakeAt <= when[t]
<1> SUFFICES ASSUME NEW t \in ToSet(list) PROVE wakeAt <= when[t]
  OBVIOUS
<1>1. PICK i \in 1..Len(list) : list[i] = t
  BY DEF ToSet
<1>2. /\ list \in Seq(Timers) /\ when \in [Timers -> Nat] /\ wakeAt \in Nat
      /\ SortedBy(list, when)
  BY DEF EngineInv, EngineTypeOK, ThreadTypeOK, ListSorted
<1>3. 1 \in 1..Len(list) /\ list # <<>> /\ Head(list) = list[1]
  BY <1>1, <1>2
<1>4. when[list[1]] <= when[t]
  <2>1. CASE i = 1
    BY <1>1, <1>2, <2>1
  <2>2. CASE i # 1
    BY <1>1, <1>2, <1>3, <2>2 DEF SortedBy
  <2> QED
    BY <2>1, <2>2
<1>5. wakeAt <= when[list[1]]
  BY <1>3 DEF NoLostWakeup
<1>6. when[list[1]] \in Nat /\ when[t] \in Nat
  BY <1>1, <1>2, <1>3
<1> QED
  BY <1>2, <1>4, <1>5, <1>6

(***************************************************************************)
(* A call that puts t into the list: the body has been woken if t is the   *)
(* first timer now, and otherwise the first timer was there before.        *)
(***************************************************************************)
LEMMA NotificationSuffices ==
  ASSUME IInv, NEW t \in Timers, list' # <<>>, NotifyIfFirst(t),
         list' \in Seq(Timers), ToSet(list') \subseteq ToSet(list) \cup {t},
         \A x \in Timers : x # t => when'[x] = when[x],
         UNCHANGED <<shutdown, wakeAt>>
  PROVE  NoLostWakeup'
<1>1. CASE body' = "wait"
  <2>1. body = "wait" /\ Head(list') # t
    BY <1>1 DEF NotifyIfFirst, Notified
  <2>2. Head(list') \in ToSet(list') /\ ToSet(list) = {}
    BY <2>1 DEF IInv, NoLostWakeup, ToSet
  <2> QED
    BY <2>1, <2>2
<1>2. CASE body' = "timed_wait"
  <2>1. body = "timed_wait" /\ Head(list') # t
    BY <1>2 DEF NotifyIfFirst, Notified
  <2>2. Head(list') \in ToSet(list') /\ Head(list') \in Timers
    BY DEF ToSet
  <2>3. wakeAt <= when[Head(list')]
    BY <2>1, <2>2, WakesBeforeAll DEF IInv, TypeOK
  <2> QED
    BY <1>2, <2>1, <2>2, <2>3 DEF NoLostWakeup, IInv
<1> QED
  BY <1>1, <1>2 DEF NoLostWakeup

\* A call that takes a timer out of the list, or none: the body need not know.
LEMMA ShorterListSuffices ==
  ASSUME IInv, list' \in Seq(Timers), ToSet(list') \subseteq ToSet(list),
         UNCHANGED <<when, shutdown, wakeAt, body>>
  PROVE  NoLostWakeup'
<1>1. list' # <<>> => Head(list') \in ToSet(list')
  BY DEF ToSet
<1>2. CASE body = "wait"
  <2>1. ToSet(list) = {}
    BY <1>2 DEF IInv, NoLostWakeup, ToSet
  <2>2. list' = <<>>
    BY <1>1, <2>1
  <2> QED
    BY <1>2, <2>2 DEF IInv, NoLostWakeup
<1>3. CASE body = "timed_wait"
  BY <1>1, <1>3, WakesBeforeAll DEF IInv, TypeOK, NoLostWakeup
<1> QED
  BY <1>2, <1>3 DEF NoLostWakeup

\* No step of anyone makes the body sleep through the first timer or a shutdown.
LEMMA NoLostWakeupStep ==
  ASSUME IInv, [Next]_vars
  PROVE  NoLostWakeup'
<1>0. /\ EngineInv /\ EngineInv' /\ NoLostWakeup
      /\ list \in Seq(Timers) /\ list' \in Seq(Timers) /\ when \in [Timers -> Nat]
      /\ IsInjective(list) /\ SortedBy(list, when)
  BY EngineInvStep DEF IInv, EngineInv, EngineTypeOK, ListHoldsActive, ListSorted
<1>1. CASE UNCHANGED <<list, when, shutdown, wakeAt, body>>
  BY <1>0, <1>1 DEF NoLostWakeup
<1>2. CASE body' \notin {"wait", "timed_wait"}
  BY <1>2 DEF NoLostWakeup
<1>3. ASSUME NEW t \in Timers, CallRescheduleThrows(t) \/ CallDeactivate(t)
      PROVE  NoLostWakeup'
  <2>1. /\ list' \in RemoveTimerFromList(list, t) \/ list' = list
        /\ UNCHANGED <<when, shutdown, wakeAt, body>>
    BY <1>3 DEF CallRescheduleThrows, RescheduleThrows, CallDeactivate, Deactivate,
                DeactivateActive, DeactivateWaiting, threadVars
  <2>2. ToSet(list') \subseteq ToSet(list)
    BY <1>0, <2>1, RemovedTimer
  <2> QED
    BY <1>0, <2>1, <2>2, ShorterListSuffices
<1>4. ASSUME NEW t \in Timers, NEW pause \in Pauses, NEW per \in Periods,
             CallActivate(t, pause, per) \/ CallReschedule(t, pause, per)
      PROVE  NoLostWakeup'
  <2>1. /\ NotifyIfFirst(t)
        /\ \A x \in Timers : x # t => when'[x] = when[x]
        /\ UNCHANGED <<shutdown, wakeAt>>
    BY <1>0, <1>4 DEF CallActivate, Activate, CallReschedule, Reschedule
  <2>2. /\ status'[t] = "active"
        /\ \A x \in Timers : x # t => status'[x] = status[x]
    <3>1. status \in [Timers -> TimerStatus]
      BY DEF IInv, EngineInv, EngineTypeOK
    <3> QED
      BY <1>4, <3>1 DEF CallActivate, Activate, CallReschedule, Reschedule
  <2>3. /\ \A x \in Timers : status[x] = "active" <=> x \in ToSet(list)
        /\ \A x \in Timers : status'[x] = "active" <=> x \in ToSet(list')
    BY <1>0 DEF EngineInv, ListHoldsActive
  <2>4. ToSet(list') \subseteq ToSet(list) \cup {t} /\ list' # <<>>
    <3>1. ToSet(list') \subseteq Timers
      BY <1>0 DEF ToSet
    <3>2. t \in ToSet(list')
      BY <2>2, <2>3
    <3>3. list' # <<>>
      BY <1>0, <3>2 DEF ToSet
    <3> QED
      BY <2>2, <2>3, <3>1, <3>3
  <2> QED
    BY <1>0, <2>1, <2>4, NotificationSuffices
<1>5. CASE ClientStep
  <2>1. CASE Locked
    <3>1. CASE \E c \in Joiners : JoinBegins(c)
      BY <1>1, <2>1, <3>1 DEF Locked, JoinBegins, engineVars
    <3>2. CASE StartThread \/ ShutdownThread \/ \E c \in Joiners : JoinResets(c)
      BY <1>2, <3>2 DEF StartThread, ShutdownThread, JoinResets, Notified
    <3> QED
      BY <2>1, <3>1, <3>2 DEF Locked, LockedCall
  <2>2. CASE Unlocked
    BY <1>1, <2>2 DEF Unlocked, UnlockedJoin, JoinThrows, JoinReturns, engineVars
  <2>3. ASSUME NEW t \in Timers, TouchHolder(t)
        PROVE  NoLostWakeup'
    BY <1>1, <2>3 DEF TouchHolder, Allocate, Dismiss, threadVars, engineVars
  <2> QED
    BY <1>3, <1>4, <1>5, <2>1, <2>2, <2>3 DEF ClientStep
<1>6. CASE BodyStep
  <2>1. CASE LoopBegins \/ LoopEnds \/ LoopProcesses \/ Wakes
    BY <1>2, <2>1 DEF LoopBegins, GetsLock, LoopEnds, BodyReturns, LoopProcesses, BodyProcesses,
                      Wakes, TimesOut
  <2>2. CASE Processes
    <3>1. body' = "process"
      BY <2>2 DEF Processes, threadVars
    <3> QED
      BY <1>2, <3>1
  <2>3. CASE Sleeps
    <3>1. list # <<>> => when[Head(list)] \in Nat
      BY <1>0
    <3> QED
      BY <2>3, <3>1 DEF Sleeps, SleepForNextEvent, NoLostWakeup, engineVars
  <2> QED
    BY <1>6, <2>1, <2>2, <2>3 DEF BodyStep
<1>7. CASE WakesSpuriously
  BY <1>2, <1>7 DEF WakesSpuriously, SpuriousWakeup
<1>8. CASE TimePasses \/ UNCHANGED vars
  BY <1>1, <1>8 DEF TimePasses, vars, engineVars, threadVars
<1> QED
  BY <1>5, <1>6, <1>7, <1>8 DEF Next
-----------------------------------------------------------------------------
\* Every reachable state of the thread satisfies the invariant.
THEOREM ThreadInvariant == Spec => []IInv
<1>1. Init => IInv
  <2> SUFFICES ASSUME Init PROVE IInv
    OBVIOUS
  <2>1. EngineInv
    BY EngineInitially DEF Init
  <2>2. ThreadTypeOK /\ JoinedOnce /\ BodyMatches /\ NoLostWakeup
    BY OneIsProc
    DEF Init, EngineInit, ThreadInit, ThreadTypeOK, JoinedOnce, BodyMatches, NoLostWakeup, Place,
        JoinPlace
  <2> QED
    BY <2>1, <2>2 DEF IInv, TypeOK, EngineInv
<1>2. IInv /\ [Next]_vars => IInv'
  <2> SUFFICES ASSUME IInv, [Next]_vars PROVE IInv'
    OBVIOUS
  <2>1. EngineInv' /\ NoLostWakeup'
    BY EngineInvStep, NoLostWakeupStep DEF IInv
  <2>2. ThreadTypeOK' /\ JoinedOnce'
    BY ThreadSteps, ThreadStepKeeps DEF IInv, TypeOK
  <2>3. BodyMatches'
    BY BodyStepKeeps DEF IInv, TypeOK
  <2> QED
    BY <2>1, <2>2, <2>3 DEF IInv, TypeOK, EngineInv
<1> QED
  BY <1>1, <1>2, PTL DEF Spec

\* The body never sleeps past the first timer of the list, nor past a shutdown.
THEOREM NoWakeupIsLost == Spec => []NoLostWakeup
<1>1. IInv => NoLostWakeup
  BY DEF IInv
<1> QED
  BY <1>1, ThreadInvariant, PTL

(***************************************************************************)
(* The counters of a thread are exact, always: the engine is cleared when  *)
(* the body ends, and then nothing is being processed.                     *)
(***************************************************************************)
THEOREM ThreadQuantities == Spec => []QuantitiesExact
<1>1. Init => QuantitiesExact
  <2> SUFFICES ASSUME Init PROVE QuantitiesExact
    OBVIOUS
  <2>1. \A kind \in TimerKind : Counted(status, period, kind) = {}
    BY DEF Init, EngineInit, Counted
  <2>2. Exact(quantities, status, period)
    BY <2>1, FS_EmptySet DEF Init, EngineInit, CommonInit, ResetTimerCount, Exact
  <2> QED
    BY <2>2, ExactIsQuantitiesExact
<1>2. IInv /\ QuantitiesExact /\ [Next]_vars => QuantitiesExact'
  <2> SUFFICES ASSUME IInv, QuantitiesExact, [Next]_vars PROVE QuantitiesExact'
    OBVIOUS
  <2>0. EngineInv
    BY DEF IInv
  <2>1. CASE UNCHANGED <<quantities, status, period>>
    BY <2>1, ExactIsQuantitiesExact, ExactIsQuantitiesExactNext
  <2>2. CASE \/ Tick /\ UNCHANGED <<refs, held, quantities, engineVars>>
             \/ UNCHANGED <<commonVars, engineVars>>
    BY <2>1, <2>2 DEF commonVars, engineVars
  <2>3. CASE EngineCall
    BY <2>0, <2>3, ClientKeepsCounts DEF EngineCall
  <2>4. CASE EngineProcesses
    BY <2>0, <2>4, OneIsProc, ProcessKeepsCounts DEF EngineProcesses
  <2>5. CASE LoopEnds
    BY <2>0, <2>5, OneIsProc, CountsCleared DEF LoopEnds, BodyReturns, IInv, BodyMatches
  <2> QED
    BY <2>2, <2>3, <2>4, <2>5, EngineSteps
<1> QED
  BY <1>1, <1>2, ThreadInvariant, PTL DEF Spec

\* Every step of the thread is a step of the service, or not seen.
LEMMA ThreadStepServes ==
  ASSUME EngineInv, [Next]_vars
  PROVE  [Service!Next]_(Service!vars)
<1>1. CASE Tick /\ UNCHANGED <<refs, held, quantities, engineVars>>
  <2>1. now' = now + 1 /\ UNCHANGED <<status, when, period, ran>>
    BY <1>1 DEF Tick, engineVars
  <2>2. Service!TimePasses
    BY <2>1 DEF Service!TimePasses, Phases, IfKnown
  <2> QED
    BY <2>2 DEF Service!Next
<1>2. CASE UNCHANGED <<commonVars, engineVars>>
  BY <1>2, NotSeen DEF commonVars, engineVars
<1>3. CASE EngineCall
  <2>1. PICK t \in Timers :
          \/ Allocate(t) \/ Dismiss(t) \/ RescheduleThrows(t)
          \/ DeactivateActive(t) \/ DeactivateWaiting(t)
          \/ \E pause \in Pauses, per \in Periods :
               Activate(t, pause, per) \/ Reschedule(t, pause, per)
    BY <1>3 DEF EngineCall
  <2>2. CASE Allocate(t) \/ Dismiss(t)
    <3>1. UNCHANGED <<now, status, when, period, ran>>
      BY <2>2 DEF Allocate, AllocateObject, Dismiss, DismissObject, engineVars
    <3> QED
      BY <3>1, NotSeen
  <2>3. CASE RescheduleThrows(t) \/ DeactivateActive(t)
    BY <2>3, LeaveListCancels DEF Service!Next
  <2>4. CASE DeactivateWaiting(t)
    BY <2>4, DeactivateWaitingCancels DEF Service!Next
  <2>5. ASSUME NEW pause \in Pauses, NEW per \in Periods,
               Activate(t, pause, per) \/ Reschedule(t, pause, per)
        PROVE  Service!Next
    BY <2>5, ActivateSets DEF Service!Next
  <2> QED
    BY <2>1, <2>2, <2>3, <2>4, <2>5
<1>4. CASE EngineProcesses
  <2>1. CASE MakeExecList(1)
    BY <2>1, OneIsProc, MakeExecListTakes DEF Service!Next
  <2>2. CASE CheckPasses(1) \/ CheckFails(1) \/ FinishAction(1) \/ LockBack(1)
    <3>1. UNCHANGED <<now, status, when, period, ran>>
      BY <2>2 DEF CheckPasses, CheckFails, FinishAction, LockBack, commonVars
    <3> QED
      BY <3>1, NotSeen
  <2>3. CASE CallAction(1)
    BY <2>3, OneBody, OneIsProc, CallActionCalls DEF Service!Next
  <2>4. CASE UtilizePeriodic(1)
    BY <2>4, OneIsProc, UtilizePeriodicPutsBack DEF Service!Next
  <2>5. CASE UtilizeOther(1)
    BY <2>5, OneIsProc, UtilizeOtherDrops DEF Service!Next
  <2> QED
    BY <1>4, <2>1, <2>2, <2>3, <2>4, <2>5 DEF EngineProcesses
<1>5. CASE LoopEnds
  BY <1>5, ClearAllCancels DEF LoopEnds, Service!Next
<1> QED
  BY <1>1, <1>2, <1>3, <1>4, <1>5, EngineSteps

(***************************************************************************)
(* The thread implements the service: no start, shutdown, join or wakeup   *)
(* shows in what happens to a timer, but that the end of the body switches *)
(* off the timers that wait.                                               *)
(***************************************************************************)
THEOREM ThreadImplements == Spec => Promise
<1>1. Init => Service!Init
  BY ServiceInitially DEF Init
<1>2. IInv /\ [Next]_vars => [Service!Next]_(Service!vars)
  BY ThreadStepServes DEF IInv
<1> QED
  BY <1>1, <1>2, ThreadInvariant, PTL DEF Spec, Promise, Service!Spec
=============================================================================
