-------------------------- MODULE HeapThreadProofs --------------------------
(***************************************************************************)
(* The heap thread, for any number of timers, pauses and periods: what the *)
(* engine keeps true, that the body never sleeps past the first timer or a *)
(* shutdown, that the counters are exact, and that it keeps the promise of *)
(* TimerService.                                                           *)
(***************************************************************************)
EXTENDS HeapThread, HeapProofs

\* The body is the engine's one caller.
LEMMA OneIsProc == 1 \in Procs /\ (\A p \in Procs : p = 1) /\ NotNested
BY OneBody DEF NotNested

\* What a step of the thread does to the engine.
LEMMA EngineSteps ==
  ASSUME [Next]_vars
  PROVE  \/ Tick /\ UNCHANGED <<refs, held, quantities, engineVars>>
         \/ UNCHANGED <<commonVars, engineVars>>
         \/ ClientCall
         \/ EngineStep
         \/ LoopEnds
<1>1. CASE TimePasses
  BY <1>1 DEF TimePasses
<1>2. CASE ClientStep
  BY <1>2 DEF ClientStep, Locked, Unlocked, TouchHolder, CallRescheduleThrows, RescheduleThrows,
              CallDeactivate, Deactivate, DeactivateInHeap, CallActivate, CallReschedule,
              ClientCall
<1>3. CASE BodyStep
  BY <1>3, OneIsProc DEF BodyStep, LoopBegins, LoopProcesses, Processes, Sleeps, Wakes, EngineStep
<1>4. CASE WakesSpuriously \/ UNCHANGED vars
  BY <1>4 DEF WakesSpuriously, vars
<1> QED
  BY <1>1, <1>2, <1>3, <1>4 DEF Next

\* The engine's invariant is inductive.
LEMMA EngineInvStep ==
  ASSUME EngineInv, [Next]_vars
  PROVE  EngineInv'
<1>1. CASE \/ Tick /\ UNCHANGED <<refs, held, quantities, engineVars>>
           \/ UNCHANGED <<commonVars, engineVars>>
  BY <1>1, HolderPreserves
<1>2. CASE ClientCall
  BY <1>2, ClientCallPreserves
<1>3. CASE EngineStep
  BY <1>3, OneIsProc, EngineStepPreserves
<1>4. CASE LoopEnds
  BY <1>4, ClearAllPreserves DEF LoopEnds
<1> QED
  BY <1>1, <1>2, <1>3, <1>4, EngineSteps

\* The first timer of the heap has a time point.
LEMMA HeadHasTimePoint ==
  ASSUME EngineInv, h.heap # <<>>
  PROVE  when[Head(h.heap)] \in Nat
BY HeadInHeap, InvariantSays

\* What a step of the thread does to its own variables.
LEMMA ThreadSteps ==
  ASSUME EngineInv, [Next]_vars
  PROVE  \/ UNCHANGED threadVars
         \/ body' = Notified(body) /\ UNCHANGED <<thread, shutdown, wakeAt, joiner>>
         \/ LockFree /\ LockedCall
         \/ UnlockedJoin
         \/ BodyMoves
<1>1. CASE TimePasses \/ UNCHANGED vars
  BY <1>1 DEF TimePasses, vars
<1>2. CASE ClientStep
  <2>1. ASSUME NEW t \in Timers, TouchHolder(t) \/ CallRescheduleThrows(t) \/ CallDeactivate(t)
        PROVE  UNCHANGED threadVars
    BY <2>1 DEF TouchHolder, CallRescheduleThrows, CallDeactivate
  <2>2. ASSUME NEW t \in Timers, NEW pause \in Pauses, NEW per \in Periods,
               CallActivate(t, pause, per) \/ CallReschedule(t, pause, per)
        PROVE  \/ UNCHANGED threadVars
               \/ body' = Notified(body) /\ UNCHANGED <<thread, shutdown, wakeAt, joiner>>
    BY <2>2 DEF CallActivate, CallReschedule, NotifyIfFirst, threadVars
  <2>3. Locked => LockFree /\ LockedCall
    BY DEF Locked
  <2>4. Unlocked => UnlockedJoin
    BY DEF Unlocked
  <2> QED
    BY <1>2, <2>1, <2>2, <2>3, <2>4 DEF ClientStep
<1>3. CASE BodyStep \/ WakesSpuriously
  <2>1. Sleeps => BodyMoves
    <3> SUFFICES ASSUME Sleeps PROVE BodyMoves
      OBVIOUS
    <3>1. SleepForNextEvent(h.heap = <<>>, when[Head(h.heap)])
      BY DEF Sleeps
    <3>2. CASE h.heap = <<>>
      <4>1. SleepForNextEvent(TRUE, 0)
        BY <3>1, <3>2 DEF SleepForNextEvent
      <4> QED
        BY <4>1 DEF BodyMoves
    <3>3. CASE h.heap # <<>>
      <4>1. SleepForNextEvent(FALSE, when[Head(h.heap)])
        BY <3>1, <3>3 DEF SleepForNextEvent
      <4> QED
        BY <3>3, <4>1, HeadHasTimePoint DEF BodyMoves
    <3> QED
      BY <3>2, <3>3
  <2>2. Wakes => BodyMoves
    BY InvariantSays DEF Wakes, BodyMoves
  <2>3. LoopBegins \/ LoopEnds \/ LoopProcesses \/ WakesSpuriously => BodyMoves
    BY DEF LoopBegins, LoopEnds, LoopProcesses, WakesSpuriously, BodyMoves
  <2>4. Processes => UNCHANGED threadVars
    BY DEF Processes
  <2> QED
    BY <1>3, <2>1, <2>2, <2>3, <2>4 DEF BodyStep
<1> QED
  BY <1>1, <1>2, <1>3 DEF Next

\* The engine is in a call only while the body is in process_expired_timers.
LEMMA BodyStepKeeps ==
  ASSUME EngineInv, ThreadTypeOK, JoinedOnce, BodyMatches, [Next]_vars
  PROVE  BodyMatches'
<1> USE DEF BodyMatches
<1>1. CASE TimePasses \/ WakesSpuriously \/ UNCHANGED vars
  BY <1>1 DEF TimePasses, WakesSpuriously, SpuriousWakeup, threadVars, vars, engineVars, callVars
<1>2. CASE ClientStep
  <2>1. CASE Locked
    <3>1. body' = "process" => body = "process"
      BY <2>1 DEF Locked, LockedCall, StartThread, ShutdownThread, Notified, JoinBegins,
                  JoinResets
    <3>2. body = "process" /\ body' # "process" => ~thread
      BY <2>1 DEF Locked, LockedCall, StartThread, ShutdownThread, Notified, JoinBegins,
                  JoinResets, JoinedOnce
    <3>3. UNCHANGED pc
      BY <2>1 DEF Locked, engineVars, callVars
    <3> QED
      BY <3>1, <3>2, <3>3 DEF JoinedOnce
  <2>2. CASE Unlocked
    BY <2>2 DEF Unlocked, UnlockedJoin, JoinThrows, JoinReturns, engineVars, callVars
  <2>3. ASSUME NEW t \in Timers, TouchHolder(t) \/ CallRescheduleThrows(t) \/ CallDeactivate(t)
        PROVE  BodyMatches'
    BY <2>3 DEF TouchHolder, Allocate, Dismiss, CallRescheduleThrows, RescheduleThrows, Release,
                CallDeactivate, Deactivate, DeactivateInHeap, DeactivateInProcessing, threadVars,
                engineVars, callVars
  <2>4. ASSUME NEW t \in Timers, NEW pause \in Pauses, NEW per \in Periods,
               CallActivate(t, pause, per) \/ CallReschedule(t, pause, per)
        PROVE  BodyMatches'
    BY <2>4 DEF CallActivate, Activate, CallReschedule, Reschedule, NotifyIfFirst, Notified,
                callVars
  <2> QED
    BY <1>2, <2>1, <2>2, <2>3, <2>4 DEF ClientStep
<1>3. CASE BodyStep
  <2>1. CASE LoopBegins \/ LoopEnds \/ Sleeps \/ Wakes
    BY <2>1 DEF LoopBegins, GetsLock, LoopEnds, BodyReturns, ClearAll, Sleeps,
                SleepForNextEvent, Wakes, TimesOut, engineVars, callVars
  <2>2. CASE LoopProcesses \/ Processes
    BY <2>2 DEF LoopProcesses, BodyProcesses, Processes, threadVars
  <2> QED
    BY <1>3, <2>1, <2>2 DEF BodyStep
<1> QED
  BY <1>1, <1>2, <1>3 DEF Next

\* The top of the heap is the first timer to elapse, so the body wakes before all of them.
LEMMA WakesBeforeAll ==
  ASSUME EngineInv, ThreadTypeOK, NoLostWakeup, body = "timed_wait"
  PROVE  \A t \in ToSet(h.heap) : wakeAt <= when[t]
<1> SUFFICES ASSUME NEW t \in ToSet(h.heap) PROVE wakeAt <= when[t]
  OBVIOUS
<1>1. h.heap # <<>>
  BY DEF ToSet
<1>2. wakeAt <= when[Head(h.heap)] /\ wakeAt \in Nat
  BY <1>1 DEF NoLostWakeup, ThreadTypeOK
<1>3. when[Head(h.heap)] <= when[t]
  BY InvariantSays, HeadIsEarliest
<1>4. when[Head(h.heap)] \in Nat /\ when[t] \in Nat
  BY <1>1, HeadHasTimePoint, InvariantSays
<1> QED
  BY <1>2, <1>3, <1>4

(***************************************************************************)
(* A call that puts t into the heap: the body has been woken if t is the   *)
(* first timer now, and otherwise the first timer was there before.        *)
(***************************************************************************)
LEMMA NotificationSuffices ==
  ASSUME EngineInv, EngineInv', ThreadTypeOK, NoLostWakeup,
         NEW t \in Timers, NotifyIfFirst(t),
         t \in ToSet(h'.heap), ToSet(h'.heap) \subseteq ToSet(h.heap) \cup {t},
         \A x \in Timers : x # t => when'[x] = when[x],
         UNCHANGED <<shutdown, wakeAt>>
  PROVE  NoLostWakeup'
<1>1. h'.heap # <<>> /\ Head(h'.heap) \in Timers /\ Head(h'.heap) \in ToSet(h'.heap)
  <2>1. h'.heap # <<>>
    BY DEF ToSet
  <2>2. (h.heap # <<>>)' => (Head(h.heap) \in Timers /\ Head(h.heap) \in ToSet(h.heap))'
    BY HeadInHeap, PTL
  <2> QED
    BY <2>1, <2>2
<1>2. CASE body' = "wait"
  <2>1. body = "wait" /\ Head(h'.heap) # t
    BY <1>2 DEF NotifyIfFirst, Notified
  <2>2. ToSet(h.heap) = {}
    BY <2>1 DEF NoLostWakeup, ToSet
  <2> QED
    BY <1>1, <2>1, <2>2
<1>3. CASE body' = "timed_wait"
  <2>1. body = "timed_wait" /\ Head(h'.heap) # t
    BY <1>3 DEF NotifyIfFirst, Notified
  <2>2. wakeAt <= when[Head(h'.heap)]
    BY <1>1, <2>1, WakesBeforeAll
  <2> QED
    BY <1>1, <1>3, <2>1, <2>2 DEF NoLostWakeup
<1> QED
  BY <1>2, <1>3 DEF NoLostWakeup

\* A call that takes a timer out of the heap, or none: the body need not know.
LEMMA SmallerHeapSuffices ==
  ASSUME EngineInv, EngineInv', ThreadTypeOK, NoLostWakeup,
         ToSet(h'.heap) \subseteq ToSet(h.heap), UNCHANGED <<when, shutdown, wakeAt, body>>
  PROVE  NoLostWakeup'
<1>1. h'.heap # <<>> => Head(h'.heap) \in ToSet(h'.heap)
  <2>1. (h.heap # <<>> => Head(h.heap) \in ToSet(h.heap))'
    BY HeadInHeap, PTL
  <2> QED
    BY <2>1
<1>2. CASE body = "wait"
  <2>1. ToSet(h.heap) = {}
    BY <1>2 DEF NoLostWakeup, ToSet
  <2>2. h'.heap = <<>>
    BY <1>1, <2>1
  <2> QED
    BY <1>2, <2>2 DEF NoLostWakeup
<1>3. CASE body = "timed_wait"
  BY <1>1, <1>3, WakesBeforeAll DEF NoLostWakeup
<1> QED
  BY <1>2, <1>3 DEF NoLostWakeup

\* No step of anyone makes the body sleep through the first timer or a shutdown.
LEMMA NoLostWakeupStep ==
  ASSUME EngineInv, ThreadTypeOK, NoLostWakeup, [Next]_vars
  PROVE  NoLostWakeup'
<1>0. EngineInv'
  BY EngineInvStep
<1>1. CASE UNCHANGED <<h, when, shutdown, wakeAt, body>>
  BY <1>1 DEF NoLostWakeup
<1>2. CASE body' \notin {"wait", "timed_wait"}
  BY <1>2 DEF NoLostWakeup
<1>3. ASSUME NEW t \in Timers, CallRescheduleThrows(t) \/ CallDeactivate(t)
      PROVE  NoLostWakeup'
  <2>1. /\ Release(t) \/ DeactivateInProcessing(t)
        /\ UNCHANGED <<shutdown, wakeAt, body>>
    BY <1>3 DEF CallRescheduleThrows, RescheduleThrows, CallDeactivate, Deactivate,
                DeactivateInHeap, threadVars
  <2>2. UNCHANGED when
    BY <2>1 DEF Release, DeactivateInProcessing
  <2>3. HeapLoses(t) \/ HeapKeeps
    BY <2>1, ReleasePreserves, DeactivateInProcessingPreserves
  <2>4. ToSet(h'.heap) \subseteq ToSet(h.heap)
    BY <2>3 DEF HeapLoses, HeapKeeps
  <2> QED
    BY <1>0, <2>1, <2>2, <2>4, SmallerHeapSuffices
<1>4. ASSUME NEW t \in Timers, NEW pause \in Pauses, NEW per \in Periods,
             CallActivate(t, pause, per) \/ CallReschedule(t, pause, per)
      PROVE  NoLostWakeup'
  <2>1. /\ NotifyIfFirst(t)
        /\ \A x \in Timers : x # t => when'[x] = when[x]
        /\ UNCHANGED <<shutdown, wakeAt>>
    BY <1>4, InvariantSays DEF CallActivate, Activate, CallReschedule, Reschedule
  <2>2. t \in ToSet(h'.heap) /\ ToSet(h'.heap) \subseteq ToSet(h.heap) \cup {t}
    <3>1. CASE CallActivate(t, pause, per)
      <4>1. HeapGains(t)
        BY <3>1, ActivatePreserves DEF CallActivate
      <4> QED
        BY <4>1 DEF HeapGains
    <3>2. CASE CallReschedule(t, pause, per)
      <4>1. HeapKeeps
        BY <3>2, ReschedulePreserves DEF CallReschedule
      <4>2. t \in ToSet(h.heap)
        BY <3>2, InvariantSays DEF CallReschedule, Reschedule, InHeap
      <4> QED
        BY <4>1, <4>2 DEF HeapKeeps
    <3> QED
      BY <1>4, <3>1, <3>2
  <2> QED
    BY <1>0, <2>1, <2>2, NotificationSuffices
<1>5. CASE ClientStep
  <2>1. CASE Locked
    <3>1. CASE \E c \in Joiners : JoinBegins(c)
      BY <1>1, <2>1, <3>1 DEF Locked, JoinBegins, engineVars
    <3>2. CASE StartThread \/ ShutdownThread \/ \E c \in Joiners : JoinResets(c)
      BY <1>2, <3>2 DEF StartThread, ShutdownThread, JoinResets, Notified
    <3> QED
      BY <2>1, <3>1, <3>2 DEF Locked, LockedCall
  <2>2. CASE Unlocked
    BY <1>1, <2>2 DEF Unlocked, UnlockedJoin, JoinThrows, JoinReturns, engineVars
  <2>3. ASSUME NEW t \in Timers, TouchHolder(t)
        PROVE  NoLostWakeup'
    BY <1>1, <2>3 DEF TouchHolder, Allocate, Dismiss, threadVars, engineVars
  <2> QED
    BY <1>3, <1>4, <1>5, <2>1, <2>2, <2>3 DEF ClientStep
<1>6. CASE BodyStep
  <2>1. CASE LoopBegins \/ LoopEnds \/ LoopProcesses \/ Wakes
    BY <1>2, <2>1 DEF LoopBegins, GetsLock, LoopEnds, BodyReturns, LoopProcesses, BodyProcesses,
                      Wakes, TimesOut
  <2>2. CASE Processes
    <3>1. body' = "process"
      BY <2>2 DEF Processes, threadVars
    <3> QED
      BY <1>2, <3>1
  <2>3. CASE Sleeps
    <3>1. h.heap # <<>> => when[Head(h.heap)] \in Nat
      BY HeadHasTimePoint
    <3> QED
      BY <2>3, <3>1 DEF Sleeps, SleepForNextEvent, NoLostWakeup, engineVars
  <2> QED
    BY <1>6, <2>1, <2>2, <2>3 DEF BodyStep
<1>7. CASE WakesSpuriously
  BY <1>2, <1>7 DEF WakesSpuriously, SpuriousWakeup
<1>8. CASE TimePasses \/ UNCHANGED vars
  BY <1>1, <1>8 DEF TimePasses, vars, engineVars, threadVars
<1> QED
  BY <1>5, <1>6, <1>7, <1>8 DEF Next
-----------------------------------------------------------------------------
\* Every reachable state of the thread satisfies the invariant.
THEOREM ThreadInvariant == Spec => []IInv
<1>1. Init => IInv
  <2> SUFFICES ASSUME Init PROVE IInv
    OBVIOUS
  <2>1. EngineInv
    BY EngineInitially DEF Init
  <2>2. ThreadTypeOK /\ JoinedOnce /\ BodyMatches
    BY OneIsProc
    DEF Init, EngineInit, ThreadInit, ThreadTypeOK, JoinedOnce, BodyMatches, Place, JoinPlace
  <2> QED
    BY <2>1, <2>2 DEF IInv
<1>2. IInv /\ [Next]_vars => IInv'
  <2> SUFFICES ASSUME IInv, [Next]_vars PROVE IInv'
    OBVIOUS
  <2>1. EngineInv'
    BY EngineInvStep DEF IInv
  <2>2. ThreadTypeOK' /\ JoinedOnce'
    BY ThreadSteps, ThreadStepKeeps DEF IInv
  <2>3. BodyMatches'
    BY BodyStepKeeps DEF IInv
  <2> QED
    BY <2>1, <2>2, <2>3 DEF IInv
<1> QED
  BY <1>1, <1>2, PTL DEF Spec

(***************************************************************************)
(* The body never sleeps past the first timer of the heap, nor past a      *)
(* shutdown, whatever timers heap_add and heap_remove move to the top.     *)
(***************************************************************************)
THEOREM NoWakeupIsLost == Spec => []NoLostWakeup
<1>1. Init => NoLostWakeup
  BY DEF Init, ThreadInit, NoLostWakeup
<1>2. IInv /\ NoLostWakeup /\ [Next]_vars => NoLostWakeup'
  BY NoLostWakeupStep DEF IInv
<1> QED
  BY <1>1, <1>2, ThreadInvariant, PTL DEF Spec

(***************************************************************************)
(* The counters of a thread are exact, always: the engine is cleared when  *)
(* the body ends, and then nothing is being processed.                     *)
(***************************************************************************)
THEOREM ThreadQuantities == Spec => []QuantitiesExact
<1>1. Init => QuantitiesExact
  <2> SUFFICES ASSUME Init PROVE QuantitiesExact
    OBVIOUS
  <2>1. \A x \in Timers : ~Has(x)
    BY NoTimerAssumption DEF Init, EngineInit, Has, ToSet
  <2>2. \A kind \in TimerKind : Counted(Presence, period, kind) = {}
    BY <2>1 DEF Presence, Counted
  <2>3. Exact(quantities, Presence, period)
    BY <2>2, FS_EmptySet DEF Init, EngineInit, CommonInit, ResetTimerCount, Exact
  <2> QED
    BY <2>3, ExactIsQuantitiesExact
<1>2. IInv /\ QuantitiesExact /\ [Next]_vars => QuantitiesExact'
  <2> SUFFICES ASSUME IInv, QuantitiesExact, [Next]_vars PROVE QuantitiesExact'
    OBVIOUS
  <2>0. EngineInv
    BY DEF IInv
  <2>1. CASE \/ Tick /\ UNCHANGED <<refs, held, quantities, engineVars>>
             \/ UNCHANGED <<commonVars, engineVars>>
    <3>1. UNCHANGED <<quantities, h, period, inProcessing>>
      BY <2>1 DEF commonVars, engineVars
    <3> QED
      BY <3>1, CountsStay DEF Has
  <2>2. CASE ClientCall
    BY <2>0, <2>2, ClientKeepsCounts
  <2>3. CASE EngineStep
    BY <2>0, <2>3, OneIsProc, EngineStepKeepsCounts
  <2>4. CASE LoopEnds
    <3>1. pc[1] = "idle"
      BY <2>4 DEF LoopEnds, BodyReturns, IInv, BodyMatches
    <3>2. inProcessing = NoTimer
      BY <2>0, <3>1, OneIsProc, BetweenTimers
    <3> QED
      BY <2>0, <2>4, <3>2, CountsCleared DEF LoopEnds
  <2> QED
    BY <2>1, <2>2, <2>3, <2>4, EngineSteps
<1> QED
  BY <1>1, <1>2, ThreadInvariant, PTL DEF Spec

\* Every step of the thread is a step of the service, or not seen.
LEMMA ThreadStepServes ==
  ASSUME EngineInv, CallsBegun, [Next]_vars
  PROVE  [Service!Next]_(Service!vars)
<1>1. CASE Tick /\ UNCHANGED <<refs, held, quantities, engineVars>>
  <2>1. Service!TimePasses
    BY <1>1 DEF Tick, engineVars, Service!TimePasses, Phases, IfKnown, Has, Deactivated
  <2> QED
    BY <2>1 DEF Service!Next
<1>2. CASE UNCHANGED <<commonVars, engineVars>>
  <2>1. UNCHANGED <<now, h, when, period, inProcessing, pc>>
    BY <1>2 DEF commonVars, engineVars, callVars
  <2> QED
    BY <2>1, NotSeen
<1>3. CASE ClientCall \/ LoopEnds
  BY <1>3, ClientServes DEF LoopEnds
<1>4. CASE EngineStep
  BY <1>4, OneBody, OneIsProc, EngineStepServes
<1> QED
  BY <1>1, <1>2, <1>3, <1>4, EngineSteps

(***************************************************************************)
(* The thread implements the service: no start, shutdown, join or wakeup   *)
(* shows in what happens to a timer, but that the end of the body switches *)
(* off the timers that wait.                                               *)
(***************************************************************************)
THEOREM ThreadImplements == Spec => Promise
<1>1. Init => Service!Init /\ CallsBegun
  BY ServiceInitially DEF Init
<1>2. IInv /\ CallsBegun /\ [Next]_vars => CallsBegun'
  BY EngineSteps, CallsBegunStep DEF IInv, LoopEnds
<1>3. IInv /\ CallsBegun /\ [Next]_vars => [Service!Next]_(Service!vars)
  BY ThreadStepServes DEF IInv
<1> QED
  BY <1>1, <1>2, <1>3, ThreadInvariant, PTL DEF Spec, Promise, Service!Spec
=============================================================================
