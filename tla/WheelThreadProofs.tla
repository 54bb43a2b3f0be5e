------------------------- MODULE WheelThreadProofs --------------------------
(***************************************************************************)
(* The wheel thread, for any number of timers, slots, pauses, periods and  *)
(* callers of join(): what the wheel keeps true, that the counters are     *)
(* exact, and that therefore the body never sleeps without a time-out      *)
(* while there is a timer, nor longer than the current tick.               *)
(***************************************************************************)
EXTENDS WheelThread, WheelProofs

\* What a step of the thread does to the engine.
LEMMA EngineSteps ==
  ASSUME [Next]_vars
  PROVE  \/ Tick /\ UNCHANGED <<refs, held, quantities, engineVars>>
         \/ UNCHANGED <<commonVars, engineVars>>
         \/ ClientCall
         \/ EngineStep
         \/ LoopEnds
<1>1. CASE TimePasses
  BY <1>1 DEF TimePasses
<1>2. CASE ClientStep
  BY <1>2 DEF ClientStep, Locked, Unlocked, TouchHolder, CallRescheduleThrows, RescheduleThrows,
              CallDeactivate, Deactivate, DeactivateActive, CallActivate, CallReschedule, ClientCall
<1>3. CASE BodyStep
  BY <1>3 DEF BodyStep, LoopBegins, LoopProcesses, Processes, Sleeps, Wakes, EngineStep
<1>4. CASE WakesSpuriously \/ UNCHANGED vars
  BY <1>4 DEF WakesSpuriously, vars
<1> QED
  BY <1>1, <1>2, <1>3, <1>4 DEF Next

\* The engine's invariant is inductive.
LEMMA EngineInvStep ==
  ASSUME EngineInv, [Next]_vars
  PROVE  EngineInv'
<1>1. CASE \/ Tick /\ UNCHANGED <<refs, held, quantities, engineVars>>
           \/ UNCHANGED <<commonVars, engineVars>>
  BY <1>1, TickPreserves DEF commonVars
<1>2. CASE LoopEnds
  BY <1>2, ClearAllPreserves DEF LoopEnds
<1>3. CASE ClientCall \/ EngineStep
  BY <1>3, ClientCallPreserves, EngineStepPreserves
<1> QED
  BY <1>1, <1>2, <1>3, EngineSteps

\* What a step of the thread does to its own variables.
LEMMA ThreadSteps ==
  ASSUME EngineInv, [Next]_vars
  PROVE  \/ UNCHANGED threadVars
         \/ body' = Notified(body) /\ UNCHANGED <<thread, shutdown, wakeAt, joiner>>
         \/ LockedCall
         \/ UnlockedJoin
         \/ BodyMoves
<1>0. now \in Nat /\ border \in Nat
  BY DEF EngineInv, EngineTypeOK, CommonTypeOK
<1>1. CASE TimePasses \/ UNCHANGED vars
  BY <1>1 DEF TimePasses, vars
<1>2. CASE ClientStep
  <2>1. ASSUME NEW t \in Timers, TouchHolder(t) \/ CallRescheduleThrows(t) \/ CallDeactivate(t)
        PROVE  UNCHANGED threadVars
    BY <2>1 DEF TouchHolder, CallRescheduleThrows, CallDeactivate
  <2>2. ASSUME NEW t \in Timers, NEW pause \in Pauses, NEW per \in Periods,
               CallActivate(t, pause, per) \/ CallReschedule(t, pause, per)
        PROVE  \/ UNCHANGED threadVars
               \/ body' = Notified(body) /\ UNCHANGED <<thread, shutdown, wakeAt, joiner>>
    BY <2>2 DEF CallActivate, CallReschedule, NotifyIfOnly, threadVars
  <2> QED
    BY <1>2, <2>1, <2>2 DEF ClientStep, Locked, Unlocked
<1>3. CASE BodyStep \/ WakesSpuriously
  <2>1. Sleeps => BodyMoves
    <3>1. Nearest \in Nat /\ Empty \in BOOLEAN
      BY <1>0 DEF Nearest, Empty
    <3> QED
      BY <3>1 DEF Sleeps, BodyMoves
  <2>2. Wakes => BodyMoves
    BY <1>0 DEF Wakes, BodyMoves
  <2>3. LoopBegins \/ LoopEnds \/ LoopProcesses \/ WakesSpuriously => BodyMoves
    BY DEF LoopBegins, LoopEnds, LoopProcesses, WakesSpuriously, BodyMoves
  <2> QED
    BY <1>3, <2>1, <2>2, <2>3 DEF BodyStep, Processes
<1> QED
  BY <1>1, <1>2, <1>3 DEF Next

(***************************************************************************)
(* The engine is in a call only while the body is in                       *)
(* process_expired_timers, and when that call is over the tick has been    *)
(* processed: nearest_time_point() is its border.                          *)
(***************************************************************************)
TickDone == body = "process" /\ pc = "idle" => processed

LEMMA BodyStepKeeps ==
  ASSUME JoinedOnce, BodyMatches, TickDone, [Next]_vars
  PROVE  BodyMatches' /\ TickDone'
<1> USE DEF BodyMatches, TickDone
<1>1. CASE UNCHANGED <<pc, processed, body>>
  BY <1>1
<1>2. CASE UNCHANGED <<pc, processed>> /\ body' = Notified(body)
  BY <1>2 DEF Notified
<1>3. CASE Locked
  <2>1. UNCHANGED <<pc, processed>>
    BY <1>3 DEF Locked, engineVars, tickVars, callVars
  <2>2. \/ UNCHANGED body
        \/ body' = Notified(body)
        \/ body' \in {"starting", "none"} /\ (~thread \/ \E c \in Joiners : joiner[c] = "joined")
    BY <1>3 DEF Locked, LockedCall, StartThread, ShutdownThread, JoinBegins, JoinResets
  <2>3. body' \in {"starting", "none"} /\ (~thread \/ \E c \in Joiners : joiner[c] = "joined")
          => body # "process"
    BY DEF JoinedOnce
  <2> QED
    BY <1>1, <1>2, <2>1, <2>2, <2>3
<1>4. CASE ClientStep /\ ~Locked
  <2>1. CASE Unlocked
    BY <1>1, <2>1 DEF Unlocked, UnlockedJoin, JoinThrows, JoinReturns, engineVars, tickVars,
                      callVars
  <2>2. ASSUME NEW t \in Timers, TouchHolder(t) \/ CallRescheduleThrows(t) \/ CallDeactivate(t)
        PROVE  UNCHANGED <<pc, processed, body>>
    BY <2>2 DEF TouchHolder, Allocate, Dismiss, CallRescheduleThrows, RescheduleThrows, Release,
                CallDeactivate, Deactivate, DeactivateActive, DeactivateWaiting, threadVars,
                engineVars, tickVars, callVars
  <2>3. ASSUME NEW t \in Timers, NEW pause \in Pauses, NEW per \in Periods,
               CallActivate(t, pause, per) \/ CallReschedule(t, pause, per)
        PROVE  UNCHANGED <<pc, processed>> /\ (UNCHANGED body \/ body' = Notified(body))
    BY <2>3 DEF CallActivate, Activate, CallReschedule, Reschedule, NotifyIfOnly, threadVars,
                tickVars, callVars
  <2> QED
    BY <1>1, <1>2, <1>4, <2>1, <2>2, <2>3 DEF ClientStep
<1>5. CASE BodyStep
  <2>1. CASE LoopBegins \/ LoopEnds \/ Sleeps \/ Wakes
    BY <2>1 DEF LoopBegins, GetsLock, LoopEnds, BodyReturns, ClearAll, Sleeps, SleepForNextEvent,
                Wakes, TimesOut, engineVars, callVars
  <2>2. CASE LoopProcesses
    BY <2>2 DEF LoopProcesses, BodyProcesses, BeginCall, engineVars, tickVars, callVars
  <2>3. CASE Processes
    <3>1. body = "process" /\ body' = "process"
      BY <2>3 DEF Processes, threadVars
    <3>2. pc' = "idle" => EndCall
      BY <2>3 DEF Processes, MakeExecList, CheckPasses, CheckFails, CallAction, FinishAction,
                  LockBack, UtilizePeriodic, UtilizeOther, LeaveTimer, AdvancePosition,
                  SwitchToNextTick, callVars
    <3> QED
      BY <3>1, <3>2 DEF EndCall, tickVars
  <2> QED
    BY <1>5, <2>1, <2>2, <2>3 DEF BodyStep
<1>6. CASE WakesSpuriously
  BY <1>6 DEF WakesSpuriously, SpuriousWakeup, engineVars, callVars
<1>7. CASE TimePasses \/ UNCHANGED vars
  BY <1>1, <1>7 DEF TimePasses, vars, engineVars, tickVars, callVars, threadVars
<1> QED
  BY <1>3, <1>4, <1>5, <1>6, <1>7 DEF Next

LEMMA ThreadStepKeepsInvariant ==
  ASSUME IInv, TickDone, [Next]_vars
  PROVE  IInv' /\ TickDone'
<1>1. EngineInv'
  BY EngineInvStep DEF IInv
<1>2. ThreadTypeOK' /\ JoinedOnce'
  BY ThreadSteps, ThreadStepKeeps DEF IInv
<1>3. BodyMatches' /\ TickDone'
  BY BodyStepKeeps DEF IInv
<1> QED
  BY <1>1, <1>2, <1>3 DEF IInv

LEMMA InvariantAndTick == Spec => [](IInv /\ TickDone)
<1>1. Init => IInv /\ TickDone
  <2> SUFFICES ASSUME Init PROVE IInv /\ TickDone
    OBVIOUS
  <2>1. EngineInv
    BY EngineInitially DEF Init
  <2>2. ThreadTypeOK /\ JoinedOnce /\ BodyMatches /\ TickDone
    BY DEF Init, EngineInit, ThreadInit, ThreadTypeOK, JoinedOnce, BodyMatches, TickDone, Place,
           JoinPlace
  <2> QED
    BY <2>1, <2>2 DEF IInv
<1> QED
  BY <1>1, ThreadStepKeepsInvariant, PTL DEF Spec

-----------------------------------------------------------------------------
\* Every reachable state of the thread satisfies the invariant.
THEOREM ThreadInvariant == Spec => []IInv
BY InvariantAndTick, PTL

(***************************************************************************)
(* The counters of a thread are exact, always: the engine is cleared when  *)
(* the body ends, and then nothing is being processed.                     *)
(***************************************************************************)
THEOREM ThreadQuantities == Spec => []QuantitiesExact
<1>1. Init => QuantitiesExact
  BY CountsInitially DEF Init
<1>2. IInv /\ QuantitiesExact /\ [Next]_vars => QuantitiesExact'
  <2> SUFFICES ASSUME IInv, QuantitiesExact, [Next]_vars PROVE QuantitiesExact'
    OBVIOUS
  <2>0. EngineInv
    BY DEF IInv
  <2>1. CASE \/ Tick /\ UNCHANGED <<refs, held, quantities, engineVars>>
             \/ UNCHANGED <<commonVars, engineVars>>
    <3>1. UNCHANGED <<quantities, status, period>>
      BY <2>1 DEF commonVars, engineVars
    <3> QED
      BY <3>1, ExactIsQuantitiesExact, ExactIsQuantitiesExactNext
  <2>2. CASE ClientCall
    BY <2>0, <2>2, ClientKeepsCounts DEF ClientCall
  <2>3. CASE EngineStep
    BY <2>0, <2>3, EngineStepKeepsCounts
  <2>4. CASE LoopEnds
    BY <2>0, <2>4, CountsCleared
    DEF LoopEnds, BodyReturns, IInv, BodyMatches, EngineInv, CursorInRange
  <2> QED
    BY <2>1, <2>2, <2>3, <2>4, EngineSteps
<1> QED
  BY <1>1, <1>2, ThreadInvariant, PTL DEF Spec

-----------------------------------------------------------------------------
\* An engine whose counters are 0 knows no timer, and one that knows none counts none.
LEMMA EmptyKnowsNone ==
  ASSUME EngineInv, QuantitiesExact
  PROVE  Empty <=> \A t \in Timers : status[t] = "deactivated"
<1>1. \A kind \in TimerKind :
        /\ IsFiniteSet(Counted(status, period, kind))
        /\ quantities[kind] = Cardinality(Counted(status, period, kind))
  BY ExactIsQuantitiesExact, CountedFinite DEF Exact
<1>2. \A kind \in TimerKind : quantities[kind] = 0 <=> Counted(status, period, kind) = {}
  BY <1>1, FS_EmptySet
<1>3. \A t \in Timers : Kind(period[t]) \in TimerKind
  BY KindType
<1>4. (\A kind \in TimerKind : Counted(status, period, kind) = {})
        <=> \A t \in Timers : status[t] = "deactivated"
  BY <1>3 DEF Counted
<1> QED
  BY <1>2, <1>4 DEF Empty

\* The first timer of an empty wheel is the one the body is notified of.
LEMMA FirstIsOnly ==
  ASSUME EngineInv, Empty, NEW t \in Timers, NEW kind \in TimerKind,
         quantities' = IncTimerCount(quantities, kind)
  PROVE  TimerCount(quantities') = 1
<1>1. SizeMax \in Nat /\ SizeMax >= 1
  <2>1. IsFiniteSet(Timers) /\ Cardinality(Timers) \in Nat /\ Cardinality(Timers) # 0
    BY TimersAssumption, FS_CardinalityType, FS_EmptySet
  <2> QED
    BY <2>1, SizeMaxAssumption
<1>2. /\ quantities \in [TimerKind -> 0..SizeMax]
      /\ quantities["single_shot"] = 0 /\ quantities["periodic"] = 0
  BY DEF EngineInv, EngineTypeOK, CommonTypeOK, Empty, TimerKind
<1>3. \/ quantities'["single_shot"] = 1 /\ quantities'["periodic"] = 0
      \/ quantities'["single_shot"] = 0 /\ quantities'["periodic"] = 1
  BY <1>1, <1>2 DEF IncTimerCount, TimerKind
<1>4. 1 % (SizeMax + 1) = 1
  BY <1>1
<1> QED
  BY <1>3, <1>4 DEF TimerCount

\* No step of anyone makes the body sleep while there is a timer, or past its tick.
LEMMA NoLostWakeupStep ==
  ASSUME IInv, TickDone, QuantitiesExact, NoLostWakeup, [Next]_vars
  PROVE  NoLostWakeup'
<1>0. /\ EngineInv /\ status \in [Timers -> TimerStatus] /\ border \in Nat
  BY DEF IInv, EngineInv, EngineTypeOK
<1>1. CASE UNCHANGED <<status, border, shutdown, wakeAt, body>>
  BY <1>1 DEF NoLostWakeup
<1>2. CASE body' \notin {"wait", "timed_wait"}
  BY <1>2 DEF NoLostWakeup
<1>3. CASE ClientStep
  <2>1. CASE Locked
    <3>1. CASE \E c \in Joiners : JoinBegins(c)
      BY <1>1, <2>1, <3>1 DEF Locked, JoinBegins, engineVars, tickVars
    <3>2. CASE StartThread \/ ShutdownThread \/ \E c \in Joiners : JoinResets(c)
      BY <1>2, <3>2 DEF StartThread, ShutdownThread, JoinResets, Notified
    <3> QED
      BY <2>1, <3>1, <3>2 DEF Locked, LockedCall
  <2>2. CASE Unlocked
    BY <1>1, <2>2 DEF Unlocked, UnlockedJoin, JoinThrows, JoinReturns, engineVars, tickVars
  <2>3. ASSUME NEW t \in Timers, TouchHolder(t)
        PROVE  NoLostWakeup'
    BY <1>1, <2>3 DEF TouchHolder, Allocate, Dismiss, threadVars, engineVars, tickVars
  <2>4. ASSUME NEW t \in Timers, CallRescheduleThrows(t) \/ CallDeactivate(t)
        PROVE  NoLostWakeup'
    <3>1. /\ status[t] # "deactivated"
          /\ UNCHANGED <<border, shutdown, wakeAt, body>>
      BY <2>4 DEF CallRescheduleThrows, RescheduleThrows, Release, CallDeactivate, Deactivate,
                  DeactivateActive, DeactivateWaiting, threadVars, tickVars
    <3> QED
      BY <3>1 DEF NoLostWakeup
  <2>5. ASSUME NEW t \in Timers, NEW pause \in Pauses, NEW per \in Periods,
               CallReschedule(t, pause, per)
        PROVE  NoLostWakeup'
    <3>1. /\ status[t] # "deactivated"
          /\ UNCHANGED <<border, shutdown, wakeAt, body>>
      BY <2>5 DEF CallReschedule, Reschedule, threadVars, tickVars
    <3> QED
      BY <3>1 DEF NoLostWakeup
  <2>6. ASSUME NEW t \in Timers, NEW pause \in Pauses, NEW per \in Periods,
               CallActivate(t, pause, per)
        PROVE  NoLostWakeup'
    <3>1. /\ NotifyIfOnly
          /\ quantities' = IncTimerCount(quantities, Kind(period'[t]))
          /\ UNCHANGED <<border, shutdown, wakeAt>>
      BY <2>6 DEF CallActivate, Activate, tickVars
    <3>2. CASE body = "wait"
      <4>1. Empty
        BY <1>0, <3>2, EmptyKnowsNone DEF NoLostWakeup
      <4>2. PICK kind \in TimerKind : kind = Kind(period'[t])
        BY DEF Kind, TimerKind
      <4>3. TimerCount(quantities') = 1
        BY <1>0, <3>1, <4>1, <4>2, FirstIsOnly
      <4> QED
        BY <1>2, <3>1, <3>2, <4>3 DEF NotifyIfOnly, Notified
    <3>3. CASE body # "wait"
      BY <3>1, <3>3 DEF NotifyIfOnly, Notified, NoLostWakeup
    <3> QED
      BY <3>2, <3>3
  <2> QED
    BY <1>3, <2>1, <2>2, <2>3, <2>4, <2>5, <2>6 DEF ClientStep
<1>4. CASE BodyStep
  <2>1. CASE LoopBegins \/ LoopEnds \/ LoopProcesses \/ Wakes
    BY <1>2, <2>1 DEF LoopBegins, GetsLock, LoopEnds, BodyReturns, LoopProcesses, BodyProcesses,
                      Wakes, TimesOut
  <2>2. CASE Processes
    BY <1>2, <2>2 DEF Processes, threadVars
  <2>3. CASE Sleeps
    <3>1. /\ SleepForNextEvent(Empty, border)
          /\ UNCHANGED <<status, border>>
      BY <2>3 DEF Sleeps, SleepForNextEvent, TickDone, Nearest, engineVars, tickVars
    <3>2. /\ body' = "wait" => ~shutdown' /\ Empty
          /\ body' = "timed_wait" => ~shutdown' /\ wakeAt' = border
      BY <3>1 DEF SleepForNextEvent
    <3>3. border <= border
      BY <1>0
    <3>4. Empty => \A t \in Timers : status'[t] = "deactivated"
      BY <1>0, <3>1, EmptyKnowsNone
    <3> QED
      BY <3>1, <3>2, <3>3, <3>4 DEF NoLostWakeup
  <2> QED
    BY <1>4, <2>1, <2>2, <2>3 DEF BodyStep
<1>5. CASE WakesSpuriously
  BY <1>2, <1>5 DEF WakesSpuriously, SpuriousWakeup
<1>6. CASE TimePasses \/ UNCHANGED vars
  BY <1>1, <1>6 DEF TimePasses, vars, engineVars, tickVars, threadVars
<1> QED
  BY <1>3, <1>4, <1>5, <1>6 DEF Next

(***************************************************************************)
(* The body never sleeps without a time-out while there is a timer, nor    *)
(* past the border of the current tick, nor past a shutdown: notifying it  *)
(* of the first timer of an empty wheel only is enough.                    *)
(***************************************************************************)
THEOREM NoWakeupIsLost == Spec => []NoLostWakeup
<1>1. Init => NoLostWakeup
  BY DEF Init, ThreadInit, NoLostWakeup
<1> QED
  BY <1>1, NoLostWakeupStep, InvariantAndTick, ThreadQuantities, PTL DEF Spec

-----------------------------------------------------------------------------
(***************************************************************************)
(* If no pause and no period is a whole number of rolls, the thread keeps  *)
(* the promise of TimerService.                                            *)
(***************************************************************************)
THEOREM ThreadImplements ==
  ASSUME NoWholeRolls
  PROVE  Spec => Promise
<1>1. Init => Service!Init /\ OnTime
  BY ServiceInitially, OnTimeInitially DEF Init
<1>2. IInv /\ OnTime /\ [Next]_vars => OnTime' /\ [Service!Next]_(Service!vars)
  <2> SUFFICES ASSUME EngineInv, OnTime, [Next]_vars
               PROVE  OnTime' /\ [Service!Next]_(Service!vars)
    BY DEF IInv
  <2>1. CASE \/ Tick /\ UNCHANGED <<refs, held, quantities, engineVars>>
             \/ UNCHANGED <<commonVars, engineVars>>
    <3>1. UNCHANGED engineVars
      BY <2>1
    <3>2. UNCHANGED <<tick, status, due, period, ran>>
      BY <3>1 DEF engineVars, tickVars, askedVars
    <3>3. OnTime'
      BY <3>1, ClientOnTime
    <3> QED
      BY <3>2, <3>3, NotSeen
  <2>2. CASE ClientCall \/ LoopEnds
    BY <2>2, ClientOnTime, ClientServes DEF LoopEnds
  <2>3. CASE EngineStep
    BY <2>3, ThreadIsSafe, EngineStepOnTime, EngineStepServes
  <2> QED
    BY <2>1, <2>2, <2>3, EngineSteps
<1> QED
  BY <1>1, <1>2, ThreadInvariant, PTL DEF Spec, Promise, Service!Spec
-----------------------------------------------------------------------------
(***************************************************************************)
(* An action is called less than two ticks before the pause asked for has  *)
(* passed, if it was asked for before the tick the wheel stands for was    *)
(* over.  Of the others this is not so: the run wheel_thread_lag.          *)
(***************************************************************************)
THEOREM ThreadPausesAreKept ==
  ASSUME Remembered # "all"
  PROVE  Spec => NotBeforePause
<1> DEFINE A == pc = "enter" /\ pc' = "run" => now + 2 * Granularity > notBefore[AtCursor]
<1>1. Init => InTime
  BY InTimeInitially DEF Init
<1>2. IInv /\ InTime /\ [Next]_vars => InTime' /\ [A]_vars
  <2> SUFFICES ASSUME EngineInv, InTime, [Next]_vars
               PROVE  InTime' /\ [A]_vars
    BY DEF IInv
  <2>1. CASE \/ Tick /\ UNCHANGED <<refs, held, quantities, engineVars>>
             \/ UNCHANGED <<commonVars, engineVars>>
    <3>1. \/ Tick /\ UNCHANGED engineVars
          \/ UNCHANGED <<now, engineVars>>
      BY <2>1 DEF commonVars
    <3>2. UNCHANGED pc
      BY <3>1 DEF engineVars, callVars
    <3> QED
      BY <3>1, <3>2, ClientInTime
  <2>2. CASE LoopEnds \/ ClientCall
    <3>1. ClearAll \/ ClientCall
      BY <2>2 DEF LoopEnds
    <3>2. UNCHANGED pc
      BY <3>1 DEF ClearAll, ClientCall, Allocate, Dismiss, Release, DeactivateWaiting, Activate,
                  Reschedule, engineVars, callVars
    <3> QED
      BY <3>1, <3>2, ClientInTime
  <2>3. CASE EngineStep
    <3>1. pc = "enter" /\ pc' = "run" => CallAction
      BY <2>3 DEF EngineStep, BeginCall, SwitchToNextTick, EndCall, CheckPasses, CheckFails,
                  FinishAction, LockBack, MakeExecList, AdvancePosition, UtilizePeriodic,
                  UtilizeOther
    <3> QED
      BY <2>3, <3>1, EngineStepInTime, CalledInTime
  <2> QED
    BY <2>1, <2>2, <2>3, EngineSteps
<1> QED
  BY <1>1, <1>2, ThreadInvariant, PTL DEF Spec, NotBeforePause
=============================================================================
