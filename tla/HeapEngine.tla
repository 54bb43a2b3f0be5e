----------------------------- MODULE HeapEngine -----------------------------
(***************************************************************************)
(* timer_heap_engine: the timers form a binary heap, the earliest on the   *)
(* top.  process_expired_timers takes the elapsed timers one by one, and   *)
(* releases the object's lock while it runs the action of each.            *)
(*                                                                         *)
(* The lock belongs to the owner of the engine, as in ListEngine.  Procs   *)
(* are the calls of process_expired_timers, a later one nested in an       *)
(* action of an earlier one.                                               *)
(***************************************************************************)
EXTENDS EngineCommon, HeapOps

CONSTANTS Procs, NoTimer
ASSUME HeapProcsAssumption == Procs \subseteq Nat
ASSUME NoTimerAssumption == NoTimer \notin Timers

VARIABLES
  h,             \* m_heap, and every timer's m_position
  when,          \* timer -> m_when
  period,        \* timer -> m_period
  inProcessing,  \* m_timer_in_processing
  started,       \* call -> the time point it has begun at (its local `now')
  taken,         \* history: call -> the timer it has taken from the heap
  pc             \* call -> where it is in process_expired_timers

engineVars == <<h, when, period, inProcessing, started, taken, pc>>

(***************************************************************************)
(* "loop"    at the test of the loop, the lock is held                     *)
(* "enter"   the lock is released, the action is about to be called        *)
(* "run"     inside the action                                             *)
(* "finish"  the action has returned and the lock is held again            *)
(***************************************************************************)
Stage == {"idle", "loop", "enter", "run", "finish"}

EngineTypeOK ==
  /\ CommonTypeOK
  /\ h \in Heaps(Timers)
  /\ when \in [Timers -> Nat]
  /\ period \in [Timers -> Nat]
  /\ inProcessing \in Timers \cup {NoTimer}
  /\ started \in [Procs -> Nat]
  /\ taken \in [Procs -> Timers \cup {NoTimer}]
  /\ pc \in [Procs -> Stage]

EngineInit ==
  /\ CommonInit
  /\ h = [heap |-> <<>>, position |-> [t \in Timers |-> 0]]
  /\ when = [t \in Timers |-> 0]
  /\ period = [t \in Timers |-> 0]
  /\ inProcessing = NoTimer
  /\ started = [p \in Procs |-> 0]
  /\ taken = [p \in Procs |-> NoTimer]
  /\ pc = [p \in Procs |-> "idle"]

\* timer_type::deactivated() and timer_type::deactivate()
Deactivated(t) == h.position[t] = 0

WithoutPosition(g, t) == [g EXCEPT !.position[t] = 0]

callVars == <<started, taken, pc>>

-----------------------------------------------------------------------------
(***************************************************************************)
(* Operations of a client.  A call that throws before it changes anything, *)
(* and deactivate of a deactivated timer, are stuttering steps.            *)
(***************************************************************************)
Allocate(t) ==
  /\ AllocateObject(t)
  /\ UNCHANGED engineVars

Dismiss(t) ==
  /\ DismissObject(t)
  /\ UNCHANGED engineVars

Activate(t, pause, per) ==
  /\ t \in held
  /\ Deactivated(t)
  /\ when' = [when EXCEPT ![t] = now + pause]
  /\ period' = [period EXCEPT ![t] = per]
  /\ refs' = IncrementReferences(refs, t)
  /\ h' = HeapAdd(h, when', t)
  /\ quantities' = IncTimerCount(quantities, Kind(per))
  /\ UNCHANGED <<now, held, inProcessing, callVars>>

\* A timer in the heap, to which reschedule and deactivate apply at once.
InHeap(t) == ~Deactivated(t) /\ t # inProcessing

\* reschedule() of a timer that is active; of a deactivated one it is Activate.
Reschedule(t, pause, per) ==
  /\ t \in held
  /\ InHeap(t)
  /\ when' = [when EXCEPT ![t] = now + pause]
  /\ period' = [period EXCEPT ![t] = per]
  /\ h' = HeapAdd(HeapRemove(h, when, t), when', t)
  /\ quantities' =
       IncTimerCount(DecTimerCount(quantities, Kind(period[t])), Kind(per))
  /\ UNCHANGED <<now, refs, held, inProcessing, callVars>>

\* Out of the heap, and released.
Release(t) ==
  /\ InHeap(t)
  /\ h' = WithoutPosition(HeapRemove(h, when, t), t)
  /\ quantities' = DecTimerCount(quantities, Kind(period[t]))
  /\ refs' = DecrementReferences(refs, t)
  /\ UNCHANGED <<now, held, when, period, inProcessing, callVars>>

\* The new timer action throws when it is moved into the timer.
RescheduleThrows(t) == t \in held /\ Release(t)

DeactivateInHeap(t) == t \in held /\ Release(t)

\* Mutant: the timer in processing is released at once.
ReleaseInProcessing(t) ==
  /\ t \in held
  /\ ~Deactivated(t) /\ t = inProcessing
  /\ h' = WithoutPosition(h, t)
  /\ quantities' = DecTimerCount(quantities, Kind(period[t]))
  /\ refs' = DecrementReferences(refs, t)
  /\ UNCHANGED <<now, held, when, period, inProcessing, callVars>>

DeactivateInProcessing(t) ==
  /\ t \in held
  /\ ~Deactivated(t) /\ t = inProcessing
  /\ h' = WithoutPosition(h, t)
  /\ UNCHANGED <<commonVars, when, period, inProcessing, callVars>>

Deactivate(t) == DeactivateInHeap(t) \/ DeactivateInProcessing(t)

\* Mutant: the timers keep their positions.
ClearKeepsPositions ==
  /\ h' = [h EXCEPT !.heap = <<>>]
  /\ refs' = [t \in Timers |->
       IF t \in ToSet(h.heap) THEN refs[t] - 1 ELSE refs[t]]
  /\ quantities' = ResetTimerCount
  /\ UNCHANGED <<now, held, when, period, inProcessing, callVars>>

ClearAll ==
  /\ h' = [heap     |-> <<>>,
           position |-> [t \in Timers |->
             IF t \in ToSet(h.heap) THEN 0 ELSE h.position[t]]]
  /\ refs' = [t \in Timers |->
       IF t \in ToSet(h.heap) THEN refs[t] - 1 ELSE refs[t]]
  /\ quantities' = ResetTimerCount
  /\ UNCHANGED <<now, held, when, period, inProcessing, callVars>>

-----------------------------------------------------------------------------
(***************************************************************************)
(* process_expired_timers.                                                 *)
(***************************************************************************)
\* Mutant: the loop stops one clock unit early.
ElapsedBefore(moment) == h.heap # <<>> /\ moment > when[Head(h.heap)] + 1

\* A timer elapses when its time point is in the past.
HeadElapsed(moment) == h.heap # <<>> /\ moment > when[Head(h.heap)]

\* The clock is read once.  With no elapsed timer the call is a stuttering step.
BeginCall(p) ==
  /\ pc[p] = "idle"
  /\ HeadElapsed(now)
  /\ started' = [started EXCEPT ![p] = now]
  /\ pc' = [pc EXCEPT ![p] = "loop"]
  /\ UNCHANGED <<commonVars, h, when, period, inProcessing, taken>>

\* The top of the heap is taken, and the lock is released.
TakeHead(p) ==
  /\ pc[p] = "loop"
  /\ HeadElapsed(started[p])
  /\ inProcessing' = Head(h.heap)
  /\ taken' = [taken EXCEPT ![p] = Head(h.heap)]
  /\ h' = HeapRemove(h, when, Head(h.heap))
  /\ pc' = [pc EXCEPT ![p] = "enter"]
  /\ UNCHANGED <<commonVars, when, period, started>>

EndCall(p) ==
  /\ pc[p] = "loop"
  /\ ~HeadElapsed(started[p])
  /\ pc' = [pc EXCEPT ![p] = "idle"]
  /\ UNCHANGED <<commonVars, h, when, period, inProcessing, started, taken>>

\* execute_timer_in_processing
CallAction(p) ==
  /\ pc[p] = "enter"
  /\ pc' = [pc EXCEPT ![p] = "run"]
  /\ UNCHANGED <<commonVars, h, when, period, inProcessing, started, taken>>

\* The action returns, or throws a std::exception, and the lock is taken back.
FinishAction(p) ==
  /\ pc[p] = "run"
  /\ pc' = [pc EXCEPT ![p] = "finish"]
  /\ UNCHANGED <<commonVars, h, when, period, inProcessing, started, taken>>

\* Mutant: a timer deactivated meanwhile is rescheduled too.
PeriodicOnly(t) == period[t] # 0

MustBeRescheduled(t) == ~Deactivated(t) /\ period[t] # 0

AfterTimer(p) ==
  /\ inProcessing' = NoTimer
  /\ taken' = [taken EXCEPT ![p] = NoTimer]
  /\ pc' = [pc EXCEPT ![p] = "loop"]
  /\ UNCHANGED started

UtilizePeriodic(p) ==
  /\ pc[p] = "finish"
  /\ MustBeRescheduled(inProcessing)
  /\ when' = [when EXCEPT ![inProcessing] = @ + period[inProcessing]]
  /\ h' = HeapAdd(h, when', inProcessing)
  /\ AfterTimer(p)
  /\ UNCHANGED <<commonVars, period>>

\* Mutant: the counter is left alone when the action deactivates its timer.
UtilizeCountsSingleShot(p) ==
  /\ pc[p] = "finish"
  /\ ~MustBeRescheduled(inProcessing)
  /\ quantities' = IF Deactivated(inProcessing)
                   THEN quantities
                   ELSE DecTimerCount(quantities, Kind(period[inProcessing]))
  /\ h' = WithoutPosition(h, inProcessing)
  /\ refs' = DecrementReferences(refs, inProcessing)
  /\ AfterTimer(p)
  /\ UNCHANGED <<now, held, when, period>>

UtilizeOther(p) ==
  /\ pc[p] = "finish"
  /\ ~MustBeRescheduled(inProcessing)
  /\ quantities' = DecTimerCount(quantities, Kind(period[inProcessing]))
  /\ h' = WithoutPosition(h, inProcessing)
  /\ refs' = DecrementReferences(refs, inProcessing)
  /\ AfterTimer(p)
  /\ UNCHANGED <<now, held, when, period>>

-----------------------------------------------------------------------------
(***************************************************************************)
(* What the engine keeps true, if nobody activates the timer that is in    *)
(* processing and calls are not nested.                                    *)
(***************************************************************************)
\* "The timer with the earlier time point is on the top of the heap."
HeapOrdered == Ordered(h, when)

(***************************************************************************)
(* "Position in the heap-array": a timer is in the array once, at its      *)
(* m_position, and any other timer that is not deactivated is the one in   *)
(* processing.  heap_remove and deactivated() rely on it.                  *)
(***************************************************************************)
PositionsExact ==
  /\ Indexed(h)
  /\ \A t \in Timers :
       t \notin ToSet(h.heap) => Deactivated(t) \/ t = inProcessing

\* "Timer which is in processing now can't be reactivated": it is in no heap.
InProcessingIsOut == inProcessing \notin ToSet(h.heap)

(***************************************************************************)
(* "Timer which is currently in processing": each call finds in            *)
(* m_timer_in_processing the timer it has taken itself.                    *)
(***************************************************************************)
InProcessingIsTaken ==
  \A p \in Procs : pc[p] \in {"enter", "run", "finish"} => inProcessing = taken[p]

\* m_timer_in_processing is null but while a timer is processed.
InProcessingIsSet ==
  inProcessing # NoTimer <=> \E p \in Procs : pc[p] \in {"enter", "run", "finish"}

\* The engine has the timers of the heap and the one in processing.
Has(t) == t \in ToSet(h.heap) \/ t = inProcessing

(***************************************************************************)
(* Every timer object has exactly the references of the client's holder    *)
(* and of the engine, also while an action deactivates its own timer.      *)
(***************************************************************************)
RefsExact ==
  \A t \in Timers :
    refs[t] = (IF t \in held THEN 1 ELSE 0) + (IF Has(t) THEN 1 ELSE 0)

EngineInv ==
  /\ EngineTypeOK
  /\ HeapOrdered
  /\ PositionsExact
  /\ InProcessingIsOut
  /\ InProcessingIsTaken
  /\ InProcessingIsSet
  /\ RefsExact

(***************************************************************************)
(* The counters agree with the timers the engine has.                      *)
(***************************************************************************)
QuantitiesExact ==
  \A kind \in TimerKind :
    quantities[kind] = Cardinality({t \in Timers : Has(t) /\ Kind(period[t]) = kind})

-----------------------------------------------------------------------------
(***************************************************************************)
(* The engine as a TimerService, for calls that are not nested.            *)
(***************************************************************************)
Phases ==
  [t \in Timers |->
    IF t = inProcessing
    THEN IF \E p \in Procs : pc[p] = "enter" THEN "taken" ELSE "called"
    ELSE IF t \in ToSet(h.heap) THEN "set" ELSE "off"]

IfKnown(f) == [t \in Timers |-> IF Has(t) THEN f[t] ELSE 0]

(***************************************************************************)
(* The engine keeps the promise of TimerService: every timer is taken on   *)
(* time, called once, and put back or dropped as its user may expect.      *)
(***************************************************************************)
Service == INSTANCE TimerService WITH
  LateCalls <- ThreadSafe,
  phase     <- Phases,
  cancelled <- {t \in Timers : t = inProcessing /\ Deactivated(t)},
  at        <- IfKnown(when),
  every     <- IfKnown(period)

Promise == Service!Spec
=============================================================================
