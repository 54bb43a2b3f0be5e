----------------------------- MODULE WheelEngine -----------------------------
(***************************************************************************)
(* timer_wheel_engine: the timers are kept in the slots of a wheel.  Every *)
(* tick the next slot is processed: a timer with full rolls left stays,    *)
(* the others form the execution list, and their actions run without the   *)
(* object's lock.  process_expired_timers processes as many ticks as have  *)
(* passed since the last call.                                             *)
(*                                                                         *)
(* The lock belongs to the owner of the engine.  There is one call of      *)
(* process_expired_timers at a time.                                       *)
(***************************************************************************)
EXTENDS EngineCommon, SequencesExt

CONSTANTS
  WheelSize, Granularity,
  Remembered  \* which pauses `notBefore' remembers: "none", "all", or those of
              \* the timers asked for "in_time", before the current tick is over

ASSUME WheelAssumption ==
  /\ WheelSize \in Nat \ {0}
  /\ Granularity \in Nat \ {0}
  /\ Remembered \in {"none", "in_time", "all"}

VARIABLES
  status,     \* timer -> m_status
  position,   \* timer -> m_position
  rolls,      \* timer -> m_full_rolls_left
  period,     \* timer -> m_period, in ticks
  wheel,      \* m_wheel: slot -> its list of timers
  current,    \* m_current_position
  border,     \* m_current_tick_border
  processed,  \* m_current_tick_processed
  started,    \* the time point the call has begun at (its local `now')
  exec,       \* the execution list
  cursor,     \* position of `head' in the loop of exec_actions
  pc,         \* where the call is in process_expired_timers
  tick,       \* history: the number of the tick `current' stands for
  due,        \* history: timer -> the number of the tick it waits for
  notBefore,  \* history: timer -> the time point a client asked for, until
              \* its action is called
  ran         \* history: the timers of the execution list whose action has
              \* been called

wheelVars == <<position, rolls, wheel>>
tickVars == <<current, border, processed, tick>>
callVars == <<started, exec, cursor, pc>>
askedVars == <<due, notBefore, ran>>
engineVars == <<status, period, wheelVars, tickVars, callVars, askedVars>>

Slots == 0..(WheelSize - 1)

TimerStatus ==
  {"deactivated", "active", "wait_for_execution", "wait_for_deactivation"}

(***************************************************************************)
(* "loop"     in the loop of process_expired_timers, the lock is held      *)
(* "check", "enter", "run", "utilize"  as in ListEngine                    *)
(* "advance"  the slot has been processed, the lock is held                *)
(***************************************************************************)
Stage == {"idle", "loop", "check", "enter", "run", "utilize", "advance"}

EngineTypeOK ==
  /\ CommonTypeOK
  /\ status \in [Timers -> TimerStatus]
  /\ position \in [Timers -> Slots]
  /\ rolls \in [Timers -> Nat]
  /\ period \in [Timers -> Nat]
  /\ wheel \in [Slots -> Seq(Timers)]
  /\ current \in Slots
  /\ border \in Nat
  /\ processed \in BOOLEAN
  /\ started \in Nat
  /\ exec \in Seq(Timers)
  /\ cursor \in Nat
  /\ pc \in Stage
  /\ tick \in Nat
  /\ due \in [Timers -> Nat]
  /\ notBefore \in [Timers -> Nat]
  /\ ran \subseteq Timers

EngineInit ==
  /\ CommonInit
  /\ status = [t \in Timers |-> "deactivated"]
  /\ position = [t \in Timers |-> 0]
  /\ rolls = [t \in Timers |-> 0]
  /\ period = [t \in Timers |-> 0]
  /\ wheel = [s \in Slots |-> <<>>]
  /\ current = 0
  /\ border = now + Granularity
  /\ processed = FALSE
  /\ started = 0
  /\ exec = <<>>
  /\ cursor = 1
  /\ pc = "idle"
  /\ tick = 0
  /\ due = [t \in Timers |-> 0]
  /\ notBefore = [t \in Timers |-> 0]
  /\ ran = {}

-----------------------------------------------------------------------------
(***************************************************************************)
(* Durations in ticks: rounded to the nearest, a half up, and never 0.     *)
(***************************************************************************)
DurationToTicks(d) ==
  LET r == (d + Granularity \div 2) \div Granularity
  IN  IF r = 0 THEN 1 ELSE r

PeriodInTicks(per) == IF per = 0 THEN 0 ELSE DurationToTicks(per)

\* set_position_in_the_wheel and insert_demand_to_wheel, into the wheel w.
PutIntoWheel(w, t, ticks) ==
  /\ position' = [position EXCEPT ![t] = (current + ticks) % WheelSize]
  /\ rolls' = [rolls EXCEPT ![t] = ticks \div WheelSize]
  /\ wheel' = [w EXCEPT ![(current + ticks) % WheelSize] = Append(@, t)]
  /\ due' = [due EXCEPT ![t] = tick + ticks]

\* The timers of the list l that are in S, in their order: a set with one member.
Sublist(l, S) ==
  UNION {{[k \in 1..n |-> l[f[k]]] :
            f \in {g \in [1..n -> 1..Len(l)] :
                     /\ \A i, j \in 1..n : i < j => g[i] < g[j]
                     /\ {g[i] : i \in 1..n} = {i \in 1..Len(l) : l[i] \in S}}}
         : n \in 0..Len(l)}

\* The slots after t has been taken out of the slot s, also a set with one member.
RemovedFromSlot(t, s) ==
  {[wheel EXCEPT ![s] = rest] : rest \in Sublist(wheel[s], Timers \ {t})}

\* Mutant: the timer is looked for in the slot that is current.
RemovedFromCurrent(t) == RemovedFromSlot(t, current)

\* remove_timer_from_wheel
RemovedFromWheel(t) == RemovedFromSlot(t, position[t])

\* History: what the client of activate or reschedule may expect.
Asked(t, pause) ==
  notBefore' = [notBefore EXCEPT ![t] =
    IF Remembered = "all" \/ (Remembered = "in_time" /\ now < border) THEN now + pause ELSE 0]

-----------------------------------------------------------------------------
(***************************************************************************)
(* Operations of a client.  A call that throws before it changes anything  *)
(* is a stuttering step.                                                   *)
(***************************************************************************)
Allocate(t) ==
  /\ AllocateObject(t)
  /\ UNCHANGED engineVars

Dismiss(t) ==
  /\ DismissObject(t)
  /\ UNCHANGED engineVars

Activate(t, pause, per) ==
  /\ t \in held
  /\ status[t] = "deactivated"
  /\ refs' = IncrementReferences(refs, t)
  /\ status' = [status EXCEPT ![t] = "active"]
  /\ PutIntoWheel(wheel, t, DurationToTicks(pause))
  /\ period' = [period EXCEPT ![t] = PeriodInTicks(per)]
  /\ quantities' = IncTimerCount(quantities, Kind(period'[t]))
  /\ Asked(t, pause)
  /\ UNCHANGED <<now, held, tickVars, callVars, ran>>

\* reschedule() of a timer that is active; of a deactivated one it is Activate.
Reschedule(t, pause, per) ==
  /\ t \in held
  /\ status[t] = "active"
  /\ \E rest \in RemovedFromWheel(t) : PutIntoWheel(rest, t, DurationToTicks(pause))
  /\ period' = [period EXCEPT ![t] = PeriodInTicks(per)]
  /\ quantities' =
       IncTimerCount(DecTimerCount(quantities, Kind(period[t])), Kind(period'[t]))
  /\ Asked(t, pause)
  /\ UNCHANGED <<now, refs, held, status, tickVars, callVars, ran>>

\* History: nothing is expected of the timers S any more.
Forgotten(S) ==
  /\ due' = [t \in Timers |-> IF t \in S THEN 0 ELSE due[t]]
  /\ notBefore' = [t \in Timers |-> IF t \in S THEN 0 ELSE notBefore[t]]
  /\ ran' = ran \ S

Release(t) ==
  /\ status[t] = "active"
  /\ Forgotten({t})
  /\ wheel' \in RemovedFromWheel(t)
  /\ status' = [status EXCEPT ![t] = "deactivated"]
  /\ quantities' = DecTimerCount(quantities, Kind(period[t]))
  /\ refs' = DecrementReferences(refs, t)
  /\ UNCHANGED <<now, held, position, rolls, period, tickVars, callVars>>

\* The new timer action throws when it is moved into the timer.
RescheduleThrows(t) == t \in held /\ Release(t)

DeactivateActive(t) == t \in held /\ Release(t)

\* Mutant: the timer is released while it is in the execution list.
DeactivateAtOnce(t) ==
  /\ t \in held
  /\ status[t] = "wait_for_execution"
  /\ status' = [status EXCEPT ![t] = "deactivated"]
  /\ refs' = DecrementReferences(refs, t)
  /\ UNCHANGED <<now, held, quantities, period, wheelVars, tickVars, callVars, askedVars>>

DeactivateWaiting(t) ==
  /\ t \in held
  /\ status[t] = "wait_for_execution"
  /\ status' = [status EXCEPT ![t] = "wait_for_deactivation"]
  /\ UNCHANGED <<commonVars, period, wheelVars, tickVars, callVars, askedVars>>

Deactivate(t) == DeactivateActive(t) \/ DeactivateWaiting(t)

InWheel(t) == \E s \in Slots : t \in ToSet(wheel[s])

\* The slot that is current becomes the first one; whether its tick has been
\* processed is not changed.
ClearAll ==
  /\ wheel' = [s \in Slots |-> <<>>]
  /\ status' = [t \in Timers |-> IF InWheel(t) THEN "deactivated" ELSE status[t]]
  /\ refs' = [t \in Timers |-> IF InWheel(t) THEN refs[t] - 1 ELSE refs[t]]
  /\ quantities' = ResetTimerCount
  /\ border' = now + Granularity
  /\ current' = 0
  /\ Forgotten({t \in Timers : InWheel(t)})
  /\ UNCHANGED <<now, held, position, rolls, period, processed, tick, callVars>>

-----------------------------------------------------------------------------
(***************************************************************************)
(* process_expired_timers.                                                 *)
(***************************************************************************)
\* The clock is read once.  With nothing to do the call is a stuttering step.
BeginCall ==
  /\ pc = "idle"
  /\ ~processed \/ now >= border
  /\ started' = now
  /\ pc' = "loop"
  /\ UNCHANGED <<commonVars, status, period, wheelVars, tickVars, exec, cursor, askedVars>>

\* Mutant: a timer with full rolls left is taken, too.
TakenWithRolls(S) == S

\* Mutant: a timer is taken one roll too early.
TakenBeforeLastRoll(S) == {t \in S : rolls[t] <= 1}

\* The timers of a slot that have no full rolls left are taken.
TakenFrom(S) == {t \in S : rolls[t] = 0}

\* make_exec_list, and the lock.unlock() exec_actions begins with.
MakeExecList ==
  LET slot    == wheel[current]
      elapsed == TakenFrom(ToSet(slot))
      rolling == ToSet(slot) \ elapsed
  IN  /\ pc = "loop" /\ ~processed
      /\ exec' \in Sublist(slot, elapsed)
      /\ \E rest \in Sublist(slot, rolling) : wheel' = [wheel EXCEPT ![current] = rest]
      /\ rolls' = [t \in Timers |-> IF t \in rolling THEN rolls[t] - 1 ELSE rolls[t]]
      /\ status' = [t \in Timers |->
           IF t \in elapsed THEN "wait_for_execution" ELSE status[t]]
      /\ cursor' = 1
      /\ pc' = IF elapsed = {} THEN "advance" ELSE "check"
      /\ UNCHANGED <<commonVars, position, period, tickVars, started, askedVars>>

\* exec_actions, without the lock.
AtCursor == exec[cursor]

CheckPasses ==
  /\ pc = "check"
  /\ cursor <= Len(exec)
  /\ status[AtCursor] = "wait_for_execution"
  /\ pc' = "enter"
  /\ UNCHANGED <<commonVars, status, period, wheelVars, tickVars, started, exec, cursor, askedVars>>

CheckFails ==
  /\ pc = "check"
  /\ cursor <= Len(exec)
  /\ status[AtCursor] # "wait_for_execution"
  /\ cursor' = cursor + 1
  /\ UNCHANGED <<commonVars, status, period, wheelVars, tickVars, started, exec, pc, askedVars>>

CallAction ==
  /\ pc = "enter"
  /\ pc' = "run"
  /\ notBefore' = [notBefore EXCEPT ![AtCursor] = 0]
  /\ ran' = ran \cup {AtCursor}
  /\ UNCHANGED <<commonVars, status, period, wheelVars, tickVars, started, exec, cursor, due>>

\* The action returns, or throws a std::exception that the handler takes.
FinishAction ==
  /\ pc = "run"
  /\ pc' = "check"
  /\ cursor' = cursor + 1
  /\ UNCHANGED <<commonVars, status, period, wheelVars, tickVars, started, exec, askedVars>>

\* The lock.lock() exec_actions ends with.
LockBack ==
  /\ pc = "check"
  /\ cursor > Len(exec)
  /\ pc' = "utilize"
  /\ cursor' = 1
  /\ UNCHANGED <<commonVars, status, period, wheelVars, tickVars, started, exec, askedVars>>

\* utilize_exec_list: one iteration of its loop, for the head of the list.
MustBeRescheduled(t) == status[t] = "wait_for_execution" /\ period[t] # 0

LeaveTimer ==
  /\ exec' = Tail(exec)
  /\ pc' = IF Len(exec) = 1 THEN "advance" ELSE "utilize"
  /\ UNCHANGED <<started, cursor>>

UtilizePeriodic ==
  LET t == Head(exec)
  IN  /\ pc = "utilize"
      /\ MustBeRescheduled(t)
      /\ status' = [status EXCEPT ![t] = "active"]
      /\ PutIntoWheel(wheel, t, period[t])
      /\ notBefore' = [notBefore EXCEPT ![t] = 0]
      /\ ran' = ran \ {t}
      /\ LeaveTimer
      /\ UNCHANGED <<commonVars, period, tickVars>>

\* Mutant: a deactivated periodic timer is not counted off.
UtilizeCountsSingleShot ==
  LET t == Head(exec)
  IN  /\ pc = "utilize"
      /\ ~MustBeRescheduled(t)
      /\ status' = [status EXCEPT ![t] = "deactivated"]
      /\ quantities' = DecTimerCount(quantities, "single_shot")
      /\ refs' = DecrementReferences(refs, t)
      /\ Forgotten({t})
      /\ LeaveTimer
      /\ UNCHANGED <<now, held, period, wheelVars, tickVars>>

UtilizeOther ==
  LET t == Head(exec)
  IN  /\ pc = "utilize"
      /\ ~MustBeRescheduled(t)
      /\ status' = [status EXCEPT ![t] = "deactivated"]
      /\ quantities' = DecTimerCount(quantities, Kind(period[t]))
      /\ refs' = DecrementReferences(refs, t)
      /\ Forgotten({t})
      /\ LeaveTimer
      /\ UNCHANGED <<now, held, period, wheelVars, tickVars>>

AdvancePosition ==
  /\ pc = "advance"
  /\ current' = IF current + 1 >= WheelSize THEN 0 ELSE current + 1
  /\ tick' = tick + 1
  /\ processed' = TRUE
  /\ pc' = "loop"
  /\ UNCHANGED <<commonVars, status, period, wheelVars, border, started, exec, cursor, askedVars>>

\* Mutant: the next tick lasts from now on.
SwitchFromNow ==
  /\ pc = "loop" /\ processed
  /\ started >= border
  /\ border' = started + Granularity
  /\ processed' = FALSE
  /\ UNCHANGED <<commonVars, status, period, wheelVars, current, tick, callVars, askedVars>>

SwitchToNextTick ==
  /\ pc = "loop" /\ processed
  /\ started >= border
  /\ border' = border + Granularity
  /\ processed' = FALSE
  /\ UNCHANGED <<commonVars, status, period, wheelVars, current, tick, callVars, askedVars>>

EndCall ==
  /\ pc = "loop" /\ processed
  /\ started < border
  /\ pc' = "idle"
  /\ started' = 0
  /\ UNCHANGED <<commonVars, status, period, wheelVars, tickVars, exec, cursor, askedVars>>

-----------------------------------------------------------------------------
(***************************************************************************)
(* An active timer is in the slot of its m_position, once, and no other    *)
(* timer is in the wheel: remove_timer_from_wheel relies on it.            *)
(***************************************************************************)
WheelHoldsActive ==
  \A s \in Slots :
    /\ ToSet(wheel[s]) = {t \in Timers : status[t] = "active" /\ position[t] = s}
    /\ IsInjective(wheel[s])

Waiting(t) == status[t] \in {"wait_for_execution", "wait_for_deactivation"}

\* A timer waits exactly when it is in the execution list, and it is there once.
ExecHoldsWaiting ==
  /\ \A t \in Timers : Waiting(t) <=> t \in ToSet(exec)
  /\ IsInjective(exec)

(***************************************************************************)
(* Every timer object has exactly the references of the client's holder    *)
(* and of the engine, whatever deactivate, reset and processing interleave. *)
(***************************************************************************)
RefsExact ==
  \A t \in Timers :
    refs[t] = (IF t \in held THEN 1 ELSE 0) + (IF status[t] # "deactivated" THEN 1 ELSE 0)

(***************************************************************************)
(* The counters agree with the timers the wheel knows.                     *)
(***************************************************************************)
QuantitiesExact ==
  \A kind \in TimerKind :
    quantities[kind] =
      Cardinality({t \in Timers : status[t] # "deactivated" /\ Kind(period[t]) = kind})

\* The place of a call is consistent with its execution list.
CursorInRange ==
  /\ pc \in {"idle", "loop", "advance"} <=> exec = <<>>
  /\ pc = "check" => cursor \in 1..(Len(exec) + 1)
  /\ pc \in {"enter", "run"} => cursor \in 1..Len(exec)

(***************************************************************************)
(* In one pass through the execution list every timer's action is called   *)
(* at most once, and once the loop of exec_actions has left a timer that   *)
(* is still to be executed, its action has been called.                    *)
(***************************************************************************)
RunsOnce ==
  /\ \A t \in ran : Waiting(t)
  /\ \A k \in 1..Len(exec) :
       /\ pc \in {"check", "enter"} /\ k >= cursor => exec[k] \notin ran
       /\ pc = "run" /\ k > cursor => exec[k] \notin ran
       /\ /\ status[exec[k]] = "wait_for_execution"
          /\ \/ pc = "utilize"
             \/ k < cursor
             \/ pc = "run" /\ k = cursor
          => exec[k] \in ran

(***************************************************************************)
(* The ticks until the slot of a timer is processed and has no rolls left  *)
(* for it.  Between make_exec_list and the advance the current slot has    *)
(* been processed: its turn comes again after a whole roll.                *)
(***************************************************************************)
Distance(s) == IF s >= current THEN s - current ELSE s - current + WheelSize

SlotDone == pc \notin {"idle", "loop"}

TicksLeft(t) ==
  Distance(position[t]) + rolls[t] * WheelSize
    + (IF SlotDone /\ position[t] = current THEN WheelSize ELSE 0)

(***************************************************************************)
(* No timer is taken before its tick, however many rolls of the wheel lie  *)
(* between and wherever the position is when it is put into the wheel.     *)
(***************************************************************************)
NeverEarly ==
  \A t \in Timers :
    /\ status[t] = "active" => due[t] <= tick + TicksLeft(t)
    /\ Waiting(t) => due[t] <= tick

(***************************************************************************)
(* The border of the tick is not more than a tick ahead of the clock.      *)
(***************************************************************************)
BorderNear == started <= now /\ border <= now + Granularity

EngineInv ==
  /\ EngineTypeOK
  /\ WheelHoldsActive
  /\ ExecHoldsWaiting
  /\ RefsExact
  /\ CursorInRange
  /\ RunsOnce
  /\ NeverEarly
  /\ BorderNear

-----------------------------------------------------------------------------
(***************************************************************************)
(* The engine as a TimerService.                                           *)
(***************************************************************************)
Phases ==
  [t \in Timers |->
    IF status[t] = "deactivated" THEN "off"
    ELSE IF status[t] = "active" THEN "set"
    ELSE IF t \in ran THEN "called" ELSE "taken"]

IfKnown(f) == [t \in Timers |-> IF status[t] = "deactivated" THEN 0 ELSE f[t]]

(***************************************************************************)
(* The engine keeps the promise of TimerService, with time in ticks:       *)
(* every timer is taken on time, called once, and put back or dropped as   *)
(* its user may expect.                                                    *)
(***************************************************************************)
Service == INSTANCE TimerService WITH
  Pauses    <- {DurationToTicks(pause) : pause \in Pauses},
  Periods   <- {PeriodInTicks(per) : per \in Periods},
  LateCalls <- ThreadSafe,
  now       <- tick,
  phase     <- Phases,
  cancelled <- {t \in Timers : status[t] = "wait_for_deactivation"},
  at        <- IfKnown(due),
  every     <- IfKnown(period)

Promise == Service!Spec
=============================================================================
