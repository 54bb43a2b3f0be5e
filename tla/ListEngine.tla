----------------------------- MODULE ListEngine -----------------------------
(***************************************************************************)
(* timer_list_engine: the timers form a list sorted by the time point of   *)
(* their execution.  process_expired_timers cuts the elapsed prefix off    *)
(* the list (the execution list), releases the object's lock, runs the     *)
(* actions, takes the lock back and then disposes of the timers.           *)
(*                                                                         *)
(* The lock is not part of this module: the owner of the engine (a manager *)
(* or a thread) conjoins the guards.  Procs are the concurrent or nested   *)
(* calls of process_expired_timers; each has an execution list of its own. *)
(*                                                                         *)
(* The doubly linked list is a sequence, head first.                       *)
(***************************************************************************)
EXTENDS EngineCommon, SequencesExt

CONSTANT Procs
ASSUME ProcsAssumption == Procs \subseteq Nat

VARIABLES
  status,   \* timer -> m_status
  when,     \* timer -> m_when
  period,   \* timer -> m_period
  list,     \* the list from m_head to m_tail
  exec,     \* call -> its execution list
  cursor,   \* call -> position of `head' in the loop of exec_actions
  pc,       \* call -> where it is in process_expired_timers
  ran       \* history: the timers of the execution lists whose action
            \* has been called

engineVars == <<status, when, period, list, exec, cursor, pc, ran>>

TimerStatus ==
  {"deactivated", "active", "wait_for_execution", "wait_for_deactivation"}

(***************************************************************************)
(* "check"    between two actions, before the test of the status           *)
(* "enter"    the test has passed, the action is about to be called        *)
(* "run"      inside the action                                            *)
(* "utilize"  in utilize_exec_list, the lock is held again                 *)
(***************************************************************************)
Stage == {"idle", "check", "enter", "run", "utilize"}

EngineTypeOK ==
  /\ CommonTypeOK
  /\ status \in [Timers -> TimerStatus]
  /\ when \in [Timers -> Nat]
  /\ period \in [Timers -> Nat]
  /\ list \in Seq(Timers)
  /\ exec \in [Procs -> Seq(Timers)]
  /\ cursor \in [Procs -> Nat]
  /\ pc \in [Procs -> Stage]
  /\ ran \subseteq Timers

EngineInit ==
  /\ CommonInit
  /\ status = [t \in Timers |-> "deactivated"]
  /\ when = [t \in Timers |-> 0]
  /\ period = [t \in Timers |-> 0]
  /\ list = <<>>
  /\ exec = [p \in Procs |-> <<>>]
  /\ cursor = [p \in Procs |-> 1]
  /\ pc = [p \in Procs |-> "idle"]
  /\ ran = {}

-----------------------------------------------------------------------------
(***************************************************************************)
(* The list.  Both operators are sets with one member: the list after the  *)
(* operation.                                                              *)
(***************************************************************************)
\* The search goes from the tail to the first item that is not later than t.
IsInsertionPoint(l, w, t, i) ==
  /\ \A k \in (i + 1)..Len(l) : w[l[k]] > w[t]
  /\ i > 0 => w[l[i]] <= w[t]

InsertTimerToList(l, w, t) ==
  {InsertAt(l, i + 1, t) : i \in {j \in 0..Len(l) : IsInsertionPoint(l, w, t, j)}}

RemoveTimerFromList(l, t) ==
  {RemoveAt(l, i) : i \in {j \in 1..Len(l) : l[j] = t}}

\* Mutant: the scan includes the timer at which it has to stop.
PrefixWithNext(n) ==
  /\ \A k \in 1..(n - 1) : now >= when[list[k]]
  /\ now < when[list[n]]

\* Mutant: a timer that elapses right now is not taken.
StrictPrefix(n) ==
  /\ \A k \in 1..n : now > when[list[k]]
  /\ n < Len(list) => now <= when[list[n + 1]]

\* The first n timers of the list are the elapsed ones.
IsElapsedPrefix(n) ==
  /\ \A k \in 1..n : now >= when[list[k]]
  /\ n < Len(list) => now < when[list[n + 1]]

NothingElapsed == \A n \in 1..Len(list) : ~IsElapsedPrefix(n)

-----------------------------------------------------------------------------
(***************************************************************************)
(* Operations of a client.  A call that throws before it changes anything  *)
(* (a timer that is not deactivated, or in processing) is a stuttering     *)
(* step.                                                                   *)
(***************************************************************************)
Allocate(t) ==
  /\ AllocateObject(t)
  /\ UNCHANGED engineVars

Dismiss(t) ==
  /\ DismissObject(t)
  /\ UNCHANGED engineVars

Activate(t, pause, per) ==
  /\ t \in held
  /\ status[t] = "deactivated"
  /\ when' = [when EXCEPT ![t] = now + pause]
  /\ period' = [period EXCEPT ![t] = per]
  /\ refs' = IncrementReferences(refs, t)
  /\ status' = [status EXCEPT ![t] = "active"]
  /\ list' \in InsertTimerToList(list, when', t)
  /\ quantities' = IncTimerCount(quantities, Kind(per))
  /\ UNCHANGED <<now, held, exec, cursor, pc, ran>>

\* Mutant: the counter is decremented after the period has been replaced.
RescheduleCountsNewKind(t, pause, per) ==
  /\ t \in held
  /\ status[t] = "active"
  /\ when' = [when EXCEPT ![t] = now + pause]
  /\ period' = [period EXCEPT ![t] = per]
  /\ \E rest \in RemoveTimerFromList(list, t) :
       list' \in InsertTimerToList(rest, when', t)
  /\ quantities' =
       IncTimerCount(DecTimerCount(quantities, Kind(per)), Kind(per))
  /\ UNCHANGED <<now, refs, held, status, exec, cursor, pc, ran>>

\* reschedule() of a timer that is active; of a deactivated one it is Activate.
Reschedule(t, pause, per) ==
  /\ t \in held
  /\ status[t] = "active"
  /\ when' = [when EXCEPT ![t] = now + pause]
  /\ period' = [period EXCEPT ![t] = per]
  /\ \E rest \in RemoveTimerFromList(list, t) :
       list' \in InsertTimerToList(rest, when', t)
  /\ quantities' =
       IncTimerCount(DecTimerCount(quantities, Kind(period[t])), Kind(per))
  /\ UNCHANGED <<now, refs, held, status, exec, cursor, pc, ran>>

\* The new timer action throws when it is moved into the timer.
RescheduleThrows(t) ==
  /\ t \in held
  /\ status[t] = "active"
  /\ list' \in RemoveTimerFromList(list, t)
  /\ quantities' = DecTimerCount(quantities, Kind(period[t]))
  /\ status' = [status EXCEPT ![t] = "deactivated"]
  /\ refs' = DecrementReferences(refs, t)
  /\ UNCHANGED <<now, held, when, period, exec, cursor, pc, ran>>

DeactivateActive(t) ==
  /\ t \in held
  /\ status[t] = "active"
  /\ list' \in RemoveTimerFromList(list, t)
  /\ quantities' = DecTimerCount(quantities, Kind(period[t]))
  /\ status' = [status EXCEPT ![t] = "deactivated"]
  /\ refs' = DecrementReferences(refs, t)
  /\ UNCHANGED <<now, held, when, period, exec, cursor, pc, ran>>

\* Mutant: the timer is deactivated while it is in an execution list.
DeactivateAtOnce(t) ==
  /\ t \in held
  /\ status[t] = "wait_for_execution"
  /\ status' = [status EXCEPT ![t] = "deactivated"]
  /\ UNCHANGED <<commonVars, when, period, list, exec, cursor, pc, ran>>

DeactivateWaiting(t) ==
  /\ t \in held
  /\ status[t] = "wait_for_execution"
  /\ status' = [status EXCEPT ![t] = "wait_for_deactivation"]
  /\ UNCHANGED <<commonVars, when, period, list, exec, cursor, pc, ran>>

Deactivate(t) == DeactivateActive(t) \/ DeactivateWaiting(t)

\* Mutant: the timers keep their status.
ClearKeepsStatus ==
  /\ list' = <<>>
  /\ refs' = [t \in Timers |->
       IF t \in ToSet(list) THEN refs[t] - 1 ELSE refs[t]]
  /\ quantities' = ResetTimerCount
  /\ UNCHANGED <<now, held, status, when, period, exec, cursor, pc, ran>>

\* Mutant: the counters are not reset.
ClearKeepsCounts ==
  /\ list' = <<>>
  /\ status' = [t \in Timers |->
       IF t \in ToSet(list) THEN "deactivated" ELSE status[t]]
  /\ refs' = [t \in Timers |->
       IF t \in ToSet(list) THEN refs[t] - 1 ELSE refs[t]]
  /\ UNCHANGED <<now, held, quantities, when, period, exec, cursor, pc, ran>>

ClearAll ==
  /\ list' = <<>>
  /\ status' = [t \in Timers |->
       IF t \in ToSet(list) THEN "deactivated" ELSE status[t]]
  /\ refs' = [t \in Timers |->
       IF t \in ToSet(list) THEN refs[t] - 1 ELSE refs[t]]
  /\ quantities' = ResetTimerCount
  /\ UNCHANGED <<now, held, when, period, exec, cursor, pc, ran>>

-----------------------------------------------------------------------------
(***************************************************************************)
(* process_expired_timers.  With no elapsed timer the call returns at once *)
(* (a stuttering step).                                                    *)
(***************************************************************************)
\* make_exec_list, and the lock.unlock() exec_actions begins with.
MakeExecList(p) ==
  /\ pc[p] = "idle"
  /\ \E n \in 1..Len(list) :
       /\ IsElapsedPrefix(n)
       /\ exec' = [exec EXCEPT ![p] = SubSeq(list, 1, n)]
       /\ list' = SubSeq(list, n + 1, Len(list))
       /\ status' = [t \in Timers |->
            IF t \in ToSet(exec'[p]) THEN "wait_for_execution" ELSE status[t]]
  /\ cursor' = [cursor EXCEPT ![p] = 1]
  /\ pc' = [pc EXCEPT ![p] = "check"]
  /\ UNCHANGED <<commonVars, when, period, ran>>

\* exec_actions, without the lock.  The timer the loop is at:
AtCursor(p) == exec[p][cursor[p]]

\* Mutant: the status is not tested before the action is called.
NoCheck(p) ==
  /\ pc[p] = "check"
  /\ cursor[p] <= Len(exec[p])
  /\ pc' = [pc EXCEPT ![p] = "enter"]
  /\ UNCHANGED <<commonVars, status, when, period, list, exec, cursor, ran>>

CheckPasses(p) ==
  /\ pc[p] = "check"
  /\ cursor[p] <= Len(exec[p])
  /\ status[AtCursor(p)] = "wait_for_execution"
  /\ pc' = [pc EXCEPT ![p] = "enter"]
  /\ UNCHANGED <<commonVars, status, when, period, list, exec, cursor, ran>>

CheckFails(p) ==
  /\ pc[p] = "check"
  /\ cursor[p] <= Len(exec[p])
  /\ status[AtCursor(p)] # "wait_for_execution"
  /\ cursor' = [cursor EXCEPT ![p] = @ + 1]
  /\ UNCHANGED <<commonVars, status, when, period, list, exec, pc, ran>>

CallAction(p) ==
  /\ pc[p] = "enter"
  /\ pc' = [pc EXCEPT ![p] = "run"]
  /\ ran' = ran \cup {AtCursor(p)}
  /\ UNCHANGED <<commonVars, status, when, period, list, exec, cursor>>

\* Mutant: an action that throws is called again.
FinishRepeats(p) ==
  /\ pc[p] = "run"
  /\ pc' = [pc EXCEPT ![p] = "check"]
  /\ UNCHANGED <<commonVars, status, when, period, list, exec, cursor, ran>>

\* The action returns, or throws a std::exception that the handler takes.
FinishAction(p) ==
  /\ pc[p] = "run"
  /\ pc' = [pc EXCEPT ![p] = "check"]
  /\ cursor' = [cursor EXCEPT ![p] = @ + 1]
  /\ UNCHANGED <<commonVars, status, when, period, list, exec, ran>>

\* The lock.lock() exec_actions ends with.
LockBack(p) ==
  /\ pc[p] = "check"
  /\ cursor[p] > Len(exec[p])
  /\ pc' = [pc EXCEPT ![p] = "utilize"]
  /\ UNCHANGED <<commonVars, status, when, period, list, exec, cursor, ran>>

\* Mutant: a timer deactivated meanwhile is rescheduled too.
AnyPeriodic(t) == period[t] # 0

\* utilize_exec_list: one iteration of its loop, for the head of the list.
MustBeRescheduled(t) == status[t] = "wait_for_execution" /\ period[t] # 0

LeaveTimer(p) ==
  /\ exec' = [exec EXCEPT ![p] = Tail(exec[p])]
  /\ pc' = [pc EXCEPT ![p] = IF Len(exec[p]) = 1 THEN "idle" ELSE "utilize"]
  /\ ran' = ran \ {Head(exec[p])}

UtilizePeriodic(p) ==
  LET t == Head(exec[p])
  IN  /\ pc[p] = "utilize"
      /\ MustBeRescheduled(t)
      /\ when' = [when EXCEPT ![t] = @ + period[t]]
      /\ status' = [status EXCEPT ![t] = "active"]
      /\ list' \in InsertTimerToList(list, when', t)
      /\ LeaveTimer(p)
      /\ UNCHANGED <<commonVars, period, cursor>>

\* Mutant: the engine keeps its reference.
UtilizeLeaks(p) ==
  LET t == Head(exec[p])
  IN  /\ pc[p] = "utilize"
      /\ ~MustBeRescheduled(t)
      /\ quantities' = DecTimerCount(quantities, Kind(period[t]))
      /\ status' = [status EXCEPT ![t] = "deactivated"]
      /\ LeaveTimer(p)
      /\ UNCHANGED <<now, refs, held, when, period, list, cursor>>

UtilizeOther(p) ==
  LET t == Head(exec[p])
  IN  /\ pc[p] = "utilize"
      /\ ~MustBeRescheduled(t)
      /\ quantities' = DecTimerCount(quantities, Kind(period[t]))
      /\ status' = [status EXCEPT ![t] = "deactivated"]
      /\ refs' = DecrementReferences(refs, t)
      /\ LeaveTimer(p)
      /\ UNCHANGED <<now, held, when, period, list, cursor>>

-----------------------------------------------------------------------------
(***************************************************************************)
(* What the engine keeps true, whoever owns it.                            *)
(***************************************************************************)
\* A timer is active exactly when it is in the list, and it is there once.
ListHoldsActive ==
  /\ \A t \in Timers : status[t] = "active" <=> t \in ToSet(list)
  /\ IsInjective(list)

Waiting(t) == status[t] \in {"wait_for_execution", "wait_for_deactivation"}

(***************************************************************************)
(* A timer waits for execution or deactivation exactly when it is in an    *)
(* execution list, of one call, at one place: two threads that process     *)
(* timers at the same time never share one.                                *)
(***************************************************************************)
ExecHoldsWaiting ==
  /\ \A t \in Timers : Waiting(t) <=> \E p \in Procs : t \in ToSet(exec[p])
  /\ \A p \in Procs : IsInjective(exec[p])
  /\ \A p, q \in Procs : p # q => ToSet(exec[p]) \cap ToSet(exec[q]) = {}

\* nearest_time_point() and make_exec_list() look at the head first.
SortedBy(l, w) == \A i, j \in 1..Len(l) : i < j => w[l[i]] <= w[l[j]]

ListSorted == SortedBy(list, when)

\* The place of a call is consistent with its execution list.
CursorInRange ==
  \A p \in Procs :
    /\ pc[p] = "idle" <=> exec[p] = <<>>
    /\ pc[p] = "check" => cursor[p] \in 1..(Len(exec[p]) + 1)
    /\ pc[p] \in {"enter", "run"} => cursor[p] \in 1..Len(exec[p])

(***************************************************************************)
(* Every timer object has exactly the references of the client's holder    *)
(* and of the engine, which keeps one from activate to the end of the      *)
(* timer's life in the list or in an execution list, whatever deactivate,  *)
(* reset and processing interleave.  So an object the engine still points  *)
(* to is never deleted, and one nobody points to is not leaked.            *)
(***************************************************************************)
RefsExact ==
  \A t \in Timers :
    refs[t] = (IF t \in held THEN 1 ELSE 0) + (IF status[t] # "deactivated" THEN 1 ELSE 0)

(***************************************************************************)
(* A timer in an execution list has elapsed: an action never runs early,   *)
(* whatever is rescheduled between the scan of the list and the call.      *)
(***************************************************************************)
NeverEarly ==
  \A p \in Procs : \A t \in ToSet(exec[p]) : when[t] <= now

(***************************************************************************)
(* In one pass through an execution list every timer's action is called at *)
(* most once, and once the loop of exec_actions has left a timer that is   *)
(* still to be executed, its action has been called.                       *)
(***************************************************************************)
RunsOnce ==
  /\ \A t \in ran : Waiting(t)
  /\ \A p \in Procs : \A k \in 1..Len(exec[p]) :
       /\ pc[p] \in {"check", "enter"} /\ k >= cursor[p] => exec[p][k] \notin ran
       /\ pc[p] = "run" /\ k > cursor[p] => exec[p][k] \notin ran
       /\ /\ status[exec[p][k]] = "wait_for_execution"
          /\ \/ pc[p] = "utilize"
             \/ k < cursor[p]
             \/ pc[p] = "run" /\ k = cursor[p]
          => exec[p][k] \in ran

EngineInv ==
  /\ EngineTypeOK
  /\ ListHoldsActive
  /\ ExecHoldsWaiting
  /\ ListSorted
  /\ CursorInRange
  /\ RefsExact
  /\ NeverEarly
  /\ RunsOnce

\* The number of timers of a kind the engine has a reference to.
Known(kind) ==
  Cardinality({t \in Timers : status[t] # "deactivated" /\ Kind(period[t]) = kind})

(***************************************************************************)
(* "quantities of all timers known to manager/thread": the counters agree  *)
(* with the timers the engine has, also while they are being processed.    *)
(***************************************************************************)
QuantitiesExact == \A kind \in TimerKind : quantities[kind] = Known(kind)

-----------------------------------------------------------------------------
(***************************************************************************)
(* The engine as a TimerService: what each timer does, and what is asked   *)
(* of the ones the engine knows.                                           *)
(***************************************************************************)
Phases ==
  [t \in Timers |->
    IF status[t] = "deactivated" THEN "off"
    ELSE IF status[t] = "active" THEN "set"
    ELSE IF t \in ran THEN "called" ELSE "taken"]

IfKnown(f) == [t \in Timers |-> IF status[t] = "deactivated" THEN 0 ELSE f[t]]

(***************************************************************************)
(* The engine keeps the promise of TimerService: however calls, resets     *)
(* and processing interleave, every timer is taken on time, called once,   *)
(* and put back or dropped as its user may expect.                         *)
(***************************************************************************)
Service == INSTANCE TimerService WITH
  LateCalls <- ThreadSafe,
  phase     <- Phases,
  cancelled <- {t \in Timers : status[t] = "wait_for_deactivation"},
  at        <- IfKnown(when),
  every     <- IfKnown(period)

Promise == Service!Spec
=============================================================================
