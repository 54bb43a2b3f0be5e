---------------------------- MODULE EngineCommon ----------------------------
(***************************************************************************)
(* What every timer engine of timertt shares: the reference-counted timer  *)
(* objects (timer_object, timer_object_holder), the counters of active     *)
(* timers (engine_common, timer_quantities) and the monotonic clock.       *)
(*                                                                         *)
(* An operation of an engine is an action in the engine's module; the      *)
(* operators below are the parts of it that concern this state.            *)
(***************************************************************************)
EXTENDS Integers, FiniteSets

CONSTANTS
  ThreadSafe, \* thread_safety::safe, or thread_safety::unsafe
  Timers,     \* identities of timer objects; one may be freed and reused
  Pauses,     \* pauses a client passes to activate and reschedule
  Periods,    \* periods it passes; 0 makes a single-shot timer
  MaxTime,    \* the clock stops here: a bound for model checking
  SizeMax     \* the largest value of std::size_t

ASSUME ThreadSafetyAssumption == ThreadSafe \in BOOLEAN
ASSUME TimersAssumption == IsFiniteSet(Timers)
ASSUME DurationsAssumption == Pauses \subseteq Nat /\ Periods \subseteq Nat
ASSUME MaxTimeAssumption == MaxTime \in Nat
ASSUME SizeMaxAssumption == SizeMax \in Nat /\ Cardinality(Timers) <= SizeMax

VARIABLES
  now,        \* monotonic_clock::now()
  refs,       \* timer -> m_references; 0 when there is no such object
  held,       \* the timers a client has a timer_object_holder for
  quantities  \* m_timer_quantities: kind -> number of timers

commonVars == <<now, refs, held, quantities>>

TimerKind == {"single_shot", "periodic"}

\* timer_type::kind()
Kind(p) == IF p = 0 THEN "single_shot" ELSE "periodic"

CommonTypeOK ==
  /\ now \in Nat
  /\ refs \in [Timers -> Nat]
  /\ held \subseteq Timers
  /\ quantities \in [TimerKind -> 0..SizeMax]

-----------------------------------------------------------------------------
(***************************************************************************)
(* The counters are std::size_t: they wrap around.                         *)
(***************************************************************************)
IncTimerCount(q, kind) ==
  [q EXCEPT ![kind] = IF @ = SizeMax THEN 0 ELSE @ + 1]

DecTimerCount(q, kind) ==
  [q EXCEPT ![kind] = IF @ = 0 THEN SizeMax ELSE @ - 1]

ResetTimerCount == [kind \in TimerKind |-> 0]

(***************************************************************************)
(* Reference counting.  An object whose count drops to 0 is deleted.       *)
(***************************************************************************)
IncrementReferences(r, t) == [r EXCEPT ![t] = @ + 1]

DecrementReferences(r, t) == [r EXCEPT ![t] = @ - 1]

-----------------------------------------------------------------------------
CommonInit ==
  /\ now = 0
  /\ refs = [t \in Timers |-> 0]
  /\ held = {}
  /\ quantities = ResetTimerCount

\* The clock advances by itself.
Tick ==
  /\ now < MaxTime
  /\ now' = now + 1

\* engine.allocate(): a new object, owned by the holder that is returned.
AllocateObject(t) ==
  /\ refs[t] = 0
  /\ refs' = IncrementReferences(refs, t)
  /\ held' = held \cup {t}
  /\ UNCHANGED <<now, quantities>>

\* The client's last holder of the timer is destroyed or reset.
DismissObject(t) ==
  /\ t \in held
  /\ refs' = DecrementReferences(refs, t)
  /\ held' = held \ {t}
  /\ UNCHANGED <<now, quantities>>
=============================================================================
