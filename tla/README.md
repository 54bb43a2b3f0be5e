# A verification of timertt

timertt is a header-only C++ library of timers: all of its program logic is in
`src/timertt/all.hpp` (line numbers below are of that file). This directory
holds TLA+ modules that model it, TLC configurations that check them, and proofs
for TLAPS.

- [The system](#the-system)
- [Modules](#modules)
- [Runs](#runs)
- [Proofs](#proofs)
- [What the checks found](#what-the-checks-found)
- [Not modelled](#not-modelled)

To check a run: `tlc -config list_thread.cfg MCListThread.tla`; to check the
proofs of a module: `tlapm ListProofs.tla`. `PROJECT.json` lists runs,
theorems, hazards, findings, and for every definition the source lines it models.

## The system

A client **allocates** a timer object, **activates** it with a pause, a period
(zero: single-shot) and an action, may **reschedule** or **deactivate** it, and
drops its holder. An *engine* keeps the active timers. A *manager* is an engine
whose `process_expired_timers` the client calls; a *timer thread* is an engine
with a thread that calls it.

| component | lines | state | operations | what makes it correct |
|---|---|---|---|---|
| timer object, holder | 103-420 | `m_references`, `m_status` or `m_position` | increment, decrement, `dismiss_object` | deleted once, and only when neither a holder nor the engine points to it |
| engine_common | 686-830 | two counters, `std::size_t` | inc, dec, reset | they equal the number of timers the engine has: the wheel's `empty()` and its thread's sleep rest on them |
| list engine | 1640-2210 | a list sorted by time point; execution lists | activate, reschedule, deactivate, process_expired_timers, clear_all | nothing elapsed is left behind, nothing is run early, twice or after deactivate |
| heap engine | 2250-2850 | array heap, positions, the timer in processing | the same | heap order, a timer's position is its index, earliest first |
| wheel engine | 880-1600 | slots, current position, tick border, rolls left | the same | a timer is taken on its tick, whatever rolls of the wheel lie between; a call that comes late leaves none behind |
| manager | 2860-2925, 3470-3547 | a mutex, or nothing | adds `reset`, `nearest_time_point`, `timeout_before_nearest_timer` | every call is atomic, except that actions run without the lock; a program that sleeps as told is late for a timer by no more than its own delay |
| timer thread | 2930-2985, 3550-3700 | `m_thread`, `m_shutdown`, condition variable | start, shutdown, join, body | no lost wakeup; shutdown ends the body; m_thread is reset once, after the body; join returns |
| scoped objects, action storage, logger, exception handler | | | | see [Not modelled](#not-modelled) |

**How they interact.** Everything is a direct call under one lock per manager or
thread. The exception, and the source of nearly every difficulty, is that
`process_expired_timers` *releases the lock while it runs the actions*: the
actions and other threads may then call anything, `deactivate` of a timer that
waits in the execution list, `reset()`, even `process_expired_timers` itself.
The engine answers with statuses: a timer in an execution list is
`wait_for_execution`; deactivate only marks it `wait_for_deactivation` and leaves
the rest to `utilize_exec_list`. The heap has no execution list but one
`m_timer_in_processing` at a time. A client's activate tells the owner whether
the new timer is the first one, and the thread is then notified.

**What is hard.** Interleavings with the unlocked part; a status tested without
the lock; the counters and references whose decrement is left to a later step;
`reset` in the middle of it; the order of the list after a periodic timer is put
back; the heap's two repair loops; the wheel's rolls, its position that lags, the
slot that is still current while timers are put back; the notification, the
time-out and the spurious wakeup that race in the thread's sleep; shutdown from an
action; an activate between the end of the body and join; two callers of join;
a clock that goes on between a program's question and its sleep. `PROJECT.json` lists them
as hazards, at their lines, with the properties that would catch each.

## Modules

| module | models |
|---|---|
| `EngineCommon` | clock, references and holders, counters (shared by the engines) |
| `TimerService` | the abstract specification: what any engine promises the user of a timer |
| `ListEngine` | `timer_list_engine`, the lock left to the owner |
| `HeapOps` | heap_add, heap_remove, heap_down_item, as functions on a heap |
| `HeapAlone` | a specification that applies `HeapOps` once to any heap in order |
| `HeapEngine` | `timer_heap_engine` |
| `WheelEngine` | `timer_wheel_engine` |
| `ListManager`, `HeapManager`, `WheelManager` | the manager templates over the engines: the lock, safe and unsafe, reset |
| `ManagerLoop` | a single-threaded program around a list manager: events, processing, nearest_time_point or timeout_before_nearest_timer, sleep |
| `TimerThread` | `thread_mixin` and `thread_impl_template`: body, condition variable, start, shutdown, join |
| `ListThread`, `HeapThread`, `WheelThread` | the thread templates: `TimerThread` composed with each engine |
| `MC*` | constants and symmetry for TLC |
| `SharedLemmas` | what insertion, removal and cutting do to a sequence; counting timers; induction over a measure, and loops that end; the body and join of a thread |
| `ListProofs`, `WheelProofs`, `HeapProofs` | every step of an engine keeps the engine's invariant, and is a step of `TimerService`; the theorems about the managers; for the heap, what its two loops compute |
| `ListThreadProofs`, `WheelThreadProofs`, `HeapThreadProofs` | the theorems about the threads |
| `ManagerLoopProofs` | the theorems about the program around a manager |

An engine module has one action for each operation, with no lock; a manager or
thread EXTENDS it and conjoins the guards the lock implies. So `ListManager`,
`ListThread` and `ManagerLoop` share the actions of `ListEngine`, and the lemmas
about them. `TimerThread` has the body and its condition variable without an engine; each
thread module conjoins its steps with the engine's (`LoopEnds` is
`BodyReturns /\ ClearAll`).

**Correspondence.** Names are the code's: `status` is `m_status`, `when` is
`m_when`, `list` is the list from `m_head` to `m_tail` (the prev and next pointers
are abstracted to a sequence), `h` is `m_heap` with all `m_position`s. A call that
throws before it changes anything, and a call with nothing to do, are stuttering
steps. `process_expired_timers` is cut where another thread, or an action, can
come in between, and `pc` says where a call is. For the list: `MakeExecList`
(locked), then for each timer the test of its status (`CheckPasses`,
`CheckFails`) and, as steps of their own because nothing is locked, the call and
the return of its action (`CallAction`, `FinishAction`), `LockBack`, and one step per timer
of `utilize_exec_list`, during which nobody else has the lock. The unlocked read
of `m_status` races the write of another thread; it may see the old value or the
new one, which are the two orders of the two steps. The wheel has the same steps
for each tick, and `AdvancePosition` and `SwitchToNextTick` between ticks. The heap takes
one timer at a time (`TakeHead`), runs its action unlocked, and goes on.

A thread's body is at a place (`body`): at its loop, in
`process_expired_timers`, asleep with or without a time-out, woken and about to
take the lock back, or returned. `JoinBegins`, `JoinReturns` and `JoinResets` are the
three parts of `join` between which the lock is not held; a caller whose copy of
`m_thread` somebody else has joined gets an exception (`JoinThrows`). Two callers
that join at the same moment call `std::thread::join()` of one object (3633) from two threads, by the standard a
data race; the model has what a `std::thread` over glibc's pthreads does: one of the two calls throws.
A join from a timer's action throws at once, a stuttering step.
The destructor is a call of shutdown and join by the last client.

`Procs` are the calls of `process_expired_timers` that may be active at once. The
documentation (`docs/getting_started.dox`) asks the user of a manager to call it
from one thread, so that a second call is nested in an action of the first. The
list model allows calls from several threads too, which is more than is promised:
its invariant does not need the restriction. In the program of `ManagerLoop` calls are nested, the
lowest number being the loop's own. In the heap model a second call is nested; the wheel has one.

`ResetWhileProcessing` and `ActivateWhileProcessing` say whether clients do what
the counters, or the heap, do not survive (see [findings](#what-the-checks-found)), so that the
other behaviour can be checked with and without it.

**The abstract specification.** In `TimerService` a timer is off, set for a time
point, taken, or called. It is taken when its time has come, not earlier; then it is called
once, unless it is cancelled first; then it is set again, one period after the last
time point, or dropped, and a cancelled one is always dropped. Reset touches
only timers that are set. Each engine implements it under a
refinement mapping at its end (`Service`, `Promise`): the list's statuses and time points,
the heap's membership and timer in processing, and for the wheel ticks instead of time
points: its `now` is the number of the current tick. `LateCalls` allows a call after a cancel that
came after the test of the status; it is `ThreadSafe`, so that an unsafe
manager is held to the stronger promise.

**Abstractions.** Time points and durations are small integers; the order of time
points is what matters, and for the wheel the rounding to ticks, which is
modelled. `SizeMax` is the largest value of a counter: counters wrap at it as
`std::size_t` does, and it is at least the number of timers. Actions have no
content: what an action does is whatever client step happens while its call is in
stage "run". An exception of an action that is a `std::exception` ends it; any
other aborts the process. A client has at most one holder of a timer. The wheel's
size and granularity are at least 1: with 0 the code divides by zero.

**History variables**: `ran` (list and wheel; actions called in the current pass), `taken`
(heap), `tick`, `due`, `notBefore` (wheel), `delay` (program). They record, and no guard reads them. `notBefore`
remembers what `Remembered` says: no pauses (a smaller state space), those asked for while the wheel is
in time, or all.

**Bounds**: `MaxTime` bounds the clock (guard of `Tick`), `Pauses` and `Periods`
are the arguments clients pass; timers, calls, callers of join and wheel size are finite.

**Mutants.** A definition introduced by a comment "Mutant:" is not part of the
model: it is the wrong version, with the bug a programmer might have made, of the
definition that follows it. `PROJECT.json` pairs each with the
properties that catch it, so every checked property is known to be sensitive to the code.

## Runs

Passing:

| run | question | bounds |
|---|---|---|
| `list_manager_safe` | with a safe manager, clients at any moment and two calls at once: is a timer ever in two execution lists, leaked, freed under the engine, miscounted, run twice or put back after deactivate? Does it implement `TimerService`? | 2 timers, 2 calls, time 0..2 |
| `manager_loop` | with a program whose events and actions call back, nested processing and reset included: does the invariant hold, is every elapsed timer taken, is a deactivated timer never run, does the loop sleep past a timer by more than its own delay, is every due timer served? | 2 timers, 2 nested calls, time 0..1 |
| `list_thread` | with start, shutdown, join, restart, spurious wakeups: is a wakeup ever lost; is a due timer served; does a shutdown end the body; does join return? Does it implement `TimerService`? | 2 timers, 1 caller of join, time 0..1 |
| `heap_ops` | do heap_add and heap_remove (from any place) keep order, members and positions? | every heap of up to 12 timers with time points 0..2 |
| `heap_manager` | heap, positions, references, counters; elapsed timers in order, all of them; reset from actions. Does it implement `TimerService`? | 3 timers, 1 call, unsafe, time 0..2 |
| `heap_thread` | the same thread over the heap, whose lock is free around every action: no lost wakeup, due timers leave the heap, join returns | 2 timers, 1 caller of join, time 0..2 |
| `wheel_manager` | slots, execution list, references, counters; every timer taken on its tick, not early in the clients' time either; does a call that makes up for several ticks leave a timer behind, whatever actions and clients do meanwhile; reset from actions. Does it implement `TimerService`, in ticks? | 2 periodic timers, a wheel of 2 slots, ticks of 2 units, pauses of 1 and 3 ticks, a period of 1, time 0..7 |
| `wheel_thread` | the thread over the wheel: asleep without a time-out only with no timer; a timer whose tick has come is taken; counters exact; two callers of join: m_thread reset by one, both return | 1 timer, 2 callers of join, a wheel of 2 slots, pauses of 1 and 2 ticks, time 0..3 |

Why the bounds suffice. Two timers make every order of two list items, equal time
points included, and let an action of the first deal with the second; two calls
are what exclusion needs. Three timers give the heap a root with two children, so
that a removal leaves it to be repaired; deeper heaps, with moves up into another
subtree, are what `heap_ops` enumerates, and `HeapStaysOrdered` proves for every size (12 items are four levels; three time points
suffice since the algorithms only compare, and a removal compares an item with
its neighbours). In a wheel of two slots a pause of three ticks passes its slot once, with a roll to count, and a period of one tick does not;
all durations have to be rounded. A timer with a pause of 1 tick must have been taken at time 5 or 6, and not one of 3 ticks, so
that calls too late, and ticks made up for, are in the run. Its timers are periodic, which a deactivated one leaves as a single-shot one does; single-shot timers
are in `wheel_thread`. The
clock passes time points timers are first activated with, and a periodic timer elapses again at once.
The threads need time points before and after that of the first timer, and one that is never reached.
The wheel thread sleeps for the border of a tick, whichever timers there are: one timer makes
the wheel empty and not empty, and what several timers do to each other in a slot
is the manager's run. Two callers of join are what the reset of m_thread can go wrong with; the other threads share its definition.

Deadlock is checked except in two runs. The behaviours of `heap_ops` are one
operation long. In `manager_loop` the clock's bound ends a behaviour
while the program is asleep beyond it. Pauses and the period
are such that one of two timers can be due while the time point of the other is beyond the bound: a loop that slept for the
wrong one of them would not serve the first.

`CountsKept` (heap and wheel) states the exactness of the counters step by step: it is
kept by every step except a reset in the middle of processing, after which it is
lost (see below). So the runs can contain such resets for the sake of the other properties. A thread
clears its engine only when nothing is being processed; its counters are exact (`QuantitiesExact`).

**Fairness.** For the threads: weak fairness of the body's steps, of each call of join that has begun,
and of the clock. The operating system schedules a thread that can run; a mutex
that is released again and again is eventually acquired (the client's calls are
short, and the model gives the body weak fairness only: clients that hold the
lock forever are not among its behaviours, since each call is one step); an
action returns; a time-out that has passed wakes the body. There is no fairness for
clients: nobody has to call shutdown, join or notify. A spurious wakeup may happen
and need not. For `ManagerLoop`: weak fairness of the program's only thread and of the clock;
its events and actions end. The bounded clock stops at `MaxTime`, so the liveness
properties only speak of timers that are already due, and that of the loop excepts a sleep
that ends beyond the bound because of the program's own delay (`DelayedPastTheBound`); a sleep that is too long for another reason counts
as a timer not served.

## Proofs

For every finite set of timers, all durations, any bound of the clock, any number of
calls of `process_expired_timers` (list) and callers of join (threads), any size and granularity of the
wheel, any size of the heap, and both modes of the managers:

| module, theorem | says |
|---|---|
| `ListProofs` `Invariant` | `EngineInv` is invariant: order, execution lists, references, cursors |
| `TypeCorrect` | type correctness |
| `References` | a timer object has the references of its holder and of the engine, exactly |
| `Exclusive` | a timer waits exactly when it is in an execution list, and it is in one only |
| `RunsExactlyOnce` | a pass calls a timer's action at most once, and skips only deactivated timers |
| `NotBeforeTime` | nothing is taken early |
| `Quantities` | the counters are exact, if reset is not called during processing |
| `TakesAll` | make_exec_list leaves no elapsed timer behind |
| `NoStaleCheck` | an unsafe manager never runs a deactivated timer's action |
| `WaitingIsLeftAlone` | a timer in an execution list is left alone by everybody but utilize_exec_list, and not rescheduled once deactivated |
| `Implements` | the list manager implements `TimerService` |
| `ManagerLoopProofs` `LoopUsesManager` | the program's behaviours are behaviours of the manager: all of the above holds of it |
| `LoopTakesAll` | so no elapsed timer is left behind in the program, and no deactivated one is run |
| `NoOversleep` | a sleep until nearest_time_point is over when the first timer elapses; one for timeout_before_nearest_timer is over later by the program's delay between the reading of the clock and sleep_for, at most |
| `ListThreadProofs` `ThreadInvariant` | `IInv`: the engine's invariant, m_thread reset once and after the body, no lost wakeup |
| `NoWakeupIsLost` | the body never sleeps past the first timer or a shutdown |
| `ThreadQuantities` | the counters are exact, always |
| `ThreadImplements` | the list thread implements `TimerService` |
| `HeapProofs` `HeapStaysOrdered`, `HeapHoldsMembers` | heap_add and heap_remove leave a heap of any size in order, with its members and the right positions |
| `Invariant` | `EngineInv`: the heap and its positions, the timer in processing, references |
| `EarliestAreFirst` | each timer that is taken is the earliest of the heap |
| `NoneIsLeftBehind` | process_expired_timers returns only when no timer is left that had elapsed when it began |
| `CountsAreKept` | every step but a reset during processing keeps the counters exact |
| `Implements` | the heap manager implements `TimerService` |
| `HeapThreadProofs` `ThreadInvariant`, `ThreadQuantities` | the same invariant through starts, shutdowns and joins; exact counters |
| `NoWakeupIsLost` | the body never sleeps past the top of the heap or a shutdown |
| `ThreadImplements` | the heap thread implements `TimerService` |
| `WheelProofs` `Invariant`, `TypeCorrect` | `EngineInv`: slots, execution list, references, once per pass, never before the tick; types |
| `CountsAreKept` | every step but a reset during processing keeps the counters exact |
| `OnItsTick` | a timer is taken on its tick, if no duration is a number of whole rolls |
| `NoneIsLeftBehind` | under the same condition a call, however late, passes over no timer's tick and leaves no timer behind whose pause had been over for two ticks when it began |
| `Implements` | under the same condition the wheel manager implements `TimerService` |
| `PausesAreKept` | no action is called two ticks or more before the pause asked for has passed, for the timers asked for while the wheel is in time |
| `WheelThreadProofs` `ThreadInvariant`, `ThreadQuantities` | the same invariant through starts, shutdowns and joins; exact counters |
| `NoWakeupIsLost` | the body sleeps without a time-out only while no timer is known, and never past the border of the tick |
| `ThreadImplements`, `ThreadPausesAreKept` | as for the manager |

Assumptions: the timers are a finite set with at most `SizeMax` members, calls and
durations are natural numbers, the wheel has a slot and its ticks last, a thread has one body, the
program's own call of `process_expired_timers` is the outermost (named in the modules that declare the constants).
Some theorems have a condition, and each is what a violation run shows to be needed.
Of the wheel: `NoWholeRolls` (no pause or period, rounded, is a multiple of the wheel's size) excludes the behaviour of
`wheel_manager_full_roll`, and `Remembered # "all"` that of `wheel_thread_lag`. Of the heap manager:
`NotNested` (one call of `process_expired_timers` at a time) and `~ActivateWhileProcessing` exclude those of
`heap_manager_nested` and `heap_manager_reactivated`. What is proved of heap_add and heap_remove alone has no condition. The
heap thread has none either: its only body does not nest calls, and its
model contains only clients that do not activate the timer in processing.

**The list.** No property is inductive alone. That references are exact needs
to know that a timer is in the list exactly when it is active
(`ListHoldsActive`), and in some execution list exactly when it waits
(`ExecHoldsWaiting`), once, or a removal would leave a second entry behind. That
make_exec_list takes a prefix of timers that are all elapsed, and leaves none,
needs the order of the list (`ListSorted`). That no action runs twice needs to
know where the cursors of the calls are (`CursorInRange`). `EngineInv` is their
conjunction. Since the lock only restricts when steps are taken, `EngineInv` is
inductive without it: `ListProofs` has one lemma for each action, with one step
for each conjunct that it disturbs, and both owners of the engine use them.
The counters are not in the invariant, as they are not exact after a reset in the
middle of processing; `Quantities` is a second induction on top of the
first, over lemmas about what one step does to the set of counted timers.
`NoStaleCheck` is a third one: in unsafe mode at most one call is outside of an
action, so nobody can come between the test and the call of the action. Insertion and removal are
sets of results (`InsertTimerToList`), with exactly one member
for a sorted list: the proofs need only what each member satisfies.

**The refinement.** Each engine has a lemma that each of its steps is a step of `TimerService`,
or changes nothing it sees. The invariant supplies the guards: a taken timer has
elapsed (`NeverEarly`), one that leaves an execution list without a deactivate has been called (`RunsOnce`),
the timers cleared by reset are those that are set (`ListHoldsActive`).

**The threads.** `SharedLemmas` proves of the body and join alone that
`JoinedOnce` is kept and where the body can be after each step. For the list thread
`NoLostWakeup` follows from two facts: the list is sorted, so
that the body, which wakes no later than the old head elapses, wakes before every
timer that was there (`WakesBeforeAll`); and a call that makes another timer the
head notifies (`NotificationSuffices`). A call that only takes timers out of the
list need not (`ShorterListSuffices`). The heap thread has the top of the heap in place of
the head of the list: a call may move any timer up to the top, but what the body compares with is the
earliest timer, and a timer of a heap is no earlier than its top (`HeadIsEarliest`). For the wheel thread it rests on the counters: they are
exact, hence 0 exactly when no timer is known, and 1 exactly after the first one is activated. `BodyMatches`
supplies that the engine is idle whenever the body is not processing, so that the engine is cleared only
when nothing is being processed, and the counters are exact without a condition.

**The wheel.** `TicksLeft` of a timer is the distance of its slot plus a roll for each of
`rolls`, plus one roll if the slot is the current one and has been processed. A step of the wheel
takes one off for every timer, so that a timer that is taken has none left: it
is not early (`NeverEarly`, for all durations). It is on its tick (`OnTime`) if
nothing is ever put into the current slot behind its processing, which is what `NoWholeRolls` gives. For the pauses
the ticks have to be related to the clock: `EndOfTick` is the time point at which a tick is over, as the
border tells, and no step changes it for a timer that stays in the wheel (clear_all, which does change it, empties the wheel). `InTime` says of it that a timer asked for while the wheel was in time waits for a tick that ends
later than its pause minus one tick (`NotEarly`), and every timer for one that begins no later than two ticks after its pause (`NotLate`). `BorderNear`, the border being no
more than a tick ahead of the clock, is what both rest on when a timer is put in, and bounds the time of the call of the action. That a call leaves no
timer behind follows from `NotLate` and `OnTime`: the call returns with a border later than its beginning, and the tick of
every timer that is still active begins at that border or later. Lateness is measured against the beginning of the call,
since process_expired_timers reads the clock once; what passes while its actions run is for the next call.

**The heap.** `HeapUp` and `HeapDown` are loops, written as recursive functions over the heaps that
contain the moved timer (`HeapsWith`). What they return for a heap of any size is an induction; the library's
induction theorems cannot be used, as they take an operator, so `SharedLemmas` has the induction in terms of sets: a
set of naturals has a least member (`LeastNumber`, from the well-foundedness of <), hence what follows for an element from all those of smaller measure
holds of all (`MeasureInduction`), hence a loop whose steps decrease a measure defines a
function (`LoopFunction`), which is what a recursive definition needs to mean anything. The
measure is the timer's position going up, and the room behind it going down. Either loop keeps the heap in order but at one
place, the timer it moves, and relates the parent of that place to its children. `Added` and
`Removed` then say all that the engine uses: the order, the members, the right positions, and a removed
timer whose position is not 0, so that nobody takes it for deactivated.

`EngineInv` of the heap is inductive only with what `m_timer_in_processing` is at each stage of the
call (`InProcessingIsSet`, `InProcessingIsOut`): a timer that is taken is in no heap although its position need not be 0, and the client's deactivate
sets that position to 0, which is how the call learns not to put it back. This is where both hypotheses are used:
a nested call or a second activate gives the pointer, or the position, another meaning. For the refinement it
is added that a call has not begun later than now (`CallsBegun`), and that the timer whose action is about to be called is not deactivated (`EnterIsSet`).

**The program's loop.** `LoopInv` adds to the manager's invariant that calls are nested, each in the action of
the one before (`CallsNest`), and that the outermost has returned when the loop is elsewhere (`LoopMatches`). This is what the guards of
an unsafe manager's actions ask for, so that every step of the program is one of the manager's or a stutter.
`NeverOversleeps` is a second induction: nothing enters the list while the loop sleeps, and
with an ordered list the head's time point bounds all the others. The time left for the head, added to the clock it was
read with, bounds them too (`TimeoutInTime`); sleep_for adds it to a later clock, so that its bound
is weaker by `delay`.

**Only model-checked**: liveness (`DueTimerServed`, `ShutdownCompletes`, `JoinCompletes`), which is out of the prover's reach.
All other properties of the passing runs are stated by a theorem.

## What the checks found

Each of these has a run in which TLC finds the violation, and an entry in `PROJECT.json`.

- **An action that deactivates and activates its own heap timer**
  (`heap_manager_reactivated`). deactivate sets the position to 0, and the timer in processing then looks
  like any deactivated timer; it enters the heap while it is still being processed.
- **Nested processing of a heap** (`heap_manager_nested`). The inner call leaves
  `m_timer_in_processing` null for the outer one, which dereferences it.
- **A period that is a multiple of the wheel** (`wheel_manager_full_roll`) is
  served one roll late every time: the timer is put back while its slot is still the current one.
- **A wheel that lags** (`wheel_thread_lag`). Pauses count from the current
  position; if no tick has been processed for a while, as in a thread that sleeps with
  an empty wheel, a new timer is executed at once with the ticks that are made up for. The run has
  only the behaviours in which time passes during such a sleep (`SleepySpec`): the
  trace starts the thread, lets it sleep until 4, activates a timer with a pause of 3, and calls its action at 4.

Three more are visible in the models, as the conditions without which a property fails:

- **deactivate races the call of the action.** The status is tested "just before
  execution" (2134-2136) but without the lock (2137; 1511 for the
  wheel): another thread's `deactivate` can return in between, and the action runs
  after it. `DeactivatedNeverRuns` is proved for an unsafe manager and fails for a safe one; `LateCalls` in `TimerService` is this.
- **reset from an action corrupts the counters.** `clear_all` zeroes them while
  timers are being processed; the decrement that
  follows wraps around. Hence the condition of `Quantities` and of `CountsKept`.
- **activate on a thread whose body has ended** and which is not joined yet is
  accepted, though documented to throw when the thread is
  not started (3133); the timer waits for the next start.

## Not modelled

- **Scoped timer objects** (`scoped_timer_object_holder`, 257): the engine treats them as any other timer;
  their lifetime is the user's duty (`docs/version.dox`, lines 33-45), and nothing in the code checks it.
- **Action storage, logger, handler**: the functor's storage is invisible to the rest, except that its assignment
  may throw in reschedule, which is modelled; logger and handler are the user's callbacks. An action that holds a holder of its own
  timer keeps both alive for ever.
- **Anonymous timers** are not a module of their own: allocate, activate and the destruction of the
  holder are three client steps, and the models contain them in a row.
- **Allocation failures** in the heap's array (2718): nothing in the code handles them.
- **Overflow** of the wheel's 32-bit tick counts (1354), and negative durations.
- **Nested calls of the wheel's processing** (1119): the inner call would advance the position under the
  outer one. The guide asks for calls on one thread only (`docs/getting_started.dox`, 183-186), which a nested call respects;
  the wheel's model has one execution list and one cursor, that is one call, so this is left out.
- **The pointers of the doubly linked lists**.
- Heap threads whose clients reactivate the timer in processing: `heap_manager_reactivated` shows what becomes of the heap.
- Tests, benchmarks, build files: no program logic. The samples of threads are short sequences of calls the thread models contain.
