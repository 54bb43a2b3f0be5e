---------------------------- MODULE ManagerLoop -----------------------------
(***************************************************************************)
(* A program that uses a thread-unsafe list manager: the loop of the       *)
(* user's guide and of the samples.  One thread handles the events of the  *)
(* application (and calls the manager in doing so), calls                  *)
(* process_expired_timers, asks for the nearest timer, and sleeps: until   *)
(* its time point (nearest_time_point), or for the time that is left       *)
(* (timeout_before_nearest_timer).                                         *)
(***************************************************************************)
EXTENDS ListManager

CONSTANT DefaultTimeout   \* what it sleeps for when there is no timer

\* The loop's own calls are not nested in any other.
ASSUME LoopAssumption ==
  /\ ~ThreadSafe
  /\ 1 \in Procs /\ \A p \in Procs : p >= 1
  /\ DefaultTimeout \in Nat

VARIABLES
  place,    \* where the loop is
  asked,    \* the clock, as timeout_before_nearest_timer has read it
  timeout,  \* its result
  sleepEnd, \* the end of the sleep
  delay     \* history: what passed from the reading of the clock to sleep_for

loopVars == <<place, asked, timeout, sleepEnd, delay>>

(***************************************************************************)
(* The places of the loop:                                                 *)
(* "events"   in process_some_application_specific_events                  *)
(* "process"  in process_expired_timers                                    *)
(* "doze"     has the timeout, and is about to call sleep_for              *)
(* "sleep_until", "sleep_for"  asleep                                      *)
(***************************************************************************)

LoopInit ==
  /\ ManagerInit
  /\ place = "events"
  /\ asked = 0
  /\ timeout = 0
  /\ sleepEnd = 0
  /\ delay = 0

-----------------------------------------------------------------------------
\* The application and the timers' actions call the manager.
Calls ==
  /\ place = "events" \/ (place = "process" /\ \E p \in Procs : pc[p] = "run")
  /\ ManagerCalls \/ Reset
  /\ UNCHANGED loopVars

BeginsToProcess ==
  /\ place = "events"
  /\ place' = "process"
  /\ \/ MakeExecList(1)
     \/ NothingElapsed /\ UNCHANGED <<commonVars, engineVars>>
  /\ UNCHANGED <<asked, timeout, sleepEnd, delay>>

\* Nested calls included.
Processes ==
  /\ place = "process" /\ pc[1] # "idle"
  /\ ProcessStep
  /\ UNCHANGED loopVars

\* Mutant: the time point of the last timer is returned.
FarthestTimePoint == when[Last(list)]

NearestTimePoint == when[Head(list)]

\* sleep_until(nearest_time_point()); without timers, wait_for_something().
SleepsUntil ==
  /\ place = "process" /\ pc[1] = "idle"
  /\ IF list = <<>>
     THEN place' = "events" /\ UNCHANGED sleepEnd
     ELSE place' = "sleep_until" /\ sleepEnd' = NearestTimePoint
  /\ UNCHANGED <<asked, timeout, delay, commonVars, engineVars>>

\* Mutant: a time point that has passed counts as much as one to come.
DistanceToNearestTimer ==
  IF list = <<>> THEN DefaultTimeout
  ELSE IF now > NearestTimePoint THEN now - NearestTimePoint ELSE NearestTimePoint - now

TimeoutBeforeNearestTimer ==
  IF list = <<>> THEN DefaultTimeout
  ELSE IF now > NearestTimePoint THEN 0 ELSE NearestTimePoint - now

AsksForTimeout ==
  /\ place = "process" /\ pc[1] = "idle"
  /\ place' = "doze"
  /\ asked' = now
  /\ timeout' = TimeoutBeforeNearestTimer
  /\ UNCHANGED <<sleepEnd, delay, commonVars, engineVars>>

\* sleep_for: it may be some time since the timeout was calculated.
SleepsFor ==
  /\ place = "doze"
  /\ place' = "sleep_for"
  /\ sleepEnd' = now + timeout
  /\ delay' = now - asked
  /\ UNCHANGED <<asked, timeout, commonVars, engineVars>>

WakesUp ==
  /\ place \in {"sleep_until", "sleep_for"} /\ now >= sleepEnd
  /\ place' = "events"
  /\ asked' = 0 /\ timeout' = 0 /\ sleepEnd' = 0 /\ delay' = 0
  /\ UNCHANGED <<commonVars, engineVars>>

LoopStep ==
  BeginsToProcess \/ Processes \/ SleepsUntil \/ AsksForTimeout \/ SleepsFor \/ WakesUp

Passes == ClockAdvances /\ UNCHANGED loopVars

LoopNext == Passes \/ Calls \/ LoopStep

loop == <<managerVars, loopVars>>

LoopSpec == LoopInit /\ [][LoopNext]_loop

(***************************************************************************)
(* The program's thread is scheduled, its events take a finite time, and   *)
(* actions return.                                                         *)
(***************************************************************************)
FairLoopSpec == LoopSpec /\ WF_loop(LoopStep) /\ WF_loop(Passes)

-----------------------------------------------------------------------------
\* The sleep leaves t waiting no longer than the program's own delay does: what is
\* left of its pause is counted from the reading of the clock.
EndsInTimeFor(t) == sleepEnd <= (IF when[t] > asked THEN when[t] ELSE asked) + delay

(***************************************************************************)
(* A sleep_until is over when the first timer elapses.  A sleep_for is     *)
(* over later by no more than the program took from the reading of the     *)
(* clock in timeout_before_nearest_timer to the call of sleep_for, and if  *)
(* a timer had elapsed by that reading, the sleep adds nothing to that     *)
(* delay.  No timer comes into the list while the loop sleeps.             *)
(***************************************************************************)
NeverOversleeps ==
  \A t \in ToSet(list) :
    /\ place = "sleep_until" => sleepEnd <= when[t]
    /\ place = "sleep_for" => EndsInTimeFor(t)

\* Its own delay takes the loop beyond the end of the bounded clock.
DelayedPastTheBound(t) ==
  place = "sleep_for" /\ sleepEnd > MaxTime /\ EndsInTimeFor(t)

(***************************************************************************)
(* A timer that is due gets its action called, or is deactivated or put    *)
(* off: the loop neither misses one that elapses between its pass and its  *)
(* question, nor sleeps through it.                                        *)
(***************************************************************************)
DueTimerServed ==
  \A t \in Timers :
    (status[t] = "active" /\ when[t] <= now)
      ~> (t \in ran \/ status[t] = "deactivated" \/ when[t] > now \/ DelayedPastTheBound(t))
=============================================================================
