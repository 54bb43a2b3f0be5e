------------------------- MODULE ManagerLoopProofs --------------------------
(***************************************************************************)
(* The program that owns a thread-unsafe manager, for any number of timers *)
(* and nested calls and any pauses and periods: it uses the manager as the *)
(* manager is meant to be used, so that the manager's theorems hold of it, *)
(* and its loop sleeps past the first timer by no more than its own delay.  *)
(***************************************************************************)
EXTENDS ManagerLoop, ListProofs

LoopPlace == {"events", "process", "doze", "sleep_until", "sleep_for"}

\* Calls are nested: each outer one runs the action that makes the inner one.
CallsNest == \A p, q \in Procs : p < q /\ pc[q] # "idle" => pc[p] = "run"

\* The loop is elsewhere only when its call has returned.
LoopMatches == place # "process" => pc[1] = "idle"

LoopInv == EngineInv /\ place \in LoopPlace /\ CallsNest /\ LoopMatches

\* No call is under way when the outermost has returned.
LEMMA NothingRuns ==
  ASSUME LoopInv, pc[1] = "idle"
  PROVE  \A p \in Procs : pc[p] = "idle"
<1> SUFFICES ASSUME NEW p \in Procs, pc[p] # "idle" PROVE FALSE
  OBVIOUS
<1>1. 1 < p /\ 1 \in Procs
  BY LoopAssumption, ProcsAssumption
<1> QED
  BY <1>1 DEF LoopInv, CallsNest

\* What a step of the program is to the manager.
LEMMA LoopSteps ==
  ASSUME LoopInv, [LoopNext]_loop
  PROVE  [ManagerNext]_managerVars
<1>1. CASE Passes \/ Calls \/ Processes
  BY <1>1 DEF Passes, Calls, Processes, ManagerNext
<1>2. CASE BeginsToProcess
  <2>1. \A p \in Procs : pc[p] = "idle"
    BY <1>2, NothingRuns DEF BeginsToProcess, LoopInv, LoopMatches
  <2>2. MayProcess(1)
    BY <2>1, LoopAssumption, ProcsAssumption DEF MayProcess, MutexFree
  <2> QED
    BY <1>2, <2>2, LoopAssumption DEF BeginsToProcess, ManagerNext, ProcessStep, managerVars
<1>3. CASE SleepsUntil \/ AsksForTimeout \/ SleepsFor \/ WakesUp \/ UNCHANGED loop
  BY <1>3 DEF SleepsUntil, AsksForTimeout, SleepsFor, WakesUp, loop, managerVars
<1> QED
  BY <1>1, <1>2, <1>3 DEF LoopNext, LoopStep

\* A call begins within the action of the innermost, and only the innermost goes on.
LEMMA NestingKept ==
  ASSUME LoopInv, NEW p \in Procs, NEW stage, pc' = [pc EXCEPT ![p] = stage],
         pc[p] # "idle" \/ \A q \in Procs : q < p => pc[q] = "run",
         \A q \in Procs : q > p => pc[q] = "idle"
  PROVE  CallsNest'
<1>1. pc \in [Procs -> Stage] /\ Procs \subseteq Nat
  BY ProcsAssumption DEF LoopInv, EngineInv, EngineTypeOK
<1> SUFFICES ASSUME NEW a \in Procs, NEW b \in Procs, a < b, pc'[b] # "idle"
             PROVE  pc'[a] = "run"
  BY DEF CallsNest
<1>2. b <= p
  BY <1>1
<1>3. a < p /\ a # p
  BY <1>1, <1>2
<1>4. pc[a] = "run"
  <2>1. CASE b = p
    BY <1>1, <1>3, <2>1 DEF LoopInv, CallsNest
  <2>2. CASE b # p
    BY <1>1, <2>2 DEF LoopInv, CallsNest
  <2> QED
    BY <2>1, <2>2
<1> QED
  BY <1>1, <1>3, <1>4

\* process_expired_timers, nested calls included, keeps the nesting.
LEMMA ProcessStepNests ==
  ASSUME LoopInv, ProcessStep
  PROVE  CallsNest'
<1>1. PICK p \in Procs :
        \/ MayProcess(p) /\ MakeExecList(p)
        \/ MayGoOn(p) /\ CheckPasses(p)
        \/ MayGoOn(p) /\ CheckFails(p)
        \/ MayGoOn(p) /\ CallAction(p)
        \/ MayGoOn(p) /\ FinishAction(p)
        \/ MayGoOn(p) /\ MutexFree /\ LockBack(p)
        \/ MayGoOn(p) /\ UtilizePeriodic(p)
        \/ MayGoOn(p) /\ UtilizeOther(p)
  BY DEF ProcessStep
<1>2. \A q \in Procs : q > p => pc[q] = "idle"
  BY <1>1, LoopAssumption DEF MayProcess, MayGoOn
<1>3. pc[p] # "idle" \/ \A q \in Procs : q < p => pc[q] = "run"
  BY <1>1, LoopAssumption DEF MayProcess, CheckPasses, CheckFails, CallAction, FinishAction,
     LockBack, UtilizePeriodic, UtilizeOther
<1>4. CASE UNCHANGED pc
  BY <1>4 DEF LoopInv, CallsNest
<1>5. CASE \E stage : pc' = [pc EXCEPT ![p] = stage]
  BY <1>2, <1>3, <1>5, NestingKept
<1> QED
  BY <1>1, <1>4, <1>5 DEF MakeExecList, CheckPasses, CheckFails, CallAction, FinishAction,
     LockBack, UtilizePeriodic, UtilizeOther, LeaveTimer

\* The loop's invariant is inductive.
LEMMA LoopInvStep ==
  ASSUME LoopInv, [LoopNext]_loop
  PROVE  LoopInv'
<1>1. EngineInv'
  BY LoopSteps, InvariantStep DEF LoopInv
<1>2. 1 \in Procs /\ pc \in [Procs -> Stage]
  BY LoopAssumption DEF LoopInv, EngineInv, EngineTypeOK
<1>3. place' \in LoopPlace
  BY DEF LoopInv, LoopNext, LoopStep, Passes, Calls, BeginsToProcess, Processes, SleepsUntil,
     AsksForTimeout, SleepsFor, WakesUp, LoopPlace, loop, loopVars
<1>4. CASE UNCHANGED pc
  <2>1. CallsNest'
    BY <1>4 DEF LoopInv, CallsNest
  <2>2. LoopMatches'
    BY <1>4 DEF LoopInv, LoopMatches, LoopNext, LoopStep, Passes, Calls, BeginsToProcess,
       Processes, SleepsUntil, AsksForTimeout, SleepsFor, WakesUp, loop, loopVars
  <2> QED
    BY <1>1, <1>3, <2>1, <2>2 DEF LoopInv
<1>5. CASE Passes \/ SleepsUntil \/ AsksForTimeout \/ SleepsFor \/ WakesUp \/ UNCHANGED loop
  BY <1>4, <1>5 DEF Passes, ClockAdvances, SleepsUntil, AsksForTimeout, SleepsFor, WakesUp, loop,
     managerVars, engineVars
<1>6. CASE Calls
  BY <1>4, <1>6 DEF Calls, ManagerCalls, Reset, ClearAll, Allocate, Dismiss, RescheduleThrows,
     Deactivate, DeactivateActive, DeactivateWaiting, Activate, Reschedule, engineVars
<1>7. CASE BeginsToProcess
  <2>1. \A p \in Procs : pc[p] = "idle"
    BY <1>7, NothingRuns DEF BeginsToProcess, LoopInv, LoopMatches
  <2>2. CASE MakeExecList(1)
    <3>1. pc' = [pc EXCEPT ![1] = "check"]
      BY <2>2 DEF MakeExecList
    <3>2. \A q \in Procs : ~(q < 1)
      BY LoopAssumption, ProcsAssumption
    <3>3. CallsNest'
      BY <1>2, <2>1, <3>1, <3>2, NestingKept
    <3> QED
      BY <1>1, <1>3, <1>7, <3>3 DEF LoopInv, LoopMatches, BeginsToProcess
  <2>3. CASE UNCHANGED engineVars
    BY <1>4, <2>3 DEF engineVars
  <2> QED
    BY <1>7, <2>2, <2>3 DEF BeginsToProcess
<1>8. CASE Processes
  BY <1>1, <1>3, <1>8, ProcessStepNests DEF Processes, LoopInv, LoopMatches, loopVars
<1> QED
  BY <1>5, <1>6, <1>7, <1>8 DEF LoopNext, LoopStep

\* Every reachable state of the program satisfies it.
LEMMA LoopInvariant == LoopSpec => []LoopInv
<1>1. LoopInit => LoopInv
  <2> SUFFICES ASSUME LoopInit PROVE LoopInv
    OBVIOUS
  <2>1. EngineInv
    BY EngineInitially DEF LoopInit, ManagerInit
  <2>2. \A p \in Procs : pc[p] = "idle"
    BY DEF LoopInit, ManagerInit, EngineInit
  <2> QED
    BY <2>1, <2>2, LoopAssumption DEF LoopInit, LoopInv, LoopPlace, CallsNest, LoopMatches
<1> QED
  BY <1>1, LoopInvStep, PTL DEF LoopSpec

\* The head of the list is the first timer to elapse.
LEMMA HeadElapsesFirst ==
  ASSUME EngineInv, NEW t \in ToSet(list)
  PROVE  /\ list # <<>> /\ NearestTimePoint \in Nat /\ when[t] \in Nat
         /\ NearestTimePoint <= when[t]
<1>1. PICK i \in 1..Len(list) : list[i] = t
  BY DEF ToSet
<1>2. list \in Seq(Timers) /\ when \in [Timers -> Nat] /\ SortedBy(list, when)
  BY DEF EngineInv, EngineTypeOK, ListSorted
<1>3. 1 \in 1..Len(list) /\ list # <<>> /\ Head(list) = list[1]
  BY <1>1, <1>2
<1>4. when[list[1]] \in Nat /\ when[t] \in Nat
  BY <1>1, <1>2, <1>3
<1>5. CASE i = 1
  BY <1>1, <1>3, <1>4, <1>5 DEF NearestTimePoint
<1>6. CASE i # 1
  BY <1>1, <1>2, <1>3, <1>4, <1>6 DEF NearestTimePoint, SortedBy
<1> QED
  BY <1>5, <1>6

\* A timeout, counted from the reading of the clock, ends before the first timer.
TimeoutInTime ==
  place = "doze" =>
    /\ asked \in Nat /\ timeout \in Nat
    /\ \A t \in ToSet(list) : timeout > 0 => asked + timeout <= when[t]

SleepInv == TimeoutInTime /\ NeverOversleeps

\* While the loop is about to sleep, or sleeps, nobody calls the manager, so that what
\* it was told stays true; what it was told is old by the delay when it calls sleep_for.
LEMMA SleepStep ==
  ASSUME LoopInv, SleepInv, [LoopNext]_loop
  PROVE  SleepInv'
<1>1. /\ EngineInv /\ now \in Nat
      /\ \A t \in ToSet(list) : when[t] \in Nat
  BY HeadElapsesFirst DEF LoopInv, EngineInv, EngineTypeOK, CommonTypeOK
<1>2. CASE UNCHANGED <<list, when, loopVars>>
  BY <1>2 DEF SleepInv, TimeoutInTime, NeverOversleeps, EndsInTimeFor, loopVars
<1>3. CASE place' \notin {"doze", "sleep_until", "sleep_for"}
  BY <1>3 DEF SleepInv, TimeoutInTime, NeverOversleeps
<1>4. CASE Passes \/ UNCHANGED loop
  BY <1>2, <1>4 DEF Passes, ClockAdvances, loop, managerVars, engineVars
<1>5. CASE Calls \/ BeginsToProcess \/ Processes \/ WakesUp
  BY <1>3, <1>5 DEF Calls, BeginsToProcess, Processes, WakesUp, loopVars
<1>6. CASE SleepsUntil
  <2>1. UNCHANGED <<list, when>> /\ place' \in {"events", "sleep_until"}
    BY <1>6 DEF SleepsUntil, engineVars
  <2>2. place' = "sleep_until" => sleepEnd' = NearestTimePoint
    BY <1>6 DEF SleepsUntil
  <2> QED
    BY <1>1, <2>1, <2>2, HeadElapsesFirst DEF SleepInv, TimeoutInTime, NeverOversleeps
<1>7. CASE AsksForTimeout
  <2>1. /\ UNCHANGED <<list, when>> /\ place' = "doze"
        /\ asked' = now /\ timeout' = TimeoutBeforeNearestTimer
    BY <1>7 DEF AsksForTimeout, engineVars
  <2>2. timeout' \in Nat
    <3>1. CASE list = <<>>
      BY <2>1, <3>1, LoopAssumption DEF TimeoutBeforeNearestTimer
    <3>2. CASE list # <<>>
      <4>1. Head(list) \in ToSet(list)
        BY <1>1, <3>2 DEF ToSet, EngineInv, EngineTypeOK
      <4> QED
        BY <1>1, <2>1, <3>2, <4>1, HeadElapsesFirst DEF TimeoutBeforeNearestTimer
    <3> QED
      BY <3>1, <3>2
  <2>3. ASSUME NEW t \in ToSet(list), timeout' > 0
        PROVE  asked' + timeout' <= when[t]
    BY <1>1, <2>1, <2>3, HeadElapsesFirst DEF TimeoutBeforeNearestTimer
  <2> QED
    BY <1>1, <2>1, <2>2, <2>3 DEF SleepInv, TimeoutInTime, NeverOversleeps
<1>8. CASE SleepsFor
  <2>1. /\ UNCHANGED <<list, when, asked>> /\ place = "doze" /\ place' = "sleep_for"
        /\ sleepEnd' = now + timeout /\ delay' = now - asked
    BY <1>8 DEF SleepsFor, engineVars
  <2>2. ASSUME NEW t \in ToSet(list)
        PROVE  EndsInTimeFor(t)'
    <3>1. /\ asked \in Nat /\ timeout \in Nat /\ when[t] \in Nat
          /\ timeout > 0 => asked + timeout <= when[t]
      BY <1>1, <2>1 DEF SleepInv, TimeoutInTime
    <3> QED
      BY <1>1, <2>1, <3>1 DEF EndsInTimeFor
  <2> QED
    BY <2>1, <2>2 DEF SleepInv, TimeoutInTime, NeverOversleeps
<1> QED
  BY <1>4, <1>5, <1>6, <1>7, <1>8 DEF LoopNext, LoopStep

-----------------------------------------------------------------------------
(***************************************************************************)
(* The program uses the manager as its documentation asks: what it does to *)
(* the manager is a behaviour of the manager, so that every theorem about  *)
(* ManagerSpec holds of the program.                                       *)
(***************************************************************************)
THEOREM LoopUsesManager == LoopSpec => ManagerSpec
<1>1. LoopInit => ManagerInit
  BY DEF LoopInit
<1>2. LoopInv /\ [LoopNext]_loop => [ManagerNext]_managerVars
  BY LoopSteps
<1> QED
  BY <1>1, <1>2, LoopInvariant, PTL DEF LoopSpec, ManagerSpec

(***************************************************************************)
(* No pass leaves an elapsed timer behind, and no action begins after      *)
(* deactivate has returned for its timer, in the program too.              *)
(***************************************************************************)
THEOREM LoopTakesAll == LoopSpec => NoneLeftBehind /\ DeactivatedNeverRuns
<1>1. ~ThreadSafe
  BY LoopAssumption
<1>2. ManagerSpec => DeactivatedNeverRuns
  BY <1>1, NoStaleCheck
<1> QED
  BY <1>2, LoopUsesManager, TakesAll, PTL

(***************************************************************************)
(* A sleep until nearest_time_point is over when the first timer elapses.  *)
(* A sleep for timeout_before_nearest_timer is over later than that by the *)
(* time the program took from the reading of the clock to sleep_for, at    *)
(* the most.                                                               *)
(***************************************************************************)
THEOREM NoOversleep == LoopSpec => []NeverOversleeps
<1>1. LoopInit => SleepInv
  BY DEF LoopInit, SleepInv, TimeoutInTime, NeverOversleeps
<1>2. LoopInv /\ SleepInv /\ [LoopNext]_loop => SleepInv'
  BY SleepStep
<1>3. SleepInv => NeverOversleeps
  BY DEF SleepInv
<1> QED
  BY <1>1, <1>2, <1>3, LoopInvariant, PTL DEF LoopSpec
=============================================================================
