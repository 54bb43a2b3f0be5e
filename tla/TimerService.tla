---------------------------- MODULE TimerService ----------------------------
(***************************************************************************)
(* What every engine of timertt promises the users of its timers, whatever *)
(* structure it keeps them in and whoever calls it:                        *)
(*   - a timer is taken for execution when its time point has come, never  *)
(*     earlier;                                                            *)
(*   - the action of a timer that has been taken is called exactly once,   *)
(*     unless deactivate comes first;                                      *)
(*   - a periodic timer waits again after its action, for the time point   *)
(*     one period after the last one, however late the action was;         *)
(*   - a timer deactivated meanwhile does not wait again, and it cannot be *)
(*     activated before its processing is over;                            *)
(*   - reset and the end of a thread touch only the timers that wait.      *)
(***************************************************************************)
EXTENDS Integers

CONSTANTS
  Timers, Pauses, Periods,
  LateCalls  \* may deactivate return between the decision to call the action
             \* of its timer and the call?

VARIABLES
  now,        \* the time
  phase,      \* timer -> what it is doing
  cancelled,  \* the timers deactivated after they have been taken
  at,         \* timer -> its time point, 0 when it is off
  every       \* timer -> its period, 0 for a single-shot timer and when off

vars == <<now, phase, cancelled, at, every>>

\* "set" waits for its time point, "taken" for the call of its action.
Phase == {"off", "set", "taken", "called"}

TypeOK ==
  /\ now \in Nat
  /\ phase \in [Timers -> Phase]
  /\ cancelled \subseteq Timers
  /\ at \in [Timers -> Nat]
  /\ every \in [Timers -> Nat]

Init ==
  /\ now = 0
  /\ phase = [t \in Timers |-> "off"]
  /\ cancelled = {}
  /\ at = [t \in Timers |-> 0]
  /\ every = [t \in Timers |-> 0]

TimePasses ==
  /\ now' = now + 1
  /\ UNCHANGED <<phase, cancelled, at, every>>

\* activate, and reschedule of a timer that waits.
Set(t, pause, per) ==
  /\ phase[t] \in {"off", "set"}
  /\ phase' = [phase EXCEPT ![t] = "set"]
  /\ at' = [at EXCEPT ![t] = now + pause]
  /\ every' = [every EXCEPT ![t] = per]
  /\ UNCHANGED <<now, cancelled>>

SwitchOff(S) ==
  /\ phase' = [t \in Timers |-> IF t \in S THEN "off" ELSE phase[t]]
  /\ at' = [t \in Timers |-> IF t \in S THEN 0 ELSE at[t]]
  /\ every' = [t \in Timers |-> IF t \in S THEN 0 ELSE every[t]]
  /\ cancelled' = cancelled \ S
  /\ UNCHANGED now

\* deactivate of a timer that waits.
Cancel(t) == phase[t] = "set" /\ SwitchOff({t})

CancelAll == SwitchOff({t \in Timers : phase[t] = "set"})

\* deactivate of a timer that is being processed.
CancelTaken(t) ==
  /\ phase[t] \in {"taken", "called"}
  /\ cancelled' = cancelled \cup {t}
  /\ UNCHANGED <<now, phase, at, every>>

Take(S) ==
  /\ \A t \in S : phase[t] = "set" /\ at[t] <= now
  /\ phase' = [t \in Timers |-> IF t \in S THEN "taken" ELSE phase[t]]
  /\ UNCHANGED <<now, cancelled, at, every>>

Call(t) ==
  /\ phase[t] = "taken"
  /\ LateCalls \/ t \notin cancelled
  /\ phase' = [phase EXCEPT ![t] = "called"]
  /\ UNCHANGED <<now, cancelled, at, every>>

PutBack(t) ==
  /\ phase[t] = "called"
  /\ t \notin cancelled /\ every[t] # 0
  /\ phase' = [phase EXCEPT ![t] = "set"]
  /\ at' = [at EXCEPT ![t] = @ + every[t]]
  /\ UNCHANGED <<now, cancelled, every>>

Drop(t) ==
  /\ \/ phase[t] = "called" /\ (t \in cancelled \/ every[t] = 0)
     \/ phase[t] = "taken" /\ t \in cancelled
  /\ SwitchOff({t})

Next ==
  \/ TimePasses
  \/ CancelAll
  \/ \E S \in SUBSET Timers : Take(S)
  \/ \E t \in Timers :
       \/ \E pause \in Pauses, per \in Periods : Set(t, pause, per)
       \/ Cancel(t) \/ CancelTaken(t) \/ Call(t) \/ PutBack(t) \/ Drop(t)

Spec == Init /\ [][Next]_vars
=============================================================================
