----------------------------- MODULE TimerThread -----------------------------
(***************************************************************************)
(* thread_mixin and thread_impl_template: the thread that processes an     *)
(* engine's timers (the body), which sleeps on a condition variable until  *)
(* the first of them elapses or it is notified, and the clients' calls of  *)
(* start, shutdown and join.                                               *)
(*                                                                         *)
(* The engine, and with it the question who has the lock, belongs to the   *)
(* modules that extend this one: a thread over the list, the heap and the  *)
(* wheel.  They conjoin these steps with what the engine does in them.     *)
(***************************************************************************)
EXTENDS Integers

CONSTANT Joiners   \* the threads of the clients that call join()

VARIABLES
  thread,    \* m_thread is not null
  shutdown,  \* m_shutdown
  body,      \* where the body is
  wakeAt,    \* the time point of wait_until, 0 when there is none
  joiner     \* where each caller of join() is

threadVars == <<thread, shutdown, body, wakeAt, joiner>>

(***************************************************************************)
(* "none"        there is no std::thread                                   *)
(* "starting"    the thread is created and has not taken the lock yet      *)
(* "loop"        at the test of m_shutdown; holds the lock                 *)
(* "process"     in process_expired_timers, which has its own stages, and  *)
(*               then, when the engine is idle, in sleep_for_next_event    *)
(* "wait"        blocked in wait, "timed_wait" in wait_until               *)
(* "woken"       awake, and has not taken the lock back yet                *)
(* "exited"      the body has returned, m_thread is not reset yet          *)
(***************************************************************************)
Place == {"none", "starting", "loop", "process", "wait", "timed_wait", "woken", "exited"}

(***************************************************************************)
(* "joining"  has a copy of m_thread and calls std::thread::join()         *)
(* "joined"   that call has returned, the lock is not taken back yet       *)
(* "stale"    has a copy that somebody else has joined                     *)
(***************************************************************************)
JoinPlace == {"idle", "joining", "joined", "stale"}

ThreadTypeOK ==
  /\ thread \in BOOLEAN
  /\ shutdown \in BOOLEAN
  /\ body \in Place
  /\ wakeAt \in Nat
  /\ joiner \in [Joiners -> JoinPlace]

ThreadInit ==
  /\ thread = FALSE
  /\ shutdown = FALSE
  /\ body = "none"
  /\ wakeAt = 0
  /\ joiner = [c \in Joiners |-> "idle"]

\* m_condition.notify_one(): lost when the body does not wait.
Notified(b) == IF b \in {"wait", "timed_wait"} THEN "woken" ELSE b

\* Does the body have the lock?  `unlocked': the engine has released it.
BodyHasLock(unlocked) == body = "loop" \/ (body = "process" /\ ~unlocked)

-----------------------------------------------------------------------------
\* Mutant: start() does not ask whether there is a thread.
StartAgain ==
  /\ shutdown' = FALSE
  /\ thread' = TRUE
  /\ body' = "starting"
  /\ UNCHANGED <<wakeAt, joiner>>

\* start() throws if there is a thread.
StartThread ==
  /\ ~thread
  /\ shutdown' = FALSE
  /\ thread' = TRUE
  /\ body' = "starting"
  /\ UNCHANGED <<wakeAt, joiner>>

\* Mutant: the body is not notified.
ShutdownSilently ==
  /\ thread /\ ~shutdown
  /\ shutdown' = TRUE
  /\ UNCHANGED <<thread, body, wakeAt, joiner>>

ShutdownThread ==
  /\ thread /\ ~shutdown
  /\ shutdown' = TRUE
  /\ body' = Notified(body)
  /\ UNCHANGED <<thread, wakeAt, joiner>>

(***************************************************************************)
(* join() copies m_thread under the lock, joins the copy without it, takes *)
(* the lock again and resets m_thread.  std::thread::join() throws if the  *)
(* thread has been joined, or another call of it is about to join it.  (By *)
(* the standard two calls at once for one std::thread are a data race; so  *)
(* behaves a std::thread over glibc's pthread_join, which gives the second *)
(* one an error.)  It also throws in a timer's action, where the thread    *)
(* would join itself: then nothing is changed, and the exception handler   *)
(* gets it.                                                                *)
(***************************************************************************)
JoinBegins(c) ==
  /\ joiner[c] = "idle" /\ thread
  /\ joiner' = [joiner EXCEPT ![c] =
       IF \E d \in Joiners : joiner[d] = "joined" THEN "stale" ELSE "joining"]
  /\ UNCHANGED <<thread, shutdown, body, wakeAt>>

JoinThrows(c) ==
  /\ \/ joiner[c] = "stale"
     \/ joiner[c] = "joining" /\ \E d \in Joiners \ {c} : joiner[d] = "joining"
  /\ joiner' = [joiner EXCEPT ![c] = "idle"]
  /\ UNCHANGED <<thread, shutdown, body, wakeAt>>

\* Mutant: a second call joins the thread, too.
EverybodyJoins(c) ==
  /\ joiner[c] = "joining" /\ body = "exited"
  /\ joiner' = [joiner EXCEPT ![c] = "joined"]
  /\ UNCHANGED <<thread, shutdown, body, wakeAt>>

JoinReturns(c) ==
  /\ joiner[c] = "joining" /\ body = "exited"
  /\ joiner' = [d \in Joiners |->
       IF d = c THEN "joined" ELSE IF joiner[d] = "joining" THEN "stale" ELSE joiner[d]]
  /\ UNCHANGED <<thread, shutdown, body, wakeAt>>

JoinResets(c) ==
  /\ joiner[c] = "joined"
  /\ joiner' = [joiner EXCEPT ![c] = "idle"]
  /\ thread' = FALSE
  /\ body' = "none"
  /\ UNCHANGED <<shutdown, wakeAt>>

\* The calls that take the lock, and those that do not.
LockedCall ==
  StartThread \/ ShutdownThread \/ \E c \in Joiners : JoinBegins(c) \/ JoinResets(c)

UnlockedJoin == \E c \in Joiners : JoinThrows(c) \/ JoinReturns(c)

-----------------------------------------------------------------------------
(***************************************************************************)
(* The body.                                                               *)
(***************************************************************************)
GetsLock ==
  /\ body \in {"starting", "woken"}
  /\ body' = "loop"
  /\ wakeAt' = 0
  /\ UNCHANGED <<thread, shutdown, joiner>>

BodyReturns ==
  /\ body = "loop" /\ shutdown
  /\ body' = "exited"
  /\ UNCHANGED <<thread, shutdown, wakeAt, joiner>>

BodyProcesses ==
  /\ body = "loop" /\ ~shutdown
  /\ body' = "process"
  /\ UNCHANGED <<thread, shutdown, wakeAt, joiner>>

\* Mutant: the engine is not looked at before the body sleeps.
SleepUntilNotified(empty, nearest) ==
  /\ body = "process"
  /\ body' = IF shutdown THEN "loop" ELSE "wait"
  /\ UNCHANGED <<thread, shutdown, wakeAt, joiner>>

\* Mutant: m_shutdown is not looked at before the body sleeps.
SleepIgnoresShutdown(empty, nearest) ==
  /\ body = "process"
  /\ IF empty
     THEN body' = "wait" /\ UNCHANGED wakeAt
     ELSE body' = "timed_wait" /\ wakeAt' = nearest
  /\ UNCHANGED <<thread, shutdown, joiner>>

\* sleep_for_next_event, with the engine's empty() and nearest_time_point().
SleepForNextEvent(empty, nearest) ==
  /\ body = "process"
  /\ IF shutdown
     THEN body' = "loop" /\ UNCHANGED wakeAt
     ELSE IF empty
     THEN body' = "wait" /\ UNCHANGED wakeAt
     ELSE body' = "timed_wait" /\ wakeAt' = nearest
  /\ UNCHANGED <<thread, shutdown, joiner>>

TimesOut(moment) ==
  /\ body = "timed_wait" /\ moment >= wakeAt
  /\ body' = "woken"
  /\ UNCHANGED <<thread, shutdown, wakeAt, joiner>>

SpuriousWakeup ==
  /\ body \in {"wait", "timed_wait"}
  /\ body' = "woken"
  /\ UNCHANGED <<thread, shutdown, wakeAt, joiner>>

-----------------------------------------------------------------------------
Running == body \notin {"none", "exited"}

(***************************************************************************)
(* m_thread is reset by one caller of join(), the one that has joined it,  *)
(* and after the body has returned: a running thread is never dropped (its *)
(* destructor would terminate the program), nor is one that start() has    *)
(* created since.                                                          *)
(***************************************************************************)
JoinedOnce ==
  /\ body = "none" <=> ~thread
  /\ body = "exited" => shutdown
  /\ \A c \in Joiners : joiner[c] = "joining" => thread
  /\ \A c \in Joiners : joiner[c] = "joined" =>
       /\ body = "exited"
       /\ \A d \in Joiners \ {c} : joiner[d] \notin {"joining", "joined"}

\* An accepted shutdown ends the body, whatever timers there are.
ShutdownCompletes == (shutdown /\ thread) ~> ~Running

\* Every call of join() returns once shutdown has been called.
JoinCompletes ==
  \A c \in Joiners : (joiner[c] # "idle" /\ shutdown) ~> joiner[c] = "idle"
=============================================================================
