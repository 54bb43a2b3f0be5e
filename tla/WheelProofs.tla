----------------------------- MODULE WheelProofs ----------------------------
(***************************************************************************)
(* The wheel engine and its manager, for any number of timers, slots,      *)
(* pauses and periods.                                                     *)
(*                                                                         *)
(* First the engine: every operation preserves EngineInv, whatever the     *)
(* size of the wheel, its granularity and the durations asked for.  Then   *)
(* the manager, in both thread-safety modes and also when reset() is       *)
(* called while timers are processed: what the wheel keeps true, that no   *)
(* timer is early, and that none is late if none is a whole number of      *)
(* rolls away when it is put into the wheel.                               *)
(***************************************************************************)
EXTENDS WheelManager, SharedLemmas

-----------------------------------------------------------------------------
(***************************************************************************)
(* Arithmetic of the wheel.                                                *)
(***************************************************************************)
\* A number of ticks is made of whole rolls and a rest.
LEMMA Division ==
  ASSUME NEW k \in Nat, NEW w \in Nat \ {0}
  PROVE  (k % w) \in 0..(w - 1) /\ k \div w \in Nat /\ k = w * (k \div w) + (k % w)
OBVIOUS

\* A multiple of w that is less than 2w and more than -w.
LEMMA SmallMultiple ==
  ASSUME NEW w \in Nat \ {0}, NEW d \in Int, -w < w * d, w * d < 2 * w
  PROVE  d = 0 \/ d = 1
<1>1. d >= 2 => w * d >= 2 * w
  OBVIOUS
<1>2. d <= -1 => w * d <= -w
  OBVIOUS
<1> QED
  BY <1>1, <1>2

\* The slot that is k ticks after slot c: k's rest after c, around the wheel.
LEMMA SlotAhead ==
  ASSUME NEW k \in Nat, NEW w \in Nat \ {0}, NEW c \in 0..(w - 1)
  PROVE  (c + k) % w = IF c + (k % w) < w THEN c + (k % w) ELSE c + (k % w) - w
<1> DEFINE q == k \div w
           r == k % w
           Q == (c + k) \div w
           R == (c + k) % w
<1>1. r \in 0..(w - 1) /\ q \in Nat /\ k = w * q + r
  BY Division
<1>2. R \in 0..(w - 1) /\ Q \in Nat /\ c + k = w * Q + R
  <2>1. c + k \in Nat
    OBVIOUS
  <2> QED
    BY <2>1, Division
<1> HIDE DEF q, r, Q, R
<1>3. w * (Q - q) = c + r - R
  BY <1>1, <1>2
<1>4. Q - q = 0 \/ Q - q = 1
  <2>1. -w < w * (Q - q) /\ w * (Q - q) < 2 * w
    BY <1>1, <1>2, <1>3
  <2>2. Q - q \in Int
    BY <1>1, <1>2
  <2> QED
    BY <2>1, <2>2, SmallMultiple
<1>5. CASE Q - q = 0
  <2>1. w * (Q - q) = 0
    BY <1>5
  <2> QED
    BY <1>1, <1>2, <1>3, <2>1 DEF r, R
<1>6. CASE Q - q = 1
  <2>1. w * (Q - q) = w
    BY <1>6
  <2> QED
    BY <1>1, <1>2, <1>3, <2>1 DEF r, R
<1> QED
  BY <1>4, <1>5, <1>6

\* Durations in ticks are natural numbers, and only a period of 0 has no tick.
LEMMA TicksType ==
  /\ \A pause \in Pauses : DurationToTicks(pause) \in Nat \ {0}
  /\ \A per \in Periods : PeriodInTicks(per) \in Nat
<1>1. ASSUME NEW d \in Nat PROVE DurationToTicks(d) \in Nat \ {0}
  <2>1. Granularity \in Nat \ {0} /\ 2 \in Nat \ {0}
    BY WheelAssumption
  <2>2. Granularity \div 2 \in Nat
    BY <2>1, Division
  <2>3. d + Granularity \div 2 \in Nat
    BY <2>2
  <2>4. (d + Granularity \div 2) \div Granularity \in Nat
    BY <2>1, <2>3, Division
  <2> QED
    BY <2>4 DEF DurationToTicks
<1> QED
  BY <1>1, DurationsAssumption DEF PeriodInTicks

-----------------------------------------------------------------------------
(***************************************************************************)
(* The slots.                                                              *)
(***************************************************************************)
\* What the choice of some of the timers of a slot has and keeps.
LEMMA SublistSet ==
  ASSUME NEW T, NEW l \in Seq(T), IsInjective(l), NEW S, NEW r \in Sublist(l, S)
  PROVE  /\ r \in Seq(T)
         /\ IsInjective(r)
         /\ ToSet(r) = ToSet(l) \cap S
<1>0. PICK n \in 0..Len(l) : \E f \in [1..n -> 1..Len(l)] :
        /\ \A i, j \in 1..n : i < j => f[i] < f[j]
        /\ {f[i] : i \in 1..n} = {i \in 1..Len(l) : l[i] \in S}
        /\ r = [k \in 1..n |-> l[f[k]]]
  BY DEF Sublist
<1>1. PICK f \in [1..n -> 1..Len(l)] :
        /\ \A i, j \in 1..n : i < j => f[i] < f[j]
        /\ {f[i] : i \in 1..n} = {i \in 1..Len(l) : l[i] \in S}
        /\ r = [k \in 1..n |-> l[f[k]]]
  BY <1>0
<1>2. Len(l) \in Nat /\ n \in Nat /\ DOMAIN l = 1..Len(l)
  OBVIOUS
<1>3. r \in Seq(T) /\ Len(r) = n /\ DOMAIN r = 1..n
  <2>1. r = [k \in 1..n |-> l[f[k]]] /\ \A k \in 1..n : f[k] \in 1..Len(l)
    BY <1>1
  <2>2. \A k \in 1..Len(l) : l[k] \in T
    BY <1>2
  <2>3. \A k \in 1..n : l[f[k]] \in T
    BY <2>1, <2>2
  <2>4. r \in [1..n -> T]
    BY <2>1, <2>3
  <2>5. r \in Seq(T)
    BY <1>2, <2>4
  <2> QED
    BY <1>2, <2>4, <2>5
<1>4. \A i, j \in 1..Len(l) : l[i] = l[j] => i = j
  BY <1>2 DEF IsInjective
<1>5. \A i, j \in 1..n : r[i] = r[j] => i = j
  <2> SUFFICES ASSUME NEW i \in 1..n, NEW j \in 1..n, r[i] = r[j] PROVE i = j
    OBVIOUS
  <2>1. f[i] \in 1..Len(l) /\ f[j] \in 1..Len(l) /\ l[f[i]] = l[f[j]]
    BY <1>1
  <2>2. f[i] = f[j]
    BY <1>4, <2>1
  <2> QED
    BY <1>1, <2>1, <2>2
<1>6. ToSet(r) \subseteq ToSet(l) \cap S
  <2>1. ASSUME NEW k \in 1..n PROVE r[k] \in ToSet(l) \cap S
    <3>1. f[k] \in {i \in 1..Len(l) : l[i] \in S}
      BY <1>1
    <3> QED
      BY <1>1, <1>2, <3>1 DEF ToSet
  <2> QED
    BY <1>3, <2>1 DEF ToSet
<1>7. ToSet(l) \cap S \subseteq ToSet(r)
  <2>1. ASSUME NEW i \in 1..Len(l), l[i] \in S PROVE l[i] \in ToSet(r)
    <3>1. PICK k \in 1..n : f[k] = i
      BY <1>1, <2>1
    <3> QED
      BY <1>1, <1>3, <3>1 DEF ToSet
  <2> QED
    BY <1>2, <2>1 DEF ToSet
<1> QED
  BY <1>3, <1>5, <1>6, <1>7 DEF IsInjective

\* A slot w[s] holds the timers of A with that position, each once.
Holds(w, pos, A) ==
  \A s \in Slots :
    /\ ToSet(w[s]) = {t \in A : pos[t] = s}
    /\ IsInjective(w[s])

Active == {t \in Timers : status[t] = "active"}

LEMMA HoldsIsWheelHoldsActive == WheelHoldsActive <=> Holds(wheel, position, Active)
BY DEF WheelHoldsActive, Holds, Active
\* A timer is appended to a slot it is not in.
LEMMA AppendSet ==
  ASSUME NEW T, NEW l \in Seq(T), NEW e \in T, IsInjective(l), e \notin ToSet(l)
  PROVE  /\ Append(l, e) \in Seq(T)
         /\ ToSet(Append(l, e)) = ToSet(l) \cup {e}
         /\ IsInjective(Append(l, e))
<1> DEFINE r == Append(l, e)
           n == Len(l)
<1>1. /\ n \in Nat /\ DOMAIN l = 1..n
      /\ r \in Seq(T) /\ DOMAIN r = 1..(n + 1)
      /\ \A k \in 1..n : r[k] = l[k]
      /\ r[n + 1] = e
  OBVIOUS
<1> HIDE DEF r, n
<1>2. \A i, j \in 1..n : l[i] = l[j] => i = j
  BY <1>1 DEF IsInjective
<1>3. \A i \in 1..n : l[i] # e /\ l[i] \in ToSet(l)
  BY <1>1 DEF ToSet
<1>4. IsInjective(r)
  BY <1>1, <1>2, <1>3 DEF IsInjective
<1>5. ToSet(r) = ToSet(l) \cup {e}
  <2>1. \A k \in 1..(n + 1) : r[k] \in ToSet(l) \cup {e}
    BY <1>1, <1>3
  <2>2. \A k \in 1..n : l[k] \in ToSet(r)
    BY <1>1 DEF ToSet
  <2>3. e \in ToSet(r)
    BY <1>1 DEF ToSet
  <2> QED
    BY <1>1, <2>1, <2>2, <2>3 DEF ToSet
<1> QED
  BY <1>1, <1>4, <1>5 DEF r

\* The timer that is taken out of its slot, and only that one, has left the wheel.
LEMMA RemovedHolds ==
  ASSUME EngineTypeOK, WheelHoldsActive, NEW t \in Timers, NEW w \in RemovedFromWheel(t)
  PROVE  w \in [Slots -> Seq(Timers)] /\ Holds(w, position, Active \ {t})
<1> DEFINE s == position[t]
<1>0. s \in Slots /\ wheel \in [Slots -> Seq(Timers)] /\ Holds(wheel, position, Active)
  BY HoldsIsWheelHoldsActive DEF EngineTypeOK
<1>1. PICK rest \in Sublist(wheel[s], Timers \ {t}) : w = [wheel EXCEPT ![s] = rest]
  BY DEF RemovedFromWheel, RemovedFromSlot
<1> HIDE DEF s
<1>2. wheel[s] \in Seq(Timers) /\ IsInjective(wheel[s])
  BY <1>0 DEF Holds
<1>3. /\ rest \in Seq(Timers) /\ IsInjective(rest)
      /\ ToSet(rest) = ToSet(wheel[s]) \cap (Timers \ {t})
  BY <1>2, SublistSet
<1>4. w \in [Slots -> Seq(Timers)]
  BY <1>0, <1>1, <1>3
<1>5. ASSUME NEW r \in Slots
      PROVE  ToSet(w[r]) = {x \in Active \ {t} : position[x] = r} /\ IsInjective(w[r])
  <2>1. ToSet(wheel[r]) = {x \in Active : position[x] = r} /\ IsInjective(wheel[r])
    BY <1>0 DEF Holds
  <2>2. CASE r = s
    <3>1. w[r] = rest
      BY <1>0, <1>1, <2>2
    <3> QED
      BY <1>3, <2>1, <2>2, <3>1 DEF Active
  <2>3. CASE r # s
    <3>1. w[r] = wheel[r]
      BY <1>0, <1>1, <2>3
    <3> QED
      BY <2>1, <2>3, <3>1 DEF s
  <2> QED
    BY <2>2, <2>3
<1> QED
  BY <1>4, <1>5 DEF Holds

\* The slot k ticks ahead is that far away, whole rolls aside.
LEMMA DistanceAhead ==
  ASSUME EngineTypeOK, NEW k \in Nat
  PROVE  /\ (current + k) % WheelSize \in Slots
         /\ k \div WheelSize \in Nat
         /\ Distance((current + k) % WheelSize) + (k \div WheelSize) * WheelSize = k
         /\ k % WheelSize # 0 => (current + k) % WheelSize # current
<1> DEFINE r == k % WheelSize
           q == k \div WheelSize
           s == (current + k) % WheelSize
<1>1. WheelSize \in Nat \ {0} /\ current \in 0..(WheelSize - 1)
  BY WheelAssumption DEF EngineTypeOK, Slots
<1>2. r \in 0..(WheelSize - 1) /\ q \in Nat /\ k = WheelSize * q + r
  BY <1>1, Division
<1>3. s = IF current + r < WheelSize THEN current + r ELSE current + r - WheelSize
  BY <1>1, SlotAhead
<1> HIDE DEF r, q, s
<1>4. s \in Slots
  BY <1>1, <1>2, <1>3 DEF Slots
<1>5. Distance(s) = r
  BY <1>1, <1>2, <1>3 DEF Distance
<1>6. q * WheelSize = WheelSize * q
  BY <1>1, <1>2
<1>7. r # 0 => s # current
  BY <1>1, <1>2, <1>3
<1> QED
  BY <1>1, <1>2, <1>4, <1>5, <1>6, <1>7 DEF r, q, s

\* The ticks that are left are a natural number.
LEMMA TicksLeftType ==
  ASSUME EngineTypeOK, NEW t \in Timers
  PROVE  /\ Distance(position[t]) \in 0..(WheelSize - 1)
         /\ rolls[t] * WheelSize \in Nat
         /\ TicksLeft(t) \in Nat
<1>1. /\ WheelSize \in Nat \ {0} /\ current \in 0..(WheelSize - 1)
      /\ position[t] \in 0..(WheelSize - 1) /\ rolls[t] \in Nat
  BY WheelAssumption DEF EngineTypeOK, Slots
<1>2. Distance(position[t]) \in 0..(WheelSize - 1)
  BY <1>1 DEF Distance
<1>3. rolls[t] * WheelSize \in Nat
  BY <1>1
<1> QED
  BY <1>1, <1>2, <1>3 DEF TicksLeft

\* A timer is put into the wheel w, which holds the timers of A, without it.
LEMMA PutHolds ==
  ASSUME EngineTypeOK, NEW t \in Timers, NEW ticks \in Nat,
         NEW w \in [Slots -> Seq(Timers)], NEW A \in SUBSET Timers, t \notin A,
         Holds(w, position, A), PutIntoWheel(w, t, ticks), UNCHANGED current
  PROVE  /\ position' \in [Timers -> Slots] /\ rolls' \in [Timers -> Nat]
         /\ wheel' \in [Slots -> Seq(Timers)] /\ due' \in [Timers -> Nat]
         /\ Holds(wheel', position', A \cup {t})
         /\ \A x \in Timers : x # t => /\ position'[x] = position[x]
                                       /\ rolls'[x] = rolls[x]
                                       /\ due'[x] = due[x]
         /\ due'[t] = tick + ticks
         /\ TicksLeft(t)' \in Nat /\ ticks <= TicksLeft(t)'
         /\ ticks % WheelSize # 0 => TicksLeft(t)' = ticks
<1>0. PICK s \in Slots, q \in Nat :
        s = (current + ticks) % WheelSize /\ q = ticks \div WheelSize
  BY DistanceAhead
<1>1. /\ Distance(s) + q * WheelSize = ticks
      /\ ticks % WheelSize # 0 => s # current
  BY <1>0, DistanceAhead
<1>2. /\ position' = [position EXCEPT ![t] = s]
      /\ rolls' = [rolls EXCEPT ![t] = q]
      /\ wheel' = [w EXCEPT ![s] = Append(@, t)]
      /\ due' = [due EXCEPT ![t] = tick + ticks]
  BY <1>0 DEF PutIntoWheel
<1>3. /\ position \in [Timers -> Slots] /\ rolls \in [Timers -> Nat]
      /\ due \in [Timers -> Nat] /\ tick \in Nat
  BY DEF EngineTypeOK
<1>4. ToSet(w[s]) = {x \in A : position[x] = s} /\ IsInjective(w[s]) /\ w[s] \in Seq(Timers)
  BY <1>1 DEF Holds
<1>5. /\ Append(w[s], t) \in Seq(Timers) /\ IsInjective(Append(w[s], t))
      /\ ToSet(Append(w[s], t)) = {x \in A : position[x] = s} \cup {t}
  BY <1>4, AppendSet
<1>6. /\ position' \in [Timers -> Slots] /\ position'[t] = s
      /\ rolls' \in [Timers -> Nat] /\ rolls'[t] = q
      /\ due' \in [Timers -> Nat] /\ due'[t] = tick + ticks
      /\ \A x \in Timers : x # t => /\ position'[x] = position[x]
                                    /\ rolls'[x] = rolls[x]
                                    /\ due'[x] = due[x]
  BY <1>1, <1>2, <1>3
<1>7. /\ wheel' \in [Slots -> Seq(Timers)]
      /\ wheel'[s] = Append(w[s], t)
      /\ \A r \in Slots : r # s => wheel'[r] = w[r]
  BY <1>1, <1>2, <1>5
<1>8. ASSUME NEW r \in Slots
      PROVE  /\ ToSet(wheel'[r]) = {x \in A \cup {t} : position'[x] = r}
             /\ IsInjective(wheel'[r])
  <2>1. CASE r = s
    BY <1>5, <1>6, <1>7, <2>1
  <2>2. CASE r # s
    <3>1. wheel'[r] = w[r] /\ t \notin {x \in A \cup {t} : position'[x] = r}
      BY <1>6, <1>7, <2>2
    <3>2. \A x \in A : position'[x] = position[x]
      BY <1>6
    <3>3. ToSet(w[r]) = {x \in A : position[x] = r} /\ IsInjective(w[r])
      BY DEF Holds
    <3> QED
      BY <3>1, <3>2, <3>3
  <2> QED
    BY <2>1, <2>2
<1>9. /\ TicksLeft(t)' \in Nat /\ ticks <= TicksLeft(t)'
      /\ ticks % WheelSize # 0 => TicksLeft(t)' = ticks
  <2>1. Distance(s)' = Distance(s)
    BY DEF Distance
  <2>2. TicksLeft(t)' = Distance(s) + q * WheelSize
                          + (IF SlotDone' /\ s = current THEN WheelSize ELSE 0)
    BY <1>6, <2>1 DEF TicksLeft, Distance
  <2>3. WheelSize \in Nat
    BY WheelAssumption
  <2> QED
    BY <1>1, <2>2, <2>3
<1> QED
  BY <1>6, <1>7, <1>8, <1>9 DEF Holds
-----------------------------------------------------------------------------
(***************************************************************************)
(* What the operations of a client have in common.                         *)
(***************************************************************************)
\* Only the timer t has another place, and the ticks it still has are enough.
LEMMA NeverEarlyKept ==
  ASSUME NeverEarly, NEW t \in Timers, UNCHANGED <<current, tick>>, SlotDone' = SlotDone,
         \A x \in Timers : x # t => /\ status'[x] = status[x] /\ due'[x] = due[x]
                                    /\ position'[x] = position[x] /\ rolls'[x] = rolls[x],
         status'[t] = "active" => due'[t] <= tick + TicksLeft(t)',
         ~(Waiting(t)')
  PROVE  NeverEarly'
<1>1. ASSUME NEW x \in Timers, x # t
      PROVE  TicksLeft(x)' = TicksLeft(x) /\ (Waiting(x)' <=> Waiting(x))
  BY <1>1 DEF TicksLeft, Distance, Waiting
<1> QED
  BY <1>1 DEF NeverEarly

\* The timers of S are not being processed: the execution list is left alone.
LEMMA PassKept ==
  ASSUME EngineTypeOK, ExecHoldsWaiting, CursorInRange, RunsOnce,
         NEW S \in SUBSET Timers,
         \A x \in S : ~Waiting(x) /\ ~(Waiting(x)'),
         \A x \in Timers : x \notin S => status'[x] = status[x],
         UNCHANGED <<exec, cursor, pc>>, ran' = ran \/ ran' = ran \ S
  PROVE  ExecHoldsWaiting' /\ CursorInRange' /\ RunsOnce' /\ ran' \subseteq Timers
<1>1. \A x \in Timers : Waiting(x)' <=> Waiting(x)
  BY DEF Waiting
<1>2. /\ exec \in Seq(Timers) /\ Len(exec) \in Nat
      /\ \A k \in 1..Len(exec) : exec[k] \in Timers /\ exec[k] \in ToSet(exec)
  <2>1. exec \in Seq(Timers)
    BY DEF EngineTypeOK
  <2>2. /\ Len(exec) \in Nat /\ DOMAIN exec = 1..Len(exec)
        /\ \A k \in 1..Len(exec) : exec[k] \in Timers
    BY <2>1
  <2> QED
    BY <2>1, <2>2 DEF ToSet
<1>3. \A k \in 1..Len(exec) : Waiting(exec[k]) /\ exec[k] \notin S
  BY <1>2 DEF ExecHoldsWaiting
<1>4. ran' = ran /\ ran \subseteq Timers
  BY DEF RunsOnce, EngineTypeOK
<1>5. ExecHoldsWaiting'
  BY <1>1 DEF ExecHoldsWaiting
<1>6. CursorInRange'
  BY DEF CursorInRange
<1>7. RunsOnce'
  <2>1. \A k \in 1..Len(exec) : status'[exec[k]] = status[exec[k]]
    BY <1>2, <1>3
  <2>2. \A x \in ran' : Waiting(x)'
    BY <1>1, <1>4 DEF RunsOnce
  <2> QED
    BY <1>4, <2>1, <2>2 DEF RunsOnce
<1> QED
  BY <1>4, <1>5, <1>6, <1>7

-----------------------------------------------------------------------------
(***************************************************************************)
(* The operations.                                                         *)
(***************************************************************************)
\* The initial state: nothing is allocated, nothing runs.
LEMMA EngineInitially == EngineInit => EngineInv
<1> SUFFICES ASSUME EngineInit PROVE EngineInv
  OBVIOUS
<1> USE DEF EngineInit, CommonInit
<1>0. WheelSize \in Nat \ {0} /\ Granularity \in Nat \ {0} /\ 0 \in Slots
  BY WheelAssumption DEF Slots
<1>1. EngineTypeOK
  BY <1>0, SizeMaxAssumption
     DEF EngineTypeOK, CommonTypeOK, TimerStatus, Stage, ResetTimerCount
<1>2. WheelHoldsActive
  BY DEF WheelHoldsActive, ToSet, IsInjective
<1>3. ExecHoldsWaiting
  BY DEF ExecHoldsWaiting, Waiting, ToSet, IsInjective
<1>4. CursorInRange
  BY DEF CursorInRange
<1>5. RefsExact
  BY DEF RefsExact
<1>6. NeverEarly
  BY DEF NeverEarly, Waiting
<1>7. RunsOnce
  BY DEF RunsOnce
<1>8. BorderNear
  BY <1>0 DEF BorderNear
<1> QED
  BY <1>1, <1>2, <1>3, <1>4, <1>5, <1>6, <1>7, <1>8 DEF EngineInv

\* A step of the clock, or of nothing.
LEMMA TickPreserves ==
  ASSUME EngineInv, Tick \/ UNCHANGED now, UNCHANGED <<refs, held, quantities, engineVars>>
  PROVE  EngineInv'
<1> USE DEF engineVars, wheelVars, tickVars, callVars, askedVars
<1>0. now' \in Nat /\ now <= now' /\ now \in Nat
  BY DEF EngineInv, EngineTypeOK, CommonTypeOK, Tick
<1>1. EngineTypeOK'
  BY <1>0 DEF EngineInv, EngineTypeOK, CommonTypeOK
<1>2. WheelHoldsActive'
  BY DEF EngineInv, WheelHoldsActive
<1>3. ExecHoldsWaiting'
  BY DEF EngineInv, ExecHoldsWaiting, Waiting
<1>4. CursorInRange'
  BY DEF EngineInv, CursorInRange
<1>5. RefsExact'
  BY DEF EngineInv, RefsExact
<1>6. NeverEarly'
  BY DEF EngineInv, NeverEarly, TicksLeft, Distance, SlotDone, Waiting
<1>7. RunsOnce'
  BY DEF EngineInv, RunsOnce, Waiting
<1>8. BorderNear'
  <2>0. PICK later \in Nat : now' = later /\ now <= later /\ now \in Nat
    BY <1>0
  <2>1. /\ started \in Nat /\ border \in Nat /\ Granularity \in Nat
        /\ started <= now /\ border <= now + Granularity
    BY WheelAssumption DEF EngineInv, EngineTypeOK, BorderNear
  <2>2. started <= later /\ border <= later + Granularity
    BY <2>0, <2>1
  <2> QED
    BY <2>0, <2>2 DEF BorderNear
<1> QED
  BY <1>1, <1>2, <1>3, <1>4, <1>5, <1>6, <1>7, <1>8 DEF EngineInv

\* A client gets a new object, or gives its holder up.
LEMMA HolderPreserves ==
  ASSUME EngineInv, NEW t \in Timers, Allocate(t) \/ Dismiss(t)
  PROVE  EngineInv'
<1>0. EngineTypeOK /\ RefsExact
  BY DEF EngineInv
<1>1. refs \in [Timers -> Nat] /\ held \subseteq Timers
  BY <1>0 DEF EngineTypeOK, CommonTypeOK
<1>2. /\ refs' \in [Timers -> Nat]
      /\ held' \subseteq Timers
      /\ refs'[t] = (IF t \in held' THEN 1 ELSE 0)
                      + (IF status[t] # "deactivated" THEN 1 ELSE 0)
      /\ \A x \in Timers : x # t => refs'[x] = refs[x] /\ (x \in held' <=> x \in held)
  <2>1. CASE Allocate(t)
    <3>1. t \notin held /\ status[t] = "deactivated"
      BY <1>0, <2>1 DEF RefsExact, Allocate, AllocateObject
    <3>2. held' = held \cup {t} /\ refs' = [refs EXCEPT ![t] = 1]
      BY <1>0, <2>1 DEF Allocate, AllocateObject, IncrementReferences, EngineTypeOK, CommonTypeOK
    <3> QED
      BY <1>1, <3>1, <3>2
  <2>2. CASE Dismiss(t)
    <3>1. t \in held /\ refs[t] = 1 + (IF status[t] # "deactivated" THEN 1 ELSE 0)
      BY <1>0, <2>2 DEF RefsExact, Dismiss, DismissObject
    <3>2. held' = held \ {t} /\ refs' = [refs EXCEPT ![t] = refs[t] - 1]
      BY <2>2 DEF Dismiss, DismissObject, DecrementReferences
    <3> QED
      BY <1>1, <3>1, <3>2
  <2> QED
    BY <2>1, <2>2
<1>3. UNCHANGED <<now, quantities, engineVars>>
  BY DEF Allocate, Dismiss, AllocateObject, DismissObject
<1> USE DEF engineVars, wheelVars, tickVars, callVars, askedVars
<1>4. EngineTypeOK'
  BY <1>0, <1>2, <1>3 DEF EngineTypeOK, CommonTypeOK
<1>5. RefsExact'
  BY <1>0, <1>2, <1>3 DEF RefsExact
<1>6. WheelHoldsActive'
  BY <1>3 DEF EngineInv, WheelHoldsActive
<1>7. ExecHoldsWaiting' /\ CursorInRange'
  BY <1>3 DEF EngineInv, ExecHoldsWaiting, Waiting, CursorInRange
<1>8. NeverEarly'
  BY <1>3 DEF EngineInv, NeverEarly, TicksLeft, Distance, SlotDone, Waiting
<1>9. RunsOnce' /\ BorderNear'
  BY <1>3 DEF EngineInv, RunsOnce, Waiting, BorderNear
<1> QED
  BY <1>4, <1>5, <1>6, <1>7, <1>8, <1>9 DEF EngineInv

\* activate() and reschedule() put the timer into a wheel that is without it.
LEMMA SetPuts ==
  ASSUME EngineTypeOK, WheelHoldsActive, NEW t \in Timers,
         NEW pause \in Pauses, NEW per \in Periods,
         Activate(t, pause, per) \/ Reschedule(t, pause, per),
         NEW ticks \in Nat, ticks = DurationToTicks(pause)
  PROVE  \E w \in [Slots -> Seq(Timers)], A \in SUBSET Timers :
           PutIntoWheel(w, t, ticks) /\ A = Active \ {t} /\ Holds(w, position, A)
<1>1. CASE Activate(t, pause, per)
  <2>1. PutIntoWheel(wheel, t, ticks) /\ t \notin Active
    BY <1>1 DEF Activate, Active
  <2>2. wheel \in [Slots -> Seq(Timers)] /\ Holds(wheel, position, Active)
    BY HoldsIsWheelHoldsActive DEF EngineTypeOK
  <2>3. Active \ {t} = Active /\ Active \in SUBSET Timers
    BY <2>1 DEF Active
  <2> QED
    BY <2>1, <2>2, <2>3
<1>2. CASE Reschedule(t, pause, per)
  <2>1. PICK w \in RemovedFromWheel(t) : PutIntoWheel(w, t, ticks)
    BY <1>2 DEF Reschedule
  <2>2. w \in [Slots -> Seq(Timers)] /\ Holds(w, position, Active \ {t})
    BY <2>1, RemovedHolds
  <2>3. Active \ {t} \in SUBSET Timers
    BY DEF Active
  <2> QED
    BY <2>1, <2>2, <2>3
<1> QED
  BY <1>1, <1>2

\* activate(), and reschedule() of an active timer.
LEMMA SetPreserves ==
  ASSUME EngineInv, NEW t \in Timers, NEW pause \in Pauses, NEW per \in Periods,
         Activate(t, pause, per) \/ Reschedule(t, pause, per)
  PROVE  EngineInv'
<1>0. /\ EngineTypeOK /\ WheelHoldsActive /\ ExecHoldsWaiting /\ RefsExact
      /\ CursorInRange /\ RunsOnce /\ NeverEarly /\ BorderNear
  BY DEF EngineInv
<1>1. /\ period' = [period EXCEPT ![t] = PeriodInTicks(per)]
      /\ status' = [status EXCEPT ![t] = "active"]
      /\ status[t] \in {"deactivated", "active"}
      /\ UNCHANGED <<now, held, current, border, processed, tick, started, exec, cursor, pc, ran>>
  BY <1>0 DEF Activate, Reschedule, tickVars, callVars, EngineTypeOK
<1>2. PICK ticks \in Nat : ticks = DurationToTicks(pause)
  BY TicksType
<1>3. PICK w \in [Slots -> Seq(Timers)], A \in SUBSET Timers :
        PutIntoWheel(w, t, ticks) /\ A = Active \ {t} /\ Holds(w, position, A)
  BY <1>0, <1>2, SetPuts
<1>4. /\ position' \in [Timers -> Slots] /\ rolls' \in [Timers -> Nat]
      /\ wheel' \in [Slots -> Seq(Timers)] /\ due' \in [Timers -> Nat]
      /\ Holds(wheel', position', A \cup {t})
      /\ \A x \in Timers : x # t => /\ position'[x] = position[x]
                                    /\ rolls'[x] = rolls[x]
                                    /\ due'[x] = due[x]
      /\ due'[t] = tick + ticks
      /\ TicksLeft(t)' \in Nat /\ ticks <= TicksLeft(t)'
  BY <1>0, <1>1, <1>3, PutHolds
<1>5. /\ status' \in [Timers -> TimerStatus] /\ status'[t] = "active"
      /\ \A x \in Timers : x # t => status'[x] = status[x]
  BY <1>0, <1>1 DEF EngineTypeOK, TimerStatus
<1>6. /\ refs' \in [Timers -> Nat]
      /\ refs'[t] = refs[t] + (IF status[t] = "deactivated" THEN 1 ELSE 0)
      /\ \A x \in Timers : x # t => refs'[x] = refs[x]
  <2>1. refs \in [Timers -> Nat]
    BY <1>0 DEF EngineTypeOK, CommonTypeOK
  <2>2. CASE Activate(t, pause, per)
    <3>1. status[t] = "deactivated" /\ refs' = [refs EXCEPT ![t] = @ + 1]
      BY <2>2 DEF Activate, IncrementReferences
    <3> QED
      BY <2>1, <3>1
  <2>3. CASE Reschedule(t, pause, per)
    <3>1. status[t] = "active" /\ refs' = refs
      BY <2>3 DEF Reschedule
    <3> QED
      BY <2>1, <3>1
  <2> QED
    BY <2>2, <2>3
<1>7. quantities' \in [TimerKind -> 0..SizeMax] /\ period' \in [Timers -> Nat]
  <2>1. PeriodInTicks(per) \in Nat
    BY TicksType
  <2>2. quantities \in [TimerKind -> 0..SizeMax] /\ period \in [Timers -> Nat]
    BY <1>0 DEF EngineTypeOK, CommonTypeOK
  <2>3. Kind(period[t]) \in TimerKind /\ Kind(period'[t]) \in TimerKind
    BY KindType
  <2>4. period' \in [Timers -> Nat]
    BY <1>1, <2>1, <2>2
  <2>5. DecTimerCount(quantities, Kind(period[t])) \in [TimerKind -> 0..SizeMax]
    BY <2>2, <2>3, CountTypes
  <2>6. CASE Activate(t, pause, per)
    <3>1. quantities' = IncTimerCount(quantities, Kind(period'[t]))
      BY <2>6 DEF Activate
    <3> QED
      BY <2>2, <2>3, <2>4, <3>1, CountTypes
  <2>7. CASE Reschedule(t, pause, per)
    <3>1. quantities' = IncTimerCount(DecTimerCount(quantities, Kind(period[t])), Kind(period'[t]))
      BY <2>7 DEF Reschedule
    <3> QED
      BY <2>3, <2>4, <2>5, <3>1, CountTypes
  <2> QED
    BY <2>4, <2>6, <2>7
<1>8. notBefore' \in [Timers -> Nat]
  <2>1. pause \in Nat /\ now \in Nat /\ notBefore \in [Timers -> Nat]
    BY <1>0, DurationsAssumption DEF EngineTypeOK, CommonTypeOK
  <2> QED
    BY <2>1 DEF Activate, Reschedule, Asked
<1>9. EngineTypeOK'
  BY <1>0, <1>1, <1>4, <1>5, <1>6, <1>7, <1>8 DEF EngineTypeOK, CommonTypeOK
<1>10. WheelHoldsActive'
  <2>1. \A x \in Timers : x \in A \cup {t} <=> status'[x] = "active"
    BY <1>3, <1>5 DEF Active
  <2>2. A \cup {t} \subseteq Timers
    OBVIOUS
  <2>3. \A s \in Slots : {x \in A \cup {t} : position'[x] = s}
                           = {x \in Timers : status'[x] = "active" /\ position'[x] = s}
    BY <2>1, <2>2
  <2> QED
    BY <1>4, <2>3 DEF Holds, WheelHoldsActive
<1>11. ~Waiting(t) /\ ~(Waiting(t)')
  BY <1>1, <1>5 DEF Waiting
<1>12. ExecHoldsWaiting' /\ CursorInRange' /\ RunsOnce'
  <2>1. PICK S \in SUBSET Timers : S = {t}
    OBVIOUS
  <2>2. /\ \A x \in S : ~Waiting(x) /\ ~(Waiting(x)')
        /\ \A x \in Timers : x \notin S => status'[x] = status[x]
    BY <1>5, <1>11, <2>1
  <2> QED
    BY <1>0, <1>1, <2>2, PassKept
<1>13. RefsExact'
  BY <1>0, <1>1, <1>5, <1>6 DEF RefsExact
<1>14. NeverEarly'
  <2>1. tick \in Nat
    BY <1>0 DEF EngineTypeOK
  <2>2. due'[t] <= tick + TicksLeft(t)'
    BY <1>4, <2>1
  <2>3. SlotDone' = SlotDone
    BY <1>1 DEF SlotDone
  <2> QED
    BY <1>0, <1>1, <1>4, <1>5, <1>11, <2>2, <2>3, NeverEarlyKept
<1>15. BorderNear'
  BY <1>0, <1>1 DEF BorderNear
<1> QED
  BY <1>9, <1>10, <1>12, <1>13, <1>14, <1>15 DEF EngineInv
\* deactivate() of an active timer, and a reschedule() that fails half-way.
LEMMA ReleasePreserves ==
  ASSUME EngineInv, NEW t \in Timers, Release(t)
  PROVE  EngineInv'
<1>0. /\ EngineTypeOK /\ WheelHoldsActive /\ ExecHoldsWaiting /\ RefsExact
      /\ CursorInRange /\ RunsOnce /\ NeverEarly /\ BorderNear
  BY DEF EngineInv
<1>1. /\ status[t] = "active"
      /\ status' = [status EXCEPT ![t] = "deactivated"]
      /\ refs' = [refs EXCEPT ![t] = refs[t] - 1]
      /\ quantities' = DecTimerCount(quantities, Kind(period[t]))
      /\ due' = [x \in Timers |-> IF x \in {t} THEN 0 ELSE due[x]]
      /\ notBefore' = [x \in Timers |-> IF x \in {t} THEN 0 ELSE notBefore[x]]
      /\ ran' = ran \ {t}
      /\ wheel' \in RemovedFromWheel(t)
      /\ UNCHANGED <<now, held, position, rolls, period, current, border, processed, tick,
                     started, exec, cursor, pc>>
  BY DEF Release, Forgotten, DecrementReferences, tickVars, callVars
<1>2. wheel' \in [Slots -> Seq(Timers)] /\ Holds(wheel', position, Active \ {t})
  BY <1>0, <1>1, RemovedHolds
<1>3. /\ status' \in [Timers -> TimerStatus] /\ status'[t] = "deactivated"
      /\ \A x \in Timers : x # t => status'[x] = status[x]
  BY <1>0, <1>1 DEF EngineTypeOK, TimerStatus
<1>4. /\ refs' \in [Timers -> Nat]
      /\ refs'[t] = refs[t] - 1 /\ \A x \in Timers : x # t => refs'[x] = refs[x]
  <2>1. refs \in [Timers -> Nat]
    BY <1>0 DEF EngineTypeOK, CommonTypeOK
  <2>2. refs[t] > 0
    BY <1>0, <1>1 DEF RefsExact
  <2> QED
    BY <1>1, <2>1, <2>2
<1>5. quantities' \in [TimerKind -> 0..SizeMax]
  BY <1>0, <1>1, CountTypes, KindType DEF EngineTypeOK, CommonTypeOK
<1>6. /\ due' \in [Timers -> Nat] /\ notBefore' \in [Timers -> Nat] /\ ran' \subseteq Timers
      /\ \A x \in Timers : x # t => due'[x] = due[x]
  BY <1>0, <1>1 DEF EngineTypeOK
<1>7. EngineTypeOK'
  BY <1>0, <1>1, <1>2, <1>3, <1>4, <1>5, <1>6 DEF EngineTypeOK, CommonTypeOK
<1>8. WheelHoldsActive'
  <2>1. \A x \in Timers : x \in Active \ {t} <=> status'[x] = "active"
    BY <1>3 DEF Active
  <2>2. Active \ {t} \subseteq Timers
    BY DEF Active
  <2>3. \A s \in Slots : {x \in Active \ {t} : position[x] = s}
                           = {x \in Timers : status'[x] = "active" /\ position[x] = s}
    BY <2>1, <2>2
  <2> QED
    BY <1>1, <1>2, <2>3 DEF Holds, WheelHoldsActive
<1>9. ~Waiting(t) /\ ~(Waiting(t)')
  BY <1>1, <1>3 DEF Waiting
<1>10. ExecHoldsWaiting' /\ CursorInRange' /\ RunsOnce'
  <2>1. PICK S \in SUBSET Timers : S = {t}
    OBVIOUS
  <2>2. /\ \A x \in S : ~Waiting(x) /\ ~(Waiting(x)')
        /\ \A x \in Timers : x \notin S => status'[x] = status[x]
        /\ ran' = ran \ S
    BY <1>1, <1>3, <1>9, <2>1
  <2> QED
    BY <1>0, <1>1, <2>2, PassKept
<1>11. RefsExact'
  BY <1>0, <1>1, <1>3, <1>4 DEF RefsExact
<1>12. NeverEarly'
  <2>1. SlotDone' = SlotDone
    BY <1>1 DEF SlotDone
  <2> QED
    BY <1>0, <1>1, <1>3, <1>6, <1>9, <2>1, NeverEarlyKept
<1>13. BorderNear'
  BY <1>0, <1>1 DEF BorderNear
<1> QED
  BY <1>7, <1>8, <1>10, <1>11, <1>12, <1>13 DEF EngineInv

\* deactivate() of a timer in the execution list only marks it.
LEMMA DeactivateWaitingPreserves ==
  ASSUME EngineInv, NEW t \in Timers, DeactivateWaiting(t)
  PROVE  EngineInv'
<1>0. /\ EngineTypeOK /\ WheelHoldsActive /\ ExecHoldsWaiting /\ RefsExact
      /\ CursorInRange /\ RunsOnce /\ NeverEarly /\ BorderNear
  BY DEF EngineInv
<1>1. /\ status[t] = "wait_for_execution"
      /\ status' = [status EXCEPT ![t] = "wait_for_deactivation"]
      /\ UNCHANGED <<commonVars, period, wheelVars, tickVars, callVars, askedVars>>
  BY DEF DeactivateWaiting
<1>2. /\ status' \in [Timers -> TimerStatus]
      /\ status'[t] = "wait_for_deactivation"
      /\ \A x \in Timers : x # t => status'[x] = status[x]
  BY <1>0, <1>1 DEF EngineTypeOK, TimerStatus
<1>3. \A x \in Timers : /\ Waiting(x)' <=> Waiting(x)
                        /\ status'[x] = "active" <=> status[x] = "active"
                        /\ status'[x] # "deactivated" <=> status[x] # "deactivated"
  BY <1>1, <1>2 DEF Waiting
<1> USE DEF commonVars, wheelVars, tickVars, callVars, askedVars
<1>4. EngineTypeOK'
  BY <1>0, <1>1, <1>2 DEF EngineTypeOK, CommonTypeOK
<1>5. WheelHoldsActive'
  BY <1>0, <1>1, <1>3 DEF WheelHoldsActive
<1>6. ExecHoldsWaiting' /\ CursorInRange'
  BY <1>0, <1>1, <1>3 DEF ExecHoldsWaiting, CursorInRange
<1>7. RefsExact'
  BY <1>0, <1>1, <1>3 DEF RefsExact
<1>8. RunsOnce'
  <2>1. ran \subseteq Timers /\ \A k \in 1..Len(exec) : exec[k] \in Timers
    BY <1>0 DEF EngineTypeOK
  <2> QED
    BY <1>0, <1>1, <1>2, <1>3, <2>1 DEF RunsOnce
<1>9. NeverEarly'
  <2>1. \A x \in Timers : TicksLeft(x)' = TicksLeft(x)
    BY <1>1 DEF TicksLeft, Distance, SlotDone
  <2> QED
    BY <1>0, <1>1, <1>3, <2>1 DEF NeverEarly
<1>10. BorderNear'
  BY <1>0, <1>1 DEF BorderNear
<1> QED
  BY <1>4, <1>5, <1>6, <1>7, <1>8, <1>9, <1>10 DEF EngineInv

\* The timers in the wheel are those that are active.
LEMMA InWheelIsActive ==
  ASSUME EngineTypeOK, WheelHoldsActive, NEW t \in Timers
  PROVE  InWheel(t) <=> status[t] = "active"
<1>1. position[t] \in Slots
  BY DEF EngineTypeOK
<1> QED
  BY <1>1 DEF WheelHoldsActive, InWheel

\* clear_all empties the wheel and leaves the execution list alone.
LEMMA ClearAllPreserves ==
  ASSUME EngineInv, ClearAll
  PROVE  EngineInv'
<1>0. /\ EngineTypeOK /\ WheelHoldsActive /\ ExecHoldsWaiting /\ RefsExact
      /\ CursorInRange /\ RunsOnce /\ NeverEarly /\ BorderNear
  BY DEF EngineInv
<1>1. PICK S \in SUBSET Timers : S = {t \in Timers : InWheel(t)}
  OBVIOUS
<1>2. \A x \in Timers : x \in S <=> status[x] = "active"
  BY <1>0, <1>1, InWheelIsActive
<1>3. /\ wheel' = [s \in Slots |-> <<>>]
      /\ status' = [t \in Timers |-> IF t \in S THEN "deactivated" ELSE status[t]]
      /\ refs' = [t \in Timers |-> IF t \in S THEN refs[t] - 1 ELSE refs[t]]
      /\ quantities' = ResetTimerCount
      /\ border' = now + Granularity
      /\ current' = 0
      /\ due' = [t \in Timers |-> IF t \in S THEN 0 ELSE due[t]]
      /\ notBefore' = [t \in Timers |-> IF t \in S THEN 0 ELSE notBefore[t]]
      /\ ran' = ran \ S
      /\ UNCHANGED <<now, held, position, rolls, period, processed, tick,
                     started, exec, cursor, pc>>
  BY <1>1 DEF ClearAll, Forgotten, callVars
<1>4. /\ status' \in [Timers -> TimerStatus]
      /\ \A x \in Timers : x \in S => status'[x] = "deactivated"
      /\ \A x \in Timers : x \notin S => status'[x] = status[x]
      /\ \A x \in Timers : status'[x] # "active"
  BY <1>0, <1>2, <1>3 DEF EngineTypeOK, TimerStatus
<1>5. /\ refs' \in [Timers -> Nat]
      /\ \A x \in Timers : refs'[x] = IF x \in S THEN refs[x] - 1 ELSE refs[x]
  <2>1. \A x \in Timers : refs[x] \in Nat
    BY <1>0 DEF EngineTypeOK, CommonTypeOK
  <2>2. \A x \in S : refs[x] > 0
    BY <1>0, <1>2 DEF RefsExact
  <2> QED
    BY <1>3, <2>1, <2>2
<1>6. /\ due' \in [Timers -> Nat] /\ notBefore' \in [Timers -> Nat] /\ ran' \subseteq Timers
      /\ \A x \in Timers : x \notin S => due'[x] = due[x]
  BY <1>0, <1>3 DEF EngineTypeOK
<1>7. wheel' \in [Slots -> Seq(Timers)] /\ current' \in Slots /\ border' \in Nat
  <2>1. now \in Nat
    BY <1>0 DEF EngineTypeOK, CommonTypeOK
  <2> QED
    BY <1>3, <2>1, WheelAssumption DEF Slots
<1>8. quantities' \in [TimerKind -> 0..SizeMax]
  BY <1>3, SizeMaxAssumption DEF ResetTimerCount
<1>9. EngineTypeOK'
  BY <1>0, <1>3, <1>4, <1>5, <1>6, <1>7, <1>8 DEF EngineTypeOK, CommonTypeOK
<1>10. WheelHoldsActive'
  BY <1>3, <1>4 DEF WheelHoldsActive, ToSet, IsInjective
<1>11. \A x \in S : ~Waiting(x) /\ ~(Waiting(x)')
  BY <1>2, <1>4 DEF Waiting
<1>12. ExecHoldsWaiting' /\ CursorInRange' /\ RunsOnce'
  BY <1>0, <1>3, <1>4, <1>11, PassKept
<1>13. RefsExact'
  BY <1>0, <1>2, <1>3, <1>4, <1>5 DEF RefsExact
<1>14. NeverEarly'
  BY <1>0, <1>3, <1>4, <1>6, <1>11 DEF NeverEarly, Waiting
<1>15. BorderNear'
  <2>1. now \in Nat /\ Granularity \in Nat
    BY <1>0, WheelAssumption DEF EngineTypeOK, CommonTypeOK
  <2> QED
    BY <1>0, <1>3, <2>1 DEF BorderNear
<1> QED
  BY <1>9, <1>10, <1>12, <1>13, <1>14, <1>15 DEF EngineInv
-----------------------------------------------------------------------------
(***************************************************************************)
(* The steps of process_expired_timers.                                    *)
(***************************************************************************)
\* The steps that concern no timer, and the time the call has begun at.
LEMMA CallStepPreserves ==
  ASSUME EngineInv, BeginCall \/ SwitchToNextTick \/ EndCall
  PROVE  EngineInv'
<1>0. /\ EngineTypeOK /\ WheelHoldsActive /\ ExecHoldsWaiting /\ RefsExact
      /\ CursorInRange /\ RunsOnce /\ NeverEarly /\ BorderNear
  BY DEF EngineInv
<1>1. /\ pc \in {"idle", "loop"} /\ pc' \in {"idle", "loop"}
      /\ UNCHANGED <<commonVars, status, period, wheelVars, current, tick, exec, cursor, askedVars>>
  BY DEF BeginCall, SwitchToNextTick, EndCall, tickVars, callVars
<1>2. /\ now \in Nat /\ border \in Nat /\ started \in Nat /\ Granularity \in Nat
      /\ started <= now /\ border <= now + Granularity
  BY <1>0, WheelAssumption DEF EngineTypeOK, CommonTypeOK, BorderNear
<1>3. /\ border' \in Nat /\ started' \in Nat /\ processed' \in BOOLEAN
      /\ started' <= now /\ border' <= now + Granularity
  <2>0. processed \in BOOLEAN
    BY <1>0 DEF EngineTypeOK
  <2>1. CASE BeginCall
    BY <1>2, <2>0, <2>1 DEF BeginCall, tickVars
  <2>2. CASE SwitchToNextTick
    <3>1. /\ started >= border /\ border' = border + Granularity
          /\ started' = started /\ processed' = FALSE
      BY <2>2 DEF SwitchToNextTick, callVars
    <3>2. border + Granularity \in Nat /\ border + Granularity <= now + Granularity
      BY <1>2, <3>1
    <3> QED
      BY <1>2, <3>1, <3>2
  <2>3. CASE EndCall
    BY <1>2, <2>0, <2>3 DEF EndCall, tickVars
  <2> QED
    BY <2>1, <2>2, <2>3
<1> USE DEF commonVars, wheelVars, askedVars
<1>4. EngineTypeOK'
  BY <1>0, <1>1, <1>3 DEF EngineTypeOK, CommonTypeOK, Stage
<1>5. WheelHoldsActive'
  BY <1>0, <1>1 DEF WheelHoldsActive
<1>6. ExecHoldsWaiting' /\ RefsExact'
  BY <1>0, <1>1 DEF ExecHoldsWaiting, Waiting, RefsExact
<1>7. exec' = <<>> /\ CursorInRange'
  BY <1>0, <1>1 DEF CursorInRange
<1>8. RunsOnce'
  BY <1>0, <1>1, <1>7 DEF RunsOnce, Waiting
<1>9. NeverEarly'
  <2>1. \A x \in Timers : TicksLeft(x)' = TicksLeft(x)
    BY <1>1 DEF TicksLeft, Distance, SlotDone
  <2> QED
    BY <1>0, <1>1, <2>1 DEF NeverEarly, Waiting
<1>10. BorderNear'
  BY <1>1, <1>3 DEF BorderNear
<1> QED
  BY <1>4, <1>5, <1>6, <1>7, <1>8, <1>9, <1>10 DEF EngineInv

\* The timers of the execution list, each of them once.
LEMMA ExecElements ==
  ASSUME EngineTypeOK, ExecHoldsWaiting
  PROVE  /\ exec \in Seq(Timers) /\ Len(exec) \in Nat /\ cursor \in Nat /\ ran \subseteq Timers
         /\ \A k \in 1..Len(exec) : exec[k] \in Timers /\ exec[k] \in ToSet(exec)
         /\ \A i, j \in 1..Len(exec) : exec[i] = exec[j] => i = j
<1>1. exec \in Seq(Timers) /\ cursor \in Nat /\ ran \subseteq Timers
  BY DEF EngineTypeOK
<1>2. Len(exec) \in Nat /\ DOMAIN exec = 1..Len(exec)
  BY <1>1
<1>3. \A k \in 1..Len(exec) : exec[k] \in Timers /\ exec[k] \in ToSet(exec)
  BY <1>1, <1>2 DEF ToSet
<1>4. \A i, j \in 1..Len(exec) : exec[i] = exec[j] => i = j
  BY <1>2 DEF ExecHoldsWaiting, IsInjective
<1> QED
  BY <1>1, <1>2, <1>3, <1>4

\* exec_actions only moves through the execution list.
LEMMA ExecStepPreserves ==
  ASSUME EngineInv, CheckPasses \/ CheckFails \/ CallAction \/ FinishAction \/ LockBack
  PROVE  EngineInv'
<1>0. /\ EngineTypeOK /\ WheelHoldsActive /\ ExecHoldsWaiting /\ RefsExact
      /\ CursorInRange /\ RunsOnce /\ NeverEarly /\ BorderNear
  BY DEF EngineInv
<1>1. /\ pc \in {"check", "enter", "run"} /\ pc' \in {"check", "enter", "run", "utilize"}
      /\ UNCHANGED <<commonVars, status, period, wheelVars, tickVars, started, exec, due>>
  BY DEF CheckPasses, CheckFails, CallAction, FinishAction, LockBack, askedVars
<1>2. /\ exec \in Seq(Timers) /\ Len(exec) \in Nat /\ cursor \in Nat /\ ran \subseteq Timers
      /\ \A k \in 1..Len(exec) : exec[k] \in Timers /\ exec[k] \in ToSet(exec)
      /\ \A i, j \in 1..Len(exec) : exec[i] = exec[j] => i = j
  BY <1>0, ExecElements
<1>3. cursor' \in Nat /\ ran' \subseteq Timers /\ notBefore' \in [Timers -> Nat]
  <2>0. notBefore \in [Timers -> Nat]
    BY <1>0 DEF EngineTypeOK
  <2>1. CASE CallAction
    <3>1. AtCursor \in Timers
      BY <1>0, <1>2, <2>1 DEF CallAction, CursorInRange, AtCursor
    <3> QED
      BY <1>2, <2>0, <2>1, <3>1 DEF CallAction
  <2>2. CASE CheckPasses \/ CheckFails \/ FinishAction \/ LockBack
    BY <1>2, <2>0, <2>2 DEF CheckPasses, CheckFails, FinishAction, LockBack, askedVars
  <2> QED
    BY <2>1, <2>2
<1>4. exec # <<>>
  BY <1>0, <1>1 DEF CursorInRange
<1>5. CursorInRange'
  <2>1. Len(exec) > 0
    BY <1>2, <1>4
  <2> QED
    BY <1>0, <1>1, <1>2, <1>4, <2>1
       DEF CursorInRange, CheckPasses, CheckFails, CallAction, FinishAction, LockBack
<1>6. RunsOnce'
  <2>0. \A k \in 1..Len(exec) : Waiting(exec[k])
    BY <1>0, <1>2 DEF ExecHoldsWaiting
  <2>1. CASE CheckPasses
    BY <1>0, <1>1, <2>1 DEF RunsOnce, CheckPasses, AtCursor, Waiting, askedVars
  <2>2. CASE CheckFails
    <3>1. /\ pc = "check" /\ pc' = "check" /\ cursor' = cursor + 1 /\ ran' = ran
          /\ status' = status /\ exec' = exec
          /\ status[exec[cursor]] # "wait_for_execution"
      BY <1>1, <2>2 DEF CheckFails, AtCursor, askedVars
    <3>2. \A t \in ran' : Waiting(t)'
      BY <1>0, <3>1 DEF RunsOnce, Waiting
    <3>3. ASSUME NEW k \in 1..Len(exec)
          PROVE  /\ k >= cursor' => exec[k] \notin ran
                 /\ status[exec[k]] = "wait_for_execution" /\ k < cursor' => exec[k] \in ran
      BY <1>0, <1>2, <3>1 DEF RunsOnce
    <3> QED
      BY <3>1, <3>2, <3>3 DEF RunsOnce
  <2>3. CASE CallAction
    <3>1. cursor \in 1..Len(exec) /\ pc = "enter" /\ pc' = "run" /\ cursor' = cursor
      BY <1>0, <2>3 DEF CallAction, CursorInRange
    <3>2. ran' = ran \cup {exec[cursor]}
      BY <2>3 DEF CallAction, AtCursor
    <3>3. \A k \in 1..Len(exec) : k > cursor => exec[k] \notin ran'
      BY <1>0, <1>2, <3>1, <3>2 DEF RunsOnce
    <3>4. \A k \in 1..Len(exec) : k < cursor /\ status[exec[k]] = "wait_for_execution" =>
            exec[k] \in ran'
      BY <1>0, <1>2, <3>1, <3>2 DEF RunsOnce
    <3>5. \A t \in ran' : Waiting(t)
      BY <1>0, <2>0, <3>1, <3>2 DEF RunsOnce
    <3> QED
      BY <1>1, <3>1, <3>2, <3>3, <3>4, <3>5 DEF RunsOnce, Waiting
  <2>4. CASE FinishAction
    <3>1. pc = "run" /\ pc' = "check" /\ cursor' = cursor + 1 /\ ran' = ran
      BY <2>4 DEF FinishAction, askedVars
    <3> QED
      BY <1>0, <1>1, <1>2, <3>1 DEF RunsOnce, Waiting
  <2>5. CASE LockBack
    <3>1. pc = "check" /\ pc' = "utilize" /\ cursor > Len(exec) /\ ran' = ran
      BY <2>5 DEF LockBack, askedVars
    <3> QED
      BY <1>0, <1>1, <1>2, <3>1 DEF RunsOnce, Waiting
  <2> QED
    BY <2>1, <2>2, <2>3, <2>4, <2>5
<1> USE DEF commonVars, wheelVars, tickVars
<1>7. EngineTypeOK'
  BY <1>0, <1>1, <1>3 DEF EngineTypeOK, CommonTypeOK, Stage
<1>8. WheelHoldsActive'
  BY <1>0, <1>1 DEF WheelHoldsActive
<1>9. ExecHoldsWaiting' /\ RefsExact'
  BY <1>0, <1>1 DEF ExecHoldsWaiting, Waiting, RefsExact
<1>10. NeverEarly'
  <2>1. \A x \in Timers : TicksLeft(x)' = TicksLeft(x)
    BY <1>1 DEF TicksLeft, Distance, SlotDone
  <2> QED
    BY <1>0, <1>1, <2>1 DEF NeverEarly, Waiting
<1>11. BorderNear'
  BY <1>0, <1>1 DEF BorderNear
<1> QED
  BY <1>5, <1>6, <1>7, <1>8, <1>9, <1>10, <1>11 DEF EngineInv
\* A sequence without elements is empty.
LEMMA NoElements == \A T : \A l \in Seq(T) : l = <<>> <=> ToSet(l) = {}
<1> SUFFICES ASSUME NEW T, NEW l \in Seq(T) PROVE l = <<>> <=> ToSet(l) = {}
  OBVIOUS
<1>1. DOMAIN l = 1..Len(l) /\ Len(l) \in Nat
  OBVIOUS
<1>2. CASE l = <<>>
  BY <1>2 DEF ToSet
<1>3. CASE l # <<>>
  <2>1. 1 \in 1..Len(l)
    BY <1>1, <1>3
  <2> QED
    BY <1>1, <1>3, <2>1 DEF ToSet
<1> QED
  BY <1>2, <1>3

\* One roll more is WheelSize ticks more.
LEMMA OneMoreRoll == \A n, w \in Nat : (n + 1) * w = n * w + w /\ n * w \in Nat
OBVIOUS

\* Those that are taken have no tick left, the others as many as before.
LEMMA MakeExecListTicks ==
  ASSUME EngineInv, MakeExecList, NEW t \in Timers
  PROVE  IF t \in TakenFrom(ToSet(wheel[current]))
         THEN TicksLeft(t) = 0 /\ status[t] = "active" /\ status'[t] = "wait_for_execution"
         ELSE /\ status'[t] = status[t]
              /\ status[t] = "active" => TicksLeft(t)' = TicksLeft(t)
<1> DEFINE slot == ToSet(wheel[current])
<1>1. /\ pc = "loop" /\ pc' \in {"advance", "check"}
      /\ UNCHANGED <<position, current>>
      /\ rolls' = [x \in Timers |->
           IF x \in slot \ TakenFrom(slot) THEN rolls[x] - 1 ELSE rolls[x]]
      /\ status' = [x \in Timers |->
           IF x \in TakenFrom(slot) THEN "wait_for_execution" ELSE status[x]]
  BY DEF MakeExecList, tickVars
<1>2. /\ t \in slot <=> status[t] = "active" /\ position[t] = current
      /\ t \in TakenFrom(slot) <=> t \in slot /\ rolls[t] = 0
  BY DEF EngineInv, EngineTypeOK, WheelHoldsActive, TakenFrom
<1> HIDE DEF slot
<1>3. /\ WheelSize \in Nat /\ rolls[t] \in Nat /\ current \in Nat
      /\ Distance(position[t]) \in Nat /\ rolls[t] * WheelSize \in Nat
  <2>1. EngineTypeOK
    BY DEF EngineInv
  <2>2. /\ Distance(position[t]) \in 0..(WheelSize - 1)
        /\ rolls[t] * WheelSize \in Nat
    BY <2>1, TicksLeftType
  <2>3. WheelSize \in Nat /\ rolls[t] \in Nat /\ current \in Nat
    BY <2>1, WheelAssumption DEF EngineTypeOK, Slots
  <2> QED
    BY <2>2, <2>3
<1>4. TicksLeft(t) = Distance(position[t]) + rolls[t] * WheelSize
  BY <1>1, <1>3 DEF TicksLeft, SlotDone
<1>5. Distance(current) = 0
  BY <1>3 DEF Distance
<1>6. CASE t \in TakenFrom(slot)
  BY <1>1, <1>2, <1>3, <1>4, <1>5, <1>6 DEF slot
<1>7. CASE t \in slot /\ t \notin TakenFrom(slot)
  <2>1. PICK r \in Nat : r = rolls[t] - 1
    BY <1>2, <1>3, <1>7
  <2>2. position[t] = current /\ rolls'[t] = r /\ rolls[t] = r + 1
    BY <1>1, <1>2, <1>3, <1>7, <2>1
  <2>3. (r + 1) * WheelSize = r * WheelSize + WheelSize /\ r * WheelSize \in Nat
    BY <1>3, OneMoreRoll
  <2>4. Distance(position[t])' = 0 /\ SlotDone'
    BY <1>1, <1>5, <2>2 DEF Distance, SlotDone
  <2>5. TicksLeft(t)' = 0 + r * WheelSize + WheelSize
    BY <1>1, <2>2, <2>4 DEF TicksLeft
  <2>6. TicksLeft(t)' = TicksLeft(t)
    BY <1>3, <1>4, <1>5, <2>2, <2>3, <2>5
  <2> QED
    BY <1>1, <1>7, <2>6 DEF slot
<1>8. CASE t \notin slot
  <2>1. status[t] = "active" => position[t] # current
    BY <1>2, <1>8
  <2>2. rolls'[t] = rolls[t]
    BY <1>1, <1>8
  <2>3. position[t] # current => TicksLeft(t)' = TicksLeft(t)
    BY <1>1, <2>2 DEF TicksLeft, Distance
  <2> QED
    BY <1>1, <1>2, <1>8, <2>1, <2>3 DEF slot
<1> QED
  BY <1>2, <1>6, <1>7, <1>8

\* make_exec_list takes timers out of the current slot on their tick.
LEMMA MakeExecListPreserves ==
  ASSUME EngineInv, MakeExecList
  PROVE  EngineInv'
<1>0. /\ EngineTypeOK /\ WheelHoldsActive /\ ExecHoldsWaiting /\ RefsExact
      /\ CursorInRange /\ RunsOnce /\ NeverEarly /\ BorderNear
  BY DEF EngineInv
<1>1. PICK slot \in Seq(Timers), elapsed \in SUBSET Timers, rolling \in SUBSET Timers :
        /\ slot = wheel[current] /\ IsInjective(slot)
        /\ elapsed = TakenFrom(ToSet(slot))
        /\ rolling = ToSet(slot) \ elapsed
  <2>1. wheel[current] \in Seq(Timers) /\ IsInjective(wheel[current])
    BY <1>0 DEF EngineTypeOK, WheelHoldsActive
  <2>2. ToSet(wheel[current]) \subseteq Timers
    BY <2>1 DEF ToSet
  <2> QED
    BY <2>1, <2>2 DEF TakenFrom
<1>2. /\ pc = "loop"
      /\ exec' \in Sublist(slot, elapsed)
      /\ \E rest \in Sublist(slot, rolling) : wheel' = [wheel EXCEPT ![current] = rest]
      /\ rolls' = [t \in Timers |-> IF t \in rolling THEN rolls[t] - 1 ELSE rolls[t]]
      /\ status' = [t \in Timers |->
           IF t \in elapsed THEN "wait_for_execution" ELSE status[t]]
      /\ cursor' = 1
      /\ pc' = IF elapsed = {} THEN "advance" ELSE "check"
      /\ UNCHANGED <<commonVars, position, period, tickVars, started, askedVars>>
  BY <1>1 DEF MakeExecList
<1>3. /\ current \in Slots
      /\ \A t \in Timers : t \in ToSet(slot) <=> status[t] = "active" /\ position[t] = current
  BY <1>0, <1>1 DEF EngineTypeOK, WheelHoldsActive
<1>4. \A t \in Timers : /\ t \in elapsed <=> t \in ToSet(slot) /\ rolls[t] = 0
                        /\ t \in rolling <=> t \in ToSet(slot) /\ rolls[t] # 0
  BY <1>1 DEF TakenFrom
<1>5. exec' \in Seq(Timers) /\ IsInjective(exec') /\ ToSet(exec') = elapsed
  <2>1. ToSet(slot) \cap elapsed = elapsed
    BY <1>4
  <2>2. PICK list \in Sublist(slot, elapsed) : exec' = list
    BY <1>2
  <2>3. list \in Seq(Timers) /\ IsInjective(list) /\ ToSet(list) = elapsed
    <3>1. slot \in Seq(Timers) /\ IsInjective(slot)
      BY <1>1
    <3>2. list \in Sublist(slot, elapsed)
      BY <2>2
    <3>3. /\ list \in Seq(Timers) /\ IsInjective(list)
          /\ ToSet(list) = ToSet(slot) \cap elapsed
      BY <3>1, <3>2, SublistSet
    <3> QED
      BY <2>1, <3>3
  <2> QED
    BY <2>2, <2>3
<1>6. PICK rest \in Sublist(slot, rolling) : wheel' = [wheel EXCEPT ![current] = rest]
  BY <1>2
<1>7. rest \in Seq(Timers) /\ IsInjective(rest) /\ ToSet(rest) = rolling
  <2>1. ToSet(slot) \cap rolling = rolling
    BY <1>4
  <2>2. slot \in Seq(Timers) /\ IsInjective(slot)
    BY <1>1
  <2>3. /\ rest \in Seq(Timers) /\ IsInjective(rest)
        /\ ToSet(rest) = ToSet(slot) \cap rolling
    BY <1>6, <2>2, SublistSet
  <2> QED
    BY <2>1, <2>3
<1>8. /\ wheel' \in [Slots -> Seq(Timers)] /\ wheel'[current] = rest
      /\ \A s \in Slots : s # current => wheel'[s] = wheel[s]
  <2>1. wheel \in [Slots -> Seq(Timers)]
    BY <1>0 DEF EngineTypeOK
  <2> QED
    BY <1>3, <1>6, <1>7, <2>1
<1>9. /\ status' \in [Timers -> TimerStatus]
      /\ \A t \in elapsed : status'[t] = "wait_for_execution"
      /\ \A t \in Timers : t \notin elapsed => status'[t] = status[t]
  BY <1>0, <1>2 DEF EngineTypeOK, TimerStatus
<1>10. /\ rolls' \in [Timers -> Nat]
       /\ \A t \in Timers : rolls'[t] = IF t \in rolling THEN rolls[t] - 1 ELSE rolls[t]
  <2>1. \A t \in Timers : rolls[t] \in Nat
    BY <1>0 DEF EngineTypeOK
  <2> QED
    BY <1>2, <1>4, <2>1
<1>11. exec = <<>> /\ ran = {}
  <2>1. exec = <<>>
    BY <1>0, <1>2 DEF CursorInRange
  <2>2. \A t \in ran : t \in Timers /\ Waiting(t)
    BY <1>0 DEF RunsOnce, EngineTypeOK
  <2>3. ToSet(exec) = {}
    BY <2>1 DEF ToSet
  <2> QED
    BY <1>0, <2>1, <2>2, <2>3 DEF ExecHoldsWaiting
<1>12. \A t \in Timers : ~Waiting(t) /\ (Waiting(t)' <=> t \in elapsed)
  <2>1. \A t \in Timers : ~Waiting(t)
    BY <1>0, <1>11 DEF ExecHoldsWaiting, ToSet
  <2> QED
    BY <1>9, <2>1 DEF Waiting
<1> USE DEF commonVars, tickVars, askedVars
<1>13. EngineTypeOK'
  BY <1>0, <1>2, <1>5, <1>8, <1>9, <1>10 DEF EngineTypeOK, CommonTypeOK, Stage
<1>14. WheelHoldsActive'
  <2> DEFINE Here(s) == {t \in Timers : status'[t] = "active" /\ position[t] = s}
  <2> SUFFICES ASSUME NEW s \in Slots
               PROVE  ToSet(wheel'[s]) = Here(s) /\ IsInjective(wheel'[s])
    BY <1>2 DEF WheelHoldsActive
  <2> HIDE DEF Here
  <2>1. CASE s = current
    <3>1. \A t \in Timers : t \in rolling <=> status'[t] = "active" /\ position[t] = s
      BY <1>3, <1>4, <1>9, <2>1
    <3>2. wheel'[s] = rest /\ IsInjective(rest) /\ ToSet(rest) = rolling
      BY <1>7, <1>8, <2>1
    <3>3. rolling \subseteq Timers
      BY <1>1
    <3>4. ToSet(wheel'[s]) = rolling /\ IsInjective(wheel'[s])
      BY <3>2
    <3>5. rolling = Here(s)
      BY <3>1, <3>3 DEF Here
    <3> QED
      BY <3>4, <3>5
  <2>2. CASE s # current
    <3>1. \A t \in Timers : position[t] = s => status'[t] = status[t]
      BY <1>3, <1>4, <1>9, <2>2
    <3>2. wheel'[s] = wheel[s]
      BY <1>8, <2>2
    <3>3. ToSet(wheel[s]) = Here(s) /\ IsInjective(wheel[s])
      BY <1>0, <3>1 DEF WheelHoldsActive, Here
    <3> QED
      BY <3>2, <3>3
  <2> QED
    BY <2>1, <2>2
<1>15. ExecHoldsWaiting'
  BY <1>5, <1>12 DEF ExecHoldsWaiting
<1>16. RefsExact'
  <2>1. \A t \in Timers : status'[t] # "deactivated" <=> status[t] # "deactivated"
    BY <1>3, <1>4, <1>9
  <2> QED
    BY <1>0, <1>2, <2>1 DEF RefsExact
<1>17. exec' = <<>> <=> elapsed = {}
  BY <1>5, NoElements
<1>18. CursorInRange'
  <2>1. Len(exec') \in Nat
    BY <1>5
  <2> QED
    BY <1>2, <1>17, <2>1 DEF CursorInRange
<1>19. RunsOnce'
  <2>1. ran' = {} /\ pc' \in {"advance", "check"} /\ cursor' = 1
    BY <1>2, <1>11
  <2>2. \A k \in 1..Len(exec') : ~(k < 1)
    OBVIOUS
  <2> QED
    BY <2>1, <2>2 DEF RunsOnce
<1>20. NeverEarly'
  <2> SUFFICES ASSUME NEW t \in Timers
               PROVE  /\ status'[t] = "active" => due[t] <= tick + TicksLeft(t)'
                      /\ Waiting(t)' => due[t] <= tick
    BY <1>2 DEF NeverEarly
  <2>1. status[t] = "active" => due[t] <= tick + TicksLeft(t)
    BY <1>0 DEF NeverEarly
  <2>2. CASE t \in elapsed
    <3>1. TicksLeft(t) = 0 /\ status[t] = "active" /\ status'[t] # "active"
      BY <1>1, <2>2, MakeExecListTicks
    <3>2. tick \in Nat /\ due[t] \in Nat
      BY <1>0 DEF EngineTypeOK
    <3> QED
      BY <2>1, <3>1, <3>2
  <2>3. CASE t \notin elapsed
    BY <1>1, <1>12, <2>1, <2>3, MakeExecListTicks
  <2> QED
    BY <2>2, <2>3
<1>21. BorderNear'
  BY <1>0, <1>2 DEF BorderNear
<1> QED
  BY <1>13, <1>14, <1>15, <1>16, <1>18, <1>19, <1>20, <1>21 DEF EngineInv

\* After the position has moved on every timer has one tick less to go.
LEMMA AdvanceTicks ==
  ASSUME EngineTypeOK, AdvancePosition, NEW t \in Timers
  PROVE  TicksLeft(t)' \in Nat /\ TicksLeft(t) = 1 + TicksLeft(t)'
<1>1. /\ pc = "advance" /\ pc' = "loop" /\ UNCHANGED <<position, rolls>>
      /\ current' = IF current + 1 >= WheelSize THEN 0 ELSE current + 1
  BY DEF AdvancePosition, wheelVars
<1>2. WheelSize \in Nat \ {0} /\ current \in 0..(WheelSize - 1)
  BY WheelAssumption DEF EngineTypeOK, Slots
<1>3. PICK c \in 0..(WheelSize - 1), next \in 0..(WheelSize - 1) :
        c = current /\ next = IF c + 1 >= WheelSize THEN 0 ELSE c + 1
  BY <1>2
<1>4. current' = next
  BY <1>1, <1>3
<1>5. PICK s \in 0..(WheelSize - 1), n \in Nat : s = position[t] /\ n = rolls[t] * WheelSize
  BY TicksLeftType DEF EngineTypeOK, Slots
<1>6. TicksLeft(t) = (IF s >= c THEN s - c ELSE s - c + WheelSize) + n
                       + (IF s = c THEN WheelSize ELSE 0)
  BY <1>1, <1>3, <1>5 DEF TicksLeft, SlotDone, Distance
<1>7. TicksLeft(t)' = (IF s >= next THEN s - next ELSE s - next + WheelSize) + n + 0
  BY <1>1, <1>4, <1>5 DEF TicksLeft, SlotDone, Distance
<1>8. next = IF c + 1 >= WheelSize THEN 0 ELSE c + 1
  BY <1>3
<1>9. WheelSize \in Nat \ {0}
  BY <1>2
<1>10. (IF s >= c THEN s - c ELSE s - c + WheelSize) + n + (IF s = c THEN WheelSize ELSE 0)
          = 1 + ((IF s >= next THEN s - next ELSE s - next + WheelSize) + n + 0)
  BY <1>8, <1>9
<1>11. (IF s >= next THEN s - next ELSE s - next + WheelSize) + n + 0 \in Nat
  BY <1>9
<1> QED
  BY <1>6, <1>7, <1>10, <1>11

\* The position moves on: every timer that waits has one tick less to go.
LEMMA AdvancePreserves ==
  ASSUME EngineInv, AdvancePosition
  PROVE  EngineInv'
<1>0. /\ EngineTypeOK /\ WheelHoldsActive /\ ExecHoldsWaiting /\ RefsExact
      /\ CursorInRange /\ RunsOnce /\ NeverEarly /\ BorderNear
  BY DEF EngineInv
<1>1. /\ pc = "advance" /\ pc' = "loop"
      /\ current' = IF current + 1 >= WheelSize THEN 0 ELSE current + 1
      /\ tick' = tick + 1 /\ processed' = TRUE
      /\ UNCHANGED <<commonVars, status, period, wheelVars, border, started, exec, cursor,
                     askedVars>>
  BY DEF AdvancePosition
<1>2. /\ WheelSize \in Nat \ {0} /\ current \in 0..(WheelSize - 1) /\ tick \in Nat
      /\ Slots = 0..(WheelSize - 1)
  BY <1>0, WheelAssumption DEF EngineTypeOK, Slots
<1>3. PICK next \in 0..(WheelSize - 1) :
        next = IF current + 1 >= WheelSize THEN 0 ELSE current + 1
  BY <1>2
<1>11. current' = next
  BY <1>1, <1>3
<1> USE DEF commonVars, wheelVars, askedVars
<1>4. EngineTypeOK'
  BY <1>0, <1>1, <1>2, <1>3, <1>11 DEF EngineTypeOK, CommonTypeOK, Stage
<1>5. WheelHoldsActive'
  BY <1>0, <1>1 DEF WheelHoldsActive
<1>6. ExecHoldsWaiting' /\ RefsExact'
  BY <1>0, <1>1 DEF ExecHoldsWaiting, Waiting, RefsExact
<1>7. exec' = <<>> /\ CursorInRange'
  BY <1>0, <1>1 DEF CursorInRange
<1>8. RunsOnce'
  BY <1>0, <1>1, <1>7 DEF RunsOnce, Waiting
<1>9. NeverEarly'
  <2> SUFFICES ASSUME NEW t \in Timers
               PROVE  /\ status[t] = "active" => due[t] <= tick + 1 + TicksLeft(t)'
                      /\ Waiting(t)' => due[t] <= tick + 1
    BY <1>1 DEF NeverEarly
  <2>1. PICK m \in Nat : TicksLeft(t)' = m /\ TicksLeft(t) = 1 + m
    BY <1>0, AdvanceTicks
  <2>2. due[t] \in Nat /\ (status[t] = "active" => due[t] <= tick + (1 + m))
    BY <1>0, <2>1 DEF NeverEarly, EngineTypeOK
  <2>3. Waiting(t)' => due[t] <= tick
    BY <1>0, <1>1 DEF NeverEarly, Waiting
  <2> QED
    BY <1>2, <2>1, <2>2, <2>3
<1>10. BorderNear'
  BY <1>0, <1>1 DEF BorderNear
<1> QED
  BY <1>4, <1>5, <1>6, <1>7, <1>8, <1>9, <1>10 DEF EngineInv
\* The head of the execution list, which utilize_exec_list disposes of.
LEMMA HeadIsWaiting ==
  ASSUME EngineInv, pc = "utilize"
  PROVE  /\ exec # <<>>
         /\ Head(exec) \in Timers
         /\ Waiting(Head(exec))
         /\ status[Head(exec)] = "wait_for_execution" => Head(exec) \in ran
<1>0. EngineTypeOK /\ ExecHoldsWaiting /\ CursorInRange /\ RunsOnce
  BY DEF EngineInv
<1>1. exec # <<>> /\ exec \in Seq(Timers) /\ IsInjective(exec)
  BY <1>0 DEF CursorInRange, EngineTypeOK, ExecHoldsWaiting
<1>2. Len(exec) \in Nat /\ 1 \in 1..Len(exec) /\ Head(exec) = exec[1]
  BY <1>1
<1>3. Head(exec) \in Timers /\ Head(exec) \in ToSet(exec)
  BY <1>1, TailSet
<1>4. status[exec[1]] = "wait_for_execution" => exec[1] \in ran
  BY <1>0, <1>2 DEF RunsOnce
<1> QED
  BY <1>0, <1>1, <1>2, <1>3, <1>4 DEF ExecHoldsWaiting

\* The head leaves the execution list, which keeps its other timers.
LEMMA HeadLeaves ==
  ASSUME EngineInv, pc = "utilize", LeaveTimer, NEW t \in Timers, t = Head(exec),
         ran' = ran \ {t},
         \A x \in Timers : x # t => status'[x] = status[x],
         ~(Waiting(t)')
  PROVE  /\ exec' \in Seq(Timers) /\ pc' \in {"utilize", "advance"} /\ ran' \subseteq Timers
         /\ ExecHoldsWaiting' /\ CursorInRange' /\ RunsOnce'
<1>0. EngineTypeOK /\ ExecHoldsWaiting /\ CursorInRange /\ RunsOnce
  BY DEF EngineInv
<1>1. exec \in Seq(Timers) /\ IsInjective(exec) /\ exec # <<>> /\ ran \subseteq Timers
  BY <1>0, HeadIsWaiting DEF EngineTypeOK, ExecHoldsWaiting
<1>2. PICK rest \in Seq(Timers) :
        /\ rest = Tail(exec)
        /\ Len(exec) \in Nat /\ Len(exec) > 0 /\ Len(rest) = Len(exec) - 1
        /\ \A k \in 1..(Len(exec) - 1) : rest[k] = exec[k + 1]
        /\ ToSet(rest) = ToSet(exec) \ {t}
        /\ IsInjective(rest)
  BY <1>1, TailSet
<1>3. exec' = rest /\ pc' = IF Len(exec) = 1 THEN "advance" ELSE "utilize"
  BY <1>2 DEF LeaveTimer
<1>4. \A x \in Timers : Waiting(x)' <=> Waiting(x) /\ x # t
  BY DEF Waiting
<1>5. ExecHoldsWaiting'
  BY <1>0, <1>2, <1>3, <1>4 DEF ExecHoldsWaiting
<1>11. /\ DOMAIN rest = 1..Len(rest)
       /\ rest = <<>> <=> Len(rest) = 0
       /\ \A k \in 1..Len(rest) : rest[k] \in Timers
  OBVIOUS
<1>6. rest = <<>> <=> Len(exec) = 1
  <2>1. Len(rest) = Len(exec) - 1 /\ Len(exec) \in Nat
    BY <1>2
  <2> QED
    BY <1>11, <2>1
<1>7. CursorInRange'
  BY <1>3, <1>6 DEF CursorInRange
<1>8. \A k \in 1..Len(rest) : /\ k + 1 \in 1..Len(exec)
                             /\ rest[k] = exec[k + 1]
                             /\ rest[k] \in Timers /\ rest[k] # t
  <2>1. \A k \in 1..Len(rest) : k + 1 \in 1..Len(exec) /\ rest[k] = exec[k + 1]
    BY <1>2
  <2>2. \A k \in 1..Len(rest) : rest[k] \in ToSet(rest) /\ rest[k] \in Timers
    BY <1>11 DEF ToSet
  <2> QED
    BY <1>2, <2>1, <2>2
<1>9. RunsOnce'
  <2>1. \A x \in ran' : Waiting(x)'
    BY <1>0, <1>1, <1>4 DEF RunsOnce
  <2>2. \A k \in 1..Len(rest) : status'[rest[k]] = "wait_for_execution" => rest[k] \in ran'
    <3>1. \A k \in 1..Len(exec) : status[exec[k]] = "wait_for_execution" => exec[k] \in ran
      BY <1>0 DEF RunsOnce
    <3> QED
      BY <1>8, <3>1
  <2>3. pc' \in {"utilize", "advance"}
    BY <1>3
  <2> QED
    BY <1>3, <2>1, <2>2, <2>3 DEF RunsOnce
<1> QED
  BY <1>1, <1>2, <1>3, <1>5, <1>7, <1>9

\* utilize_exec_list puts a periodic timer back into the wheel.
LEMMA UtilizePeriodicPreserves ==
  ASSUME EngineInv, UtilizePeriodic
  PROVE  EngineInv'
<1>0. /\ EngineTypeOK /\ WheelHoldsActive /\ ExecHoldsWaiting /\ RefsExact
      /\ CursorInRange /\ RunsOnce /\ NeverEarly /\ BorderNear
  BY DEF EngineInv
<1>1. pc = "utilize"
  BY DEF UtilizePeriodic
<1>2. PICK t \in Timers : t = Head(exec) /\ Waiting(t)
  BY <1>1, HeadIsWaiting
<1>3. /\ status' = [status EXCEPT ![t] = "active"]
      /\ PutIntoWheel(wheel, t, period[t])
      /\ notBefore' = [notBefore EXCEPT ![t] = 0]
      /\ ran' = ran \ {t}
      /\ LeaveTimer
      /\ UNCHANGED <<commonVars, period, tickVars>>
  BY <1>2 DEF UtilizePeriodic
<1>4. UNCHANGED <<started, cursor>>
  BY <1>3 DEF LeaveTimer
<1>5. PICK w \in [Slots -> Seq(Timers)], A \in SUBSET Timers, ticks \in Nat :
        w = wheel /\ A = Active /\ ticks = period[t]
  BY <1>0 DEF EngineTypeOK, Active
<1>6. PutIntoWheel(w, t, ticks) /\ t \notin A /\ Holds(w, position, A)
  BY <1>0, <1>2, <1>3, <1>5, HoldsIsWheelHoldsActive DEF Active, Waiting
<1> USE DEF commonVars, tickVars
<1>7. /\ position' \in [Timers -> Slots] /\ rolls' \in [Timers -> Nat]
      /\ wheel' \in [Slots -> Seq(Timers)] /\ due' \in [Timers -> Nat]
      /\ Holds(wheel', position', A \cup {t})
      /\ \A x \in Timers : x # t => /\ position'[x] = position[x]
                                    /\ rolls'[x] = rolls[x]
                                    /\ due'[x] = due[x]
      /\ due'[t] = tick + ticks
      /\ TicksLeft(t)' \in Nat /\ ticks <= TicksLeft(t)'
  BY <1>0, <1>3, <1>6, PutHolds
<1>8. /\ status' \in [Timers -> TimerStatus] /\ status'[t] = "active"
      /\ \A x \in Timers : x # t => status'[x] = status[x]
  BY <1>0, <1>3 DEF EngineTypeOK, TimerStatus
<1>9. notBefore' \in [Timers -> Nat]
  BY <1>0, <1>3 DEF EngineTypeOK
<1>10. ~(Waiting(t)')
  BY <1>8 DEF Waiting
<1>11. /\ exec' \in Seq(Timers) /\ pc' \in {"utilize", "advance"} /\ ran' \subseteq Timers
       /\ ExecHoldsWaiting' /\ CursorInRange' /\ RunsOnce'
  BY <1>1, <1>2, <1>3, <1>8, <1>10, HeadLeaves
<1>12. EngineTypeOK'
  BY <1>0, <1>3, <1>4, <1>7, <1>8, <1>9, <1>11 DEF EngineTypeOK, CommonTypeOK, Stage
<1>13. WheelHoldsActive'
  <2>1. \A x \in Timers : x \in A \cup {t} <=> status'[x] = "active"
    BY <1>5, <1>8 DEF Active
  <2>2. A \cup {t} \subseteq Timers
    OBVIOUS
  <2>3. \A s \in Slots : {x \in A \cup {t} : position'[x] = s}
                           = {x \in Timers : status'[x] = "active" /\ position'[x] = s}
    BY <2>1, <2>2
  <2> QED
    BY <1>7, <2>3 DEF Holds, WheelHoldsActive
<1>14. RefsExact'
  <2>1. \A x \in Timers : status'[x] # "deactivated" <=> status[x] # "deactivated"
    BY <1>2, <1>8 DEF Waiting
  <2> QED
    BY <1>0, <1>3, <2>1 DEF RefsExact
<1>15. NeverEarly'
  <2>1. tick \in Nat
    BY <1>0 DEF EngineTypeOK
  <2>2. due'[t] <= tick + TicksLeft(t)'
    BY <1>7, <2>1
  <2>3. SlotDone' = SlotDone
    BY <1>1, <1>11 DEF SlotDone
  <2> QED
    BY <1>0, <1>3, <1>7, <1>8, <1>10, <2>2, <2>3, NeverEarlyKept
<1>16. BorderNear'
  BY <1>0, <1>3, <1>4 DEF BorderNear
<1> QED
  BY <1>11, <1>12, <1>13, <1>14, <1>15, <1>16 DEF EngineInv

\* utilize_exec_list lets go of the other timers.
LEMMA UtilizeOtherPreserves ==
  ASSUME EngineInv, UtilizeOther
  PROVE  EngineInv'
<1>0. /\ EngineTypeOK /\ WheelHoldsActive /\ ExecHoldsWaiting /\ RefsExact
      /\ CursorInRange /\ RunsOnce /\ NeverEarly /\ BorderNear
  BY DEF EngineInv
<1>1. pc = "utilize"
  BY DEF UtilizeOther
<1>2. PICK t \in Timers : t = Head(exec) /\ Waiting(t)
  BY <1>1, HeadIsWaiting
<1>3. /\ status' = [status EXCEPT ![t] = "deactivated"]
      /\ refs' = [refs EXCEPT ![t] = refs[t] - 1]
      /\ quantities' = DecTimerCount(quantities, Kind(period[t]))
      /\ due' = [x \in Timers |-> IF x \in {t} THEN 0 ELSE due[x]]
      /\ notBefore' = [x \in Timers |-> IF x \in {t} THEN 0 ELSE notBefore[x]]
      /\ ran' = ran \ {t}
      /\ LeaveTimer
      /\ UNCHANGED <<now, held, period, wheelVars, tickVars>>
  BY <1>2 DEF UtilizeOther, Forgotten, DecrementReferences
<1>4. UNCHANGED <<started, cursor>>
  BY <1>3 DEF LeaveTimer
<1>5. /\ status' \in [Timers -> TimerStatus] /\ status'[t] = "deactivated"
      /\ \A x \in Timers : x # t => status'[x] = status[x]
  BY <1>0, <1>3 DEF EngineTypeOK, TimerStatus
<1>6. /\ refs' \in [Timers -> Nat]
      /\ refs'[t] = refs[t] - 1 /\ \A x \in Timers : x # t => refs'[x] = refs[x]
  <2>1. refs \in [Timers -> Nat]
    BY <1>0 DEF EngineTypeOK, CommonTypeOK
  <2>2. refs[t] > 0
    BY <1>0, <1>2 DEF RefsExact, Waiting
  <2> QED
    BY <1>3, <2>1, <2>2
<1>7. quantities' \in [TimerKind -> 0..SizeMax]
  BY <1>0, <1>3, CountTypes, KindType DEF EngineTypeOK, CommonTypeOK
<1>8. /\ due' \in [Timers -> Nat] /\ notBefore' \in [Timers -> Nat]
      /\ \A x \in Timers : x # t => due'[x] = due[x]
  BY <1>0, <1>3 DEF EngineTypeOK
<1>9. ~(Waiting(t)')
  BY <1>5 DEF Waiting
<1>10. /\ exec' \in Seq(Timers) /\ pc' \in {"utilize", "advance"} /\ ran' \subseteq Timers
       /\ ExecHoldsWaiting' /\ CursorInRange' /\ RunsOnce'
  BY <1>1, <1>2, <1>3, <1>5, <1>9, HeadLeaves
<1> USE DEF wheelVars, tickVars
<1>11. EngineTypeOK'
  BY <1>0, <1>3, <1>4, <1>5, <1>6, <1>7, <1>8, <1>10 DEF EngineTypeOK, CommonTypeOK, Stage
<1>12. WheelHoldsActive'
  <2>1. \A x \in Timers : status'[x] = "active" <=> status[x] = "active"
    BY <1>2, <1>5 DEF Waiting
  <2> QED
    BY <1>0, <1>3, <2>1 DEF WheelHoldsActive
<1>13. RefsExact'
  <2>1. status[t] # "deactivated"
    BY <1>2 DEF Waiting
  <2> QED
    BY <1>0, <1>3, <1>5, <1>6, <2>1 DEF RefsExact
<1>14. NeverEarly'
  <2>1. SlotDone' = SlotDone
    BY <1>1, <1>10 DEF SlotDone
  <2> QED
    BY <1>0, <1>3, <1>5, <1>8, <1>9, <2>1, NeverEarlyKept
<1>15. BorderNear'
  BY <1>0, <1>3, <1>4 DEF BorderNear
<1> QED
  BY <1>10, <1>11, <1>12, <1>13, <1>14, <1>15 DEF EngineInv
-----------------------------------------------------------------------------
(***************************************************************************)
(* The counters of timers.                                                 *)
(***************************************************************************)
\* QuantitiesExact, in terms of the values of the counters.
LEMMA ExactIsQuantitiesExact == QuantitiesExact <=> Exact(quantities, status, period)
BY DEF QuantitiesExact, Exact, Counted

\* The same of the next state.
LEMMA ExactIsQuantitiesExactNext ==
  QuantitiesExact' <=> Exact(quantities', status', period')
BY DEF QuantitiesExact, Exact, Counted

\* No timer is known at first.
LEMMA CountsInitially == EngineInit => QuantitiesExact
<1> SUFFICES ASSUME EngineInit PROVE QuantitiesExact
  OBVIOUS
<1>1. \A kind \in TimerKind : Counted(status, period, kind) = {}
  BY DEF EngineInit, Counted
<1>2. Exact(quantities, status, period)
  BY <1>1, FS_EmptySet DEF EngineInit, CommonInit, ResetTimerCount, Exact
<1> QED
  BY <1>2, ExactIsQuantitiesExact

\* Every operation of a client but clear_all keeps the counters exact.
LEMMA ClientKeepsCounts ==
  ASSUME EngineInv, QuantitiesExact, NEW t \in Timers,
         \/ Allocate(t) \/ Dismiss(t)
         \/ \E pause \in Pauses, per \in Periods :
              Activate(t, pause, per) \/ Reschedule(t, pause, per)
         \/ Release(t) \/ DeactivateWaiting(t)
  PROVE  QuantitiesExact'
<1>1. /\ quantities \in [TimerKind -> 0..SizeMax]
      /\ status \in [Timers -> TimerStatus] /\ period \in [Timers -> Nat]
  BY DEF EngineInv, EngineTypeOK, CommonTypeOK
<1>2. Exact(quantities, status, period)
  BY ExactIsQuantitiesExact
<1> SUFFICES Exact(quantities', status', period')
  BY ExactIsQuantitiesExactNext
<1>3. CASE Allocate(t) \/ Dismiss(t)
  <2>1. UNCHANGED <<quantities, status, period>>
    BY <1>3 DEF Allocate, Dismiss, AllocateObject, DismissObject, engineVars
  <2> QED
    BY <1>2, <2>1
<1>4. ASSUME NEW pause \in Pauses, NEW per \in Periods, Activate(t, pause, per)
      PROVE  Exact(quantities', status', period')
  <2>1. /\ status[t] = "deactivated" /\ status'[t] # "deactivated"
        /\ \A x \in Timers : x # t => status'[x] = status[x] /\ period'[x] = period[x]
        /\ quantities' = IncTimerCount(quantities, Kind(period'[t]))
    BY <1>1, <1>4 DEF Activate
  <2> QED
    BY <1>1, <1>2, <2>1, CountsNewTimer
<1>5. ASSUME NEW pause \in Pauses, NEW per \in Periods, Reschedule(t, pause, per)
      PROVE  Exact(quantities', status', period')
  <2> DEFINE between == [status EXCEPT ![t] = "deactivated"]
             less == DecTimerCount(quantities, Kind(period[t]))
  <2>1. /\ status[t] = "active" /\ status' = status
        /\ \A x \in Timers : x # t => period'[x] = period[x]
        /\ quantities' = IncTimerCount(less, Kind(period'[t]))
    BY <1>1, <1>5 DEF Reschedule
  <2>2. /\ between[t] = "deactivated"
        /\ \A x \in Timers : x # t => between[x] = status[x]
    BY <1>1
  <2>3. less \in [TimerKind -> 0..SizeMax]
    BY <1>1, CountTypes, KindType
  <2> HIDE DEF between
  <2>4. Exact(less, between, period)
    BY <1>1, <1>2, <2>1, <2>2, CountsLostTimer
  <2> HIDE DEF less
  <2> QED
    BY <2>1, <2>2, <2>3, <2>4, CountsNewTimer
<1>6. CASE Release(t)
  <2>1. /\ status[t] # "deactivated" /\ status'[t] = "deactivated" /\ period' = period
        /\ \A x \in Timers : x # t => status'[x] = status[x]
        /\ quantities' = DecTimerCount(quantities, Kind(period[t]))
    BY <1>1, <1>6 DEF Release
  <2> QED
    BY <1>1, <1>2, <2>1, CountsLostTimer
<1>7. CASE DeactivateWaiting(t)
  <2>1. /\ UNCHANGED <<quantities, period>>
        /\ \A x \in Timers : status[x] = "deactivated" <=> status'[x] = "deactivated"
    BY <1>1, <1>7 DEF DeactivateWaiting, commonVars
  <2> QED
    BY <1>2, <2>1, CountsSame
<1> QED
  BY <1>3, <1>4, <1>5, <1>6, <1>7

\* One operation of a client, reset() apart.
ClientCall ==
  \E t \in Timers :
    \/ Allocate(t) \/ Dismiss(t) \/ Release(t) \/ DeactivateWaiting(t)
    \/ \E pause \in Pauses, per \in Periods : Activate(t, pause, per) \/ Reschedule(t, pause, per)

\* It preserves the engine's invariant.
LEMMA ClientCallPreserves ==
  ASSUME EngineInv, ClientCall
  PROVE  EngineInv'
BY HolderPreserves, ReleasePreserves, DeactivateWaitingPreserves, SetPreserves DEF ClientCall

\* One step of process_expired_timers.
EngineStep ==
  \/ BeginCall \/ SwitchToNextTick \/ EndCall
  \/ CheckPasses \/ CheckFails \/ CallAction \/ FinishAction \/ LockBack
  \/ MakeExecList \/ AdvancePosition
  \/ UtilizePeriodic \/ UtilizeOther

\* It preserves the engine's invariant.
LEMMA EngineStepPreserves ==
  ASSUME EngineInv, EngineStep
  PROVE  EngineInv'
BY CallStepPreserves, ExecStepPreserves, MakeExecListPreserves, AdvancePreserves,
   UtilizePeriodicPreserves, UtilizeOtherPreserves DEF EngineStep

\* It keeps the counters exact.
LEMMA EngineStepKeepsCounts ==
  ASSUME EngineInv, QuantitiesExact, EngineStep
  PROVE  QuantitiesExact'
<1>1. /\ quantities \in [TimerKind -> 0..SizeMax]
      /\ status \in [Timers -> TimerStatus] /\ period \in [Timers -> Nat]
  BY DEF EngineInv, EngineTypeOK, CommonTypeOK
<1>2. Exact(quantities, status, period)
  BY ExactIsQuantitiesExact
<1> SUFFICES Exact(quantities', status', period')
  BY ExactIsQuantitiesExactNext
<1>3. CASE \/ BeginCall \/ SwitchToNextTick \/ EndCall \/ AdvancePosition
           \/ CheckPasses \/ CheckFails \/ CallAction \/ FinishAction \/ LockBack
  <2>1. UNCHANGED <<quantities, status, period>>
    BY <1>3 DEF BeginCall, SwitchToNextTick, EndCall, AdvancePosition,
                CheckPasses, CheckFails, CallAction, FinishAction, LockBack, commonVars
  <2> QED
    BY <1>2, <2>1
<1>4. CASE MakeExecList
  <2>1. current \in Slots /\ WheelHoldsActive
    BY DEF EngineInv, EngineTypeOK
  <2>2. \A x \in Timers : x \in TakenFrom(ToSet(wheel[current])) => status[x] = "active"
    BY <2>1 DEF WheelHoldsActive, TakenFrom
  <2>3. UNCHANGED <<quantities, period>>
    BY <1>4 DEF MakeExecList, commonVars
  <2>4. \A x \in Timers : status[x] = "deactivated" <=> status'[x] = "deactivated"
    BY <1>4, <2>2 DEF MakeExecList
  <2> QED
    BY <1>2, <2>3, <2>4, CountsSame
<1>5. CASE UtilizePeriodic \/ UtilizeOther
  <2>1. PICK x \in Timers : x = Head(exec) /\ Waiting(x)
    BY <1>5, HeadIsWaiting DEF UtilizePeriodic, UtilizeOther
  <2>2. CASE UtilizePeriodic
    <3>1. /\ UNCHANGED <<quantities, period>>
          /\ status' = [status EXCEPT ![x] = "active"]
      BY <2>1, <2>2 DEF UtilizePeriodic, commonVars
    <3>2. \A y \in Timers : status[y] = "deactivated" <=> status'[y] = "deactivated"
      BY <1>1, <2>1, <3>1 DEF Waiting
    <3> QED
      BY <1>2, <3>1, <3>2, CountsSame
  <2>3. CASE UtilizeOther
    <3>1. /\ quantities' = DecTimerCount(quantities, Kind(period[x])) /\ period' = period
          /\ status' = [status EXCEPT ![x] = "deactivated"]
      BY <2>1, <2>3 DEF UtilizeOther
    <3>2. /\ status[x] # "deactivated" /\ status'[x] = "deactivated"
          /\ \A y \in Timers : y # x => status'[y] = status[y] /\ period'[y] = period[y]
      BY <1>1, <2>1, <3>1 DEF Waiting
    <3> QED
      BY <1>1, <1>2, <3>1, <3>2, CountsLostTimer
  <2> QED
    BY <1>5, <2>2, <2>3
<1> QED
  BY <1>3, <1>4, <1>5 DEF EngineStep

\* clear_all sets the counters to zero: right when nothing is being processed.
LEMMA CountsCleared ==
  ASSUME EngineInv, ClearAll, exec = <<>>
  PROVE  QuantitiesExact'
<1>0. EngineTypeOK /\ WheelHoldsActive /\ ExecHoldsWaiting
  BY DEF EngineInv
<1>1. \A x \in Timers : ~Waiting(x)
  BY <1>0 DEF ExecHoldsWaiting, ToSet
<1>2. \A x \in Timers : status[x] \in {"deactivated", "active"}
  BY <1>0, <1>1 DEF EngineTypeOK, TimerStatus, Waiting
<1>3. \A x \in Timers : status'[x] = "deactivated"
  BY <1>0, <1>2, InWheelIsActive DEF ClearAll
<1>4. \A kind \in TimerKind : Counted(status', period', kind) = {}
  BY <1>3 DEF Counted
<1>5. Exact(quantities', status', period')
  BY <1>4, FS_EmptySet DEF Exact, ClearAll, ResetTimerCount
<1> QED
  BY <1>5, ExactIsQuantitiesExactNext

-----------------------------------------------------------------------------
(***************************************************************************)
(* The engine as a TimerService.                                           *)
(***************************************************************************)
Cancelled == {t \in Timers : status[t] = "wait_for_deactivation"}

\* What the invariant says of one timer.
LEMMA TypesOfTimers ==
  ASSUME EngineInv
  PROVE  /\ tick \in Nat /\ ran \subseteq Timers
         /\ status \in [Timers -> TimerStatus]
         /\ period \in [Timers -> Nat] /\ due \in [Timers -> Nat]
         /\ \A t \in ran : Waiting(t)
BY DEF EngineInv, EngineTypeOK, RunsOnce

\* The service starts where the engine does.
LEMMA ServiceInitially == EngineInit => Service!Init
BY DEF EngineInit, Service!Init, Phases, IfKnown

\* A step that changes neither the timers nor the number of the tick is not seen.
LEMMA NotSeen ==
  ASSUME UNCHANGED <<tick, status, due, period, ran>>
  PROVE  UNCHANGED Service!vars
BY DEF Service!vars, Phases, IfKnown

\* activate() and reschedule() set the timer.
LEMMA ActivateSets ==
  ASSUME EngineInv, NEW t \in Timers, NEW pause \in Pauses, NEW per \in Periods,
         Activate(t, pause, per) \/ Reschedule(t, pause, per)
  PROVE  Service!Set(t, DurationToTicks(pause), PeriodInTicks(per))
<1>1. /\ due' = [due EXCEPT ![t] = tick + DurationToTicks(pause)]
      /\ period' = [period EXCEPT ![t] = PeriodInTicks(per)]
      /\ status[t] \in {"deactivated", "active"}
      /\ status' = [status EXCEPT ![t] = "active"]
      /\ UNCHANGED <<tick, ran>>
  BY TypesOfTimers DEF Activate, Reschedule, PutIntoWheel, tickVars
<1>2. Phases[t] \in {"off", "set"}
  BY <1>1 DEF Phases
<1>3. Phases' = [Phases EXCEPT ![t] = "set"]
  BY <1>1, TypesOfTimers DEF Phases
<1>4. IfKnown(due)' = [IfKnown(due) EXCEPT ![t] = tick + DurationToTicks(pause)]
  BY <1>1, TypesOfTimers DEF IfKnown
<1>5. IfKnown(period)' = [IfKnown(period) EXCEPT ![t] = PeriodInTicks(per)]
  BY <1>1, TypesOfTimers DEF IfKnown
<1>6. Cancelled' = Cancelled
  BY <1>1, TypesOfTimers DEF Cancelled
<1> QED
  BY <1>1, <1>2, <1>3, <1>4, <1>5, <1>6 DEF Service!Set, Cancelled

\* The timers of a set become deactivated: the service switches them off.
LEMMA SwitchesOff ==
  ASSUME EngineInv, NEW S \in SUBSET Timers, UNCHANGED <<tick, period>>,
         ran' = ran \ S,
         due' = [t \in Timers |-> IF t \in S THEN 0 ELSE due[t]],
         status' = [t \in Timers |-> IF t \in S THEN "deactivated" ELSE status[t]]
  PROVE  Service!SwitchOff(S)
<1>1. Phases' = [t \in Timers |-> IF t \in S THEN "off" ELSE Phases[t]]
  BY TypesOfTimers DEF Phases
<1>2. IfKnown(due)' = [t \in Timers |-> IF t \in S THEN 0 ELSE IfKnown(due)[t]]
  BY TypesOfTimers DEF IfKnown
<1>3. IfKnown(period)' = [t \in Timers |-> IF t \in S THEN 0 ELSE IfKnown(period)[t]]
  BY TypesOfTimers DEF IfKnown
<1>4. Cancelled' = Cancelled \ S
  BY TypesOfTimers DEF Cancelled
<1> QED
  BY <1>1, <1>2, <1>3, <1>4 DEF Service!SwitchOff, Cancelled

\* deactivate(), and a reschedule() that throws, of an active timer.
LEMMA ReleaseCancels ==
  ASSUME EngineInv, NEW t \in Timers, Release(t)
  PROVE  Service!Cancel(t)
<1>1. /\ status[t] = "active"
      /\ status' = [status EXCEPT ![t] = "deactivated"]
      /\ ran' = ran \ {t}
      /\ due' = [x \in Timers |-> IF x \in {t} THEN 0 ELSE due[x]]
      /\ UNCHANGED <<tick, period>>
  BY DEF Release, Forgotten, tickVars
<1>2. Phases[t] = "set"
  BY <1>1 DEF Phases
<1>3. status' = [x \in Timers |-> IF x \in {t} THEN "deactivated" ELSE status[x]]
  BY <1>1, TypesOfTimers
<1>4. PICK S \in SUBSET Timers : S = {t}
  OBVIOUS
<1>5. Service!SwitchOff(S)
  BY <1>1, <1>3, <1>4, SwitchesOff
<1> QED
  BY <1>2, <1>4, <1>5 DEF Service!Cancel

\* deactivate() of a timer that is being processed.
LEMMA DeactivateWaitingCancels ==
  ASSUME EngineInv, NEW t \in Timers, DeactivateWaiting(t)
  PROVE  Service!CancelTaken(t)
<1>1. /\ status[t] = "wait_for_execution"
      /\ status' = [status EXCEPT ![t] = "wait_for_deactivation"]
      /\ UNCHANGED <<tick, due, period, ran>>
  BY DEF DeactivateWaiting, tickVars, askedVars
<1>2. Phases[t] \in {"taken", "called"}
  BY <1>1 DEF Phases
<1>3. Phases' = Phases
  BY <1>1, TypesOfTimers DEF Phases
<1>4. IfKnown(due)' = IfKnown(due) /\ IfKnown(period)' = IfKnown(period)
  BY <1>1, TypesOfTimers DEF IfKnown
<1>5. Cancelled' = Cancelled \cup {t}
  BY <1>1, TypesOfTimers DEF Cancelled
<1> QED
  BY <1>1, <1>2, <1>3, <1>4, <1>5 DEF Service!CancelTaken, Cancelled

\* reset() switches off the timers in the wheel, and no other.
LEMMA ClearAllCancels ==
  ASSUME EngineInv, ClearAll
  PROVE  Service!CancelAll
<1>1. PICK S \in SUBSET Timers : S = {t \in Timers : InWheel(t)}
  OBVIOUS
<1>2. /\ status' = [t \in Timers |-> IF t \in S THEN "deactivated" ELSE status[t]]
      /\ due' = [t \in Timers |-> IF t \in S THEN 0 ELSE due[t]]
      /\ ran' = ran \ S
      /\ UNCHANGED <<tick, period>>
  BY <1>1 DEF ClearAll, Forgotten
<1>3. \A t \in Timers : t \in S <=> Phases[t] = "set"
  BY <1>1, InWheelIsActive DEF EngineInv, Phases
<1>4. S = {t \in Timers : Phases[t] = "set"}
  BY <1>3
<1>5. Service!SwitchOff(S)
  BY <1>2, SwitchesOff
<1> QED
  BY <1>4, <1>5 DEF Service!CancelAll, Service!SwitchOff
\* make_exec_list() takes timers that have elapsed.
LEMMA MakeExecListTakes ==
  ASSUME EngineInv, MakeExecList
  PROVE  \E S \in SUBSET Timers : Service!Take(S)
<1>0. /\ current \in Slots /\ WheelHoldsActive /\ NeverEarly /\ EngineTypeOK
      /\ ToSet(wheel[current]) = {t \in Timers : status[t] = "active" /\ position[t] = current}
  BY DEF EngineInv, EngineTypeOK, WheelHoldsActive
<1>1. PICK S \in SUBSET Timers : S = TakenFrom(ToSet(wheel[current]))
  BY <1>0 DEF TakenFrom
<1>2. /\ pc = "loop"
      /\ status' = [t \in Timers |-> IF t \in S THEN "wait_for_execution" ELSE status[t]]
      /\ UNCHANGED <<tick, due, period, ran>>
  BY <1>1 DEF MakeExecList, tickVars, askedVars
<1>3. \A t \in S : /\ t \in Timers /\ status[t] = "active" /\ t \notin ran
                   /\ position[t] = current /\ rolls[t] = 0
  BY <1>0, <1>1, TypesOfTimers DEF TakenFrom, Waiting
<1>4. \A t \in S : due[t] <= tick
  <2> SUFFICES ASSUME NEW t \in S PROVE due[t] <= tick
    OBVIOUS
  <2>1. WheelSize \in Nat /\ current \in Nat /\ tick \in Nat /\ due[t] \in Nat
    BY <1>0, <1>3, WheelAssumption, TypesOfTimers DEF Slots
  <2>2. TicksLeft(t) = (current - current) + 0 * WheelSize + 0
    BY <1>2, <1>3, <2>1 DEF TicksLeft, Distance, SlotDone
  <2>3. TicksLeft(t) = 0
    BY <2>1, <2>2
  <2>4. due[t] <= tick + TicksLeft(t)
    BY <1>0, <1>3 DEF NeverEarly
  <2> QED
    BY <2>1, <2>3, <2>4
<1>5. \A t \in S : Phases[t] = "set" /\ IfKnown(due)[t] <= tick
  BY <1>3, <1>4 DEF Phases, IfKnown
<1>6. Phases' = [t \in Timers |-> IF t \in S THEN "taken" ELSE Phases[t]]
  BY <1>2, <1>3, TypesOfTimers DEF Phases
<1>7. IfKnown(due)' = IfKnown(due) /\ IfKnown(period)' = IfKnown(period)
  BY <1>2, <1>3, TypesOfTimers DEF IfKnown
<1>8. Cancelled' = Cancelled
  BY <1>2, <1>3, TypesOfTimers DEF Cancelled
<1>9. Service!Take(S)
  BY <1>2, <1>5, <1>6, <1>7, <1>8 DEF Service!Take, Cancelled
<1> QED
  BY <1>9

\* The status cannot change between its test and the call of the action.
EnterIsWaiting == pc = "enter" => status[AtCursor] = "wait_for_execution"

\* The action is called, of a timer whose action has not been.
LEMMA CallActionCalls ==
  ASSUME EngineInv, ThreadSafe \/ EnterIsWaiting, CallAction
  PROVE  \E t \in Timers : Service!Call(t)
<1>0. /\ EngineTypeOK /\ ExecHoldsWaiting /\ RunsOnce
      /\ cursor \in 1..Len(exec) /\ pc = "enter"
  BY DEF EngineInv, CursorInRange, CallAction
<1>1. PICK t \in Timers : t = AtCursor /\ t \in ToSet(exec)
  BY <1>0, ExecElements DEF AtCursor
<1>2. Waiting(t)
  BY <1>0, <1>1 DEF ExecHoldsWaiting
<1>3. t \notin ran
  <2>1. cursor >= cursor
    BY <1>0
  <2> QED
    BY <1>0, <1>1, <2>1 DEF RunsOnce, AtCursor
<1>4. ran' = ran \cup {t} /\ UNCHANGED <<tick, status, due, period>>
  BY <1>1 DEF CallAction, tickVars
<1>5. Phases[t] = "taken" /\ Phases' = [Phases EXCEPT ![t] = "called"]
  BY <1>2, <1>3, <1>4, TypesOfTimers DEF Phases, Waiting
<1>6. ThreadSafe \/ t \notin Cancelled
  BY <1>0, <1>1 DEF EnterIsWaiting, Cancelled
<1>7. IfKnown(due)' = IfKnown(due) /\ IfKnown(period)' = IfKnown(period)
  BY <1>4 DEF IfKnown
<1>8. Cancelled' = Cancelled
  BY <1>4 DEF Cancelled
<1> QED
  BY <1>4, <1>5, <1>6, <1>7, <1>8 DEF Service!Call, Cancelled

\* utilize_exec_list drops the others: they ran, or were deactivated.
LEMMA UtilizeOtherDrops ==
  ASSUME EngineInv, UtilizeOther
  PROVE  \E t \in Timers : Service!Drop(t)
<1>0. pc = "utilize"
  BY DEF UtilizeOther
<1>1. PICK t \in Timers : t = Head(exec)
  BY <1>0, HeadIsWaiting
<1>2. /\ Waiting(t) /\ (status[t] = "wait_for_execution" => t \in ran)
      /\ ~(status[t] = "wait_for_execution" /\ period[t] # 0)
      /\ status' = [status EXCEPT ![t] = "deactivated"]
      /\ ran' = ran \ {t}
      /\ due' = [x \in Timers |-> IF x \in {t} THEN 0 ELSE due[x]]
      /\ UNCHANGED <<tick, period>>
  BY <1>0, <1>1, HeadIsWaiting DEF UtilizeOther, MustBeRescheduled, Forgotten, tickVars
<1>3. status' = [x \in Timers |-> IF x \in {t} THEN "deactivated" ELSE status[x]]
  BY <1>2, TypesOfTimers
<1>4. PICK S \in SUBSET Timers : S = {t}
  OBVIOUS
<1>5. Service!SwitchOff(S)
  BY <1>2, <1>3, <1>4, SwitchesOff
<1>6. \/ Phases[t] = "called" /\ (t \in Cancelled \/ IfKnown(period)[t] = 0)
      \/ Phases[t] = "taken" /\ t \in Cancelled
  BY <1>2 DEF Phases, Cancelled, IfKnown, Waiting
<1> QED
  BY <1>4, <1>5, <1>6 DEF Service!Drop, Cancelled

-----------------------------------------------------------------------------
(***************************************************************************)
(* Timers that are taken on their tick, and not one or more rolls later:   *)
(* so it is if no duration is a number of whole rolls.  A timer that is    *)
(* put into the slot that is being processed, which happens only with such *)
(* a duration, waits for one roll too many.                                *)
(***************************************************************************)
NoWholeRolls ==
  /\ \A pause \in Pauses : DurationToTicks(pause) % WheelSize # 0
  /\ \A per \in Periods : per # 0 => PeriodInTicks(per) % WheelSize # 0

OnTime ==
  \A t \in Timers :
    /\ status[t] = "active" => due[t] = tick + TicksLeft(t)
    /\ Waiting(t) => due[t] = tick
    /\ period[t] # 0 => period[t] % WheelSize # 0

\* Only the timer t has another place, exactly as many ticks away as it should.
LEMMA OnTimeKept ==
  ASSUME OnTime, NEW t \in Timers, UNCHANGED <<current, tick>>, SlotDone' = SlotDone,
         \A x \in Timers : x # t => /\ status'[x] = status[x] /\ due'[x] = due[x]
                                    /\ position'[x] = position[x] /\ rolls'[x] = rolls[x]
                                    /\ period'[x] = period[x],
         status'[t] = "active" => due'[t] = tick + TicksLeft(t)',
         ~(Waiting(t)'),
         period'[t] # 0 => period'[t] % WheelSize # 0
  PROVE  OnTime'
<1>1. ASSUME NEW x \in Timers, x # t
      PROVE  TicksLeft(x)' = TicksLeft(x) /\ (Waiting(x)' <=> Waiting(x))
  BY <1>1 DEF TicksLeft, Distance, Waiting
<1> QED
  BY <1>1 DEF OnTime

\* Nothing is on its way at first.
LEMMA OnTimeInitially == EngineInit => OnTime
BY DEF EngineInit, OnTime, Waiting
\* A step that leaves the places of the timers and the position alone.
LEMMA OnTimeSame ==
  ASSUME OnTime, UNCHANGED <<current, tick, position, rolls, due, period>>,
         SlotDone' = SlotDone,
         \A x \in Timers : status'[x] = "active" => status[x] = "active",
         \A x \in Timers : Waiting(x)' => Waiting(x)
  PROVE  OnTime'
<1>1. \A x \in Timers : TicksLeft(x)' = TicksLeft(x)
  BY DEF TicksLeft, Distance
<1> QED
  BY <1>1 DEF OnTime

\* Every operation of a client, and the clock.
LEMMA ClientOnTime ==
  ASSUME EngineInv, OnTime, NoWholeRolls,
         \/ Tick /\ UNCHANGED engineVars
         \/ UNCHANGED engineVars
         \/ ClearAll
         \/ ClientCall
  PROVE  OnTime'
<1>0. /\ EngineTypeOK /\ WheelHoldsActive
      /\ status \in [Timers -> TimerStatus] /\ period \in [Timers -> Nat]
  BY DEF EngineInv, EngineTypeOK
<1>1. CASE UNCHANGED engineVars
  <2>1. UNCHANGED <<status, position, rolls, period, current, tick, due, pc>>
    BY <1>1 DEF engineVars, wheelVars, tickVars, callVars, askedVars
  <2>2. SlotDone' = SlotDone /\ \A x \in Timers : Waiting(x)' = Waiting(x)
    BY <2>1 DEF SlotDone, Waiting
  <2> QED
    BY <2>1, <2>2, OnTimeSame
<1>2. CASE ClearAll
  <2>1. /\ \A x \in Timers : status'[x] = IF InWheel(x) THEN "deactivated" ELSE status[x]
        /\ \A x \in Timers : ~InWheel(x) => due'[x] = due[x]
        /\ UNCHANGED <<tick, period>>
    BY <1>2 DEF ClearAll, Forgotten
  <2>2. \A x \in Timers : /\ status'[x] # "active"
                          /\ Waiting(x)' => Waiting(x) /\ due'[x] = due[x]
    BY <1>0, <2>1, InWheelIsActive DEF Waiting
  <2> QED
    BY <2>1, <2>2 DEF OnTime
<1>3. ASSUME NEW t \in Timers,
             Allocate(t) \/ Dismiss(t) \/ Release(t) \/ DeactivateWaiting(t)
      PROVE  OnTime'
  <2>1. CASE Allocate(t) \/ Dismiss(t)
    BY <1>1, <2>1 DEF Allocate, Dismiss
  <2>2. CASE Release(t)
    <3>1. /\ \A x \in Timers : x # t => status'[x] = status[x] /\ due'[x] = due[x]
          /\ status'[t] = "deactivated"
          /\ UNCHANGED <<position, rolls, period, current, tick, pc>>
      BY <1>0, <2>2 DEF Release, Forgotten, tickVars, callVars
    <3>2. SlotDone' = SlotDone /\ ~(Waiting(t)')
      BY <3>1 DEF SlotDone, Waiting
    <3>3. period[t] # 0 => period[t] % WheelSize # 0
      BY DEF OnTime
    <3> QED
      BY <3>1, <3>2, <3>3, OnTimeKept
  <2>3. CASE DeactivateWaiting(t)
    <3>1. /\ \A x \in Timers : x # t => status'[x] = status[x]
          /\ status[t] = "wait_for_execution" /\ status'[t] = "wait_for_deactivation"
          /\ UNCHANGED <<position, rolls, period, current, tick, pc, due>>
      BY <1>0, <2>3 DEF DeactivateWaiting, wheelVars, tickVars, callVars, askedVars
    <3>2. SlotDone' = SlotDone /\ \A x \in Timers : Waiting(x)' => Waiting(x)
      BY <3>1 DEF SlotDone, Waiting
    <3>3. \A x \in Timers : status'[x] = "active" => status[x] = "active"
      BY <3>1
    <3> QED
      BY <3>1, <3>2, <3>3, OnTimeSame
  <2> QED
    BY <1>3, <2>1, <2>2, <2>3
<1>4. ASSUME NEW t \in Timers, NEW pause \in Pauses, NEW per \in Periods,
             Activate(t, pause, per) \/ Reschedule(t, pause, per)
      PROVE  OnTime'
  <2>1. PICK ticks \in Nat : ticks = DurationToTicks(pause) /\ ticks % WheelSize # 0
    BY TicksType DEF NoWholeRolls
  <2>2. /\ status' = [status EXCEPT ![t] = "active"]
        /\ period' = [period EXCEPT ![t] = PeriodInTicks(per)]
        /\ UNCHANGED <<current, tick, pc>>
    BY <1>0, <1>4 DEF Activate, Reschedule, tickVars, callVars
  <2>3. PICK w \in [Slots -> Seq(Timers)], A \in SUBSET Timers :
          PutIntoWheel(w, t, ticks) /\ A = Active \ {t} /\ Holds(w, position, A)
    BY <1>0, <1>4, <2>1, SetPuts
  <2>4. /\ \A x \in Timers : x # t => /\ position'[x] = position[x]
                                      /\ rolls'[x] = rolls[x]
                                      /\ due'[x] = due[x]
        /\ due'[t] = tick + ticks
        /\ TicksLeft(t)' = ticks
    BY <1>0, <2>1, <2>2, <2>3, PutHolds
  <2>5. /\ \A x \in Timers : x # t => status'[x] = status[x] /\ period'[x] = period[x]
        /\ status'[t] = "active" /\ period'[t] = PeriodInTicks(per)
    BY <1>0, <2>2
  <2>6. SlotDone' = SlotDone /\ ~(Waiting(t)')
    BY <2>2, <2>5 DEF SlotDone, Waiting
  <2>7. period'[t] # 0 => period'[t] % WheelSize # 0
    BY <2>5 DEF NoWholeRolls, PeriodInTicks
  <2> QED
    BY <2>2, <2>4, <2>5, <2>6, <2>7, OnTimeKept
<1> QED
  BY <1>1, <1>2, <1>3, <1>4 DEF ClientCall

\* Every step of process_expired_timers.
LEMMA EngineStepOnTime ==
  ASSUME EngineInv, OnTime, EngineStep
  PROVE  OnTime'
<1>0. /\ EngineTypeOK /\ WheelHoldsActive
      /\ status \in [Timers -> TimerStatus] /\ period \in [Timers -> Nat]
  BY DEF EngineInv, EngineTypeOK
<1>1. CASE \/ BeginCall \/ SwitchToNextTick \/ EndCall
           \/ CheckPasses \/ CheckFails \/ CallAction \/ FinishAction \/ LockBack
  <2>1. /\ UNCHANGED <<status, position, rolls, period, current, tick, due>>
        /\ pc \in {"idle", "loop"} <=> pc' \in {"idle", "loop"}
    BY <1>1 DEF BeginCall, SwitchToNextTick, EndCall, CheckPasses, CheckFails, CallAction,
                FinishAction, LockBack, wheelVars, tickVars, callVars, askedVars
  <2>2. SlotDone' = SlotDone /\ \A x \in Timers : Waiting(x)' = Waiting(x)
    BY <2>1 DEF SlotDone, Waiting
  <2> QED
    BY <2>1, <2>2, OnTimeSame
<1>2. CASE MakeExecList
  <2>1. UNCHANGED <<tick, due, period>>
    BY <1>2 DEF MakeExecList, tickVars, askedVars
  <2>2. \A x \in Timers : tick \in Nat /\ due[x] \in Nat
    BY <1>0 DEF EngineTypeOK
  <2> SUFFICES ASSUME NEW x \in Timers
               PROVE  /\ status'[x] = "active" => due[x] = tick + TicksLeft(x)'
                      /\ Waiting(x)' => due[x] = tick
    BY <2>1 DEF OnTime
  <2>3. /\ status[x] = "active" => due[x] = tick + TicksLeft(x)
        /\ Waiting(x) => due[x] = tick
    BY DEF OnTime
  <2>4. CASE x \in TakenFrom(ToSet(wheel[current]))
    BY <1>2, <2>2, <2>3, <2>4, MakeExecListTicks
  <2>5. CASE x \notin TakenFrom(ToSet(wheel[current]))
    <3>1. /\ status'[x] = status[x]
          /\ status[x] = "active" => TicksLeft(x)' = TicksLeft(x)
      BY <1>2, <2>5, MakeExecListTicks
    <3> QED
      BY <2>3, <3>1 DEF Waiting
  <2> QED
    BY <2>4, <2>5
<1>3. CASE AdvancePosition
  <2>1. tick' = tick + 1 /\ UNCHANGED <<status, due, period>>
    BY <1>3 DEF AdvancePosition, askedVars
  <2>2. exec = <<>>
    BY <1>3 DEF EngineInv, CursorInRange, AdvancePosition
  <2>3. \A x \in Timers : ~Waiting(x)
    BY <2>2 DEF EngineInv, ExecHoldsWaiting, ToSet
  <2> SUFFICES ASSUME NEW x \in Timers, status[x] = "active"
               PROVE  due[x] = tick + 1 + TicksLeft(x)'
    BY <2>1, <2>3 DEF OnTime, Waiting
  <2>4. PICK m \in Nat : TicksLeft(x)' = m /\ TicksLeft(x) = 1 + m
    BY <1>0, <1>3, AdvanceTicks
  <2>5. due[x] = tick + (1 + m) /\ tick \in Nat
    BY <1>0, <2>4 DEF OnTime, EngineTypeOK
  <2> QED
    BY <2>4, <2>5
<1>4. CASE UtilizePeriodic
  <2>1. PICK t \in Timers : t = Head(exec) /\ Waiting(t)
    BY <1>4, HeadIsWaiting DEF UtilizePeriodic
  <2>2. /\ pc = "utilize" /\ period[t] # 0
        /\ status' = [status EXCEPT ![t] = "active"]
        /\ PutIntoWheel(wheel, t, period[t])
        /\ pc' \in {"utilize", "advance"}
        /\ UNCHANGED <<period, current, tick>>
    BY <1>4, <2>1 DEF UtilizePeriodic, MustBeRescheduled, LeaveTimer, tickVars
  <2>3. PICK w \in [Slots -> Seq(Timers)], A \in SUBSET Timers, ticks \in Nat :
          w = wheel /\ A = Active /\ ticks = period[t] /\ ticks % WheelSize # 0
    BY <1>0, <2>2 DEF EngineTypeOK, Active, OnTime
  <2>4. PutIntoWheel(w, t, ticks) /\ t \notin A /\ Holds(w, position, A)
    BY <1>0, <2>1, <2>2, <2>3, HoldsIsWheelHoldsActive DEF Active, Waiting
  <2>5. /\ \A x \in Timers : x # t => /\ position'[x] = position[x]
                                      /\ rolls'[x] = rolls[x]
                                      /\ due'[x] = due[x]
        /\ due'[t] = tick + ticks
        /\ TicksLeft(t)' = ticks
    BY <1>0, <2>2, <2>3, <2>4, PutHolds
  <2>6. /\ \A x \in Timers : x # t => status'[x] = status[x]
        /\ status'[t] = "active"
    BY <1>0, <2>2
  <2>7. SlotDone' = SlotDone /\ ~(Waiting(t)')
    BY <2>2, <2>6 DEF SlotDone, Waiting
  <2>8. period[t] # 0 => period[t] % WheelSize # 0
    BY DEF OnTime
  <2> QED
    BY <2>2, <2>5, <2>6, <2>7, <2>8, OnTimeKept
<1>5. CASE UtilizeOther
  <2>1. PICK t \in Timers : t = Head(exec) /\ Waiting(t)
    BY <1>5, HeadIsWaiting DEF UtilizeOther
  <2>2. /\ pc = "utilize" /\ pc' \in {"utilize", "advance"}
        /\ status' = [status EXCEPT ![t] = "deactivated"]
        /\ \A x \in Timers : x # t => due'[x] = due[x]
        /\ UNCHANGED <<position, rolls, period, current, tick>>
    BY <1>5, <2>1 DEF UtilizeOther, Forgotten, LeaveTimer, wheelVars, tickVars
  <2>3. /\ \A x \in Timers : x # t => status'[x] = status[x]
        /\ status'[t] = "deactivated"
    BY <1>0, <2>2
  <2>4. SlotDone' = SlotDone /\ ~(Waiting(t)')
    BY <2>2, <2>3 DEF SlotDone, Waiting
  <2>5. period[t] # 0 => period[t] % WheelSize # 0
    BY DEF OnTime
  <2> QED
    BY <2>2, <2>3, <2>4, <2>5, OnTimeKept
<1> QED
  BY <1>1, <1>2, <1>3, <1>4, <1>5 DEF EngineStep
\* utilize_exec_list puts a periodic timer back, one period later.
LEMMA UtilizePeriodicPutsBack ==
  ASSUME EngineInv, OnTime, UtilizePeriodic
  PROVE  \E t \in Timers : Service!PutBack(t)
<1>0. pc = "utilize"
  BY DEF UtilizePeriodic
<1>1. PICK t \in Timers : t = Head(exec)
  BY <1>0, HeadIsWaiting
<1>2. /\ status[t] = "wait_for_execution" /\ period[t] # 0 /\ t \in ran
      /\ due' = [due EXCEPT ![t] = tick + period[t]]
      /\ status' = [status EXCEPT ![t] = "active"]
      /\ ran' = ran \ {t}
      /\ UNCHANGED <<tick, period>>
  BY <1>0, <1>1, HeadIsWaiting
  DEF UtilizePeriodic, MustBeRescheduled, LeaveTimer, PutIntoWheel, tickVars
<1>3. due[t] = tick
  BY <1>2 DEF OnTime, Waiting
<1>4. Phases[t] = "called" /\ Phases' = [Phases EXCEPT ![t] = "set"]
  BY <1>2, TypesOfTimers DEF Phases
<1>5. IfKnown(due)' = [IfKnown(due) EXCEPT ![t] = @ + IfKnown(period)[t]]
  BY <1>2, <1>3, TypesOfTimers DEF IfKnown
<1>6. IfKnown(period)' = IfKnown(period) /\ IfKnown(period)[t] # 0
  BY <1>2, TypesOfTimers DEF IfKnown
<1>7. Cancelled' = Cancelled /\ t \notin Cancelled
  BY <1>2, TypesOfTimers DEF Cancelled
<1> QED
  BY <1>2, <1>4, <1>5, <1>6, <1>7 DEF Service!PutBack, Cancelled

\* Every step of process_expired_timers is a step of the service, or not seen.
LEMMA EngineStepServes ==
  ASSUME EngineInv, OnTime, ThreadSafe \/ EnterIsWaiting, EngineStep
  PROVE  [Service!Next]_(Service!vars)
<1>1. CASE \/ BeginCall \/ SwitchToNextTick \/ EndCall
           \/ CheckPasses \/ CheckFails \/ FinishAction \/ LockBack
  <2>1. UNCHANGED <<tick, status, due, period, ran>>
    BY <1>1 DEF BeginCall, SwitchToNextTick, EndCall, CheckPasses, CheckFails, FinishAction,
                LockBack, tickVars, askedVars
  <2> QED
    BY <2>1, NotSeen
<1>2. CASE AdvancePosition
  <2>1. tick' = tick + 1 /\ UNCHANGED <<status, due, period, ran>>
    BY <1>2 DEF AdvancePosition, askedVars
  <2>2. Service!TimePasses
    BY <2>1 DEF Service!TimePasses, Phases, IfKnown
  <2> QED
    BY <2>2 DEF Service!Next
<1>3. CASE MakeExecList
  BY <1>3, MakeExecListTakes DEF Service!Next
<1>4. CASE CallAction
  BY <1>4, CallActionCalls DEF Service!Next
<1>5. CASE UtilizePeriodic
  BY <1>5, UtilizePeriodicPutsBack DEF Service!Next
<1>6. CASE UtilizeOther
  BY <1>6, UtilizeOtherDrops DEF Service!Next
<1> QED
  BY <1>1, <1>2, <1>3, <1>4, <1>5, <1>6 DEF EngineStep

\* Every operation of a client is a step of the service, or not seen.
LEMMA ClientServes ==
  ASSUME EngineInv,
         \/ ClearAll
         \/ ClientCall
  PROVE  [Service!Next]_(Service!vars)
<1>1. CASE ClearAll
  BY <1>1, ClearAllCancels DEF Service!Next
<1>2. ASSUME NEW t \in Timers, Allocate(t) \/ Dismiss(t)
      PROVE  [Service!Next]_(Service!vars)
  <2>1. UNCHANGED <<tick, status, due, period, ran>>
    BY <1>2 DEF Allocate, Dismiss, engineVars, tickVars, askedVars
  <2> QED
    BY <2>1, NotSeen
<1>3. ASSUME NEW t \in Timers, Release(t) \/ DeactivateWaiting(t)
      PROVE  Service!Next
  BY <1>3, ReleaseCancels, DeactivateWaitingCancels DEF Service!Next
<1>4. ASSUME NEW t \in Timers, NEW pause \in Pauses, NEW per \in Periods,
             Activate(t, pause, per) \/ Reschedule(t, pause, per)
      PROVE  Service!Next
  <2>1. Service!Set(t, DurationToTicks(pause), PeriodInTicks(per))
    BY <1>4, ActivateSets
  <2> QED
    BY <2>1 DEF Service!Next
<1> QED
  BY <1>1, <1>2, <1>3, <1>4 DEF ClientCall
-----------------------------------------------------------------------------
(***************************************************************************)
(* How early, and how late, an action can be in the time of the clock.     *)
(***************************************************************************)
\* The rounding loses less than a tick, and adds no more than one.
LEMMA RoundingLoses ==
  ASSUME NEW d \in Nat
  PROVE  /\ d < DurationToTicks(d) * Granularity + Granularity
         /\ DurationToTicks(d) * Granularity <= d + Granularity
<1> DEFINE h == Granularity \div 2
           r == (d + h) \div Granularity
           m == (d + h) % Granularity
<1>1. Granularity \in Nat \ {0} /\ 2 \in Nat \ {0}
  BY WheelAssumption
<1>2. h \in Nat /\ h <= Granularity
  BY <1>1, Division
<1>3. d + h \in Nat
  BY <1>2
<1>4. m \in 0..(Granularity - 1) /\ r \in Nat /\ d + h = Granularity * r + m
  BY <1>1, <1>3, Division
<1>5. DurationToTicks(d) = IF r = 0 THEN 1 ELSE r
  BY DEF DurationToTicks
<1> HIDE DEF h, r, m
<1>6. CASE r = 0
  <2>1. Granularity * r = 0
    BY <1>1, <1>6
  <2>2. d < Granularity /\ DurationToTicks(d) = 1 /\ 1 * Granularity = Granularity
    BY <1>1, <1>2, <1>4, <1>5, <1>6, <2>1
  <2> QED
    BY <1>1, <2>2
<1>7. CASE r # 0
  <2>1. Granularity * r = r * Granularity /\ r * Granularity \in Nat
    BY <1>1, <1>4
  <2> QED
    BY <1>1, <1>2, <1>4, <1>5, <1>7, <2>1
<1> QED
  BY <1>6, <1>7

\* The time point at which the tick with the number k is over.
EndOfTick(k) == border + (k - tick + (IF processed THEN 1 ELSE 0)) * Granularity

\* A timer's tick begins no later than two ticks after its pause is over.  Of one that
\* was asked for in time the tick does not end much earlier either, and when the timer
\* is taken, its pause is nearly over.
NotLate(t) == EndOfTick(due[t]) <= notBefore[t] + 3 * Granularity

NotEarly(t) ==
  /\ status[t] = "active" => notBefore[t] < EndOfTick(due[t]) + Granularity
  /\ Waiting(t) => notBefore[t] < now + 2 * Granularity

InTime ==
  /\ SlotDone => ~processed
  /\ \A t \in Timers : notBefore[t] # 0 =>
       /\ status[t] = "active" => NotLate(t)
       /\ Remembered # "all" => NotEarly(t)

\* Nothing is asked for at first.
LEMMA InTimeInitially == EngineInit => InTime
BY DEF EngineInit, InTime, SlotDone

\* A step that leaves the ticks alone, and that expects nothing new of anyone.
LEMMA InTimeSame ==
  ASSUME EngineTypeOK, InTime, UNCHANGED <<border, tick, processed>>,
         SlotDone' => SlotDone,
         UNCHANGED now \/ now' = now + 1,
         \A x \in Timers : notBefore'[x] # 0 =>
           /\ notBefore'[x] = notBefore[x]
           /\ status'[x] = "active" => status[x] = "active" /\ due'[x] = due[x]
           /\ Waiting(x)' => Waiting(x)
  PROVE  InTime'
<1>1. PICK later \in Nat : later = now' /\ now <= later
  BY DEF EngineTypeOK, CommonTypeOK
<1>2. now \in Nat /\ Granularity \in Nat /\ notBefore \in [Timers -> Nat]
  BY WheelAssumption DEF EngineTypeOK, CommonTypeOK
<1> SUFFICES ASSUME NEW x \in Timers, notBefore'[x] # 0
             PROVE  /\ status'[x] = "active" => NotLate(x)'
                    /\ Remembered # "all" => NotEarly(x)'
  BY DEF InTime
<1>3. /\ notBefore'[x] = notBefore[x] /\ notBefore[x] # 0
      /\ status[x] = "active" => NotLate(x)
      /\ Remembered # "all" => NotEarly(x)
  BY DEF InTime
<1>4. notBefore[x] < now + 2 * Granularity => notBefore[x] < later + 2 * Granularity
  BY <1>1, <1>2
<1>5. status'[x] = "active" => NotLate(x)'
  BY <1>3 DEF NotLate, EndOfTick
<1>6. Remembered # "all" => NotEarly(x)'
  BY <1>1, <1>3, <1>4 DEF NotEarly, EndOfTick
<1> QED
  BY <1>5, <1>6

\* activate() and reschedule(): the border is no more than a tick ahead.
LEMMA SetInTime ==
  ASSUME EngineInv, InTime,
         NEW t \in Timers, NEW pause \in Pauses, NEW per \in Periods,
         Activate(t, pause, per) \/ Reschedule(t, pause, per)
  PROVE  InTime'
<1>0. /\ EngineTypeOK /\ now \in Nat /\ border \in Nat /\ tick \in Nat /\ processed \in BOOLEAN
      /\ due \in [Timers -> Nat] /\ notBefore \in [Timers -> Nat]
      /\ status \in [Timers -> TimerStatus] /\ Granularity \in Nat /\ pause \in Nat
  BY WheelAssumption, DurationsAssumption DEF EngineInv, EngineTypeOK, CommonTypeOK
<1>1. PICK ticks \in Nat : ticks = DurationToTicks(pause)
  BY TicksType
<1>2. /\ due' = [due EXCEPT ![t] = tick + ticks]
      /\ status' = [status EXCEPT ![t] = "active"]
      /\ Asked(t, pause)
      /\ UNCHANGED <<now, border, tick, processed, pc>>
  <2>1. CASE Activate(t, pause, per)
    BY <1>1, <2>1 DEF Activate, PutIntoWheel, tickVars, callVars
  <2>2. CASE Reschedule(t, pause, per)
    <3>1. PICK rest \in RemovedFromWheel(t) : PutIntoWheel(rest, t, DurationToTicks(pause))
      BY <2>2 DEF Reschedule
    <3>2. due' = [due EXCEPT ![t] = tick + ticks]
      BY <1>1, <3>1 DEF PutIntoWheel
    <3>3. status' = [status EXCEPT ![t] = "active"] /\ UNCHANGED <<now, border, tick, processed, pc>>
      <4>1. status[t] = "active" /\ UNCHANGED <<now, status, tickVars, callVars>>
        BY <2>2 DEF Reschedule
      <4> QED
        BY <1>0, <4>1 DEF tickVars, callVars
    <3>4. Asked(t, pause)
      BY <2>2 DEF Reschedule
    <3> QED
      BY <3>2, <3>3, <3>4
  <2> QED
    BY <2>1, <2>2
<1>3. \A x \in Timers : x # t =>
        /\ notBefore'[x] = notBefore[x] /\ due'[x] = due[x] /\ status'[x] = status[x]
  BY <1>0, <1>2 DEF Asked
<1>4. status'[t] = "active" /\ due'[t] = tick + ticks
  BY <1>0, <1>2
<1>5. notBefore'[t] # 0 =>
        notBefore'[t] = now + pause /\ (Remembered # "all" => now < border)
  BY <1>0, <1>2, WheelAssumption DEF Asked
<1>6. /\ now < border => now + pause < EndOfTick(tick + ticks) + Granularity
      /\ EndOfTick(tick + ticks) <= now + pause + 3 * Granularity
  <2>1. /\ pause < ticks * Granularity + Granularity /\ ticks * Granularity \in Nat
        /\ ticks * Granularity <= pause + Granularity
    BY <1>0, <1>1, RoundingLoses
  <2>2. \/ EndOfTick(tick + ticks) = border + ticks * Granularity
        \/ EndOfTick(tick + ticks) = border + ticks * Granularity + Granularity
    <3>1. tick + ticks - tick + 0 = ticks /\ tick + ticks - tick + 1 = ticks + 1
      BY <1>0
    <3>2. (ticks + 1) * Granularity = ticks * Granularity + Granularity
      BY <1>0, OneMoreRoll
    <3> QED
      BY <1>0, <2>1, <3>1, <3>2 DEF EndOfTick
  <2>3. border <= now + Granularity
    BY DEF EngineInv, BorderNear
  <2> QED
    BY <1>0, <2>1, <2>2, <2>3
<1>7. EndOfTick(tick + ticks)' = EndOfTick(tick + ticks) /\ SlotDone' = SlotDone
  BY <1>2 DEF EndOfTick, SlotDone
<1>8. \A x \in Timers : x # t =>
        EndOfTick(due[x])' = EndOfTick(due'[x]) /\ EndOfTick(due[x])' = EndOfTick(due[x])
  BY <1>2, <1>3 DEF EndOfTick
<1>9. ASSUME NEW x \in Timers, notBefore'[x] # 0
      PROVE  /\ status'[x] = "active" => NotLate(x)'
             /\ Remembered # "all" => NotEarly(x)'
  <2>1. CASE x = t
    <3>1. EndOfTick(due[x])' = EndOfTick(tick + ticks)
      BY <1>2, <1>4, <2>1 DEF EndOfTick
    <3>2. /\ notBefore'[x] = now + pause /\ (Remembered # "all" => now < border)
          /\ status'[x] = "active"
      BY <1>4, <1>5, <1>9, <2>1
    <3>3. NotLate(x)'
      BY <1>6, <3>1, <3>2 DEF NotLate
    <3>4. Remembered # "all" => NotEarly(x)'
      BY <1>6, <3>1, <3>2 DEF NotEarly, Waiting
    <3> QED
      BY <3>3, <3>4
  <2>2. CASE x # t
    <3>1. /\ notBefore'[x] = notBefore[x] /\ due'[x] = due[x] /\ status'[x] = status[x]
          /\ EndOfTick(due[x])' = EndOfTick(due[x])
      BY <1>3, <1>8, <2>2
    <3>2. /\ status[x] = "active" => NotLate(x)
          /\ Remembered # "all" => NotEarly(x)
      BY <1>9, <3>1 DEF InTime
    <3>3. status'[x] = "active" => NotLate(x)'
      BY <3>1, <3>2 DEF NotLate
    <3>4. Remembered # "all" => NotEarly(x)'
      BY <1>2, <3>1, <3>2 DEF NotEarly, Waiting
    <3> QED
      BY <3>3, <3>4
  <2> QED
    BY <2>1, <2>2
<1> QED
  BY <1>2, <1>7, <1>9 DEF InTime

\* Every operation of a client, and the clock.
LEMMA ClientInTime ==
  ASSUME EngineInv, InTime,
         \/ Tick /\ UNCHANGED engineVars
         \/ UNCHANGED <<now, engineVars>>
         \/ ClearAll
         \/ ClientCall
  PROVE  InTime'
<1>0. EngineTypeOK /\ status \in [Timers -> TimerStatus] /\ notBefore \in [Timers -> Nat]
  BY DEF EngineInv, EngineTypeOK
<1>1. CASE (Tick \/ UNCHANGED now) /\ UNCHANGED engineVars
  <2>1. /\ UNCHANGED <<border, tick, processed, pc, notBefore, status, due>>
        /\ UNCHANGED now \/ now' = now + 1
    BY <1>1 DEF Tick, engineVars, tickVars, callVars, askedVars
  <2>2. SlotDone' = SlotDone /\ \A x \in Timers : Waiting(x)' = Waiting(x)
    BY <2>1 DEF SlotDone, Waiting
  <2> QED
    BY <1>0, <2>1, <2>2, InTimeSame
<1>2. CASE ClearAll
  <2>1. /\ \A x \in Timers : status'[x] = IF InWheel(x) THEN "deactivated" ELSE status[x]
        /\ \A x \in Timers : notBefore'[x] # 0 => notBefore'[x] = notBefore[x]
        /\ UNCHANGED <<now, processed, pc>>
    BY <1>2 DEF ClearAll, Forgotten, callVars
  <2>2. \A x \in Timers : status'[x] # "active" /\ (Waiting(x)' => Waiting(x))
    BY <1>0, <2>1, InWheelIsActive DEF EngineInv, Waiting
  <2> QED
    BY <2>1, <2>2 DEF InTime, NotEarly, SlotDone
<1>3. ASSUME NEW t \in Timers, Allocate(t) \/ Dismiss(t) \/ Release(t) \/ DeactivateWaiting(t)
      PROVE  InTime'
  <2>1. CASE Allocate(t) \/ Dismiss(t)
    BY <1>1, <2>1 DEF Allocate, AllocateObject, Dismiss, DismissObject
  <2>2. CASE Release(t)
    <3>1. /\ \A x \in Timers : notBefore'[x] # 0 =>
               x # t /\ notBefore'[x] = notBefore[x] /\ due'[x] = due[x]
          /\ \A x \in Timers : x # t => status'[x] = status[x]
          /\ UNCHANGED <<now, border, tick, processed, pc>>
      BY <1>0, <2>2 DEF Release, Forgotten, tickVars, callVars
    <3>2. SlotDone' = SlotDone /\ \A x \in Timers : x # t => Waiting(x)' = Waiting(x)
      BY <3>1 DEF SlotDone, Waiting
    <3> QED
      BY <1>0, <3>1, <3>2, InTimeSame
  <2>3. CASE DeactivateWaiting(t)
    <3>1. /\ \A x \in Timers : x # t => status'[x] = status[x]
          /\ status[t] = "wait_for_execution" /\ status'[t] = "wait_for_deactivation"
          /\ UNCHANGED <<now, border, tick, processed, pc, notBefore, due>>
      BY <1>0, <2>3 DEF DeactivateWaiting, commonVars, tickVars, callVars, askedVars
    <3>2. SlotDone' = SlotDone /\ \A x \in Timers : Waiting(x)' => Waiting(x)
      BY <3>1 DEF SlotDone, Waiting
    <3>3. \A x \in Timers : status'[x] = "active" => status[x] = "active"
      BY <3>1
    <3> QED
      BY <1>0, <3>1, <3>2, <3>3, InTimeSame
  <2> QED
    BY <1>3, <2>1, <2>2, <2>3
<1> QED
  BY <1>1, <1>2, <1>3, SetInTime DEF ClientCall

\* Every step of process_expired_timers.
LEMMA EngineStepInTime ==
  ASSUME EngineInv, InTime, EngineStep
  PROVE  InTime'
<1>0. /\ EngineTypeOK /\ now \in Nat /\ border \in Nat /\ tick \in Nat /\ processed \in BOOLEAN
      /\ due \in [Timers -> Nat] /\ notBefore \in [Timers -> Nat]
      /\ status \in [Timers -> TimerStatus] /\ Granularity \in Nat
  BY WheelAssumption DEF EngineInv, EngineTypeOK, CommonTypeOK
<1>1. CASE BeginCall \/ EndCall \/ CheckPasses \/ CheckFails \/ FinishAction \/ LockBack
  <2>1. /\ UNCHANGED <<now, border, tick, processed, status, due, notBefore>>
        /\ pc' \notin {"idle", "loop"} => pc \notin {"idle", "loop"}
    BY <1>1 DEF BeginCall, EndCall, CheckPasses, CheckFails, FinishAction, LockBack, commonVars,
                tickVars, askedVars
  <2>2. (SlotDone' => SlotDone) /\ \A x \in Timers : Waiting(x)' = Waiting(x)
    BY <2>1 DEF SlotDone, Waiting
  <2> QED
    BY <1>0, <2>1, <2>2, InTimeSame
<1>2. CASE CallAction
  <2>1. /\ UNCHANGED <<now, border, tick, processed, status, due>>
        /\ pc = "enter"
        /\ \A x \in Timers : notBefore'[x] # 0 => notBefore'[x] = notBefore[x]
    BY <1>0, <1>2 DEF CallAction, commonVars, tickVars
  <2>2. SlotDone /\ \A x \in Timers : Waiting(x)' = Waiting(x)
    BY <2>1 DEF SlotDone, Waiting
  <2> QED
    BY <1>0, <2>1, <2>2, InTimeSame
<1>3. CASE UtilizePeriodic \/ UtilizeOther
  <2>1. PICK t \in Timers : t = Head(exec)
    BY <1>3, HeadIsWaiting DEF UtilizePeriodic, UtilizeOther
  <2>2. /\ \A x \in Timers : notBefore'[x] # 0 =>
             x # t /\ notBefore'[x] = notBefore[x] /\ due'[x] = due[x]
        /\ \A x \in Timers : x # t => status'[x] = status[x]
        /\ pc = "utilize"
        /\ UNCHANGED <<now, border, tick, processed>>
    BY <1>0, <1>3, <2>1 DEF UtilizePeriodic, UtilizeOther, PutIntoWheel, Forgotten, commonVars,
                            tickVars
  <2>3. SlotDone /\ \A x \in Timers : x # t => Waiting(x)' = Waiting(x)
    BY <2>2 DEF SlotDone, Waiting
  <2> QED
    BY <1>0, <2>2, <2>3, InTimeSame
<1>4. CASE MakeExecList
  <2>1. ~processed /\ UNCHANGED <<now, border, tick, processed, due, notBefore>>
    BY <1>4 DEF MakeExecList, commonVars, tickVars, askedVars
  <2>2. \A x \in Timers : EndOfTick(due[x])' = EndOfTick(due[x])
    BY <2>1 DEF EndOfTick
  <2>3. ASSUME NEW x \in Timers, notBefore[x] # 0, x \in TakenFrom(ToSet(wheel[current])),
               Remembered # "all"
        PROVE  notBefore[x] < now + 2 * Granularity
    <3>1. due[x] <= tick /\ status[x] = "active"
      <4>1. TicksLeft(x) = 0 /\ status[x] = "active"
        BY <1>4, <2>3, MakeExecListTicks
      <4>2. due[x] <= tick + TicksLeft(x)
        BY <4>1 DEF EngineInv, NeverEarly
      <4> QED
        BY <1>0, <4>1, <4>2
    <3>2. PICK d \in Nat : d = tick - due[x]
      BY <1>0, <3>1
    <3>3. d * Granularity \in Nat
      BY <1>0
    <3>4. (due[x] - tick + 0) * Granularity = -(d * Granularity)
      <4>1. due[x] - tick + 0 = -d
        BY <1>0, <3>2
      <4>2. (-d) * Granularity = -(d * Granularity)
        BY <1>0
      <4> QED
        BY <4>1, <4>2
    <3>5. notBefore[x] < EndOfTick(due[x]) + Granularity
      BY <2>3, <3>1 DEF InTime, NotEarly
    <3>6. EndOfTick(due[x]) = border + -(d * Granularity)
      BY <2>1, <3>4 DEF EndOfTick
    <3>7. border <= now + Granularity
      BY DEF EngineInv, BorderNear
    <3> QED
      BY <1>0, <3>3, <3>5, <3>6, <3>7
  <2>4. ASSUME NEW x \in Timers
        PROVE  \/ x \in TakenFrom(ToSet(wheel[current])) /\ status'[x] = "wait_for_execution"
               \/ status'[x] = status[x]
    BY <1>4, MakeExecListTicks
  <2>5. ASSUME NEW x \in Timers, notBefore[x] # 0
        PROVE  /\ status'[x] = "active" => NotLate(x)'
               /\ Remembered # "all" => NotEarly(x)'
    <3>1. /\ status[x] = "active" => NotLate(x)
          /\ Remembered # "all" => NotEarly(x)
      BY <2>5 DEF InTime
    <3>2. status'[x] = "active" => status[x] = "active"
      BY <2>4
    <3> QED
      BY <2>1, <2>2, <2>3, <2>4, <2>5, <3>1, <3>2 DEF NotLate, NotEarly, Waiting
  <2> QED
    BY <2>1, <2>5 DEF InTime
<1>5. CASE AdvancePosition
  <2>1. /\ pc = "advance" /\ pc' = "loop"
        /\ tick' = tick + 1 /\ processed' = TRUE
        /\ UNCHANGED <<now, border, status, due, notBefore>>
    BY <1>5 DEF AdvancePosition, commonVars, askedVars
  <2>2. ~processed
    BY <2>1 DEF InTime, SlotDone
  <2>3. \A x \in Timers : EndOfTick(due[x])' = EndOfTick(due[x])
    <3> SUFFICES ASSUME NEW x \in Timers
                 PROVE  border + (due[x] - (tick + 1) + 1) * Granularity
                          = border + (due[x] - tick + 0) * Granularity
      BY <2>1, <2>2 DEF EndOfTick
    <3>1. due[x] - (tick + 1) + 1 = due[x] - tick + 0
      BY <1>0
    <3> QED
      BY <3>1
  <2>4. \A x \in Timers : Waiting(x)' = Waiting(x)
    BY <2>1 DEF Waiting
  <2> QED
    BY <2>1, <2>3, <2>4 DEF InTime, NotLate, NotEarly, SlotDone
<1>6. CASE SwitchToNextTick
  <2>1. /\ processed /\ processed' = FALSE /\ border' = border + Granularity
        /\ UNCHANGED <<now, tick, pc, status, due, notBefore>>
        /\ pc = "loop"
    BY <1>6 DEF SwitchToNextTick, commonVars, callVars, askedVars
  <2>3. \A x \in Timers : EndOfTick(due[x])' = EndOfTick(due[x])
    <3> SUFFICES ASSUME NEW x \in Timers
                 PROVE  border + Granularity + (due[x] - tick + 0) * Granularity
                          = border + (due[x] - tick + 1) * Granularity
      BY <2>1 DEF EndOfTick
    <3>1. PICK k \in Int : k = due[x] - tick
      BY <1>0
    <3>2. (k + 1) * Granularity = k * Granularity + Granularity /\ k * Granularity \in Int
      BY <1>0
    <3>3. k + 0 = k
      OBVIOUS
    <3> QED
      BY <1>0, <3>1, <3>2, <3>3
  <2>4. \A x \in Timers : Waiting(x)' = Waiting(x)
    BY <2>1 DEF Waiting
  <2> QED
    BY <2>1, <2>3, <2>4 DEF InTime, NotLate, NotEarly, SlotDone
<1> QED
  BY <1>1, <1>2, <1>3, <1>4, <1>5, <1>6 DEF EngineStep

\* The timer whose action is called has waited long enough.
LEMMA CalledInTime ==
  ASSUME EngineInv, InTime, Remembered # "all", CallAction
  PROVE  now + 2 * Granularity > notBefore[AtCursor]
<1>0. /\ EngineTypeOK /\ ExecHoldsWaiting /\ cursor \in 1..Len(exec)
      /\ now \in Nat /\ notBefore \in [Timers -> Nat] /\ Granularity \in Nat \ {0}
  BY WheelAssumption DEF EngineInv, EngineTypeOK, CommonTypeOK, CursorInRange, CallAction
<1>1. PICK t \in Timers : t = AtCursor /\ t \in ToSet(exec)
  BY <1>0, ExecElements DEF AtCursor
<1>2. Waiting(t)
  BY <1>0, <1>1 DEF ExecHoldsWaiting
<1>3. notBefore[t] # 0 => notBefore[t] < now + 2 * Granularity
  BY <1>2 DEF InTime, NotEarly
<1>4. 0 < now + 2 * Granularity
  BY <1>0
<1> QED
  BY <1>0, <1>1, <1>3, <1>4

-----------------------------------------------------------------------------
\* What a step of the manager does to the engine.
LEMMA ManagerSteps ==
  ASSUME [ManagerNext]_managerVars
  PROVE  \/ Tick /\ UNCHANGED <<refs, held, quantities, engineVars>>
         \/ UNCHANGED managerVars
         \/ Reset
         \/ ClientCall
         \/ EngineStep
BY DEF ManagerNext, ClockAdvances, ManagerCalls, ProcessStep, ClientCall, EngineStep, RescheduleThrows,
       Deactivate, DeactivateActive

\* The invariant is inductive.
LEMMA InvariantStep == EngineInv /\ [ManagerNext]_managerVars => EngineInv'
<1> SUFFICES ASSUME EngineInv, [ManagerNext]_managerVars PROVE EngineInv'
  OBVIOUS
<1>1. CASE \/ Tick /\ UNCHANGED <<refs, held, quantities, engineVars>>
           \/ UNCHANGED managerVars
  BY <1>1, TickPreserves DEF managerVars, commonVars
<1>2. CASE Reset
  BY <1>2, ClearAllPreserves DEF Reset
<1>3. CASE ClientCall \/ EngineStep
  BY <1>3, ClientCallPreserves, EngineStepPreserves
<1> QED
  BY <1>1, <1>2, <1>3, ManagerSteps

(***************************************************************************)
(* Every reachable state of the manager satisfies the invariant: the wheel *)
(* holds each active timer once, in its slot, reference counts are exact,  *)
(* actions run once per pass, and never before their tick.                 *)
(***************************************************************************)
THEOREM Invariant == ManagerSpec => []EngineInv
<1>1. ManagerInit => EngineInv
  BY EngineInitially DEF ManagerInit
<1> QED
  BY <1>1, InvariantStep, PTL DEF ManagerSpec

\* Type correctness.
THEOREM TypeCorrect == ManagerSpec => []EngineTypeOK
<1>1. EngineInv => EngineTypeOK
  BY DEF EngineInv
<1> QED
  BY <1>1, Invariant, PTL

\* The counters stay exact, but for a reset() while timers are processed.
THEOREM CountsAreKept == ManagerSpec => CountsKept
<1>1. EngineInv /\ [ManagerNext]_managerVars =>
        (QuantitiesExact /\ (Reset => pc = "idle") => QuantitiesExact')
  <2> SUFFICES ASSUME EngineInv, [ManagerNext]_managerVars, QuantitiesExact, Reset => pc = "idle"
               PROVE  QuantitiesExact'
    OBVIOUS
  <2>1. CASE \/ Tick /\ UNCHANGED <<refs, held, quantities, engineVars>>
             \/ UNCHANGED managerVars
    <3>1. UNCHANGED <<quantities, status, period>>
      BY <2>1 DEF managerVars, commonVars, engineVars
    <3> QED
      BY <3>1, ExactIsQuantitiesExact, ExactIsQuantitiesExactNext
  <2>2. CASE Reset
    BY <2>2, CountsCleared DEF Reset, EngineInv, CursorInRange
  <2>3. CASE ClientCall
    BY <2>3, ClientKeepsCounts DEF ClientCall
  <2>4. CASE EngineStep
    BY <2>4, EngineStepKeepsCounts
  <2> QED
    BY <2>1, <2>2, <2>3, <2>4, ManagerSteps
<1> QED
  BY <1>1, Invariant, PTL DEF ManagerSpec, CountsKept

-----------------------------------------------------------------------------
\* Timers that are not whole rolls away stay on time.
LEMMA StaysOnTime ==
  ASSUME NoWholeRolls
  PROVE  ManagerSpec => []OnTime
<1>1. ManagerInit => OnTime
  BY OnTimeInitially DEF ManagerInit
<1>2. EngineInv /\ OnTime /\ [ManagerNext]_managerVars => OnTime'
  <2> SUFFICES ASSUME EngineInv, OnTime, [ManagerNext]_managerVars PROVE OnTime'
    OBVIOUS
  <2>1. CASE \/ Tick /\ UNCHANGED <<refs, held, quantities, engineVars>>
             \/ UNCHANGED managerVars
    BY <2>1, ClientOnTime DEF managerVars
  <2>2. CASE Reset \/ ClientCall
    BY <2>2, ClientOnTime DEF Reset
  <2>3. CASE EngineStep
    BY <2>3, EngineStepOnTime
  <2> QED
    BY <2>1, <2>2, <2>3, ManagerSteps
<1> QED
  BY <1>1, <1>2, Invariant, PTL DEF ManagerSpec

(***************************************************************************)
(* If no pause and no period is a whole number of rolls, every timer is    *)
(* taken on its tick: neither early nor late.  With a whole number of      *)
(* rolls it is a roll late: the run wheel_manager_full_roll.               *)
(***************************************************************************)
THEOREM OnItsTick ==
  ASSUME NoWholeRolls
  PROVE  ManagerSpec => TakenOnItsTick
<1> DEFINE A == \A t \in Timers :
                  status[t] = "active" /\ status'[t] = "wait_for_execution" => tick = due[t]
<1>1. EngineInv /\ OnTime /\ OnTime' /\ [ManagerNext]_managerVars => [A]_managerVars
  <2> SUFFICES ASSUME EngineInv, OnTime, OnTime', [ManagerNext]_managerVars, NEW t \in Timers,
                      status[t] = "active", status'[t] = "wait_for_execution"
               PROVE  tick = due[t]
    OBVIOUS
  <2>1. /\ status \in [Timers -> TimerStatus] /\ EngineTypeOK
    BY DEF EngineInv, EngineTypeOK
  <2>2. MakeExecList
    <3>1. CASE \/ Tick /\ UNCHANGED <<refs, held, quantities, engineVars>>
               \/ UNCHANGED managerVars
      BY <3>1 DEF managerVars, engineVars
    <3>2. CASE Reset
      BY <3>2 DEF Reset, ClearAll
    <3>3. CASE ClientCall
      BY <2>1, <3>3 DEF ClientCall, Allocate, Dismiss, Release, DeactivateWaiting, Activate,
                        Reschedule, engineVars
    <3>4. CASE EngineStep
      BY <2>1, <3>4 DEF EngineStep, BeginCall, SwitchToNextTick, EndCall, CheckPasses,
        CheckFails, CallAction, FinishAction, LockBack, AdvancePosition, UtilizePeriodic,
        UtilizeOther
    <3> QED
      BY <3>1, <3>2, <3>3, <3>4, ManagerSteps
  <2>3. UNCHANGED <<tick, due>>
    BY <2>2 DEF MakeExecList, tickVars, askedVars
  <2>4. due'[t] = tick'
    BY DEF OnTime, Waiting
  <2> QED
    BY <2>3, <2>4
<1> QED
  BY <1>1, Invariant, StaysOnTime, PTL DEF ManagerSpec, TakenOnItsTick

\* In a thread-unsafe manager nobody comes between the test and the call.
LEMMA EnterStaysWaiting ==
  ASSUME ~ThreadSafe
  PROVE  ManagerSpec => []EnterIsWaiting
<1>1. ManagerInit => EnterIsWaiting
  BY DEF ManagerInit, EngineInit, EnterIsWaiting
<1>2. EnterIsWaiting /\ [ManagerNext]_managerVars => EnterIsWaiting'
  <2> SUFFICES ASSUME EnterIsWaiting, [ManagerNext]_managerVars, pc' = "enter"
               PROVE  status'[AtCursor'] = "wait_for_execution"
    BY DEF EnterIsWaiting
  <2>1. CASE ClockAdvances \/ UNCHANGED managerVars
    BY <2>1 DEF ClockAdvances, managerVars, engineVars, callVars, EnterIsWaiting, AtCursor
  <2>2. CASE Reset \/ ManagerCalls
    <3>1. \/ UNCHANGED <<status, pc, exec, cursor>>
          \/ MayCall /\ UNCHANGED pc
      <4>1. CASE Reset
        BY <4>1 DEF Reset, ClearAll, callVars
      <4>2. CASE ManagerCalls
        <5>1. PICK t \in Timers :
                 \/ Allocate(t) \/ Dismiss(t)
                 \/ MayCall /\ (RescheduleThrows(t) \/ Deactivate(t))
                 \/ \E pause \in Pauses, per \in Periods :
                      MayCall /\ (Activate(t, pause, per) \/ Reschedule(t, pause, per))
          BY <4>2 DEF ManagerCalls
        <5>2. CASE Allocate(t) \/ Dismiss(t)
          BY <5>2 DEF Allocate, Dismiss, engineVars, callVars
        <5>3. CASE MayCall /\ (RescheduleThrows(t) \/ Deactivate(t))
          BY <5>3 DEF RescheduleThrows, Deactivate, DeactivateActive, DeactivateWaiting,
                      Release, callVars
        <5>4. CASE \E pause \in Pauses, per \in Periods :
                     MayCall /\ (Activate(t, pause, per) \/ Reschedule(t, pause, per))
          BY <5>4 DEF Activate, Reschedule, callVars
        <5> QED
          BY <5>1, <5>2, <5>3, <5>4
      <4> QED
        BY <2>2, <4>1, <4>2
    <3> QED
      BY <3>1 DEF MayCall, EnterIsWaiting, AtCursor
  <2>3. CASE ProcessStep
    <3>1. CheckPasses
      BY <2>3 DEF ProcessStep, BeginCall, MakeExecList, CheckFails, CallAction, FinishAction,
                  LockBack, UtilizePeriodic, UtilizeOther, LeaveTimer, AdvancePosition,
                  SwitchToNextTick, EndCall, callVars
    <3> QED
      BY <3>1 DEF CheckPasses, AtCursor
  <2> QED
    BY <2>1, <2>2, <2>3 DEF ManagerNext
<1> QED
  BY <1>1, <1>2, PTL DEF ManagerSpec

\* Every step of the manager is a step of the service, or not seen.
LEMMA StepServes ==
  ASSUME EngineInv, OnTime, ThreadSafe \/ EnterIsWaiting, [ManagerNext]_managerVars
  PROVE  [Service!Next]_(Service!vars)
<1>1. CASE \/ Tick /\ UNCHANGED <<refs, held, quantities, engineVars>>
           \/ UNCHANGED managerVars
  <2>1. UNCHANGED <<tick, status, due, period, ran>>
    BY <1>1 DEF managerVars, engineVars, tickVars, askedVars
  <2> QED
    BY <2>1, NotSeen
<1>2. CASE Reset \/ ClientCall
  BY <1>2, ClientServes DEF Reset
<1>3. CASE EngineStep
  BY <1>3, EngineStepServes
<1> QED
  BY <1>1, <1>2, <1>3, ManagerSteps

(***************************************************************************)
(* If no pause and no period is a whole number of rolls, the wheel keeps   *)
(* the promise of TimerService, in both thread-safety modes.               *)
(***************************************************************************)
THEOREM Implements ==
  ASSUME NoWholeRolls
  PROVE  ManagerSpec => Promise
<1>1. ManagerInit => Service!Init
  BY ServiceInitially DEF ManagerInit
<1>2. EngineInv /\ OnTime /\ (ThreadSafe \/ EnterIsWaiting) /\ [ManagerNext]_managerVars
        => [Service!Next]_(Service!vars)
  BY StepServes
<1>3. ManagerSpec => []OnTime
  BY StaysOnTime
<1>4. CASE ThreadSafe
  <2>1. EngineInv /\ OnTime /\ [ManagerNext]_managerVars => [Service!Next]_(Service!vars)
    BY <1>2, <1>4
  <2> QED
    BY <1>1, <1>3, <2>1, Invariant, PTL DEF ManagerSpec, Promise, Service!Spec
<1>5. CASE ~ThreadSafe
  <2>1. ManagerSpec => []EnterIsWaiting
    BY <1>5, EnterStaysWaiting
  <2> QED
    BY <1>1, <1>2, <1>3, <2>1, Invariant, PTL DEF ManagerSpec, Promise, Service!Spec
<1> QED
  BY <1>4, <1>5
-----------------------------------------------------------------------------
\* What is known of the pauses and the ticks is kept.
LEMMA InTimeStep ==
  ASSUME EngineInv, InTime, [ManagerNext]_managerVars
  PROVE  InTime'
<1>1. CASE \/ Tick /\ UNCHANGED <<refs, held, quantities, engineVars>>
           \/ UNCHANGED managerVars
  <2>1. \/ Tick /\ UNCHANGED engineVars
        \/ UNCHANGED <<now, engineVars>>
    BY <1>1 DEF managerVars, commonVars
  <2> QED
    BY <2>1, ClientInTime
<1>2. CASE Reset \/ ClientCall
  BY <1>2, ClientInTime DEF Reset
<1>3. CASE EngineStep
  BY <1>3, EngineStepInTime
<1> QED
  BY <1>1, <1>2, <1>3, ManagerSteps

LEMMA StaysInTime == ManagerSpec => []InTime
<1>1. ManagerInit => InTime
  BY InTimeInitially DEF ManagerInit
<1>2. EngineInv /\ InTime /\ [ManagerNext]_managerVars => InTime'
  BY InTimeStep
<1> QED
  BY <1>1, <1>2, Invariant, PTL DEF ManagerSpec

(***************************************************************************)
(* An action is called less than two ticks before the pause asked for has  *)
(* passed, if it was asked for before the tick the wheel stands for was    *)
(* over.  Of the others this is not so: the run wheel_thread_lag.          *)
(***************************************************************************)
THEOREM PausesAreKept ==
  ASSUME Remembered # "all"
  PROVE  ManagerSpec => NeverBeforePause
<1> DEFINE A == pc = "enter" /\ pc' = "run" => now + 2 * Granularity > notBefore[AtCursor]
<1>1. EngineInv /\ InTime /\ [ManagerNext]_managerVars => [A]_managerVars
  <2> SUFFICES ASSUME EngineInv, InTime, ManagerNext, pc = "enter", pc' = "run"
               PROVE  now + 2 * Granularity > notBefore[AtCursor]
    OBVIOUS
  <2>1. CallAction
    BY DEF ManagerNext, ClockAdvances, Reset, ClearAll, ManagerCalls, Allocate, Dismiss, Deactivate,
           DeactivateActive, DeactivateWaiting, RescheduleThrows, Release, Activate, Reschedule,
           ProcessStep, BeginCall, MakeExecList, CheckPasses, CheckFails, EndCall, FinishAction,
           LockBack, UtilizePeriodic, UtilizeOther, AdvancePosition, SwitchToNextTick,
           engineVars, callVars
  <2> QED
    BY <2>1, CalledInTime
<1> QED
  BY <1>1, StaysInTime, Invariant, PTL DEF ManagerSpec, NeverBeforePause

\* The call that returns has reached the tick of no timer that is still active.
LEMMA EndCallLeavesNone ==
  ASSUME EngineInv, InTime, OnTime, EndCall, NEW t \in Timers, status[t] = "active"
  PROVE  /\ due[t] >= tick
         /\ notBefore[t] # 0 => started < notBefore[t] + 2 * Granularity
<1>0. /\ EngineTypeOK /\ border \in Nat /\ tick \in Nat /\ started \in Nat
      /\ due[t] \in Nat /\ notBefore[t] \in Nat /\ Granularity \in Nat
      /\ processed /\ started < border
  BY WheelAssumption DEF EngineInv, EngineTypeOK, EndCall
<1>1. TicksLeft(t) \in Nat
  <2>1. /\ WheelSize \in Nat \ {0} /\ rolls[t] \in Nat
        /\ current \in 0..(WheelSize - 1) /\ position[t] \in 0..(WheelSize - 1)
    BY <1>0, WheelAssumption DEF EngineTypeOK, Slots
  <2>2. rolls[t] * WheelSize \in Nat /\ Distance(position[t]) \in Nat
    BY <2>1 DEF Distance
  <2> QED
    BY <2>1, <2>2 DEF TicksLeft
<1>2. PICK k \in Nat : k = due[t] - tick
  BY <1>0, <1>1 DEF OnTime
<1>3. due[t] >= tick
  BY <1>0, <1>2
<1>4. ASSUME notBefore[t] # 0
      PROVE  started < notBefore[t] + 2 * Granularity
  <2>1. EndOfTick(due[t]) = border + (k + 1) * Granularity
    BY <1>0, <1>2 DEF EndOfTick
  <2>2. k * Granularity \in Nat /\ (k + 1) * Granularity = k * Granularity + Granularity
    BY <1>0
  <2>3. EndOfTick(due[t]) <= notBefore[t] + 3 * Granularity
    BY <1>4 DEF InTime, NotLate
  <2> QED
    BY <1>0, <2>1, <2>2, <2>3
<1> QED
  BY <1>3, <1>4

(***************************************************************************)
(* If no pause and no period is a whole number of rolls, a call, however   *)
(* late it comes and whatever actions do while it catches up, passes over  *)
(* no timer's tick, and leaves no timer behind whose pause had been over   *)
(* for two ticks when it began.                                            *)
(***************************************************************************)
THEOREM NoneIsLeftBehind ==
  ASSUME NoWholeRolls
  PROVE  ManagerSpec => NoneLeftBehind
<1> DEFINE A == pc = "loop" /\ pc' = "idle" =>
                  \A t \in Timers : status[t] = "active" =>
                    /\ due[t] >= tick
                    /\ notBefore[t] # 0 => started < notBefore[t] + 2 * Granularity
<1>1. EngineInv /\ InTime /\ OnTime /\ [ManagerNext]_managerVars => [A]_managerVars
  <2> SUFFICES ASSUME EngineInv, InTime, OnTime, ManagerNext, pc = "loop", pc' = "idle",
                      NEW t \in Timers, status[t] = "active"
               PROVE  /\ due[t] >= tick
                      /\ notBefore[t] # 0 => started < notBefore[t] + 2 * Granularity
    OBVIOUS
  <2>1. EndCall
    BY DEF ManagerNext, ClockAdvances, Reset, ClearAll, ManagerCalls, Allocate, Dismiss, Deactivate,
           DeactivateActive, DeactivateWaiting, RescheduleThrows, Release, Activate, Reschedule,
           ProcessStep, BeginCall, MakeExecList, CheckPasses, CheckFails, CallAction, FinishAction,
           LockBack, UtilizePeriodic, UtilizeOther, AdvancePosition, SwitchToNextTick,
           engineVars, callVars
  <2> QED
    BY <2>1, EndCallLeavesNone
<1> QED
  BY <1>1, StaysOnTime, StaysInTime, Invariant, PTL DEF ManagerSpec, NoneLeftBehind
=============================================================================
