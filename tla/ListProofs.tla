----------------------------- MODULE ListProofs -----------------------------
(***************************************************************************)
(* The list engine and its manager, for any number of timers, threads,     *)
(* pauses and periods.                                                     *)
(*                                                                         *)
(* First the engine: every operation preserves EngineInv, whoever calls it *)
(* and whenever, one lemma per action of ListEngine.  Then the manager, in *)
(* both thread-safety modes and also when reset() is called while timers   *)
(* are processed.  The proofs about the list thread rest on the lemmas     *)
(* about the engine.                                                       *)
(***************************************************************************)
EXTENDS ListManager, SharedLemmas

\* Only the time points of the list's own timers matter to its order.
LEMMA SortedAgrees ==
  ASSUME NEW l \in Seq(Timers), NEW w, NEW v,
         SortedBy(l, w), \A x \in ToSet(l) : w[x] = v[x]
  PROVE  SortedBy(l, v)
<1>1. DOMAIN l = 1..Len(l)
  OBVIOUS
<1>2. \A i \in 1..Len(l) : l[i] \in ToSet(l)
  BY <1>1 DEF ToSet
<1> QED
  BY <1>2 DEF SortedBy

\* insert_timer_to_list finds a place: the timer is there, the rest in order.
LEMMA InsertedElements ==
  ASSUME NEW l \in Seq(Timers), NEW w, NEW t \in Timers,
         NEW r \in InsertTimerToList(l, w, t)
  PROVE  \E i \in 0..Len(l), j \in 1..(Len(l) + 1) :
           /\ j = i + 1
           /\ IsInsertionPoint(l, w, t, i)
           /\ r = InsertAt(l, j, t)
           /\ r \in Seq(Timers) /\ Len(r) = Len(l) + 1
           /\ \A k \in 1..(Len(l) + 1) :
                r[k] = IF k < j THEN l[k] ELSE IF k = j THEN t ELSE l[k - 1]
<1>1. PICK i \in 0..Len(l) : IsInsertionPoint(l, w, t, i) /\ r = InsertAt(l, i + 1, t)
  BY DEF InsertTimerToList
<1> DEFINE j == i + 1
<1>2. j \in 1..(Len(l) + 1) /\ j = i + 1
  OBVIOUS
<1>3. r = InsertAt(l, j, t)
  BY <1>1
<1> HIDE DEF j
<1>4. /\ InsertAt(l, j, t) \in Seq(Timers)
      /\ Len(InsertAt(l, j, t)) = Len(l) + 1
      /\ \A k \in 1..(Len(l) + 1) :
           InsertAt(l, j, t)[k] = IF k < j THEN l[k] ELSE IF k = j THEN t ELSE l[k - 1]
  BY <1>2, InsertAtElements
<1> QED
  BY <1>1, <1>2, <1>3, <1>4, Zenon

\* insert_timer_to_list: the list has one more timer, and is still sorted.
LEMMA InsertedTimer ==
  ASSUME NEW l \in Seq(Timers), NEW w \in [Timers -> Nat], NEW t \in Timers,
         NEW r \in InsertTimerToList(l, w, t),
         IsInjective(l), t \notin ToSet(l), SortedBy(l, w)
  PROVE  /\ r \in Seq(Timers) /\ IsInjective(r)
         /\ ToSet(r) = ToSet(l) \cup {t}
         /\ SortedBy(r, w)
<1>1. PICK i \in 0..Len(l), j \in 1..(Len(l) + 1) :
           /\ j = i + 1
           /\ IsInsertionPoint(l, w, t, i)
           /\ r = InsertAt(l, j, t)
           /\ r \in Seq(Timers) /\ Len(r) = Len(l) + 1
           /\ \A k \in 1..(Len(l) + 1) :
                r[k] = IF k < j THEN l[k] ELSE IF k = j THEN t ELSE l[k - 1]
  BY InsertedElements
<1>2. Len(l) \in Nat /\ i \in Nat /\ i <= Len(l)
  OBVIOUS
<1>3. /\ r \in Seq(Timers) /\ Len(r) = Len(l) + 1
      /\ \A k \in 1..(Len(l) + 1) :
           r[k] = IF k < i + 1 THEN l[k] ELSE IF k = i + 1 THEN t ELSE l[k - 1]
  BY <1>1
<1>4. ToSet(r) = ToSet(l) \cup {t} /\ IsInjective(r)
  BY <1>1, InsertAtSet
<1>5. /\ \A k \in (i + 1)..Len(l) : w[l[k]] > w[t]
      /\ i > 0 => w[l[i]] <= w[t]
      /\ \A a, b \in 1..Len(l) : a < b => w[l[a]] <= w[l[b]]
      /\ \A a \in 1..Len(l) : w[l[a]] \in Nat
      /\ w[t] \in Nat
  <2>1. \A a \in 1..Len(l) : l[a] \in Timers
    OBVIOUS
  <2> QED
    BY <1>1, <2>1 DEF IsInsertionPoint, SortedBy
<1>6. \A a \in 1..i : w[l[a]] <= w[t]
  <2>1. ASSUME NEW a \in 1..i PROVE w[l[a]] <= w[t]
    <3>1. a \in 1..Len(l) /\ i \in 1..Len(l) /\ i > 0
      BY <1>2
    <3>2. w[l[a]] <= w[l[i]]
      BY <1>5, <3>1
    <3> QED
      BY <1>5, <3>1, <3>2
  <2> QED
    BY <2>1
<1>7. SortedBy(r, w)
  <2>1. ASSUME NEW a \in 1..(Len(l) + 1), NEW b \in 1..(Len(l) + 1), a < b
        PROVE  w[r[a]] <= w[r[b]]
    <3>1. CASE b < i + 1
      <4>1. a \in 1..Len(l) /\ b \in 1..Len(l) /\ a < i + 1
        BY <1>2, <2>1, <3>1
      <4>2. r[a] = l[a] /\ r[b] = l[b]
        BY <1>3, <3>1, <4>1
      <4> QED
        BY <1>5, <2>1, <4>1, <4>2
    <3>2. CASE b = i + 1
      <4>1. a \in 1..i /\ r[a] = l[a] /\ r[b] = t
        BY <1>2, <1>3, <2>1, <3>2
      <4> QED
        BY <1>6, <4>1
    <3>3. CASE a < i + 1 /\ b > i + 1
      <4>0. a \in 1..i /\ b - 1 \in (i + 1)..Len(l)
        BY <1>2, <2>1, <3>3
      <4>1. r[a] = l[a] /\ r[b] = l[b - 1]
        BY <1>2, <1>3, <3>3
      <4>2. a \in 1..Len(l) /\ b - 1 \in 1..Len(l)
        BY <1>2, <4>0
      <4>3. w[l[a]] <= w[t] /\ w[l[b - 1]] > w[t] /\ w[l[a]] \in Nat /\ w[l[b - 1]] \in Nat
        BY <1>5, <1>6, <4>0, <4>2
      <4>4. w[t] \in Nat
        BY <1>5
      <4>5. \A x, y, z \in Nat : x <= y /\ z > y => x <= z
        OBVIOUS
      <4>6. w[l[a]] <= w[l[b - 1]]
        BY <4>3, <4>4, <4>5
      <4> QED
        BY <4>1, <4>6
    <3>4. CASE a = i + 1 /\ b > i + 1
      <4>0. b - 1 \in (i + 1)..Len(l)
        BY <1>2, <2>1, <3>4
      <4>1. b - 1 \in (i + 1)..Len(l) /\ r[a] = t /\ r[b] = l[b - 1]
        <5>1. /\ r[a] = IF a < i + 1 THEN l[a] ELSE IF a = i + 1 THEN t ELSE l[a - 1]
              /\ r[b] = IF b < i + 1 THEN l[b] ELSE IF b = i + 1 THEN t ELSE l[b - 1]
          BY <1>3
        <5> QED
          BY <1>2, <3>4, <4>0, <5>1
      <4>2. b - 1 \in 1..Len(l)
        BY <1>2, <4>1
      <4>3. w[l[b - 1]] > w[t] /\ w[l[b - 1]] \in Nat
        BY <1>5, <4>1, <4>2
      <4> QED
        BY <1>5, <4>1, <4>3
    <3>5. CASE a > i + 1
      <4>1. a - 1 \in 1..Len(l) /\ b - 1 \in 1..Len(l) /\ a - 1 < b - 1
        BY <1>2, <2>1, <3>5
      <4>2. r[a] = l[a - 1] /\ r[b] = l[b - 1]
        BY <1>2, <1>3, <2>1, <3>5
      <4> QED
        BY <1>5, <4>1, <4>2
    <3> QED
      BY <1>2, <2>1, <3>1, <3>2, <3>3, <3>4, <3>5
  <2> QED
    BY <1>3, <2>1 DEF SortedBy
<1> QED
  BY <1>3, <1>4, <1>7

\* remove_timer_from_list: the list has lost the timer, and is still sorted.
LEMMA RemovedTimer ==
  ASSUME NEW l \in Seq(Timers), NEW w \in [Timers -> Nat], NEW t \in Timers,
         NEW r \in RemoveTimerFromList(l, t),
         IsInjective(l), SortedBy(l, w)
  PROVE  /\ r \in Seq(Timers) /\ IsInjective(r)
         /\ ToSet(r) = ToSet(l) \ {t}
         /\ SortedBy(r, w)
<1>1. PICK i \in 1..Len(l) : l[i] = t /\ r = RemoveAt(l, i)
  BY DEF RemoveTimerFromList
<1>2. Len(l) \in Nat /\ i \in Nat
  OBVIOUS
<1>3. /\ r \in Seq(Timers) /\ Len(r) = Len(l) - 1
      /\ \A k \in 1..(Len(l) - 1) : r[k] = IF k < i THEN l[k] ELSE l[k + 1]
  BY <1>1, RemoveAtElements
<1>4. ToSet(r) = ToSet(l) \ {t} /\ IsInjective(r)
  BY <1>1, RemoveAtSet
<1>5. \A a, b \in 1..Len(l) : a < b => w[l[a]] <= w[l[b]]
  BY DEF SortedBy
<1>6. ASSUME NEW a \in 1..(Len(l) - 1), NEW b \in 1..(Len(l) - 1), a < b
      PROVE  w[r[a]] <= w[r[b]]
  <2> DEFINE x == IF a < i THEN a ELSE a + 1
             y == IF b < i THEN b ELSE b + 1
  <2>1. x \in 1..Len(l) /\ y \in 1..Len(l) /\ x < y
    BY <1>2, <1>6
  <2>2. r[a] = l[x] /\ r[b] = l[y]
    BY <1>3
  <2> QED
    BY <1>5, <2>1, <2>2
<1> QED
  BY <1>3, <1>4, <1>6 DEF SortedBy
-----------------------------------------------------------------------------
\* The initial state: nothing is allocated, nothing runs.
LEMMA EngineInitially == EngineInit => EngineInv
<1> SUFFICES ASSUME EngineInit PROVE EngineInv
  OBVIOUS
<1> USE DEF EngineInit, CommonInit
<1>1. EngineTypeOK
  BY SizeMaxAssumption
     DEF EngineTypeOK, CommonTypeOK, TimerStatus, Stage, ResetTimerCount
<1>2. ListHoldsActive
  BY DEF ListHoldsActive, ToSet, IsInjective
<1>3. ExecHoldsWaiting
  BY DEF ExecHoldsWaiting, Waiting, ToSet, IsInjective
<1>4. ListSorted
  BY DEF ListSorted, SortedBy
<1>5. CursorInRange
  BY DEF CursorInRange
<1>6. RefsExact
  BY DEF RefsExact
<1>7. NeverEarly
  BY DEF NeverEarly, ToSet
<1>8. RunsOnce
  BY DEF RunsOnce
<1> QED
  BY <1>1, <1>2, <1>3, <1>4, <1>5, <1>6, <1>7, <1>8 DEF EngineInv

\* A step that changes none of the variables.
LEMMA EngineStutters ==
  ASSUME EngineInv, UNCHANGED <<commonVars, engineVars>>
  PROVE  EngineInv'
<1> USE DEF commonVars, engineVars
<1>1. EngineTypeOK'
  BY DEF EngineInv, EngineTypeOK, CommonTypeOK
<1>2. ListHoldsActive'
  BY DEF EngineInv, ListHoldsActive
<1>3. ExecHoldsWaiting'
  BY DEF EngineInv, ExecHoldsWaiting, Waiting
<1>4. ListSorted'
  BY DEF EngineInv, ListSorted
<1>5. CursorInRange'
  BY DEF EngineInv, CursorInRange
<1>6. RefsExact'
  BY DEF EngineInv, RefsExact
<1>7. NeverEarly'
  BY DEF EngineInv, NeverEarly
<1>8. RunsOnce'
  BY DEF EngineInv, RunsOnce, Waiting
<1> QED
  BY <1>1, <1>2, <1>3, <1>4, <1>5, <1>6, <1>7, <1>8 DEF EngineInv

\* The clock is only ever compared with from above.
LEMMA TickPreserves ==
  ASSUME EngineInv, Tick, UNCHANGED <<refs, held, quantities, engineVars>>
  PROVE  EngineInv'
<1> USE DEF engineVars
<1>1. EngineTypeOK'
  BY DEF Tick, EngineInv, EngineTypeOK, CommonTypeOK
<1>2. ListHoldsActive'
  BY DEF EngineInv, ListHoldsActive
<1>3. ExecHoldsWaiting'
  BY DEF EngineInv, ExecHoldsWaiting, Waiting
<1>4. ListSorted'
  BY DEF EngineInv, ListSorted
<1>5. CursorInRange'
  BY DEF EngineInv, CursorInRange
<1>6. RefsExact'
  BY DEF EngineInv, RefsExact
<1>7. NeverEarly'
  <2>1. now \in Nat /\ now' = now + 1
    BY DEF EngineInv, EngineTypeOK, CommonTypeOK, Tick
  <2>2. ASSUME NEW p \in Procs, NEW t \in ToSet(exec[p]) PROVE when[t] <= now'
    <3>1. t \in Timers
      BY DEF EngineInv, EngineTypeOK, ToSet
    <3>2. when[t] \in Nat /\ when[t] <= now
      BY <3>1 DEF EngineInv, EngineTypeOK, NeverEarly
    <3> QED
      BY <2>1, <3>2
  <2> QED
    BY <2>2 DEF NeverEarly
<1>8. RunsOnce'
  BY DEF EngineInv, RunsOnce, Waiting
<1> QED
  BY <1>1, <1>2, <1>3, <1>4, <1>5, <1>6, <1>7, <1>8 DEF EngineInv

\* A client gets a new object, or gives its holder up.
LEMMA HolderPreserves ==
  ASSUME EngineInv, NEW t \in Timers, Allocate(t) \/ Dismiss(t)
  PROVE  EngineInv'
<1> USE DEF engineVars, Allocate, Dismiss, AllocateObject, DismissObject
<1>0. EngineTypeOK /\ RefsExact
  BY DEF EngineInv
<1>1. /\ refs' \in [Timers -> Nat]
      /\ held' \subseteq Timers
      /\ RefsExact'
  <2>1. \A x \in Timers : refs[x] \in Nat
    BY <1>0 DEF EngineTypeOK, CommonTypeOK
  <2>2. CASE Allocate(t)
    <3>1. t \notin held /\ status[t] = "deactivated"
      BY <1>0, <2>2 DEF RefsExact
    <3>2. held' = held \cup {t} /\ refs' = [refs EXCEPT ![t] = 1] /\ status' = status
      BY <1>0, <2>2 DEF IncrementReferences, EngineTypeOK, CommonTypeOK
    <3>3. refs' \in [Timers -> Nat] /\ held' \subseteq Timers
      BY <1>0, <3>2 DEF EngineTypeOK, CommonTypeOK
    <3>4. \A x \in Timers : x # t => refs'[x] = refs[x] /\ (x \in held' <=> x \in held)
      BY <1>0, <3>2 DEF EngineTypeOK, CommonTypeOK
    <3>5. refs'[t] = 1 /\ t \in held'
      BY <1>0, <3>2 DEF EngineTypeOK, CommonTypeOK
    <3> QED
      BY <1>0, <3>1, <3>2, <3>3, <3>4, <3>5 DEF RefsExact
  <2>3. CASE Dismiss(t)
    <3>1. t \in held /\ refs[t] > 0
      BY <1>0, <2>3 DEF RefsExact
    <3>2. held' = held \ {t} /\ refs' = [refs EXCEPT ![t] = refs[t] - 1] /\ status' = status
      BY <1>0, <2>3 DEF DecrementReferences
    <3>3. refs' \in [Timers -> Nat] /\ held' \subseteq Timers
      BY <1>0, <2>1, <3>1, <3>2 DEF EngineTypeOK, CommonTypeOK
    <3>4. \A x \in Timers : x # t => refs'[x] = refs[x] /\ (x \in held' <=> x \in held)
      BY <1>0, <3>2 DEF EngineTypeOK, CommonTypeOK
    <3>5. refs'[t] = refs[t] - 1 /\ t \notin held'
      BY <1>0, <3>2 DEF EngineTypeOK, CommonTypeOK
    <3> QED
      BY <1>0, <3>1, <3>2, <3>3, <3>4, <3>5 DEF RefsExact
  <2> QED
    BY <2>2, <2>3
<1>9. EngineTypeOK'
  BY <1>0, <1>1 DEF EngineTypeOK, CommonTypeOK
<1>2. ListHoldsActive'
  BY DEF EngineInv, ListHoldsActive
<1>3. ExecHoldsWaiting'
  BY DEF EngineInv, ExecHoldsWaiting, Waiting
<1>4. ListSorted'
  BY DEF EngineInv, ListSorted
<1>5. CursorInRange'
  BY DEF EngineInv, CursorInRange
<1>7. NeverEarly'
  BY DEF EngineInv, NeverEarly
<1>8. RunsOnce'
  BY DEF EngineInv, RunsOnce, Waiting
<1> QED
  BY <1>1, <1>2, <1>3, <1>4, <1>5, <1>7, <1>8, <1>9 DEF EngineInv

\* activate: a deactivated timer enters the list.
LEMMA ActivatePreserves ==
  ASSUME EngineInv, NEW t \in Timers, NEW pause \in Pauses, NEW per \in Periods,
         Activate(t, pause, per)
  PROVE  EngineInv'
<1>0. /\ EngineTypeOK /\ ListHoldsActive /\ ExecHoldsWaiting /\ ListSorted
      /\ CursorInRange /\ RefsExact /\ NeverEarly /\ RunsOnce
  BY DEF EngineInv
<1>1. /\ status[t] = "deactivated"
      /\ status' = [status EXCEPT ![t] = "active"]
      /\ when' = [when EXCEPT ![t] = now + pause]
      /\ period' = [period EXCEPT ![t] = per]
      /\ refs' = [refs EXCEPT ![t] = refs[t] + 1]
      /\ list' \in InsertTimerToList(list, when', t)
      /\ quantities' = IncTimerCount(quantities, Kind(per))
      /\ UNCHANGED <<now, held, exec, cursor, pc, ran>>
  BY DEF Activate, IncrementReferences
<1>2. pause \in Nat /\ per \in Nat
  BY DurationsAssumption
<1>3. when' \in [Timers -> Nat] /\ \A x \in Timers : x # t => when'[x] = when[x]
  BY <1>0, <1>1, <1>2 DEF EngineTypeOK, CommonTypeOK
<1>4. /\ status' \in [Timers -> TimerStatus]
      /\ status'[t] = "active" /\ \A x \in Timers : x # t => status'[x] = status[x]
  BY <1>0, <1>1 DEF EngineTypeOK, TimerStatus
<1>5. /\ refs' \in [Timers -> Nat]
      /\ refs'[t] = refs[t] + 1 /\ \A x \in Timers : x # t => refs'[x] = refs[x]
  BY <1>0, <1>1 DEF EngineTypeOK, CommonTypeOK
<1>6. /\ list \in Seq(Timers) /\ IsInjective(list) /\ t \notin ToSet(list)
  BY <1>0, <1>1 DEF EngineTypeOK, ListHoldsActive
<1>61. ToSet(list) \subseteq Timers
  BY <1>6 DEF ToSet
<1>7. SortedBy(list, when')
  BY <1>0, <1>3, <1>6, <1>61, SortedAgrees DEF ListSorted
<1>8. /\ list' \in Seq(Timers) /\ IsInjective(list')
      /\ ToSet(list') = ToSet(list) \cup {t} /\ SortedBy(list', when')
  BY <1>1, <1>3, <1>6, <1>7, InsertedTimer
<1>9. \A p \in Procs : t \notin ToSet(exec[p])
  BY <1>0, <1>1 DEF ExecHoldsWaiting, Waiting
<1>11. EngineTypeOK'
  BY <1>0, <1>1, <1>2, <1>3, <1>4, <1>5, <1>8, CountTypes, KindType
     DEF EngineTypeOK, CommonTypeOK
<1>12. ListHoldsActive'
  BY <1>0, <1>4, <1>8 DEF ListHoldsActive
<1>13. ExecHoldsWaiting'
  BY <1>0, <1>1, <1>4, <1>9 DEF ExecHoldsWaiting, Waiting
<1>14. ListSorted'
  BY <1>8 DEF ListSorted
<1>15. CursorInRange'
  BY <1>0, <1>1 DEF CursorInRange
<1>16. RefsExact'
  <2>1. refs[t] \in Nat
    BY <1>0 DEF EngineTypeOK, CommonTypeOK
  <2> QED
    BY <1>0, <1>1, <1>4, <1>5, <2>1 DEF RefsExact
<1>17. NeverEarly'
  <2>1. \A p \in Procs : ToSet(exec[p]) \subseteq Timers
    BY <1>0 DEF EngineTypeOK, ToSet
  <2> QED
    BY <1>0, <1>1, <1>3, <1>9, <2>1 DEF NeverEarly
<1>18. RunsOnce'
  <2>1. t \notin ran /\ ran \subseteq Timers
    BY <1>0, <1>1 DEF RunsOnce, Waiting, EngineTypeOK
  <2>2. \A p \in Procs : \A k \in 1..Len(exec[p]) : exec[p][k] \in Timers /\ exec[p][k] # t
    BY <1>0, <1>9 DEF EngineTypeOK, ToSet
  <2> QED
    BY <1>0, <1>1, <1>4, <2>1, <2>2 DEF RunsOnce, Waiting
<1> QED
  BY <1>11, <1>12, <1>13, <1>14, <1>15, <1>16, <1>17, <1>18 DEF EngineInv

\* reschedule of an active timer: it leaves the list and enters it again.
LEMMA ReschedulePreserves ==
  ASSUME EngineInv, NEW t \in Timers, NEW pause \in Pauses, NEW per \in Periods,
         Reschedule(t, pause, per)
  PROVE  EngineInv'
<1>0. /\ EngineTypeOK /\ ListHoldsActive /\ ExecHoldsWaiting /\ ListSorted
      /\ CursorInRange /\ RefsExact /\ NeverEarly /\ RunsOnce
  BY DEF EngineInv
<1>1. /\ status[t] = "active"
      /\ when' = [when EXCEPT ![t] = now + pause]
      /\ period' = [period EXCEPT ![t] = per]
      /\ quantities' = IncTimerCount(DecTimerCount(quantities, Kind(period[t])), Kind(per))
      /\ UNCHANGED <<now, refs, held, status, exec, cursor, pc, ran>>
  BY DEF Reschedule
<1>2. pause \in Nat /\ per \in Nat
  BY DurationsAssumption
<1>3. when' \in [Timers -> Nat] /\ \A x \in Timers : x # t => when'[x] = when[x]
  BY <1>0, <1>1, <1>2 DEF EngineTypeOK, CommonTypeOK
<1>4. PICK rest \in RemoveTimerFromList(list, t) :
        list' \in InsertTimerToList(rest, when', t)
  BY DEF Reschedule
<1>5. list \in Seq(Timers) /\ IsInjective(list) /\ when \in [Timers -> Nat] /\ t \in ToSet(list)
  BY <1>0, <1>1 DEF EngineTypeOK, ListHoldsActive
<1>6. /\ rest \in Seq(Timers) /\ IsInjective(rest)
      /\ ToSet(rest) = ToSet(list) \ {t} /\ SortedBy(rest, when)
  BY <1>0, <1>5, RemovedTimer DEF ListSorted
<1>7. ToSet(rest) \subseteq Timers /\ t \notin ToSet(rest)
  BY <1>6 DEF ToSet
<1>8. SortedBy(rest, when')
  BY <1>3, <1>6, <1>7, SortedAgrees
<1>9. /\ list' \in Seq(Timers) /\ IsInjective(list')
      /\ ToSet(list') = ToSet(list) /\ SortedBy(list', when')
  <2>1. /\ list' \in Seq(Timers) /\ IsInjective(list')
        /\ ToSet(list') = ToSet(rest) \cup {t} /\ SortedBy(list', when')
    BY <1>3, <1>4, <1>6, <1>7, <1>8, InsertedTimer
  <2> QED
    BY <1>5, <1>6, <2>1
<1>10. \A p \in Procs : t \notin ToSet(exec[p])
  BY <1>0, <1>1 DEF ExecHoldsWaiting, Waiting
<1>11. EngineTypeOK'
  BY <1>0, <1>1, <1>2, <1>3, <1>9, CountTypes, KindType DEF EngineTypeOK, CommonTypeOK
<1>12. ListHoldsActive'
  BY <1>0, <1>1, <1>9 DEF ListHoldsActive
<1>13. ExecHoldsWaiting'
  BY <1>0, <1>1 DEF ExecHoldsWaiting, Waiting
<1>14. ListSorted'
  BY <1>9 DEF ListSorted
<1>15. CursorInRange'
  BY <1>0, <1>1 DEF CursorInRange
<1>16. RefsExact'
  BY <1>0, <1>1 DEF RefsExact
<1>17. NeverEarly'
  <2>1. \A p \in Procs : ToSet(exec[p]) \subseteq Timers
    BY <1>0 DEF EngineTypeOK, ToSet
  <2> QED
    BY <1>0, <1>1, <1>3, <1>10, <2>1 DEF NeverEarly
<1>18. RunsOnce'
  BY <1>0, <1>1 DEF RunsOnce, Waiting
<1> QED
  BY <1>11, <1>12, <1>13, <1>14, <1>15, <1>16, <1>17, <1>18 DEF EngineInv

\* deactivate of an active timer, and a reschedule that fails half-way.
LEMMA LeaveListPreserves ==
  ASSUME EngineInv, NEW t \in Timers, DeactivateActive(t) \/ RescheduleThrows(t)
  PROVE  EngineInv'
<1>0. /\ EngineTypeOK /\ ListHoldsActive /\ ExecHoldsWaiting /\ ListSorted
      /\ CursorInRange /\ RefsExact /\ NeverEarly /\ RunsOnce
  BY DEF EngineInv
<1>1. /\ status[t] = "active"
      /\ list' \in RemoveTimerFromList(list, t)
      /\ quantities' = DecTimerCount(quantities, Kind(period[t]))
      /\ status' = [status EXCEPT ![t] = "deactivated"]
      /\ refs' = [refs EXCEPT ![t] = refs[t] - 1]
      /\ UNCHANGED <<now, held, when, period, exec, cursor, pc, ran>>
  BY DEF DeactivateActive, RescheduleThrows, DecrementReferences
<1>2. \A x \in Timers : refs[x] \in Nat
  BY <1>0 DEF EngineTypeOK, CommonTypeOK
<1>3. refs[t] > 0
  BY <1>0, <1>1 DEF RefsExact
<1>4. /\ status' \in [Timers -> TimerStatus]
      /\ status'[t] = "deactivated" /\ \A x \in Timers : x # t => status'[x] = status[x]
  BY <1>0, <1>1 DEF EngineTypeOK, TimerStatus
<1>5. /\ refs' \in [Timers -> Nat]
      /\ refs'[t] = refs[t] - 1 /\ \A x \in Timers : x # t => refs'[x] = refs[x]
  BY <1>0, <1>1, <1>2, <1>3 DEF EngineTypeOK, CommonTypeOK
<1>6. list \in Seq(Timers) /\ IsInjective(list) /\ when \in [Timers -> Nat]
  BY <1>0 DEF EngineTypeOK, ListHoldsActive
<1>7. /\ list' \in Seq(Timers) /\ IsInjective(list')
      /\ ToSet(list') = ToSet(list) \ {t} /\ SortedBy(list', when)
  BY <1>0, <1>1, <1>6, RemovedTimer DEF ListSorted
<1>11. EngineTypeOK'
  BY <1>0, <1>1, <1>4, <1>5, <1>7, CountTypes, KindType DEF EngineTypeOK, CommonTypeOK
<1>12. ListHoldsActive'
  BY <1>0, <1>4, <1>7 DEF ListHoldsActive
<1>13. ExecHoldsWaiting'
  BY <1>0, <1>1, <1>4 DEF ExecHoldsWaiting, Waiting
<1>14. ListSorted'
  BY <1>1, <1>7 DEF ListSorted
<1>15. CursorInRange'
  BY <1>0, <1>1 DEF CursorInRange
<1>16. RefsExact'
  BY <1>0, <1>1, <1>2, <1>4, <1>5 DEF RefsExact
<1>17. NeverEarly'
  BY <1>0, <1>1 DEF NeverEarly
<1>18. RunsOnce'
  <2>1. t \notin ran /\ ran \subseteq Timers
    BY <1>0, <1>1 DEF RunsOnce, Waiting, EngineTypeOK
  <2>2. \A p \in Procs : t \notin ToSet(exec[p])
    BY <1>0, <1>1 DEF ExecHoldsWaiting, Waiting
  <2>3. \A p \in Procs : \A k \in 1..Len(exec[p]) : exec[p][k] \in Timers /\ exec[p][k] # t
    BY <1>0, <2>2 DEF EngineTypeOK, ToSet
  <2> QED
    BY <1>0, <1>1, <1>4, <2>1, <2>3 DEF RunsOnce, Waiting
<1> QED
  BY <1>11, <1>12, <1>13, <1>14, <1>15, <1>16, <1>17, <1>18 DEF EngineInv

\* deactivate of a timer in an execution list only marks it.
LEMMA DeactivateWaitingPreserves ==
  ASSUME EngineInv, NEW t \in Timers, DeactivateWaiting(t)
  PROVE  EngineInv'
<1>0. /\ EngineTypeOK /\ ListHoldsActive /\ ExecHoldsWaiting /\ ListSorted
      /\ CursorInRange /\ RefsExact /\ NeverEarly /\ RunsOnce
  BY DEF EngineInv
<1>1. /\ status[t] = "wait_for_execution"
      /\ status' = [status EXCEPT ![t] = "wait_for_deactivation"]
      /\ UNCHANGED <<now, refs, held, quantities, when, period, list, exec, cursor, pc, ran>>
  BY DEF DeactivateWaiting, commonVars
<1>2. /\ status' \in [Timers -> TimerStatus]
      /\ status'[t] = "wait_for_deactivation"
      /\ \A x \in Timers : x # t => status'[x] = status[x]
  BY <1>0, <1>1 DEF EngineTypeOK, TimerStatus
<1>11. EngineTypeOK'
  BY <1>0, <1>1, <1>2 DEF EngineTypeOK, CommonTypeOK
<1>12. ListHoldsActive'
  BY <1>0, <1>1, <1>2 DEF ListHoldsActive
<1>13. ExecHoldsWaiting'
  BY <1>0, <1>1, <1>2 DEF ExecHoldsWaiting, Waiting
<1>14. ListSorted'
  BY <1>0, <1>1 DEF ListSorted
<1>15. CursorInRange'
  BY <1>0, <1>1 DEF CursorInRange
<1>16. RefsExact'
  BY <1>0, <1>1, <1>2 DEF RefsExact
<1>17. NeverEarly'
  BY <1>0, <1>1 DEF NeverEarly
<1>18. RunsOnce'
  <2>1. ran \subseteq Timers
    BY <1>0 DEF EngineTypeOK
  <2>2. \A p \in Procs : \A k \in 1..Len(exec[p]) : exec[p][k] \in Timers
    BY <1>0 DEF EngineTypeOK
  <2> QED
    BY <1>0, <1>1, <1>2, <2>1, <2>2 DEF RunsOnce, Waiting
<1> QED
  BY <1>11, <1>12, <1>13, <1>14, <1>15, <1>16, <1>17, <1>18 DEF EngineInv

\* clear_all drops the list and leaves the execution lists alone.
LEMMA ClearAllPreserves ==
  ASSUME EngineInv, ClearAll
  PROVE  EngineInv'
<1>0. /\ EngineTypeOK /\ ListHoldsActive /\ ExecHoldsWaiting /\ ListSorted
      /\ CursorInRange /\ RefsExact /\ NeverEarly /\ RunsOnce
  BY DEF EngineInv
<1>1. /\ list' = <<>>
      /\ status' = [t \in Timers |-> IF t \in ToSet(list) THEN "deactivated" ELSE status[t]]
      /\ refs' = [t \in Timers |-> IF t \in ToSet(list) THEN refs[t] - 1 ELSE refs[t]]
      /\ quantities' = ResetTimerCount
      /\ UNCHANGED <<now, held, when, period, exec, cursor, pc, ran>>
  BY DEF ClearAll
<1>2. \A x \in Timers : status[x] = "active" <=> x \in ToSet(list)
  BY <1>0 DEF ListHoldsActive
<1>3. status' \in [Timers -> TimerStatus]
  BY <1>0, <1>1 DEF EngineTypeOK, TimerStatus
<1>4. \A x \in Timers :
        status'[x] = IF status[x] = "active" THEN "deactivated" ELSE status[x]
  BY <1>1, <1>2
<1>5. \A x \in Timers :
        /\ refs[x] \in Nat
        /\ status[x] = "active" => refs[x] > 0
        /\ refs'[x] = IF status[x] = "active" THEN refs[x] - 1 ELSE refs[x]
  BY <1>0, <1>1, <1>2 DEF EngineTypeOK, CommonTypeOK, RefsExact
<1>6. refs' \in [Timers -> Nat]
  BY <1>1, <1>2, <1>5
<1>11. EngineTypeOK'
  BY <1>0, <1>1, <1>3, <1>6, SizeMaxAssumption
     DEF EngineTypeOK, CommonTypeOK, ResetTimerCount
<1>12. ListHoldsActive'
  BY <1>1, <1>4 DEF ListHoldsActive, ToSet, IsInjective
<1>13. ExecHoldsWaiting'
  BY <1>0, <1>1, <1>4 DEF ExecHoldsWaiting, Waiting
<1>14. ListSorted'
  BY <1>1 DEF ListSorted, SortedBy
<1>15. CursorInRange'
  BY <1>0, <1>1 DEF CursorInRange
<1>16. RefsExact'
  BY <1>0, <1>1, <1>4, <1>5 DEF RefsExact
<1>17. NeverEarly'
  BY <1>0, <1>1 DEF NeverEarly
<1>18. RunsOnce'
  <2>1. ran \subseteq Timers
    BY <1>0 DEF EngineTypeOK
  <2>2. \A p \in Procs : \A k \in 1..Len(exec[p]) : exec[p][k] \in Timers
    BY <1>0 DEF EngineTypeOK
  <2> QED
    BY <1>0, <1>1, <1>4, <2>1, <2>2 DEF RunsOnce, Waiting
<1> QED
  BY <1>11, <1>12, <1>13, <1>14, <1>15, <1>16, <1>17, <1>18 DEF EngineInv

(***************************************************************************)
(* make_exec_list: the elapsed prefix becomes the execution list of a call *)
(* that had none.                                                          *)
(***************************************************************************)
LEMMA MakeExecListPreserves ==
  ASSUME EngineInv, NEW p \in Procs, MakeExecList(p)
  PROVE  EngineInv'
<1>0. /\ EngineTypeOK /\ ListHoldsActive /\ ExecHoldsWaiting /\ ListSorted
      /\ CursorInRange /\ RefsExact /\ NeverEarly /\ RunsOnce
  BY DEF EngineInv
<1> DEFINE taken(n) == SubSeq(list, 1, n)
           rest(n) == SubSeq(list, n + 1, Len(list))
<1>1. PICK n \in 1..Len(list) :
        /\ IsElapsedPrefix(n)
        /\ exec' = [exec EXCEPT ![p] = taken(n)]
        /\ list' = rest(n)
        /\ status' = [t \in Timers |->
             IF t \in ToSet(exec'[p]) THEN "wait_for_execution" ELSE status[t]]
  BY DEF MakeExecList
<1>2. /\ pc[p] = "idle"
      /\ cursor' = [cursor EXCEPT ![p] = 1]
      /\ pc' = [pc EXCEPT ![p] = "check"]
      /\ UNCHANGED <<now, refs, held, quantities, when, period, ran>>
  BY DEF MakeExecList, commonVars
<1>3. list \in Seq(Timers) /\ IsInjective(list) /\ n \in 0..Len(list) /\ Len(list) \in Nat
  BY <1>0 DEF EngineTypeOK, ListHoldsActive
<1>4. /\ taken(n) \in Seq(Timers) /\ Len(taken(n)) = n
      /\ \A k \in 1..n : taken(n)[k] = list[k]
      /\ rest(n) \in Seq(Timers) /\ Len(rest(n)) = Len(list) - n
      /\ \A k \in 1..(Len(list) - n) : rest(n)[k] = list[n + k]
      /\ IsInjective(taken(n)) /\ IsInjective(rest(n))
      /\ ToSet(taken(n)) \cup ToSet(rest(n)) = ToSet(list)
      /\ ToSet(taken(n)) \cap ToSet(rest(n)) = {}
  BY <1>3, SplitSet
<1> HIDE DEF taken, rest
<1>5. /\ exec' \in [Procs -> Seq(Timers)]
      /\ exec'[p] = taken(n) /\ \A q \in Procs : q # p => exec'[q] = exec[q]
  BY <1>0, <1>1, <1>4 DEF EngineTypeOK
<1>6. /\ pc' \in [Procs -> Stage] /\ cursor' \in [Procs -> Nat]
      /\ pc'[p] = "check" /\ cursor'[p] = 1
      /\ \A q \in Procs : q # p => pc'[q] = pc[q] /\ cursor'[q] = cursor[q]
  BY <1>0, <1>2 DEF EngineTypeOK, Stage
<1>7. exec[p] = <<>> /\ ToSet(exec[p]) = {}
  BY <1>0, <1>2 DEF CursorInRange, ToSet
<1>8. /\ status' \in [Timers -> TimerStatus]
      /\ \A x \in ToSet(taken(n)) : x \in Timers => status'[x] = "wait_for_execution"
      /\ \A x \in Timers : x \notin ToSet(taken(n)) => status'[x] = status[x]
  BY <1>0, <1>1, <1>5 DEF EngineTypeOK, TimerStatus
<1>9. /\ ToSet(taken(n)) \subseteq Timers
      /\ \A x \in ToSet(taken(n)) : x \in ToSet(list) /\ status[x] = "active"
  <2>1. ToSet(taken(n)) \subseteq Timers
    BY <1>4 DEF ToSet
  <2> QED
    BY <1>0, <1>4, <2>1 DEF ListHoldsActive
<1>10. \A q \in Procs : ToSet(taken(n)) \cap ToSet(exec[q]) = {}
  BY <1>0, <1>9 DEF ExecHoldsWaiting, Waiting
<1>11. EngineTypeOK'
  BY <1>0, <1>1, <1>2, <1>4, <1>5, <1>6, <1>8 DEF EngineTypeOK, CommonTypeOK
<1>12. ListHoldsActive'
  BY <1>0, <1>1, <1>4, <1>8, <1>9 DEF ListHoldsActive
<1>13. ExecHoldsWaiting'
  <2>1. \A q \in Procs : IsInjective(exec'[q])
    BY <1>0, <1>4, <1>5 DEF ExecHoldsWaiting
  <2>2. \A q, r \in Procs : q # r => ToSet(exec'[q]) \cap ToSet(exec'[r]) = {}
    BY <1>0, <1>5, <1>10 DEF ExecHoldsWaiting
  <2>3. ASSUME NEW x \in Timers
        PROVE  Waiting(x)' <=> \E q \in Procs : x \in ToSet(exec'[q])
    <3>1. CASE x \in ToSet(taken(n))
      BY <1>5, <1>8, <3>1 DEF Waiting
    <3>2. CASE x \notin ToSet(taken(n))
      BY <1>0, <1>5, <1>7, <1>8, <3>2 DEF ExecHoldsWaiting, Waiting
    <3> QED
      BY <3>1, <3>2
  <2> QED
    BY <2>1, <2>2, <2>3 DEF ExecHoldsWaiting
<1>14. ListSorted'
  <2>1. ASSUME NEW i \in 1..(Len(list) - n), NEW j \in 1..(Len(list) - n), i < j
        PROVE  when[rest(n)[i]] <= when[rest(n)[j]]
    <3>1. n + i \in 1..Len(list) /\ n + j \in 1..Len(list) /\ n + i < n + j
      BY <1>3, <2>1
    <3> QED
      BY <1>0, <1>4, <3>1 DEF ListSorted, SortedBy
  <2> QED
    BY <1>1, <1>2, <1>4, <2>1 DEF ListSorted, SortedBy
<1>15. CursorInRange'
  <2>1. exec'[p] # <<>> /\ Len(exec'[p]) = n
    BY <1>3, <1>4, <1>5
  <2>2. 1 \in 1..(Len(exec'[p]) + 1)
    BY <2>1
  <2>3. \A q \in Procs : q # p =>
          /\ exec'[q] = exec[q] /\ pc'[q] = pc[q] /\ cursor'[q] = cursor[q]
    BY <1>5, <1>6
  <2> QED
    BY <1>0, <1>6, <2>1, <2>2, <2>3 DEF CursorInRange
<1>16. RefsExact'
  BY <1>0, <1>2, <1>8, <1>9 DEF RefsExact
<1>17. NeverEarly'
  <2>1. \A k \in 1..n : now >= when[list[k]]
    BY <1>1 DEF IsElapsedPrefix
  <2>2. ASSUME NEW x \in ToSet(taken(n)) PROVE when[x] <= now
    <3>1. PICK k \in 1..n : x = list[k]
      BY <1>4 DEF ToSet
    <3>2. now \in Nat /\ when[list[k]] \in Nat
      BY <1>0, <1>9, <3>1 DEF EngineTypeOK, CommonTypeOK
    <3> QED
      BY <2>1, <3>1, <3>2
  <2> QED
    BY <1>0, <1>2, <1>5, <2>2 DEF NeverEarly
<1>18. RunsOnce'
  <2>1. /\ ran \subseteq Timers
        /\ \A x \in ran : Waiting(x) /\ x \notin ToSet(taken(n))
    BY <1>0, <1>9 DEF EngineTypeOK, RunsOnce, Waiting
  <2>2. \A x \in ran' : Waiting(x)'
    BY <1>2, <1>8, <2>1 DEF Waiting
  <2>3. ASSUME NEW q \in Procs, q # p, NEW k \in 1..Len(exec[q])
        PROVE  exec[q][k] \in Timers /\ status'[exec[q][k]] = status[exec[q][k]]
    <3>1. exec[q] \in Seq(Timers)
      BY <1>0 DEF EngineTypeOK
    <3>2. exec[q][k] \in Timers
      BY <3>1
    <3>3. exec[q][k] \in ToSet(exec[q])
      BY <3>1 DEF ToSet
    <3> QED
      BY <1>8, <1>10, <3>2, <3>3
  <2>4. \A k \in 1..n : taken(n)[k] \in ToSet(taken(n))
    BY <1>4 DEF ToSet
  <2>5. \A k \in 1..Len(exec'[p]) : exec'[p][k] \notin ran' /\ ~(k < cursor'[p])
    BY <1>2, <1>4, <1>5, <1>6, <2>1, <2>4
  <2>6. \A q \in Procs : q # p =>
          /\ exec'[q] = exec[q] /\ pc'[q] = pc[q] /\ cursor'[q] = cursor[q]
    BY <1>5, <1>6
  <2>7. ASSUME NEW q \in Procs, NEW k \in 1..Len(exec'[q])
        PROVE  /\ pc'[q] \in {"check", "enter"} /\ k >= cursor'[q] => exec'[q][k] \notin ran'
               /\ pc'[q] = "run" /\ k > cursor'[q] => exec'[q][k] \notin ran'
               /\ /\ status'[exec'[q][k]] = "wait_for_execution"
                  /\ \/ pc'[q] = "utilize"
                     \/ k < cursor'[q]
                     \/ pc'[q] = "run" /\ k = cursor'[q]
                  => exec'[q][k] \in ran'
    <3>1. CASE q = p
      BY <1>6, <2>5, <3>1
    <3>2. CASE q # p
      BY <1>0, <1>2, <2>3, <2>6, <3>2 DEF RunsOnce
    <3> QED
      BY <3>1, <3>2
  <2> QED
    BY <2>2, <2>7 DEF RunsOnce
<1> QED
  BY <1>11, <1>12, <1>13, <1>14, <1>15, <1>16, <1>17, <1>18 DEF EngineInv

(***************************************************************************)
(* exec_actions: the cursor moves through the execution list, and only     *)
(* the place of one call and the history change.                           *)
(***************************************************************************)
LEMMA ExecStepPreserves ==
  ASSUME EngineInv, NEW p \in Procs,
         \/ CheckPasses(p) \/ CheckFails(p) \/ CallAction(p)
         \/ FinishAction(p) \/ LockBack(p)
  PROVE  EngineInv'
<1>0. /\ EngineTypeOK /\ ListHoldsActive /\ ExecHoldsWaiting /\ ListSorted
      /\ CursorInRange /\ RefsExact /\ NeverEarly /\ RunsOnce
  BY DEF EngineInv
<1>1. UNCHANGED <<now, refs, held, quantities, status, when, period, list, exec>>
  BY DEF CheckPasses, CheckFails, CallAction, FinishAction, LockBack, commonVars
<1>2. /\ pc' \in [Procs -> Stage] /\ cursor' \in [Procs -> Nat] /\ ran' \subseteq Timers
      /\ \A q \in Procs : q # p => pc'[q] = pc[q] /\ cursor'[q] = cursor[q]
  <2>1. pc' \in [Procs -> Stage] /\ \A q \in Procs : q # p => pc'[q] = pc[q]
    BY <1>0 DEF EngineTypeOK, Stage, CheckPasses, CheckFails, CallAction, FinishAction, LockBack
  <2>2. cursor[p] + 1 \in Nat
    BY <1>0 DEF EngineTypeOK
  <2>3. cursor' \in [Procs -> Nat] /\ \A q \in Procs : q # p => cursor'[q] = cursor[q]
    BY <1>0, <2>2 DEF EngineTypeOK, CheckPasses, CheckFails, CallAction, FinishAction, LockBack
  <2>4. CallAction(p) => AtCursor(p) \in Timers
    BY <1>0 DEF CallAction, AtCursor, CursorInRange, EngineTypeOK
  <2>5. ran' \subseteq Timers
    BY <1>0, <2>4 DEF EngineTypeOK, CheckPasses, CheckFails, CallAction, FinishAction, LockBack
  <2> QED
    BY <2>1, <2>3, <2>5
<1>3. /\ Len(exec[p]) \in Nat /\ cursor[p] \in Nat
      /\ \A k \in 1..Len(exec[p]) : exec[p][k] \in Timers
  BY <1>0 DEF EngineTypeOK
<1>4. \/ /\ pc[p] = "check" /\ pc'[p] = "enter" /\ cursor'[p] = cursor[p] /\ ran' = ran
         /\ cursor[p] \in 1..Len(exec[p])
      \/ /\ pc[p] = "check" /\ pc'[p] = "check" /\ cursor'[p] = cursor[p] + 1 /\ ran' = ran
         /\ cursor[p] \in 1..Len(exec[p])
         /\ status[exec[p][cursor[p]]] # "wait_for_execution"
      \/ /\ pc[p] = "enter" /\ pc'[p] = "run" /\ cursor'[p] = cursor[p]
         /\ cursor[p] \in 1..Len(exec[p])
         /\ ran' = ran \cup {exec[p][cursor[p]]}
      \/ /\ pc[p] = "run" /\ pc'[p] = "check" /\ cursor'[p] = cursor[p] + 1 /\ ran' = ran
         /\ cursor[p] \in 1..Len(exec[p])
      \/ /\ pc[p] = "check" /\ pc'[p] = "utilize" /\ cursor'[p] = cursor[p] /\ ran' = ran
         /\ cursor[p] = Len(exec[p]) + 1
  BY <1>0, <1>3 DEF CheckPasses, CheckFails, CallAction, FinishAction, LockBack, AtCursor,
                    CursorInRange, EngineTypeOK
<1>11. EngineTypeOK'
  BY <1>0, <1>1, <1>2 DEF EngineTypeOK, CommonTypeOK
<1>12. ListHoldsActive'
  BY <1>0, <1>1 DEF ListHoldsActive
<1>13. ExecHoldsWaiting'
  BY <1>0, <1>1 DEF ExecHoldsWaiting, Waiting
<1>14. ListSorted'
  BY <1>0, <1>1 DEF ListSorted
<1>15. CursorInRange'
  <2>1. exec[p] # <<>>
    BY <1>0, <1>4 DEF CursorInRange
  <2>2. /\ pc'[p] # "idle"
        /\ pc'[p] = "check" => cursor'[p] \in 1..(Len(exec[p]) + 1)
        /\ pc'[p] \in {"enter", "run"} => cursor'[p] \in 1..Len(exec[p])
    BY <1>3, <1>4
  <2> QED
    BY <1>0, <1>1, <1>2, <2>1, <2>2 DEF CursorInRange
<1>16. RefsExact'
  BY <1>0, <1>1 DEF RefsExact
<1>17. NeverEarly'
  BY <1>0, <1>1 DEF NeverEarly
<1>18. RunsOnce'
  <2>1. \A q \in Procs : \A k \in 1..Len(exec[q]) : exec[q][k] \in ToSet(exec[q])
    BY <1>0 DEF EngineTypeOK, ToSet
  <2>2. \A k \in 1..Len(exec[p]) : k # cursor[p] /\ cursor[p] \in 1..Len(exec[p])
          => exec[p][k] # exec[p][cursor[p]]
    BY <1>0, <1>3 DEF ExecHoldsWaiting, IsInjective, EngineTypeOK
  <2>3. \A x \in ran' : Waiting(x)'
    <3>1. \A k \in 1..Len(exec[p]) : Waiting(exec[p][k])
      BY <1>0, <1>3, <2>1 DEF ExecHoldsWaiting
    <3> QED
      BY <1>0, <1>1, <1>4, <3>1 DEF RunsOnce, Waiting
  <2>4. ASSUME NEW q \in Procs, NEW k \in 1..Len(exec[q])
        PROVE  /\ pc'[q] \in {"check", "enter"} /\ k >= cursor'[q] => exec[q][k] \notin ran'
               /\ pc'[q] = "run" /\ k > cursor'[q] => exec[q][k] \notin ran'
               /\ /\ status[exec[q][k]] = "wait_for_execution"
                  /\ \/ pc'[q] = "utilize"
                     \/ k < cursor'[q]
                     \/ pc'[q] = "run" /\ k = cursor'[q]
                  => exec[q][k] \in ran'
    <3>1. CASE q = p
      BY <1>0, <1>3, <1>4, <2>2, <3>1 DEF RunsOnce
    <3>2. CASE q # p
      <4>1. pc'[q] = pc[q] /\ cursor'[q] = cursor[q]
        BY <1>2, <3>2
      <4>2. cursor[p] \in 1..Len(exec[p]) => exec[q][k] # exec[p][cursor[p]]
        BY <1>0, <2>1, <3>2 DEF ExecHoldsWaiting
      <4>3. exec[q][k] \in ran' <=> exec[q][k] \in ran
        BY <1>4, <4>2
      <4> QED
        BY <1>0, <4>1, <4>3 DEF RunsOnce
    <3> QED
      BY <3>1, <3>2
  <2> QED
    BY <1>1, <2>3, <2>4 DEF RunsOnce
<1> QED
  BY <1>11, <1>12, <1>13, <1>14, <1>15, <1>16, <1>17, <1>18 DEF EngineInv

(***************************************************************************)
(* utilize_exec_list: the head of an execution list leaves it.  What the   *)
(* two branches of the loop have in common.                                *)
(***************************************************************************)
LEMMA LeavesExec ==
  ASSUME EngineInv, NEW p \in Procs, pc[p] = "utilize", LeaveTimer(p), cursor' = cursor
  PROVE  LET t == Head(exec[p])
         IN  /\ t \in Timers /\ Waiting(t)
             /\ t \in ToSet(exec[p]) /\ \A q \in Procs : q # p => t \notin ToSet(exec[q])
             /\ exec' \in [Procs -> Seq(Timers)] /\ pc' \in [Procs -> Stage]
             /\ ToSet(exec'[p]) = ToSet(exec[p]) \ {t} /\ IsInjective(exec'[p])
             /\ \A q \in Procs : q # p => exec'[q] = exec[q] /\ pc'[q] = pc[q]
             /\ \A k \in 1..Len(exec'[p]) :
                  /\ exec'[p][k] \in ToSet(exec'[p])
                  /\ k + 1 \in 1..Len(exec[p]) /\ exec'[p][k] = exec[p][k + 1]
             /\ \/ pc'[p] = "idle" /\ exec'[p] = <<>>
                \/ pc'[p] = "utilize" /\ exec'[p] # <<>>
             /\ CursorInRange'
<1> DEFINE t == Head(exec[p])
<1>0. EngineTypeOK /\ ExecHoldsWaiting /\ CursorInRange
  BY DEF EngineInv
<1>1. exec[p] \in Seq(Timers) /\ exec[p] # <<>> /\ IsInjective(exec[p])
  BY <1>0 DEF EngineTypeOK, CursorInRange, ExecHoldsWaiting
<1>2. /\ Len(exec[p]) \in Nat /\ Len(exec[p]) > 0
      /\ t \in Timers /\ t \in ToSet(exec[p])
      /\ Tail(exec[p]) \in Seq(Timers) /\ Len(Tail(exec[p])) = Len(exec[p]) - 1
      /\ \A k \in 1..(Len(exec[p]) - 1) : Tail(exec[p])[k] = exec[p][k + 1]
      /\ ToSet(Tail(exec[p])) = ToSet(exec[p]) \ {t}
      /\ IsInjective(Tail(exec[p]))
  BY <1>1, TailSet
<1>3. Waiting(t) /\ \A q \in Procs : q # p => t \notin ToSet(exec[q])
  BY <1>0, <1>2 DEF ExecHoldsWaiting
<1>4. /\ exec' \in [Procs -> Seq(Timers)] /\ exec'[p] = Tail(exec[p])
      /\ \A q \in Procs : q # p => exec'[q] = exec[q]
  BY <1>0, <1>2 DEF EngineTypeOK, LeaveTimer
<1>5. /\ pc' \in [Procs -> Stage]
      /\ pc'[p] = IF Len(exec[p]) = 1 THEN "idle" ELSE "utilize"
      /\ \A q \in Procs : q # p => pc'[q] = pc[q]
  BY <1>0 DEF EngineTypeOK, Stage, LeaveTimer
<1> HIDE DEF t
<1>6. \/ pc'[p] = "idle" /\ exec'[p] = <<>>
      \/ pc'[p] = "utilize" /\ exec'[p] # <<>>
  <2>1. CASE Len(exec[p]) = 1
    <3>1. Len(exec'[p]) = 0 /\ exec'[p] \in Seq(Timers)
      BY <1>2, <1>4, <2>1
    <3>2. exec'[p] = <<>>
      BY <3>1
    <3> QED
      BY <1>5, <2>1, <3>2
  <2>2. CASE Len(exec[p]) # 1
    <3>1. Len(exec'[p]) # 0
      BY <1>2, <1>4, <2>2
    <3> QED
      BY <1>5, <2>2, <3>1
  <2> QED
    BY <2>1, <2>2
<1>7. ASSUME NEW k \in 1..Len(exec'[p])
      PROVE  /\ exec'[p][k] \in ToSet(exec'[p])
             /\ k + 1 \in 1..Len(exec[p]) /\ exec'[p][k] = exec[p][k + 1]
  <2>1. k \in 1..(Len(exec[p]) - 1) /\ k + 1 \in 1..Len(exec[p])
    BY <1>2, <1>4
  <2>2. exec'[p][k] \in ToSet(exec'[p])
    <3>1. exec'[p] \in Seq(Timers)
      BY <1>2, <1>4
    <3>2. DOMAIN exec'[p] = 1..Len(exec'[p])
      BY <3>1
    <3> QED
      BY <3>2 DEF ToSet
  <2> QED
    BY <1>2, <1>4, <2>1, <2>2
<1>8. CursorInRange'
  BY <1>0, <1>4, <1>5, <1>6 DEF CursorInRange
<1> QED
  BY <1>2, <1>3, <1>4, <1>5, <1>6, <1>7, <1>8 DEF t

\* A periodic timer that was not deactivated goes back to the list.
LEMMA UtilizePeriodicPreserves ==
  ASSUME EngineInv, NEW p \in Procs, UtilizePeriodic(p)
  PROVE  EngineInv'
<1> DEFINE t == Head(exec[p])
<1>0. /\ EngineTypeOK /\ ListHoldsActive /\ ExecHoldsWaiting /\ ListSorted
      /\ CursorInRange /\ RefsExact /\ NeverEarly /\ RunsOnce
  BY DEF EngineInv
<1>1. /\ pc[p] = "utilize" /\ LeaveTimer(p) /\ ran' = ran \ {t}
      /\ status[t] = "wait_for_execution"
      /\ when' = [when EXCEPT ![t] = when[t] + period[t]]
      /\ status' = [status EXCEPT ![t] = "active"]
      /\ list' \in InsertTimerToList(list, when', t)
      /\ UNCHANGED <<now, refs, held, quantities, period, cursor>>
  BY DEF UtilizePeriodic, MustBeRescheduled, LeaveTimer, commonVars
<1>2. /\ t \in Timers /\ Waiting(t)
      /\ t \in ToSet(exec[p]) /\ \A q \in Procs : q # p => t \notin ToSet(exec[q])
      /\ exec' \in [Procs -> Seq(Timers)] /\ pc' \in [Procs -> Stage]
      /\ ToSet(exec'[p]) = ToSet(exec[p]) \ {t} /\ IsInjective(exec'[p])
      /\ \A q \in Procs : q # p => exec'[q] = exec[q] /\ pc'[q] = pc[q]
      /\ \A k \in 1..Len(exec'[p]) :
           /\ exec'[p][k] \in ToSet(exec'[p])
           /\ k + 1 \in 1..Len(exec[p]) /\ exec'[p][k] = exec[p][k + 1]
      /\ \/ pc'[p] = "idle" /\ exec'[p] = <<>>
         \/ pc'[p] = "utilize" /\ exec'[p] # <<>>
      /\ CursorInRange'
  BY <1>1, LeavesExec
<1> HIDE DEF t
<1>3. when' \in [Timers -> Nat] /\ \A x \in Timers : x # t => when'[x] = when[x]
  <2>1. when[t] + period[t] \in Nat
    BY <1>0, <1>2 DEF EngineTypeOK
  <2> QED
    BY <1>0, <1>1, <2>1 DEF EngineTypeOK
<1>4. /\ status' \in [Timers -> TimerStatus]
      /\ status'[t] = "active" /\ \A x \in Timers : x # t => status'[x] = status[x]
  BY <1>0, <1>1, <1>2 DEF EngineTypeOK, TimerStatus
<1>5. list \in Seq(Timers) /\ IsInjective(list) /\ t \notin ToSet(list)
  BY <1>0, <1>1, <1>2 DEF EngineTypeOK, ListHoldsActive
<1>6. ToSet(list) \subseteq Timers
  BY <1>5 DEF ToSet
<1>7. SortedBy(list, when')
  BY <1>0, <1>3, <1>5, <1>6, SortedAgrees DEF ListSorted
<1>8. /\ list' \in Seq(Timers) /\ IsInjective(list')
      /\ ToSet(list') = ToSet(list) \cup {t} /\ SortedBy(list', when')
  <2>1. t \in Timers /\ list' \in InsertTimerToList(list, when', t)
    BY <1>1, <1>2
  <2> QED
    BY <1>3, <1>5, <1>7, <2>1, InsertedTimer
<1>9. \A q \in Procs : ToSet(exec[q]) \subseteq Timers
  BY <1>0 DEF EngineTypeOK, ToSet
<1>11. EngineTypeOK'
  BY <1>0, <1>1, <1>2, <1>3, <1>4, <1>8 DEF EngineTypeOK, CommonTypeOK
<1>12. ListHoldsActive'
  BY <1>0, <1>4, <1>8 DEF ListHoldsActive
<1>13. ExecHoldsWaiting'
  <2>1. \A q \in Procs : IsInjective(exec'[q])
    BY <1>0, <1>2 DEF ExecHoldsWaiting
  <2>2. \A q \in Procs : ToSet(exec'[q]) = ToSet(exec[q]) \ {t}
    <3>1. ASSUME NEW q \in Procs, q # p PROVE ToSet(exec'[q]) = ToSet(exec[q]) \ {t}
      BY <1>2, <3>1
    <3> QED
      BY <1>2, <3>1
  <2>3. \A q, r \in Procs : q # r => ToSet(exec'[q]) \cap ToSet(exec'[r]) = {}
    BY <1>0, <2>2 DEF ExecHoldsWaiting
  <2>4. \A x \in Timers : Waiting(x)' <=> Waiting(x) /\ x # t
    BY <1>4 DEF Waiting
  <2>5. \A x \in Timers : Waiting(x)' <=> \E q \in Procs : x \in ToSet(exec'[q])
    BY <1>0, <2>2, <2>4 DEF ExecHoldsWaiting
  <2> QED
    BY <2>1, <2>3, <2>5 DEF ExecHoldsWaiting
<1>14. ListSorted'
  BY <1>8 DEF ListSorted
<1>16. RefsExact'
  BY <1>0, <1>1, <1>4 DEF RefsExact
<1>17. NeverEarly'
  <2>1. ASSUME NEW q \in Procs, NEW x \in ToSet(exec'[q]) PROVE when'[x] <= now'
    <3>1. x \in ToSet(exec[q]) /\ x # t
      BY <1>2
    <3>2. x \in Timers /\ when'[x] = when[x]
      BY <1>3, <1>9, <3>1
    <3> QED
      BY <1>0, <1>1, <3>1, <3>2 DEF NeverEarly
  <2> QED
    BY <2>1 DEF NeverEarly
<1>18. RunsOnce'
  <2>1. \A x \in ran' : Waiting(x)'
    BY <1>0, <1>1, <1>4 DEF RunsOnce, Waiting, EngineTypeOK
  <2>2. ASSUME NEW q \in Procs, NEW k \in 1..Len(exec'[q])
        PROVE  /\ pc'[q] \in {"check", "enter"} /\ k >= cursor'[q] => exec'[q][k] \notin ran'
               /\ pc'[q] = "run" /\ k > cursor'[q] => exec'[q][k] \notin ran'
               /\ /\ status'[exec'[q][k]] = "wait_for_execution"
                  /\ \/ pc'[q] = "utilize"
                     \/ k < cursor'[q]
                     \/ pc'[q] = "run" /\ k = cursor'[q]
                  => exec'[q][k] \in ran'
    <3>1. CASE q = p
      <4>1. /\ exec'[p][k] \in ToSet(exec[p]) /\ exec'[p][k] # t
            /\ k + 1 \in 1..Len(exec[p]) /\ exec'[p][k] = exec[p][k + 1]
        BY <1>2, <3>1
      <4>2. status'[exec'[p][k]] = status[exec'[p][k]]
        BY <1>4, <1>9, <4>1
      <4>3. status'[exec'[p][k]] = "wait_for_execution" => exec'[p][k] \in ran'
        BY <1>0, <1>1, <4>1, <4>2 DEF RunsOnce
      <4>4. pc'[p] \notin {"check", "enter", "run"}
        BY <1>2
      <4> QED
        BY <3>1, <4>3, <4>4
    <3>2. CASE q # p
      <4>0. exec'[q] = exec[q] /\ pc'[q] = pc[q] /\ cursor'[q] = cursor[q]
        BY <1>1, <1>2, <3>2
      <4>1. k \in 1..Len(exec[q]) /\ exec[q][k] \in ToSet(exec[q])
        BY <1>0, <4>0 DEF EngineTypeOK, ToSet
      <4>2. exec[q][k] # t /\ exec[q][k] \in Timers
        BY <1>2, <1>9, <3>2, <4>1
      <4> QED
        BY <1>0, <1>1, <1>4, <4>0, <4>1, <4>2 DEF RunsOnce
    <3> QED
      BY <3>1, <3>2
  <2> QED
    BY <2>1, <2>2 DEF RunsOnce
<1> QED
  BY <1>2, <1>11, <1>12, <1>13, <1>14, <1>16, <1>17, <1>18 DEF EngineInv

\* Any other timer is deactivated, and the engine's reference released.
LEMMA UtilizeOtherPreserves ==
  ASSUME EngineInv, NEW p \in Procs, UtilizeOther(p)
  PROVE  EngineInv'
<1> DEFINE t == Head(exec[p])
<1>0. /\ EngineTypeOK /\ ListHoldsActive /\ ExecHoldsWaiting /\ ListSorted
      /\ CursorInRange /\ RefsExact /\ NeverEarly /\ RunsOnce
  BY DEF EngineInv
<1>1. /\ pc[p] = "utilize" /\ LeaveTimer(p) /\ ran' = ran \ {t}
      /\ quantities' = DecTimerCount(quantities, Kind(period[t]))
      /\ status' = [status EXCEPT ![t] = "deactivated"]
      /\ refs' = [refs EXCEPT ![t] = refs[t] - 1]
      /\ UNCHANGED <<now, held, when, period, list, cursor>>
  BY DEF UtilizeOther, LeaveTimer, DecrementReferences
<1>2. /\ t \in Timers /\ Waiting(t)
      /\ t \in ToSet(exec[p]) /\ \A q \in Procs : q # p => t \notin ToSet(exec[q])
      /\ exec' \in [Procs -> Seq(Timers)] /\ pc' \in [Procs -> Stage]
      /\ ToSet(exec'[p]) = ToSet(exec[p]) \ {t} /\ IsInjective(exec'[p])
      /\ \A q \in Procs : q # p => exec'[q] = exec[q] /\ pc'[q] = pc[q]
      /\ \A k \in 1..Len(exec'[p]) :
           /\ exec'[p][k] \in ToSet(exec'[p])
           /\ k + 1 \in 1..Len(exec[p]) /\ exec'[p][k] = exec[p][k + 1]
      /\ \/ pc'[p] = "idle" /\ exec'[p] = <<>>
         \/ pc'[p] = "utilize" /\ exec'[p] # <<>>
      /\ CursorInRange'
  BY <1>1, LeavesExec
<1> HIDE DEF t
<1>3. /\ \A x \in Timers : refs[x] \in Nat
      /\ refs[t] > 0
  <2>1. \A x \in Timers : refs[x] \in Nat
    BY <1>0 DEF EngineTypeOK, CommonTypeOK
  <2>2. status[t] # "deactivated"
    BY <1>2 DEF Waiting
  <2> QED
    BY <1>0, <1>2, <2>1, <2>2 DEF RefsExact
<1>4. /\ status' \in [Timers -> TimerStatus]
      /\ status'[t] = "deactivated" /\ \A x \in Timers : x # t => status'[x] = status[x]
  BY <1>0, <1>1, <1>2 DEF EngineTypeOK, TimerStatus
<1>5. /\ refs' \in [Timers -> Nat]
      /\ refs'[t] = refs[t] - 1 /\ \A x \in Timers : x # t => refs'[x] = refs[x]
  <2>1. refs' = [refs EXCEPT ![t] = refs[t] - 1] /\ refs \in [Timers -> Nat]
    BY <1>0, <1>1 DEF EngineTypeOK, CommonTypeOK
  <2>2. t \in Timers /\ refs[t] - 1 \in Nat
    BY <1>2, <1>3
  <2> QED
    BY <2>1, <2>2
<1>6. status[t] # "active"
  BY <1>2 DEF Waiting
<1>9. \A q \in Procs : ToSet(exec[q]) \subseteq Timers
  BY <1>0 DEF EngineTypeOK, ToSet
<1>11. EngineTypeOK'
  BY <1>0, <1>1, <1>2, <1>4, <1>5, CountTypes, KindType DEF EngineTypeOK, CommonTypeOK
<1>12. ListHoldsActive'
  BY <1>0, <1>1, <1>2, <1>4, <1>6 DEF ListHoldsActive
<1>13. ExecHoldsWaiting'
  <2>1. \A q \in Procs : IsInjective(exec'[q])
    BY <1>0, <1>2 DEF ExecHoldsWaiting
  <2>2. \A q \in Procs : ToSet(exec'[q]) = ToSet(exec[q]) \ {t}
    <3>1. ASSUME NEW q \in Procs, q # p PROVE ToSet(exec'[q]) = ToSet(exec[q]) \ {t}
      BY <1>2, <3>1
    <3> QED
      BY <1>2, <3>1
  <2>3. \A q, r \in Procs : q # r => ToSet(exec'[q]) \cap ToSet(exec'[r]) = {}
    BY <1>0, <2>2 DEF ExecHoldsWaiting
  <2>4. \A x \in Timers : Waiting(x)' <=> Waiting(x) /\ x # t
    BY <1>4 DEF Waiting
  <2>5. \A x \in Timers : Waiting(x)' <=> \E q \in Procs : x \in ToSet(exec'[q])
    BY <1>0, <2>2, <2>4 DEF ExecHoldsWaiting
  <2> QED
    BY <2>1, <2>3, <2>5 DEF ExecHoldsWaiting
<1>14. ListSorted'
  BY <1>0, <1>1 DEF ListSorted
<1>16. RefsExact'
  <2>1. \A x \in Timers : x # t => refs'[x] = refs[x] /\ status'[x] = status[x]
    BY <1>4, <1>5
  <2>2. status[t] # "deactivated" /\ status'[t] = "deactivated" /\ refs'[t] = refs[t] - 1
    BY <1>2, <1>4, <1>5 DEF Waiting
  <2>3. held' = held
    BY <1>1
  <2>4. refs'[t] = (IF t \in held' THEN 1 ELSE 0)
    BY <1>0, <1>2, <2>2, <2>3 DEF RefsExact
  <2> QED
    BY <1>0, <2>1, <2>2, <2>3, <2>4 DEF RefsExact
<1>17. NeverEarly'
  <2>1. ASSUME NEW q \in Procs, NEW x \in ToSet(exec'[q]) PROVE when'[x] <= now'
    <3>1. x \in ToSet(exec[q]) /\ x # t
      BY <1>2
    <3>2. x \in Timers /\ when'[x] = when[x]
      BY <1>1, <1>9, <3>1
    <3> QED
      BY <1>0, <1>1, <3>1, <3>2 DEF NeverEarly
  <2> QED
    BY <2>1 DEF NeverEarly
<1>18. RunsOnce'
  <2>1. \A x \in ran' : Waiting(x)'
    BY <1>0, <1>1, <1>4 DEF RunsOnce, Waiting, EngineTypeOK
  <2>2. ASSUME NEW q \in Procs, NEW k \in 1..Len(exec'[q])
        PROVE  /\ pc'[q] \in {"check", "enter"} /\ k >= cursor'[q] => exec'[q][k] \notin ran'
               /\ pc'[q] = "run" /\ k > cursor'[q] => exec'[q][k] \notin ran'
               /\ /\ status'[exec'[q][k]] = "wait_for_execution"
                  /\ \/ pc'[q] = "utilize"
                     \/ k < cursor'[q]
                     \/ pc'[q] = "run" /\ k = cursor'[q]
                  => exec'[q][k] \in ran'
    <3>1. CASE q = p
      <4>1. /\ exec'[p][k] \in ToSet(exec[p]) /\ exec'[p][k] # t
            /\ k + 1 \in 1..Len(exec[p]) /\ exec'[p][k] = exec[p][k + 1]
        BY <1>2, <3>1
      <4>2. status'[exec'[p][k]] = status[exec'[p][k]]
        BY <1>4, <1>9, <4>1
      <4>3. status'[exec'[p][k]] = "wait_for_execution" => exec'[p][k] \in ran'
        BY <1>0, <1>1, <4>1, <4>2 DEF RunsOnce
      <4>4. pc'[p] \notin {"check", "enter", "run"}
        BY <1>2
      <4> QED
        BY <3>1, <4>3, <4>4
    <3>2. CASE q # p
      <4>0. exec'[q] = exec[q] /\ pc'[q] = pc[q] /\ cursor'[q] = cursor[q]
        BY <1>1, <1>2, <3>2
      <4>1. k \in 1..Len(exec[q]) /\ exec[q][k] \in ToSet(exec[q])
        BY <1>0, <4>0 DEF EngineTypeOK, ToSet
      <4>2. exec[q][k] # t /\ exec[q][k] \in Timers
        BY <1>2, <1>9, <3>2, <4>1
      <4> QED
        BY <1>0, <1>1, <1>4, <4>0, <4>1, <4>2 DEF RunsOnce
    <3> QED
      BY <3>1, <3>2
  <2> QED
    BY <2>1, <2>2 DEF RunsOnce
<1> QED
  BY <1>2, <1>11, <1>12, <1>13, <1>14, <1>16, <1>17, <1>18 DEF EngineInv
-----------------------------------------------------------------------------
(***************************************************************************)
(* The counters of timers.                                                 *)
(***************************************************************************)
\* QuantitiesExact, in terms of the values of the counters.
LEMMA ExactIsQuantitiesExact == QuantitiesExact <=> Exact(quantities, status, period)
BY DEF QuantitiesExact, Exact, Known, Counted

\* The same of the next state.
LEMMA ExactIsQuantitiesExactNext ==
  QuantitiesExact' <=> Exact(quantities', status', period')
BY DEF QuantitiesExact, Exact, Known, Counted

\* Every operation of a client but clear_all keeps the counters exact.
LEMMA ClientKeepsCounts ==
  ASSUME EngineInv, QuantitiesExact, NEW t \in Timers,
         \/ Allocate(t) \/ Dismiss(t)
         \/ \E pause \in Pauses, per \in Periods :
              Activate(t, pause, per) \/ Reschedule(t, pause, per)
         \/ RescheduleThrows(t) \/ DeactivateActive(t) \/ DeactivateWaiting(t)
  PROVE  QuantitiesExact'
<1>0. EngineTypeOK /\ ListHoldsActive /\ ExecHoldsWaiting /\ CursorInRange
  BY DEF EngineInv
<1>1. /\ quantities \in [TimerKind -> 0..SizeMax]
      /\ status \in [Timers -> TimerStatus] /\ period \in [Timers -> Nat]
  BY <1>0 DEF EngineTypeOK, CommonTypeOK
<1>2. Exact(quantities, status, period)
  BY ExactIsQuantitiesExact
<1> SUFFICES Exact(quantities', status', period')
  BY ExactIsQuantitiesExactNext
<1>3. CASE Allocate(t) \/ Dismiss(t)
  <2>1. UNCHANGED <<quantities, status, period>>
    BY <1>3 DEF Allocate, Dismiss, AllocateObject, DismissObject, engineVars
  <2> QED
    BY <1>2, <2>1
<1>4. ASSUME NEW pause \in Pauses, NEW per \in Periods, Activate(t, pause, per)
      PROVE  Exact(quantities', status', period')
  <2>1. /\ status[t] = "deactivated" /\ status'[t] # "deactivated" /\ period'[t] = per
        /\ \A x \in Timers : x # t => status'[x] = status[x] /\ period'[x] = period[x]
        /\ quantities' = IncTimerCount(quantities, Kind(per))
    BY <1>1, <1>4 DEF Activate
  <2>2. quantities \in [TimerKind -> 0..SizeMax]
    BY <1>1
  <2> QED
    BY <1>2, <2>1, <2>2, CountsNewTimer
<1>5. ASSUME NEW pause \in Pauses, NEW per \in Periods, Reschedule(t, pause, per)
      PROVE  Exact(quantities', status', period')
  <2> DEFINE between == [status EXCEPT ![t] = "deactivated"]
             less == DecTimerCount(quantities, Kind(period[t]))
  <2>1. /\ status[t] = "active" /\ status' = status /\ period'[t] = per
        /\ \A x \in Timers : x # t => period'[x] = period[x]
        /\ quantities' = IncTimerCount(less, Kind(per))
    BY <1>1, <1>5 DEF Reschedule
  <2>2. /\ between[t] = "deactivated"
        /\ \A x \in Timers : x # t => between[x] = status[x]
    BY <1>1
  <2>3. less \in [TimerKind -> 0..SizeMax]
    BY <1>1, CountTypes, KindType
  <2> HIDE DEF between
  <2>4. Exact(less, between, period)
    BY <1>1, <1>2, <2>1, <2>2, CountsLostTimer
  <2> HIDE DEF less
  <2>5. /\ between[t] = "deactivated" /\ status'[t] # "deactivated"
        /\ \A x \in Timers : x # t => status'[x] = between[x] /\ period'[x] = period[x]
    BY <2>1, <2>2
  <2>6. Exact(IncTimerCount(less, Kind(period'[t])), status', period')
    BY <2>3, <2>4, <2>5, CountsNewTimer
  <2> QED
    BY <2>1, <2>6
<1>6. CASE RescheduleThrows(t) \/ DeactivateActive(t)
  <2>1. /\ status[t] # "deactivated" /\ status'[t] = "deactivated" /\ period' = period
        /\ \A x \in Timers : x # t => status'[x] = status[x]
        /\ quantities' = DecTimerCount(quantities, Kind(period[t]))
    BY <1>1, <1>6 DEF RescheduleThrows, DeactivateActive
  <2> QED
    BY <1>1, <1>2, <2>1, CountsLostTimer
<1>7. CASE DeactivateWaiting(t)
  <2>1. /\ UNCHANGED <<quantities, period>>
        /\ \A x \in Timers : status[x] = "deactivated" <=> status'[x] = "deactivated"
    BY <1>1, <1>7 DEF DeactivateWaiting, commonVars
  <2> QED
    BY <1>2, <2>1, CountsSame
<1> QED
  BY <1>3, <1>4, <1>5, <1>6, <1>7

\* Every step of process_expired_timers keeps the counters exact.
LEMMA ProcessKeepsCounts ==
  ASSUME EngineInv, QuantitiesExact, NEW p \in Procs,
         \/ MakeExecList(p)
         \/ CheckPasses(p) \/ CheckFails(p) \/ CallAction(p)
         \/ FinishAction(p) \/ LockBack(p)
         \/ UtilizePeriodic(p) \/ UtilizeOther(p)
  PROVE  QuantitiesExact'
<1>0. EngineTypeOK /\ ListHoldsActive /\ ExecHoldsWaiting /\ CursorInRange
  BY DEF EngineInv
<1>1. /\ quantities \in [TimerKind -> 0..SizeMax]
      /\ status \in [Timers -> TimerStatus] /\ period \in [Timers -> Nat]
  BY <1>0 DEF EngineTypeOK, CommonTypeOK
<1>2. Exact(quantities, status, period)
  BY ExactIsQuantitiesExact
<1> SUFFICES Exact(quantities', status', period')
  BY ExactIsQuantitiesExactNext
<1>3. CASE \/ CheckPasses(p) \/ CheckFails(p) \/ CallAction(p)
           \/ FinishAction(p) \/ LockBack(p)
  <2>1. UNCHANGED <<quantities, status, period>>
    BY <1>3 DEF CheckPasses, CheckFails, CallAction, FinishAction, LockBack, commonVars
  <2> QED
    BY <1>2, <2>1
<1>8. CASE MakeExecList(p)
  <2>1. PICK n \in 1..Len(list) :
          /\ exec' = [exec EXCEPT ![p] = SubSeq(list, 1, n)]
          /\ status' = [x \in Timers |->
               IF x \in ToSet(exec'[p]) THEN "wait_for_execution" ELSE status[x]]
    BY <1>8 DEF MakeExecList
  <2>2. list \in Seq(Timers) /\ IsInjective(list) /\ n \in 0..Len(list)
    BY <1>0 DEF EngineTypeOK, ListHoldsActive
  <2>3. ToSet(SubSeq(list, 1, n)) \subseteq ToSet(list)
    BY <2>2, SplitSet
  <2>4. exec'[p] = SubSeq(list, 1, n)
    BY <1>0, <2>1 DEF EngineTypeOK
  <2>5. \A x \in Timers : x \in ToSet(exec'[p]) => status[x] = "active"
    BY <1>0, <2>3, <2>4 DEF ListHoldsActive
  <2>6. /\ UNCHANGED <<quantities, period>>
        /\ \A x \in Timers : status[x] = "deactivated" <=> status'[x] = "deactivated"
    BY <1>8, <2>1, <2>5 DEF MakeExecList, commonVars
  <2> QED
    BY <1>2, <2>6, CountsSame
<1>9. CASE UtilizePeriodic(p) \/ UtilizeOther(p)
  <2> DEFINE x == Head(exec[p])
  <2>1. x \in Timers /\ Waiting(x)
    BY <1>9, LeavesExec DEF UtilizePeriodic, UtilizeOther
  <2> HIDE DEF x
  <2>2. CASE UtilizePeriodic(p)
    <3>1. /\ UNCHANGED <<quantities, period>>
          /\ status' = [status EXCEPT ![x] = "active"]
      BY <2>2 DEF UtilizePeriodic, commonVars, x
    <3>2. \A y \in Timers : status[y] = "deactivated" <=> status'[y] = "deactivated"
      BY <1>1, <2>1, <3>1 DEF Waiting
    <3> QED
      BY <1>2, <3>1, <3>2, CountsSame
  <2>3. CASE UtilizeOther(p)
    <3>1. /\ quantities' = DecTimerCount(quantities, Kind(period[x])) /\ period' = period
          /\ status' = [status EXCEPT ![x] = "deactivated"]
      BY <2>3 DEF UtilizeOther, x
    <3>2. /\ status[x] # "deactivated" /\ status'[x] = "deactivated"
          /\ \A y \in Timers : y # x => status'[y] = status[y] /\ period'[y] = period[y]
      BY <1>1, <2>1, <3>1 DEF Waiting
    <3> QED
      BY <1>1, <1>2, <2>1, <3>1, <3>2, CountsLostTimer
  <2> QED
    BY <1>9, <2>2, <2>3
<1> QED
  BY <1>3, <1>8, <1>9

\* clear_all sets the counters to zero: right when nothing is being processed.
LEMMA CountsCleared ==
  ASSUME EngineInv, ClearAll, \A p \in Procs : pc[p] = "idle"
  PROVE  QuantitiesExact'
<1>1. \A p \in Procs : ToSet(exec[p]) = {}
  BY DEF EngineInv, CursorInRange, ToSet
<1>2. \A x \in Timers : ~Waiting(x)
  BY <1>1 DEF EngineInv, ExecHoldsWaiting
<1>3. \A x \in Timers : status[x] \in {"deactivated", "active"}
  BY <1>2 DEF EngineInv, EngineTypeOK, TimerStatus, Waiting
<1>4. \A x \in Timers : status'[x] = "deactivated"
  BY <1>3 DEF ClearAll, EngineInv, ListHoldsActive
<1>5. \A kind \in TimerKind : Counted(status', period', kind) = {}
  BY <1>4 DEF Counted
<1>6. Exact(quantities', status', period')
  BY <1>5, FS_EmptySet DEF Exact, ClearAll, ResetTimerCount
<1> QED
  BY <1>6, ExactIsQuantitiesExactNext

-----------------------------------------------------------------------------
(***************************************************************************)
(* The engine implements TimerService: every step of it is a step of the   *)
(* service, or changes nothing the users of the timers can tell.           *)
(***************************************************************************)
Cancelled == {t \in Timers : status[t] = "wait_for_deactivation"}

\* What the engine's invariant says of one timer.
LEMMA TypesOfTimers ==
  ASSUME EngineInv
  PROVE  /\ status \in [Timers -> TimerStatus]
         /\ when \in [Timers -> Nat] /\ period \in [Timers -> Nat]
         /\ now \in Nat /\ ran \subseteq Timers
         /\ \A t \in ran : Waiting(t)
         /\ \A t \in Timers : status[t] = "active" <=> t \in ToSet(list)
BY DEF EngineInv, EngineTypeOK, CommonTypeOK, ListHoldsActive, RunsOnce

\* The service starts where the manager does.
LEMMA ServiceInitially == EngineInit => Service!Init
BY DEF EngineInit, CommonInit, Service!Init, Phases, IfKnown

\* A step that changes neither the timers nor the time is not seen.
LEMMA NotSeen ==
  ASSUME UNCHANGED <<now, status, when, period, ran>>
  PROVE  UNCHANGED Service!vars
BY DEF Service!vars, Phases, IfKnown

\* activate() and reschedule() set the timer.
LEMMA ActivateSets ==
  ASSUME EngineInv, NEW t \in Timers, NEW pause \in Pauses, NEW per \in Periods,
         Activate(t, pause, per) \/ Reschedule(t, pause, per)
  PROVE  Service!Set(t, pause, per)
<1>1. /\ when' = [when EXCEPT ![t] = now + pause]
      /\ period' = [period EXCEPT ![t] = per]
      /\ status[t] \in {"deactivated", "active"}
      /\ status' = [status EXCEPT ![t] = "active"]
      /\ UNCHANGED <<now, ran>>
  BY TypesOfTimers DEF Activate, Reschedule
<1>2. Phases[t] \in {"off", "set"}
  BY <1>1 DEF Phases
<1>3. Phases' = [Phases EXCEPT ![t] = "set"]
  BY <1>1, TypesOfTimers DEF Phases
<1>4. IfKnown(when)' = [IfKnown(when) EXCEPT ![t] = now + pause]
  BY <1>1, TypesOfTimers DEF IfKnown
<1>5. IfKnown(period)' = [IfKnown(period) EXCEPT ![t] = per]
  BY <1>1, TypesOfTimers DEF IfKnown
<1>6. Cancelled' = Cancelled
  BY <1>1, TypesOfTimers DEF Cancelled
<1> QED
  BY <1>1, <1>2, <1>3, <1>4, <1>5, <1>6 DEF Service!Set, Cancelled

\* The timers of a set become deactivated: the service switches them off.
LEMMA SwitchesOff ==
  ASSUME EngineInv, NEW S \in SUBSET Timers, UNCHANGED <<now, when, period>>,
         ran' = ran \ S,
         status' = [t \in Timers |-> IF t \in S THEN "deactivated" ELSE status[t]]
  PROVE  Service!SwitchOff(S)
<1>1. Phases' = [t \in Timers |-> IF t \in S THEN "off" ELSE Phases[t]]
  BY TypesOfTimers DEF Phases
<1>2. IfKnown(when)' = [t \in Timers |-> IF t \in S THEN 0 ELSE IfKnown(when)[t]]
  BY TypesOfTimers DEF IfKnown
<1>3. IfKnown(period)' = [t \in Timers |-> IF t \in S THEN 0 ELSE IfKnown(period)[t]]
  BY TypesOfTimers DEF IfKnown
<1>4. Cancelled' = Cancelled \ S
  BY TypesOfTimers DEF Cancelled
<1> QED
  BY <1>1, <1>2, <1>3, <1>4 DEF Service!SwitchOff, Cancelled

\* deactivate(), and a reschedule() that throws, of an active timer.
LEMMA LeaveListCancels ==
  ASSUME EngineInv, NEW t \in Timers, DeactivateActive(t) \/ RescheduleThrows(t)
  PROVE  Service!Cancel(t)
<1>1. /\ status[t] = "active"
      /\ status' = [status EXCEPT ![t] = "deactivated"]
      /\ UNCHANGED <<now, when, period, ran>>
  BY DEF DeactivateActive, RescheduleThrows
<1>2. Phases[t] = "set"
  BY <1>1 DEF Phases
<1>3. t \notin ran
  BY <1>1, TypesOfTimers DEF Waiting
<1>4. ran' = ran \ {t}
  BY <1>1, <1>3
<1>5. status' = [x \in Timers |-> IF x \in {t} THEN "deactivated" ELSE status[x]]
  BY <1>1, TypesOfTimers
<1>6. Service!SwitchOff({t})
  BY <1>1, <1>4, <1>5, SwitchesOff
<1> QED
  BY <1>2, <1>6 DEF Service!Cancel

\* deactivate() of a timer that is being processed.
LEMMA DeactivateWaitingCancels ==
  ASSUME EngineInv, NEW t \in Timers, DeactivateWaiting(t)
  PROVE  Service!CancelTaken(t)
<1>1. /\ status[t] = "wait_for_execution"
      /\ status' = [status EXCEPT ![t] = "wait_for_deactivation"]
      /\ UNCHANGED <<now, when, period, ran>>
  BY DEF DeactivateWaiting, commonVars
<1>2. Phases[t] \in {"taken", "called"}
  BY <1>1 DEF Phases
<1>3. Phases' = Phases
  BY <1>1, TypesOfTimers DEF Phases
<1>4. IfKnown(when)' = IfKnown(when) /\ IfKnown(period)' = IfKnown(period)
  BY <1>1, TypesOfTimers DEF IfKnown
<1>5. Cancelled' = Cancelled \cup {t}
  BY <1>1, TypesOfTimers DEF Cancelled
<1> QED
  BY <1>1, <1>2, <1>3, <1>4, <1>5 DEF Service!CancelTaken, Cancelled

\* reset() switches off the timers in the list, and no other.
LEMMA ClearAllCancels ==
  ASSUME EngineInv, ClearAll
  PROVE  Service!CancelAll
<1>1. /\ status' = [t \in Timers |->
              IF t \in ToSet(list) THEN "deactivated" ELSE status[t]]
      /\ UNCHANGED <<now, when, period, ran>>
  BY DEF ClearAll
<1>2. PICK S \in SUBSET Timers : S = {t \in Timers : Phases[t] = "set"}
  OBVIOUS
<1>3. \A t \in Timers : t \in S <=> t \in ToSet(list)
  BY <1>2, TypesOfTimers DEF Phases
<1>4. ran' = ran \ S
  BY <1>1, <1>3, TypesOfTimers DEF Waiting
<1>5. status' = [t \in Timers |-> IF t \in S THEN "deactivated" ELSE status[t]]
  BY <1>1, <1>3
<1>6. Service!SwitchOff(S)
  BY <1>1, <1>4, <1>5, SwitchesOff
<1> QED
  BY <1>2, <1>6 DEF Service!CancelAll, Service!SwitchOff

\* make_exec_list() takes timers that have elapsed.
LEMMA MakeExecListTakes ==
  ASSUME EngineInv, NEW p \in Procs, MakeExecList(p)
  PROVE  \E S \in SUBSET Timers : Service!Take(S)
<1>0. list \in Seq(Timers) /\ IsInjective(list) /\ exec \in [Procs -> Seq(Timers)]
  BY DEF EngineInv, EngineTypeOK, ListHoldsActive
<1>1. PICK n \in 1..Len(list) :
        /\ IsElapsedPrefix(n)
        /\ exec' = [exec EXCEPT ![p] = SubSeq(list, 1, n)]
        /\ status' = [t \in Timers |->
             IF t \in ToSet(exec'[p]) THEN "wait_for_execution" ELSE status[t]]
        /\ UNCHANGED <<now, when, period, ran>>
  BY DEF MakeExecList, commonVars
<1> DEFINE taken == SubSeq(list, 1, n)
           S == ToSet(taken)
<1>2. /\ taken \in Seq(Timers) /\ Len(taken) = n
      /\ \A k \in 1..n : taken[k] = list[k]
      /\ S \subseteq ToSet(list)
  BY <1>0, SplitSet
<1>3. exec'[p] = taken
  BY <1>0, <1>1
<1> HIDE DEF taken
<1>4. S \in SUBSET Timers
  BY <1>2 DEF ToSet
<1>5. \A t \in S : status[t] = "active" /\ t \notin ran
  BY <1>2, <1>4, TypesOfTimers DEF Waiting
<1>6. \A t \in S : when[t] <= now
  <2>1. \A k \in 1..n : now >= when[list[k]]
    BY <1>1 DEF IsElapsedPrefix
  <2> SUFFICES ASSUME NEW t \in S PROVE when[t] <= now
    OBVIOUS
  <2>2. PICK k \in 1..n : t = list[k]
    BY <1>2 DEF ToSet
  <2>3. now \in Nat /\ when[t] \in Nat
    BY <1>4, TypesOfTimers
  <2> QED
    BY <2>1, <2>2, <2>3
<1>7. status' = [t \in Timers |-> IF t \in S THEN "wait_for_execution" ELSE status[t]]
  BY <1>1, <1>3
<1> HIDE DEF S
<1>8. \A t \in S : Phases[t] = "set" /\ IfKnown(when)[t] <= now
  BY <1>4, <1>5, <1>6 DEF Phases, IfKnown
<1>9. Phases' = [t \in Timers |-> IF t \in S THEN "taken" ELSE Phases[t]]
  BY <1>1, <1>4, <1>5, <1>7, TypesOfTimers DEF Phases
<1>10. IfKnown(when)' = IfKnown(when) /\ IfKnown(period)' = IfKnown(period)
  BY <1>1, <1>4, <1>5, <1>7, TypesOfTimers DEF IfKnown
<1>11. Cancelled' = Cancelled
  BY <1>4, <1>5, <1>7, TypesOfTimers DEF Cancelled
<1>12. Service!Take(S)
  BY <1>1, <1>8, <1>9, <1>10, <1>11 DEF Service!Take, Cancelled
<1> QED
  BY <1>4, <1>12

\* The status cannot change between its test and the call of the action.
EnterIsWaiting ==
  \A p \in Procs : pc[p] = "enter" => status[AtCursor(p)] = "wait_for_execution"

\* The action is called, of a timer whose action has not been.
LEMMA CallActionCalls ==
  ASSUME EngineInv, ThreadSafe \/ EnterIsWaiting, NEW p \in Procs, CallAction(p)
  PROVE  \E t \in Timers : Service!Call(t)
<1>0. /\ exec \in [Procs -> Seq(Timers)] /\ cursor[p] \in 1..Len(exec[p])
      /\ pc[p] = "enter" /\ cursor[p] >= cursor[p]
  BY DEF EngineInv, EngineTypeOK, CursorInRange, CallAction
<1>1. PICK t \in Timers : t = AtCursor(p)
  BY <1>0 DEF AtCursor
<1>2. Waiting(t)
  <2>1. t \in ToSet(exec[p])
    BY <1>0, <1>1 DEF AtCursor, ToSet
  <2> QED
    BY <2>1 DEF EngineInv, ExecHoldsWaiting
<1>3. t \notin ran
  BY <1>0, <1>1 DEF EngineInv, RunsOnce, AtCursor
<1>4. ran' = ran \cup {t} /\ UNCHANGED <<now, status, when, period>>
  BY <1>1 DEF CallAction, commonVars
<1>5. Phases[t] = "taken" /\ Phases' = [Phases EXCEPT ![t] = "called"]
  BY <1>2, <1>3, <1>4, TypesOfTimers DEF Phases, Waiting
<1>6. ThreadSafe \/ t \notin Cancelled
  BY <1>0, <1>1 DEF EnterIsWaiting, Cancelled
<1>7. IfKnown(when)' = IfKnown(when) /\ IfKnown(period)' = IfKnown(period)
  BY <1>4 DEF IfKnown
<1>8. Cancelled' = Cancelled
  BY <1>4 DEF Cancelled
<1> QED
  BY <1>4, <1>5, <1>6, <1>7, <1>8 DEF Service!Call, Cancelled

\* The head of an execution list that is being disposed of.
LEMMA HeadIsWaiting ==
  ASSUME EngineInv, NEW p \in Procs, pc[p] = "utilize"
  PROVE  /\ Head(exec[p]) \in Timers
         /\ Waiting(Head(exec[p]))
         /\ status[Head(exec[p])] = "wait_for_execution" => Head(exec[p]) \in ran
<1>1. exec[p] \in Seq(Timers) /\ exec[p] # <<>>
  BY DEF EngineInv, EngineTypeOK, CursorInRange
<1>2. Len(exec[p]) \in Nat /\ 1 \in 1..Len(exec[p]) /\ Head(exec[p]) = exec[p][1]
  BY <1>1
<1>3. Head(exec[p]) \in ToSet(exec[p]) /\ Head(exec[p]) \in Timers
  BY <1>1, <1>2 DEF ToSet
<1>4. Waiting(Head(exec[p]))
  BY <1>3 DEF EngineInv, ExecHoldsWaiting
<1>5. status[exec[p][1]] = "wait_for_execution" => exec[p][1] \in ran
  BY <1>2 DEF EngineInv, RunsOnce
<1> QED
  BY <1>2, <1>3, <1>4, <1>5

\* utilize_exec_list puts a periodic timer back, one period later.
LEMMA UtilizePeriodicPutsBack ==
  ASSUME EngineInv, NEW p \in Procs, UtilizePeriodic(p)
  PROVE  \E t \in Timers : Service!PutBack(t)
<1>0. pc[p] = "utilize"
  BY DEF UtilizePeriodic
<1>1. PICK t \in Timers : t = Head(exec[p])
  BY <1>0, HeadIsWaiting
<1>2. /\ status[t] = "wait_for_execution" /\ period[t] # 0 /\ t \in ran
      /\ when' = [when EXCEPT ![t] = @ + period[t]]
      /\ status' = [status EXCEPT ![t] = "active"]
      /\ ran' = ran \ {t}
      /\ UNCHANGED <<now, period>>
  BY <1>0, <1>1, HeadIsWaiting DEF UtilizePeriodic, MustBeRescheduled, LeaveTimer, commonVars
<1>3. Phases[t] = "called" /\ Phases' = [Phases EXCEPT ![t] = "set"]
  BY <1>2, TypesOfTimers DEF Phases
<1>4. IfKnown(when)' = [IfKnown(when) EXCEPT ![t] = @ + IfKnown(period)[t]]
  BY <1>2, TypesOfTimers DEF IfKnown
<1>5. IfKnown(period)' = IfKnown(period) /\ IfKnown(period)[t] # 0
  BY <1>2, TypesOfTimers DEF IfKnown
<1>6. Cancelled' = Cancelled /\ t \notin Cancelled
  BY <1>2, TypesOfTimers DEF Cancelled
<1> QED
  BY <1>2, <1>3, <1>4, <1>5, <1>6 DEF Service!PutBack, Cancelled

\* utilize_exec_list drops the others: they ran, or were deactivated.
LEMMA UtilizeOtherDrops ==
  ASSUME EngineInv, NEW p \in Procs, UtilizeOther(p)
  PROVE  \E t \in Timers : Service!Drop(t)
<1>0. pc[p] = "utilize"
  BY DEF UtilizeOther
<1>1. PICK t \in Timers : t = Head(exec[p])
  BY <1>0, HeadIsWaiting
<1>2. /\ Waiting(t) /\ (status[t] = "wait_for_execution" => t \in ran)
      /\ ~(status[t] = "wait_for_execution" /\ period[t] # 0)
      /\ status' = [status EXCEPT ![t] = "deactivated"]
      /\ ran' = ran \ {t}
      /\ UNCHANGED <<now, when, period>>
  BY <1>0, <1>1, HeadIsWaiting DEF UtilizeOther, MustBeRescheduled, LeaveTimer
<1>3. status' = [x \in Timers |-> IF x \in {t} THEN "deactivated" ELSE status[x]]
  BY <1>2, TypesOfTimers
<1>4. Service!SwitchOff({t})
  BY <1>2, <1>3, SwitchesOff
<1>5. \/ Phases[t] = "called" /\ (t \in Cancelled \/ IfKnown(period)[t] = 0)
      \/ Phases[t] = "taken" /\ t \in Cancelled
  BY <1>2 DEF Phases, Cancelled, IfKnown, Waiting
<1> QED
  BY <1>4, <1>5 DEF Service!Drop, Cancelled

-----------------------------------------------------------------------------
\* The invariant is inductive.
LEMMA InvariantStep == EngineInv /\ [ManagerNext]_managerVars => EngineInv'
<1> SUFFICES ASSUME EngineInv, [ManagerNext]_managerVars PROVE EngineInv'
  OBVIOUS
<1>1. CASE ClockAdvances
  BY <1>1, TickPreserves DEF ClockAdvances
<1>2. CASE Reset
  BY <1>2, ClearAllPreserves DEF Reset
<1>3. CASE ManagerCalls
  <2> SUFFICES ASSUME NEW t \in Timers,
                      \/ Allocate(t) \/ Dismiss(t) \/ RescheduleThrows(t) \/ Deactivate(t)
                      \/ \E pause \in Pauses, per \in Periods :
                           Activate(t, pause, per) \/ Reschedule(t, pause, per)
               PROVE  EngineInv'
    BY <1>3 DEF ManagerCalls
  <2>1. CASE Allocate(t) \/ Dismiss(t)
    BY <2>1, HolderPreserves
  <2>2. CASE RescheduleThrows(t) \/ DeactivateActive(t)
    BY <2>2, LeaveListPreserves
  <2>3. CASE DeactivateWaiting(t)
    BY <2>3, DeactivateWaitingPreserves
  <2>4. ASSUME NEW pause \in Pauses, NEW per \in Periods, Activate(t, pause, per)
        PROVE  EngineInv'
    BY <2>4, ActivatePreserves
  <2>5. ASSUME NEW pause \in Pauses, NEW per \in Periods, Reschedule(t, pause, per)
        PROVE  EngineInv'
    BY <2>5, ReschedulePreserves
  <2> QED
    BY <2>1, <2>2, <2>3, <2>4, <2>5 DEF Deactivate
<1>4. CASE ProcessStep
  <2> SUFFICES ASSUME NEW p \in Procs,
                      \/ MakeExecList(p)
                      \/ CheckPasses(p) \/ CheckFails(p) \/ CallAction(p)
                      \/ FinishAction(p) \/ LockBack(p)
                      \/ UtilizePeriodic(p) \/ UtilizeOther(p)
               PROVE  EngineInv'
    BY <1>4 DEF ProcessStep
  <2>1. CASE MakeExecList(p)
    BY <2>1, MakeExecListPreserves
  <2>2. CASE \/ CheckPasses(p) \/ CheckFails(p) \/ CallAction(p)
             \/ FinishAction(p) \/ LockBack(p)
    BY <2>2, ExecStepPreserves
  <2>3. CASE UtilizePeriodic(p)
    BY <2>3, UtilizePeriodicPreserves
  <2>4. CASE UtilizeOther(p)
    BY <2>4, UtilizeOtherPreserves
  <2> QED
    BY <2>1, <2>2, <2>3, <2>4
<1>5. CASE UNCHANGED managerVars
  BY <1>5, EngineStutters DEF managerVars
<1> QED
  BY <1>1, <1>2, <1>3, <1>4, <1>5 DEF ManagerNext

\* Every reachable state of the manager satisfies the invariant.
THEOREM Invariant == ManagerSpec => []EngineInv
<1>1. ManagerInit => EngineInv
  BY EngineInitially DEF ManagerInit
<1> QED
  BY <1>1, InvariantStep, PTL DEF ManagerSpec

\* Type correctness.
THEOREM TypeCorrect == ManagerSpec => []EngineTypeOK
<1>1. EngineInv => EngineTypeOK
  BY DEF EngineInv
<1> QED
  BY <1>1, Invariant, PTL

\* The reference counts are exact: no dangling pointer, no leak.
THEOREM References == ManagerSpec => []RefsExact
<1>1. EngineInv => RefsExact
  BY DEF EngineInv
<1> QED
  BY <1>1, Invariant, PTL

\* No two calls of process_expired_timers share a timer.
THEOREM Exclusive == ManagerSpec => []ExecHoldsWaiting
<1>1. EngineInv => ExecHoldsWaiting
  BY DEF EngineInv
<1> QED
  BY <1>1, Invariant, PTL

\* An action runs at most once per pass, and is not skipped.
THEOREM RunsExactlyOnce == ManagerSpec => []RunsOnce
<1>1. EngineInv => RunsOnce
  BY DEF EngineInv
<1> QED
  BY <1>1, Invariant, PTL

\* No action runs before its time.
THEOREM NotBeforeTime == ManagerSpec => []NeverEarly
<1>1. EngineInv => NeverEarly
  BY DEF EngineInv
<1> QED
  BY <1>1, Invariant, PTL

(***************************************************************************)
(* The counters are exact, if reset() is not called during processing.     *)
(***************************************************************************)
THEOREM Quantities ==
  ASSUME ~ResetWhileProcessing
  PROVE  ManagerSpec => []QuantitiesExact
<1>1. ManagerInit => QuantitiesExact
  <2> SUFFICES ASSUME ManagerInit PROVE QuantitiesExact
    OBVIOUS
  <2>1. \A kind \in TimerKind : Counted(status, period, kind) = {}
    BY DEF ManagerInit, EngineInit, Counted
  <2>2. Exact(quantities, status, period)
    BY <2>1, FS_EmptySet DEF ManagerInit, EngineInit, CommonInit, ResetTimerCount, Exact
  <2> QED
    BY <2>2, ExactIsQuantitiesExact
<1>2. EngineInv /\ QuantitiesExact /\ [ManagerNext]_managerVars => QuantitiesExact'
  <2> SUFFICES ASSUME EngineInv, QuantitiesExact, [ManagerNext]_managerVars PROVE QuantitiesExact'
    OBVIOUS
  <2>1. CASE ClockAdvances \/ UNCHANGED managerVars
    <3>1. UNCHANGED <<quantities, status, period>>
      BY <2>1 DEF ClockAdvances, managerVars, commonVars, engineVars
    <3> QED
      BY <3>1, ExactIsQuantitiesExact, ExactIsQuantitiesExactNext
  <2>2. CASE Reset
    BY <2>2, CountsCleared DEF Reset
  <2>3. CASE ManagerCalls
    BY <2>3, ClientKeepsCounts DEF ManagerCalls, Deactivate
  <2>4. CASE ProcessStep
    BY <2>4, ProcessKeepsCounts DEF ProcessStep
  <2> QED
    BY <2>1, <2>2, <2>3, <2>4 DEF ManagerNext
<1> QED
  BY <1>1, <1>2, Invariant, PTL DEF ManagerSpec

\* make_exec_list takes every elapsed timer.
THEOREM TakesAll == ManagerSpec => NoneLeftBehind
<1> DEFINE A == \A p \in Procs : pc[p] = "idle" /\ pc'[p] = "check" =>
                  \A t \in Timers : status'[t] = "active" => when[t] > now
<1>1. EngineInv /\ [ManagerNext]_managerVars => [A]_managerVars
  <2> SUFFICES ASSUME EngineInv, EngineInv', ManagerNext,
                      NEW p \in Procs, pc[p] = "idle", pc'[p] = "check",
                      NEW t \in Timers, status'[t] = "active"
               PROVE  when[t] > now
    BY InvariantStep
  <2>1. MakeExecList(p)
    <3>1. ~ UNCHANGED pc
      OBVIOUS
    <3>2. PICK q \in Procs :
            \/ MakeExecList(q)
            \/ CheckPasses(q) \/ CheckFails(q) \/ CallAction(q)
            \/ FinishAction(q) \/ LockBack(q)
            \/ UtilizePeriodic(q) \/ UtilizeOther(q)
      BY <3>1 DEF ManagerNext, ClockAdvances, Reset, ClearAll, ManagerCalls, Allocate, Dismiss, Deactivate,
                  DeactivateActive, DeactivateWaiting, RescheduleThrows, Activate, Reschedule,
                  ProcessStep, engineVars
    <3>3. pc \in [Procs -> Stage]
      BY DEF EngineInv, EngineTypeOK
    <3>4. q = p
      BY <3>2, <3>3 DEF MakeExecList, CheckPasses, CheckFails, CallAction, FinishAction,
                        LockBack, UtilizePeriodic, UtilizeOther, LeaveTimer
    <3> QED
      BY <3>2, <3>4 DEF CheckPasses, CheckFails, CallAction, FinishAction, LockBack,
                        UtilizePeriodic, UtilizeOther
  <2>2. PICK n \in 1..Len(list) :
          IsElapsedPrefix(n) /\ list' = SubSeq(list, n + 1, Len(list))
    BY <2>1 DEF MakeExecList
  <2>3. list \in Seq(Timers) /\ IsInjective(list) /\ n \in 0..Len(list) /\ Len(list) \in Nat
    BY DEF EngineInv, EngineTypeOK, ListHoldsActive
  <2>4. PICK k \in 1..Len(list') : list'[k] = t
    <3>1. t \in ToSet(list') /\ list' \in Seq(Timers)
      BY DEF EngineInv, EngineTypeOK, ListHoldsActive
    <3>2. DOMAIN list' = 1..Len(list')
      BY <3>1
    <3> QED
      BY <3>1, <3>2 DEF ToSet
  <2>5. n + k \in 1..Len(list) /\ t = list[n + k] /\ n + 1 \in 1..Len(list) /\ n < Len(list)
    <3>1. Len(list') = Len(list) - n /\ \A j \in 1..(Len(list) - n) : list'[j] = list[n + j]
      BY <2>2, <2>3, SplitSet
    <3> QED
      BY <2>3, <2>4, <3>1
  <2>6. now < when[list[n + 1]]
    BY <2>2, <2>5 DEF IsElapsedPrefix
  <2>7. n + 1 = n + k \/ when[list[n + 1]] <= when[list[n + k]]
    BY <2>3, <2>4, <2>5 DEF EngineInv, ListSorted, SortedBy
  <2>8. when[list[n + 1]] \in Nat /\ when[t] \in Nat /\ now \in Nat
    <3>1. list[n + 1] \in Timers
      BY <2>3, <2>5
    <3> QED
      BY <3>1 DEF EngineInv, EngineTypeOK, CommonTypeOK
  <2> QED
    BY <2>5, <2>6, <2>7, <2>8
<1> QED
  BY <1>1, Invariant, PTL DEF ManagerSpec, NoneLeftBehind

\* Only the innermost of the nested calls is outside of an action.
NestedCalls ==
  \A p, q \in Procs : p < q /\ pc[p] # "run" => pc[q] = "idle"

(***************************************************************************)
(* In a thread-unsafe manager the test of the status is still valid when   *)
(* the action is called: while the innermost call is between the two,      *)
(* nobody else can take a step.                                            *)
(***************************************************************************)
LEMMA EnterStaysWaiting ==
  ASSUME ~ThreadSafe
  PROVE  ManagerSpec => []EnterIsWaiting
<1>1. ManagerInit => EnterIsWaiting /\ NestedCalls
  BY DEF ManagerInit, EngineInit, EnterIsWaiting, NestedCalls
<1>4. EngineInv /\ NestedCalls /\ [ManagerNext]_managerVars => NestedCalls'
  <2> SUFFICES ASSUME EngineInv, NestedCalls, [ManagerNext]_managerVars,
                      NEW p \in Procs, NEW q \in Procs, p < q, pc'[p] # "run"
               PROVE  pc'[q] = "idle"
    BY DEF NestedCalls
  <2>0. pc \in [Procs -> Stage] /\ Procs \subseteq Nat
    BY ProcsAssumption DEF EngineInv, EngineTypeOK
  <2>1. CASE UNCHANGED pc
    BY <2>1 DEF NestedCalls
  <2>2. CASE ProcessStep
    <3>1. PICK r \in Procs :
            \/ MayProcess(r) /\ MakeExecList(r)
            \/ /\ MayGoOn(r) /\ pc[r] # "idle"
               /\ \/ CheckPasses(r) \/ CheckFails(r) \/ CallAction(r) \/ FinishAction(r)
                  \/ LockBack(r) \/ UtilizePeriodic(r) \/ UtilizeOther(r)
      BY <2>2 DEF ProcessStep, CheckPasses, CheckFails, CallAction, FinishAction,
                  LockBack, UtilizePeriodic, UtilizeOther
    <3>2. \A x \in Procs : x # r => pc'[x] = pc[x]
      BY <2>0, <3>1 DEF MakeExecList, CheckPasses, CheckFails, CallAction, FinishAction,
                  LockBack, UtilizePeriodic, UtilizeOther, LeaveTimer
    <3>3. CASE r = p
      BY <2>0, <3>1, <3>2, <3>3 DEF MayProcess, MayGoOn
    <3>4. CASE r = q
      BY <2>0, <3>1, <3>2, <3>4 DEF MayProcess, NestedCalls
    <3>5. CASE r # p /\ r # q
      BY <3>2, <3>5 DEF NestedCalls
    <3> QED
      BY <3>3, <3>4, <3>5
  <2>3. ManagerNext => UNCHANGED pc \/ ProcessStep
    BY DEF ManagerNext, ClockAdvances, Reset, ClearAll, ManagerCalls, Allocate, Dismiss, Deactivate,
           DeactivateActive, DeactivateWaiting, RescheduleThrows, Activate, Reschedule, engineVars
  <2> QED
    BY <2>1, <2>2, <2>3 DEF managerVars, engineVars
<1>2. EngineInv /\ NestedCalls /\ EnterIsWaiting /\ [ManagerNext]_managerVars => EnterIsWaiting'
  <2> SUFFICES ASSUME EngineInv, NestedCalls, EnterIsWaiting, [ManagerNext]_managerVars,
                      NEW p \in Procs, pc'[p] = "enter"
               PROVE  status'[AtCursor(p)'] = "wait_for_execution"
    BY DEF EnterIsWaiting
  <2>0. /\ pc \in [Procs -> Stage] /\ Procs \subseteq Nat
        /\ exec \in [Procs -> Seq(Timers)] /\ cursor \in [Procs -> Nat]
    BY ProcsAssumption DEF EngineInv, EngineTypeOK
  <2>1. CASE ClockAdvances \/ UNCHANGED managerVars
    BY <2>1 DEF ClockAdvances, managerVars, engineVars, EnterIsWaiting, AtCursor
  <2>2. CASE Reset \/ ManagerCalls
    <3>1. \/ UNCHANGED <<status, pc, exec, cursor>>
          \/ MayCall /\ UNCHANGED pc
      BY <2>2 DEF Reset, ClearAll, ManagerCalls, Allocate, Dismiss, Deactivate,
                  DeactivateActive, DeactivateWaiting, RescheduleThrows, Activate, Reschedule,
                  engineVars
    <3> QED
      BY <3>1 DEF MayCall, EnterIsWaiting, AtCursor
  <2>3. CASE ProcessStep
    <3>1. PICK q \in Procs :
            \/ MayProcess(q) /\ MakeExecList(q)
            \/ /\ MayGoOn(q) /\ pc[q] # "idle"
               /\ \/ CheckPasses(q) \/ CheckFails(q) \/ CallAction(q) \/ FinishAction(q)
                  \/ LockBack(q) \/ UtilizePeriodic(q) \/ UtilizeOther(q)
      BY <2>3 DEF ProcessStep, CheckPasses, CheckFails, CallAction, FinishAction,
                  LockBack, UtilizePeriodic, UtilizeOther
    <3>2. CASE q = p
      <4>1. pc'[p] = "enter" => CheckPasses(p)
        BY <2>0, <3>1, <3>2 DEF MakeExecList, CheckFails, CallAction, FinishAction,
                        LockBack, UtilizePeriodic, UtilizeOther, LeaveTimer
      <4> QED
        BY <4>1 DEF CheckPasses, AtCursor
    <3>3. CASE q # p
      <4>1. pc'[p] = pc[p]
        BY <2>0, <3>1, <3>3 DEF MakeExecList, CheckPasses, CheckFails, CallAction, FinishAction,
                        LockBack, UtilizePeriodic, UtilizeOther, LeaveTimer
      <4>2. pc[p] = "enter"
        BY <4>1
      <4>4. CASE q < p
        BY <3>1, <4>2, <4>4 DEF MayGoOn, MayProcess
      <4>5. CASE p < q
        BY <3>1, <4>2, <4>5 DEF MayProcess, NestedCalls
      <4> QED
        BY <2>0, <3>3, <4>4, <4>5
    <3> QED
      BY <3>2, <3>3
  <2> QED
    BY <2>1, <2>2, <2>3 DEF ManagerNext
<1> QED
  BY <1>1, <1>2, <1>4, Invariant, PTL DEF ManagerSpec

\* A thread-unsafe manager never runs the action of a deactivated timer.
THEOREM NoStaleCheck ==
  ASSUME ~ThreadSafe
  PROVE  ManagerSpec => DeactivatedNeverRuns
<1>1. EnterIsWaiting =>
        \A p \in Procs : pc[p] = "enter" /\ pc'[p] = "run" =>
          status[AtCursor(p)] = "wait_for_execution"
  BY DEF EnterIsWaiting
<1> QED
  BY <1>1, EnterStaysWaiting, PTL DEF DeactivatedNeverRuns

(***************************************************************************)
(* A timer that waits is left alone by everybody but utilize_exec_list, and *)
(* one that was deactivated meanwhile is not rescheduled.                  *)
(***************************************************************************)
THEOREM WaitingIsLeftAlone == ManagerSpec => WaitingLeavesOnlyByUtilize
<1> DEFINE A(t) ==
      /\ status[t] = "wait_for_deactivation" /\ status'[t] # status[t] =>
           status'[t] = "deactivated"
      /\ Waiting(t) /\ ~(status'[t] \in {"wait_for_execution", "wait_for_deactivation"}) =>
           \E p \in Procs : pc[p] = "utilize" /\ t \in ToSet(exec[p])
<1>1. EngineInv /\ [ManagerNext]_managerVars => \A t \in Timers : A(t)
  <2> SUFFICES ASSUME EngineInv, [ManagerNext]_managerVars, NEW t \in Timers PROVE A(t)
    OBVIOUS
  <2>0. /\ status \in [Timers -> TimerStatus] /\ exec \in [Procs -> Seq(Timers)]
        /\ status[t] = "active" <=> t \in ToSet(list)
    BY DEF EngineInv, EngineTypeOK, ListHoldsActive
  <2>1. CASE UNCHANGED status
    BY <2>1 DEF Waiting
  <2>2. CASE Reset
    BY <2>0, <2>2 DEF Reset, ClearAll, Waiting
  <2>3. CASE ManagerCalls
    BY <2>0, <2>1, <2>3 DEF ManagerCalls, Allocate, Dismiss, Deactivate, DeactivateActive,
      DeactivateWaiting, RescheduleThrows, Activate, Reschedule, Waiting, engineVars
  <2>4. CASE ProcessStep
    <3>1. PICK p \in Procs : \/ UNCHANGED status
                             \/ MakeExecList(p)
                             \/ UtilizePeriodic(p) \/ UtilizeOther(p)
      BY <2>4 DEF ProcessStep, CheckPasses, CheckFails, CallAction, FinishAction, LockBack
    <3>2. CASE MakeExecList(p)
      <4>1. PICK n \in 1..Len(list) :
              /\ exec' = [exec EXCEPT ![p] = SubSeq(list, 1, n)]
              /\ status' = [x \in Timers |->
                   IF x \in ToSet(exec'[p]) THEN "wait_for_execution" ELSE status[x]]
        BY <3>2 DEF MakeExecList
      <4>2. list \in Seq(Timers) /\ IsInjective(list) /\ n \in 0..Len(list)
        BY DEF EngineInv, EngineTypeOK, ListHoldsActive
      <4>3. ToSet(SubSeq(list, 1, n)) \subseteq ToSet(list)
        BY <4>2, SplitSet
      <4>4. exec'[p] = SubSeq(list, 1, n)
        BY <2>0, <4>1
      <4>5. t \in ToSet(exec'[p]) => status[t] = "active"
        BY <2>0, <4>3, <4>4
      <4> QED
        BY <4>1, <4>5 DEF Waiting
    <3>3. CASE UtilizePeriodic(p) \/ UtilizeOther(p)
      <4>1. pc[p] = "utilize"
        BY <3>3 DEF UtilizePeriodic, UtilizeOther
      <4>2. exec[p] # <<>> /\ Head(exec[p]) \in ToSet(exec[p])
        BY <2>0, <4>1 DEF EngineInv, CursorInRange, ToSet
      <4>3. t # Head(exec[p]) => status'[t] = status[t]
        BY <2>0, <3>3 DEF UtilizePeriodic, UtilizeOther
      <4>4. CASE t # Head(exec[p])
        BY <4>3, <4>4 DEF Waiting
      <4>5. CASE t = Head(exec[p])
        BY <2>0, <3>3, <4>1, <4>2, <4>5 DEF UtilizePeriodic, UtilizeOther, MustBeRescheduled
      <4> QED
        BY <4>4, <4>5
    <3> QED
      BY <2>1, <3>1, <3>2, <3>3
  <2>5. CASE ClockAdvances \/ UNCHANGED managerVars
    BY <2>1, <2>5 DEF ClockAdvances, managerVars, engineVars
  <2> QED
    BY <2>2, <2>3, <2>4, <2>5 DEF ManagerNext
<1> QED
  BY <1>1, Invariant, PTL DEF ManagerSpec, WaitingLeavesOnlyByUtilize

\* Every step of the manager is a step of the service, or not seen.
LEMMA StepServes ==
  ASSUME EngineInv, ThreadSafe \/ EnterIsWaiting, [ManagerNext]_managerVars
  PROVE  [Service!Next]_(Service!vars)
<1>1. CASE ClockAdvances
  <2>1. now' = now + 1 /\ UNCHANGED <<status, when, period, ran>>
    BY <1>1 DEF ClockAdvances, Tick, engineVars
  <2>2. Service!TimePasses
    BY <2>1 DEF Service!TimePasses, Phases, IfKnown
  <2> QED
    BY <2>2 DEF Service!Next
<1>2. CASE Reset
  BY <1>2, ClearAllCancels DEF Reset, Service!Next
<1>3. CASE ManagerCalls
  <2>1. PICK t \in Timers :
          \/ Allocate(t) \/ Dismiss(t) \/ RescheduleThrows(t)
          \/ DeactivateActive(t) \/ DeactivateWaiting(t)
          \/ \E pause \in Pauses, per \in Periods :
               Activate(t, pause, per) \/ Reschedule(t, pause, per)
    BY <1>3 DEF ManagerCalls, Deactivate
  <2>2. CASE Allocate(t) \/ Dismiss(t)
    <3>1. UNCHANGED <<now, status, when, period, ran>>
      BY <2>2 DEF Allocate, AllocateObject, Dismiss, DismissObject, engineVars
    <3> QED
      BY <3>1, NotSeen
  <2>3. CASE RescheduleThrows(t) \/ DeactivateActive(t)
    BY <2>3, LeaveListCancels DEF Service!Next
  <2>4. CASE DeactivateWaiting(t)
    BY <2>4, DeactivateWaitingCancels DEF Service!Next
  <2>5. ASSUME NEW pause \in Pauses, NEW per \in Periods,
               Activate(t, pause, per) \/ Reschedule(t, pause, per)
        PROVE  Service!Next
    BY <2>5, ActivateSets DEF Service!Next
  <2> QED
    BY <2>1, <2>2, <2>3, <2>4, <2>5
<1>4. CASE ProcessStep
  <2>1. PICK p \in Procs :
          \/ MakeExecList(p) \/ CheckPasses(p) \/ CheckFails(p) \/ CallAction(p)
          \/ FinishAction(p) \/ LockBack(p) \/ UtilizePeriodic(p) \/ UtilizeOther(p)
    BY <1>4 DEF ProcessStep
  <2>2. CASE MakeExecList(p)
    BY <2>2, MakeExecListTakes DEF Service!Next
  <2>3. CASE CheckPasses(p) \/ CheckFails(p) \/ FinishAction(p) \/ LockBack(p)
    <3>1. UNCHANGED <<now, status, when, period, ran>>
      BY <2>3 DEF CheckPasses, CheckFails, FinishAction, LockBack, commonVars
    <3> QED
      BY <3>1, NotSeen
  <2>4. CASE CallAction(p)
    BY <2>4, CallActionCalls DEF Service!Next
  <2>5. CASE UtilizePeriodic(p)
    BY <2>5, UtilizePeriodicPutsBack DEF Service!Next
  <2>6. CASE UtilizeOther(p)
    BY <2>6, UtilizeOtherDrops DEF Service!Next
  <2> QED
    BY <2>1, <2>2, <2>3, <2>4, <2>5, <2>6
<1>5. CASE UNCHANGED managerVars
  BY <1>5, NotSeen DEF managerVars, commonVars, engineVars
<1> QED
  BY <1>1, <1>2, <1>3, <1>4, <1>5 DEF ManagerNext

(***************************************************************************)
(* The manager implements the service, in both thread-safety modes and     *)
(* also when reset() is called while timers are processed.                 *)
(***************************************************************************)
THEOREM Implements == ManagerSpec => Promise
<1>1. ManagerInit => Service!Init
  BY ServiceInitially DEF ManagerInit
<1>2. EngineInv /\ (ThreadSafe \/ EnterIsWaiting) /\ [ManagerNext]_managerVars
        => [Service!Next]_(Service!vars)
  BY StepServes
<1>4. CASE ThreadSafe
  <2>1. EngineInv /\ [ManagerNext]_managerVars => [Service!Next]_(Service!vars)
    BY <1>2, <1>4
  <2> QED
    BY <1>1, <2>1, Invariant, PTL DEF ManagerSpec, Promise, Service!Spec
<1>5. CASE ~ThreadSafe
  <2>1. ManagerSpec => []EnterIsWaiting
    BY <1>5, EnterStaysWaiting
  <2> QED
    BY <1>1, <1>2, <2>1, Invariant, PTL DEF ManagerSpec, Promise, Service!Spec
<1> QED
  BY <1>4, <1>5
=============================================================================
