---------------------------- MODULE SharedLemmas ----------------------------
(***************************************************************************)
(* Facts the proofs about every engine, and about every thread over an     *)
(* engine, rest on: the counters of timers; the sequence operators the     *)
(* engines are modelled with (insertion, removal, splitting in two, the    *)
(* tail), for the elements of the result and for sequences without         *)
(* repetition; induction and loops; and what the thread keeps true by      *)
(* itself, whatever engine it runs and however many clients call join().   *)
(***************************************************************************)
EXTENDS EngineCommon, TimerThread, SequencesExt, SequenceTheorems, FiniteSetTheorems,
        WellFoundedInduction, TLAPS


\* The counters stay within std::size_t.
LEMMA CountTypes ==
  ASSUME NEW q \in [TimerKind -> 0..SizeMax], NEW kind \in TimerKind
  PROVE  /\ IncTimerCount(q, kind) \in [TimerKind -> 0..SizeMax]
         /\ DecTimerCount(q, kind) \in [TimerKind -> 0..SizeMax]
BY SizeMaxAssumption DEF IncTimerCount, DecTimerCount

\* Every timer is of one of the two kinds that are counted.
LEMMA KindType == \A per : Kind(per) \in TimerKind
BY DEF Kind, TimerKind

(***************************************************************************)
(* The counters of timers.  Counted(st, pr, kind) are the timers of a kind *)
(* the engine knows when the statuses are st and the periods pr, and q is  *)
(* exact if it agrees with them.                                           *)
(***************************************************************************)
Counted(st, pr, kind) ==
  {t \in Timers : st[t] # "deactivated" /\ Kind(pr[t]) = kind}

Exact(q, st, pr) == \A kind \in TimerKind : q[kind] = Cardinality(Counted(st, pr, kind))

\* There are finitely many timers, so their count is a number.
LEMMA CountedFinite ==
  ASSUME NEW st, NEW pr, NEW kind
  PROVE  /\ IsFiniteSet(Counted(st, pr, kind))
         /\ Cardinality(Counted(st, pr, kind)) \in Nat
<1>1. IsFiniteSet(Counted(st, pr, kind))
  BY TimersAssumption, FS_Subset DEF Counted
<1> QED
  BY <1>1, FS_CardinalityType

\* A timer becomes known: its kind's counter is incremented and cannot wrap.
LEMMA CountsNewTimer ==
  ASSUME NEW q \in [TimerKind -> 0..SizeMax], NEW st, NEW pr, NEW st2, NEW pr2,
         NEW t \in Timers, st[t] = "deactivated", st2[t] # "deactivated",
         \A x \in Timers : x # t => st2[x] = st[x] /\ pr2[x] = pr[x],
         Exact(q, st, pr)
  PROVE  Exact(IncTimerCount(q, Kind(pr2[t])), st2, pr2)
<1> DEFINE kind == Kind(pr2[t])
           old == Counted(st, pr, kind)
<1>1. kind \in TimerKind
  BY KindType
<1>2. Counted(st2, pr2, kind) = old \cup {t} /\ t \notin old
  BY DEF Counted
<1>3. \A k \in TimerKind : k # kind => Counted(st2, pr2, k) = Counted(st, pr, k)
  BY DEF Counted
<1> HIDE DEF kind
<1>4. IsFiniteSet(old) /\ Cardinality(old) \in Nat
  BY CountedFinite
<1> HIDE DEF old
<1>5. IsFiniteSet(old \cup {t}) /\ Cardinality(old \cup {t}) = Cardinality(old) + 1
  BY <1>2, <1>4, FS_AddElement
<1>6. old \cup {t} \subseteq Timers
  BY DEF old, Counted
<1>7. Cardinality(old) + 1 <= Cardinality(Timers) /\ Cardinality(Timers) \in Nat
  BY <1>5, <1>6, TimersAssumption, FS_Subset, FS_CardinalityType
<1>8. q[kind] = Cardinality(old) /\ q[kind] # SizeMax
  BY <1>1, <1>4, <1>7, SizeMaxAssumption DEF Exact, old
<1>9. /\ IncTimerCount(q, kind)[kind] = Cardinality(old) + 1
      /\ \A k \in TimerKind : k # kind => IncTimerCount(q, kind)[k] = q[k]
  BY <1>1, <1>8 DEF IncTimerCount
<1> QED
  BY <1>2, <1>3, <1>5, <1>9 DEF Exact, kind

\* A timer is forgotten: its kind's counter is decremented and cannot wrap.
LEMMA CountsLostTimer ==
  ASSUME NEW q \in [TimerKind -> 0..SizeMax], NEW st, NEW pr, NEW st2, NEW pr2,
         NEW t \in Timers, st[t] # "deactivated", st2[t] = "deactivated",
         \A x \in Timers : x # t => st2[x] = st[x] /\ pr2[x] = pr[x],
         Exact(q, st, pr)
  PROVE  Exact(DecTimerCount(q, Kind(pr[t])), st2, pr2)
<1> DEFINE kind == Kind(pr[t])
           old == Counted(st, pr, kind)
<1>1. kind \in TimerKind
  BY KindType
<1>2. Counted(st2, pr2, kind) = old \ {t} /\ t \in old
  BY DEF Counted
<1>3. \A k \in TimerKind : k # kind => Counted(st2, pr2, k) = Counted(st, pr, k)
  BY DEF Counted
<1> HIDE DEF kind
<1>4. IsFiniteSet(old) /\ Cardinality(old) \in Nat
  BY CountedFinite
<1> HIDE DEF old
<1>5. IsFiniteSet(old \ {t}) /\ Cardinality(old \ {t}) = Cardinality(old) - 1
  BY <1>2, <1>4, FS_RemoveElement
<1>6. Cardinality(old \ {t}) \in Nat
  BY <1>5, FS_CardinalityType
<1>7. q[kind] = Cardinality(old) /\ q[kind] # 0
  BY <1>1, <1>4, <1>5, <1>6 DEF Exact, old
<1>8. /\ DecTimerCount(q, kind)[kind] = Cardinality(old) - 1
      /\ \A k \in TimerKind : k # kind => DecTimerCount(q, kind)[k] = q[k]
  BY <1>1, <1>7 DEF DecTimerCount
<1> QED
  BY <1>2, <1>3, <1>5, <1>8 DEF Exact, kind

\* The kinds and the presence of all timers are the same: so are the counts.
LEMMA CountsSame ==
  ASSUME NEW q, NEW st, NEW pr, NEW st2, NEW pr2,
         \A x \in Timers : /\ st[x] = "deactivated" <=> st2[x] = "deactivated"
                           /\ pr2[x] = pr[x],
         Exact(q, st, pr)
  PROVE  Exact(q, st2, pr2)
<1>1. \A k \in TimerKind : Counted(st2, pr2, k) = Counted(st, pr, k)
  BY DEF Counted
<1> QED
  BY <1>1 DEF Exact

-----------------------------------------------------------------------------
\* The elements of a concatenation, by position.
LEMMA ConcatElements ==
  ASSUME NEW S, NEW s \in Seq(S), NEW t \in Seq(S)
  PROVE  /\ s \o t \in Seq(S)
         /\ Len(s \o t) = Len(s) + Len(t)
         /\ \A k \in 1..(Len(s) + Len(t)) :
              (s \o t)[k] = IF k <= Len(s) THEN s[k] ELSE t[k - Len(s)]
BY ConcatProperties

\* InsertAt puts e at position i and shifts what was there and behind.
LEMMA InsertAtElements ==
  ASSUME NEW S, NEW s \in Seq(S), NEW e \in S, NEW i \in 1..(Len(s) + 1)
  PROVE  /\ InsertAt(s, i, e) \in Seq(S)
         /\ Len(InsertAt(s, i, e)) = Len(s) + 1
         /\ \A k \in 1..(Len(s) + 1) :
              InsertAt(s, i, e)[k] =
                IF k < i THEN s[k] ELSE IF k = i THEN e ELSE s[k - 1]
<1> DEFINE a == SubSeq(s, 1, i - 1)
           b == SubSeq(s, i, Len(s))
           c == a \o <<e>>
<1>1. /\ a \in Seq(S) /\ Len(a) = i - 1
      /\ \A k \in 1..(i - 1) : a[k] = s[k]
  OBVIOUS
<1>2. /\ b \in Seq(S) /\ Len(b) = Len(s) - i + 1
      /\ \A k \in 1..(Len(s) - i + 1) : b[k] = s[i + k - 1]
  OBVIOUS
<1>3. InsertAt(s, i, e) = c \o b
  BY Zenon DEF InsertAt
<1>4. Len(s) \in Nat /\ i \in Nat
  OBVIOUS
<1> HIDE DEF a, b
<1>5. /\ c \in Seq(S) /\ Len(c) = i
      /\ \A k \in 1..i : c[k] = IF k < i THEN s[k] ELSE e
  BY <1>1, <1>4, ConcatElements
<1> HIDE DEF c
<1>6. /\ c \o b \in Seq(S) /\ Len(c \o b) = Len(s) + 1
      /\ \A k \in 1..(Len(s) + 1) : (c \o b)[k] = IF k <= i THEN c[k] ELSE b[k - i]
  <2>1. Len(c) + Len(b) = Len(s) + 1
    BY <1>2, <1>4, <1>5
  <2>2. /\ c \o b \in Seq(S) /\ Len(c \o b) = Len(c) + Len(b)
        /\ \A k \in 1..(Len(c) + Len(b)) :
             (c \o b)[k] = IF k <= Len(c) THEN c[k] ELSE b[k - Len(c)]
    BY <1>2, <1>5, ConcatElements
  <2> QED
    BY <1>5, <2>1, <2>2
<1>7. ASSUME NEW k \in 1..(Len(s) + 1)
      PROVE  (c \o b)[k] = IF k < i THEN s[k] ELSE IF k = i THEN e ELSE s[k - 1]
  <2>1. CASE k <= i
    BY <1>4, <1>5, <1>6, <2>1
  <2>2. CASE k > i
    <3>1. k - i \in 1..(Len(s) - i + 1) /\ i + (k - i) - 1 = k - 1
      BY <1>4, <2>2
    <3>2. (c \o b)[k] = b[k - i]
      BY <1>4, <1>6, <2>2
    <3> QED
      BY <1>2, <1>4, <2>2, <3>1, <3>2
  <2>3. k <= i \/ k > i
    BY <1>4
  <2> QED
    BY <2>1, <2>2, <2>3, Zenon
<1> QED
  BY <1>3, <1>6, <1>7

\* RemoveAt drops position i and shifts what is behind it.
LEMMA RemoveAtElements ==
  ASSUME NEW S, NEW s \in Seq(S), NEW i \in 1..Len(s)
  PROVE  /\ RemoveAt(s, i) \in Seq(S)
         /\ Len(RemoveAt(s, i)) = Len(s) - 1
         /\ \A k \in 1..(Len(s) - 1) :
              RemoveAt(s, i)[k] = IF k < i THEN s[k] ELSE s[k + 1]
<1> DEFINE a == SubSeq(s, 1, i - 1)
           b == SubSeq(s, i + 1, Len(s))
<1>1. /\ a \in Seq(S) /\ Len(a) = i - 1
      /\ \A k \in 1..(i - 1) : a[k] = s[k]
  OBVIOUS
<1>2. /\ b \in Seq(S) /\ Len(b) = Len(s) - i
      /\ \A k \in 1..(Len(s) - i) : b[k] = s[i + k]
  OBVIOUS
<1>3. RemoveAt(s, i) = a \o b
  BY Zenon DEF RemoveAt
<1>4. Len(s) \in Nat /\ i \in Nat
  OBVIOUS
<1> HIDE DEF a, b
<1>5. /\ a \o b \in Seq(S) /\ Len(a \o b) = Len(s) - 1
      /\ \A k \in 1..(Len(s) - 1) :
           (a \o b)[k] = IF k <= i - 1 THEN a[k] ELSE b[k - (i - 1)]
  <2>1. Len(a) + Len(b) = Len(s) - 1
    BY <1>1, <1>2, <1>4
  <2>2. /\ a \o b \in Seq(S) /\ Len(a \o b) = Len(a) + Len(b)
        /\ \A k \in 1..(Len(a) + Len(b)) :
             (a \o b)[k] = IF k <= Len(a) THEN a[k] ELSE b[k - Len(a)]
    BY <1>1, <1>2, ConcatElements
  <2> QED
    BY <1>1, <2>1, <2>2
<1>6. ASSUME NEW k \in 1..(Len(s) - 1)
      PROVE  (a \o b)[k] = IF k < i THEN s[k] ELSE s[k + 1]
  <2>1. CASE k < i
    BY <1>1, <1>4, <1>5, <2>1
  <2>2. CASE k >= i
    <3>1. k - (i - 1) \in 1..(Len(s) - i) /\ i + (k - (i - 1)) = k + 1
      BY <1>4, <2>2
    <3>2. (a \o b)[k] = b[k - (i - 1)]
      BY <1>4, <1>5, <2>2
    <3> QED
      BY <1>2, <1>4, <2>2, <3>1, <3>2
  <2>3. k < i \/ k >= i
    BY <1>4
  <2> QED
    BY <2>1, <2>2, <2>3, Zenon
<1> QED
  BY <1>3, <1>5, <1>6
-----------------------------------------------------------------------------
\* Insertion adds the new element, and repeats none if it is new.
LEMMA InsertAtSet ==
  ASSUME NEW S, NEW s \in Seq(S), NEW e \in S, NEW i \in 1..(Len(s) + 1)
  PROVE  /\ ToSet(InsertAt(s, i, e)) = ToSet(s) \cup {e}
         /\ IsInjective(s) /\ e \notin ToSet(s) => IsInjective(InsertAt(s, i, e))
<1> DEFINE r == InsertAt(s, i, e)
<1>1. /\ r \in Seq(S) /\ Len(r) = Len(s) + 1
      /\ \A k \in 1..(Len(s) + 1) :
           r[k] = IF k < i THEN s[k] ELSE IF k = i THEN e ELSE s[k - 1]
  BY InsertAtElements
<1>2. Len(s) \in Nat /\ i \in Nat /\ DOMAIN s = 1..Len(s) /\ DOMAIN r = 1..(Len(s) + 1)
  BY <1>1
<1> HIDE DEF r
<1>3. ToSet(r) \subseteq ToSet(s) \cup {e}
  BY <1>1, <1>2 DEF ToSet
<1>4. ToSet(s) \cup {e} \subseteq ToSet(r)
  <2>1. e \in ToSet(r)
    BY <1>1, <1>2 DEF ToSet
  <2>2. ASSUME NEW k \in 1..Len(s) PROVE s[k] \in ToSet(r)
    <3>1. CASE k < i
      BY <1>1, <1>2, <3>1 DEF ToSet
    <3>2. CASE k >= i
      <4>1. k + 1 \in 1..(Len(s) + 1) /\ r[k + 1] = s[k]
        BY <1>1, <1>2, <3>2
      <4> QED
        BY <1>2, <4>1 DEF ToSet
    <3> QED
      BY <1>2, <3>1, <3>2
  <2> QED
    BY <1>2, <2>1, <2>2 DEF ToSet
<1>5. ASSUME IsInjective(s), e \notin ToSet(s) PROVE IsInjective(r)
  <2>1. \A a, b \in 1..Len(s) : s[a] = s[b] => a = b
    BY <1>2, <1>5 DEF IsInjective
  <2>2. \A a \in 1..Len(s) : s[a] # e
    BY <1>2, <1>5 DEF ToSet
  <2> QED
    BY <1>1, <1>2, <2>1, <2>2 DEF IsInjective
<1> QED
  BY <1>3, <1>4, <1>5 DEF r

\* Removal takes the element away, if the sequence does not repeat it.
LEMMA RemoveAtSet ==
  ASSUME NEW S, NEW s \in Seq(S), NEW i \in 1..Len(s), IsInjective(s)
  PROVE  /\ ToSet(RemoveAt(s, i)) = ToSet(s) \ {s[i]}
         /\ IsInjective(RemoveAt(s, i))
<1> DEFINE r == RemoveAt(s, i)
<1>1. /\ r \in Seq(S) /\ Len(r) = Len(s) - 1
      /\ \A k \in 1..(Len(s) - 1) : r[k] = IF k < i THEN s[k] ELSE s[k + 1]
  BY RemoveAtElements
<1>2. Len(s) \in Nat /\ i \in Nat /\ DOMAIN s = 1..Len(s) /\ DOMAIN r = 1..(Len(s) - 1)
  BY <1>1
<1>3. \A a, b \in 1..Len(s) : s[a] = s[b] => a = b
  BY <1>2 DEF IsInjective
<1> HIDE DEF r
<1>4. ToSet(r) \subseteq ToSet(s) \ {s[i]}
  <2>1. ASSUME NEW k \in 1..(Len(s) - 1) PROVE r[k] \in ToSet(s) \ {s[i]}
    <3>0. \A j \in 1..Len(s) : s[j] \in ToSet(s) /\ (j # i => s[j] # s[i])
      BY <1>2, <1>3 DEF ToSet
    <3>1. CASE k < i
      <4>1. k \in 1..Len(s) /\ k # i /\ r[k] = s[k]
        BY <1>1, <1>2, <3>1
      <4> QED
        BY <3>0, <4>1
    <3>2. CASE k >= i
      <4>1. k + 1 \in 1..Len(s) /\ k + 1 # i /\ r[k] = s[k + 1]
        BY <1>1, <1>2, <3>2
      <4> QED
        BY <3>0, <4>1
    <3> QED
      BY <1>2, <3>1, <3>2
  <2> QED
    BY <1>2, <2>1 DEF ToSet
<1>5. ToSet(s) \ {s[i]} \subseteq ToSet(r)
  <2>1. ASSUME NEW k \in 1..Len(s), k # i PROVE s[k] \in ToSet(r)
    <3>1. CASE k < i
      BY <1>1, <1>2, <3>1 DEF ToSet
    <3>2. CASE k > i
      <4>1. k - 1 \in 1..(Len(s) - 1) /\ r[k - 1] = s[k]
        BY <1>1, <1>2, <3>2
      <4> QED
        BY <1>2, <4>1 DEF ToSet
    <3> QED
      BY <1>2, <2>1, <3>1, <3>2
  <2> QED
    BY <1>2, <2>1 DEF ToSet
<1>6. IsInjective(r)
  BY <1>1, <1>2, <1>3 DEF IsInjective
<1> QED
  BY <1>4, <1>5, <1>6 DEF r

\* A sequence cut in two.
LEMMA SplitSet ==
  ASSUME NEW S, NEW s \in Seq(S), NEW n \in 0..Len(s), IsInjective(s)
  PROVE  LET a == SubSeq(s, 1, n)
             b == SubSeq(s, n + 1, Len(s))
         IN  /\ a \in Seq(S) /\ Len(a) = n /\ \A k \in 1..n : a[k] = s[k]
             /\ b \in Seq(S) /\ Len(b) = Len(s) - n
             /\ \A k \in 1..(Len(s) - n) : b[k] = s[n + k]
             /\ IsInjective(a) /\ IsInjective(b)
             /\ ToSet(a) \cup ToSet(b) = ToSet(s)
             /\ ToSet(a) \cap ToSet(b) = {}
<1> DEFINE a == SubSeq(s, 1, n)
           b == SubSeq(s, n + 1, Len(s))
<1>1. a \in Seq(S) /\ Len(a) = n /\ \A k \in 1..n : a[k] = s[k]
  OBVIOUS
<1>2. b \in Seq(S) /\ Len(b) = Len(s) - n /\ \A k \in 1..(Len(s) - n) : b[k] = s[n + k]
  OBVIOUS
<1> HIDE DEF a, b
<1>3. /\ Len(s) \in Nat /\ n \in Nat /\ DOMAIN s = 1..Len(s)
      /\ DOMAIN a = 1..n /\ DOMAIN b = 1..(Len(s) - n)
  BY <1>1, <1>2
<1>4. \A i, j \in 1..Len(s) : s[i] = s[j] => i = j
  BY <1>3 DEF IsInjective
<1>5. IsInjective(a) /\ IsInjective(b)
  <2>1. ASSUME NEW i \in 1..n, NEW j \in 1..n, a[i] = a[j] PROVE i = j
    BY <1>1, <1>3, <1>4, <2>1
  <2>2. ASSUME NEW i \in 1..(Len(s) - n), NEW j \in 1..(Len(s) - n), b[i] = b[j]
        PROVE  i = j
    <3>1. n + i \in 1..Len(s) /\ n + j \in 1..Len(s) /\ s[n + i] = s[n + j]
      BY <1>2, <1>3, <2>2
    <3>2. n + i = n + j
      BY <1>4, <3>1
    <3> QED
      BY <1>3, <3>2
  <2> QED
    BY <1>3, <2>1, <2>2 DEF IsInjective
<1>6. ToSet(a) \cup ToSet(b) \subseteq ToSet(s)
  <2>1. ASSUME NEW k \in 1..n PROVE a[k] \in ToSet(s)
    BY <1>1, <1>3 DEF ToSet
  <2>2. ASSUME NEW k \in 1..(Len(s) - n) PROVE b[k] \in ToSet(s)
    <3>1. n + k \in 1..Len(s) /\ b[k] = s[n + k]
      BY <1>2, <1>3
    <3> QED
      BY <1>3, <3>1 DEF ToSet
  <2> QED
    BY <1>3, <2>1, <2>2 DEF ToSet
<1>7. ToSet(s) \subseteq ToSet(a) \cup ToSet(b)
  <2>1. ASSUME NEW k \in 1..Len(s) PROVE s[k] \in ToSet(a) \cup ToSet(b)
    <3>1. CASE k <= n
      BY <1>1, <1>3, <3>1 DEF ToSet
    <3>2. CASE k > n
      <4>1. k - n \in 1..(Len(s) - n) /\ b[k - n] = s[k]
        BY <1>2, <1>3, <3>2
      <4> QED
        BY <1>3, <4>1 DEF ToSet
    <3> QED
      BY <1>3, <3>1, <3>2
  <2> QED
    BY <1>3, <2>1 DEF ToSet
<1>8. ToSet(a) \cap ToSet(b) = {}
  <2>1. ASSUME NEW i \in 1..n, NEW j \in 1..(Len(s) - n) PROVE a[i] # b[j]
    BY <1>1, <1>2, <1>3, <1>4
  <2> QED
    BY <1>3, <2>1 DEF ToSet
<1> QED
  BY <1>1, <1>2, <1>5, <1>6, <1>7, <1>8 DEF a, b

\* The tail of a sequence without repetition loses the head.
LEMMA TailSet ==
  ASSUME NEW S, NEW s \in Seq(S), s # <<>>, IsInjective(s)
  PROVE  /\ Len(s) \in Nat /\ Len(s) > 0
         /\ Head(s) = s[1] /\ Head(s) \in S /\ Head(s) \in ToSet(s)
         /\ Tail(s) \in Seq(S) /\ Len(Tail(s)) = Len(s) - 1
         /\ \A k \in 1..(Len(s) - 1) : Tail(s)[k] = s[k + 1]
         /\ ToSet(Tail(s)) = ToSet(s) \ {Head(s)}
         /\ IsInjective(Tail(s))
<1> DEFINE r == Tail(s)
<1>1. /\ Len(s) \in Nat /\ Len(s) > 0 /\ Head(s) = s[1] /\ Head(s) \in S
      /\ r \in Seq(S) /\ Len(r) = Len(s) - 1 /\ \A k \in 1..(Len(s) - 1) : r[k] = s[k + 1]
  OBVIOUS
<1> HIDE DEF r
<1>2. DOMAIN s = 1..Len(s) /\ DOMAIN r = 1..(Len(s) - 1)
  BY <1>1
<1>3. \A i, j \in 1..Len(s) : s[i] = s[j] => i = j
  BY <1>2 DEF IsInjective
<1>4. IsInjective(r)
  BY <1>1, <1>2, <1>3 DEF IsInjective
<1>5. ToSet(r) \subseteq ToSet(s) \ {s[1]}
  <2>1. ASSUME NEW k \in 1..(Len(s) - 1) PROVE r[k] \in ToSet(s) \ {s[1]}
    BY <1>1, <1>2, <1>3 DEF ToSet
  <2> QED
    BY <1>2, <2>1 DEF ToSet
<1>6. ToSet(s) \ {s[1]} \subseteq ToSet(r)
  <2>1. ASSUME NEW k \in 1..Len(s), k # 1 PROVE s[k] \in ToSet(r)
    <3>1. k - 1 \in 1..(Len(s) - 1) /\ r[k - 1] = s[k]
      BY <1>1, <2>1
    <3> QED
      BY <1>2, <3>1 DEF ToSet
  <2> QED
    BY <1>2, <2>1 DEF ToSet
<1>7. s[1] \in ToSet(s)
  BY <1>1, <1>2 DEF ToSet
<1> QED
  BY <1>1, <1>4, <1>5, <1>6, <1>7 DEF r

-----------------------------------------------------------------------------
(***************************************************************************)
(* Induction.  The library's theorems about it take an operator; these are *)
(* about sets, which stand for what is to be proved of their elements.     *)
(***************************************************************************)
\* A set of numbers that is not empty has a least one.
LEMMA LeastNumber ==
  ASSUME NEW T \in SUBSET Nat, T # {}
  PROVE  \E m \in T : \A k \in T : m <= k
<1> DEFINE R == OpToRel(<, Nat)
<1>1. IsWellFoundedOn(R, Nat)
  BY NatLessThanWellFounded
<1>2. \A k, m \in T : k < m => <<k, m>> \in R
  BY DEF OpToRel
<1> HIDE DEF R
<1>3. PICK m \in T : \A k \in T : ~(<<k, m>> \in R)
  BY <1>1, WFMin
<1>4. \A k \in T : ~(k < m)
  BY <1>2, <1>3
<1>5. \A k \in T : m \in Int /\ k \in Int
  OBVIOUS
<1> QED
  BY <1>4, <1>5

\* A set that has every element all smaller elements of which it has, has all.
LEMMA MeasureInduction ==
  ASSUME NEW D, NEW m \in [D -> Nat], NEW A,
         \A g \in D : (\A k \in D : m[k] < m[g] => k \in A) => g \in A
  PROVE  \A g \in D : g \in A
<1> SUFFICES ASSUME NEW b \in D, b \notin A PROVE FALSE
  OBVIOUS
<1> DEFINE T == {m[g] : g \in {k \in D : k \notin A}}
<1>1. T \in SUBSET Nat /\ T # {}
  OBVIOUS
<1>2. PICK least \in T : \A k \in T : least <= k
  BY <1>1, LeastNumber
<1>3. PICK g \in D : g \notin A /\ m[g] = least
  BY <1>2
<1>4. \A k \in D : k \notin A => m[g] <= m[k]
  BY <1>2, <1>3
<1>5. \A k \in D : m[g] \in Int /\ m[k] \in Int
  OBVIOUS
<1> QED
  BY <1>3, <1>4, <1>5

\* Every turn of the loop from g to next[g] makes the measure m smaller.
Terminates(D, stop, next, m) ==
  /\ m \in [D -> Nat]
  /\ \A g \in D : g \notin stop => next[g] \in D /\ m[next[g]] < m[g]

\* f goes from g to next[g] until it comes to an element of stop.
Repeats(f, D, stop, next) ==
  f \in [D -> D] /\ \A g \in D : f[g] = IF g \in stop THEN g ELSE f[next[g]]

\* A loop that terminates defines a function.
LEMMA LoopFunction ==
  ASSUME NEW D, NEW stop, NEW next, NEW m, Terminates(D, stop, next, m)
  PROVE  \E f : Repeats(f, D, stop, next)
<1> USE DEF Terminates, Repeats
<1> DEFINE Upto(f, n) ==
      \A g \in D : m[g] < n => f[g] = IF g \in stop THEN g ELSE f[next[g]]
<1>1. \A n \in Nat : \E f \in [D -> D] : Upto(f, n)
  <2> SUFFICES ASSUME NEW bad \in Nat, ~ \E f \in [D -> D] : Upto(f, bad) PROVE FALSE
    OBVIOUS
  <2> DEFINE Bad == {n \in Nat : ~ \E f \in [D -> D] : Upto(f, n)}
  <2>1. Bad \in SUBSET Nat /\ bad \in Bad
    OBVIOUS
  <2>2. PICK n \in Bad : \A k \in Bad : n <= k
    BY <2>1, LeastNumber
  <2>3. ASSUME NEW k \in Nat, k < n PROVE \E f \in [D -> D] : Upto(f, k)
    <3>1. k \notin Bad
      <4> HIDE DEF Bad
      <4> QED
        BY <2>1, <2>2, <2>3
    <3> QED
      BY <3>1
  <2>4. n \in Nat /\ n # 0
    <3>1. [g \in D |-> g] \in [D -> D] /\ Upto([g \in D |-> g], 0)
      OBVIOUS
    <3>2. 0 \notin Bad
      BY <3>1
    <3> QED
      BY <2>1, <2>2, <3>2
  <2>5. PICK e \in [D -> D] : Upto(e, n - 1)
    <3>1. n - 1 \in Nat /\ n - 1 < n
      BY <2>4
    <3> QED
      BY <2>3, <3>1
  <2> DEFINE f == [g \in D |-> IF g \in stop THEN g ELSE e[next[g]]]
  <2>6. f \in [D -> D]
    OBVIOUS
  <2>7. ASSUME NEW g \in D, m[g] < n, g \notin stop PROVE f[g] = f[next[g]]
    <3>1. next[g] \in D /\ m[next[g]] < n - 1
      BY <2>4, <2>7
    <3>2. e[next[g]] = IF next[g] \in stop THEN next[g] ELSE e[next[next[g]]]
      BY <2>5, <3>1
    <3> QED
      BY <2>7, <3>1, <3>2
  <2>8. Upto(f, n)
    BY <2>7
  <2> QED
    BY <2>2, <2>6, <2>8
<1>2. ASSUME NEW n \in Nat, NEW k \in Nat, NEW e, NEW f, Upto(e, n), Upto(f, k)
      PROVE  \A g \in D : m[g] < n /\ m[g] < k => e[g] = f[g]
  <2> DEFINE Same == {g \in D : m[g] < n /\ m[g] < k => e[g] = f[g]}
  <2>1. ASSUME NEW g \in D, \A x \in D : m[x] < m[g] => x \in Same
        PROVE  g \in Same
    <3> SUFFICES ASSUME m[g] < n, m[g] < k PROVE e[g] = f[g]
      OBVIOUS
    <3>1. CASE g \in stop
      BY <1>2, <3>1
    <3>2. CASE g \notin stop
      <4>1. next[g] \in D /\ m[next[g]] < m[g] /\ m[next[g]] < n /\ m[next[g]] < k
        BY <3>2
      <4>2. e[next[g]] = f[next[g]]
        BY <2>1, <4>1
      <4> QED
        BY <1>2, <3>2, <4>2
    <3> QED
      BY <3>1, <3>2
  <2> HIDE DEF Same
  <2>2. \A g \in D : g \in Same
    BY <2>1, MeasureInduction
  <2> QED
    BY <2>2 DEF Same
<1> DEFINE part == [n \in Nat |-> CHOOSE f \in [D -> D] : Upto(f, n)]
           whole == [g \in D |-> part[m[g] + 1][g]]
<1>3. \A n \in Nat : part[n] \in [D -> D] /\ Upto(part[n], n)
  BY <1>1
<1> HIDE DEF part
<1>4. ASSUME NEW g \in D
      PROVE  whole[g] = IF g \in stop THEN g ELSE whole[next[g]]
  <2>1. m[g] + 1 \in Nat /\ m[g] < m[g] + 1
    OBVIOUS
  <2>2. part[m[g] + 1][g] = IF g \in stop THEN g ELSE part[m[g] + 1][next[g]]
    BY <1>3, <2>1
  <2>3. CASE g \in stop
    BY <2>2, <2>3
  <2>4. CASE g \notin stop
    <3>1. next[g] \in D /\ m[next[g]] + 1 \in Nat /\ m[next[g]] < m[next[g]] + 1
          /\ m[next[g]] < m[g] + 1
      BY <2>4
    <3>2. part[m[g] + 1][next[g]] = part[m[next[g]] + 1][next[g]]
      <4>1. Upto(part[m[g] + 1], m[g] + 1)
        BY <1>3, <2>1
      <4>2. Upto(part[m[next[g]] + 1], m[next[g]] + 1)
        BY <1>3, <3>1
      <4> HIDE DEF Upto
      <4> QED
        BY <1>2, <2>1, <3>1, <4>1, <4>2
    <3> QED
      BY <2>2, <2>4, <3>1, <3>2
  <2> QED
    BY <2>3, <2>4
<1>5. whole \in [D -> D]
  <2>1. \A g \in D : m[g] + 1 \in Nat
    OBVIOUS
  <2> QED
    BY <1>3, <2>1
<1> QED
  BY <1>4, <1>5

-----------------------------------------------------------------------------
(***************************************************************************)
(* What the body does by itself.                                           *)
(***************************************************************************)
BodyMoves ==
  \/ GetsLock \/ BodyReturns \/ BodyProcesses
  \/ \E empty \in BOOLEAN, nearest \in Nat : SleepForNextEvent(empty, nearest)
  \/ \E moment \in Nat : TimesOut(moment)
  \/ SpuriousWakeup

\* The body's steps and the clients' calls keep the thread's own invariant.
LEMMA ThreadStepKeeps ==
  ASSUME ThreadTypeOK, JoinedOnce,
         \/ UNCHANGED threadVars
         \/ body' = Notified(body) /\ UNCHANGED <<thread, shutdown, wakeAt, joiner>>
         \/ LockedCall
         \/ UnlockedJoin
         \/ BodyMoves
  PROVE  ThreadTypeOK' /\ JoinedOnce'
<1>1. CASE UNCHANGED threadVars
  BY <1>1 DEF threadVars, ThreadTypeOK, JoinedOnce
<1>2. CASE body' = Notified(body) /\ UNCHANGED <<thread, shutdown, wakeAt, joiner>>
  BY <1>2 DEF ThreadTypeOK, JoinedOnce, Notified, Place
<1>3. CASE LockedCall
  <2>1. CASE StartThread
    BY <2>1 DEF StartThread, ThreadTypeOK, JoinedOnce, Place
  <2>2. CASE ShutdownThread
    BY <2>2 DEF ShutdownThread, Notified, ThreadTypeOK, JoinedOnce, Place
  <2>3. ASSUME NEW c \in Joiners, JoinBegins(c)
        PROVE  ThreadTypeOK' /\ JoinedOnce'
    BY <2>3 DEF JoinBegins, ThreadTypeOK, JoinedOnce, JoinPlace
  <2>4. ASSUME NEW c \in Joiners, JoinResets(c)
        PROVE  ThreadTypeOK' /\ JoinedOnce'
    BY <2>4 DEF JoinResets, ThreadTypeOK, JoinedOnce, JoinPlace, Place
  <2> QED
    BY <1>3, <2>1, <2>2, <2>3, <2>4 DEF LockedCall
<1>4. CASE UnlockedJoin
  <2>1. ASSUME NEW c \in Joiners, JoinThrows(c)
        PROVE  ThreadTypeOK' /\ JoinedOnce'
    BY <2>1 DEF JoinThrows, ThreadTypeOK, JoinedOnce, JoinPlace
  <2>2. ASSUME NEW c \in Joiners, JoinReturns(c)
        PROVE  ThreadTypeOK' /\ JoinedOnce'
    BY <2>2 DEF JoinReturns, ThreadTypeOK, JoinedOnce, JoinPlace
  <2> QED
    BY <1>4, <2>1, <2>2 DEF UnlockedJoin
<1>5. CASE BodyMoves
  <2>1. CASE GetsLock \/ BodyReturns \/ BodyProcesses \/ SpuriousWakeup
    BY <2>1 DEF GetsLock, BodyReturns, BodyProcesses, SpuriousWakeup, ThreadTypeOK, JoinedOnce,
                Place
  <2>2. ASSUME NEW empty \in BOOLEAN, NEW nearest \in Nat, SleepForNextEvent(empty, nearest)
        PROVE  ThreadTypeOK' /\ JoinedOnce'
    BY <2>2 DEF SleepForNextEvent, ThreadTypeOK, JoinedOnce, Place
  <2>3. ASSUME NEW moment \in Nat, TimesOut(moment)
        PROVE  ThreadTypeOK' /\ JoinedOnce'
    BY <2>3 DEF TimesOut, ThreadTypeOK, JoinedOnce, Place
  <2> QED
    BY <1>5, <2>1, <2>2, <2>3 DEF BodyMoves
<1> QED
  BY <1>1, <1>2, <1>3, <1>4, <1>5
=============================================================================
