----------------------------- MODULE HeapProofs -----------------------------
(***************************************************************************)
(* The heap engine and its manager, for any number of timers, pauses and   *)
(* periods.                                                                *)
(*                                                                         *)
(* First the array: its loops are recursive functions, and what they       *)
(* compute is proved by induction on the position of the timer they move.  *)
(* Then the engine: every operation preserves EngineInv, one lemma per     *)
(* action of HeapEngine.  Then the manager.  Its theorems assume that      *)
(* calls of process_expired_timers are not nested, and that nobody         *)
(* activates the timer whose action runs.  The proofs about the heap       *)
(* thread rest on the lemmas about the engine.                             *)
(***************************************************************************)
EXTENDS HeapManager, HeapAlone, SharedLemmas

\* g is hp with the timers at i and j in each other's place.
Exchanged(T, hp, i, j, g) ==
  /\ g \in Heaps(T) /\ Indexed(g) /\ Len(g.heap) = Len(hp.heap)
  /\ g.heap[i] = hp.heap[j] /\ g.heap[j] = hp.heap[i]
  /\ \A k \in 1..Len(hp.heap) : k # i /\ k # j => g.heap[k] = hp.heap[k]
  /\ g.position[hp.heap[i]] = j /\ g.position[hp.heap[j]] = i
  /\ ToSet(g.heap) = ToSet(hp.heap)
  /\ \A x \in T : x \notin ToSet(hp.heap) => g.position[x] = hp.position[x]

\* heap_swap exchanges two timers of the array, and every timer still knows
\* its position.
LEMMA SwapExchanges ==
  ASSUME NEW T, NEW hp \in Heaps(T), Indexed(hp),
         NEW i \in 1..Len(hp.heap), NEW j \in 1..Len(hp.heap), NEW g,
         g = Swap(hp, hp.heap[i], hp.heap[j])
  PROVE  Exchanged(T, hp, i, j, g)
<1> DEFINE a == hp.heap[i]
           b == hp.heap[j]
           n == Len(hp.heap)
<1>1. /\ hp.heap \in Seq(T) /\ hp.position \in [T -> Nat] /\ n \in Nat
      /\ DOMAIN hp.heap = 1..n
      /\ \A k \in 1..n : hp.heap[k] \in T /\ hp.position[hp.heap[k]] = k
  BY DEF Heaps, Indexed
<1>2. a \in T /\ b \in T /\ hp.position[a] = i /\ hp.position[b] = j
  BY <1>1
<1>3. /\ g.heap = [hp.heap EXCEPT ![i] = b, ![j] = a]
      /\ g.position = [hp.position EXCEPT ![a] = j, ![b] = i]
      /\ g = [heap |-> g.heap, position |-> g.position]
  BY <1>2 DEF Swap
<1> HIDE DEF n
<1>4. /\ g.heap \in Seq(T) /\ Len(g.heap) = n /\ DOMAIN g.heap = 1..n
      /\ g.heap[i] = b /\ g.heap[j] = a
      /\ \A k \in 1..n : k # i /\ k # j => g.heap[k] = hp.heap[k]
  <2>1. /\ g.heap \in [1..n -> T]
        /\ \A k \in 1..n : g.heap[k] = IF k = j THEN a ELSE IF k = i THEN b ELSE hp.heap[k]
    BY <1>1, <1>2, <1>3 DEF n
  <2>2. i \in 1..n /\ j \in 1..n
    BY DEF n
  <2>3. g.heap \in Seq(T)
    BY <1>1, <2>1
  <2>4. Len(g.heap) = n /\ DOMAIN g.heap = 1..n
    BY <1>1, <2>1
  <2> QED
    BY <2>1, <2>2, <2>3, <2>4
<1>5. /\ g.position \in [T -> Nat]
      /\ g.position[b] = i
      /\ g.position[a] = IF a = b THEN i ELSE j
      /\ \A x \in T : x # a /\ x # b => g.position[x] = hp.position[x]
  <2> HIDE DEF a, b
  <2>1. /\ g.position \in [T -> Nat]
        /\ \A x \in T : g.position[x] = IF x = b THEN i ELSE IF x = a THEN j ELSE hp.position[x]
    BY <1>1, <1>2, <1>3
  <2> QED
    BY <1>2, <2>1
<1>6. g.position[a] = j
  BY <1>2, <1>5
<1>7. g \in Heaps(T)
  BY <1>3, <1>4, <1>5 DEF Heaps
<1>8. \A k \in 1..n : g.position[g.heap[k]] = k
  <2> SUFFICES ASSUME NEW k \in 1..n, k # i, k # j PROVE g.position[g.heap[k]] = k
    BY <1>4, <1>5, <1>6
  <2>1. g.heap[k] = hp.heap[k] /\ hp.heap[k] \in T /\ hp.position[hp.heap[k]] = k
    BY <1>1, <1>4
  <2>2. hp.heap[k] # a /\ hp.heap[k] # b
    BY <1>2, <2>1
  <2> QED
    BY <1>5, <2>1, <2>2
<1>9. ToSet(g.heap) = ToSet(hp.heap)
  <2>1. /\ ToSet(g.heap) = {g.heap[k] : k \in 1..n}
        /\ ToSet(hp.heap) = {hp.heap[k] : k \in 1..n}
    BY <1>1, <1>4 DEF ToSet
  <2>2. i \in 1..n /\ j \in 1..n
    BY DEF n
  <2>3. ASSUME NEW k \in 1..n PROVE g.heap[k] \in {hp.heap[l] : l \in 1..n}
    BY <1>4, <2>2
  <2>4. ASSUME NEW k \in 1..n PROVE hp.heap[k] \in {g.heap[l] : l \in 1..n}
    BY <1>4, <2>2
  <2> HIDE DEF n
  <2>5. {g.heap[k] : k \in 1..n} = {hp.heap[k] : k \in 1..n}
    BY <2>3, <2>4
  <2> QED
    BY <2>1, <2>5
<1>10. a \in ToSet(hp.heap) /\ b \in ToSet(hp.heap)
  BY <1>1 DEF ToSet, n
<1> QED
  BY <1>4, <1>5, <1>6, <1>7, <1>8, <1>9, <1>10 DEF Exchanged, Indexed, n

\* The parent of a position.
LEMMA Halves ==
  \A j \in Nat : j >= 2 => /\ j \div 2 \in 1..(j - 1)
                           /\ j = 2 * (j \div 2) \/ j = 2 * (j \div 2) + 1
OBVIOUS

\* The timer at j is not earlier than its parent.
Fits(g, w, j) == w[g.heap[j \div 2]] <= w[g.heap[j]]

\* No child of i is earlier than the parent of i.
GrandchildrenFit(g, w, i) ==
  i > 1 => \A j \in 2..Len(g.heap) : j \div 2 = i => w[g.heap[i \div 2]] <= w[g.heap[j]]

\* Only the timer at i may be earlier than its parent.
AllButUp(g, w, i) ==
  /\ \A j \in 2..Len(g.heap) : j # i => Fits(g, w, j)
  /\ GrandchildrenFit(g, w, i)

\* Only the children of i may be earlier than their parent.
AllButDown(g, w, i) ==
  /\ \A j \in 2..Len(g.heap) : j \div 2 # i => Fits(g, w, j)
  /\ GrandchildrenFit(g, w, i)

\* The timers of a heap and their time points.
LEMMA HeapElements ==
  ASSUME NEW T, NEW g \in Heaps(T), NEW w \in [T -> Nat]
  PROVE  /\ Len(g.heap) \in Nat /\ DOMAIN g.heap = 1..Len(g.heap)
         /\ \A k \in 1..Len(g.heap) : /\ g.heap[k] \in T /\ w[g.heap[k]] \in Nat
                                      /\ g.heap[k] \in ToSet(g.heap)
         /\ \A x \in ToSet(g.heap) : \E k \in 1..Len(g.heap) : x = g.heap[k]
         /\ ToSet(g.heap) \subseteq T
<1>1. g.heap \in Seq(T)
  BY DEF Heaps
<1>2. /\ Len(g.heap) \in Nat /\ DOMAIN g.heap = 1..Len(g.heap)
      /\ \A k \in 1..Len(g.heap) : g.heap[k] \in T
  BY <1>1
<1>3. ToSet(g.heap) = {g.heap[k] : k \in 1..Len(g.heap)}
  BY <1>2 DEF ToSet
<1> QED
  BY <1>2, <1>3

\* A turn of the loop up: the timer at i changes places with its parent.
LEMMA UpStep ==
  ASSUME NEW T, NEW g \in Heaps(T), Indexed(g), NEW w \in [T -> Nat],
         NEW i \in 2..Len(g.heap), AllButUp(g, w, i), ~Fits(g, w, i), NEW s,
         s = Swap(g, g.heap[i], g.heap[i \div 2])
  PROVE  AllButUp(s, w, i \div 2)
<1> DEFINE n == Len(g.heap)
           p == i \div 2
<1>1. /\ n \in Nat /\ \A k \in 1..n : w[g.heap[k]] \in Nat
  BY HeapElements
<1>2. i \in 1..n /\ p \in 1..n /\ p < i
  BY <1>1, Halves
<1>3. /\ s \in Heaps(T) /\ Indexed(s) /\ Len(s.heap) = n
      /\ s.heap[i] = g.heap[p] /\ s.heap[p] = g.heap[i]
      /\ \A k \in 1..n : k # i /\ k # p => s.heap[k] = g.heap[k]
  <2>1. i \in 1..Len(g.heap) /\ p \in 1..Len(g.heap) /\ s = Swap(g, g.heap[i], g.heap[p])
    BY <1>2
  <2> HIDE DEF p, n
  <2>2. Exchanged(T, g, i, p, s)
    BY <2>1, SwapExchanges
  <2> QED
    BY <2>2 DEF Exchanged, n
<1>4. \A j \in 2..n : /\ j \in 1..n /\ j \div 2 \in 1..n /\ j \div 2 < j
  BY <1>1, Halves
<1>5. /\ \A j \in 2..n : j # i => w[g.heap[j \div 2]] <= w[g.heap[j]]
      /\ \A j \in 2..n : j \div 2 = i => w[g.heap[p]] <= w[g.heap[j]]
      /\ w[g.heap[p]] > w[g.heap[i]]
  BY <1>1, <1>2 DEF AllButUp, Fits, GrandchildrenFit
<1> HIDE DEF n, p
<1>6. ASSUME NEW j \in 2..n, j # p PROVE w[s.heap[j \div 2]] <= w[s.heap[j]]
  <2>1. CASE j = i
    BY <1>1, <1>2, <1>3, <1>5, <2>1 DEF p
  <2>2. CASE j # i /\ j \div 2 = i
    <3>1. s.heap[j] = g.heap[j] /\ s.heap[j \div 2] = g.heap[p]
      BY <1>3, <1>4, <1>6, <2>2
    <3> QED
      BY <1>5, <2>2, <3>1
  <2>3. CASE j # i /\ j \div 2 = p
    <3>1. s.heap[j] = g.heap[j] /\ s.heap[j \div 2] = g.heap[i]
      BY <1>3, <1>4, <1>6, <2>3
    <3>2. w[g.heap[p]] <= w[g.heap[j]]
      BY <1>5, <2>3
    <3>3. w[g.heap[p]] \in Nat /\ w[g.heap[i]] \in Nat /\ w[g.heap[j]] \in Nat
      BY <1>1, <1>2, <1>4
    <3> QED
      BY <1>5, <3>1, <3>2, <3>3
  <2>4. CASE j # i /\ j \div 2 # i /\ j \div 2 # p
    <3>1. s.heap[j] = g.heap[j] /\ s.heap[j \div 2] = g.heap[j \div 2]
      BY <1>3, <1>4, <1>6, <2>4
    <3> QED
      BY <1>5, <2>4, <3>1
  <2> QED
    BY <2>1, <2>2, <2>3, <2>4
<1>7. ASSUME p > 1, NEW j \in 2..n, j \div 2 = p PROVE w[s.heap[p \div 2]] <= w[s.heap[j]]
  <2>1. p \in 2..n /\ p # i /\ p \div 2 \in 1..n /\ p \div 2 # i /\ p \div 2 # p
    BY <1>1, <1>2, <1>4, <1>7
  <2>2. s.heap[p \div 2] = g.heap[p \div 2] /\ w[g.heap[p \div 2]] <= w[g.heap[p]]
    BY <1>3, <1>5, <2>1
  <2>3. CASE j = i
    BY <1>3, <2>2, <2>3
  <2>4. CASE j # i
    <3>0. j \in 1..n /\ j # p /\ w[g.heap[j \div 2]] <= w[g.heap[j]]
      BY <1>4, <1>5, <1>7, <2>1, <2>4
    <3>1. s.heap[j] = g.heap[j] /\ w[g.heap[p]] <= w[g.heap[j]]
      BY <1>3, <1>7, <2>4, <3>0
    <3>2. w[g.heap[p]] \in Nat /\ w[g.heap[p \div 2]] \in Nat /\ w[g.heap[j]] \in Nat
      BY <1>1, <1>2, <1>4, <2>1
    <3> QED
      BY <2>2, <3>1, <3>2
  <2> QED
    BY <2>3, <2>4
<1> QED
  BY <1>3, <1>6, <1>7 DEF AllButUp, Fits, GrandchildrenFit, p

\* r has the timers of g, perhaps at other positions.
Rearranged(T, g, r) ==
  /\ r \in Heaps(T) /\ Indexed(r) /\ Len(r.heap) = Len(g.heap)
  /\ ToSet(r.heap) = ToSet(g.heap)
  /\ \A x \in T : x \notin ToSet(g.heap) => r.position[x] = g.position[x]

\* The timer a loop moves is at its position.
LEMMA MovedElement ==
  ASSUME NEW T, NEW t, NEW g \in HeapsWith(T, t)
  PROVE  /\ g \in Heaps(T) /\ Indexed(g) /\ t \in ToSet(g.heap) /\ t \in T
         /\ g.position[t] \in 1..Len(g.heap) /\ g.heap[g.position[t]] = t
         /\ DOMAIN g.position = T
<1>1. g \in Heaps(T) /\ Indexed(g) /\ t \in ToSet(g.heap)
  BY DEF HeapsWith
<1>2. g.heap \in Seq(T) /\ g.position \in [T -> Nat]
  BY <1>1 DEF Heaps
<1>3. DOMAIN g.heap = 1..Len(g.heap) /\ \A k \in 1..Len(g.heap) : g.heap[k] \in T
  BY <1>2
<1>4. PICK k \in 1..Len(g.heap) : g.heap[k] = t
  BY <1>1, <1>3 DEF ToSet
<1> QED
  BY <1>1, <1>2, <1>3, <1>4 DEF Indexed

\* A turn of either loop leaves the timers and the moved one in the array.
LEMMA TurnRearranges ==
  ASSUME NEW T, NEW t, NEW g \in HeapsWith(T, t), NEW j \in 1..Len(g.heap), NEW s,
         s = Swap(g, t, g.heap[j])
  PROVE  s \in HeapsWith(T, t) /\ Rearranged(T, g, s) /\ s.position[t] = j
<1>1. /\ g \in Heaps(T) /\ Indexed(g) /\ t \in ToSet(g.heap)
      /\ g.position[t] \in 1..Len(g.heap) /\ s = Swap(g, g.heap[g.position[t]], g.heap[j])
      /\ g.heap[g.position[t]] = t
  BY MovedElement
<1>2. Rearranged(T, g, s) /\ s.position[t] = j
  <2>1. PICK i \in 1..Len(g.heap) : g.heap[i] = t /\ s = Swap(g, g.heap[i], g.heap[j])
    BY <1>1
  <2> QED
    BY <1>1, <2>1, SwapExchanges DEF Exchanged, Rearranged
<1> QED
  BY <1>1, <1>2 DEF HeapsWith, Rearranged

\* It moves up as long as it is earlier than its parent.
LEMMA MovesUpIff ==
  ASSUME NEW T, NEW t, NEW g \in HeapsWith(T, t), NEW w \in [T -> Nat], NEW i,
         i = g.position[t]
  PROVE  /\ MovesUp(g, w, t) <=> i \in 2..Len(g.heap) /\ ~Fits(g, w, i)
         /\ ParentOf(g, t) = g.heap[i \div 2]
         /\ i \in 2..Len(g.heap) => i \div 2 \in 1..Len(g.heap) /\ i \div 2 < i
<1>1. i \in 1..Len(g.heap) /\ g.heap[i] = t /\ g \in Heaps(T) /\ t \in T
  BY MovedElement
<1>2. Len(g.heap) \in Nat /\ \A k \in 1..Len(g.heap) : w[g.heap[k]] \in Nat
  BY <1>1, HeapElements
<1>3. i \in 2..Len(g.heap) => i \div 2 \in 1..Len(g.heap) /\ i \div 2 < i
  BY <1>1, <1>2, Halves
<1>4. i # 1 <=> i \in 2..Len(g.heap)
  BY <1>1, <1>2
<1>5. ParentOf(g, t) = g.heap[i \div 2]
  BY DEF ParentOf
<1>6. i \in 2..Len(g.heap) => (w[ParentOf(g, t)] > w[t] <=> ~Fits(g, w, i))
  BY <1>1, <1>2, <1>3, <1>5 DEF Fits
<1> QED
  BY <1>3, <1>4, <1>5, <1>6 DEF MovesUp

\* heap_up: it only moves timers, and it restores the order of the heap if
\* only the timer it is called for may be earlier than its parent.
LEMMA HeapUpRestores ==
  ASSUME NEW T, NEW t, NEW hp \in HeapsWith(T, t), NEW w \in [T -> Nat]
  PROVE  /\ Rearranged(T, hp, HeapUp(hp, w, t))
         /\ AllButUp(hp, w, hp.position[t]) => Ordered(HeapUp(hp, w, t), w)
         /\ ~MovesUp(hp, w, t) => HeapUp(hp, w, t) = hp
<1> DEFINE D == HeapsWith(T, t)
           stop == {g \in D : ~MovesUp(g, w, t)}
           next == [g \in D |-> Swap(g, t, ParentOf(g, t))]
           m == [g \in D |-> g.position[t]]
           IsLoop(f) == f = [g \in D |-> IF MovesUp(g, w, t)
                                         THEN f[Swap(g, t, ParentOf(g, t))] ELSE g]
<1>1. ASSUME NEW g \in D, MovesUp(g, w, t), NEW s, s = Swap(g, t, ParentOf(g, t))
      PROVE  /\ s \in D /\ Rearranged(T, g, s)
             /\ s.position[t] = g.position[t] \div 2 /\ s.position[t] < g.position[t]
             /\ AllButUp(g, w, g.position[t]) => AllButUp(s, w, s.position[t])
  <2> DEFINE i == g.position[t]
  <2>1. /\ i \in 2..Len(g.heap) /\ ~Fits(g, w, i) /\ i \div 2 \in 1..Len(g.heap)
        /\ i \div 2 < i /\ ParentOf(g, t) = g.heap[i \div 2]
    BY <1>1, MovesUpIff
  <2>2. g \in Heaps(T) /\ Indexed(g) /\ g.heap[i] = t
    BY MovedElement
  <2> HIDE DEF i
  <2>3. s = Swap(g, t, g.heap[i \div 2])
    BY <1>1, <2>1
  <2>4. s \in D /\ Rearranged(T, g, s) /\ s.position[t] = i \div 2
    BY <2>1, <2>3, TurnRearranges
  <2>5. AllButUp(g, w, i) => AllButUp(s, w, i \div 2)
    BY <2>1, <2>2, <2>3, UpStep
  <2> QED
    BY <2>1, <2>4, <2>5 DEF i
<1>2. m \in [D -> Nat]
  <2>1. \A g \in D : g.position[t] \in 1..Len(g.heap)
    BY MovedElement
  <2> QED
    BY <2>1
<1>3. \A g \in D : g \notin stop => next[g] \in D /\ m[next[g]] < m[g]
  BY <1>1
<1>4. PICK e : IsLoop(e)
  <2> HIDE DEF D, m
  <2>0. Terminates(D, stop, next, m)
    BY <1>2, <1>3 DEF Terminates
  <2>1. PICK f : Repeats(f, D, stop, next)
    <3> HIDE DEF stop, next
    <3> QED
      BY <2>0, LoopFunction
  <2>2. \A g \in D : f[g] = IF MovesUp(g, w, t) THEN f[Swap(g, t, ParentOf(g, t))] ELSE g
    BY <2>1 DEF Repeats
  <2>3. IsLoop(f)
    BY <2>1, <2>2 DEF Repeats
  <2> QED
    BY <2>3
<1> DEFINE up == CHOOSE f : IsLoop(f)
<1>5. IsLoop(up)
  <2> HIDE DEF IsLoop
  <2> QED
    BY <1>4
<1>6. \A g \in D : HeapUp(g, w, t) = up[g]
  <2>1. \A g \in D : DOMAIN g.position = T
    BY MovedElement
  <2> QED
    BY <2>1 DEF HeapUp
<1> HIDE DEF up
<1> DEFINE Good == {g \in D : /\ Rearranged(T, g, up[g])
                              /\ AllButUp(g, w, g.position[t]) => Ordered(up[g], w)}
<1>7. ASSUME NEW g \in D, ~MovesUp(g, w, t) PROVE up[g] = g /\ g \in Good
  <2>1. up[g] = g
    BY <1>5, <1>7
  <2>2. g \in Heaps(T) /\ Indexed(g) /\ g.position[t] \in 1..Len(g.heap)
    BY MovedElement
  <2>3. Rearranged(T, g, g)
    BY <2>2 DEF Rearranged
  <2>4. g.position[t] \in 2..Len(g.heap) => Fits(g, w, g.position[t])
    BY <1>7, MovesUpIff
  <2>5. AllButUp(g, w, g.position[t]) => Ordered(g, w)
    BY <2>4 DEF AllButUp, Fits, Ordered
  <2> QED
    BY <2>1, <2>3, <2>5
<1>8. ASSUME NEW g \in D, \A k \in D : m[k] < m[g] => k \in Good PROVE g \in Good
  <2>1. CASE MovesUp(g, w, t)
    <3>1. PICK s : s = Swap(g, t, ParentOf(g, t))
      OBVIOUS
    <3>2. s \in D /\ m[s] < m[g] /\ Rearranged(T, g, s)
          /\ (AllButUp(g, w, g.position[t]) => AllButUp(s, w, s.position[t]))
      BY <1>1, <2>1, <3>1
    <3>3. up[g] = up[s]
      BY <1>5, <2>1, <3>1
    <3>4. s \in Good
      BY <1>8, <3>2
    <3>5. Rearranged(T, g, up[g])
      BY <3>2, <3>3, <3>4 DEF Rearranged
    <3> QED
      BY <3>2, <3>3, <3>4, <3>5
  <2> QED
    BY <1>7, <2>1
<1>9. \A g \in D : g \in Good
  <2> HIDE DEF D, m, Good
  <2> QED
    BY <1>2, <1>8, MeasureInduction
<1> QED
  BY <1>6, <1>7, <1>9

\* At m is the earliest of a timer and its children, the timer itself or a child.
EarliestOfFamily(g, w, i, m) ==
  /\ m \in 1..Len(g.heap)
  /\ m # i => m \div 2 = i /\ i < m
  /\ w[g.heap[m]] <= w[g.heap[i]]
  /\ \A j \in 2..Len(g.heap) : j \div 2 = i => w[g.heap[m]] <= w[g.heap[j]]

\* min_index.
LEMMA MinPositionIsLeast ==
  ASSUME NEW T, NEW g \in Heaps(T), NEW w \in [T -> Nat], NEW i \in 1..Len(g.heap),
         NEW m, m = MinPosition(g, w, i)
  PROVE  EarliestOfFamily(g, w, i, m)
<1> DEFINE n == Len(g.heap)
           v == [k \in 1..n |-> w[g.heap[k]]]
           m1 == IF 2 * i <= n /\ v[2 * i] <= v[i] THEN 2 * i ELSE i
<1>1. n \in Nat /\ v \in [1..n -> Nat] /\ i \in 1..n
  BY HeapElements
<1>2. /\ 2 * i <= n => 2 * i \in 1..n
      /\ 2 * i + 1 <= n => 2 * i + 1 \in 1..n
  BY <1>1
<1>3. m = IF 2 * i + 1 <= n /\ v[2 * i + 1] <= v[m1] THEN 2 * i + 1 ELSE m1
  <2>1. m1 = IF 2 * i <= n /\ w[g.heap[2 * i]] <= w[g.heap[i]] THEN 2 * i ELSE i
    BY <1>1, <1>2
  <2>2. m1 \in 1..n /\ v[m1] = w[g.heap[m1]]
    BY <1>1, <1>2
  <2>3. m = IF 2 * i + 1 <= n /\ w[g.heap[2 * i + 1]] <= w[g.heap[m1]]
            THEN 2 * i + 1 ELSE m1
    <3> HIDE DEF m1
    <3> QED
      BY <2>1 DEF MinPosition
  <2> QED
    BY <1>1, <1>2, <2>2, <2>3
<1>4. \A j \in 2..n : j \div 2 = i => j = 2 * i \/ j = 2 * i + 1
  BY <1>1, Halves
<1>5. (2 * i) \div 2 = i /\ (2 * i + 1) \div 2 = i
  BY <1>1
<1> HIDE DEF n, v
<1>6. /\ m \in 1..n /\ v[m] <= v[i]
      /\ 2 * i <= n => v[m] <= v[2 * i]
      /\ 2 * i + 1 <= n => v[m] <= v[2 * i + 1]
  <2>1. m1 \in 1..n /\ v[m1] <= v[i] /\ (2 * i <= n => v[m1] <= v[2 * i])
    <3>1. CASE 2 * i <= n
      <4>1. 2 * i \in 1..n /\ v[2 * i] \in Nat /\ v[i] \in Nat
        BY <1>1, <1>2, <3>1
      <4> QED
        BY <1>1, <4>1
    <3>2. CASE ~(2 * i <= n)
      <4>1. v[i] \in Nat
        BY <1>1
      <4> QED
        BY <1>1, <3>2, <4>1
    <3> QED
      BY <3>1, <3>2
  <2> HIDE DEF m1
  <2>2. v[m1] \in Nat /\ v[i] \in Nat /\ (2 * i <= n => v[2 * i] \in Nat)
    BY <1>1, <1>2, <2>1
  <2>3. CASE 2 * i + 1 <= n
    <3>1. 2 * i + 1 \in 1..n /\ v[2 * i + 1] \in Nat
      BY <1>1, <1>2, <2>3
    <3> QED
      BY <1>3, <2>1, <2>2, <2>3, <3>1
  <2>4. CASE ~(2 * i + 1 <= n)
    BY <1>3, <2>1, <2>4
  <2> QED
    BY <2>3, <2>4
<1>7. m # i => m \div 2 = i /\ i < m
  BY <1>1, <1>3, <1>5
<1>8. \A k \in 1..n : v[k] = w[g.heap[k]]
  BY DEF v
<1>9. \A j \in 2..n : j \div 2 = i => j \in 1..n /\ v[m] <= v[j]
  <2> SUFFICES ASSUME NEW j \in 2..n, j \div 2 = i PROVE j \in 1..n /\ v[m] <= v[j]
    OBVIOUS
  <2>1. j \in 1..n /\ (j = 2 * i \/ j = 2 * i + 1)
    BY <1>1, <1>4
  <2>2. CASE j = 2 * i
    BY <1>6, <2>1, <2>2
  <2>3. CASE j = 2 * i + 1
    BY <1>6, <2>1, <2>3
  <2> QED
    BY <2>1, <2>2, <2>3
<1> QED
  BY <1>1, <1>6, <1>7, <1>8, <1>9 DEF n, EarliestOfFamily

\* A turn of the loop down: the timer at i changes places with its child m.
LEMMA DownStep ==
  ASSUME NEW T, NEW g \in Heaps(T), Indexed(g), NEW w \in [T -> Nat],
         NEW i \in 1..Len(g.heap), AllButDown(g, w, i), NEW m,
         m = MinPosition(g, w, i), m # i, NEW s, s = Swap(g, g.heap[i], g.heap[m])
  PROVE  AllButDown(s, w, m)
<1> DEFINE n == Len(g.heap)
<1>1. n \in Nat /\ \A k \in 1..n : w[g.heap[k]] \in Nat
  BY HeapElements
<1>2. /\ m \in 1..n /\ m \div 2 = i /\ i < m
      /\ w[g.heap[m]] <= w[g.heap[i]]
      /\ \A j \in 2..n : j \div 2 = i => w[g.heap[m]] <= w[g.heap[j]]
  <2>1. EarliestOfFamily(g, w, i, m)
    BY MinPositionIsLeast
  <2> QED
    BY <2>1 DEF EarliestOfFamily
<1>3. /\ s \in Heaps(T) /\ Indexed(s) /\ Len(s.heap) = n
      /\ s.heap[i] = g.heap[m] /\ s.heap[m] = g.heap[i]
      /\ \A k \in 1..n : k # i /\ k # m => s.heap[k] = g.heap[k]
  <2> HIDE DEF n
  <2>1. i \in 1..Len(g.heap) /\ m \in 1..Len(g.heap)
    BY <1>2 DEF n
  <2>2. Exchanged(T, g, i, m, s)
    BY <2>1, SwapExchanges
  <2> QED
    BY <2>2 DEF Exchanged, n
<1>4. \A j \in 2..n : /\ j \in 1..n /\ j \div 2 \in 1..n /\ j \div 2 < j
  BY <1>1, Halves
<1>5. /\ \A j \in 2..n : j \div 2 # i => w[g.heap[j \div 2]] <= w[g.heap[j]]
      /\ i > 1 => w[g.heap[i \div 2]] <= w[g.heap[m]]
  <2>1. m \in 2..n
    BY <1>1, <1>2
  <2> QED
    BY <1>2, <2>1 DEF AllButDown, Fits, GrandchildrenFit
<1> HIDE DEF n
<1>6. ASSUME NEW j \in 2..n, j \div 2 # m PROVE w[s.heap[j \div 2]] <= w[s.heap[j]]
  <2>1. CASE j = m
    BY <1>2, <1>3, <2>1
  <2>2. CASE j = i
    <3>1. i > 1 /\ i \div 2 \in 1..n /\ i \div 2 # i /\ i \div 2 # m
      BY <1>2, <1>4, <2>2
    <3>2. s.heap[j] = g.heap[m] /\ s.heap[j \div 2] = g.heap[i \div 2]
      BY <1>3, <2>2, <3>1
    <3> QED
      BY <1>5, <3>1, <3>2
  <2>3. CASE j # i /\ j # m /\ j \div 2 = i
    <3>1. s.heap[j] = g.heap[j] /\ s.heap[j \div 2] = g.heap[m]
      BY <1>3, <1>4, <2>3
    <3> QED
      BY <1>2, <2>3, <3>1
  <2>4. CASE j # i /\ j # m /\ j \div 2 # i
    <3>1. s.heap[j] = g.heap[j] /\ s.heap[j \div 2] = g.heap[j \div 2]
      BY <1>3, <1>4, <1>6, <2>4
    <3> QED
      BY <1>5, <2>4, <3>1
  <2> QED
    BY <2>1, <2>2, <2>3, <2>4
<1>7. ASSUME NEW j \in 2..n, j \div 2 = m PROVE w[s.heap[m \div 2]] <= w[s.heap[j]]
  <2>1. j \in 1..n /\ j # m /\ j # i /\ j \div 2 # i
    BY <1>1, <1>2, <1>4, <1>7
  <2>2. s.heap[j] = g.heap[j] /\ s.heap[m \div 2] = g.heap[m]
    BY <1>2, <1>3, <2>1
  <2> QED
    BY <1>5, <1>7, <2>1, <2>2
<1> QED
  BY <1>3, <1>6, <1>7 DEF AllButDown, Fits, GrandchildrenFit

\* heap_down: it only moves timers, and it restores the order of the heap if
\* only the children of the timer it is called for may be earlier than it.
LEMMA HeapDownRestores ==
  ASSUME NEW T, NEW t, NEW hp \in HeapsWith(T, t), NEW w \in [T -> Nat]
  PROVE  /\ Rearranged(T, hp, HeapDown(hp, w, t))
         /\ AllButDown(hp, w, hp.position[t]) => Ordered(HeapDown(hp, w, t), w)
<1> DEFINE D == HeapsWith(T, t)
           Best(g) == MinPosition(g, w, g.position[t])
           stop == {g \in D : Best(g) = g.position[t]}
           next == [g \in D |-> Swap(g, t, g.heap[Best(g)])]
           m == [g \in D |-> Len(g.heap) - g.position[t]]
           IsLoop(f) ==
             f = [g \in D |-> LET i == g.position[t]
                                  k == MinPosition(g, w, i)
                              IN  IF k = i THEN g ELSE f[Swap(g, t, g.heap[k])]]
<1>0. \A g \in D : /\ g \in Heaps(T) /\ Indexed(g) /\ Len(g.heap) \in Nat
                   /\ g.position[t] \in 1..Len(g.heap) /\ g.heap[g.position[t]] = t
  <2> SUFFICES ASSUME NEW g \in D
               PROVE  /\ g \in Heaps(T) /\ Indexed(g) /\ Len(g.heap) \in Nat
                      /\ g.position[t] \in 1..Len(g.heap) /\ g.heap[g.position[t]] = t
    OBVIOUS
  <2>1. g \in Heaps(T)
    BY MovedElement
  <2>2. Len(g.heap) \in Nat
    BY <2>1, HeapElements
  <2> QED
    BY <2>1, <2>2, MovedElement
<1>1. ASSUME NEW g \in D, Best(g) # g.position[t], NEW s, s = Swap(g, t, g.heap[Best(g)])
      PROVE  /\ s \in D /\ Rearranged(T, g, s)
             /\ s.position[t] = Best(g) /\ s.position[t] > g.position[t]
             /\ AllButDown(g, w, g.position[t]) => AllButDown(s, w, s.position[t])
  <2>1. PICK i \in 1..Len(g.heap) : i = g.position[t] /\ g.heap[i] = t
    BY <1>0
  <2>2. PICK k : k = MinPosition(g, w, i)
    OBVIOUS
  <2>3. g \in Heaps(T) /\ Indexed(g) /\ k = Best(g) /\ k # i /\ s = Swap(g, t, g.heap[k])
    BY <1>0, <1>1, <2>1, <2>2
  <2>4. k \in 1..Len(g.heap) /\ i < k
    <3> HIDE DEF D, Best
    <3>1. g \in Heaps(T) /\ i \in 1..Len(g.heap) /\ k = MinPosition(g, w, i) /\ k # i
      BY <2>1, <2>2, <2>3
    <3> QED
      BY <3>1, MinPositionIsLeast DEF EarliestOfFamily
  <2>5. s \in D /\ Rearranged(T, g, s) /\ s.position[t] = k
    BY <2>3, <2>4, TurnRearranges
  <2>6. AllButDown(g, w, i) => AllButDown(s, w, k)
    BY <2>1, <2>2, <2>3, DownStep
  <2> QED
    BY <2>1, <2>3, <2>4, <2>5, <2>6
<1>2. m \in [D -> Nat]
  <2>1. \A g \in D : Len(g.heap) - g.position[t] \in Nat
    BY <1>0
  <2> QED
    BY <2>1
<1>3. ASSUME NEW g \in D, g \notin stop PROVE next[g] \in D /\ m[next[g]] < m[g]
  <2>1. Best(g) # g.position[t]
    BY <1>3
  <2>2. PICK s : s = Swap(g, t, g.heap[Best(g)])
    OBVIOUS
  <2>3. s \in D /\ Rearranged(T, g, s) /\ s.position[t] > g.position[t]
    BY <1>1, <2>1, <2>2
  <2>4. /\ Len(s.heap) = Len(g.heap) /\ Len(g.heap) \in Nat
        /\ s.position[t] \in Nat /\ g.position[t] \in Nat
    BY <1>0, <2>3 DEF Rearranged
  <2>5. m[s] < m[g]
    BY <2>3, <2>4
  <2> QED
    BY <2>2, <2>3, <2>5
<1>4. PICK e : IsLoop(e)
  <2> HIDE DEF D, m
  <2>0. Terminates(D, stop, next, m)
    BY <1>2, <1>3 DEF Terminates
  <2>1. PICK f : Repeats(f, D, stop, next)
    <3> HIDE DEF stop, next
    <3> QED
      BY <2>0, LoopFunction
  <2>2. \A g \in D : f[g] = IF Best(g) = g.position[t] THEN g ELSE f[Swap(g, t, g.heap[Best(g)])]
    BY <2>1 DEF Repeats
  <2>3. IsLoop(f)
    BY <2>1, <2>2 DEF Repeats
  <2> QED
    BY <2>3
<1> DEFINE down == CHOOSE f : IsLoop(f)
<1>5. IsLoop(down)
  <2> HIDE DEF IsLoop
  <2> QED
    BY <1>4
<1>6. \A g \in D : HeapDown(g, w, t) = down[g]
  <2>1. \A g \in D : DOMAIN g.position = T
    BY MovedElement
  <2> QED
    BY <2>1 DEF HeapDown
<1> HIDE DEF down
<1> DEFINE Good == {g \in D : /\ Rearranged(T, g, down[g])
                              /\ AllButDown(g, w, g.position[t]) => Ordered(down[g], w)}
<1>7. ASSUME NEW g \in D, Best(g) = g.position[t] PROVE g \in Good
  <2>1. down[g] = g
    BY <1>5, <1>7
  <2>2. Rearranged(T, g, g)
    BY <1>0 DEF Rearranged
  <2>3. PICK i \in 1..Len(g.heap) : i = g.position[t] /\ i = MinPosition(g, w, i)
    BY <1>0, <1>7
  <2>4. \A j \in 2..Len(g.heap) : j \div 2 = i => w[g.heap[i]] <= w[g.heap[j]]
    BY <1>0, <2>3, MinPositionIsLeast DEF EarliestOfFamily
  <2>5. AllButDown(g, w, i) => Ordered(g, w)
    BY <2>4 DEF AllButDown, Fits, Ordered
  <2> QED
    BY <2>1, <2>2, <2>3, <2>5
<1>8. ASSUME NEW g \in D, \A k \in D : m[k] < m[g] => k \in Good PROVE g \in Good
  <2>1. CASE Best(g) # g.position[t]
    <3>1. PICK s : s = Swap(g, t, g.heap[Best(g)])
      OBVIOUS
    <3>2. s \in D /\ Rearranged(T, g, s)
          /\ (AllButDown(g, w, g.position[t]) => AllButDown(s, w, s.position[t]))
      BY <1>1, <2>1, <3>1
    <3>3. down[g] = down[s]
      BY <1>5, <2>1, <3>1
    <3>4. s = next[g] /\ g \notin stop
      BY <2>1, <3>1
    <3>5. s \in Good
      BY <1>3, <1>8, <3>2, <3>4
    <3>6. Rearranged(T, g, down[g])
      BY <3>2, <3>3, <3>5 DEF Rearranged
    <3> QED
      BY <3>2, <3>3, <3>5, <3>6
  <2> QED
    BY <1>7, <2>1
<1>9. \A g \in D : g \in Good
  <2> HIDE DEF D, m, Good
  <2> QED
    BY <1>2, <1>8, MeasureInduction
<1> QED
  BY <1>6, <1>9

\* The array without its last timer.
LEMMA PopLast ==
  ASSUME NEW T, NEW g \in Heaps(T), Indexed(g), Len(g.heap) # 0
  PROVE  /\ PopBack(g) \in Heaps(T) /\ Indexed(PopBack(g))
         /\ Len(PopBack(g).heap) = Len(g.heap) - 1
         /\ PopBack(g).position = g.position
         /\ \A k \in 1..(Len(g.heap) - 1) : PopBack(g).heap[k] = g.heap[k]
         /\ ToSet(PopBack(g).heap) = ToSet(g.heap) \ {g.heap[Len(g.heap)]}
<1>0. PICK r : r = PopBack(g)
  OBVIOUS
<1> DEFINE n == Len(g.heap)
<1>1. /\ g.heap \in Seq(T) /\ n \in Nat /\ DOMAIN g.heap = 1..n /\ g.position \in [T -> Nat]
      /\ \A k \in 1..n : g.heap[k] \in T /\ g.position[g.heap[k]] = k
  BY DEF Heaps, Indexed
<1>2. n \in 1..n /\ n - 1 \in Nat
  BY <1>1
<1>3. /\ r.heap = Front(g.heap) /\ r.position = g.position
      /\ r = [heap |-> r.heap, position |-> r.position]
  BY <1>0 DEF PopBack, Heaps
<1>4. r.heap = SubSeq(g.heap, 1, n - 1)
  BY <1>3 DEF Front
<1>5. Len(r.heap) = n - 1 /\ DOMAIN r.heap = 1..(n - 1)
  BY <1>1, <1>2, <1>4
<1>6. r.heap \in Seq(T)
  BY <1>1, <1>2, <1>4
<1>7. \A k \in 1..(n - 1) : r.heap[k] = g.heap[k]
  BY <1>1, <1>2, <1>4
<1> HIDE DEF n
<1>8. r \in Heaps(T)
  BY <1>1, <1>3, <1>6 DEF Heaps
<1>9. \A k \in 1..(n - 1) : k \in 1..n /\ k # n
  BY <1>2
<1>10. \A k \in 1..(n - 1) : r.position[r.heap[k]] = k
  BY <1>1, <1>3, <1>7, <1>9
<1>11. ToSet(r.heap) = ToSet(g.heap) \ {g.heap[n]}
  <2>1. /\ ToSet(g.heap) = {g.heap[k] : k \in 1..n}
        /\ ToSet(r.heap) = {r.heap[k] : k \in 1..(n - 1)}
    BY <1>1, <1>5 DEF ToSet
  <2>2. ASSUME NEW k \in 1..(n - 1)
        PROVE  r.heap[k] \in {g.heap[l] : l \in 1..n} /\ r.heap[k] # g.heap[n]
    <3>1. k \in 1..n /\ k # n /\ r.heap[k] = g.heap[k]
      BY <1>7, <1>9
    <3>2. g.position[g.heap[k]] # g.position[g.heap[n]]
      BY <1>1, <1>2, <3>1
    <3> QED
      BY <3>1, <3>2
  <2>3. ASSUME NEW k \in 1..n, g.heap[k] # g.heap[n]
        PROVE  g.heap[k] \in {r.heap[l] : l \in 1..(n - 1)}
    <3>1. k \in 1..(n - 1) /\ r.heap[k] = g.heap[k]
      BY <1>1, <1>2, <1>7, <2>3
    <3> QED
      BY <3>1
  <2> QED
    BY <2>1, <2>2, <2>3
<1> QED
  BY <1>0, <1>3, <1>5, <1>7, <1>8, <1>10, <1>11 DEF Indexed, n

\* r is what heap_add(t) has to make of the heap g.
Added(T, g, w, t, r) ==
  /\ r \in Heaps(T) /\ Indexed(r)
  /\ ToSet(r.heap) = ToSet(g.heap) \cup {t}
  /\ \A x \in T : x \notin ToSet(g.heap) /\ x # t => r.position[x] = g.position[x]
  /\ Ordered(g, w) => Ordered(r, w)

\* heap_add puts the timer into the array, and the array stays in order.
LEMMA HeapAddCorrect ==
  ASSUME NEW T, NEW t \in T, NEW hp \in Heaps(T), Indexed(hp), t \notin ToSet(hp.heap),
         NEW w \in [T -> Nat]
  PROVE  Added(T, hp, w, t, HeapAdd(hp, w, t))
<1>0. PICK r : r = HeapAdd(hp, w, t)
  OBVIOUS
<1> SUFFICES /\ r \in Heaps(T) /\ Indexed(r)
             /\ ToSet(r.heap) = ToSet(hp.heap) \cup {t}
             /\ \A x \in T : x \notin ToSet(hp.heap) /\ x # t => r.position[x] = hp.position[x]
             /\ Ordered(hp, w) => Ordered(r, w)
  BY <1>0 DEF Added
<1> DEFINE n == Len(hp.heap)
<1>1. PICK a : a = [heap     |-> Append(hp.heap, t),
                    position |-> [hp.position EXCEPT ![t] = n + 1]]
  OBVIOUS
<1>2. /\ hp.heap \in Seq(T) /\ n \in Nat /\ DOMAIN hp.heap = 1..n /\ hp.position \in [T -> Nat]
      /\ \A k \in 1..n : hp.heap[k] \in T /\ hp.position[hp.heap[k]] = k
      /\ \A k \in 1..n : hp.heap[k] # t
  <2>1. hp.heap \in Seq(T) /\ n \in Nat /\ DOMAIN hp.heap = 1..n /\ hp.position \in [T -> Nat]
    BY DEF Heaps
  <2>2. \A k \in 1..n : hp.heap[k] \in T /\ hp.position[hp.heap[k]] = k
    BY <2>1 DEF Indexed
  <2>3. \A k \in 1..n : hp.heap[k] # t
    BY <2>1 DEF ToSet
  <2> QED
    BY <2>1, <2>2, <2>3
<1>3. /\ a.heap \in Seq(T) /\ Len(a.heap) = n + 1 /\ DOMAIN a.heap = 1..(n + 1)
      /\ a.heap[n + 1] = t /\ \A k \in 1..n : a.heap[k] = hp.heap[k]
  BY <1>1, <1>2
<1>4. /\ a.position \in [T -> Nat] /\ a.position[t] = n + 1
      /\ \A x \in T : x # t => a.position[x] = hp.position[x]
  BY <1>1, <1>2
<1> HIDE DEF n
<1>5. ToSet(a.heap) = ToSet(hp.heap) \cup {t}
  <2>1. /\ ToSet(hp.heap) = {hp.heap[k] : k \in 1..n}
        /\ ToSet(a.heap) = {a.heap[k] : k \in 1..(n + 1)}
    BY <1>2, <1>3 DEF ToSet
  <2>2. ASSUME NEW k \in 1..(n + 1)
        PROVE  a.heap[k] \in {hp.heap[l] : l \in 1..n} \cup {t}
    <3>1. CASE k = n + 1
      BY <1>3, <3>1
    <3>2. CASE k # n + 1
      <4>1. k \in 1..n /\ a.heap[k] = hp.heap[k]
        BY <1>2, <1>3, <3>2
      <4> QED
        BY <4>1
    <3> QED
      BY <3>1, <3>2
  <2>3. ASSUME NEW k \in 1..n PROVE hp.heap[k] \in {a.heap[l] : l \in 1..(n + 1)}
    <3>1. k \in 1..(n + 1) /\ a.heap[k] = hp.heap[k]
      BY <1>2, <1>3
    <3> QED
      BY <3>1
  <2>4. t \in {a.heap[l] : l \in 1..(n + 1)}
    BY <1>2, <1>3
  <2> QED
    BY <2>1, <2>2, <2>3, <2>4
<1>6. a \in Heaps(T)
  BY <1>1, <1>3, <1>4 DEF Heaps
<1>7. Indexed(a)
  <2>1. ASSUME NEW k \in 1..(n + 1) PROVE a.position[a.heap[k]] = k
    <3>1. CASE k = n + 1
      BY <1>3, <1>4, <3>1
    <3>2. CASE k # n + 1
      <4>1. k \in 1..n
        BY <1>2, <3>2
      <4>2. a.heap[k] = hp.heap[k] /\ hp.heap[k] \in T /\ hp.heap[k] # t
        BY <1>2, <1>3, <4>1
      <4> QED
        BY <1>2, <1>4, <4>1, <4>2
    <3> QED
      BY <3>1, <3>2
  <2> QED
    BY <1>3, <2>1 DEF Indexed
<1>8. a \in HeapsWith(T, t)
  BY <1>5, <1>6, <1>7 DEF HeapsWith
<1>9. r = HeapUp(a, w, t)
  BY <1>0, <1>1 DEF HeapAdd, n
<1>10. ASSUME Ordered(hp, w) PROVE AllButUp(a, w, n + 1)
  <2>1. ASSUME NEW j \in 2..(n + 1), j # n + 1 PROVE Fits(a, w, j)
    <3>1. j \in 2..n /\ j \in 1..n /\ j \div 2 \in 1..n
      BY <1>2, <2>1, Halves
    <3> QED
      BY <1>3, <1>10, <3>1 DEF Ordered, Fits, n
  <2>2. \A j \in 2..(n + 1) : j \div 2 # n + 1
    BY <1>2, Halves
  <2> QED
    BY <1>3, <2>1, <2>2 DEF AllButUp, GrandchildrenFit
<1>11. Rearranged(T, a, r) /\ (Ordered(hp, w) => Ordered(r, w))
  BY <1>4, <1>8, <1>9, <1>10, HeapUpRestores
<1> QED
  BY <1>4, <1>5, <1>11 DEF Rearranged

\* r is what heap_remove(t) has to make of the heap g.
Removed(T, g, w, t, r) ==
  /\ r \in Heaps(T) /\ Indexed(r)
  /\ ToSet(r.heap) = ToSet(g.heap) \ {t}
  /\ \A x \in T : x \notin ToSet(g.heap) => r.position[x] = g.position[x]
  /\ r.position[t] = Len(g.heap) /\ Len(g.heap) \in Nat /\ Len(g.heap) # 0
  /\ Ordered(g, w) => Ordered(r, w)

\* heap_remove takes the timer out of the array, and the array stays in order.
LEMMA HeapRemoveCorrect ==
  ASSUME NEW T, NEW hp \in Heaps(T), Indexed(hp), NEW t \in ToSet(hp.heap),
         NEW w \in [T -> Nat]
  PROVE  Removed(T, hp, w, t, HeapRemove(hp, w, t))
<1>0. PICK r : r = HeapRemove(hp, w, t)
  OBVIOUS
<1> SUFFICES /\ r \in Heaps(T) /\ Indexed(r)
             /\ ToSet(r.heap) = ToSet(hp.heap) \ {t}
             /\ \A x \in T : x \notin ToSet(hp.heap) => r.position[x] = hp.position[x]
             /\ r.position[t] = Len(hp.heap) /\ Len(hp.heap) \in Nat /\ Len(hp.heap) # 0
             /\ Ordered(hp, w) => Ordered(r, w)
  BY <1>0 DEF Removed
<1> DEFINE n == Len(hp.heap)
           last == Last(hp.heap)
<1>1. hp \in HeapsWith(T, t)
  BY DEF HeapsWith
<1>2. PICK i \in 1..n : i = hp.position[t] /\ hp.heap[i] = t
  BY <1>1, MovedElement
<1>3. n \in Nat /\ n # 0 /\ n \in 1..n /\ last = hp.heap[n] /\ hp.heap # <<>> /\ t \in T
      /\ \A k \in 1..n : hp.heap[k] \in T /\ w[hp.heap[k]] \in Nat /\ hp.position[hp.heap[k]] = k
  BY <1>2, HeapElements DEF Last, Indexed
<1> HIDE DEF n, last
<1>4. CASE i = n
  <2>1. r = PopBack(hp)
    BY <1>0, <1>2, <1>4 DEF HeapRemove, n
  <2>2. /\ r \in Heaps(T) /\ Indexed(r) /\ Len(r.heap) = n - 1 /\ r.position = hp.position
        /\ \A k \in 1..(n - 1) : r.heap[k] = hp.heap[k]
        /\ ToSet(r.heap) = ToSet(hp.heap) \ {last}
    <3>1. hp.heap[Len(hp.heap)] = last /\ Len(hp.heap) = n
      BY <1>3 DEF n
    <3>2. Len(hp.heap) # 0
      BY <1>3, <3>1
    <3>3. /\ r \in Heaps(T) /\ Indexed(r) /\ Len(r.heap) = Len(hp.heap) - 1
          /\ r.position = hp.position
          /\ \A k \in 1..(Len(hp.heap) - 1) : r.heap[k] = hp.heap[k]
          /\ ToSet(r.heap) = ToSet(hp.heap) \ {hp.heap[Len(hp.heap)]}
      <4>1. /\ PopBack(hp) \in Heaps(T) /\ Indexed(PopBack(hp))
            /\ Len(PopBack(hp).heap) = Len(hp.heap) - 1
            /\ PopBack(hp).position = hp.position
            /\ \A k \in 1..(Len(hp.heap) - 1) : PopBack(hp).heap[k] = hp.heap[k]
            /\ ToSet(PopBack(hp).heap) = ToSet(hp.heap) \ {hp.heap[Len(hp.heap)]}
        BY <3>2, PopLast
      <4> QED
        BY <2>1, <4>1
    <3> QED
      BY <3>1, <3>3
  <2>3. Ordered(hp, w) => Ordered(r, w)
    <3>1. \A j \in 2..(n - 1) : j \in 2..n /\ j \in 1..(n - 1) /\ j \div 2 \in 1..(n - 1)
      BY <1>3, Halves
    <3> QED
      BY <2>2, <3>1 DEF Ordered, n
  <2>4. r.position[t] = n /\ last = t
    BY <1>2, <1>3, <1>4, <2>2
  <2> QED
    BY <1>3, <2>2, <2>3, <2>4 DEF n
<1>5. CASE i # n
  <2>1. PICK s : s = Swap(hp, t, last)
    OBVIOUS
  <2>2. PICK popped : popped = PopBack(s)
    OBVIOUS
  <2>3. /\ s \in Heaps(T) /\ Indexed(s) /\ Len(s.heap) = n
        /\ s.heap[i] = last /\ s.heap[n] = t
        /\ \A k \in 1..n : k # i /\ k # n => s.heap[k] = hp.heap[k]
        /\ s.position[t] = n /\ s.position[last] = i
        /\ ToSet(s.heap) = ToSet(hp.heap)
        /\ \A x \in T : x \notin ToSet(hp.heap) => s.position[x] = hp.position[x]
    <3>1. s = Swap(hp, hp.heap[i], hp.heap[n])
      BY <1>2, <1>3, <2>1
    <3>2. i \in 1..Len(hp.heap) /\ n \in 1..Len(hp.heap) /\ i # n /\ Len(hp.heap) = n
      BY <1>3, <1>5 DEF n
    <3>3. Exchanged(T, hp, i, n, s)
      BY <3>1, <3>2, SwapExchanges
    <3> QED
      BY <1>2, <1>3, <3>2, <3>3 DEF Exchanged
  <2>4. Len(s.heap) # 0
    BY <1>3, <2>3
  <2>5. /\ popped \in Heaps(T) /\ Indexed(popped) /\ Len(popped.heap) = n - 1
        /\ popped.position = s.position
        /\ \A k \in 1..(n - 1) : popped.heap[k] = s.heap[k]
        /\ ToSet(popped.heap) = ToSet(hp.heap) \ {t}
    <3>1. /\ popped \in Heaps(T) /\ Indexed(popped) /\ Len(popped.heap) = Len(s.heap) - 1
          /\ popped.position = s.position
          /\ \A k \in 1..(Len(s.heap) - 1) : popped.heap[k] = s.heap[k]
          /\ ToSet(popped.heap) = ToSet(s.heap) \ {s.heap[Len(s.heap)]}
      <4>1. s \in Heaps(T) /\ Indexed(s)
        BY <2>3
      <4> QED
        BY <2>2, <2>4, <4>1, PopLast
    <3> QED
      BY <2>3, <3>1
  <2>6. i \in 1..(n - 1) /\ popped.heap[i] = last /\ popped.position[last] = i
        /\ \A k \in 1..(n - 1) : k # i => popped.heap[k] = hp.heap[k]
    BY <1>3, <1>5, <2>3, <2>5
  <2>7. popped \in HeapsWith(T, last)
    <3>1. last \in ToSet(popped.heap)
      BY <2>5, <2>6, HeapElements
    <3> QED
      BY <2>5, <3>1 DEF HeapsWith
  <2>8. PICK up : up = HeapUp(popped, w, last)
    OBVIOUS
  <2>9. r = IF up = popped THEN HeapDown(popped, w, last) ELSE up
    <3>1. hp.position[t] # Len(hp.heap) /\ last = Last(hp.heap)
      BY <1>2, <1>5 DEF n, last
    <3> QED
      BY <1>0, <2>1, <2>2, <2>8, <3>1 DEF HeapRemove
  <2>10. /\ Rearranged(T, popped, up)
         /\ AllButUp(popped, w, i) => Ordered(up, w)
         /\ ~MovesUp(popped, w, last) => up = popped
    BY <2>6, <2>7, <2>8, HeapUpRestores
  <2>11. /\ Rearranged(T, popped, HeapDown(popped, w, last))
         /\ AllButDown(popped, w, i) => Ordered(HeapDown(popped, w, last), w)
    BY <2>6, <2>7, HeapDownRestores
  <2>12. Rearranged(T, popped, r)
    BY <2>9, <2>10, <2>11
  <2>13. ASSUME Ordered(hp, w) PROVE Ordered(r, w)
    <3>1. \A j \in 2..(n - 1) : /\ j \in 2..n /\ j \in 1..(n - 1) /\ j \div 2 \in 1..(n - 1)
                                /\ j \div 2 # j
      BY <1>3, Halves
    <3>2. \A j \in 2..n : w[hp.heap[j \div 2]] <= w[hp.heap[j]]
      BY <2>13 DEF Ordered, n
    <3>3. ASSUME NEW j \in 2..(n - 1), j # i, j \div 2 # i PROVE Fits(popped, w, j)
      <4>1. popped.heap[j] = hp.heap[j] /\ popped.heap[j \div 2] = hp.heap[j \div 2]
        BY <2>6, <3>1, <3>3
      <4> QED
        BY <3>1, <3>2, <4>1 DEF Fits
    <3>4. GrandchildrenFit(popped, w, i)
      <4> SUFFICES ASSUME i > 1, NEW j \in 2..(n - 1), j \div 2 = i
                   PROVE  w[popped.heap[i \div 2]] <= w[popped.heap[j]]
        BY <2>5 DEF GrandchildrenFit
      <4>1. i \in 2..(n - 1) /\ i \div 2 \in 1..(n - 1) /\ i \div 2 # i /\ j # i
        BY <2>6, <3>1
      <4>2. popped.heap[j] = hp.heap[j] /\ popped.heap[i \div 2] = hp.heap[i \div 2]
        BY <2>6, <3>1, <4>1
      <4>3. w[hp.heap[i]] <= w[hp.heap[j]] /\ w[hp.heap[i \div 2]] <= w[hp.heap[i]]
        BY <3>1, <3>2, <4>1
      <4>4. w[hp.heap[i]] \in Nat /\ w[hp.heap[j]] \in Nat /\ w[hp.heap[i \div 2]] \in Nat
        BY <1>3, <3>1, <4>1
      <4> QED
        BY <4>2, <4>3, <4>4
    <3>5. MovesUp(popped, w, last) <=> i \in 2..(n - 1) /\ ~Fits(popped, w, i)
      BY <2>5, <2>6, <2>7, MovesUpIff
    <3>6. CASE MovesUp(popped, w, last)
      <4>1. ASSUME NEW j \in 2..(n - 1), j \div 2 = i PROVE Fits(popped, w, j)
        <5>1. i \in 1..(n - 1) /\ i \div 2 \in 1..(n - 1)
          BY <2>6, <3>1, <3>5, <3>6
        <5>2. /\ w[popped.heap[i]] \in Nat /\ w[popped.heap[j]] \in Nat
              /\ w[popped.heap[i \div 2]] \in Nat
          <6>1. \A k \in 1..Len(popped.heap) : w[popped.heap[k]] \in Nat
            BY <2>5, HeapElements
          <6> QED
            BY <2>5, <3>1, <5>1, <6>1
        <5>3. w[popped.heap[i \div 2]] <= w[popped.heap[j]]
          BY <2>5, <3>4, <3>5, <3>6, <4>1 DEF GrandchildrenFit
        <5>4. w[popped.heap[i \div 2]] > w[popped.heap[i]]
          BY <3>5, <3>6, <5>2 DEF Fits
        <5> QED
          BY <4>1, <5>2, <5>3, <5>4 DEF Fits
      <4>2. AllButUp(popped, w, i)
        BY <2>5, <3>3, <3>4, <4>1 DEF AllButUp
      <4>3. Ordered(up, w)
        BY <2>10, <4>2
      <4>4. up # popped
        <5>1. \E j \in 2..Len(popped.heap) :
                ~(w[popped.heap[j \div 2]] <= w[popped.heap[j]])
          BY <2>5, <3>5, <3>6 DEF Fits
        <5> QED
          BY <4>3, <5>1 DEF Ordered
      <4> QED
        BY <2>9, <4>3, <4>4
    <3>7. CASE ~MovesUp(popped, w, last)
      <4>1. AllButDown(popped, w, i)
        BY <2>5, <3>3, <3>4, <3>5, <3>7 DEF AllButDown
      <4> QED
        BY <2>9, <2>10, <2>11, <3>7, <4>1
    <3> QED
      BY <3>6, <3>7
  <2> QED
    <3>1. t \notin ToSet(popped.heap)
      BY <2>5
    <3>2. r.position[t] = n
      BY <1>3, <2>3, <2>5, <2>12, <3>1 DEF Rearranged
    <3>3. \A x \in T : x \notin ToSet(hp.heap) => r.position[x] = hp.position[x]
      BY <2>3, <2>5, <2>12 DEF Rearranged
    <3> QED
      BY <1>3, <2>5, <2>12, <2>13, <3>2, <3>3 DEF Rearranged, n
<1> QED
  BY <1>4, <1>5

\* "The timer with the earlier time point is on the top of the heap."
LEMMA HeadIsEarliest ==
  ASSUME NEW T, NEW hp \in Heaps(T), NEW w \in [T -> Nat], Ordered(hp, w)
  PROVE  \A t \in ToSet(hp.heap) : w[Head(hp.heap)] <= w[t]
<1> DEFINE n == Len(hp.heap)
           D == 1..n
           m == [k \in D |-> k]
           Later == {k \in D : w[hp.heap[1]] <= w[hp.heap[k]]}
<1>1. n \in Nat /\ \A k \in 1..n : w[hp.heap[k]] \in Nat
  BY HeapElements
<1>2. ASSUME NEW k \in D, \A j \in D : m[j] < m[k] => j \in Later PROVE k \in Later
  <2>1. CASE k = 1
    BY <1>1, <2>1
  <2>2. CASE k # 1
    <3>1. k \in 2..n /\ k \div 2 \in 1..n /\ k \div 2 < k /\ 1 \in 1..n
      BY <1>1, <2>2, Halves
    <3>2. w[hp.heap[k \div 2]] <= w[hp.heap[k]] /\ w[hp.heap[1]] <= w[hp.heap[k \div 2]]
      BY <1>2, <3>1 DEF Ordered
    <3> QED
      BY <1>1, <3>1, <3>2
  <2> QED
    BY <2>1, <2>2
<1>3. m \in [D -> Nat]
  BY <1>1
<1>4. \A k \in D : k \in Later
  <2> HIDE DEF D, m, Later
  <2> QED
    BY <1>2, <1>3, MeasureInduction
<1>5. \A k \in 1..n : w[hp.heap[1]] <= w[hp.heap[k]]
  BY <1>4
<1>6. Head(hp.heap) = hp.heap[1]
  OBVIOUS
<1> QED
  BY <1>5, <1>6, HeapElements

-----------------------------------------------------------------------------
\* The array and the time points as they are between the calls.
HeapTyped ==
  /\ size \in 0..MaxSize
  /\ point \in [Items -> Nat]
  /\ array \in Heaps(Items)

\* One call of heap_add or heap_remove keeps the order and the members.
LEMMA HeapStepKeeps ==
  ASSUME HeapTyped, StaysOrdered, HoldsMembers, [HeapNext]_heapVars
  PROVE  HeapTyped' /\ StaysOrdered' /\ HoldsMembers'
<1>1. CASE UNCHANGED heapVars
  BY <1>1 DEF heapVars, HeapTyped, StaysOrdered, HoldsMembers, Ordered, Indexed, IsInjective
<1>2. ASSUME NEW r, array' = r, r \in Heaps(Items), Indexed(r), ToSet(r.heap) = members',
             Ordered(r, point), UNCHANGED <<size, point>>
      PROVE  HeapTyped' /\ StaysOrdered' /\ HoldsMembers'
  <2>1. \A i, j \in DOMAIN r.heap : r.heap[i] = r.heap[j] => i = j
    <3>1. DOMAIN r.heap = 1..Len(r.heap)
      BY <1>2 DEF Heaps
    <3> QED
      BY <1>2, <3>1 DEF Indexed
  <2> QED
    BY <1>2, <2>1 DEF HeapTyped, StaysOrdered, HoldsMembers, Ordered, Indexed, IsInjective
<1>3. CASE AddTimer
  <2> DEFINE t == size + 1
  <2>1. /\ t \in Items /\ t \notin ToSet(array.heap)
        /\ array \in Heaps(Items) /\ Indexed(array) /\ point \in [Items -> Nat]
    BY <1>3 DEF AddTimer, HeapTyped, HoldsMembers
  <2>2. PICK r : r = HeapAdd(array, point, t)
    OBVIOUS
  <2>3. Added(Items, array, point, t, r)
    BY <2>1, <2>2, HeapAddCorrect
  <2>4. /\ r \in Heaps(Items) /\ Indexed(r) /\ Ordered(r, point)
        /\ ToSet(r.heap) = ToSet(array.heap) \cup {t}
    BY <2>3 DEF Added, StaysOrdered
  <2>5. array' = r /\ members' = members \cup {t} /\ UNCHANGED <<size, point>>
    BY <1>3, <2>2 DEF AddTimer
  <2>6. ToSet(r.heap) = members'
    BY <2>4, <2>5 DEF HoldsMembers
  <2> QED
    BY <1>2, <2>4, <2>5, <2>6
<1>4. CASE RemoveTimer
  <2>1. PICK t \in members :
          /\ array' = HeapRemove(array, point, t)
          /\ members' = members \ {t} /\ UNCHANGED <<size, point>>
    BY <1>4 DEF RemoveTimer
  <2>2. /\ t \in ToSet(array.heap)
        /\ array \in Heaps(Items) /\ Indexed(array) /\ point \in [Items -> Nat]
    BY DEF HeapTyped, HoldsMembers
  <2>3. PICK r : r = HeapRemove(array, point, t)
    OBVIOUS
  <2>4. Removed(Items, array, point, t, r)
    BY <2>2, <2>3, HeapRemoveCorrect
  <2>5. /\ r \in Heaps(Items) /\ Indexed(r) /\ Ordered(r, point)
        /\ ToSet(r.heap) = ToSet(array.heap) \ {t}
    BY <2>4 DEF Removed, StaysOrdered
  <2>6. array' = r /\ ToSet(r.heap) = members' /\ UNCHANGED <<size, point>>
    BY <2>1, <2>3, <2>5 DEF HoldsMembers
  <2> QED
    BY <1>2, <2>5, <2>6
<1> QED
  BY <1>1, <1>3, <1>4 DEF HeapNext

\* The invariant of the heap alone: it holds at first, and every call keeps it.
LEMMA HeapInvariant == HeapSpec => [](HeapTyped /\ StaysOrdered /\ HoldsMembers)
<1>1. HeapInit => HeapTyped /\ StaysOrdered /\ HoldsMembers
  <2> SUFFICES ASSUME HeapInit PROVE HeapTyped /\ StaysOrdered /\ HoldsMembers
    OBVIOUS
  <2> DEFINE s == [i \in 1..size |-> i]
             f == [t \in Items |-> IF t <= size THEN t ELSE 0]
  <2>1. /\ size \in 0..MaxSize /\ size \in Nat /\ 1..size \subseteq Items
        /\ array = [heap |-> s, position |-> f] /\ members = 1..size
    BY ItemsAssumption DEF HeapInit
  <2>2. point \in [Items -> Nat]
    BY ItemsAssumption DEF HeapInit
  <2>3. s \in Seq(Items) /\ Len(s) = size /\ DOMAIN s = 1..size
    BY <2>1, \A i \in 1..size : i \in Items
  <2>4. f \in [Items -> Nat]
    BY ItemsAssumption
  <2>5. array \in Heaps(Items)
    BY <2>1, <2>3, <2>4 DEF Heaps
  <2>6. array.heap = s /\ array.position = f
    BY <2>1
  <2>7. ToSet(array.heap) = members /\ IsInjective(array.heap) /\ Indexed(array)
    <3>1. ToSet(s) = 1..size
      BY <2>3 DEF ToSet
    <3>2. IsInjective(s)
      BY <2>3 DEF IsInjective
    <3>3. \A i \in 1..size : f[s[i]] = i
      BY <2>1
    <3> QED
      BY <2>1, <2>3, <2>6, <3>1, <3>2, <3>3 DEF Indexed
  <2>8. Ordered(array, point)
    BY DEF HeapInit
  <2> QED
    BY <2>1, <2>2, <2>5, <2>7, <2>8 DEF HeapTyped, StaysOrdered, HoldsMembers
<1>2. HeapTyped /\ StaysOrdered /\ HoldsMembers /\ [HeapNext]_heapVars
        => HeapTyped' /\ StaysOrdered' /\ HoldsMembers'
  BY HeapStepKeeps
<1> QED
  BY <1>1, <1>2, PTL DEF HeapSpec

(***************************************************************************)
(* heap_add and heap_remove keep the array in order, for heaps of every    *)
(* size and any time points: the loops that move a timer up or down are    *)
(* recursive functions here, and that they end with the heap in order is   *)
(* proved by induction on the position of the timer.                       *)
(***************************************************************************)
THEOREM HeapStaysOrdered == HeapSpec => []StaysOrdered
BY HeapInvariant, PTL

(***************************************************************************)
(* heap_add and heap_remove, from whatever place, neither lose a timer nor *)
(* keep two of it, and leave every timer with the position it is at.       *)
(***************************************************************************)
THEOREM HeapHoldsMembers == HeapSpec => []HoldsMembers
BY HeapInvariant, PTL

-----------------------------------------------------------------------------
\* Only the time points of the heap's own timers matter to its order.
LEMMA OrderAgrees ==
  ASSUME NEW T, NEW g \in Heaps(T), NEW w, NEW v,
         Ordered(g, w), \A x \in ToSet(g.heap) : w[x] = v[x]
  PROVE  Ordered(g, v)
<1>1. /\ g.heap \in Seq(T) /\ Len(g.heap) \in Nat
      /\ \A k \in 1..Len(g.heap) : g.heap[k] \in ToSet(g.heap)
  BY DEF Heaps, ToSet
<1> SUFFICES ASSUME NEW i \in 2..Len(g.heap)
             PROVE  v[g.heap[i \div 2]] <= v[g.heap[i]]
  BY DEF Ordered
<1>2. i \in 1..Len(g.heap) /\ i \div 2 \in 1..Len(g.heap)
  BY <1>1, Halves
<1> QED
  BY <1>1, <1>2 DEF Ordered

\* A timer of the array is not deactivated.
LEMMA InArrayHasPosition ==
  ASSUME NEW T, NEW g \in Heaps(T), Indexed(g), NEW t \in ToSet(g.heap)
  PROVE  t \in T /\ g.position[t] # 0
<1>1. g.heap \in Seq(T) /\ Len(g.heap) \in Nat /\ DOMAIN g.heap = 1..Len(g.heap)
  BY DEF Heaps
<1>2. PICK k \in 1..Len(g.heap) : t = g.heap[k]
  BY <1>1 DEF ToSet
<1>3. t \in T
  BY <1>1, <1>2
<1> QED
  BY <1>1, <1>2, <1>3 DEF Indexed

\* A timer that has left the array loses its position.
LEMMA PositionLost ==
  ASSUME NEW T, NEW g \in Heaps(T), Indexed(g), NEW t \in T, t \notin ToSet(g.heap)
  PROVE  /\ WithoutPosition(g, t) \in Heaps(T)
         /\ WithoutPosition(g, t).heap = g.heap
         /\ WithoutPosition(g, t).position[t] = 0
         /\ \A x \in T : x # t => WithoutPosition(g, t).position[x] = g.position[x]
         /\ Indexed(WithoutPosition(g, t))
         /\ \A w : Ordered(g, w) => Ordered(WithoutPosition(g, t), w)
<1>1. PICK r : r = WithoutPosition(g, t)
  OBVIOUS
<1>2. g.heap \in Seq(T) /\ g.position \in [T -> Nat] /\ DOMAIN g.heap = 1..Len(g.heap)
  BY DEF Heaps
<1>3. r.heap = g.heap /\ r.position = [g.position EXCEPT ![t] = 0]
      /\ r = [heap |-> r.heap, position |-> r.position]
  BY <1>1 DEF WithoutPosition, Heaps
<1>4. r \in Heaps(T)
  <2>1. r.position \in [T -> Nat] /\ r.heap \in Seq(T)
    BY <1>2, <1>3
  <2> QED
    BY <1>3, <2>1 DEF Heaps
<1>5. Indexed(r)
  <2> SUFFICES ASSUME NEW k \in 1..Len(r.heap) PROVE r.position[r.heap[k]] = k
    BY DEF Indexed
  <2>1. g.heap[k] # t /\ g.heap[k] \in T /\ g.position[g.heap[k]] = k
    BY <1>2, <1>3 DEF ToSet, Indexed
  <2> QED
    BY <1>2, <1>3, <2>1
<1>6. \A w : Ordered(g, w) => Ordered(r, w)
  BY <1>3 DEF Ordered
<1> QED
  BY <1>1, <1>2, <1>3, <1>4, <1>5, <1>6

-----------------------------------------------------------------------------
(***************************************************************************)
(* Every operation preserves EngineInv, and changes the timers of the heap *)
(* in one of three ways.                                                   *)
(***************************************************************************)
OthersKeepPositions(t) ==
  \A x \in Timers : x \notin ToSet(h.heap) /\ x # t => h'.position[x] = h.position[x]

HeapGains(t) ==
  /\ t \notin ToSet(h.heap) /\ ToSet(h'.heap) = ToSet(h.heap) \cup {t}
  /\ OthersKeepPositions(t)

HeapLoses(t) ==
  /\ t \in ToSet(h.heap) /\ ToSet(h'.heap) = ToSet(h.heap) \ {t}
  /\ OthersKeepPositions(t)

HeapKeeps == ToSet(h'.heap) = ToSet(h.heap)

\* What the invariant says of the parts of the state.
LEMMA InvariantSays ==
  ASSUME EngineInv
  PROVE  /\ now \in Nat /\ refs \in [Timers -> Nat] /\ held \subseteq Timers
         /\ quantities \in [TimerKind -> 0..SizeMax]
         /\ h \in Heaps(Timers) /\ h.position \in [Timers -> Nat]
         /\ when \in [Timers -> Nat] /\ period \in [Timers -> Nat]
         /\ started \in [Procs -> Nat] /\ taken \in [Procs -> Timers \cup {NoTimer}]
         /\ pc \in [Procs -> Stage]
         /\ Indexed(h) /\ Ordered(h, when)
         /\ ToSet(h.heap) \subseteq Timers
         /\ \A t \in Timers : t \in ToSet(h.heap) <=> InHeap(t)
<1>1. /\ now \in Nat /\ refs \in [Timers -> Nat] /\ held \subseteq Timers
      /\ quantities \in [TimerKind -> 0..SizeMax]
      /\ h \in Heaps(Timers) /\ h.position \in [Timers -> Nat]
      /\ when \in [Timers -> Nat] /\ period \in [Timers -> Nat]
      /\ started \in [Procs -> Nat] /\ taken \in [Procs -> Timers \cup {NoTimer}]
      /\ pc \in [Procs -> Stage]
      /\ Indexed(h) /\ Ordered(h, when)
  BY DEF EngineInv, EngineTypeOK, CommonTypeOK, HeapOrdered, PositionsExact, Heaps
<1>2. ToSet(h.heap) \subseteq Timers
  BY <1>1, InArrayHasPosition
<1>3. ASSUME NEW t \in Timers PROVE t \in ToSet(h.heap) <=> InHeap(t)
  BY <1>1, InArrayHasPosition
     DEF EngineInv, PositionsExact, InProcessingIsOut, InHeap, Deactivated
<1> QED
  BY <1>1, <1>2, <1>3

\* A new engine satisfies the invariant.
LEMMA EngineInitially == EngineInit => EngineInv
<1> SUFFICES ASSUME EngineInit PROVE EngineInv
  OBVIOUS
<1>1. /\ h.heap = <<>> /\ h.position = [t \in Timers |-> 0]
      /\ h = [heap |-> h.heap, position |-> h.position]
  BY DEF EngineInit
<1>2. h.heap \in Seq(Timers) /\ Len(h.heap) = 0 /\ ToSet(h.heap) = {}
  BY <1>1 DEF ToSet
<1>3. h \in Heaps(Timers)
  <2>1. <<>> \in Seq(Timers) /\ [t \in Timers |-> 0] \in [Timers -> Nat]
    OBVIOUS
  <2> QED
    BY <2>1 DEF Heaps, EngineInit
<1>4. EngineTypeOK
  BY <1>3, SizeMaxAssumption
     DEF EngineInit, CommonInit, EngineTypeOK, CommonTypeOK, Stage, ResetTimerCount
<1>5. HeapOrdered /\ PositionsExact
  BY <1>1, <1>2 DEF HeapOrdered, Ordered, PositionsExact, Indexed, Deactivated
<1>6. InProcessingIsOut /\ InProcessingIsTaken /\ InProcessingIsSet
  BY <1>2 DEF EngineInit, InProcessingIsOut, InProcessingIsTaken, InProcessingIsSet
<1>7. RefsExact
  BY <1>2, NoTimerAssumption DEF EngineInit, CommonInit, RefsExact, Has
<1> QED
  BY <1>4, <1>5, <1>6, <1>7 DEF EngineInv

\* The passing of time, a stuttering step, and the life of a client's holder.
LEMMA HolderPreserves ==
  ASSUME EngineInv, UNCHANGED engineVars,
         \/ Tick /\ UNCHANGED <<refs, held, quantities>>
         \/ UNCHANGED commonVars
         \/ \E t \in Timers : AllocateObject(t) \/ DismissObject(t)
  PROVE  EngineInv'
<1>1. CommonTypeOK' /\ RefsExact'
  <2>1. CASE (Tick /\ UNCHANGED <<refs, held, quantities>>) \/ UNCHANGED commonVars
    BY <2>1 DEF Tick, commonVars, engineVars, EngineInv, EngineTypeOK, CommonTypeOK, RefsExact, Has
  <2>2. ASSUME NEW t \in Timers, AllocateObject(t) \/ DismissObject(t)
        PROVE  CommonTypeOK' /\ RefsExact'
    <3>1. /\ refs \in [Timers -> Nat] /\ held \subseteq Timers /\ now \in Nat
          /\ quantities \in [TimerKind -> 0..SizeMax]
      BY InvariantSays
    <3>2. refs[t] = (IF t \in held THEN 1 ELSE 0) + (IF Has(t) THEN 1 ELSE 0)
      BY DEF EngineInv, RefsExact
    <3>3. \A x : Has(x)' = Has(x)
      BY DEF Has, engineVars
    <3>4. CASE AllocateObject(t)
      <4>1. t \notin held /\ ~Has(t)
        BY <3>2, <3>4 DEF AllocateObject
      <4> QED
        BY <3>1, <3>2, <3>3, <3>4, <4>1
           DEF AllocateObject, IncrementReferences, CommonTypeOK, EngineInv, RefsExact
    <3>5. CASE DismissObject(t)
      BY <3>1, <3>2, <3>3, <3>5
         DEF DismissObject, DecrementReferences, CommonTypeOK, EngineInv, RefsExact
    <3> QED
      BY <2>2, <3>4, <3>5
  <2> QED
    BY <2>1, <2>2
<1>2. /\ EngineTypeOK' /\ HeapOrdered' /\ PositionsExact' /\ InProcessingIsOut'
      /\ InProcessingIsTaken' /\ InProcessingIsSet'
  BY <1>1 DEF EngineInv, EngineTypeOK, HeapOrdered, PositionsExact, Deactivated,
     InProcessingIsOut, InProcessingIsTaken, InProcessingIsSet, engineVars
<1> QED
  BY <1>1, <1>2 DEF EngineInv

\* activate of a timer that is not in processing.
LEMMA ActivatePreserves ==
  ASSUME EngineInv, NEW t \in Timers, t # inProcessing,
         NEW pause \in Pauses, NEW per \in Periods, Activate(t, pause, per)
  PROVE  EngineInv' /\ HeapGains(t)
<1>1. /\ refs \in [Timers -> Nat] /\ now \in Nat /\ h \in Heaps(Timers)
      /\ when \in [Timers -> Nat] /\ period \in [Timers -> Nat]
      /\ Indexed(h) /\ Ordered(h, when) /\ quantities \in [TimerKind -> 0..SizeMax]
      /\ pause \in Nat /\ per \in Nat
  BY InvariantSays, DurationsAssumption
<1>2. t \notin ToSet(h.heap) /\ ~Has(t)
  BY InvariantSays DEF Activate, InHeap, Has
<1>3. /\ when' = [when EXCEPT ![t] = now + pause] /\ when' \in [Timers -> Nat]
      /\ h' = HeapAdd(h, when', t)
  BY <1>1 DEF Activate
<1>4. Ordered(h, when')
  <2>1. \A x \in ToSet(h.heap) : when[x] = when'[x]
    BY <1>1, <1>2, <1>3, InvariantSays
  <2> QED
    BY <1>1, <2>1, OrderAgrees
<1>5. /\ h' \in Heaps(Timers) /\ Indexed(h') /\ Ordered(h', when')
      /\ ToSet(h'.heap) = ToSet(h.heap) \cup {t}
      /\ \A x \in Timers : x \notin ToSet(h.heap) /\ x # t => h'.position[x] = h.position[x]
  <2>1. h \in Heaps(Timers) /\ Indexed(h) /\ t \notin ToSet(h.heap) /\ when' \in [Timers -> Nat]
    BY <1>1, <1>2, <1>3
  <2>2. PICK w : w = when'
    OBVIOUS
  <2>3. h' = HeapAdd(h, w, t)
    BY <1>3, <2>2
  <2>4. Added(Timers, h, w, t, h')
    BY <2>1, <2>2, <2>3, HeapAddCorrect
  <2> QED
    BY <1>4, <2>2, <2>4 DEF Added
<1>6. UNCHANGED <<now, held, inProcessing, started, taken, pc>>
  BY DEF Activate, callVars
<1>7. EngineTypeOK'
  <2>1. quantities' \in [TimerKind -> 0..SizeMax]
    BY <1>1, CountTypes, KindType DEF Activate
  <2>2. period' \in [Timers -> Nat] /\ refs' \in [Timers -> Nat]
    BY <1>1 DEF Activate, IncrementReferences
  <2> QED
    BY <1>3, <1>5, <1>6, <2>1, <2>2 DEF EngineInv, EngineTypeOK, CommonTypeOK
<1>8. PositionsExact' /\ InProcessingIsOut'
  BY <1>5, <1>6 DEF EngineInv, PositionsExact, Deactivated, InProcessingIsOut
<1>9. InProcessingIsTaken' /\ InProcessingIsSet'
  BY <1>6 DEF EngineInv, InProcessingIsTaken, InProcessingIsSet
<1>10. RefsExact'
  <2>1. \A x \in Timers : Has(x)' <=> Has(x) \/ x = t
    BY <1>5, <1>6 DEF Has
  <2>2. refs' = [refs EXCEPT ![t] = refs[t] + 1]
    BY DEF Activate, IncrementReferences
  <2> QED
    BY <1>1, <1>2, <1>6, <2>1, <2>2 DEF EngineInv, RefsExact
<1> QED
  BY <1>5, <1>7, <1>8, <1>9, <1>10, <1>2 DEF EngineInv, HeapGains, OthersKeepPositions, HeapOrdered

\* reschedule of a timer in the heap.
LEMMA ReschedulePreserves ==
  ASSUME EngineInv, NEW t \in Timers,
         NEW pause \in Pauses, NEW per \in Periods, Reschedule(t, pause, per)
  PROVE  EngineInv' /\ HeapKeeps /\ OthersKeepPositions(t)
<1>0. PICK g : g = HeapRemove(h, when, t)
  OBVIOUS
<1>1. /\ refs \in [Timers -> Nat] /\ now \in Nat /\ h \in Heaps(Timers)
      /\ when \in [Timers -> Nat] /\ period \in [Timers -> Nat]
      /\ Indexed(h) /\ Ordered(h, when) /\ quantities \in [TimerKind -> 0..SizeMax]
      /\ pause \in Nat /\ per \in Nat
  BY InvariantSays, DurationsAssumption
<1>2. t \in ToSet(h.heap) /\ t # inProcessing
  BY InvariantSays DEF Reschedule, InHeap
<1>3. /\ when' = [when EXCEPT ![t] = now + pause] /\ when' \in [Timers -> Nat]
      /\ h' = HeapAdd(g, when', t)
  BY <1>0, <1>1 DEF Reschedule
<1>4. /\ g \in Heaps(Timers) /\ Indexed(g) /\ Ordered(g, when)
      /\ ToSet(g.heap) = ToSet(h.heap) \ {t}
      /\ \A x \in Timers : x \notin ToSet(h.heap) => g.position[x] = h.position[x]
  <2>1. Removed(Timers, h, when, t, g)
    BY <1>0, <1>1, <1>2, HeapRemoveCorrect
  <2> QED
    BY <1>1, <2>1 DEF Removed
<1>5. Ordered(g, when') /\ t \notin ToSet(g.heap)
  <2>1. \A x \in ToSet(g.heap) : when[x] = when'[x]
    BY <1>1, <1>3, <1>4, InvariantSays
  <2> QED
    BY <1>4, <2>1, OrderAgrees
<1>6. /\ h' \in Heaps(Timers) /\ Indexed(h') /\ Ordered(h', when')
      /\ ToSet(h'.heap) = ToSet(g.heap) \cup {t}
      /\ \A x \in Timers : x \notin ToSet(g.heap) /\ x # t => h'.position[x] = g.position[x]
  <2>1. PICK w : w = when'
    OBVIOUS
  <2>2. h' = HeapAdd(g, w, t) /\ w \in [Timers -> Nat] /\ Ordered(g, w)
    BY <1>3, <1>5, <2>1
  <2>3. Added(Timers, g, w, t, h')
    BY <1>4, <1>5, <2>2, HeapAddCorrect
  <2> QED
    BY <2>1, <2>2, <2>3 DEF Added
<1>7. ToSet(h'.heap) = ToSet(h.heap)
  BY <1>2, <1>4, <1>6
<1>8. UNCHANGED <<now, refs, held, inProcessing, started, taken, pc>>
  BY DEF Reschedule, callVars
<1>9. EngineTypeOK'
  <2>1. quantities' \in [TimerKind -> 0..SizeMax]
    BY <1>1, CountTypes, KindType DEF Reschedule
  <2>2. period' \in [Timers -> Nat]
    BY <1>1 DEF Reschedule
  <2> QED
    BY <1>3, <1>6, <1>8, <2>1, <2>2 DEF EngineInv, EngineTypeOK, CommonTypeOK
<1>10. PositionsExact' /\ InProcessingIsOut'
  BY <1>4, <1>6, <1>7, <1>8 DEF EngineInv, PositionsExact, Deactivated, InProcessingIsOut
<1>11. InProcessingIsTaken' /\ InProcessingIsSet' /\ RefsExact'
  BY <1>7, <1>8 DEF EngineInv, InProcessingIsTaken, InProcessingIsSet, RefsExact, Has
<1> QED
  BY <1>6, <1>9, <1>10, <1>11, <1>7, <1>4 DEF EngineInv, HeapKeeps, OthersKeepPositions, HeapOrdered

\* What the removal of a timer and the loss of its position make of the heap.
LEMMA TimerLeaves ==
  ASSUME EngineInv, NEW t \in ToSet(h.heap),
         h' = WithoutPosition(HeapRemove(h, when, t), t)
  PROVE  /\ h' \in Heaps(Timers) /\ Indexed(h') /\ Ordered(h', when)
         /\ ToSet(h'.heap) = ToSet(h.heap) \ {t} /\ h'.position[t] = 0
         /\ \A x \in Timers : x \notin ToSet(h.heap) => h'.position[x] = h.position[x]
<1>0. PICK g : g = HeapRemove(h, when, t)
  OBVIOUS
<1>1. /\ h \in Heaps(Timers) /\ when \in [Timers -> Nat] /\ Indexed(h) /\ Ordered(h, when)
      /\ t \in Timers
  BY InvariantSays
<1>2. /\ g \in Heaps(Timers) /\ Indexed(g) /\ Ordered(g, when)
      /\ ToSet(g.heap) = ToSet(h.heap) \ {t}
      /\ \A x \in Timers : x \notin ToSet(h.heap) => g.position[x] = h.position[x]
  <2>1. Removed(Timers, h, when, t, g)
    BY <1>0, <1>1, HeapRemoveCorrect
  <2> QED
    BY <1>1, <2>1 DEF Removed
<1>3. h' = WithoutPosition(g, t)
  BY <1>0
<1>4. t \notin ToSet(g.heap)
  BY <1>2
<1> QED
  BY <1>1, <1>2, <1>3, <1>4, PositionLost

\* deactivate, and reschedule that throws, of a timer in the heap.
LEMMA ReleasePreserves ==
  ASSUME EngineInv, NEW t \in Timers, Release(t)
  PROVE  EngineInv' /\ HeapLoses(t)
<1>1. /\ refs \in [Timers -> Nat] /\ quantities \in [TimerKind -> 0..SizeMax]
  BY InvariantSays
<1>2. t \in ToSet(h.heap) /\ t # inProcessing
  BY InvariantSays DEF Release, InHeap
<1>3. /\ h' \in Heaps(Timers) /\ Indexed(h') /\ Ordered(h', when)
      /\ ToSet(h'.heap) = ToSet(h.heap) \ {t} /\ h'.position[t] = 0
      /\ \A x \in Timers : x \notin ToSet(h.heap) => h'.position[x] = h.position[x]
  BY <1>2, TimerLeaves DEF Release
<1>4. UNCHANGED <<now, held, when, period, inProcessing, started, taken, pc>>
  BY DEF Release, callVars
<1>5. refs' = [refs EXCEPT ![t] = refs[t] - 1]
  BY DEF Release, DecrementReferences
<1>6. \A x \in Timers : Has(x)' <=> Has(x) /\ x # t
  BY <1>2, <1>3, <1>4 DEF Has
<1>7. refs[t] - 1 \in Nat
  BY <1>1, <1>2 DEF EngineInv, RefsExact, Has
<1>8. EngineTypeOK'
  <2>1. quantities' \in [TimerKind -> 0..SizeMax]
    BY <1>1, CountTypes, KindType DEF Release
  <2>2. refs' \in [Timers -> Nat]
    BY <1>1, <1>5, <1>7
  <2> QED
    BY <1>3, <1>4, <2>1, <2>2 DEF EngineInv, EngineTypeOK, CommonTypeOK
<1>9. PositionsExact' /\ InProcessingIsOut'
  BY <1>3, <1>4 DEF EngineInv, PositionsExact, Deactivated, InProcessingIsOut
<1>10. InProcessingIsTaken' /\ InProcessingIsSet' /\ HeapOrdered'
  BY <1>3, <1>4 DEF EngineInv, InProcessingIsTaken, InProcessingIsSet, HeapOrdered
<1>11. RefsExact'
  BY <1>1, <1>2, <1>4, <1>5, <1>6 DEF EngineInv, RefsExact, Has
<1> QED
  BY <1>8, <1>9, <1>10, <1>11, <1>2, <1>3 DEF EngineInv, HeapLoses, OthersKeepPositions

\* deactivate of the timer in processing.
LEMMA DeactivateInProcessingPreserves ==
  ASSUME EngineInv, NEW t \in Timers, DeactivateInProcessing(t)
  PROVE  EngineInv' /\ HeapKeeps
<1>1. h \in Heaps(Timers) /\ Indexed(h) /\ Ordered(h, when) /\ t \notin ToSet(h.heap)
  BY InvariantSays DEF DeactivateInProcessing, EngineInv, InProcessingIsOut
<1>2. h' = WithoutPosition(h, t) /\ UNCHANGED <<commonVars, when, period, inProcessing, callVars>>
  BY DEF DeactivateInProcessing
<1>3. /\ h' \in Heaps(Timers) /\ Indexed(h') /\ Ordered(h', when) /\ h'.heap = h.heap
      /\ h'.position[t] = 0
      /\ \A x \in Timers : x # t => h'.position[x] = h.position[x]
  BY <1>1, <1>2, PositionLost
<1> QED
  BY <1>2, <1>3
     DEF EngineInv, HeapKeeps, EngineTypeOK, CommonTypeOK, HeapOrdered, PositionsExact, Deactivated,
         InProcessingIsOut, InProcessingIsTaken, InProcessingIsSet, RefsExact, Has,
         commonVars, callVars

\* reset(), and the end of a thread.
LEMMA ClearAllPreserves ==
  ASSUME EngineInv, ClearAll
  PROVE  EngineInv'
<1>1. /\ refs \in [Timers -> Nat] /\ h.position \in [Timers -> Nat]
      /\ ToSet(h.heap) \subseteq Timers
  BY InvariantSays
<1>2. /\ h' = [heap |-> <<>>, position |-> [t \in Timers |->
                  IF t \in ToSet(h.heap) THEN 0 ELSE h.position[t]]]
      /\ h'.heap = <<>> /\ <<>> \in Seq(Timers) /\ Len(h'.heap) = 0 /\ ToSet(h'.heap) = {}
      /\ \A t \in Timers : h'.position[t] =
            IF t \in ToSet(h.heap) THEN 0 ELSE h.position[t]
      /\ [t \in Timers |-> IF t \in ToSet(h.heap) THEN 0 ELSE h.position[t]]
            \in [Timers -> Nat]
  BY <1>1 DEF ClearAll, ToSet
<1>3. /\ \A t \in Timers : refs'[t] = IF t \in ToSet(h.heap) THEN refs[t] - 1 ELSE refs[t]
      /\ refs' = [t \in Timers |-> refs'[t]]
      /\ UNCHANGED <<now, held, when, period, inProcessing, started, taken, pc>>
  BY DEF ClearAll, callVars
<1>4. \A t \in Timers : Has(t)' <=> Has(t) /\ t \notin ToSet(h.heap)
  BY <1>2, <1>3 DEF Has, EngineInv, InProcessingIsOut
<1>5. \A t \in Timers : t \in ToSet(h.heap) => Has(t) /\ refs[t] - 1 \in Nat
  BY <1>1 DEF EngineInv, RefsExact, Has
<1>6. EngineTypeOK'
  <2>1. h' \in Heaps(Timers)
    BY <1>2 DEF Heaps
  <2>2. refs' \in [Timers -> Nat]
    BY <1>1, <1>3, <1>5
  <2>3. quantities' \in [TimerKind -> 0..SizeMax]
    BY SizeMaxAssumption DEF ClearAll, ResetTimerCount
  <2> QED
    BY <1>3, <2>1, <2>2, <2>3 DEF EngineInv, EngineTypeOK, CommonTypeOK
<1>7. HeapOrdered' /\ PositionsExact' /\ InProcessingIsOut'
  BY <1>2, <1>3 DEF EngineInv, HeapOrdered, Ordered, PositionsExact, Indexed, Deactivated,
                    InProcessingIsOut
<1>8. InProcessingIsTaken' /\ InProcessingIsSet'
  BY <1>3 DEF EngineInv, InProcessingIsTaken, InProcessingIsSet
<1>9. RefsExact'
  BY <1>1, <1>3, <1>4, <1>5 DEF EngineInv, RefsExact
<1> QED
  BY <1>6, <1>7, <1>8, <1>9 DEF EngineInv

-----------------------------------------------------------------------------
\* Calls of process_expired_timers are not nested.
NotNested == \A p, q \in Procs : p = q

\* A call that processes no timer finds none in m_timer_in_processing.
LEMMA BetweenTimers ==
  ASSUME EngineInv, NotNested, NEW p \in Procs
  PROVE  /\ pc[p] \notin {"enter", "run", "finish"} => inProcessing = NoTimer
         /\ pc[p] \in {"enter", "run", "finish"} =>
              inProcessing \in Timers /\ inProcessing \notin ToSet(h.heap)
BY DEF EngineInv, EngineTypeOK, NotNested, InProcessingIsSet, InProcessingIsOut

\* The top of a heap is one of its timers.
LEMMA HeadInHeap ==
  ASSUME EngineInv, h.heap # <<>>
  PROVE  Head(h.heap) \in Timers /\ Head(h.heap) \in ToSet(h.heap)
<1>1. h.heap \in Seq(Timers)
  BY InvariantSays DEF Heaps
<1>2. Head(h.heap) = h.heap[1] /\ 1 \in DOMAIN h.heap /\ h.heap[1] \in Timers
  BY <1>1
<1> QED
  BY <1>2 DEF ToSet

\* The top of the heap is taken.
LEMMA TakeHeadPreserves ==
  ASSUME EngineInv, NotNested, NEW p \in Procs, TakeHead(p)
  PROVE  EngineInv' /\ HeapLoses(Head(h.heap)) /\ h'.position[Head(h.heap)] # 0
<1>0. PICK t : t = Head(h.heap)
  OBVIOUS
<1>1. /\ t \in Timers /\ t \in ToSet(h.heap) /\ h \in Heaps(Timers)
      /\ when \in [Timers -> Nat] /\ Indexed(h) /\ Ordered(h, when)
      /\ pc \in [Procs -> Stage] /\ taken \in [Procs -> Timers \cup {NoTimer}]
  BY <1>0, HeadInHeap, InvariantSays DEF TakeHead, HeadElapsed
<1>2. /\ inProcessing' = t /\ taken' = [taken EXCEPT ![p] = t]
      /\ h' = HeapRemove(h, when, t) /\ pc' = [pc EXCEPT ![p] = "enter"]
      /\ UNCHANGED <<now, refs, held, quantities, when, period, started>>
  BY <1>0 DEF TakeHead, commonVars
<1>3. Removed(Timers, h, when, t, h')
  BY <1>1, <1>2, HeapRemoveCorrect
<1>4. /\ h' \in Heaps(Timers) /\ Indexed(h') /\ Ordered(h', when)
      /\ ToSet(h'.heap) = ToSet(h.heap) \ {t}
      /\ \A x \in Timers : x \notin ToSet(h.heap) => h'.position[x] = h.position[x]
      /\ h'.position[t] # 0
  BY <1>1, <1>3 DEF Removed
<1>5. inProcessing = NoTimer /\ t # NoTimer
  BY <1>1, BetweenTimers, NoTimerAssumption DEF TakeHead
<1>6. EngineTypeOK'
  BY <1>1, <1>2, <1>4 DEF EngineInv, EngineTypeOK, CommonTypeOK, Stage
<1>7. HeapOrdered' /\ PositionsExact' /\ InProcessingIsOut'
  BY <1>2, <1>4, <1>5, NoTimerAssumption
     DEF EngineInv, HeapOrdered, PositionsExact, Deactivated, InProcessingIsOut
<1>8. InProcessingIsTaken' /\ InProcessingIsSet'
  BY <1>1, <1>2, <1>5 DEF NotNested, InProcessingIsTaken, InProcessingIsSet
<1>9. \A x \in Timers : Has(x)' <=> Has(x)
  BY <1>1, <1>2, <1>4, <1>5, NoTimerAssumption DEF Has
<1>10. RefsExact'
  BY <1>2, <1>9 DEF EngineInv, RefsExact
<1> QED
  BY <1>6, <1>7, <1>8, <1>10, <1>0, <1>1, <1>4 DEF EngineInv, HeapLoses, OthersKeepPositions

\* The steps of a call that change nothing but where the call is.
LEMMA CallStepPreserves ==
  ASSUME EngineInv, NotNested, NEW p \in Procs,
         BeginCall(p) \/ EndCall(p) \/ CallAction(p) \/ FinishAction(p)
  PROVE  EngineInv' /\ HeapKeeps
<1>1. UNCHANGED <<now, refs, held, quantities, h, when, period, inProcessing, taken>>
  BY DEF BeginCall, EndCall, CallAction, FinishAction, commonVars
<1>2. /\ started' \in [Procs -> Nat] /\ pc' \in [Procs -> Stage]
      /\ \A q \in Procs : pc'[q] \in {"enter", "run", "finish"}
                          <=> pc[q] \in {"enter", "run", "finish"}
  BY InvariantSays DEF NotNested, BeginCall, EndCall, CallAction, FinishAction, Stage
<1> QED
  BY <1>1, <1>2
     DEF EngineInv, HeapKeeps, EngineTypeOK, CommonTypeOK, HeapOrdered, PositionsExact, Deactivated,
         InProcessingIsOut, InProcessingIsTaken, InProcessingIsSet, RefsExact, Has

\* A periodic timer goes back into the heap.
LEMMA UtilizePeriodicPreserves ==
  ASSUME EngineInv, NotNested, NEW p \in Procs, UtilizePeriodic(p)
  PROVE  EngineInv' /\ HeapGains(inProcessing)
<1>0. PICK t : t = inProcessing
  OBVIOUS
<1>1. /\ t \in Timers /\ t \notin ToSet(h.heap) /\ h \in Heaps(Timers)
      /\ when \in [Timers -> Nat] /\ period \in [Timers -> Nat] /\ Indexed(h)
      /\ Ordered(h, when) /\ ToSet(h.heap) \subseteq Timers
      /\ pc \in [Procs -> Stage] /\ taken \in [Procs -> Timers \cup {NoTimer}]
  BY <1>0, BetweenTimers, InvariantSays DEF UtilizePeriodic
<1>2. /\ inProcessing' = NoTimer /\ taken' = [taken EXCEPT ![p] = NoTimer]
      /\ when' = [when EXCEPT ![t] = when[t] + period[t]]
      /\ h' = HeapAdd(h, when', t) /\ pc' = [pc EXCEPT ![p] = "loop"]
      /\ UNCHANGED <<now, refs, held, quantities, period, started>>
  BY <1>0 DEF UtilizePeriodic, AfterTimer, commonVars
<1>3. PICK w : w = when'
  OBVIOUS
<1>4. /\ w \in [Timers -> Nat] /\ \A x \in ToSet(h.heap) : when[x] = w[x]
      /\ h' = HeapAdd(h, w, t)
  BY <1>1, <1>2, <1>3
<1>5. Ordered(h, w)
  BY <1>1, <1>4, OrderAgrees
<1>6. Added(Timers, h, w, t, h')
  BY <1>1, <1>4, HeapAddCorrect
<1>7. /\ h' \in Heaps(Timers) /\ Indexed(h') /\ Ordered(h', when')
      /\ ToSet(h'.heap) = ToSet(h.heap) \cup {t}
      /\ \A x \in Timers : x \notin ToSet(h.heap) /\ x # t => h'.position[x] = h.position[x]
  BY <1>3, <1>5, <1>6 DEF Added
<1>8. EngineTypeOK'
  BY <1>1, <1>2, <1>3, <1>4, <1>7 DEF EngineInv, EngineTypeOK, CommonTypeOK, Stage
<1>9. HeapOrdered' /\ PositionsExact' /\ InProcessingIsOut'
  BY <1>0, <1>1, <1>2, <1>7, NoTimerAssumption
     DEF EngineInv, HeapOrdered, PositionsExact, Deactivated, InProcessingIsOut
<1>10. InProcessingIsTaken' /\ InProcessingIsSet'
  BY <1>1, <1>2 DEF NotNested, InProcessingIsTaken, InProcessingIsSet
<1>11. \A x \in Timers : Has(x)' <=> Has(x)
  BY <1>0, <1>1, <1>2, <1>7, NoTimerAssumption DEF Has
<1>12. RefsExact'
  BY <1>2, <1>11 DEF EngineInv, RefsExact
<1> QED
  BY <1>8, <1>9, <1>10, <1>12, <1>0, <1>1, <1>7 DEF EngineInv, HeapGains, OthersKeepPositions

\* Any other timer is released.
LEMMA UtilizeOtherPreserves ==
  ASSUME EngineInv, NotNested, NEW p \in Procs, UtilizeOther(p)
  PROVE  EngineInv' /\ HeapKeeps
<1>0. PICK t : t = inProcessing
  OBVIOUS
<1>1. /\ t \in Timers /\ t \notin ToSet(h.heap) /\ h \in Heaps(Timers)
      /\ Indexed(h) /\ Ordered(h, when) /\ refs \in [Timers -> Nat]
      /\ quantities \in [TimerKind -> 0..SizeMax]
      /\ pc \in [Procs -> Stage] /\ taken \in [Procs -> Timers \cup {NoTimer}]
  BY <1>0, BetweenTimers, InvariantSays DEF UtilizeOther
<1>2. /\ inProcessing' = NoTimer /\ taken' = [taken EXCEPT ![p] = NoTimer]
      /\ h' = WithoutPosition(h, t) /\ pc' = [pc EXCEPT ![p] = "loop"]
      /\ refs' = [refs EXCEPT ![t] = refs[t] - 1]
      /\ UNCHANGED <<now, held, when, period, started>>
  BY <1>0 DEF UtilizeOther, AfterTimer, DecrementReferences
<1>3. /\ h' \in Heaps(Timers) /\ Indexed(h') /\ Ordered(h', when) /\ h'.heap = h.heap
      /\ h'.position[t] = 0 /\ \A x \in Timers : x # t => h'.position[x] = h.position[x]
  BY <1>1, <1>2, PositionLost
<1>4. refs[t] - 1 \in Nat /\ Has(t)
  BY <1>0, <1>1 DEF EngineInv, RefsExact, Has
<1>5. EngineTypeOK'
  <2>1. quantities' \in [TimerKind -> 0..SizeMax]
    BY <1>1, CountTypes, KindType DEF UtilizeOther
  <2>2. refs' \in [Timers -> Nat]
    BY <1>1, <1>2, <1>4
  <2> QED
    BY <1>1, <1>2, <1>3, <2>1, <2>2 DEF EngineInv, EngineTypeOK, CommonTypeOK, Stage
<1>6. HeapOrdered' /\ PositionsExact' /\ InProcessingIsOut'
  <2>1. NoTimer \notin ToSet(h.heap)
    BY InvariantSays, NoTimerAssumption
  <2> QED
    BY <1>0, <1>1, <1>2, <1>3, <2>1
       DEF EngineInv, HeapOrdered, PositionsExact, Deactivated, InProcessingIsOut
<1>7. InProcessingIsTaken' /\ InProcessingIsSet'
  BY <1>1, <1>2 DEF NotNested, InProcessingIsTaken, InProcessingIsSet
<1>8. \A x \in Timers : Has(x)' <=> Has(x) /\ x # t
  BY <1>0, <1>1, <1>2, <1>3, NoTimerAssumption DEF Has
<1>9. RefsExact'
  BY <1>1, <1>2, <1>4, <1>8 DEF EngineInv, RefsExact
<1> QED
  BY <1>5, <1>6, <1>7, <1>9, <1>3 DEF EngineInv, HeapKeeps

-----------------------------------------------------------------------------
\* A client's call on the engine, the guards of its owner apart.
ClientCall ==
  \E t \in Timers :
    \/ Allocate(t) \/ Dismiss(t) \/ Release(t) \/ DeactivateInProcessing(t)
    \/ \E pause \in Pauses, per \in Periods :
         \/ t # inProcessing /\ Activate(t, pause, per)
         \/ Reschedule(t, pause, per)

\* One step of process_expired_timers.
EngineStep ==
  \E p \in Procs :
    \/ BeginCall(p) \/ TakeHead(p) \/ EndCall(p) \/ CallAction(p) \/ FinishAction(p)
    \/ UtilizePeriodic(p) \/ UtilizeOther(p)

\* Every operation of a client preserves the engine's invariant.
LEMMA ClientCallPreserves ==
  ASSUME EngineInv, ClientCall
  PROVE  EngineInv'
<1>1. PICK t \in Timers :
        \/ Allocate(t) \/ Dismiss(t) \/ Release(t) \/ DeactivateInProcessing(t)
        \/ \E pause \in Pauses, per \in Periods :
             \/ t # inProcessing /\ Activate(t, pause, per)
             \/ Reschedule(t, pause, per)
  BY DEF ClientCall
<1>2. CASE Allocate(t) \/ Dismiss(t)
  BY <1>2, HolderPreserves DEF Allocate, Dismiss
<1>3. CASE Release(t) \/ DeactivateInProcessing(t)
  BY <1>3, ReleasePreserves, DeactivateInProcessingPreserves
<1>4. ASSUME NEW pause \in Pauses, NEW per \in Periods,
             (t # inProcessing /\ Activate(t, pause, per)) \/ Reschedule(t, pause, per)
      PROVE  EngineInv'
  BY <1>4, ActivatePreserves, ReschedulePreserves
<1> QED
  BY <1>1, <1>2, <1>3, <1>4

\* So does every step of process_expired_timers, if calls of it are not nested.
LEMMA EngineStepPreserves ==
  ASSUME EngineInv, NotNested, EngineStep
  PROVE  EngineInv'
BY CallStepPreserves, TakeHeadPreserves, UtilizePeriodicPreserves, UtilizeOtherPreserves
   DEF EngineStep

-----------------------------------------------------------------------------
(***************************************************************************)
(* The counters, for the lemmas about them: which timers the engine knows. *)
(***************************************************************************)
Presence == [t \in Timers |-> IF Has(t) THEN "known" ELSE "deactivated"]

\* The two ways to say that the counters are exact agree.
LEMMA ExactIsQuantitiesExact == QuantitiesExact <=> Exact(quantities, Presence, period)
<1>1. \A kind : Counted(Presence, period, kind) = {t \in Timers : Has(t) /\ Kind(period[t]) = kind}
  BY DEF Counted, Presence
<1> QED
  BY <1>1 DEF QuantitiesExact, Exact

\* They do in the next state.
LEMMA ExactIsQuantitiesExactNext == QuantitiesExact' <=> Exact(quantities', Presence', period')
<1>1. \A kind : Counted(Presence', period', kind)
                  = {t \in Timers : Has(t)' /\ Kind(period'[t]) = kind}
  BY DEF Counted, Presence
<1> QED
  BY <1>1 DEF QuantitiesExact, Exact

\* A step that leaves the counters, the engine's timers and their periods alone.
LEMMA CountsStay ==
  ASSUME QuantitiesExact, UNCHANGED <<quantities, period>>,
         \A x \in Timers : Has(x)' <=> Has(x)
  PROVE  QuantitiesExact'
<1>1. Exact(quantities, Presence, period)
  BY ExactIsQuantitiesExact
<1>2. \A x \in Timers : Presence[x] = "deactivated" <=> Presence'[x] = "deactivated"
  BY DEF Presence
<1>3. Exact(quantities', Presence', period')
  BY <1>1, <1>2, CountsSame
<1> QED
  BY <1>3, ExactIsQuantitiesExactNext

\* A client's call keeps the counters exact.
LEMMA ClientKeepsCounts ==
  ASSUME EngineInv, QuantitiesExact, ClientCall
  PROVE  QuantitiesExact'
<1>0. /\ quantities \in [TimerKind -> 0..SizeMax] /\ period \in [Timers -> Nat]
      /\ Exact(quantities, Presence, period)
  BY InvariantSays, ExactIsQuantitiesExact
<1>1. PICK t \in Timers :
        \/ Allocate(t) \/ Dismiss(t) \/ Release(t) \/ DeactivateInProcessing(t)
        \/ \E pause \in Pauses, per \in Periods :
             \/ t # inProcessing /\ Activate(t, pause, per)
             \/ Reschedule(t, pause, per)
  BY DEF ClientCall
<1>2. CASE Allocate(t) \/ Dismiss(t)
  <2>1. UNCHANGED <<quantities, h, period, inProcessing>>
    BY <1>2 DEF Allocate, AllocateObject, Dismiss, DismissObject, engineVars
  <2> QED
    BY <2>1, CountsStay DEF Has
<1>3. CASE DeactivateInProcessing(t)
  <2>1. UNCHANGED <<quantities, period, inProcessing>> /\ HeapKeeps
    BY <1>3, DeactivateInProcessingPreserves DEF DeactivateInProcessing, commonVars
  <2> QED
    BY <2>1, CountsStay DEF Has, HeapKeeps
<1>4. CASE Release(t)
  <2>1. /\ HeapLoses(t) /\ UNCHANGED <<period, inProcessing>> /\ t # inProcessing
        /\ quantities' = DecTimerCount(quantities, Kind(period[t]))
    BY <1>4, ReleasePreserves DEF Release, InHeap
  <2>2. /\ Presence[t] # "deactivated" /\ Presence'[t] = "deactivated"
        /\ \A x \in Timers : x # t => Presence'[x] = Presence[x] /\ period'[x] = period[x]
    BY <2>1 DEF HeapLoses, Presence, Has
  <2>3. Exact(quantities', Presence', period')
    BY <1>0, <2>1, <2>2, CountsLostTimer
  <2> QED
    BY <2>3, ExactIsQuantitiesExactNext
<1>5. ASSUME NEW pause \in Pauses, NEW per \in Periods, t # inProcessing,
             Activate(t, pause, per)
      PROVE  QuantitiesExact'
  <2>1. /\ HeapGains(t) /\ period' = [period EXCEPT ![t] = per] /\ UNCHANGED inProcessing
        /\ quantities' = IncTimerCount(quantities, Kind(per))
    BY <1>5, ActivatePreserves DEF Activate
  <2>2. /\ Presence[t] = "deactivated" /\ Presence'[t] # "deactivated"
        /\ \A x \in Timers : x # t => Presence'[x] = Presence[x] /\ period'[x] = period[x]
        /\ period'[t] = per
    BY <1>0, <1>5, <2>1 DEF HeapGains, Presence, Has
  <2>3. Exact(quantities', Presence', period')
    BY <1>0, <2>1, <2>2, CountsNewTimer
  <2> QED
    BY <2>3, ExactIsQuantitiesExactNext
<1>6. ASSUME NEW pause \in Pauses, NEW per \in Periods, Reschedule(t, pause, per)
      PROVE  QuantitiesExact'
  <2>1. /\ HeapKeeps /\ period' = [period EXCEPT ![t] = per] /\ UNCHANGED inProcessing
        /\ t \in ToSet(h.heap)
    BY <1>6, ReschedulePreserves, InvariantSays DEF Reschedule
  <2>2. PICK q : q = DecTimerCount(quantities, Kind(period[t]))
    OBVIOUS
  <2>3. quantities' = IncTimerCount(q, Kind(per)) /\ q \in [TimerKind -> 0..SizeMax]
    BY <1>0, <1>6, <2>2, CountTypes, KindType DEF Reschedule
  <2>4. PICK st : st = [Presence EXCEPT ![t] = "deactivated"]
    OBVIOUS
  <2>5. /\ st[t] = "deactivated" /\ \A x \in Timers : x # t => st[x] = Presence[x]
        /\ Presence[t] # "deactivated"
    BY <2>1, <2>4 DEF Presence, Has
  <2>6. Exact(q, st, period)
    BY <1>0, <2>2, <2>5, CountsLostTimer
  <2>7. /\ Presence'[t] # "deactivated" /\ period'[t] = per
        /\ \A x \in Timers : x # t => Presence'[x] = st[x] /\ period'[x] = period[x]
    BY <1>0, <2>1, <2>5 DEF HeapKeeps, Presence, Has
  <2>8. Exact(quantities', Presence', period')
    BY <2>3, <2>5, <2>6, <2>7, CountsNewTimer
  <2> QED
    BY <2>8, ExactIsQuantitiesExactNext
<1> QED
  BY <1>1, <1>2, <1>3, <1>4, <1>5, <1>6

\* A step of process_expired_timers keeps them exact.
LEMMA EngineStepKeepsCounts ==
  ASSUME EngineInv, QuantitiesExact, NotNested, EngineStep
  PROVE  QuantitiesExact'
<1>0. /\ quantities \in [TimerKind -> 0..SizeMax] /\ period \in [Timers -> Nat]
      /\ Exact(quantities, Presence, period)
  BY InvariantSays, ExactIsQuantitiesExact
<1>1. PICK p \in Procs :
        \/ BeginCall(p) \/ TakeHead(p) \/ EndCall(p) \/ CallAction(p) \/ FinishAction(p)
        \/ UtilizePeriodic(p) \/ UtilizeOther(p)
  BY DEF EngineStep
<1>2. CASE BeginCall(p) \/ EndCall(p) \/ CallAction(p) \/ FinishAction(p)
  <2>1. UNCHANGED <<quantities, h, period, inProcessing>>
    BY <1>2 DEF BeginCall, EndCall, CallAction, FinishAction, commonVars
  <2> QED
    BY <2>1, CountsStay DEF Has
<1>3. CASE TakeHead(p)
  <2>1. /\ HeapLoses(Head(h.heap)) /\ inProcessing' = Head(h.heap)
        /\ UNCHANGED <<quantities, period>> /\ inProcessing = NoTimer
    BY <1>3, TakeHeadPreserves, BetweenTimers DEF TakeHead, commonVars
  <2> QED
    BY <2>1, CountsStay, NoTimerAssumption DEF Has, HeapLoses
<1>4. CASE UtilizePeriodic(p)
  <2>1. /\ HeapGains(inProcessing) /\ inProcessing' = NoTimer
        /\ UNCHANGED <<quantities, period>>
    BY <1>4, UtilizePeriodicPreserves DEF UtilizePeriodic, AfterTimer, commonVars
  <2> QED
    BY <2>1, CountsStay, NoTimerAssumption DEF Has, HeapGains
<1>5. CASE UtilizeOther(p)
  <2>1. PICK t \in Timers : t = inProcessing /\ t \notin ToSet(h.heap)
    BY <1>5, BetweenTimers DEF UtilizeOther
  <2>2. /\ HeapKeeps /\ inProcessing' = NoTimer /\ period' = period
        /\ quantities' = DecTimerCount(quantities, Kind(period[t]))
    BY <1>5, <2>1, UtilizeOtherPreserves DEF UtilizeOther, AfterTimer
  <2>3. /\ Presence[t] # "deactivated" /\ Presence'[t] = "deactivated"
        /\ \A x \in Timers : x # t => Presence'[x] = Presence[x] /\ period'[x] = period[x]
    BY <2>1, <2>2, NoTimerAssumption DEF HeapKeeps, Presence, Has
  <2>4. Exact(quantities', Presence', period')
    BY <1>0, <2>2, <2>3, CountsLostTimer
  <2> QED
    BY <2>4, ExactIsQuantitiesExactNext
<1> QED
  BY <1>1, <1>2, <1>3, <1>4, <1>5

\* clear_all sets them to zero: right when no timer is in processing.
LEMMA CountsCleared ==
  ASSUME EngineInv, ClearAll, inProcessing = NoTimer
  PROVE  QuantitiesExact'
<1>1. h'.heap = <<>> /\ inProcessing' = NoTimer /\ quantities' = ResetTimerCount
  BY DEF ClearAll
<1>2. \A x \in Timers : Presence'[x] = "deactivated"
  BY <1>1, NoTimerAssumption DEF Presence, Has, ToSet
<1>3. \A kind \in TimerKind : Counted(Presence', period', kind) = {}
  BY <1>2 DEF Counted
<1>4. Exact(quantities', Presence', period')
  BY <1>1, <1>3, FS_EmptySet DEF Exact, ResetTimerCount
<1> QED
  BY <1>4, ExactIsQuantitiesExactNext

-----------------------------------------------------------------------------
(***************************************************************************)
(* The engine as a TimerService.                                           *)
(***************************************************************************)
Cancelled == {t \in Timers : t = inProcessing /\ Deactivated(t)}

\* No call has begun later than now.
CallsBegun == \A p \in Procs : started[p] <= now

\* The timer whose action is about to be called has not been deactivated.
EnterIsSet == \A p \in Procs : pc[p] = "enter" => ~Deactivated(inProcessing)

\* The service starts where the engine does.
LEMMA ServiceInitially == EngineInit => Service!Init /\ CallsBegun
<1> SUFFICES ASSUME EngineInit PROVE Service!Init /\ CallsBegun
  OBVIOUS
<1>1. /\ ToSet(h.heap) = {} /\ inProcessing = NoTimer /\ now = 0
      /\ \A p \in Procs : started[p] = 0
  BY DEF EngineInit, CommonInit, ToSet
<1>2. \A t \in Timers : ~Has(t) /\ t # inProcessing
  BY <1>1, NoTimerAssumption DEF Has
<1>3. Phases = [t \in Timers |-> "off"]
  BY <1>1, <1>2 DEF Phases
<1>4. IfKnown(when) = [t \in Timers |-> 0] /\ IfKnown(period) = [t \in Timers |-> 0]
  BY <1>2 DEF IfKnown
<1> QED
  BY <1>1, <1>2, <1>3, <1>4 DEF Service!Init, CallsBegun

\* A step that changes neither the timers nor the time is not seen.
LEMMA NotSeen ==
  ASSUME UNCHANGED <<now, h, when, period, inProcessing>>,
         \A p \in Procs : pc[p] = "enter" <=> pc'[p] = "enter"
  PROVE  UNCHANGED Service!vars
BY DEF Service!vars, Phases, IfKnown, Has, Deactivated

\* activate() and reschedule() set the timer.
LEMMA ActivateSets ==
  ASSUME EngineInv, NEW t \in Timers, NEW pause \in Pauses, NEW per \in Periods,
         (t # inProcessing /\ Activate(t, pause, per)) \/ Reschedule(t, pause, per)
  PROVE  Service!Set(t, pause, per)
<1>1. /\ when \in [Timers -> Nat] /\ period \in [Timers -> Nat]
      /\ when' = [when EXCEPT ![t] = now + pause] /\ period' = [period EXCEPT ![t] = per]
      /\ t # inProcessing /\ UNCHANGED <<now, inProcessing, pc>>
  BY InvariantSays DEF Activate, Reschedule, InHeap, callVars
<1>2. ToSet(h'.heap) = ToSet(h.heap) \cup {t} /\ OthersKeepPositions(t)
  <2>1. \/ HeapGains(t)
        \/ HeapKeeps /\ t \in ToSet(h.heap) /\ OthersKeepPositions(t)
    BY ActivatePreserves, ReschedulePreserves, InvariantSays DEF Reschedule
  <2> QED
    BY <2>1 DEF HeapGains, HeapKeeps
<1>3. \A x \in Timers : Has(x)' <=> Has(x) \/ x = t
  BY <1>1, <1>2 DEF Has
<1>4. Phases[t] \in {"off", "set"}
  BY <1>1 DEF Phases
<1>5. Phases' = [Phases EXCEPT ![t] = "set"]
  BY <1>1, <1>2 DEF Phases
<1>6. /\ IfKnown(when)' = [IfKnown(when) EXCEPT ![t] = now + pause]
      /\ IfKnown(period)' = [IfKnown(period) EXCEPT ![t] = per]
  BY <1>1, <1>3 DEF IfKnown
<1>7. Cancelled' = Cancelled
  <2> SUFFICES ASSUME NEW x \in Timers, x = inProcessing
               PROVE  h'.position[x] = 0 <=> h.position[x] = 0
    BY <1>1 DEF Cancelled, Deactivated
  <2>1. x # t /\ x \notin ToSet(h.heap)
    BY <1>1 DEF EngineInv, InProcessingIsOut
  <2> QED
    BY <1>1, <1>2, <2>1 DEF OthersKeepPositions
<1> QED
  BY <1>1, <1>4, <1>5, <1>6, <1>7 DEF Service!Set, Cancelled

\* The timers of a set leave the engine: the service switches them off.
LEMMA SwitchesOff ==
  ASSUME NEW S \in SUBSET Timers, UNCHANGED <<now, when, period>>,
         \A x \in Timers : Has(x)' <=> Has(x) /\ x \notin S,
         \A x \in Timers \ S : /\ Phases'[x] = Phases[x]
                               /\ x \in Cancelled' <=> x \in Cancelled
  PROVE  Service!SwitchOff(S)
<1>1. Phases' = [t \in Timers |-> IF t \in S THEN "off" ELSE Phases[t]]
  <2>1. ASSUME NEW t \in Timers, t \in S PROVE Phases'[t] = "off"
    <3>1. ~(Has(t)')
      BY <2>1
    <3> QED
      BY <3>1 DEF Has, Phases
  <2>2. PICK f, g : f = Phases /\ g = Phases'
    OBVIOUS
  <2>3. g = [t \in Timers |-> g[t]]
    BY <2>2 DEF Phases
  <2>4. \A t \in Timers : g[t] = IF t \in S THEN "off" ELSE f[t]
    BY <2>1, <2>2
  <2> QED
    BY <2>2, <2>3, <2>4
<1>2. /\ IfKnown(when)' = [t \in Timers |-> IF t \in S THEN 0 ELSE IfKnown(when)[t]]
      /\ IfKnown(period)' = [t \in Timers |-> IF t \in S THEN 0 ELSE IfKnown(period)[t]]
  BY DEF IfKnown
<1>3. Cancelled' = Cancelled \ S
  <2>1. ASSUME NEW t \in Timers, t \in S PROVE t \notin Cancelled'
    <3>1. ~(Has(t)')
      BY <2>1
    <3> QED
      BY <3>1 DEF Has, Cancelled
  <2>2. PICK c, d : c = Cancelled /\ d = Cancelled'
    OBVIOUS
  <2>3. c \subseteq Timers /\ d \subseteq Timers
    BY <2>2 DEF Cancelled
  <2>4. \A t \in Timers : t \in d <=> t \in c \ S
    BY <2>1, <2>2
  <2> QED
    BY <2>2, <2>3, <2>4
<1> QED
  BY <1>1, <1>2, <1>3 DEF Service!SwitchOff, Cancelled

\* deactivate(), and a reschedule() that throws, of a timer in the heap.
LEMMA ReleaseCancels ==
  ASSUME EngineInv, NEW t \in Timers, Release(t)
  PROVE  Service!Cancel(t)
<1>1. /\ HeapLoses(t) /\ t # inProcessing /\ UNCHANGED <<now, when, period, inProcessing, pc>>
  BY ReleasePreserves DEF Release, InHeap, callVars
<1>2. inProcessing \notin ToSet(h.heap)
  BY DEF EngineInv, InProcessingIsOut
<1>3. PICK S \in SUBSET Timers : S = {t}
  OBVIOUS
<1>4. \A x \in Timers : Has(x)' <=> Has(x) /\ x \notin S
  BY <1>1, <1>3 DEF HeapLoses, Has
<1>5. \A x \in Timers \ S : /\ Phases'[x] = Phases[x]
                            /\ x \in Cancelled' <=> x \in Cancelled
  BY <1>1, <1>2, <1>3 DEF HeapLoses, OthersKeepPositions, Deactivated, Phases, Cancelled
<1>6. Service!SwitchOff(S)
  BY <1>1, <1>4, <1>5, SwitchesOff
<1>7. Phases[t] = "set"
  BY <1>1 DEF Phases, HeapLoses
<1> QED
  BY <1>3, <1>6, <1>7 DEF Service!Cancel

\* deactivate() of the timer in processing.
LEMMA DeactivateInProcessingCancels ==
  ASSUME EngineInv, NEW t \in Timers, DeactivateInProcessing(t)
  PROVE  Service!CancelTaken(t)
<1>1. /\ t = inProcessing /\ h' = WithoutPosition(h, t) /\ h \in Heaps(Timers)
      /\ UNCHANGED <<now, when, period, inProcessing, pc>>
  BY InvariantSays DEF DeactivateInProcessing, commonVars, callVars
<1>2. h'.heap = h.heap /\ h'.position[t] = 0
  BY <1>1 DEF WithoutPosition, Heaps
<1>3. Phases[t] \in {"taken", "called"} /\ Phases' = Phases
  BY <1>1, <1>2 DEF Phases
<1>4. IfKnown(when)' = IfKnown(when) /\ IfKnown(period)' = IfKnown(period)
  BY <1>1, <1>2 DEF IfKnown, Has
<1>5. Cancelled' = Cancelled \cup {t}
  BY <1>1, <1>2 DEF Cancelled, Deactivated
<1> QED
  BY <1>1, <1>3, <1>4, <1>5 DEF Service!CancelTaken, Cancelled

\* reset(), and the end of a thread, switch off the timers in the heap.
LEMMA ClearAllCancels ==
  ASSUME EngineInv, ClearAll
  PROVE  Service!CancelAll
<1>1. PICK S \in SUBSET Timers : S = ToSet(h.heap)
  BY InvariantSays
<1>2. /\ ToSet(h'.heap) = {} /\ inProcessing \notin S
      /\ \A x \in Timers \ S : h'.position[x] = h.position[x]
      /\ UNCHANGED <<now, when, period, inProcessing, pc>>
  BY <1>1 DEF ClearAll, callVars, ToSet, EngineInv, InProcessingIsOut
<1>3. \A x \in Timers : Has(x)' <=> Has(x) /\ x \notin S
  BY <1>1, <1>2 DEF Has
<1>4. \A x \in Timers \ S : /\ Phases'[x] = Phases[x]
                            /\ x \in Cancelled' <=> x \in Cancelled
  BY <1>1, <1>2 DEF Deactivated, Phases, Cancelled
<1>5. Service!SwitchOff(S)
  BY <1>2, <1>3, <1>4, SwitchesOff
<1>6. \A t \in Timers : t \in S <=> Phases[t] = "set"
  BY <1>1, <1>2 DEF Phases
<1>7. S = {t \in Timers : Phases[t] = "set"}
  BY <1>6
<1> QED
  BY <1>5, <1>7 DEF Service!CancelAll, Service!SwitchOff

\* The timer that is taken has elapsed.
LEMMA TakeHeadTakes ==
  ASSUME EngineInv, NotNested, CallsBegun, NEW p \in Procs, TakeHead(p)
  PROVE  Service!Take({Head(h.heap)})
<1>1. PICK t \in Timers : t = Head(h.heap) /\ t \in ToSet(h.heap)
  BY HeadInHeap DEF TakeHead, HeadElapsed
<1>2. /\ HeapLoses(t) /\ h'.position[t] # 0 /\ inProcessing = NoTimer /\ inProcessing' = t
      /\ pc'[p] = "enter" /\ UNCHANGED <<now, when, period>>
  BY <1>1, TakeHeadPreserves, BetweenTimers, InvariantSays DEF TakeHead, commonVars
<1>3. when[t] <= now
  BY <1>1, InvariantSays DEF CallsBegun, TakeHead, HeadElapsed
<1>4. Phases[t] = "set" /\ IfKnown(when)[t] = when[t]
  BY <1>1, <1>2, NoTimerAssumption DEF Phases, IfKnown, Has
<1>5. Phases' = [x \in Timers |-> IF x \in {t} THEN "taken" ELSE Phases[x]]
  BY <1>1, <1>2, NoTimerAssumption DEF Phases, HeapLoses
<1>6. \A x \in Timers : Has(x)' <=> Has(x)
  BY <1>1, <1>2, NoTimerAssumption DEF HeapLoses, Has
<1>7. IfKnown(when)' = IfKnown(when) /\ IfKnown(period)' = IfKnown(period)
  BY <1>2, <1>6 DEF IfKnown
<1>8. Cancelled' = Cancelled
  BY <1>1, <1>2, NoTimerAssumption DEF Cancelled, Deactivated
<1> QED
  BY <1>1, <1>2, <1>3, <1>4, <1>5, <1>7, <1>8 DEF Service!Take, Cancelled

\* The action that is called is that of the timer that was taken.
LEMMA CallActionCalls ==
  ASSUME EngineInv, NotNested, ThreadSafe \/ EnterIsSet, NEW p \in Procs, CallAction(p)
  PROVE  \E t \in Timers : Service!Call(t)
<1>1. PICK t \in Timers : t = inProcessing
  BY BetweenTimers DEF CallAction
<1>2. /\ pc[p] = "enter" /\ UNCHANGED <<now, h, when, period, inProcessing>>
      /\ \A q \in Procs : pc'[q] # "enter"
  BY InvariantSays DEF CallAction, commonVars, NotNested
<1>3. Phases[t] = "taken" /\ Phases' = [Phases EXCEPT ![t] = "called"]
  BY <1>1, <1>2 DEF Phases
<1>4. IfKnown(when)' = IfKnown(when) /\ IfKnown(period)' = IfKnown(period)
  BY <1>2 DEF IfKnown, Has
<1>5. Cancelled' = Cancelled /\ (ThreadSafe \/ t \notin Cancelled)
  BY <1>1, <1>2 DEF Cancelled, Deactivated, EnterIsSet
<1> QED
  BY <1>2, <1>3, <1>4, <1>5 DEF Service!Call, Cancelled

\* A periodic timer goes back, one period later.
LEMMA UtilizePeriodicPutsBack ==
  ASSUME EngineInv, NotNested, NEW p \in Procs, UtilizePeriodic(p)
  PROVE  \E t \in Timers : Service!PutBack(t)
<1>1. PICK t \in Timers : t = inProcessing /\ t \notin ToSet(h.heap)
  BY BetweenTimers DEF UtilizePeriodic
<1>2. /\ HeapGains(t) /\ inProcessing' = NoTimer /\ ~Deactivated(t) /\ period[t] # 0
      /\ when' = [when EXCEPT ![t] = when[t] + period[t]]
      /\ UNCHANGED <<now, period>>
      /\ \A q \in Procs : pc[q] # "enter"
  BY <1>1, UtilizePeriodicPreserves
     DEF UtilizePeriodic, MustBeRescheduled, AfterTimer, commonVars, NotNested
<1>3. when \in [Timers -> Nat]
  BY InvariantSays
<1>4. Phases[t] = "called" /\ Phases' = [Phases EXCEPT ![t] = "set"]
  BY <1>1, <1>2, NoTimerAssumption DEF Phases, HeapGains
<1>5. \A x \in Timers : Has(x)' <=> Has(x)
  BY <1>1, <1>2, NoTimerAssumption DEF HeapGains, Has
<1>6. /\ IfKnown(when)' = [IfKnown(when) EXCEPT ![t] = @ + IfKnown(period)[t]]
      /\ IfKnown(period)' = IfKnown(period) /\ IfKnown(period)[t] # 0
  BY <1>1, <1>2, <1>3, <1>5 DEF IfKnown, Has
<1>7. Cancelled' = Cancelled /\ t \notin Cancelled
  BY <1>1, <1>2, NoTimerAssumption DEF Cancelled
<1> QED
  BY <1>2, <1>4, <1>6, <1>7 DEF Service!PutBack, Cancelled

\* Any other timer is dropped.
LEMMA UtilizeOtherDrops ==
  ASSUME EngineInv, NotNested, NEW p \in Procs, UtilizeOther(p)
  PROVE  \E t \in Timers : Service!Drop(t)
<1>1. PICK t \in Timers : t = inProcessing /\ t \notin ToSet(h.heap)
  BY BetweenTimers DEF UtilizeOther
<1>2. /\ HeapKeeps /\ inProcessing' = NoTimer /\ (Deactivated(t) \/ period[t] = 0)
      /\ UNCHANGED <<now, when, period>>
      /\ \A q \in Procs : pc[q] # "enter"
  BY <1>1, UtilizeOtherPreserves
     DEF UtilizeOther, MustBeRescheduled, AfterTimer, NotNested
<1>3. PICK S \in SUBSET Timers : S = {t}
  OBVIOUS
<1>4. \A x \in Timers : Has(x)' <=> Has(x) /\ x \notin S
  BY <1>1, <1>2, <1>3, NoTimerAssumption DEF HeapKeeps, Has
<1>5. \A x \in Timers \ S : /\ Phases'[x] = Phases[x]
                            /\ x \in Cancelled' <=> x \in Cancelled
  BY <1>1, <1>2, <1>3, NoTimerAssumption DEF HeapKeeps, Phases, Cancelled
<1>6. Service!SwitchOff(S)
  BY <1>1, <1>2, <1>3, <1>4, <1>5, SwitchesOff
<1>7. Phases[t] = "called" /\ (t \in Cancelled \/ IfKnown(period)[t] = 0)
  BY <1>1, <1>2 DEF Phases, Cancelled, IfKnown
<1> QED
  BY <1>3, <1>6, <1>7 DEF Service!Drop, Cancelled

-----------------------------------------------------------------------------
\* Every operation of a client is a step of the service, or not seen.
LEMMA ClientServes ==
  ASSUME EngineInv, ClearAll \/ ClientCall
  PROVE  [Service!Next]_(Service!vars)
<1>1. CASE ClearAll
  BY <1>1, ClearAllCancels DEF Service!Next
<1>2. ASSUME NEW t \in Timers, Allocate(t) \/ Dismiss(t)
      PROVE  [Service!Next]_(Service!vars)
  <2>1. UNCHANGED <<now, h, when, period, inProcessing, pc>>
    BY <1>2 DEF Allocate, AllocateObject, Dismiss, DismissObject, engineVars
  <2> QED
    BY <2>1, NotSeen
<1>3. ASSUME NEW t \in Timers, Release(t) \/ DeactivateInProcessing(t)
      PROVE  Service!Next
  BY <1>3, ReleaseCancels, DeactivateInProcessingCancels DEF Service!Next
<1>4. ASSUME NEW t \in Timers, NEW pause \in Pauses, NEW per \in Periods,
             (t # inProcessing /\ Activate(t, pause, per)) \/ Reschedule(t, pause, per)
      PROVE  Service!Next
  BY <1>4, ActivateSets DEF Service!Next
<1> QED
  BY <1>1, <1>2, <1>3, <1>4 DEF ClientCall

\* Every step of process_expired_timers is a step of the service, or not seen.
LEMMA EngineStepServes ==
  ASSUME EngineInv, NotNested, CallsBegun, ThreadSafe \/ EnterIsSet, EngineStep
  PROVE  [Service!Next]_(Service!vars)
<1>1. PICK p \in Procs :
        \/ BeginCall(p) \/ TakeHead(p) \/ EndCall(p) \/ CallAction(p) \/ FinishAction(p)
        \/ UtilizePeriodic(p) \/ UtilizeOther(p)
  BY DEF EngineStep
<1>2. CASE BeginCall(p) \/ EndCall(p) \/ FinishAction(p)
  <2>1. /\ UNCHANGED <<now, h, when, period, inProcessing>>
        /\ \A q \in Procs : pc[q] = "enter" <=> pc'[q] = "enter"
    BY <1>2, InvariantSays DEF BeginCall, EndCall, FinishAction, commonVars
  <2> QED
    BY <2>1, NotSeen
<1>3. CASE TakeHead(p)
  <2>1. h.heap # <<>>
    BY <1>3 DEF TakeHead, HeadElapsed
  <2>2. {Head(h.heap)} \in SUBSET Timers
    BY <2>1, HeadInHeap
  <2>3. Service!Take({Head(h.heap)})
    BY <1>3, TakeHeadTakes
  <2> QED
    BY <2>2, <2>3 DEF Service!Next
<1>4. CASE CallAction(p)
  BY <1>4, CallActionCalls DEF Service!Next
<1>5. CASE UtilizePeriodic(p)
  BY <1>5, UtilizePeriodicPutsBack DEF Service!Next
<1>6. CASE UtilizeOther(p)
  BY <1>6, UtilizeOtherDrops DEF Service!Next
<1> QED
  BY <1>1, <1>2, <1>3, <1>4, <1>5, <1>6

\* The clock only advances, and a call begins now.
LEMMA CallsBegunStep ==
  ASSUME EngineInv, CallsBegun,
         \/ Tick /\ UNCHANGED <<refs, held, quantities, engineVars>>
         \/ UNCHANGED <<commonVars, engineVars>>
         \/ ClearAll \/ ClientCall \/ EngineStep
  PROVE  CallsBegun'
<1>1. now \in Nat /\ started \in [Procs -> Nat]
  BY InvariantSays
<1>2. CASE Tick /\ UNCHANGED engineVars
  BY <1>1, <1>2 DEF Tick, engineVars, CallsBegun
<1>3. CASE UNCHANGED <<now, started>>
  BY <1>3 DEF CallsBegun
<1>4. CASE ClearAll \/ ClientCall \/ UNCHANGED <<commonVars, engineVars>>
  <2>1. UNCHANGED <<now, started>>
    BY <1>4 DEF ClearAll, ClientCall, Allocate, AllocateObject, Dismiss, DismissObject, Release,
       DeactivateInProcessing, Activate, Reschedule, engineVars, commonVars, callVars
  <2> QED
    BY <1>3, <2>1
<1>5. ASSUME NEW p \in Procs,
             \/ BeginCall(p) \/ TakeHead(p) \/ EndCall(p) \/ CallAction(p) \/ FinishAction(p)
             \/ UtilizePeriodic(p) \/ UtilizeOther(p)
      PROVE  CallsBegun'
  <2>1. UNCHANGED now /\ (UNCHANGED started \/ started' = [started EXCEPT ![p] = now])
    BY <1>5 DEF BeginCall, TakeHead, EndCall, CallAction, FinishAction, UtilizePeriodic,
       UtilizeOther, AfterTimer, commonVars
  <2> QED
    BY <1>1, <2>1 DEF CallsBegun
<1> QED
  BY <1>2, <1>4, <1>5 DEF EngineStep

-----------------------------------------------------------------------------
(***************************************************************************)
(* The manager.                                                            *)
(***************************************************************************)
\* What a step of the manager does to the engine.
LEMMA ManagerSteps ==
  ASSUME ~ActivateWhileProcessing, [ManagerNext]_managerVars
  PROVE  \/ Tick /\ UNCHANGED <<refs, held, quantities, engineVars>>
         \/ UNCHANGED <<commonVars, engineVars>>
         \/ Reset
         \/ ClientCall
         \/ EngineStep
<1>1. CASE ClockAdvances
  BY <1>1 DEF ClockAdvances
<1>2. CASE ManagerCalls
  BY <1>2 DEF ManagerCalls, RescheduleThrows, Deactivate, DeactivateInHeap,
     DeactivateInProcessing, ClientCall
<1>3. CASE ProcessStep
  BY <1>3 DEF ProcessStep, EngineStep
<1> QED
  BY <1>1, <1>2, <1>3 DEF ManagerNext, managerVars

\* Its steps preserve the engine's invariant.
LEMMA ManagerStepPreserves ==
  ASSUME NotNested, ~ActivateWhileProcessing, EngineInv, CallsBegun, [ManagerNext]_managerVars
  PROVE  EngineInv' /\ CallsBegun'
<1>1. CASE \/ Tick /\ UNCHANGED <<refs, held, quantities, engineVars>>
           \/ UNCHANGED <<commonVars, engineVars>>
  BY <1>1, HolderPreserves, CallsBegunStep
<1>2. CASE Reset
  BY <1>2, ClearAllPreserves, CallsBegunStep DEF Reset
<1>3. CASE ClientCall
  BY <1>3, ClientCallPreserves, CallsBegunStep
<1>4. CASE EngineStep
  BY <1>4, EngineStepPreserves, CallsBegunStep
<1> QED
  BY <1>1, <1>2, <1>3, <1>4, ManagerSteps

\* The invariant, with what the service needs in addition.
LEMMA ManagerInvariant ==
  ASSUME NotNested, ~ActivateWhileProcessing
  PROVE  ManagerSpec => [](EngineInv /\ CallsBegun)
<1>1. ManagerInit => EngineInv /\ CallsBegun
  BY EngineInitially, ServiceInitially DEF ManagerInit
<1>2. EngineInv /\ CallsBegun /\ [ManagerNext]_managerVars => EngineInv' /\ CallsBegun'
  BY ManagerStepPreserves
<1> QED
  BY <1>1, <1>2, PTL DEF ManagerSpec

(***************************************************************************)
(* If calls of process_expired_timers are not nested, and nobody activates *)
(* the timer whose action runs, then in every reachable state the array is *)
(* a heap, every timer knows its position, m_timer_in_processing is the    *)
(* timer that was taken and in no heap, and the references are exact: with *)
(* reset() at any time, and in both thread-safety modes.  The runs         *)
(* heap_manager_nested and heap_manager_reactivated show that it needs     *)
(* both hypotheses.                                                        *)
(***************************************************************************)
THEOREM Invariant ==
  ASSUME NotNested, ~ActivateWhileProcessing
  PROVE  ManagerSpec => []EngineInv
BY ManagerInvariant, PTL

\* The timers are taken in the order of their time points.
THEOREM EarliestAreFirst ==
  ASSUME NotNested, ~ActivateWhileProcessing
  PROVE  ManagerSpec => EarliestFirst
<1> DEFINE A == \A p \in Procs : pc[p] = "loop" /\ pc'[p] = "enter" =>
                  \A t \in ToSet(h.heap) : when[taken'[p]] <= when[t]
<1>1. EngineInv /\ [ManagerNext]_managerVars => [A]_managerVars
  <2> SUFFICES ASSUME EngineInv, [ManagerNext]_managerVars, NEW p \in Procs,
                      pc[p] = "loop", pc'[p] = "enter",
                      NEW t \in ToSet(h.heap)
               PROVE  when[taken'[p]] <= when[t]
    OBVIOUS
  <2>1. TakeHead(p)
    <3>1. CASE \/ Tick /\ UNCHANGED <<refs, held, quantities, engineVars>>
               \/ UNCHANGED <<commonVars, engineVars>>
      BY <3>1 DEF engineVars
    <3>2. CASE Reset \/ ClientCall
      BY <3>2 DEF Reset, ClearAll, ClientCall, Allocate, Dismiss, Release,
         DeactivateInProcessing, Activate, Reschedule, engineVars, callVars
    <3>3. ASSUME NEW q \in Procs,
                 \/ BeginCall(q) \/ TakeHead(q) \/ EndCall(q) \/ CallAction(q) \/ FinishAction(q)
                 \/ UtilizePeriodic(q) \/ UtilizeOther(q)
          PROVE  TakeHead(p)
      <4>1. q = p
        BY <3>3, InvariantSays DEF NotNested
      <4> QED
        BY <3>3, <4>1, InvariantSays
           DEF BeginCall, EndCall, CallAction, FinishAction, UtilizePeriodic, UtilizeOther,
               AfterTimer
    <3> QED
      BY <3>1, <3>2, <3>3, ManagerSteps DEF EngineStep
  <2>2. taken'[p] = Head(h.heap)
    BY <2>1, InvariantSays DEF TakeHead
  <2> QED
    BY <2>2, InvariantSays, HeadIsEarliest
<1> QED
  BY <1>1, Invariant, PTL DEF ManagerSpec, EarliestFirst

(***************************************************************************)
(* process_expired_timers leaves no timer behind that had elapsed when it  *)
(* was called.                                                             *)
(***************************************************************************)
THEOREM NoneIsLeftBehind ==
  ASSUME NotNested, ~ActivateWhileProcessing
  PROVE  ManagerSpec => NoneLeftBehind
<1> DEFINE A == \A p \in Procs : pc[p] = "loop" /\ pc'[p] = "idle" =>
                  \A t \in ToSet(h.heap) : when[t] >= started[p]
<1>1. EngineInv /\ [ManagerNext]_managerVars => [A]_managerVars
  <2> SUFFICES ASSUME EngineInv, [ManagerNext]_managerVars, NEW p \in Procs,
                      pc[p] = "loop", pc'[p] = "idle",
                      NEW t \in ToSet(h.heap)
               PROVE  when[t] >= started[p]
    OBVIOUS
  <2>1. EndCall(p)
    <3>1. CASE \/ Tick /\ UNCHANGED <<refs, held, quantities, engineVars>>
               \/ UNCHANGED <<commonVars, engineVars>>
      BY <3>1 DEF engineVars
    <3>2. CASE Reset \/ ClientCall
      BY <3>2 DEF Reset, ClearAll, ClientCall, Allocate, Dismiss, Release,
         DeactivateInProcessing, Activate, Reschedule, engineVars, callVars
    <3>3. ASSUME NEW q \in Procs,
                 \/ BeginCall(q) \/ TakeHead(q) \/ EndCall(q) \/ CallAction(q) \/ FinishAction(q)
                 \/ UtilizePeriodic(q) \/ UtilizeOther(q)
          PROVE  EndCall(p)
      <4>1. q = p
        BY <3>3, InvariantSays DEF NotNested
      <4> QED
        BY <3>3, <4>1, InvariantSays
           DEF BeginCall, TakeHead, CallAction, FinishAction, UtilizePeriodic, UtilizeOther,
               AfterTimer
    <3> QED
      BY <3>1, <3>2, <3>3, ManagerSteps DEF EngineStep
  <2>2. h.heap # <<>> /\ when[Head(h.heap)] <= when[t] /\ Head(h.heap) \in Timers /\ t \in Timers
    <3>1. h.heap # <<>>
      BY DEF ToSet
    <3> QED
      BY <3>1, HeadInHeap, HeadIsEarliest, InvariantSays
  <2>3. ~(started[p] > when[Head(h.heap)])
    BY <2>1, <2>2 DEF EndCall, HeadElapsed
  <2>4. /\ when[Head(h.heap)] \in Nat /\ when[t] \in Nat /\ started[p] \in Nat
    BY <2>2, InvariantSays
  <2> QED
    BY <2>2, <2>3, <2>4
<1> QED
  BY <1>1, Invariant, PTL DEF ManagerSpec, NoneLeftBehind

\* The counters stay exact, but for a reset() while a timer is processed.
THEOREM CountsAreKept ==
  ASSUME NotNested, ~ActivateWhileProcessing
  PROVE  ManagerSpec => CountsKept
<1>1. EngineInv /\ [ManagerNext]_managerVars =>
        (QuantitiesExact /\ (Reset => inProcessing = NoTimer) => QuantitiesExact')
  <2> SUFFICES ASSUME EngineInv, [ManagerNext]_managerVars, QuantitiesExact,
                      Reset => inProcessing = NoTimer
               PROVE  QuantitiesExact'
    OBVIOUS
  <2>1. CASE \/ Tick /\ UNCHANGED <<refs, held, quantities, engineVars>>
             \/ UNCHANGED <<commonVars, engineVars>>
    <3>1. UNCHANGED <<quantities, h, period, inProcessing>>
      BY <2>1 DEF commonVars, engineVars
    <3> QED
      BY <3>1, CountsStay DEF Has
  <2>2. CASE Reset
    BY <2>2, CountsCleared DEF Reset
  <2>3. CASE ClientCall
    BY <2>3, ClientKeepsCounts
  <2>4. CASE EngineStep
    BY <2>4, EngineStepKeepsCounts
  <2> QED
    BY <2>1, <2>2, <2>3, <2>4, ManagerSteps
<1> QED
  BY <1>1, Invariant, PTL DEF ManagerSpec, CountsKept

\* In a thread-unsafe manager nobody deactivates the timer before its action is called.
LEMMA EnterStaysSet ==
  ASSUME NotNested, ~ActivateWhileProcessing, ~ThreadSafe
  PROVE  ManagerSpec => []EnterIsSet
<1>1. ManagerInit => EnterIsSet
  BY DEF ManagerInit, EngineInit, EnterIsSet
<1>2. EngineInv /\ EnterIsSet /\ [ManagerNext]_managerVars => EnterIsSet'
  <2> SUFFICES ASSUME EngineInv, EnterIsSet, [ManagerNext]_managerVars,
                      NEW p \in Procs, pc'[p] = "enter"
               PROVE  ~(Deactivated(inProcessing)')
    BY DEF EnterIsSet
  <2>1. CASE ClockAdvances \/ UNCHANGED managerVars
    BY <2>1 DEF ClockAdvances, managerVars, engineVars, EnterIsSet, Deactivated
  <2>2. CASE Reset \/ ManagerCalls
    <3>1. \/ UNCHANGED <<h, pc, inProcessing>>
          \/ MayCall /\ UNCHANGED pc
      <4>1. CASE Reset
        BY <4>1 DEF Reset, ClearAll, callVars
      <4>2. CASE ManagerCalls
        BY <4>2 DEF ManagerCalls, Allocate, Dismiss, RescheduleThrows, Deactivate, DeactivateInHeap,
           DeactivateInProcessing, Release, Activate, Reschedule, engineVars, callVars
      <4> QED
        BY <2>2, <4>1, <4>2
    <3> QED
      BY <3>1 DEF MayCall, EnterIsSet, Deactivated
  <2>3. CASE ProcessStep
    <3>1. TakeHead(p)
      BY <2>3, InvariantSays
         DEF ProcessStep, NotNested, BeginCall, EndCall, CallAction, FinishAction, UtilizePeriodic,
             UtilizeOther, AfterTimer
    <3> QED
      BY <3>1, TakeHeadPreserves DEF TakeHead, Deactivated
  <2> QED
    BY <2>1, <2>2, <2>3 DEF ManagerNext
<1> QED
  BY <1>1, <1>2, Invariant, PTL DEF ManagerSpec

\* Every step of the manager is a step of the service, or not seen.
LEMMA StepServes ==
  ASSUME NotNested, ~ActivateWhileProcessing, EngineInv, CallsBegun, ThreadSafe \/ EnterIsSet,
         [ManagerNext]_managerVars
  PROVE  [Service!Next]_(Service!vars)
<1>1. CASE Tick /\ UNCHANGED <<refs, held, quantities, engineVars>>
  <2>1. Service!TimePasses
    BY <1>1 DEF Tick, engineVars, Service!TimePasses, Phases, IfKnown, Has, Deactivated
  <2> QED
    BY <2>1 DEF Service!Next
<1>2. CASE UNCHANGED <<commonVars, engineVars>>
  <2>1. UNCHANGED <<now, h, when, period, inProcessing, pc>>
    BY <1>2 DEF commonVars, engineVars
  <2> QED
    BY <2>1, NotSeen
<1>3. CASE Reset \/ ClientCall
  BY <1>3, ClientServes DEF Reset
<1>4. CASE EngineStep
  BY <1>4, EngineStepServes
<1> QED
  BY <1>1, <1>2, <1>3, <1>4, ManagerSteps

(***************************************************************************)
(* Under the same hypotheses the heap keeps the promise of TimerService.   *)
(***************************************************************************)
THEOREM Implements ==
  ASSUME NotNested, ~ActivateWhileProcessing
  PROVE  ManagerSpec => Promise
<1>1. ManagerInit => Service!Init
  BY ServiceInitially DEF ManagerInit
<1>2. EngineInv /\ CallsBegun /\ (ThreadSafe \/ EnterIsSet) /\ [ManagerNext]_managerVars
        => [Service!Next]_(Service!vars)
  BY StepServes
<1>3. CASE ThreadSafe
  <2>1. EngineInv /\ CallsBegun /\ [ManagerNext]_managerVars => [Service!Next]_(Service!vars)
    BY <1>2, <1>3
  <2> QED
    BY <1>1, <2>1, ManagerInvariant, PTL DEF ManagerSpec, Promise, Service!Spec
<1>4. CASE ~ThreadSafe
  <2>1. ManagerSpec => []EnterIsSet
    BY <1>4, EnterStaysSet
  <2> QED
    BY <1>1, <1>2, <2>1, ManagerInvariant, PTL DEF ManagerSpec, Promise, Service!Spec
<1> QED
  BY <1>3, <1>4
=============================================================================
