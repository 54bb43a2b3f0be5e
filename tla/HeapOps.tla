------------------------------- MODULE HeapOps -------------------------------
(***************************************************************************)
(* The binary heap of timer_heap_engine: an array of timers, the earliest  *)
(* one on the top, in which every timer knows its own position.  A heap is *)
(* a record of the two; w gives the time points.  Positions start with 1,  *)
(* and 0 is deactivation_indicator.                                        *)
(***************************************************************************)
EXTENDS Integers, SequencesExt

Heaps(timers) == [heap : Seq(timers), position : [timers -> Nat]]

\* Every timer of the array knows its position.
Indexed(h) == \A i \in 1..Len(h.heap) : h.position[h.heap[i]] = i

\* The heaps a loop goes through that moves the timer t.
HeapsWith(timers, t) == {g \in Heaps(timers) : Indexed(g) /\ t \in ToSet(g.heap)}

\* heap_swap
Swap(h, a, b) ==
  [heap |-> [h.heap EXCEPT ![h.position[a]] = b, ![h.position[b]] = a],
   position |-> [h.position EXCEPT ![a] = h.position[b], ![b] = h.position[a]]]

ParentOf(h, t) == h.heap[h.position[t] \div 2]

MovesUp(h, w, t) ==
  /\ h.position[t] # 1
  /\ w[ParentOf(h, t)] > w[t]

\* The loop of heap_add, and the first one of heap_remove.
HeapUp(h, w, t) ==
  LET up[g \in HeapsWith(DOMAIN h.position, t)] ==
        IF MovesUp(g, w, t) THEN up[Swap(g, t, ParentOf(g, t))] ELSE g
  IN  up[h]

\* min_index of heap_down_item: an equal child is preferred to its parent.
MinPosition(h, w, i) ==
  LET NotLater(j, k) == j <= Len(h.heap) /\ w[h.heap[j]] <= w[h.heap[k]]
      m == IF NotLater(2 * i, i) THEN 2 * i ELSE i
  IN  IF NotLater(2 * i + 1, m) THEN 2 * i + 1 ELSE m

\* heap_down_item
HeapDown(h, w, t) ==
  LET down[g \in HeapsWith(DOMAIN h.position, t)] ==
        LET i == g.position[t]
            m == MinPosition(g, w, i)
        IN  IF m = i THEN g ELSE down[Swap(g, t, g.heap[m])]
  IN  down[h]

-----------------------------------------------------------------------------
\* Mutant: the timer stays at the end of the array.
HeapAppend(h, w, t) ==
  [heap     |-> Append(h.heap, t),
   position |-> [h.position EXCEPT ![t] = Len(h.heap) + 1]]

\* heap_add
HeapAdd(h, w, t) ==
  HeapUp([heap     |-> Append(h.heap, t),
          position |-> [h.position EXCEPT ![t] = Len(h.heap) + 1]], w, t)

\* m_heap.pop_back()
PopBack(h) == [h EXCEPT !.heap = Front(@)]

\* Mutant: the last item is never moved up.
HeapRemoveDownOnly(h, w, t) ==
  LET last == Last(h.heap)
  IN  IF t = last THEN PopBack(h) ELSE HeapDown(PopBack(Swap(h, t, last)), w, last)

\* Mutant: the last item is dropped, whichever timer is to be removed.
HeapRemoveLast(h, w, t) == PopBack(h)

\* heap_remove: the last item takes the place of t, and goes up, or down if
\* it has not gone up.  The position of t stays what the swap has left there.
HeapRemove(h, w, t) ==
  LET last == Last(h.heap)
      popped == PopBack(Swap(h, t, last))
      up == HeapUp(popped, w, last)
  IN  IF h.position[t] = Len(h.heap)
      THEN PopBack(h)
      ELSE IF up = popped THEN HeapDown(popped, w, last) ELSE up

-----------------------------------------------------------------------------
\* No timer is earlier than its parent.
Ordered(h, w) ==
  \A i \in 2..Len(h.heap) : w[h.heap[i \div 2]] <= w[h.heap[i]]
=============================================================================
