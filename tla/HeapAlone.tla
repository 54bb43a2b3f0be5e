----------------------------- MODULE HeapAlone ------------------------------
(***************************************************************************)
(* The heap algorithms by themselves: any heap that is in order, and one   *)
(* call of heap_add or heap_remove.  The timers are numbered by their      *)
(* positions in the initial heap, so that one initial state stands for all *)
(* the names they may have.                                                *)
(***************************************************************************)
EXTENDS HeapOps

CONSTANTS
  Items,     \* the numbers of the timers
  MaxSize,   \* the size of the largest initial heap
  MaxPoint   \* the latest time point

ASSUME ItemsAssumption ==
  /\ MaxSize \in Nat /\ MaxPoint \in Nat
  /\ Items \subseteq Nat \ {0} /\ 1..MaxSize \subseteq Items

VARIABLES
  size,     \* the size of the initial heap
  point,    \* timer -> m_when
  array,    \* the heap
  members   \* the timers that have been put into it and not removed

heapVars == <<size, point, array, members>>

HeapInit ==
  /\ size \in 0..MaxSize
  /\ point \in [Items -> 0..MaxPoint]
  /\ \A t \in Items : t > size + 1 => point[t] = 0
  /\ array = [heap     |-> [i \in 1..size |-> i],
              position |-> [t \in Items |-> IF t <= size THEN t ELSE 0]]
  /\ Ordered(array, point)
  /\ members = 1..size

AddTimer ==
  /\ members = 1..size
  /\ size + 1 \in Items
  /\ array' = HeapAdd(array, point, size + 1)
  /\ members' = members \cup {size + 1}
  /\ UNCHANGED <<size, point>>

RemoveTimer ==
  /\ members = 1..size
  /\ \E t \in members :
       /\ array' = HeapRemove(array, point, t)
       /\ members' = members \ {t}
  /\ UNCHANGED <<size, point>>

HeapNext == AddTimer \/ RemoveTimer

HeapSpec == HeapInit /\ [][HeapNext]_heapVars

(***************************************************************************)
(* heap_add and heap_remove restore the order of the heap: "the last_item  *)
(* can now be less than its new parent, be greater than any of its new     *)
(* children", and the two loops of heap_remove repair either.              *)
(***************************************************************************)
StaysOrdered == Ordered(array, point)

\* The array holds exactly the members, once each, with their positions right.
HoldsMembers ==
  /\ ToSet(array.heap) = members
  /\ IsInjective(array.heap)
  /\ Indexed(array)
=============================================================================
