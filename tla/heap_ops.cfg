SPECIFICATION HeapSpec
CONSTANTS
  Items <- ThirteenItems
  MaxSize = 12
  MaxPoint = 2
INVARIANTS StaysOrdered HoldsMembers
CHECK_DEADLOCK FALSE
