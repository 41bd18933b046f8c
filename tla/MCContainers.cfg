SPECIFICATION Spec
CONSTANTS
  NULL = NULL
  Yes = Yes
  No = No
  Unlimited = Unlimited
  Object = {1, 2, 3, 4, 5, 6, 7, 8, 9, 10, 11, 12, 13, 14, 15}
  Key <- Keys
  pageSize = 3
  Bounds = {Unlimited, 2, 4}
  Name = {"p", "q", "r"}
  Hash <- Codes
  size = 2
  card = 4
  Rect <- Rects
  Char = {"a", "A", "B"}
  upper_case <- Upper
  lower_case <- Lower
  Patterns <- PatternSet
  Texts <- TextSet
  Population <- Populations
  MaxLen = 3
  MaxRemovals = 3
CHECK_DEADLOCK FALSE
INVARIANTS
  Shape
  SearchAgrees
  IteratorVisits
  TextFound
  ArrayTailClear
PROPERTIES
  ImplementsCollection
