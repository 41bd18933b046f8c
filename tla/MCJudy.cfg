SPECIFICATION Spec
CONSTANTS
  Key1 = {0, 1, 2, 3, 4, 5, 7, 216}
  KeyL = {0, 1, 2, 3, 16, 64, 128}
  Lefts = {0, 1, 2, 5}
  MaxLost = 0
CHECK_DEADLOCK FALSE
INVARIANTS
  TreeSound
  LookupsAgree
  EmptiesAgree
  CountsAgree
  MemoryBalanced
  MapImplemented
