SPECIFICATION Spec
CONSTANTS
  t1 = t1
  t2 = t2
  s1 = s1
  s2 = s2
  None = None
  Thread = {t1, t2}
  Storage = {s1, s2}
  Cell = {1}
  Roots = {1}
  Base = {1, 2, 3}
  Home <- Homes
  Apart = TRUE
SYMMETRY Symmetry
INVARIANTS
  RefsWhole
  FoundOwner
