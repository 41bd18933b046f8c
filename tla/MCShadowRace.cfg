SPECIFICATION Spec
CONSTANTS
  t1 = t1
  t2 = t2
  p1 = p1
  p2 = p2
  p3 = p3
  p4 = p4
  Thread = {t1, t2}
  Page = {p1, p2, p3, p4}
  Value = {0, 1}
  Touches <- Wide
  MaxLocked = 1
  MaxLog = 4
INVARIANTS
  ChangesUndone
  SyncWriteAhead
