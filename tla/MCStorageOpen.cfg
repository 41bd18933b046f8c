SPECIFICATION Spec
CONSTANTS
  old = old
  newer = newer
  A = A
  B = B
  Program = {old, newer}
  Registry <- Versions
  Base = {10, 20}
  MaxObjects = 2
  MaxChanges = 3
  maxStaticData = 1
  Modes <- AllModes
  CrashWhenNew = FALSE
  ReadAfterCrash = FALSE
  MetaClass = MetaClass
  PageMapClass = PageMapClass
  None = None
INVARIANTS
  ClassesResolve
  RefsResolve
  VirtualTables
