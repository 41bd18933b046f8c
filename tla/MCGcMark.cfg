SPECIFICATION FairSpec
CONSTANTS
  a = a
  b = b
  c = c
  Null = Null
  Object = {a, b, c}
  Slot = {1, 2, 3, 4, 5, 6, 7, 8}
  root_object = 1
  class_dictionary = 2
  static_data <- Static
  Fields <- FieldsOf
  Words <- SizeOf
  InitCap = 3
CHECK_DEADLOCK FALSE
INVARIANTS
  MarksReachable
  MovedOnce
  StackFits
PROPERTIES
  MarkEnds
