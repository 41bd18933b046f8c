SPECIFICATION CrashSpec
CONSTANTS
  MaxPages = 3
  Quantum = 1
  Content = {0, 1, 2, 3}
  Zero = 0
  FileSizeOf <- ThreePages
  MaxLocked = 0
  TornTail = FALSE
INVARIANTS
  NoBusError
