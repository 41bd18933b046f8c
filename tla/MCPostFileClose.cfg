SPECIFICATION CloseSpec
CONSTANTS
  MaxPages = 2
  Quantum = 2
  Content = {0, 1, 2}
  Zero = 0
  FileSizeOf <- TwoPages
  MaxLocked = 0
  TornTail = FALSE
INVARIANTS
  CrashRecoverable
