SPECIFICATION FairSpec
CONSTANTS
  MaxPages = 2
  Quantum = 2
  Content = {0, 1, 2}
  Zero = 0
  FileSizeOf <- TwoPages
  MaxLocked = 2
  TornTail = TRUE
INVARIANTS
  CrashRecoverable
  PowerLossRecoverable
  ShadowOnce
  SizeCoversCommitted
  IInv
PROPERTIES
  ImplementsTxnImage
  RecoveryEnds
