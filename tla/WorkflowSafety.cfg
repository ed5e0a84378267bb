SPECIFICATION Spec
CONSTANTS
  SignalIds = {s1, s2}
  Kinds <- AllKinds
  PolicyActions <- MCActions
  Deadlines <- MCDeadlines
  DelayTargets <- MCDelayTargets
  PollInterval = 1
  MaxTime = 3
  None = None
INVARIANTS
  TypeOK EachSignalOnce GatedOutreachInWindow RecoveredOnlyOnEvidence
  ReceiptOnlyForExactCapture CloseCancelsOutreach
PROPERTIES ExpiryAfterDrain
SYMMETRY SignalSymmetry
CHECK_DEADLOCK FALSE
