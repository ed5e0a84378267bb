SPECIFICATION Spec
CONSTANTS
  SignalIds = {s1, s2}
  Kinds <- AllKinds
  PolicyActions <- MCActions
  Deadlines <- MCDeadlines
  DelayTargets <- MCDelayTargets
  PollInterval = 1
  MaxTime = 3
  None = None
PROPERTIES NoOutreachAfterOptOut
SYMMETRY SignalSymmetry
CHECK_DEADLOCK FALSE
