SPECIFICATION FairSpec
CONSTANTS
  SignalIds = {s1}
  Kinds <- AllKinds
  PolicyActions <- MCActions
  Deadlines <- MCDeadlines
  DelayTargets <- MCDelayTargets
  PollInterval = 1
  MaxTime = 3
  None = None
PROPERTIES Closes
CHECK_DEADLOCK FALSE
