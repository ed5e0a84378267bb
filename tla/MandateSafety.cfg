SPECIFICATION LiveSpec
CONSTANTS
  Requests = {r1, r2}
  Pollers = {p1}
  Deliveries = {d1, d2}
  Contexts = {k1}
  Deadline = 2
  MandateTtl = 2
  MaximumAttempts = 2
  MaxTime = 2
  None = None
INVARIANTS TypeOK OpenedOnce CompletedWasPaid
PROPERTIES FinalTaskIsFinal ConsumedIsNotRefused ImplementsConsent DecisionIsHeard
CHECK_DEADLOCK FALSE
