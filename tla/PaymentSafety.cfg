SPECIFICATION Spec
CONSTANTS
  d1 = d1
  d2 = d2
  d3 = d3
  Actions = {a1}
  Deliveries = {d1, d2, d3}
  Cleanups = {c1}
  ProcessOf <- TwoProcesses
  Operators = {o1, o2}
  Nobody = Nobody
INVARIANTS TypeOK CreatesAreAuthorized SucceededHasLink OneDecides
PROPERTIES CancelledOnceDead CancelledStays
SYMMETRY Symmetry
CHECK_DEADLOCK FALSE
