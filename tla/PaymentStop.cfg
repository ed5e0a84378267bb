SPECIFICATION Spec
CONSTANTS
  d1 = d1
  d2 = d2
  d3 = d3
  Actions = {a1}
  Deliveries = {d1}
  Cleanups = {c1}
  ProcessOf <- TwoProcesses
  Operators = {}
  Nobody = Nobody
PROPERTY StopFindsUnpaidLinks
CHECK_DEADLOCK FALSE
