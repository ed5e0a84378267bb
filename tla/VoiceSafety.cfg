SPECIFICATION Spec
CONSTANTS
  ApiRequests = {r1}
  ApiKeys = {k1}
  Activities = {a1, a2}
  ActionKey = ka
  Processes = {p1}
  Callbacks = {h1}
  Events <- MCEvents
  Cancellers = {t1}
  CancelKeys = {c1}
  DailyLimit = 10
  MaxInFlight = 2
  FailureThreshold = 1
  None = None
SYMMETRY Symmetry
INVARIANTS TypeOK SubmittedOnce LiveCallIsVisible SucceededWasCalled OptOutIsKept
PROPERTY DoubtStopsCalls
CHECK_DEADLOCK FALSE
