SPECIFICATION Spec
CONSTANTS
  Payments <- MCPayments
  Amount <- MCAmount
  Invoice = 3
  Events <- SafetyEvents
  Kind <- SafetyKind
  PaymentOf <- SafetyPaymentOf
  OccurredAt <- SafetyOccurredAt
  Imported = FALSE
  Snapshots = {TRUE}
  Recommended = {"OPEN"}
  Pollers = {w1, w2}
  MaxRuns = 1
  NoEvent = NoEvent
INVARIANTS
  LedgerBalances RecoveredWhenPaidUp PublishedWasDispatched
PROPERTIES CaptureNeverRegresses LedgerRefined
SYMMETRY PollerSymmetry
CHECK_DEADLOCK FALSE
