SPECIFICATION Spec
CONSTANTS
  Payments <- OnePayment
  Amount <- OneAmount
  Invoice = 3
  Events <- LifecycleEvents
  Kind <- LifecycleKind
  PaymentOf <- LifecyclePaymentOf
  OccurredAt <- LifecycleOccurredAt
  Imported = TRUE
  Snapshots = {TRUE, FALSE}
  Recommended = {"CANCELLED"}
  Pollers = {w1, w2}
  MaxRuns = 2
  NoEvent = NoEvent
INVARIANTS SubscriptionIsNewest
SYMMETRY PollerSymmetry
CHECK_DEADLOCK FALSE
