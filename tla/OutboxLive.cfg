SPECIFICATION FairReconciliationSpec
CONSTANTS
  Payments <- MCPayments
  Amount <- MCAmount
  Invoice = 3
  Events <- ReconciledEvents
  Kind <- ReconciledKind
  PaymentOf <- ReconciledPaymentOf
  OccurredAt <- ReconciledOccurredAt
  Imported = FALSE
  Snapshots = {FALSE}
  Recommended = {"CANCELLED"}
  Pollers = {w1}
  MaxRuns = 2
  NoEvent = NoEvent
  Intent = Intent
  NoPayment = NoPayment
INVARIANTS ToldIsPaidUp
PROPERTIES RecognisedIsSignalled
CHECK_DEADLOCK FALSE
