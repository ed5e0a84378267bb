------------------------ MODULE MCCaseReconciliation ------------------------
(***************************************************************************)
(* The instance of CaseReconciliation for TLC: the invoice of 3, a payment *)
(* of 1 that fails and is then captured, a payment of 2 whose webhook has  *)
(* not arrived yet but which the provider can name, and a lifecycle event  *)
(* of the subscription, signalled to the workflow as a payment event.      *)
(***************************************************************************)
EXTENDS CaseReconciliation, MCWebhookOutbox

ReconciledEvents == {"failed1", "captured1", "halted"}
ReconciledKind == MCKind(ReconciledEvents)
ReconciledPaymentOf == MCPaymentOf(ReconciledEvents)
ReconciledOccurredAt == MCOccurredAt(ReconciledEvents)
=============================================================================
