--------------------------- MODULE MCWebhookOutbox ---------------------------
(***************************************************************************)
(* Instances of WebhookOutbox for TLC: one invoice of 3, two payments that *)
(* pay it together, and their failure and success events.                  *)
(***************************************************************************)
EXTENDS WebhookOutbox, TLC

MCPayments == {"p1", "p2"}
MCAmount == "p1" :> 1 @@ "p2" :> 2
MCPaymentOf(Es) == [e \in Es |-> IF e = "captured2" THEN "p2" ELSE "p1"]
MCKind(Es) ==
    [e \in Es |-> CASE e = "failed1" -> "FAILED"
                    [] e \in {"pending", "halted"} -> "SUBSCRIPTION"
                    [] OTHER -> "CAPTURED"]
\* The failure is reported with a later instant than the capture.
MCOccurredAt(Es) ==
    [e \in Es |-> IF e \in {"failed1", "charged1", "halted"} THEN 2 ELSE 1]

\* A payment that fails and is then captured, reported by two success events,
\* and a second payment that completes the invoice.
SafetyEvents == {"failed1", "captured1", "charged1", "captured2"}
SafetyKind == MCKind(SafetyEvents)
SafetyPaymentOf == MCPaymentOf(SafetyEvents)
SafetyOccurredAt == MCOccurredAt(SafetyEvents)

\* One payment that fails and then pays part of the invoice, and two lifecycle
\* events of its subscription, the later of which may be delivered first.
OnePayment == {"p1"}
OneAmount == "p1" :> 1
LifecycleEvents == {"failed1", "captured1", "pending", "halted"}
LifecycleKind == MCKind(LifecycleEvents)
LifecyclePaymentOf == MCPaymentOf(LifecycleEvents)
LifecycleOccurredAt == MCOccurredAt(LifecycleEvents)

PollerSymmetry == Permutations(Pollers)
=============================================================================
