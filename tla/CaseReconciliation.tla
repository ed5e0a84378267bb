-------------------------- MODULE CaseReconciliation --------------------------
(***************************************************************************)
(* WebhookOutbox together with the activity its signals lead to:           *)
(* reconcile_case (worker runtime.py) and fetch_payment_snapshot (the      *)
(* Razorpay client).  The workflow reconciles when it takes a payment      *)
(* signal, and when the customer says that the invoice is already paid.    *)
(* The activity reads the case in one session and, where the ledger does   *)
(* not answer, asks the provider outside of it: the pollers go on in       *)
(* between.  It writes nothing; what it returns decides whether the run    *)
(* ends as RECOVERED (RecoveryWorkflow).  A run takes its signals one at a *)
(* time, so one reconciliation is under way at most, and none after the    *)
(* one that tells it of the recovery.                                      *)
(*                                                                         *)
(* The invoice, the subscription and the currency of the case always       *)
(* match, so their comparisons are left out.  SettlesMore is a faulty form *)
(* of the definition that follows it.                                      *)
(***************************************************************************)
EXTENDS WebhookOutbox

CONSTANTS Intent,    \* the trigger of an ALREADY_PAID reconciliation
          NoPayment  \* the invoice names no payment

ASSUME TriggerAssumption == Intent \notin Events /\ NoPayment \notin Payments

VARIABLES
    reading,  \* the reconciliation that waits for the provider's snapshot, if any
    told      \* the recovery that the workflow was told of last, if any

reconciliationVars == <<reading, told>>
allVars == <<vars, reconciliationVars>>

Triggers == Events \cup {Intent}

----------------------------------------------------------------------------
(* reconcile_case *)

\* The recognitions that answer at once: the trigger's own, and once the case
\* has recovered any of its recognitions.
Recognitions(trigger) == {r \in ledger : outcome = "RECOVERED" \/ r.event = trigger}

\* A signed webhook names the payment that is looked up, and only a capture
\* does; the customer's word has none and asks for the invoice's own payment.
Lookup(trigger) ==
    IF trigger = Intent THEN {NoPayment}
    ELSE {PaymentOf[e] : e \in {e \in {trigger} : row[e] # "ABSENT" /\ Kind[e] = "CAPTURED"}}

Required == IF atRisk > arrears THEN atRisk - arrears ELSE 0

\* The session: a recognition answers with the case as it is; no case, and a
\* webhook that names no capture, is unreconciled; otherwise the snapshot of
\* the payment is asked for.
BeginReconciliation(trigger) ==
    /\ workflow = "RUNNING" /\ reading = {}
    /\ \A t \in told : t.run < runs
    /\ trigger \in signalled \/ trigger = Intent
    /\ outcome # "NONE"
    /\ \/ /\ Recognitions(trigger) # {}
          /\ told' = IF outcome = "RECOVERED"
                     THEN {[run |-> runs, trigger |-> trigger, collected |-> arrears]}
                     ELSE told
          /\ UNCHANGED reading
       \/ /\ Recognitions(trigger) = {}
          /\ \E p \in Lookup(trigger) :
                 reading' = {[trigger |-> trigger, payment |-> p,
                              required |-> Required, existing |-> arrears]}
          /\ UNCHANGED told
    /\ UNCHANGED vars

\* fetch_payment_snapshot: the payment that is asked for, or the one the invoice
\* names, if any, with the state it has at the provider.
SnapshotOf(payment) == IF payment # NoPayment THEN {payment} ELSE Payments \cup {NoPayment}

SettlesMore(amount, required) == amount >= required /\ required > 0
Settles(amount, required) == amount = required /\ required > 0

\* The provider answers: the case has recovered when a captured payment is
\* exactly what the session found to be missing.
FinishReconciliation(r) ==
    /\ r \in reading /\ workflow = "RUNNING"
    /\ reading' = {}
    /\ \E p \in SnapshotOf(r.payment) :
           told' = IF p \in captured /\ Settles(Amount[p], r.required)
                   THEN {[run |-> runs, trigger |-> r.trigger,
                          collected |-> r.existing + Amount[p]]}
                   ELSE told
    /\ UNCHANGED vars

\* The attempt of the activity fails, and is made again from its beginning.
ReconciliationLost(r) ==
    /\ r \in reading
    /\ reading' = {}
    /\ UNCHANGED <<vars, told>>

ReconciliationInit == Init /\ reading = {} /\ told = {}

ReconciliationNext ==
    \/ Next /\ UNCHANGED reconciliationVars
    \/ \E trigger \in Triggers : BeginReconciliation(trigger)
    \/ \E r \in reading : FinishReconciliation(r) \/ ReconciliationLost(r)

ReconciliationSpec == ReconciliationInit /\ [][ReconciliationNext]_allVars

\* The pollers are fair, while reconciliations come and go as they like.
FairReconciliationSpec == ReconciliationSpec /\ Fairness

----------------------------------------------------------------------------
(* Properties *)

\* The workflow is told of a recovery only when a payment is captured and the
\* amounts add up to exactly what was at risk, although the case is read before
\* the provider is asked and the pollers credit it in between; told on the word
\* of a webhook, the ledger itself has collected it.
ToldIsPaidUp ==
    \A t \in told :
        /\ captured # {}
        /\ t.collected = atRisk
        /\ t.trigger # Intent => arrears = atRisk
=============================================================================
