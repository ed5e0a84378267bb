---------------------------- MODULE WebhookOutbox ----------------------------
(***************************************************************************)
(* From a Razorpay webhook to the recovery workflow, for one invoice:      *)
(* RazorpayInboxRepository.persist (webhooks/repository.py),               *)
(* RazorpayOutboxProcessor.process_next (webhooks/processor.py) run by any *)
(* number of pollers, and TemporalRazorpaySignalDispatcher (worker         *)
(* outbox.py).  Transactions that lock the outbox row and the case, the    *)
(* invoice and the subscription are single steps; the dispatch between     *)
(* two commits is several.  Pollers may crash at any step, Temporal and    *)
(* the provider may fail any call, and webhooks arrive in any order.       *)
(*                                                                         *)
(* RecordFailureGivesUp, LeasePublishes, FailureAppliesByTime,             *)
(* EventAlreadyRecognised, WithinInvoice, RecordCaptureKeepsAction and     *)
(* StaleIfOlder are faulty forms of the definition that follows them, kept *)
(* to show that the properties notice.                                     *)
(***************************************************************************)
EXTENDS Integers, FiniteSetsExt

CONSTANTS Payments,    \* provider payment ids
          Amount,      \* payment -> its captured amount
          Invoice,     \* the invoice's amount_paise
          Events,      \* provider event ids
          Kind,        \* event -> "FAILED" | "CAPTURED" | "SUBSCRIPTION"
          PaymentOf,   \* event -> payment ("SUBSCRIPTION" events: any)
          OccurredAt,  \* event -> Nat
          Imported,    \* the invoice row exists before the first webhook
          Snapshots,   \* may a payment snapshot name a subscription state?
          Recommended, \* statuses the policy may give the initial action
          Pollers,
          MaxRuns,     \* bound: workflow runs Temporal starts
          NoEvent

ASSUME AmountsAssumption ==
    /\ Invoice \in Nat \ {0}
    /\ Amount \in [Payments -> Nat \ {0}]

ASSUME EventsAssumption ==
    /\ Kind \in [Events -> {"FAILED", "CAPTURED", "SUBSCRIPTION"}]
    /\ PaymentOf \in [Events -> Payments]
    /\ OccurredAt \in [Events -> Nat]
    /\ NoEvent \notin Events
    /\ Imported \in BOOLEAN /\ Snapshots \subseteq BOOLEAN /\ Snapshots # {}
    /\ Recommended \subseteq {"OPEN", "CANCELLED"}
    /\ MaxRuns \in Nat

VARIABLES
    captured,     \* payments captured at the provider (external truth)
    snapshotPaid, \* amount_paid_paise of the provider's invoice snapshot
    row,          \* outbox row per event, with its inbox entry's processed_at
    job,          \* what each poller is doing
    atRisk, arrears, outcome,  \* RecoveryCase: amounts and case_outcome
    paid,                      \* Invoice.amount_paid_paise
    attempt, attemptAt,        \* PaymentAttempt state and occurred_at
    casePayment,               \* RecoveryCase.payment_state
    ledger,                    \* revenue recognition records
    action,                    \* status of the initial action
    reconcileAuth,             \* the WAIT action and its ALLOW policy exist
    subscription,              \* the event that last wrote subscription_state
    workflow, runs, signalled  \* Temporal: execution state, runs, signals taken

moneyVars    == <<atRisk, arrears, outcome, paid, ledger>>
domainVars   == <<attempt, attemptAt, casePayment, action, reconcileAuth,
                  subscription>>
temporalVars == <<workflow, runs, signalled>>
providerVars == <<captured, snapshotPaid>>
vars == <<providerVars, row, job, moneyVars, domainVars, temporalVars>>

Rows == {"ABSENT", "READY", "HELD", "PUBLISHED"}
Steps == {"Leased", "Locked", "Signal", "Sent", "Failing"}
Idle == [step |-> "Idle", event |-> NoEvent, applied |-> FALSE]

Init ==
    /\ atRisk = 0 /\ arrears = 0 /\ outcome = "NONE"
    /\ captured = {} /\ snapshotPaid = 0
    /\ row = [e \in Events |-> "ABSENT"]
    /\ job = [p \in Pollers |-> Idle]
    /\ paid = 0
    /\ attempt = [p \in Payments |-> "NONE"] /\ attemptAt = [p \in Payments |-> 0]
    /\ casePayment = "NONE" /\ ledger = {}
    /\ action = "NONE" /\ reconcileAuth = FALSE /\ subscription = NoEvent
    /\ workflow = "NONE" /\ runs = 0 /\ signalled = {}

----------------------------------------------------------------------------
(* The provider and webhook intake. *)

ProviderCaptures(p) ==
    /\ p \notin captured
    /\ captured' = captured \cup {p}
    /\ snapshotPaid' = IF snapshotPaid + Amount[p] <= Invoice
                       THEN snapshotPaid + Amount[p] ELSE Invoice
    /\ UNCHANGED <<row, job, moneyVars, domainVars, temporalVars>>

\* persist(): the inbox entry and the outbox message in one transaction; a
\* duplicate delivery finds them and writes nothing.
Receive(e) ==
    /\ row[e] = "ABSENT"
    /\ Kind[e] = "CAPTURED" => PaymentOf[e] \in captured
    /\ row' = [row EXCEPT ![e] = "READY"]
    /\ UNCHANGED <<providerVars, job, moneyVars, domainVars, temporalVars>>

\* The lease or the retry back-off of a row runs out (available_at <= now).
HoldExpires(e) ==
    /\ row[e] = "HELD"
    /\ row' = [row EXCEPT ![e] = "READY"]
    /\ UNCHANGED <<providerVars, job, moneyVars, domainVars, temporalVars>>

----------------------------------------------------------------------------
(* Selecting a row and applying its event in one transaction. *)

\* Row locks: a dispatching poller has flushed attempt_count and keeps the
\* outbox row; a subscription-only event keeps the subscription row as well.
Holds(p, e) == job[p].event = e /\ job[p].step \in {"Locked", "Signal", "Sent"}
RowFree(e) == \A p \in Pollers : ~Holds(p, e)
SubscriptionRowFree ==
    \A p \in Pollers : job[p].event # NoEvent
        => Kind[job[p].event] # "SUBSCRIPTION" \/ job[p].step = "Failing"

Selectable(p, e) ==
    /\ job[p] = Idle
    /\ row[e] = "READY" /\ RowFree(e)
    /\ SubscriptionRowFree

\* The invoice row: imported with the subscription, or written by the first
\* failure whose transaction committed.
InvoiceKnown == Imported \/ outcome # "NONE"

\* _correlate finds the invoice's case once a failure has opened it.
CaseCorrelated == outcome # "NONE"

Failing(p, e) ==
    job' = [job EXCEPT ![p] = [step |-> "Failing", event |-> e, applied |-> FALSE]]

\* The exception path: rollback, then _record_failure in a new transaction.
ProcessingFails(p, e) ==
    /\ Selectable(p, e)
    /\ Failing(p, e)
    /\ UNCHANGED <<providerVars, row, moneyVars, domainVars, temporalVars>>

LeasePublishes(p, e, applied) ==
    /\ row' = [row EXCEPT ![e] = "PUBLISHED"]
    /\ job' = [job EXCEPT ![p] = [step |-> "Leased", event |-> e, applied |-> applied]]
    /\ UNCHANGED <<providerVars, temporalVars>>

\* Domain state and authorisation are committed, and the row leased, before
\* the external dispatch.
LeaseAndCommit(p, e, applied) ==
    /\ row' = [row EXCEPT ![e] = "HELD"]
    /\ job' = [job EXCEPT ![p] = [step |-> "Leased", event |-> e, applied |-> applied]]
    /\ UNCHANGED <<providerVars, temporalVars>>

FailureAppliesByTime(e) ==
    \/ attempt[PaymentOf[e]] = "NONE"
    \/ OccurredAt[e] >= attemptAt[PaymentOf[e]]

\* state_applied: a captured attempt and a newer one keep their state.
FailureApplies(e) ==
    \/ attempt[PaymentOf[e]] = "NONE"
    \/ attempt[PaymentOf[e]] = "FAILED" /\ OccurredAt[e] >= attemptAt[PaymentOf[e]]

\* An unknown invoice is written as the provider's snapshot describes it, with
\* whatever has been paid on it since the failure.
HydrateWebhookInvoice == paid' = IF InvoiceKnown THEN paid ELSE snapshotPaid

\* A fully paid invoice opens no case: the whole transaction fails.
CreateCaseForFailure ==
    /\ paid' < Invoice
    /\ outcome' = "OPEN" /\ atRisk' = Invoice - paid'
    /\ casePayment' = "FAILED"

\* One durable action and policy decision per case, never ranked again.
EnsureInitialRecommendation ==
    action' \in IF action = "NONE" THEN Recommended ELSE {action}

\* _apply_payment_failed with the invoice, the case and the recommendation it
\* may have to write.
ApplyFailed(p, e) ==
    LET pay == PaymentOf[e]
        applied == FailureApplies(e)
    IN  /\ Selectable(p, e) /\ Kind[e] = "FAILED"
        /\ Amount[pay] <= Invoice
        /\ HydrateWebhookInvoice
        /\ attempt' = [attempt EXCEPT ![pay] = IF applied THEN "FAILED" ELSE @]
        /\ attemptAt' = [attemptAt EXCEPT ![pay] = IF applied THEN OccurredAt[e] ELSE @]
        /\ \/ ~CaseCorrelated /\ CreateCaseForFailure
           \/ /\ CaseCorrelated
              /\ casePayment' = IF applied /\ casePayment # "CAPTURED"
                                THEN "FAILED" ELSE casePayment
              /\ UNCHANGED <<outcome, atRisk>>
        /\ EnsureInitialRecommendation
        /\ LeaseAndCommit(p, e, applied)
        /\ UNCHANGED <<arrears, ledger, reconcileAuth, subscription>>

EventAlreadyRecognised(e) == \E r \in ledger : r.event = e

AlreadyRecognised(e) ==
    \E r \in ledger : r.event = e \/ r.payment = PaymentOf[e]

WithinInvoice(amount) == amount <= Invoice

WithinArrears(amount) ==
    amount <= Invoice - paid /\ amount <= atRisk - arrears

RecordCaptureKeepsAction(e, collected) ==
    /\ attempt' = [attempt EXCEPT ![PaymentOf[e]] = "CAPTURED"]
    /\ attemptAt' = [attemptAt EXCEPT ![PaymentOf[e]] =
                         IF OccurredAt[e] >= @ THEN OccurredAt[e] ELSE @]
    /\ paid' = paid + collected
    /\ arrears' = arrears + collected
    /\ casePayment' = "CAPTURED"
    /\ outcome' = CASE arrears' >= atRisk -> "RECOVERED"
                    [] arrears' < atRisk /\ arrears' > 0 -> "PARTIALLY_RECOVERED"
                    [] OTHER -> outcome
    /\ \E known \in Snapshots : subscription' = IF known THEN e ELSE subscription
    /\ UNCHANGED <<atRisk, action>>

\* The attempt, the invoice, the case, its open actions and the subscription as
\* _apply_captured leaves them; the snapshot's subscription state may be UNKNOWN.
RecordCapture(e, collected) ==
    /\ attempt' = [attempt EXCEPT ![PaymentOf[e]] = "CAPTURED"]
    /\ attemptAt' = [attemptAt EXCEPT ![PaymentOf[e]] =
                         IF OccurredAt[e] >= @ THEN OccurredAt[e] ELSE @]
    /\ paid' = paid + collected
    /\ arrears' = arrears + collected
    /\ casePayment' = "CAPTURED"
    /\ outcome' = CASE arrears' >= atRisk -> "RECOVERED"
                    [] arrears' < atRisk /\ arrears' > 0 -> "PARTIALLY_RECOVERED"
                    [] OTHER -> outcome
    /\ action' = IF outcome' = "RECOVERED" /\ action = "OPEN" THEN "CANCELLED" ELSE action
    /\ \E known \in Snapshots : subscription' = IF known THEN e ELSE subscription
    /\ UNCHANGED atRisk

\* The WAIT action and its policy, under which a run started by a success only
\* reconciles.
EnsureReconciliationAuthorization == reconcileAuth' = TRUE

\* _apply_captured with a case to credit.
ApplyCaptured(p, e) ==
    LET pay == PaymentOf[e]
    IN  /\ Selectable(p, e) /\ Kind[e] = "CAPTURED" /\ pay \in captured
        /\ CaseCorrelated
        /\ \/ /\ ~AlreadyRecognised(e) /\ WithinArrears(Amount[pay])
              /\ ledger' = ledger \cup {[event |-> e, payment |-> pay]}
              /\ RecordCapture(e, Amount[pay])
           \/ /\ \E r \in ledger : r.event = e
              /\ RecordCapture(e, 0)
              /\ UNCHANGED ledger
        /\ EnsureReconciliationAuthorization
        /\ LeaseAndCommit(p, e, TRUE)

\* Another success event of a payment already recognised: dispatch_required is
\* false, so the transaction publishes the row without any dispatch.
ApplySecondSuccess(p, e) ==
    /\ Selectable(p, e) /\ Kind[e] = "CAPTURED" /\ PaymentOf[e] \in captured
    /\ CaseCorrelated
    /\ AlreadyRecognised(e) /\ ~\E r \in ledger : r.event = e
    /\ RecordCapture(e, 0)
    /\ row' = [row EXCEPT ![e] = "PUBLISHED"]
    /\ UNCHANGED <<providerVars, job, ledger, reconcileAuth, temporalVars>>

StaleIfOlder(e) ==
    \E f \in Events : /\ Kind[f] = "SUBSCRIPTION" /\ row[f] = "PUBLISHED"
                      /\ OccurredAt[f] < OccurredAt[e]

\* _apply_subscription_only's test for a newer event already processed.
Stale(e) ==
    \E f \in Events : /\ Kind[f] = "SUBSCRIPTION" /\ row[f] = "PUBLISHED"
                      /\ OccurredAt[f] > OccurredAt[e]

\* A lifecycle event without a case needs no dispatch; with one, its
\* transaction stays open, and its locks held, across the dispatch.
ApplySubscriptionOnly(p, e) ==
    /\ Selectable(p, e) /\ Kind[e] = "SUBSCRIPTION"
    /\ \/ /\ ~CaseCorrelated
          /\ subscription' = IF Stale(e) THEN subscription ELSE e
          /\ row' = [row EXCEPT ![e] = "PUBLISHED"]
          /\ UNCHANGED job
       \/ /\ CaseCorrelated
          /\ job' = [job EXCEPT ![p] =
                        [step |-> "Locked", event |-> e, applied |-> ~Stale(e)]]
          /\ UNCHANGED <<row, subscription>>
    /\ UNCHANGED <<providerVars, moneyVars, attempt, attemptAt, casePayment, action,
                   reconcileAuth, temporalVars>>

----------------------------------------------------------------------------
(* Dispatching: TemporalRazorpaySignalDispatcher.__call__. *)

Advance(p, step) == job' = [job EXCEPT ![p].step = step]

\* A failure that changed nothing is not dispatched; otherwise loading the
\* action flushes attempt_count, which locks the row again.
LockRow(p) ==
    /\ job[p].step = "Leased"
    /\ RowFree(job[p].event)
    /\ Advance(p, IF Kind[job[p].event] = "FAILED" /\ ~job[p].applied
                  THEN "Sent" ELSE "Locked")
    /\ UNCHANGED <<providerVars, row, moneyVars, domainVars, temporalVars>>

\* start_workflow with the case's stable id: Temporal refuses it while a run is
\* open and starts another run when the last one has closed.
StartWorkflow(p) ==
    /\ job[p].step = "Locked"
    /\ IF workflow = "RUNNING"
       THEN Advance(p, "Signal") /\ UNCHANGED <<workflow, runs>>
       ELSE /\ workflow' = "RUNNING" /\ runs' = runs + 1
            /\ Advance(p, IF Kind[job[p].event] = "FAILED" THEN "Sent" ELSE "Signal")
    /\ UNCHANGED <<providerVars, row, moneyVars, domainVars, signalled>>

SignalWorkflow(p) ==
    /\ job[p].step = "Signal"
    /\ workflow = "RUNNING"
    /\ signalled' = signalled \cup {job[p].event}
    /\ Advance(p, "Sent")
    /\ UNCHANGED <<providerVars, row, moneyVars, domainVars, workflow, runs>>

\* The workflow closed in between: Temporal refuses the signal.
SignalRefused(p) ==
    /\ job[p].step = "Signal"
    /\ workflow # "RUNNING"
    /\ Failing(p, job[p].event)
    /\ UNCHANGED <<providerVars, row, moneyVars, domainVars, temporalVars>>

\* The last commit of process_next, which also commits a lifecycle event.
Publish(p) ==
    /\ job[p].step = "Sent"
    /\ row' = [row EXCEPT ![job[p].event] = "PUBLISHED"]
    /\ job' = [job EXCEPT ![p] = Idle]
    /\ subscription' = IF Kind[job[p].event] = "SUBSCRIPTION" /\ job[p].applied
                       THEN job[p].event ELSE subscription
    /\ UNCHANGED <<providerVars, moneyVars, attempt, attemptAt, casePayment,
                   action, reconcileAuth, temporalVars>>

\* Any call of the dispatch may raise, before or after it took effect.
DispatchFails(p) ==
    /\ job[p].step \in {"Leased", "Locked", "Signal", "Sent"}
    /\ Failing(p, job[p].event)
    /\ UNCHANGED <<providerVars, row, moneyVars, domainVars, temporalVars>>

RecordFailureGivesUp(p) ==
    /\ job[p].step = "Failing"
    /\ RowFree(job[p].event)
    /\ row' = [row EXCEPT ![job[p].event] = "PUBLISHED"]
    /\ job' = [job EXCEPT ![p] = Idle]
    /\ UNCHANGED <<providerVars, moneyVars, domainVars, temporalVars>>

\* _record_failure: back off, and un-publish whatever the row said.
RecordFailure(p) ==
    /\ job[p].step = "Failing"
    /\ RowFree(job[p].event)
    /\ row' = [row EXCEPT ![job[p].event] = "HELD"]
    /\ job' = [job EXCEPT ![p] = Idle]
    /\ UNCHANGED <<providerVars, moneyVars, domainVars, temporalVars>>

----------------------------------------------------------------------------
(* The environment of the pollers. *)

\* A worker dies: its open transaction is rolled back and its locks are freed.
Crash(p) ==
    /\ job[p] # Idle
    /\ job' = [job EXCEPT ![p] = Idle]
    /\ UNCHANGED <<providerVars, row, moneyVars, domainVars, temporalVars>>

WorkflowCloses ==
    /\ workflow = "RUNNING" /\ runs < MaxRuns
    /\ workflow' = "CLOSED"
    /\ UNCHANGED <<providerVars, row, job, moneyVars, domainVars, runs, signalled>>

ActionCompletes ==
    /\ action = "OPEN"
    /\ action' = "DONE"
    /\ UNCHANGED <<providerVars, row, job, moneyVars, attempt, attemptAt,
                   casePayment, reconcileAuth, subscription, temporalVars>>

Process(p, e) ==
    \/ ApplyFailed(p, e) \/ ApplyCaptured(p, e) \/ ApplySecondSuccess(p, e)
    \/ ApplySubscriptionOnly(p, e)

Dispatch(p) ==
    \/ LockRow(p) \/ StartWorkflow(p) \/ SignalWorkflow(p) \/ SignalRefused(p)
    \/ Publish(p)

Next ==
    \/ \E p \in Payments : ProviderCaptures(p)
    \/ \E e \in Events : Receive(e) \/ HoldExpires(e)
    \/ \E p \in Pollers, e \in Events : Process(p, e) \/ ProcessingFails(p, e)
    \/ \E p \in Pollers : Dispatch(p) \/ DispatchFails(p) \/ RecordFailure(p) \/ Crash(p)
    \/ WorkflowCloses
    \/ ActionCompletes

Spec == Init /\ [][Next]_vars

\* Pollers go on with what they began, whatever event it is, and leases and
\* back-offs run out.  A step that a success event needs of the processor or of
\* Temporal, and that is possible again and again, however often it was made to
\* fail, at last succeeds.
Fairness ==
    /\ \A p \in Pollers : WF_vars(Dispatch(p)) /\ WF_vars(RecordFailure(p))
    /\ \A e \in {f \in Events : Kind[f] = "CAPTURED"} :
           /\ WF_vars(HoldExpires(e))
           /\ SF_vars(\E p \in Pollers : Process(p, e))
           /\ SF_vars(\E p \in Pollers : job[p].event = e /\ LockRow(p))
           /\ SF_vars(\E p \in Pollers : job[p].event = e /\ StartWorkflow(p))
           /\ SF_vars(\E p \in Pollers : job[p].event = e /\ SignalWorkflow(p))

----------------------------------------------------------------------------
(* Properties. *)

Job == [step : Steps, event : Events, applied : BOOLEAN] \cup {Idle}

\* Every variable has the type its column or object has in the code.
TypeOK ==
    /\ captured \subseteq Payments /\ snapshotPaid \in Nat
    /\ row \in [Events -> Rows] /\ job \in [Pollers -> Job]
    /\ atRisk \in Nat /\ arrears \in Nat /\ paid \in Nat
    /\ outcome \in {"NONE", "OPEN", "PARTIALLY_RECOVERED", "RECOVERED"}
    /\ attempt \in [Payments -> {"NONE", "FAILED", "CAPTURED"}]
    /\ attemptAt \in [Payments -> Nat]
    /\ casePayment \in {"NONE", "FAILED", "CAPTURED"}
    /\ ledger \subseteq [event : Events, payment : Payments]
    /\ action \in {"NONE", "OPEN", "CANCELLED", "DONE"} /\ reconcileAuth \in BOOLEAN
    /\ subscription \in Events \cup {NoEvent}
    /\ workflow \in {"NONE", "RUNNING", "CLOSED"} /\ runs \in Nat
    /\ signalled \subseteq Events

Collected == MapThenSumSet(LAMBDA r : Amount[r.payment], ledger)

\* However often an event or a payment's events are delivered and retried, the
\* ledger credits a payment once, the case's arrears are the ledger's total, and
\* neither the case nor the invoice is credited beyond what was outstanding when
\* the case opened (_apply_captured).
LedgerBalances ==
    /\ \A r, s \in ledger : r.payment = s.payment => r = s
    /\ arrears = Collected
    /\ arrears <= atRisk
    /\ outcome # "NONE" => paid + atRisk = Invoice + arrears

\* The case is RECOVERED exactly when all that was at risk is collected, and
\* then its payment is captured and the initial action is not open any more.
RecoveredWhenPaidUp ==
    /\ outcome = "RECOVERED" <=> outcome # "NONE" /\ arrears >= atRisk
    /\ outcome = "RECOVERED" => casePayment = "CAPTURED" /\ action # "OPEN"

\* A published success that was recognised has been signalled to a workflow run,
\* and a published failure that opened or changed the case has a run: no crash,
\* lease expiry or lost answer publishes a row whose dispatch never happened.
PublishedWasDispatched ==
    \A e \in Events : row[e] = "PUBLISHED" =>
        /\ (\E r \in ledger : r.event = e) => e \in signalled
        /\ Kind[e] = "FAILED" => runs > 0 \/ attempt[PaymentOf[e]] = "CAPTURED"
                                 \/ attemptAt[PaymentOf[e]] > OccurredAt[e]

\* Out-of-order failures cannot regress a captured payment, neither the attempt
\* nor the case (_apply_payment_failed).
CaptureNeverRegresses ==
    [][/\ casePayment = "CAPTURED" => casePayment' = "CAPTURED"
       /\ \A p \in Payments : attempt[p] = "CAPTURED" => attempt'[p] = "CAPTURED"]_vars

\* Every recognised success reaches a workflow in the end.
RecognisedIsSignalled ==
    \A e \in Events : (\E r \in ledger : r.event = e) ~> e \in signalled

\* The case's ledger, whatever the pollers do, is the abstract revenue ledger.
Ledger == INSTANCE RevenueLedger WITH recognised <- {r.payment : r \in ledger}
LedgerRefined == Ledger!LedgerSpec

\* The state that a lifecycle event gave the subscription is never older than a
\* lifecycle event that counts as processed, with any number of pollers, crashes
\* and retries: "older subscription event is published without regressing newer
\* state" (_apply_subscription_only).  What no longer counts is a newer event
\* whose row a late _record_failure has taken back.
SubscriptionIsNewest ==
    subscription # NoEvent /\ Kind[subscription] = "SUBSCRIPTION" =>
        \A e \in Events : Kind[e] = "SUBSCRIPTION" /\ row[e] = "PUBLISHED"
                              => OccurredAt[e] <= OccurredAt[subscription]
=============================================================================
