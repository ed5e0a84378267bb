------------------------ MODULE WebhookOutboxProofs ------------------------
(***************************************************************************)
(* Theorems about WebhookOutbox for any number of payments, events and     *)
(* pollers, any amounts, and any number of crashes and workflow runs.      *)
(***************************************************************************)
EXTENDS WebhookOutbox, FiniteSetTheorems, TLAPS

----------------------------------------------------------------------------
(* Type correctness. *)

\* Whether a failure applies is a truth value.
LEMMA FailureAppliesType == \A e : FailureApplies(e) \in BOOLEAN
BY Zenon DEF FailureApplies

\* Whether a lifecycle event is stale is a truth value.
LEMMA StaleType == \A e : (~Stale(e)) \in BOOLEAN
BY Zenon DEF Stale

\* A poller that takes or drops an event still has a well-typed job.
LEMMA JobType ==
    ASSUME TypeOK, NEW p \in Pollers, NEW s \in Steps, NEW e \in Events,
           NEW b \in BOOLEAN,
           job' = [job EXCEPT ![p] = [step |-> s, event |-> e, applied |-> b]]
    PROVE  job' \in [Pollers -> Job]
<1>1. [step |-> s, event |-> e, applied |-> b] \in Job
  BY DEF Job
<1> QED BY <1>1 DEF TypeOK

\* A poller at a step works on an event.
LEMMA BusyType ==
    ASSUME TypeOK, NEW p \in Pollers, job[p].step \in Steps
    PROVE  /\ job[p] \in [step : Steps, event : Events, applied : BOOLEAN]
           /\ job[p].event \in Events /\ job[p].applied \in BOOLEAN
<1>1. Idle.step \notin Steps
  BY DEF Idle, Steps
<1>2. job[p] \in Job /\ job[p] # Idle
  BY <1>1 DEF TypeOK
<1> QED BY <1>2 DEF Job

\* A poller that goes on to the next step of its dispatch has a well-typed job.
LEMMA AdvanceType ==
    ASSUME TypeOK, NEW p \in Pollers, NEW s \in Steps, job[p].step \in Steps,
           Advance(p, s)
    PROVE  job' \in [Pollers -> Job]
<1>1. job[p] \in [step : Steps, event : Events, applied : BOOLEAN]
  BY BusyType
<1>2. job' = [job EXCEPT ![p] = [job[p] EXCEPT !.step = s]]
  BY DEF Advance, TypeOK
<1>3. [job[p] EXCEPT !.step = s] \in Job
  BY <1>1 DEF Job
<1> QED BY <1>2, <1>3 DEF TypeOK

\* So has one that failed, crashed or finished.
LEMMA DropType ==
    ASSUME TypeOK, NEW p \in Pollers, job' = [job EXCEPT ![p] = Idle]
    PROVE  job' \in [Pollers -> Job]
<1>1. Idle \in Job
  BY DEF Job
<1> QED BY <1>1 DEF TypeOK

\* Recording a capture keeps the amounts and the states well typed.
LEMMA RecordCaptureType ==
    ASSUME TypeOK, NEW e \in Events, NEW c \in Nat, RecordCapture(e, c)
    PROVE  /\ attempt' \in [Payments -> {"NONE", "FAILED", "CAPTURED"}]
           /\ attemptAt' \in [Payments -> Nat]
           /\ paid' \in Nat /\ arrears' \in Nat /\ atRisk' \in Nat
           /\ outcome' \in {"NONE", "OPEN", "PARTIALLY_RECOVERED", "RECOVERED"}
           /\ casePayment' \in {"NONE", "FAILED", "CAPTURED"}
           /\ action' \in {"NONE", "OPEN", "CANCELLED", "DONE"}
           /\ subscription' \in Events \cup {NoEvent}
<1> USE EventsAssumption DEF TypeOK
<1>1. attempt' \in [Payments -> {"NONE", "FAILED", "CAPTURED"}]
  BY DEF RecordCapture
<1>2. attemptAt' \in [Payments -> Nat]
  BY DEF RecordCapture
<1>3. paid' \in Nat /\ arrears' \in Nat /\ atRisk' \in Nat
  BY DEF RecordCapture
<1>4. outcome' \in {"NONE", "OPEN", "PARTIALLY_RECOVERED", "RECOVERED"}
  BY <1>3 DEF RecordCapture
<1>5. /\ casePayment' \in {"NONE", "FAILED", "CAPTURED"}
      /\ action' \in {"NONE", "OPEN", "CANCELLED", "DONE"}
  BY DEF RecordCapture
<1>6. subscription' \in Events \cup {NoEvent}
  BY DEF RecordCapture
<1> QED BY <1>1, <1>2, <1>3, <1>4, <1>5, <1>6

\* Applying a failure keeps everything it writes well typed.
LEMMA ApplyFailedType ==
    ASSUME TypeOK, NEW p \in Pollers, NEW e \in Events, ApplyFailed(p, e)
    PROVE  TypeOK'
<1> USE AmountsAssumption, EventsAssumption
<1>1. /\ UNCHANGED <<arrears, ledger, reconcileAuth, subscription>>
      /\ LeaseAndCommit(p, e, FailureApplies(e))
  BY DEF ApplyFailed
<1>2. job' \in [Pollers -> Job] /\ row' \in [Events -> Rows]
  BY <1>1, JobType, FailureAppliesType DEF LeaseAndCommit, TypeOK, Rows, Steps
<1>3. paid' \in Nat /\ atRisk' \in Nat
  <2>1. paid' \in Nat
    BY DEF ApplyFailed, HydrateWebhookInvoice, TypeOK
  <2> QED BY <2>1 DEF ApplyFailed, CreateCaseForFailure, TypeOK
<1>4. attempt' \in [Payments -> {"NONE", "FAILED", "CAPTURED"}]
  BY DEF ApplyFailed, TypeOK
<1>5. attemptAt' \in [Payments -> Nat]
  BY DEF ApplyFailed, TypeOK
<1>6. /\ outcome' \in {"NONE", "OPEN", "PARTIALLY_RECOVERED", "RECOVERED"}
      /\ casePayment' \in {"NONE", "FAILED", "CAPTURED"}
      /\ action' \in {"NONE", "OPEN", "CANCELLED", "DONE"}
  BY DEF ApplyFailed, CreateCaseForFailure, EnsureInitialRecommendation, TypeOK
<1> QED BY <1>1, <1>2, <1>3, <1>4, <1>5, <1>6
        DEF TypeOK, LeaseAndCommit, temporalVars, providerVars

\* So does applying a capture.
LEMMA ApplyCapturedType ==
    ASSUME TypeOK, NEW p \in Pollers, NEW e \in Events, ApplyCaptured(p, e)
    PROVE  TypeOK'
<1> USE AmountsAssumption, EventsAssumption
<1>1. LeaseAndCommit(p, e, TRUE) /\ reconcileAuth' = TRUE
  BY DEF ApplyCaptured, EnsureReconciliationAuthorization
<1>2. job' \in [Pollers -> Job] /\ row' \in [Events -> Rows]
  BY <1>1, JobType DEF LeaseAndCommit, TypeOK, Rows, Steps
<1>3. PICK c \in Nat : RecordCapture(e, c)
  BY DEF ApplyCaptured
<1>4. ledger' \subseteq [event : Events, payment : Payments]
  BY DEF ApplyCaptured, TypeOK
<1> QED BY <1>1, <1>2, <1>3, <1>4, RecordCaptureType
        DEF TypeOK, LeaseAndCommit, temporalVars, providerVars

\* Every action keeps every variable in its type.
LEMMA TypeInductive == TypeOK /\ [Next]_vars => TypeOK'
<1> SUFFICES ASSUME TypeOK, [Next]_vars PROVE TypeOK'
  OBVIOUS
<1> USE AmountsAssumption, EventsAssumption
        DEF providerVars, moneyVars, domainVars, temporalVars
<1>1. ASSUME NEW p \in Payments, ProviderCaptures(p) PROVE TypeOK'
  <2>1. snapshotPaid' \in Nat /\ captured' \subseteq Payments
    BY <1>1 DEF ProviderCaptures, TypeOK
  <2> QED BY <1>1, <2>1 DEF ProviderCaptures, TypeOK
<1>2. ASSUME NEW e \in Events, Receive(e) \/ HoldExpires(e) PROVE TypeOK'
  BY <1>2 DEF Receive, HoldExpires, TypeOK, Rows
<1>3. ASSUME NEW p \in Pollers, NEW e \in Events, Process(p, e) PROVE TypeOK'
  <2>1. CASE ApplySecondSuccess(p, e)
    <3>1. RecordCapture(e, 0) /\ 0 \in Nat
      BY <2>1 DEF ApplySecondSuccess
    <3> QED BY <2>1, <3>1, RecordCaptureType DEF ApplySecondSuccess, TypeOK, Rows
  <2>2. CASE ApplySubscriptionOnly(p, e)
    <3>1. UNCHANGED job \/ job' \in [Pollers -> Job]
      BY <2>2, JobType, StaleType DEF ApplySubscriptionOnly, Steps
    <3>2. row' \in [Events -> Rows] /\ subscription' \in Events \cup {NoEvent}
      BY <2>2 DEF ApplySubscriptionOnly, TypeOK, Rows
    <3> QED BY <2>2, <3>1, <3>2 DEF ApplySubscriptionOnly, TypeOK
  <2> QED BY <1>3, <2>1, <2>2, ApplyFailedType, ApplyCapturedType DEF Process
<1>4. ASSUME NEW p \in Pollers, NEW e \in Events, Failing(p, e)
      PROVE  job' \in [Pollers -> Job]
  BY <1>4, JobType DEF Failing, Steps
<1>5. ASSUME NEW p \in Pollers, NEW e \in Events, ProcessingFails(p, e) PROVE TypeOK'
  BY <1>4, <1>5 DEF ProcessingFails, TypeOK
<1>6. ASSUME NEW p \in Pollers, Dispatch(p) PROVE TypeOK'
  <2>1. CASE LockRow(p)
    <3>1. job' \in [Pollers -> Job]
      BY <2>1, AdvanceType DEF LockRow, Steps
    <3> QED BY <2>1, <3>1 DEF LockRow, TypeOK
  <2>2. CASE StartWorkflow(p)
    <3>1. job' \in [Pollers -> Job]
      BY <2>2, AdvanceType DEF StartWorkflow, Steps
    <3>2. runs' \in Nat /\ workflow' \in {"NONE", "RUNNING", "CLOSED"}
      BY <2>2 DEF StartWorkflow, TypeOK
    <3> QED BY <2>2, <3>1, <3>2 DEF StartWorkflow, TypeOK
  <2>3. CASE SignalWorkflow(p)
    <3>1. job' \in [Pollers -> Job] /\ job[p].event \in Events
      BY <2>3, AdvanceType, BusyType DEF SignalWorkflow, Steps
    <3> QED BY <2>3, <3>1 DEF SignalWorkflow, TypeOK
  <2>4. CASE SignalRefused(p)
    <3>1. job' \in [Pollers -> Job]
      BY <1>4, <2>4, BusyType DEF SignalRefused, Steps
    <3> QED BY <2>4, <3>1 DEF SignalRefused, TypeOK
  <2>5. CASE Publish(p)
    <3>1. job' \in [Pollers -> Job] /\ job[p].event \in Events
      BY <2>5, DropType, BusyType DEF Publish, Steps
    <3> QED BY <2>5, <3>1 DEF Publish, TypeOK, Rows
  <2> QED BY <1>6, <2>1, <2>2, <2>3, <2>4, <2>5 DEF Dispatch
<1>7. ASSUME NEW p \in Pollers, DispatchFails(p) PROVE TypeOK'
  <2>1. job' \in [Pollers -> Job]
    BY <1>4, <1>7, BusyType DEF DispatchFails, Steps
  <2> QED BY <1>7, <2>1 DEF DispatchFails, TypeOK
<1>8. ASSUME NEW p \in Pollers, RecordFailure(p) PROVE TypeOK'
  <2>1. job' \in [Pollers -> Job]
    BY <1>8, DropType DEF RecordFailure
  <2> QED BY <1>8, <2>1 DEF RecordFailure, TypeOK, Rows
<1>9. ASSUME NEW p \in Pollers, Crash(p) PROVE TypeOK'
  <2>1. job' \in [Pollers -> Job]
    BY <1>9, DropType DEF Crash
  <2> QED BY <1>9, <2>1 DEF Crash, TypeOK
<1>10. CASE WorkflowCloses
  BY <1>10 DEF WorkflowCloses, TypeOK
<1>11. CASE ActionCompletes
  BY <1>11 DEF ActionCompletes, TypeOK
<1>12. CASE UNCHANGED vars
  BY <1>12 DEF vars, TypeOK
<1> QED BY <1>1, <1>2, <1>3, <1>5, <1>6, <1>7, <1>8, <1>9, <1>10, <1>11, <1>12 DEF Next

\* Rows, jobs, amounts and states keep their types, whatever order webhooks
\* arrive in and however often pollers fail.
THEOREM TypeCorrect == Spec => []TypeOK
<1>1. Init => TypeOK
  <2> SUFFICES ASSUME Init PROVE TypeOK
    OBVIOUS
  <2>1. /\ atRisk \in Nat /\ arrears \in Nat /\ paid \in Nat /\ snapshotPaid \in Nat
        /\ runs \in Nat /\ attemptAt \in [Payments -> Nat]
    BY DEF Init
  <2> QED BY <2>1 DEF Init, TypeOK, Job, Rows
<1> QED BY <1>1, TypeInductive, PTL DEF Spec

----------------------------------------------------------------------------
(* Money: the case's ledger. *)

\* The amounts, the outcome and the ledger of the case agree with each other.
\* RecoveredWhenPaidUp alone is not inductive: that a repeated success event
\* leaves the outcome alone rests on what every outcome says of the arrears.
LedgerInv ==
    /\ outcome = "NONE" => /\ atRisk = 0 /\ arrears = 0 /\ ledger = {}
                           /\ casePayment = "NONE" /\ action = "NONE"
    /\ outcome # "NONE" => /\ atRisk > 0 /\ action # "NONE"
                           /\ paid + atRisk = Invoice + arrears
    /\ outcome = "OPEN" => arrears = 0
    /\ outcome = "PARTIALLY_RECOVERED" => 0 < arrears /\ arrears < atRisk
    /\ outcome = "RECOVERED" => arrears = atRisk
    /\ outcome = "RECOVERED" => casePayment = "CAPTURED" /\ action # "OPEN"
    /\ \A r, s \in ledger : r.payment = s.payment => r = s

\* The variables LedgerInv speaks of.
caseVars == <<moneyVars, casePayment, action>>

\* A step that leaves them alone keeps LedgerInv.
LEMMA LedgerInvFrame ==
    ASSUME LedgerInv, UNCHANGED caseVars
    PROVE  LedgerInv'
BY DEF LedgerInv, caseVars, moneyVars

\* A success event that collects nothing new leaves outcome and amounts alone.
LEMMA RepeatedCapture ==
    ASSUME TypeOK, LedgerInv, NEW e \in Events, RecordCapture(e, 0), outcome # "NONE"
    PROVE  /\ UNCHANGED <<atRisk, arrears, paid, outcome>>
           /\ casePayment' = "CAPTURED"
           /\ action' # "NONE" /\ (outcome' = "RECOVERED" => action' # "OPEN")
<1>1. UNCHANGED <<atRisk, arrears, paid>>
  BY DEF RecordCapture, TypeOK
<1>2. UNCHANGED outcome
  BY <1>1 DEF RecordCapture, TypeOK, LedgerInv
<1> QED BY <1>1, <1>2 DEF RecordCapture, LedgerInv

\* A recognised capture within the arrears moves the case to the outcome its
\* new arrears call for.
LEMMA RecognisedCapture ==
    ASSUME TypeOK, LedgerInv, NEW e \in Events, NEW c \in Nat \ {0},
           RecordCapture(e, c), WithinArrears(c), outcome # "NONE"
    PROVE  /\ atRisk' = atRisk /\ arrears' = arrears + c /\ paid' = paid + c
           /\ arrears' <= atRisk
           /\ outcome' = IF arrears' = atRisk THEN "RECOVERED" ELSE "PARTIALLY_RECOVERED"
           /\ casePayment' = "CAPTURED"
           /\ action' # "NONE" /\ (outcome' = "RECOVERED" => action' # "OPEN")
<1> USE AmountsAssumption DEF TypeOK
<1>1. /\ atRisk' = atRisk /\ arrears' = arrears + c /\ paid' = paid + c
      /\ arrears' <= atRisk /\ arrears' \in Nat /\ arrears' > 0
  BY DEF RecordCapture, WithinArrears
<1>2. outcome' = IF arrears' = atRisk THEN "RECOVERED" ELSE "PARTIALLY_RECOVERED"
  BY <1>1 DEF RecordCapture
<1> QED BY <1>1, <1>2 DEF RecordCapture, LedgerInv

\* What an invoice has outstanding, and what that adds up to with what is paid.
LEMMA Outstanding ==
    \A q \in Nat : q < Invoice => Invoice - q \in 1..Invoice
                                  /\ q + (Invoice - q) = Invoice + 0
BY AmountsAssumption

\* Applying a failure opens the case or leaves its amounts alone.
LEMMA ApplyFailedLedger ==
    ASSUME TypeOK, LedgerInv, NEW p \in Pollers, NEW e \in Events, ApplyFailed(p, e)
    PROVE  /\ LedgerInv'
           /\ \/ UNCHANGED <<atRisk, arrears, ledger, outcome>>
              \/ /\ outcome = "NONE" /\ outcome' = "OPEN"
                 /\ atRisk' \in 1..Invoice
                 /\ UNCHANGED <<arrears, ledger>>
<1> USE AmountsAssumption, EventsAssumption
<1>1. UNCHANGED <<arrears, ledger>>
  BY DEF ApplyFailed
<1>2. CASE outcome = "NONE"
  <2>1. /\ outcome' = "OPEN" /\ casePayment' = "FAILED"
        /\ action' \in {"OPEN", "CANCELLED"}
    BY <1>2 DEF ApplyFailed, CaseCorrelated, CreateCaseForFailure,
                EnsureInitialRecommendation, LedgerInv
  <2>2. paid' \in Nat /\ paid' < Invoice /\ atRisk' = Invoice - paid'
    BY <1>2 DEF ApplyFailed, CaseCorrelated, CreateCaseForFailure,
                HydrateWebhookInvoice, TypeOK
  <2>3. arrears' = 0 /\ ledger' = {}
    BY <1>1, <1>2 DEF LedgerInv
  <2>4. atRisk' \in 1..Invoice /\ paid' + atRisk' = Invoice + arrears'
    BY <2>2, <2>3, Outstanding
  <2>5. LedgerInv'
    BY <2>1, <2>3, <2>4 DEF LedgerInv
  <2> QED BY <1>1, <1>2, <2>1, <2>4, <2>5
<1>3. CASE outcome # "NONE"
  <2>1. /\ UNCHANGED <<outcome, atRisk, paid, action>>
        /\ casePayment = "CAPTURED" => casePayment' = "CAPTURED"
    BY <1>3 DEF ApplyFailed, CaseCorrelated, HydrateWebhookInvoice,
                EnsureInitialRecommendation, InvoiceKnown, LedgerInv
  <2> QED BY <1>1, <1>3, <2>1 DEF LedgerInv
<1> QED BY <1>2, <1>3

\* Applying a capture recognises its payment, for the first time and within the
\* arrears, or leaves the ledger and the amounts alone.
LEMMA ApplyCapturedLedger ==
    ASSUME TypeOK, LedgerInv, NEW p \in Pollers, NEW e \in Events,
           ApplyCaptured(p, e) \/ ApplySecondSuccess(p, e)
    PROVE  /\ LedgerInv'
           /\ \/ UNCHANGED <<atRisk, arrears, ledger, outcome>>
              \/ /\ outcome # "NONE" /\ WithinArrears(Amount[PaymentOf[e]])
                 /\ ~AlreadyRecognised(e)
                 /\ ledger' = ledger \cup {[event |-> e, payment |-> PaymentOf[e]]}
                 /\ atRisk' = atRisk /\ arrears' = arrears + Amount[PaymentOf[e]]
                 /\ outcome' = IF arrears' = atRisk THEN "RECOVERED"
                                                    ELSE "PARTIALLY_RECOVERED"
<1> USE AmountsAssumption, EventsAssumption
<1>1. outcome # "NONE"
  BY DEF ApplyCaptured, CaseCorrelated, ApplySecondSuccess
<1>2. CASE RecordCapture(e, 0) /\ UNCHANGED ledger
  BY <1>1, <1>2, RepeatedCapture DEF LedgerInv
<1>3. CASE /\ ~AlreadyRecognised(e) /\ WithinArrears(Amount[PaymentOf[e]])
           /\ ledger' = ledger \cup {[event |-> e, payment |-> PaymentOf[e]]}
           /\ RecordCapture(e, Amount[PaymentOf[e]])
  <2> DEFINE c == Amount[PaymentOf[e]]
  <2>1. c \in Nat \ {0}
    OBVIOUS
  <2>2. /\ atRisk' = atRisk /\ arrears' = arrears + c /\ paid' = paid + c
        /\ arrears' <= atRisk
        /\ outcome' = IF arrears' = atRisk THEN "RECOVERED" ELSE "PARTIALLY_RECOVERED"
        /\ casePayment' = "CAPTURED"
        /\ action' # "NONE" /\ (outcome' = "RECOVERED" => action' # "OPEN")
    BY <1>1, <1>3, <2>1, RecognisedCapture
  <2>3. \A r, s \in ledger' : r.payment = s.payment => r = s
    BY <1>3 DEF LedgerInv, AlreadyRecognised
  <2>4. paid' + atRisk' = Invoice + arrears' /\ arrears' > 0 /\ atRisk' > 0
    BY <1>1, <2>1, <2>2 DEF LedgerInv, TypeOK
  <2>5. arrears' \in Nat /\ atRisk' \in Nat
    BY <2>1, <2>2 DEF TypeOK
  <2>6. LedgerInv'
    BY <2>2, <2>3, <2>4, <2>5 DEF LedgerInv
  <2> QED BY <1>1, <1>3, <2>2, <2>6
<1> QED BY <1>2, <1>3 DEF ApplyCaptured, ApplySecondSuccess

\* Only applying a failure or a capture, and the action's own completion, touch
\* what LedgerInv speaks of.
LEMMA OtherSteps ==
    ASSUME TypeOK, [Next]_vars,
           \A p \in Pollers, e \in Events :
               ~(ApplyFailed(p, e) \/ ApplyCaptured(p, e) \/ ApplySecondSuccess(p, e))
    PROVE  UNCHANGED <<moneyVars, attempt, casePayment>> /\ (UNCHANGED action \/ ActionCompletes)
<1> USE DEF domainVars
<1>1. CASE \E p \in Payments : ProviderCaptures(p)
  BY <1>1 DEF ProviderCaptures
<1>2. CASE \E e \in Events : Receive(e) \/ HoldExpires(e)
  BY <1>2 DEF Receive, HoldExpires
<1>3. CASE \E p \in Pollers, e \in Events : Process(p, e) \/ ProcessingFails(p, e)
  BY <1>3 DEF Process, ProcessingFails, ApplySubscriptionOnly
<1>4. CASE \E p \in Pollers : \/ Dispatch(p) \/ DispatchFails(p) \/ RecordFailure(p)
                             \/ Crash(p)
  BY <1>4 DEF Dispatch, DispatchFails, RecordFailure, Crash, LockRow, StartWorkflow,
              SignalWorkflow, SignalRefused, Publish
<1>5. CASE WorkflowCloses
  BY <1>5 DEF WorkflowCloses
<1>6. CASE ActionCompletes
  BY <1>6 DEF ActionCompletes
<1>7. CASE UNCHANGED vars
  BY <1>7 DEF vars
<1> QED BY <1>1, <1>2, <1>3, <1>4, <1>5, <1>6, <1>7 DEF Next

\* Every action preserves LedgerInv.
LEMMA LedgerInductive == TypeOK /\ LedgerInv /\ [Next]_vars => LedgerInv'
<1> SUFFICES ASSUME TypeOK, LedgerInv, [Next]_vars PROVE LedgerInv'
  OBVIOUS
<1>1. CASE \E p \in Pollers, e \in Events :
               ApplyFailed(p, e) \/ ApplyCaptured(p, e) \/ ApplySecondSuccess(p, e)
  BY <1>1, ApplyFailedLedger, ApplyCapturedLedger
<1>2. CASE \A p \in Pollers, e \in Events :
               ~(ApplyFailed(p, e) \/ ApplyCaptured(p, e) \/ ApplySecondSuccess(p, e))
  <2>1. UNCHANGED <<moneyVars, casePayment>> /\ (UNCHANGED action \/ ActionCompletes)
    BY <1>2, OtherSteps
  <2>2. CASE UNCHANGED action
    BY <2>1, <2>2, LedgerInvFrame DEF caseVars
  <2>3. CASE ActionCompletes
    BY <2>1, <2>3 DEF ActionCompletes, moneyVars, LedgerInv
  <2> QED BY <2>1, <2>2, <2>3
<1> QED BY <1>1, <1>2

\* LedgerInv holds in every state: the ledger, the case and the invoice agree
\* whatever the pollers, the provider and Temporal do.
LEMMA LedgerInvariant == Spec => []LedgerInv
<1>1. Init => LedgerInv
  BY DEF Init, LedgerInv
<1> QED BY <1>1, LedgerInductive, TypeCorrect, PTL DEF Spec

\* The case is RECOVERED exactly when all that was at risk is collected, its
\* payment is then captured and its initial action no longer open
\* (_apply_captured).
THEOREM RecoveredExactlyWhenPaidUp == Spec => []RecoveredWhenPaidUp
<1>1. TypeOK /\ LedgerInv => RecoveredWhenPaidUp
  BY DEF TypeOK, LedgerInv, RecoveredWhenPaidUp
<1> QED BY <1>1, LedgerInvariant, TypeCorrect, PTL

\* No failure event, however late or often retried, makes a captured payment or
\* the case's captured state FAILED again (_apply_payment_failed).
THEOREM CapturesAreFinal == Spec => CaptureNeverRegresses
<1> DEFINE Keeps == /\ casePayment = "CAPTURED" => casePayment' = "CAPTURED"
                    /\ \A p \in Payments : attempt[p] = "CAPTURED" => attempt'[p] = "CAPTURED"
<1>1. TypeOK /\ LedgerInv /\ [Next]_vars => [Keeps]_vars
  <2> SUFFICES ASSUME TypeOK, LedgerInv, [Next]_vars PROVE Keeps
    OBVIOUS
  <2> USE EventsAssumption
  <2>1. ASSUME NEW p \in Pollers, NEW e \in Events, ApplyFailed(p, e) PROVE Keeps
    <3>1. casePayment = "CAPTURED" => casePayment' = "CAPTURED"
      BY <2>1 DEF ApplyFailed, CaseCorrelated, LedgerInv
    <3>2. \A q \in Payments : attempt[q] = "CAPTURED" => attempt'[q] = "CAPTURED"
      BY <2>1 DEF ApplyFailed, FailureApplies, TypeOK
    <3> QED BY <3>1, <3>2
  <2>2. ASSUME NEW p \in Pollers, NEW e \in Events,
               ApplyCaptured(p, e) \/ ApplySecondSuccess(p, e)
        PROVE  Keeps
    BY <2>2 DEF ApplyCaptured, ApplySecondSuccess, RecordCapture, TypeOK
  <2>3. CASE \A p \in Pollers, e \in Events :
                 ~(ApplyFailed(p, e) \/ ApplyCaptured(p, e) \/ ApplySecondSuccess(p, e))
    BY <2>3, OtherSteps
  <2> QED BY <2>1, <2>2, <2>3
<1> QED BY <1>1, LedgerInvariant, TypeCorrect, PTL DEF Spec, CaptureNeverRegresses

\* Every step is one of the abstract ledger, or leaves it alone.
LEMMA LedgerStep ==
    ASSUME TypeOK, LedgerInv, [Next]_vars
    PROVE  Ledger!LedgerNext \/ UNCHANGED Ledger!ledgerVars
<1> USE AmountsAssumption, EventsAssumption
<1>1. CASE UNCHANGED <<atRisk, arrears, ledger, outcome>>
  BY <1>1 DEF Ledger!ledgerVars
<1>2. ASSUME NEW p \in Pollers, NEW e \in Events, ApplyFailed(p, e),
             outcome = "NONE", outcome' = "OPEN", atRisk' \in 1..Invoice,
             UNCHANGED <<arrears, ledger>>
      PROVE  Ledger!LedgerNext
  BY <1>2 DEF Ledger!LedgerNext, Ledger!OpenCase
<1>3. ASSUME NEW e \in Events, outcome # "NONE",
             WithinArrears(Amount[PaymentOf[e]]), ~AlreadyRecognised(e),
             ledger' = ledger \cup {[event |-> e, payment |-> PaymentOf[e]]},
             atRisk' = atRisk, arrears' = arrears + Amount[PaymentOf[e]],
             outcome' = IF arrears' = atRisk THEN "RECOVERED" ELSE "PARTIALLY_RECOVERED"
      PROVE  Ledger!LedgerNext
  <2> DEFINE pay == PaymentOf[e]
             Recognised == {r.payment : r \in ledger}
  <2>1. pay \in Payments /\ pay \notin Recognised
    BY <1>3 DEF AlreadyRecognised
  <2>2. {r.payment : r \in ledger'} = Recognised \cup {pay}
    <3> DEFINE new == [event |-> e, payment |-> pay]
    <3>1. new.payment = pay /\ ledger' = ledger \cup {new}
      BY <1>3
    <3> HIDE DEF new
    <3> QED BY <3>1
  <2>3. arrears + Amount[pay] <= atRisk
    BY <1>3 DEF WithinArrears, TypeOK
  <2>4. Ledger!Recognise(pay)
    BY <1>3, <2>1, <2>2, <2>3 DEF Ledger!Recognise
  <2> QED BY <2>1, <2>4 DEF Ledger!LedgerNext
<1>4. CASE \A p \in Pollers, e \in Events :
               ~(ApplyFailed(p, e) \/ ApplyCaptured(p, e) \/ ApplySecondSuccess(p, e))
  BY <1>1, <1>4, OtherSteps DEF moneyVars
<1> QED BY <1>1, <1>2, <1>3, <1>4, ApplyFailedLedger, ApplyCapturedLedger

\* Whatever the pollers, their crashes and the provider do, the case's ledger is
\* the abstract one: every payment recognised once, within what was at risk.
THEOREM LedgerImplementsRevenueLedger == Spec => LedgerRefined
<1>1. Init => Ledger!LedgerInit
  BY DEF Init, Ledger!LedgerInit
<1>2. TypeOK /\ LedgerInv /\ [Next]_vars => [Ledger!LedgerNext]_(Ledger!ledgerVars)
  BY LedgerStep
<1> QED BY <1>1, <1>2, LedgerInvariant, TypeCorrect, PTL
        DEF Spec, LedgerRefined, Ledger!LedgerSpec

----------------------------------------------------------------------------
(* Sums.  Collected folds the ledger in an order that CHOOSE picks.  What it *)
(* comes to grows by a payment's amount when its recognition is added: by    *)
(* induction on the number of elements, over a set of numbers, because the   *)
(* library's induction theorems take a predicate the provers cannot use.     *)

\* Induction over the naturals, for a set of them.
LEMMA NatSetInduction ==
    ASSUME NEW P, 0 \in P, \A n \in Nat : n \in P => n + 1 \in P
    PROVE  Nat \subseteq P
<1> DEFINE T == Nat \ P
<1> SUFFICES ASSUME T # {} PROVE FALSE
  OBVIOUS
<1>1. PICK x \in T : \A y \in T : ~(<<y, x>> \in OpToRel(<, Nat))
  <2>1. T \subseteq Nat
    OBVIOUS
  <2> HIDE DEF T
  <2> QED BY <2>1, WFMin, NatLessThanWellFounded, Zenon
<1>2. x # 0 /\ x - 1 \in Nat
  OBVIOUS
<1>3. x - 1 \in T
  BY <1>2
<1>4. <<x - 1, x>> \in OpToRel(<, Nat)
  BY <1>2 DEF OpToRel
<1> QED BY <1>1, <1>3, <1>4, Zenon

\* The element that the sum of a set takes first, and what it adds.
First(s) == CHOOSE r \in s : TRUE
Value(r) == Amount[r.payment]

\* g adds up every set of D, which holds what is left of a set as well.
Adds(g, D) ==
    g = [s \in D |-> IF s = {} THEN 0 ELSE Value(First(s)) + g[s \ {First(s)}]]

\* The sets of at most n elements of S.
UpTo(n, S) == {s \in SUBSET S : Cardinality(s) <= n}

\* What a sum is, for a set that it adds up.
LEMMA AddsUp ==
    ASSUME NEW g, NEW D, Adds(g, D)
    PROVE  /\ {} \in D => g[{}] = 0
           /\ \A s \in D : s # {} => /\ First(s) \in s
                                     /\ g[s] = Value(First(s)) + g[s \ {First(s)}]
BY DEF Adds, First

\* Taking an element away.
LEMMA Smaller ==
    ASSUME NEW S, IsFiniteSet(S), NEW s \in SUBSET S, NEW r \in s
    PROVE  /\ IsFiniteSet(s) /\ s \ {r} \in SUBSET S
           /\ Cardinality(s) \in Nat /\ Cardinality(s) # 0
           /\ Cardinality(s \ {r}) = Cardinality(s) - 1
<1>1. IsFiniteSet(s) BY FS_Subset
<1>2. Cardinality(s) \in Nat /\ (Cardinality(s) = 0 <=> s = {})
  BY <1>1, FS_CardinalityType, FS_EmptySet
<1>3. Cardinality(s \ {r}) = Cardinality(s) - 1
  BY <1>1, FS_RemoveElement
<1> QED BY <1>1, <1>2, <1>3

\* A finite set has its sums: those of the sets of at most n elements exist for
\* every n.
LEMMA SumsExist ==
    ASSUME NEW S, IsFiniteSet(S)
    PROVE  \E g : Adds(g, SUBSET S)
<1> DEFINE P == {n \in Nat : \E g : Adds(g, UpTo(n, S))}
<1>1. 0 \in P
  <2>1. UpTo(0, S) = {{}}
    <3>1. {} \in UpTo(0, S)
      <4>1. Cardinality({}) <= 0
        BY FS_EmptySet
      <4> QED BY <4>1 DEF UpTo
    <3>2. ASSUME NEW s \in UpTo(0, S), s # {} PROVE FALSE
      <4>1. PICK r : r \in s
        BY <3>2
      <4>2. s \in SUBSET S /\ Cardinality(s) <= 0
        BY DEF UpTo
      <4>3. Cardinality(s) \in Nat /\ Cardinality(s) # 0
        BY <4>1, <4>2, Smaller
      <4> QED BY <4>2, <4>3
    <3> QED BY <3>1, <3>2
  <2>2. Adds([s \in {{}} |-> 0], {{}})
    BY DEF Adds
  <2> QED BY <2>1, <2>2
<1>2. ASSUME NEW n \in Nat, n \in P PROVE n + 1 \in P
  <2>1. PICK g : Adds(g, UpTo(n, S))
    BY <1>2
  <2> DEFINE h == [s \in UpTo(n + 1, S) |->
                      IF s = {} THEN 0 ELSE Value(First(s)) + g[s \ {First(s)}]]
  <2>2. \A s \in UpTo(n, S) : s \in UpTo(n + 1, S) /\ g[s] = h[s]
    <3> SUFFICES ASSUME NEW s \in UpTo(n, S) PROVE s \in UpTo(n + 1, S) /\ g[s] = h[s]
      OBVIOUS
    <3>1. s \in UpTo(n + 1, S)
      <4>1. IsFiniteSet(s) /\ Cardinality(s) \in Nat
        BY FS_Subset, FS_CardinalityType DEF UpTo
      <4> QED BY <4>1 DEF UpTo
    <3>2. CASE s = {}
      BY <2>1, <3>1, <3>2, AddsUp
    <3>3. CASE s # {}
      BY <2>1, <3>1, <3>3, AddsUp
    <3> QED BY <3>1, <3>2, <3>3
  <2>3. ASSUME NEW s \in UpTo(n + 1, S), s # {}
        PROVE  h[s \ {First(s)}] = g[s \ {First(s)}]
    <3>1. First(s) \in s
      BY <2>3 DEF First
    <3>2. s \ {First(s)} \in UpTo(n, S)
      BY <2>3, <3>1, Smaller DEF UpTo
    <3> QED BY <2>2, <3>2
  <2>4. Adds(h, UpTo(n + 1, S))
    <3>1. \A s \in UpTo(n + 1, S) :
              h[s] = IF s = {} THEN 0 ELSE Value(First(s)) + h[s \ {First(s)}]
      BY <2>3
    <3>2. h = [s \in UpTo(n + 1, S) |-> h[s]]
      OBVIOUS
    <3> HIDE DEF h
    <3> QED BY <3>1, <3>2 DEF Adds
  <2> QED BY <2>4
<1>3. Cardinality(S) \in P
  <2> HIDE DEF P
  <2> QED BY <1>1, <1>2, NatSetInduction, FS_CardinalityType
<1>4. UpTo(Cardinality(S), S) = SUBSET S
  BY FS_Subset, FS_CardinalityType DEF UpTo
<1> QED BY <1>3, <1>4

\* Two sums agree on the sets that both add up.
LEMMA SumsAgree ==
    ASSUME NEW S, NEW T, IsFiniteSet(S), T \subseteq S,
           NEW g, NEW h, Adds(g, SUBSET S), Adds(h, SUBSET T)
    PROVE  g[T] = h[T]
<1> DEFINE P == {n \in Nat : \A s \in SUBSET T : Cardinality(s) = n => g[s] = h[s]}
<1>a. IsFiniteSet(T)
  BY FS_Subset
<1>1. 0 \in P
  <2>1. \A s \in SUBSET T : Cardinality(s) = 0 => s = {}
    BY <1>a, Smaller
  <2>2. g[{}] = 0 /\ h[{}] = 0
    <3>1. {} \in SUBSET S /\ {} \in SUBSET T
      OBVIOUS
    <3> QED BY <3>1, AddsUp
  <2>3. \A s \in SUBSET T : Cardinality(s) = 0 => g[s] = h[s]
    BY <2>1, <2>2
  <2> QED BY <2>3
<1>2. ASSUME NEW n \in Nat, n \in P PROVE n + 1 \in P
  <2>a. n + 1 \in Nat
    OBVIOUS
  <2> SUFFICES ASSUME NEW s \in SUBSET T, Cardinality(s) = n + 1 PROVE g[s] = h[s]
    BY <2>a, Zenon
  <2>1. s # {}
    <3>1. Cardinality(s) # 0
      OBVIOUS
    <3> QED BY <3>1, FS_EmptySet
  <2>2. First(s) \in s /\ g[s] = Value(First(s)) + g[s \ {First(s)}]
    BY <2>1, AddsUp
  <2>3. h[s] = Value(First(s)) + h[s \ {First(s)}]
    BY <2>1, AddsUp
  <2>4. g[s \ {First(s)}] = h[s \ {First(s)}]
    <3> DEFINE q == s \ {First(s)}
    <3>1. q \in SUBSET T /\ Cardinality(q) = n
      BY <1>a, <2>2, Smaller
    <3> HIDE DEF q
    <3>2. g[q] = h[q]
      BY <1>2, <3>1
    <3> QED BY <3>2 DEF q
  <2> QED BY <2>2, <2>3, <2>4
<1>3. Cardinality(T) \in P
  <2> HIDE DEF P
  <2> QED BY <1>a, <1>1, <1>2, NatSetInduction, FS_CardinalityType
<1> QED BY <1>3

\* Every sum is a natural number.
LEMMA SumIsNat ==
    ASSUME NEW S, IsFiniteSet(S), \A r \in S : Value(r) \in Nat,
           NEW g, Adds(g, SUBSET S)
    PROVE  \A s \in SUBSET S : g[s] \in Nat
<1> DEFINE P == {n \in Nat : \A s \in SUBSET S : Cardinality(s) = n => g[s] \in Nat}
<1>1. 0 \in P
  <2>1. \A s \in SUBSET S : Cardinality(s) = 0 => s = {}
    BY Smaller
  <2>2. g[{}] = 0
    <3>1. {} \in SUBSET S
      OBVIOUS
    <3> QED BY <3>1, AddsUp
  <2>3. \A s \in SUBSET S : Cardinality(s) = 0 => g[s] \in Nat
    BY <2>1, <2>2
  <2> QED BY <2>3
<1>2. ASSUME NEW n \in Nat, n \in P PROVE n + 1 \in P
  <2>a. n + 1 \in Nat
    OBVIOUS
  <2> SUFFICES ASSUME NEW s \in SUBSET S, Cardinality(s) = n + 1 PROVE g[s] \in Nat
    BY <2>a, Zenon
  <2>1. s # {}
    <3>1. Cardinality(s) # 0
      OBVIOUS
    <3> QED BY <3>1, FS_EmptySet
  <2>2. First(s) \in s /\ g[s] = Value(First(s)) + g[s \ {First(s)}]
    BY <2>1, AddsUp
  <2> DEFINE t == s \ {First(s)}
  <2>3. t \in SUBSET S /\ Cardinality(t) = n
    BY <2>2, Smaller
  <2> HIDE DEF t
  <2>4. g[t] \in Nat
    BY <1>2, <2>3
  <2> QED BY <2>2, <2>4 DEF t
<1>3. Nat \subseteq P
  <2> HIDE DEF P
  <2> QED BY <1>1, <1>2, NatSetInduction
<1>4. \A s \in SUBSET S : Cardinality(s) \in P
  BY <1>3, FS_Subset, FS_CardinalityType
<1> QED BY <1>4

\* Whichever element a sum takes first, it comes to the same.
AnyFirst(g, S) == \A s \in SUBSET S : \A r \in s : g[s] = Value(r) + g[s \ {r}]

LEMMA AnyOrder ==
    ASSUME NEW S, IsFiniteSet(S), \A r \in S : Value(r) \in Nat,
           NEW g, Adds(g, SUBSET S)
    PROVE  AnyFirst(g, S)
<1> DEFINE P == {n \in Nat : \A s \in SUBSET S : Cardinality(s) = n =>
                     \A r \in s : g[s] = Value(r) + g[s \ {r}]}
<1>1. 0 \in P
  <2>1. \A s \in SUBSET S : Cardinality(s) = 0 => s = {}
    BY Smaller
  <2> QED BY <2>1
<1>2. ASSUME NEW n \in Nat, n \in P PROVE n + 1 \in P
  <2>a. n + 1 \in Nat
    OBVIOUS
  <2> SUFFICES ASSUME NEW s \in SUBSET S, Cardinality(s) = n + 1, NEW r \in s
               PROVE  g[s] = Value(r) + g[s \ {r}]
    BY <2>a, Zenon
  <2>1. First(s) \in s /\ g[s] = Value(First(s)) + g[s \ {First(s)}]
    BY AddsUp
  <2>2. ASSUME NEW c \in s, c = First(s), r # c PROVE g[s] = Value(r) + g[s \ {r}]
    <3> DEFINE tc == s \ {c}
               tr == s \ {r}
    <3>1. /\ tc \in SUBSET S /\ Cardinality(tc) = n
          /\ tr \in SUBSET S /\ Cardinality(tr) = n
      BY Smaller
    <3>2. r \in tc /\ c \in tr /\ tr \ {c} = tc \ {r} /\ tc \ {r} \in SUBSET S
      BY <2>2
    <3>3. g[s] = Value(c) + g[tc]
      BY <2>1, <2>2
    <3> HIDE DEF tc, tr
    <3>4. g[tc] = Value(r) + g[tc \ {r}] /\ g[tr] = Value(c) + g[tr \ {c}]
      BY <1>2, <3>1, <3>2
    <3>5. Value(c) \in Nat /\ Value(r) \in Nat /\ g[tc \ {r}] \in Nat
      BY <3>2, SumIsNat
    <3>6. g[s] = Value(r) + g[tr]
      <4> DEFINE m == g[tc \ {r}]
      <4>1. m \in Nat /\ g[tc] = Value(r) + m /\ g[tr] = Value(c) + m
        BY <3>2, <3>4, <3>5
      <4> HIDE DEF m
      <4> QED BY <3>3, <3>5, <4>1
    <3> QED BY <3>6 DEF tr
  <2> QED BY <2>1, <2>2
<1>3. Nat \subseteq P
  <2> HIDE DEF P
  <2> QED BY <1>1, <1>2, NatSetInduction
<1>4. \A s \in SUBSET S : Cardinality(s) \in P
  BY <1>3, FS_Subset, FS_CardinalityType
<1> QED BY <1>4 DEF AnyFirst

\* What a set of recognitions adds up to.
Total(S) == MapThenSumSet(LAMBDA r : Amount[r.payment], S)

LEMMA TotalIsSum ==
    ASSUME NEW S, IsFiniteSet(S)
    PROVE  \E g : Adds(g, SUBSET S) /\ Total(S) = g[S]
<1>1. Total(S) = (CHOOSE g : Adds(g, SUBSET S))[S]
  BY DEF Total, MapThenSumSet, MapThenFoldSet, Adds, First, Value
<1> QED BY <1>1, SumsExist, Zenon

LEMMA TotalOfNothing == Total({}) = 0
<1>1. PICK g : Adds(g, SUBSET {}) /\ Total({}) = g[{}]
  BY TotalIsSum, FS_EmptySet
<1> QED BY <1>1, AddsUp

LEMMA TotalOfMore ==
    ASSUME NEW S, IsFiniteSet(S), NEW r, r \notin S,
           \A q \in S \cup {r} : Value(q) \in Nat
    PROVE  Total(S \cup {r}) = Total(S) + Value(r)
<1> DEFINE R == S \cup {r}
<1>a. IsFiniteSet(R) /\ S \subseteq R /\ r \in R /\ R \ {r} = S
  BY FS_AddElement
<1>1. PICK g : Adds(g, SUBSET R) /\ Total(R) = g[R]
  BY <1>a, TotalIsSum
<1>2. PICK h : Adds(h, SUBSET S) /\ Total(S) = h[S]
  BY TotalIsSum
<1>b. \A q \in R : Value(q) \in Nat
  OBVIOUS
<1> HIDE DEF R
<1>3. g[R] = Value(r) + g[S] /\ g[S] \in Nat
  <2>1. /\ \A s \in SUBSET R : \A q \in s : g[s] = Value(q) + g[s \ {q}]
        /\ \A s \in SUBSET R : g[s] \in Nat
    <3>1. Adds(g, SUBSET R) /\ IsFiniteSet(R)
      BY <1>1, <1>a
    <3>2. AnyFirst(g, R)
      BY <3>1, <1>b, AnyOrder
    <3>3. \A s \in SUBSET R : g[s] \in Nat
      BY <3>1, <1>b, SumIsNat
    <3> QED BY <3>2, <3>3 DEF AnyFirst
  <2>2. R \in SUBSET R /\ S \in SUBSET R
    BY <1>a
  <2>3. g[R] = Value(r) + g[R \ {r}]
    BY <1>a, <2>1, <2>2
  <2> QED BY <1>a, <2>1, <2>2, <2>3
<1>4. g[S] = h[S]
  <2>1. Adds(g, SUBSET R) /\ Adds(h, SUBSET S)
    BY <1>1, <1>2
  <2> QED BY <2>1, <1>a, SumsAgree
<1>5. Value(r) \in Nat
  BY <1>a, <1>b
<1>6. Total(R) = Total(S) + Value(r)
  BY <1>1, <1>2, <1>3, <1>4, <1>5
<1> QED BY <1>6 DEF R

\* The case's arrears are what the ledger adds up to.
SumInv == IsFiniteSet(ledger) /\ arrears = Total(ledger)

\* A recognition adds its payment's amount to both; nothing else touches either.
LEMMA SumInductive == TypeOK /\ LedgerInv /\ SumInv /\ [Next]_vars => SumInv'
<1> SUFFICES ASSUME TypeOK, LedgerInv, SumInv, [Next]_vars PROVE SumInv'
  OBVIOUS
<1>1. CASE UNCHANGED <<arrears, ledger>>
  BY <1>1 DEF SumInv
<1>2. ASSUME NEW e \in Events, ~AlreadyRecognised(e),
             ledger' = ledger \cup {[event |-> e, payment |-> PaymentOf[e]]},
             arrears' = arrears + Amount[PaymentOf[e]]
      PROVE  SumInv'
  <2> DEFINE new == [event |-> e, payment |-> PaymentOf[e]]
  <2>1. new \notin ledger /\ Value(new) = Amount[PaymentOf[e]]
    BY <1>2 DEF AlreadyRecognised, Value
  <2>2. \A r \in ledger \cup {new} : Value(r) \in Nat
    BY AmountsAssumption, EventsAssumption DEF TypeOK, Value
  <2>3. ledger' = ledger \cup {new} /\ arrears' = Total(ledger) + Value(new)
    BY <1>2, <2>1 DEF SumInv
  <2> HIDE DEF new
  <2>4. IsFiniteSet(ledger \cup {new})
    BY FS_AddElement DEF SumInv
  <2>5. Total(ledger \cup {new}) = Total(ledger) + Value(new)
    BY <2>1, <2>2, TotalOfMore DEF SumInv
  <2> QED BY <2>3, <2>4, <2>5 DEF SumInv
<1>3. CASE \A p \in Pollers, e \in Events :
               ~(ApplyFailed(p, e) \/ ApplyCaptured(p, e) \/ ApplySecondSuccess(p, e))
  BY <1>1, <1>3, OtherSteps DEF moneyVars
<1>4. CASE \E p \in Pollers, e \in Events : ApplyFailed(p, e)
  BY <1>1, <1>4, ApplyFailedLedger
<1>5. CASE \E p \in Pollers, e \in Events : ApplyCaptured(p, e) \/ ApplySecondSuccess(p, e)
  BY <1>1, <1>2, <1>5, ApplyCapturedLedger
<1> QED BY <1>3, <1>4, <1>5

\* However often an event or a payment's events are delivered and retried, by
\* any number of pollers that crash anywhere, a payment is credited once, the
\* case's arrears are the ledger's total, and neither the case nor the invoice is
\* credited beyond what was outstanding (_apply_captured).
THEOREM LedgerAlwaysBalances == Spec => []LedgerBalances
<1>1. Init => SumInv
  BY TotalOfNothing, FS_EmptySet DEF Init, SumInv
<1>2. TypeOK /\ LedgerInv /\ SumInv => LedgerBalances
  <2> SUFFICES ASSUME TypeOK, LedgerInv, SumInv PROVE LedgerBalances
    OBVIOUS
  <2>1. arrears = Collected
    BY DEF SumInv, Total, Collected
  <2>2. /\ \A r, s \in ledger : r.payment = s.payment => r = s
        /\ arrears <= atRisk
        /\ outcome # "NONE" => paid + atRisk = Invoice + arrears
    BY DEF TypeOK, LedgerInv
  <2> QED BY <2>1, <2>2 DEF LedgerBalances
<1> QED BY <1>1, <1>2, SumInductive, LedgerInvariant, TypeCorrect, PTL DEF Spec

----------------------------------------------------------------------------
(* Nothing is published undispatched. *)

Recorded(e) == \E r \in ledger : r.event = e

\* The failure e has nothing left to say: its payment was captured, or failed
\* again at a later instant.
Superseded(e) ==
    attempt[PaymentOf[e]] = "CAPTURED" \/ attemptAt[PaymentOf[e]] > OccurredAt[e]

\* What a poller knows that dispatches: a success in its hands is recorded, a
\* failure that it will not dispatch is superseded, and what it has sent has
\* arrived.
Dispatched(j) ==
    /\ j.step \in Steps \ {"Failing"} /\ Kind[j.event] = "CAPTURED" => Recorded(j.event)
    /\ j.step = "Leased" /\ Kind[j.event] = "FAILED" /\ ~j.applied => Superseded(j.event)
    /\ j.step = "Signal" => runs > 0
    /\ j.step = "Sent" /\ Kind[j.event] = "FAILED" => runs > 0 \/ Superseded(j.event)
    /\ j.step = "Sent" /\ Kind[j.event] # "FAILED" => j.event \in signalled

\* The inductive invariant behind PublishedWasDispatched.
DispatchInv ==
    /\ \A r \in ledger : Kind[r.event] = "CAPTURED"
    /\ ledger # {} => captured # {}
    /\ workflow # "NONE" => runs > 0
    /\ \A q \in Payments : attempt[q] = "NONE" => attemptAt[q] = 0
    /\ \A e \in signalled : Kind[e] = "CAPTURED" => Recorded(e)
    /\ \A p \in Pollers : Dispatched(job[p])
    /\ PublishedWasDispatched

\* What was recorded, signalled, captured, superseded or started stays so.
Grows ==
    /\ ledger \subseteq ledger' /\ signalled \subseteq signalled'
    /\ captured \subseteq captured' /\ runs' >= runs
    /\ \A e \in Events : Superseded(e) => Superseded(e)'

\* Applying a failure never takes back what supersedes another one.
LEMMA FailureGrows ==
    ASSUME TypeOK, DispatchInv, NEW p \in Pollers, NEW e \in Events, ApplyFailed(p, e)
    PROVE  /\ Grows
           /\ \A q \in Payments : attempt'[q] = "NONE" => attemptAt'[q] = 0
<1> USE EventsAssumption
<1>1. /\ attempt' = [attempt EXCEPT ![PaymentOf[e]] = IF FailureApplies(e) THEN "FAILED" ELSE @]
      /\ attemptAt' = [attemptAt EXCEPT ![PaymentOf[e]] =
                            IF FailureApplies(e) THEN OccurredAt[e] ELSE @]
  BY DEF ApplyFailed
<1>2. /\ attempt \in [Payments -> {"NONE", "FAILED", "CAPTURED"}]
      /\ attemptAt \in [Payments -> Nat]
      /\ \A q \in Payments : attempt[q] = "NONE" => attemptAt[q] = 0
  BY DEF TypeOK, DispatchInv
<1>3. \A f \in Events : Superseded(f) => Superseded(f)'
  BY <1>1, <1>2 DEF Superseded, FailureApplies
<1>4. \A q \in Payments : attempt'[q] = "NONE" => attemptAt'[q] = 0
  BY <1>1, <1>2
<1>5. UNCHANGED <<ledger, signalled, captured, runs>> /\ runs \in Nat
  BY DEF ApplyFailed, LeaseAndCommit, temporalVars, providerVars, TypeOK
<1> QED BY <1>3, <1>4, <1>5 DEF Grows

\* Nor does applying a capture.
LEMMA CaptureGrows ==
    ASSUME TypeOK, DispatchInv, NEW p \in Pollers, NEW e \in Events,
           ApplyCaptured(p, e) \/ ApplySecondSuccess(p, e)
    PROVE  /\ Grows
           /\ \A q \in Payments : attempt'[q] = "NONE" => attemptAt'[q] = 0
<1> USE EventsAssumption
<1>1. /\ attempt' = [attempt EXCEPT ![PaymentOf[e]] = "CAPTURED"]
      /\ attemptAt' = [attemptAt EXCEPT ![PaymentOf[e]] =
                            IF OccurredAt[e] >= @ THEN OccurredAt[e] ELSE @]
  BY DEF ApplyCaptured, ApplySecondSuccess, RecordCapture
<1>2. /\ attempt \in [Payments -> {"NONE", "FAILED", "CAPTURED"}]
      /\ attemptAt \in [Payments -> Nat]
      /\ \A q \in Payments : attempt[q] = "NONE" => attemptAt[q] = 0
  BY DEF TypeOK, DispatchInv
<1>3. \A f \in Events : Superseded(f) => Superseded(f)'
  BY <1>1, <1>2 DEF Superseded
<1>4. \A q \in Payments : attempt'[q] = "NONE" => attemptAt'[q] = 0
  BY <1>1, <1>2
<1>5. /\ UNCHANGED <<signalled, captured, runs>> /\ runs \in Nat
      /\ ledger \subseteq ledger'
  BY DEF ApplyCaptured, ApplySecondSuccess, LeaseAndCommit, temporalVars, providerVars, TypeOK
<1> QED BY <1>3, <1>4, <1>5 DEF Grows

\* The other steps leave payments and the ledger alone.
LEMMA OthersGrow ==
    ASSUME TypeOK, DispatchInv, [Next]_vars,
           \A p \in Pollers, e \in Events :
               ~(ApplyFailed(p, e) \/ ApplyCaptured(p, e) \/ ApplySecondSuccess(p, e))
    PROVE  Grows /\ UNCHANGED <<ledger, attempt, attemptAt>>
<1> USE DEF domainVars, temporalVars, providerVars, moneyVars
<1>0. runs \in Nat /\ runs + 1 >= runs
  BY DEF TypeOK
<1>a. UNCHANGED <<ledger, attempt, attemptAt>> => \A e \in Events : Superseded(e) => Superseded(e)'
  BY DEF Superseded
<1> DEFINE Frame == /\ UNCHANGED <<ledger, attempt, attemptAt>>
                    /\ signalled \subseteq signalled' /\ captured \subseteq captured'
                    /\ runs' \in {runs, runs + 1}
<1>b. Frame => Grows /\ UNCHANGED <<ledger, attempt, attemptAt>>
  BY <1>0, <1>a DEF Grows
<1>8. Frame
  <2>1. CASE \E p \in Payments : ProviderCaptures(p)
    BY <2>1 DEF ProviderCaptures
  <2>2. CASE \E e \in Events : Receive(e) \/ HoldExpires(e)
    BY <2>2 DEF Receive, HoldExpires
  <2>3. CASE \E p \in Pollers, e \in Events : Process(p, e) \/ ProcessingFails(p, e)
    BY <2>3 DEF Process, ProcessingFails, ApplySubscriptionOnly
  <2>4. CASE \E p \in Pollers : \/ Dispatch(p) \/ DispatchFails(p) \/ RecordFailure(p)
                               \/ Crash(p)
    BY <2>4 DEF Dispatch, DispatchFails, RecordFailure, Crash, LockRow, StartWorkflow,
                SignalWorkflow, SignalRefused, Publish
  <2>5. CASE WorkflowCloses
    BY <2>5 DEF WorkflowCloses
  <2>6. CASE ActionCompletes
    BY <2>6 DEF ActionCompletes
  <2>7. CASE UNCHANGED vars
    BY <2>7 DEF vars
  <2> QED BY <2>1, <2>2, <2>3, <2>4, <2>5, <2>6, <2>7 DEF Next
<1> QED BY <1>b, <1>8

\* So what a poller knows of a job stays true as long as it has that job.
LEMMA DispatchedStays ==
    ASSUME TypeOK, Grows, NEW p \in Pollers, Dispatched(job[p]), job'[p] = job[p],
           runs' \in Nat
    PROVE  Dispatched(job[p])'
<1>1. CASE job[p].step \in Steps
  <2>1. job[p].event \in Events
    BY <1>1, BusyType
  <2>2. Recorded(job[p].event) => Recorded(job[p].event)'
    BY DEF Recorded, Grows
  <2>3. /\ Superseded(job[p].event) => Superseded(job[p].event)'
        /\ job[p].event \in signalled => job[p].event \in signalled'
        /\ runs > 0 => runs' > 0
    BY <2>1 DEF Grows, TypeOK
  <2> QED BY <2>1, <2>2, <2>3 DEF Dispatched
<1>2. CASE job[p].step \notin Steps
  BY <1>2 DEF Dispatched, Steps
<1> QED BY <1>1, <1>2

\* A step of one poller leaves what the others know alone.
LEMMA OnePollerMoves ==
    ASSUME TypeOK, TypeOK', Grows, DispatchInv, NEW p \in Pollers,
           \A q \in Pollers \ {p} : job'[q] = job[q], Dispatched(job[p])'
    PROVE  \A q \in Pollers : Dispatched(job[q])'
<1> SUFFICES ASSUME NEW q \in Pollers, q # p PROVE Dispatched(job[q])'
  OBVIOUS
<1>1. job'[q] = job[q] /\ Dispatched(job[q]) /\ runs' \in Nat
  BY DEF DispatchInv, TypeOK
<1> QED BY <1>1, DispatchedStays

\* Nothing is to be known of a job that failed or ended.
LEMMA NothingToKnow ==
    ASSUME NEW p \in Pollers, job'[p].step \in {"Failing", "Idle"}
    PROVE  Dispatched(job[p])'
BY DEF Dispatched, Steps

\* A published event that was published before, and that is recorded only if it
\* was, has still been dispatched.
LEMMA PublishedStays ==
    ASSUME TypeOK, TypeOK', Grows, DispatchInv, NEW e \in Events,
           row[e] = "PUBLISHED", Recorded(e)' => Recorded(e)
    PROVE  /\ Recorded(e)' => e \in signalled'
           /\ Kind[e] = "FAILED" => runs' > 0 \/ Superseded(e)'
<1>1. /\ Recorded(e) => e \in signalled
      /\ Kind[e] = "FAILED" => runs > 0 \/ Superseded(e)
  BY DEF DispatchInv, PublishedWasDispatched, Recorded, Superseded
<1>2. /\ e \in signalled => e \in signalled'
      /\ runs > 0 => runs' > 0
      /\ Superseded(e) => Superseded(e)'
  BY DEF Grows, TypeOK
<1> QED BY <1>1, <1>2

\* The case of one published event says what PublishedWasDispatched says.
LEMMA PublishedByEvent ==
    ASSUME \A e \in Events : row'[e] = "PUBLISHED" =>
               /\ Recorded(e)' => e \in signalled'
               /\ Kind[e] = "FAILED" => runs' > 0 \/ Superseded(e)'
    PROVE  PublishedWasDispatched'
BY DEF PublishedWasDispatched, Recorded, Superseded

\* A step that publishes nothing and records nothing keeps PublishedWasDispatched.
LEMMA NothingPublished ==
    ASSUME TypeOK, TypeOK', Grows, DispatchInv, ledger' = ledger,
           \A e \in Events : row'[e] = "PUBLISHED" => row[e] = "PUBLISHED"
    PROVE  PublishedWasDispatched'
<1>1. \A e \in Events : Recorded(e)' => Recorded(e)
  BY DEF Recorded
<1> QED BY <1>1, PublishedStays, PublishedByEvent

\* Applying a failure.
LEMMA ApplyFailedDispatch ==
    ASSUME TypeOK, TypeOK', DispatchInv, NEW p \in Pollers, NEW e \in Events,
           ApplyFailed(p, e)
    PROVE  DispatchInv'
<1> USE EventsAssumption
<1>1. /\ Grows
      /\ \A q \in Payments : attempt'[q] = "NONE" => attemptAt'[q] = 0
  BY FailureGrows
<1>2. /\ job' = [job EXCEPT ![p] = [step |-> "Leased", event |-> e, applied |-> FailureApplies(e)]]
      /\ row' = [row EXCEPT ![e] = "HELD"]
      /\ Kind[e] = "FAILED"
      /\ UNCHANGED <<ledger, captured, workflow, runs, signalled>>
  BY DEF ApplyFailed, LeaseAndCommit, temporalVars, providerVars
<1>3. ~FailureApplies(e) => Superseded(e)'
  <2>1. ~FailureApplies(e) => Superseded(e)
    BY DEF FailureApplies, Superseded, TypeOK
  <2> QED BY <1>1, <2>1 DEF Grows
<1>4. job'[p] = [step |-> "Leased", event |-> e, applied |-> FailureApplies(e)]
  BY <1>2 DEF TypeOK
<1>5. Dispatched(job[p])'
  BY <1>2, <1>3, <1>4 DEF Dispatched
<1>6. \A q \in Pollers : Dispatched(job[q])'
  BY <1>1, <1>2, <1>5, OnePollerMoves
<1>7. PublishedWasDispatched'
  BY <1>1, <1>2, NothingPublished DEF TypeOK
<1> QED BY <1>1, <1>2, <1>6, <1>7 DEF DispatchInv, Recorded

\* Applying a capture that is dispatched: it is recorded, and its row is leased.
LEMMA ApplyCapturedDispatch ==
    ASSUME TypeOK, TypeOK', DispatchInv, NEW p \in Pollers, NEW e \in Events,
           ApplyCaptured(p, e)
    PROVE  DispatchInv'
<1> USE EventsAssumption
<1>1. /\ Grows
      /\ \A q \in Payments : attempt'[q] = "NONE" => attemptAt'[q] = 0
  BY CaptureGrows
<1>2. /\ job' = [job EXCEPT ![p] = [step |-> "Leased", event |-> e, applied |-> TRUE]]
      /\ row' = [row EXCEPT ![e] = "HELD"]
      /\ Kind[e] = "CAPTURED" /\ PaymentOf[e] \in captured
      /\ UNCHANGED <<captured, workflow, runs, signalled>>
  BY DEF ApplyCaptured, LeaseAndCommit, temporalVars, providerVars
<1>3. /\ ledger' \subseteq ledger \cup {[event |-> e, payment |-> PaymentOf[e]]}
      /\ Recorded(e)'
  <2>1. CASE ledger' = ledger \cup {[event |-> e, payment |-> PaymentOf[e]]}
    <3>1. [event |-> e, payment |-> PaymentOf[e]].event = e
      OBVIOUS
    <3> QED BY <2>1, <3>1 DEF Recorded
  <2>2. CASE ledger' = ledger /\ \E r \in ledger : r.event = e
    BY <2>2 DEF Recorded
  <2> QED BY <2>1, <2>2 DEF ApplyCaptured
<1>4. job'[p] = [step |-> "Leased", event |-> e, applied |-> TRUE]
  BY <1>2 DEF TypeOK
<1>5. Dispatched(job[p])'
  BY <1>2, <1>3, <1>4 DEF Dispatched
<1>6. \A q \in Pollers : Dispatched(job[q])'
  <2>1. \A q \in Pollers \ {p} : job'[q] = job[q]
    BY <1>2 DEF TypeOK
  <2> QED BY <1>1, <1>5, <2>1, OnePollerMoves
<1>7. \A r \in ledger' : Kind[r.event] = "CAPTURED"
  BY <1>2, <1>3 DEF DispatchInv
<1>8. \A f \in Events : f # e => (Recorded(f)' => Recorded(f))
  BY <1>3 DEF Recorded
<1>9. PublishedWasDispatched'
  <2>1. \A f \in Events : row'[f] = "PUBLISHED" => row[f] = "PUBLISHED" /\ f # e
    BY <1>2 DEF TypeOK
  <2> QED BY <1>1, <1>8, <2>1, PublishedStays, PublishedByEvent
<1>10. \A f \in signalled' : Kind[f] = "CAPTURED" => Recorded(f)'
  BY <1>1, <1>2 DEF DispatchInv, Recorded, Grows
<1> QED BY <1>1, <1>2, <1>6, <1>7, <1>9, <1>10 DEF DispatchInv

\* Applying another success of a recognised payment publishes an event that is
\* recorded nowhere.
LEMMA SecondSuccessDispatch ==
    ASSUME TypeOK, TypeOK', DispatchInv, NEW p \in Pollers, NEW e \in Events,
           ApplySecondSuccess(p, e)
    PROVE  DispatchInv'
<1> USE EventsAssumption
<1>1. /\ Grows
      /\ \A q \in Payments : attempt'[q] = "NONE" => attemptAt'[q] = 0
  BY CaptureGrows
<1>2. /\ row' = [row EXCEPT ![e] = "PUBLISHED"]
      /\ Kind[e] = "CAPTURED" /\ ~Recorded(e)
      /\ UNCHANGED <<job, ledger, captured, workflow, runs, signalled>>
  BY DEF ApplySecondSuccess, temporalVars, providerVars, Recorded
<1>3. \A q \in Pollers : Dispatched(job[q])'
  <2>1. \A q \in Pollers : job'[q] = job[q] /\ Dispatched(job[q])
    BY <1>2 DEF DispatchInv
  <2>2. runs' \in Nat
    BY DEF TypeOK
  <2> QED BY <1>1, <2>1, <2>2, DispatchedStays
<1>4. \A f \in Events : Recorded(f)' => Recorded(f)
  BY <1>2 DEF Recorded
<1>5. PublishedWasDispatched'
  <2>1. \A f \in Events : row'[f] = "PUBLISHED" => row[f] = "PUBLISHED" \/ f = e
    BY <1>2 DEF TypeOK
  <2>2. ~Recorded(e)' /\ Kind[e] # "FAILED"
    BY <1>2, <1>4
  <2> QED BY <1>1, <1>4, <2>1, <2>2, PublishedStays, PublishedByEvent
<1>6. \A f \in signalled' : Kind[f] = "CAPTURED" => Recorded(f)'
  BY <1>1, <1>2 DEF DispatchInv, Recorded, Grows
<1> QED BY <1>1, <1>2, <1>3, <1>5, <1>6 DEF DispatchInv

\* A lifecycle event is not in the ledger, so it may be published undispatched.
LEMMA SubscriptionDispatch ==
    ASSUME TypeOK, TypeOK', DispatchInv, Grows, NEW p \in Pollers, NEW e \in Events,
           ApplySubscriptionOnly(p, e)
    PROVE  DispatchInv'
<1> USE EventsAssumption
<1>1. /\ UNCHANGED <<ledger, captured, workflow, runs, signalled, attempt, attemptAt>>
      /\ Kind[e] = "SUBSCRIPTION"
  BY DEF ApplySubscriptionOnly, temporalVars, providerVars, moneyVars
<1>2. \A f \in Events : (Recorded(f)' => Recorded(f)) /\ (Recorded(f) => Recorded(f)')
  BY <1>1 DEF Recorded
<1>3. ~Recorded(e)
  BY <1>1 DEF Recorded, DispatchInv
<1>4. \A f \in Events : row'[f] = "PUBLISHED" => row[f] = "PUBLISHED" \/ f = e
  BY DEF ApplySubscriptionOnly, TypeOK
<1>5. PublishedWasDispatched'
  BY <1>1, <1>2, <1>3, <1>4, PublishedStays, PublishedByEvent
<1>6. /\ \A q \in Pollers \ {p} : job'[q] = job[q]
      /\ job'[p] = job[p] \/ (job'[p].step = "Locked" /\ job'[p].event = e)
  <2>1. job \in [Pollers -> Job]
    BY DEF TypeOK
  <2>2. CASE UNCHANGED job
    BY <2>2
  <2>3. CASE job' = [job EXCEPT ![p] = [step |-> "Locked", event |-> e, applied |-> ~Stale(e)]]
    BY <2>1, <2>3
  <2> QED BY <2>2, <2>3 DEF ApplySubscriptionOnly
<1>7. Dispatched(job[p])'
  <2>0. Dispatched(job[p]) /\ runs' \in Nat
    BY DEF DispatchInv, TypeOK
  <2>1. CASE job'[p] = job[p]
    BY <2>0, <2>1, DispatchedStays
  <2>2. CASE job'[p].step = "Locked" /\ job'[p].event = e
    BY <1>1, <2>2 DEF Dispatched
  <2> QED BY <1>6, <2>1, <2>2
<1>8. \A q \in Pollers : Dispatched(job[q])'
  BY <1>6, <1>7, OnePollerMoves
<1>9. \A f \in signalled' : Kind[f] = "CAPTURED" => Recorded(f)'
  BY <1>1, <1>2 DEF DispatchInv, TypeOK
<1> QED BY <1>1, <1>5, <1>8, <1>9 DEF DispatchInv, Recorded

\* What a step of the dispatch leaves alone, and what follows of the invariant
\* from what it does to the rows and to its own job.
LEMMA DispatchFrame ==
    ASSUME TypeOK, TypeOK', DispatchInv, Grows, NEW p \in Pollers,
           \A q \in Pollers \ {p} : job'[q] = job[q], Dispatched(job[p])',
           UNCHANGED <<ledger, attempt, attemptAt, captured>>,
           workflow' # "NONE" => runs' > 0,
           \A f \in signalled' : Kind[f] = "CAPTURED" => Recorded(f),
           PublishedWasDispatched'
    PROVE  DispatchInv'
<1>1. \A q \in Pollers : Dispatched(job[q])'
  BY OnePollerMoves
<1>2. \A f \in signalled' : Kind[f] = "CAPTURED" => Recorded(f)'
  BY DEF Recorded
<1> QED BY <1>1, <1>2 DEF DispatchInv

\* Each step of the dispatch.
LEMMA DispatchSteps ==
    ASSUME TypeOK, TypeOK', DispatchInv, Grows, NEW p \in Pollers,
           LockRow(p) \/ StartWorkflow(p) \/ SignalWorkflow(p) \/ Publish(p)
    PROVE  DispatchInv'
<1> USE EventsAssumption DEF temporalVars, providerVars, moneyVars, domainVars
<1> DEFINE j == job[p]
           k == Kind[j.event]
<1>1. /\ UNCHANGED <<ledger, attempt, attemptAt, captured>>
      /\ j.step \in Steps
  BY DEF LockRow, StartWorkflow, SignalWorkflow, Publish, Steps
<1>2. /\ j \in [step : Steps, event : Events, applied : BOOLEAN]
      /\ j.event \in Events /\ k \in {"FAILED", "CAPTURED", "SUBSCRIPTION"}
      /\ runs \in Nat /\ runs' \in Nat
  <2>1. j \in [step : Steps, event : Events, applied : BOOLEAN]
    BY <1>1, BusyType
  <2>2. runs \in Nat /\ runs' \in Nat
    BY DEF TypeOK
  <2> QED BY <2>1, <2>2
<1>e. PICK ev \in Events : ev = job[p].event
  BY <1>2
<1>3. Dispatched(j)
  BY DEF DispatchInv
<1>4. /\ Recorded(ev) => Recorded(ev)'
      /\ Superseded(ev) => Superseded(ev)'
      /\ runs > 0 => runs' > 0
  <2>1. Recorded(ev) => Recorded(ev)'
    BY <1>1 DEF Recorded
  <2>2. Superseded(ev) => Superseded(ev)'
    BY <1>2 DEF Grows
  <2>3. runs > 0 => runs' > 0
    BY <1>2 DEF Grows
  <2> QED BY <2>1, <2>2, <2>3
<1>5. ASSUME NEW s \in Steps, Advance(p, s)
      PROVE  /\ \A q \in Pollers \ {p} : job'[q] = job[q]
             /\ job'[p].step = s /\ job'[p].event = ev
  BY <1>2, <1>5, <1>e DEF Advance, TypeOK
<1>6. CASE LockRow(p)
  <2>1. /\ UNCHANGED <<row, workflow, runs, signalled>> /\ j.step = "Leased"
        /\ Advance(p, IF k = "FAILED" /\ ~j.applied THEN "Sent" ELSE "Locked")
    BY <1>6 DEF LockRow
  <2>2. /\ \A q \in Pollers \ {p} : job'[q] = job[q]
        /\ job'[p].step = IF k = "FAILED" /\ ~j.applied THEN "Sent" ELSE "Locked"
        /\ job'[p].event = ev
    BY <1>5, <2>1 DEF Steps
  <2>3. Dispatched(job[p])'
    BY <1>3, <1>e, <1>4, <2>1, <2>2 DEF Dispatched, Steps
  <2>4. PublishedWasDispatched'
    BY <1>1, <2>1, NothingPublished
  <2> QED BY <1>1, <2>1, <2>2, <2>3, <2>4, DispatchFrame DEF DispatchInv
<1>7. CASE StartWorkflow(p)
  <2>1. /\ UNCHANGED <<row, signalled>> /\ j.step = "Locked"
        /\ \/ Advance(p, "Signal") /\ workflow # "NONE" /\ UNCHANGED <<workflow, runs>>
           \/ Advance(p, IF k = "FAILED" THEN "Sent" ELSE "Signal") /\ runs' = runs + 1
    BY <1>7 DEF StartWorkflow
  <2>2. runs' > 0
    BY <1>2, <2>1 DEF DispatchInv
  <2>3. /\ \A q \in Pollers \ {p} : job'[q] = job[q]
        /\ job'[p].step = "Signal" \/ (job'[p].step = "Sent" /\ k = "FAILED")
        /\ job'[p].event = ev
    BY <1>5, <2>1 DEF Steps
  <2>4. Dispatched(job[p])'
    BY <1>3, <1>e, <1>4, <2>1, <2>2, <2>3 DEF Dispatched, Steps
  <2>5. PublishedWasDispatched'
    BY <1>1, <2>1, NothingPublished
  <2> QED BY <1>1, <2>1, <2>2, <2>3, <2>4, <2>5, DispatchFrame DEF DispatchInv
<1>8. CASE SignalWorkflow(p)
  <2>1. /\ UNCHANGED <<row, workflow, runs>> /\ j.step = "Signal"
        /\ Advance(p, "Sent") /\ signalled' = signalled \cup {ev}
    BY <1>8, <1>e DEF SignalWorkflow
  <2>2. /\ \A q \in Pollers \ {p} : job'[q] = job[q]
        /\ job'[p].step = "Sent" /\ job'[p].event = ev
    BY <1>5, <2>1 DEF Steps
  <2>3. Dispatched(job[p])'
    BY <1>3, <1>e, <1>4, <2>1, <2>2 DEF Dispatched, Steps
  <2>4. PublishedWasDispatched'
    BY <1>1, <2>1, NothingPublished
  <2>5. \A f \in signalled' : Kind[f] = "CAPTURED" => Recorded(f)
    BY <1>3, <1>e, <2>1 DEF Dispatched, DispatchInv, Steps
  <2> QED BY <1>1, <2>1, <2>2, <2>3, <2>4, <2>5, DispatchFrame DEF DispatchInv
<1>9. CASE Publish(p)
  <2>1. /\ UNCHANGED <<workflow, runs, signalled>> /\ j.step = "Sent"
        /\ row' = [row EXCEPT ![ev] = "PUBLISHED"]
        /\ job' = [job EXCEPT ![p] = Idle]
    BY <1>9, <1>e DEF Publish
  <2>2. /\ \A q \in Pollers \ {p} : job'[q] = job[q]
        /\ job'[p].step = "Idle"
    BY <2>1 DEF Idle, TypeOK
  <2>3. Dispatched(job[p])'
    BY <2>2, NothingToKnow
  <2>4. PublishedWasDispatched'
    <3>1. \A f \in Events : Recorded(f)' => Recorded(f)
      BY <1>1 DEF Recorded
    <3>2. \A f \in Events : row'[f] = "PUBLISHED" => row[f] = "PUBLISHED" \/ f = ev
      BY <1>2, <2>1 DEF TypeOK
    <3>3. /\ Recorded(ev)' => ev \in signalled'
          /\ k = "FAILED" => runs' > 0 \/ Superseded(ev)'
      <4>1. Recorded(ev) => k = "CAPTURED"
        BY <1>e DEF Recorded, DispatchInv
      <4>2. /\ k = "CAPTURED" => ev \in signalled
            /\ k = "FAILED" => runs > 0 \/ Superseded(ev)
        BY <1>3, <1>e, <2>1 DEF Dispatched
      <4>3. Recorded(ev)' => Recorded(ev)
        BY <1>1 DEF Recorded
      <4> HIDE DEF j, k
      <4> QED BY <1>4, <2>1, <4>1, <4>2, <4>3
    <3>4. ASSUME NEW f \in Events, row'[f] = "PUBLISHED"
          PROVE  /\ Recorded(f)' => f \in signalled'
                 /\ Kind[f] = "FAILED" => runs' > 0 \/ Superseded(f)'
      <4>1. CASE row[f] = "PUBLISHED"
        BY <3>1, <4>1, PublishedStays
      <4>2. CASE f = ev
        BY <1>e, <3>3, <4>2
      <4> QED BY <3>2, <3>4, <4>1, <4>2
    <3> QED BY <3>4, PublishedByEvent
  <2> QED BY <1>1, <2>1, <2>2, <2>3, <2>4, DispatchFrame DEF DispatchInv
<1> QED BY <1>6, <1>7, <1>8, <1>9

\* A step in which one poller at most lets go of its job, and which neither
\* publishes, records nor signals, keeps the invariant.
LEMMA QuietStep ==
    ASSUME TypeOK, TypeOK', DispatchInv, Grows,
           UNCHANGED <<ledger, attempt, attemptAt, signalled, runs>>,
           workflow' # "NONE" => workflow # "NONE",
           \A p \in Pollers : job'[p] = job[p] \/ job'[p].step \in {"Failing", "Idle"},
           \A e \in Events : row'[e] = "PUBLISHED" => row[e] = "PUBLISHED"
    PROVE  DispatchInv'
<1>1. \A p \in Pollers : Dispatched(job[p])'
  <2> SUFFICES ASSUME NEW p \in Pollers PROVE Dispatched(job[p])'
    OBVIOUS
  <2>1. Dispatched(job[p]) /\ runs' \in Nat
    BY DEF DispatchInv, TypeOK
  <2> QED BY <2>1, DispatchedStays, NothingToKnow
<1>2. PublishedWasDispatched'
  BY NothingPublished
<1>3. \A f \in signalled' : Kind[f] = "CAPTURED" => Recorded(f)'
  BY DEF DispatchInv, Recorded
<1>4. ledger' # {} => captured' # {}
  BY DEF DispatchInv, Grows
<1> QED BY <1>1, <1>2, <1>3, <1>4 DEF DispatchInv

\* Every step of the specification preserves DispatchInv.
LEMMA DispatchInductive ==
    ASSUME TypeOK, TypeOK', DispatchInv, [Next]_vars
    PROVE  DispatchInv'
<1> DEFINE Applies == \E p \in Pollers, e \in Events :
               ApplyFailed(p, e) \/ ApplyCaptured(p, e) \/ ApplySecondSuccess(p, e)
<1>1. CASE Applies
  BY <1>1, ApplyFailedDispatch, ApplyCapturedDispatch, SecondSuccessDispatch
<1>2. CASE ~Applies
  <2>1. Grows /\ UNCHANGED <<ledger, attempt, attemptAt>>
    BY <1>2, OthersGrow
  <2>2. CASE \E p \in Pollers, e \in Events : ApplySubscriptionOnly(p, e)
    BY <2>1, <2>2, SubscriptionDispatch
  <2>3. CASE \E p \in Pollers : LockRow(p) \/ StartWorkflow(p) \/ SignalWorkflow(p) \/ Publish(p)
    BY <2>1, <2>3, DispatchSteps
  <2> DEFINE Quiet ==
        /\ UNCHANGED <<signalled, runs>>
        /\ workflow' # "NONE" => workflow # "NONE"
        /\ \A p \in Pollers : job'[p] = job[p] \/ job'[p].step \in {"Failing", "Idle"}
        /\ \A e \in Events : row'[e] = "PUBLISHED" => row[e] = "PUBLISHED"
  <2> USE DEF temporalVars
  <2>0. /\ row \in [Events -> Rows] /\ job \in [Pollers -> Job]
    BY DEF TypeOK
  <2>4. Quiet => DispatchInv'
    BY <2>1, QuietStep
  <2>5. CASE \E p \in Payments : ProviderCaptures(p)
    BY <2>4, <2>5 DEF ProviderCaptures
  <2>6. CASE \E e \in Events : Receive(e) \/ HoldExpires(e)
    BY <2>0, <2>4, <2>6 DEF Receive, HoldExpires
  <2>7. CASE \E p \in Pollers, e \in Events : ProcessingFails(p, e)
    BY <2>0, <2>4, <2>7 DEF ProcessingFails, Failing
  <2>8. CASE \E p \in Pollers : SignalRefused(p) \/ DispatchFails(p)
    BY <2>0, <2>4, <2>8 DEF SignalRefused, DispatchFails, Failing
  <2>9. CASE \E p \in Pollers : RecordFailure(p) \/ Crash(p)
    BY <2>0, <2>4, <2>9 DEF RecordFailure, Crash, Idle
  <2>10. CASE WorkflowCloses \/ ActionCompletes
    BY <2>4, <2>10 DEF WorkflowCloses, ActionCompletes
  <2>11. CASE UNCHANGED vars
    BY <2>4, <2>11 DEF vars
  <2> HIDE DEF Quiet
  <2> QED BY <1>2, <2>2, <2>3, <2>5, <2>6, <2>7, <2>8, <2>9, <2>10, <2>11
          DEF Next, Process, Dispatch
<1> QED BY <1>1, <1>2

\* DispatchInv holds in every state.
LEMMA DispatchInvariant == Spec => []DispatchInv
<1>1. Init => DispatchInv
  <2> SUFFICES ASSUME Init PROVE DispatchInv
    OBVIOUS
  <2>1. \A p \in Pollers : Dispatched(job[p])
    BY DEF Init, Idle, Dispatched, Steps
  <2> QED BY <2>1 DEF Init, DispatchInv, PublishedWasDispatched
<1>2. TypeOK /\ TypeOK' /\ DispatchInv /\ [Next]_vars => DispatchInv'
  BY DispatchInductive
<1> QED BY <1>1, <1>2, TypeCorrect, PTL DEF Spec

\* For every set of events, payments and pollers, no crash, lease expiry or lost
\* answer of process_next publishes a row whose dispatch never happened.
THEOREM PublishedIsDispatched == Spec => []PublishedWasDispatched
<1>1. DispatchInv => PublishedWasDispatched
  BY DEF DispatchInv
<1> QED BY <1>1, DispatchInvariant, PTL

----------------------------------------------------------------------------
(* Lifecycle events. *)

Lifecycle == {e \in Events : Kind[e] = "SUBSCRIPTION"}
Processed == {e \in Lifecycle : row[e] = "PUBLISHED"}

\* The poller is in the transaction of a lifecycle event and has the
\* subscription's row.
Writing(p) == job[p].event \in Lifecycle /\ job[p].step # "Failing"

\* An event may be shown, or is no newer than the event that is.
MayShow(e) == \A f \in Processed : OccurredAt[f] <= OccurredAt[e]
NoNewer(e) == subscription \in Lifecycle => OccurredAt[e] <= OccurredAt[subscription]

\* One lifecycle event is written at a time; the one that was found current still
\* is, and the one that was found stale is no newer than what is shown.
LifecycleInv ==
    /\ subscription \in Lifecycle => MayShow(subscription)
    /\ \A p, q \in Pollers : Writing(p) /\ Writing(q) => p = q
    /\ \A p \in Pollers : Writing(p) =>
           IF job[p].applied THEN MayShow(job[p].event) ELSE NoNewer(job[p].event)

\* An event is stale when a processed one is newer.
LEMMA StaleOrShown ==
    ASSUME NEW e \in Lifecycle
    PROVE  Stale(e) <=> ~MayShow(e)
BY EventsAssumption DEF Stale, MayShow, Processed, Lifecycle

\* A step that processes no lifecycle event, writes none and takes none up.
LEMMA LifecycleFrame ==
    ASSUME LifecycleInv, subscription' = subscription, Processed' \subseteq Processed,
           \A q \in Pollers : Writing(q)' => /\ Writing(q)
                                             /\ job'[q].event = job[q].event
                                             /\ job'[q].applied = job[q].applied
    PROVE  LifecycleInv'
<1>1. Lifecycle' = Lifecycle
  BY DEF Lifecycle
<1>2. \A e : (MayShow(e) => MayShow(e)') /\ (NoNewer(e) => NoNewer(e)')
  BY <1>1 DEF MayShow, NoNewer
<1>3. ASSUME NEW q \in Pollers, Writing(q)'
      PROVE  (IF job[q].applied THEN MayShow(job[q].event) ELSE NoNewer(job[q].event))'
  <2>1. /\ Writing(q) /\ job'[q].event = job[q].event
        /\ job'[q].applied = job[q].applied
    BY <1>3
  <2>2. IF job[q].applied THEN MayShow(job[q].event) ELSE NoNewer(job[q].event)
    BY <2>1 DEF LifecycleInv
  <2>3. IF job'[q].applied THEN MayShow(job'[q].event) ELSE NoNewer(job'[q].event)
    BY <2>1, <2>2
  <2> QED BY <1>1, <2>3 DEF MayShow, NoNewer
<1>4. \A p, q \in Pollers : Writing(p)' /\ Writing(q)' => p = q
  BY DEF LifecycleInv
<1>5. subscription' \in Lifecycle => MayShow(subscription)'
  BY <1>1, <1>2 DEF LifecycleInv, MayShow
<1> QED BY <1>1, <1>3, <1>4, <1>5 DEF LifecycleInv

\* The steps of a dispatch before its commit, its failure and its crash, and the
\* failure to take up an event.
LEMMA LifecycleDispatch ==
    ASSUME TypeOK, LifecycleInv, NEW p \in Pollers,
           \/ LockRow(p) \/ StartWorkflow(p) \/ SignalWorkflow(p) \/ SignalRefused(p)
           \/ DispatchFails(p) \/ RecordFailure(p) \/ Crash(p)
           \/ \E e \in Events : ProcessingFails(p, e)
    PROVE  LifecycleInv'
<1>1. subscription' = subscription
  BY DEF LockRow, StartWorkflow, SignalWorkflow, SignalRefused, DispatchFails,
         RecordFailure, Crash, ProcessingFails, domainVars
<1>2. \A q \in Pollers : Writing(q)' => /\ Writing(q)
                                        /\ job'[q].event = job[q].event
                                        /\ job'[q].applied = job[q].applied
  <2>1. ASSUME NEW s, Advance(p, s), job[p].step # "Failing"
        PROVE  \A q \in Pollers : /\ job'[q].event = job[q].event
                                  /\ job'[q].applied = job[q].applied
                                  /\ Writing(q)' => Writing(q)
    <3>1. job[p] \in Job
      BY DEF TypeOK
    <3>2. [job[p] EXCEPT !.step = s].event = job[p].event
          /\ [job[p] EXCEPT !.step = s].applied = job[p].applied
      BY <3>1 DEF Job, Idle
    <3>3. job' = [job EXCEPT ![p] = [job[p] EXCEPT !.step = s]]
      BY <2>1 DEF Advance
    <3> QED BY <2>1, <3>2, <3>3 DEF TypeOK, Writing, Lifecycle
  <2>2. CASE LockRow(p) \/ StartWorkflow(p) \/ SignalWorkflow(p)
    <3>1. job[p].step # "Failing" /\ \E s : Advance(p, s)
      BY <2>2 DEF LockRow, StartWorkflow, SignalWorkflow
    <3> QED BY <2>1, <3>1
  <2>3. CASE \/ SignalRefused(p) \/ DispatchFails(p)
             \/ \E e \in Events : ProcessingFails(p, e)
    <3>1. PICK e : Failing(p, e)
      BY <2>3 DEF SignalRefused, DispatchFails, ProcessingFails
    <3> QED BY <3>1 DEF Failing, TypeOK, Writing, Lifecycle
  <2>4. CASE RecordFailure(p) \/ Crash(p)
    <3>1. job' = [job EXCEPT ![p] = Idle]
      BY <2>4 DEF RecordFailure, Crash
    <3> QED BY <3>1, EventsAssumption DEF TypeOK, Writing, Lifecycle, Idle
  <2> QED BY <2>2, <2>3, <2>4
<1>3. Processed' \subseteq Processed
  BY DEF LockRow, StartWorkflow, SignalWorkflow, SignalRefused, DispatchFails, Crash,
         RecordFailure, ProcessingFails, Processed, Lifecycle, TypeOK
<1> QED BY <1>1, <1>2, <1>3, LifecycleFrame

\* Taking up a payment's event.
LEMMA LifecyclePayment ==
    ASSUME TypeOK, LifecycleInv, NEW p \in Pollers, NEW e \in Events,
           \/ ApplyFailed(p, e) \/ ApplyCaptured(p, e) \/ ApplySecondSuccess(p, e)
    PROVE  LifecycleInv'
<1>1. e \notin Lifecycle /\ SubscriptionRowFree
  BY DEF ApplyFailed, ApplyCaptured, ApplySecondSuccess, Lifecycle, Selectable
<1>2. subscription' \in {subscription, e}
  BY DEF ApplyFailed, ApplyCaptured, ApplySecondSuccess, RecordCapture
<1>3. Processed' = Processed
  BY <1>1 DEF ApplyFailed, ApplyCaptured, ApplySecondSuccess, LeaseAndCommit,
              Processed, Lifecycle, TypeOK
<1>4. \A q \in Pollers : ~Writing(q)
  BY <1>1, EventsAssumption DEF SubscriptionRowFree, Writing, Lifecycle
<1>5. \A q \in Pollers : ~Writing(q)'
  <2>1. CASE ApplySecondSuccess(p, e)
    BY <1>4, <2>1 DEF ApplySecondSuccess, Writing, Lifecycle
  <2>2. CASE ApplyFailed(p, e) \/ ApplyCaptured(p, e)
    <3>1. PICK b : LeaseAndCommit(p, e, b)
      BY <2>2 DEF ApplyFailed, ApplyCaptured
    <3> QED BY <1>1, <1>4, <3>1 DEF LeaseAndCommit, TypeOK, Writing, Lifecycle
  <2> QED BY <2>1, <2>2
<1>6. Lifecycle' = Lifecycle
  BY DEF Lifecycle
<1>7. subscription' \in Lifecycle => MayShow(subscription)'
  BY <1>1, <1>2, <1>3 DEF LifecycleInv, MayShow
<1> QED BY <1>5, <1>6, <1>7 DEF LifecycleInv

\* Taking up a lifecycle event.
LEMMA LifecycleTaken ==
    ASSUME TypeOK, LifecycleInv, NEW p \in Pollers, NEW e \in Events,
           ApplySubscriptionOnly(p, e)
    PROVE  LifecycleInv'
<1>1. e \in Lifecycle /\ SubscriptionRowFree
  BY DEF ApplySubscriptionOnly, Lifecycle, Selectable
<1>2. Lifecycle' = Lifecycle
  BY DEF Lifecycle
<1>3. \A q \in Pollers : ~Writing(q)
  BY <1>1, EventsAssumption DEF SubscriptionRowFree, Writing, Lifecycle
<1>4. Stale(e) <=> ~MayShow(e)
  BY <1>1, StaleOrShown
<1>5. Stale(e) => NoNewer(e)
  <2> SUFFICES ASSUME Stale(e), subscription \in Lifecycle
               PROVE  OccurredAt[e] <= OccurredAt[subscription]
    BY DEF NoNewer
  <2>1. PICK f \in Processed : OccurredAt[f] > OccurredAt[e]
    BY DEF Stale, Processed, Lifecycle
  <2>2. OccurredAt[f] <= OccurredAt[subscription]
    BY DEF LifecycleInv, MayShow
  <2>3. /\ OccurredAt[f] \in Nat /\ OccurredAt[e] \in Nat
        /\ OccurredAt[subscription] \in Nat
    BY EventsAssumption DEF Processed, Lifecycle
  <2> QED BY <2>1, <2>2, <2>3
<1>6. CASE /\ subscription' = IF Stale(e) THEN subscription ELSE e
           /\ row' = [row EXCEPT ![e] = "PUBLISHED"]
           /\ UNCHANGED job
  <2>1. Processed' \subseteq Processed \cup {e}
    BY <1>6 DEF Processed, Lifecycle, TypeOK
  <2>2. \A q \in Pollers : ~Writing(q)'
    BY <1>2, <1>3, <1>6 DEF Writing
  <2>3. OccurredAt[e] <= OccurredAt[e]
    BY EventsAssumption
  <2>4. subscription' \in Lifecycle => MayShow(subscription)'
    <3>1. CASE Stale(e)
      BY <1>2, <1>5, <1>6, <2>1, <3>1 DEF LifecycleInv, MayShow, NoNewer
    <3>2. CASE ~Stale(e)
      BY <1>4, <1>6, <2>1, <2>3, <3>2 DEF MayShow
    <3> QED BY <3>1, <3>2
  <2> QED BY <1>2, <2>2, <2>4 DEF LifecycleInv
<1>7. CASE /\ UNCHANGED <<row, subscription>>
           /\ job' = [job EXCEPT ![p] =
                         [step |-> "Locked", event |-> e, applied |-> ~Stale(e)]]
  <2>1. Processed' = Processed
    BY <1>7 DEF Processed, Lifecycle
  <2>2. \A f : (MayShow(f)' <=> MayShow(f)) /\ (NoNewer(f)' <=> NoNewer(f))
    BY <1>2, <1>7, <2>1 DEF MayShow, NoNewer
  <2>3. job'[p].event = e /\ (job'[p].applied <=> ~Stale(e))
    BY <1>7, StaleType DEF TypeOK
  <2>4. \A q \in Pollers : q # p => ~Writing(q)'
    BY <1>2, <1>3, <1>7 DEF Writing, TypeOK
  <2>5. IF job'[p].applied THEN MayShow(job'[p].event) ELSE NoNewer(job'[p].event)
    BY <1>4, <1>5, <2>3
  <2>6. (IF job[p].applied THEN MayShow(job[p].event) ELSE NoNewer(job[p].event))'
    BY <1>2, <1>7, <2>1, <2>5 DEF MayShow, NoNewer
  <2>7. subscription' \in Lifecycle => MayShow(subscription)'
    BY <1>7, <2>1 DEF LifecycleInv, MayShow
  <2> QED BY <1>2, <2>4, <2>6, <2>7 DEF LifecycleInv
<1> QED BY <1>6, <1>7 DEF ApplySubscriptionOnly

\* The commit that ends a dispatch.
LEMMA LifecyclePublish ==
    ASSUME TypeOK, LifecycleInv, NEW p \in Pollers, Publish(p)
    PROVE  LifecycleInv'
<1>1. job[p].event \in Events
  BY BusyType DEF Publish, Steps
<1>2. job' = [job EXCEPT ![p] = Idle] /\ Lifecycle' = Lifecycle
  BY DEF Publish, Lifecycle
<1>3. \A q \in Pollers : Writing(q)' => q # p /\ Writing(q) /\ job'[q] = job[q]
  BY <1>2, EventsAssumption DEF Writing, Lifecycle, Idle, TypeOK
<1>4. CASE job[p].event \notin Lifecycle
  <2>1. subscription' = subscription
    BY <1>1, <1>4 DEF Publish, Lifecycle
  <2>2. Processed' \subseteq Processed
    BY <1>4 DEF Publish, Processed, Lifecycle, TypeOK
  <2> QED BY <1>3, <2>1, <2>2, LifecycleFrame
<1>5. CASE job[p].event \in Lifecycle
  <2>1. Writing(p)
    BY <1>5 DEF Publish, Writing
  <2>2. \A q \in Pollers : ~Writing(q)'
    BY <1>3, <2>1 DEF LifecycleInv
  <2>3. Processed' \subseteq Processed \cup {job[p].event}
    BY DEF Publish, Processed, Lifecycle, TypeOK
  <2>4. OccurredAt[job[p].event] <= OccurredAt[job[p].event]
    BY <1>1, EventsAssumption
  <2>5. subscription' = IF job[p].applied THEN job[p].event ELSE subscription
    BY <1>5 DEF Publish, Lifecycle
  <2>6. subscription' \in Lifecycle => MayShow(subscription)'
    <3>1. CASE job[p].applied
      <4>1. MayShow(job[p].event)
        BY <2>1, <3>1 DEF LifecycleInv
      <4> QED BY <2>3, <2>4, <2>5, <3>1, <4>1 DEF MayShow
    <3>2. CASE ~job[p].applied
      <4>1. NoNewer(job[p].event)
        BY <2>1, <3>2 DEF LifecycleInv
      <4> QED BY <2>3, <2>5, <3>2, <4>1 DEF LifecycleInv, MayShow, NoNewer
    <3> QED BY <3>1, <3>2
  <2> QED BY <1>2, <2>2, <2>6 DEF LifecycleInv
<1> QED BY <1>4, <1>5

\* Every step keeps LifecycleInv.
LEMMA LifecycleStep == TypeOK /\ LifecycleInv /\ [Next]_vars => LifecycleInv'
<1> SUFFICES ASSUME TypeOK, LifecycleInv, [Next]_vars PROVE LifecycleInv'
  OBVIOUS
<1>1. ASSUME NEW p \in Pollers, NEW e \in Events, Process(p, e) \/ ProcessingFails(p, e)
      PROVE  LifecycleInv'
  BY <1>1, LifecyclePayment, LifecycleTaken, LifecycleDispatch DEF Process
<1>2. ASSUME NEW p \in Pollers,
             Dispatch(p) \/ DispatchFails(p) \/ RecordFailure(p) \/ Crash(p)
      PROVE  LifecycleInv'
  BY <1>2, LifecycleDispatch, LifecyclePublish DEF Dispatch
<1>3. CASE \/ \E e \in Events : Receive(e) \/ HoldExpires(e)
           \/ \E p \in Payments : ProviderCaptures(p)
           \/ WorkflowCloses \/ ActionCompletes \/ UNCHANGED vars
  <2>1. UNCHANGED <<job, subscription>>
    BY <1>3 DEF Receive, HoldExpires, ProviderCaptures, WorkflowCloses, ActionCompletes,
                domainVars, vars
  <2>2. Processed' \subseteq Processed
    BY <1>3 DEF Receive, HoldExpires, ProviderCaptures, WorkflowCloses, ActionCompletes,
                vars, Processed, Lifecycle, TypeOK
  <2>3. \A q \in Pollers : Writing(q)' => Writing(q)
    BY <2>1 DEF Writing, Lifecycle
  <2> QED BY <2>1, <2>2, <2>3, LifecycleFrame
<1> QED BY <1>1, <1>2, <1>3 DEF Next

\* "older subscription event is published without regressing newer state": however
\* many pollers process the outbox, and however late, retried or interrupted the
\* events are, the subscription never shows an older lifecycle event than one that
\* counts as processed (_apply_subscription_only).
THEOREM LifecycleShowsNewest == Spec => []SubscriptionIsNewest
<1>1. Init => LifecycleInv
  BY EventsAssumption DEF Init, LifecycleInv, Lifecycle, Writing, Idle
<1>2. TypeOK /\ LifecycleInv => SubscriptionIsNewest
  BY DEF TypeOK, LifecycleInv, MayShow, Processed, Lifecycle, SubscriptionIsNewest
<1> QED BY <1>1, <1>2, LifecycleStep, TypeCorrect, PTL DEF Spec
=============================================================================
