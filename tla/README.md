# RecoveryOS: a TLA+ verification project

RecoveryOS watches failed subscription payments and tries to collect them. A
Razorpay webhook says that a payment failed; RecoveryOS opens a *recovery case*
for the invoice, a policy chooses an action (wait, open a payment surface, ask
the customer's agent over A2A, call by voice, stop), a Temporal workflow carries
it out, and later webhooks say that the customer has paid. What makes the system
hard is that all of this happens out of order, more than once, and in several
processes that may die between two steps.

## 1. Inventory

| Component | State | Operations | Interacts with | What is hard |
|---|---|---|---|---|
| Recovery workflow (`services/worker/app/workflow.py`) | signal queue, seen ids, outcome, policy result, action status, A2A task, deadline | one coroutine of activities and waits; eight signal handlers | activities, poller and API (signals), Temporal timers | signals and the clock at every await; activity failure; deadline against signals |
| Webhook intake (`webhooks/repository.py`, `webhooks/razorpay.py`) | inbox entries, outbox rows | `persist`, `ingest` | outbox processor through the two tables | duplicate and concurrent deliveries |
| Outbox processor (`webhooks/processor.py`) | outbox row, invoice, payment attempts, case, ledger, actions, subscription | `process_next` and what it calls | provider snapshots, dispatcher | two commits with an external call in between; pollers in parallel; retries; order of events |
| Temporal dispatcher and poller (`worker/app/outbox.py`) | Temporal executions | start or signal the case's workflow | workflow, processor | workflow closed meanwhile; lost answers |
| Payment activities (`worker/app/runtime.py`, `activities.py`) | action rows, in-flight set, payment links | claim, execute, reconcile, cancel | workflow, provider, voice | uncertain submissions; cancel against create; two workers |
| A2A activities and mandates (`worker/app/a2a_runtime.py`, `integrations/a2a/*`, `a2a/router.py`) | tasks, nonce consumptions, receipts | start, poll and verify, receipt | workflow, customer agent | replay, retry after a lost answer |
| Customer agent (`services/customer-agent/app`) | tasks with revisions | send, decide, cancel, receipt | A2A client | cancel against approve under optimistic versions |
| Case service and operator API (`services/cases.py`, `api/router.py`, `workflows/commands.py`) | case, actions, dispositions | approve, reject, stop, escalate, dispositions | workflow signals | commit, then a signal that fails |
| Decision engine, diagnosis, policy (`services/decision_engine.py`, `safety/policy.py`, ...) | none | rank actions, evaluate policy | processor, API | boundaries of quiet hours, amounts, attempts |
| Voice (`app/voice/*`, `integrations/voice/*`) | call sessions, events | start, callbacks, cancel | workflow, providers | callbacks out of order; uncertain cancel |
| Reliability helpers (`app/reliability/*`) | breaker state | before_call, record, reconcile; projections | provider clients | late results in HALF_OPEN |
| Razorpay client (`integrations/razorpay/client.py`) | none | payment links, payment snapshot | activities, processor | uncertain creates |
| Onboarding, authentication, health, simulator, schema, ML, web console, deployment | see PROJECT.json | | | not modelled |

What makes each of the modelled components correct:

* **workflow**: a signal is handled once; RECOVERED rests on authoritative
  evidence; a receipt goes out only for an exact capture; gated outreach starts
  only inside its window; every normal end has asked for its outreach to be
  cancelled; a delivered signal is handled before the case expires; every run ends;
* **outbox**: money is counted once and never beyond what was at risk; the case is
  RECOVERED exactly when paid up; captures never regress; nothing is published
  that was not dispatched; every recognised success reaches a workflow; the
  subscription shows no older lifecycle event than one that counts as processed;
* **payment actions**: no more creates are sent blindly than were authorized, whatever
  is delivered again; one delivery or cleanup at a time decides what became of it; a completed
  action names a real link; a cancelled action stays cancelled and is cancelled, once
  completed, only when its link is dead.

* **reconciliation**: a workflow run is told of a recovery only when a payment is
  captured and the amounts add up to what was at risk;
* **mandates**: the customer is asked once; consent is given, reserved and used at
  most once; a finished task is final; a consumed mandate survives lost answers; a
  task is completed only for money that came; a decision reaches the workflow unless
  it is over first;
* **voice**: one call per idempotency key and one hang-up per cancellation key; no
  live call hides behind a finished row; a succeeded action has its call; a
  recorded opt-out suppresses the customer; after a submission in doubt no call before
  one is confirmed;
* **case service and decisions**: an action held for approval runs only after one;
  a closed case at rest stays at rest; a stop is heard by the workflow; quiet hours,
  policy and choice are right at every boundary.

PROJECT.json lists the hazards behind these properties, each at its line.

## 2. Modules

| Module | Models |
|---|---|
| `RecoveryWorkflow` | `RecoveryCaseWorkflow` |
| `RecoveryWorkflowProofs` | its theorems |
| `MCRecoveryWorkflow` | its instances for TLC |
| `WebhookOutbox` | intake, outbox processor, dispatcher and pollers, for one invoice |
| `RevenueLedger` | abstract specification: what the revenue ledger of a case promises |
| `WebhookOutboxProofs` | theorems about `WebhookOutbox`, and that it implements `RevenueLedger` |
| `MCWebhookOutbox` | its instances for TLC |
| `PaymentAction` | execution and cancellation of payment actions, operator commands, payment-link API |
| `PaymentActionProofs` | its theorems |
| `MCPaymentAction` | its instances for TLC |
| `CaseReconciliation` | composes `WebhookOutbox` with `reconcile_case` and the payment snapshot |
| `CaseReconciliationProofs` | its theorem |
| `MCCaseReconciliation` | its instance for TLC |
| `A2AMandate` | customer agent, A2A activities, nonce store, execution under a mandate |
| `SingleUseConsent` | abstract specification: what the agent protocol promises |
| `A2AMandateProofs` | theorems about `A2AMandate` |
| `MCA2AMandate` | its instance for TLC |
| `CircuitBreaker` | the breaker, as functions of its state |
| `VoiceContact` | calls to one customer: starts, callbacks, cancellation, with the breaker |
| `VoiceContactProofs` | its theorems |
| `MCVoiceContact` | its instance for TLC |
| `DecisionPolicy` | diagnosis, eligible actions, ranking, policy and quiet hours, as functions |
| `DecisionPolicyProofs` | theorems about those functions |
| `CaseService` | operator requests on one case, their signals, the worker's claims |
| `CaseServiceProofs` | its theorems |
| `MCCaseService` | its instance for TLC |

Every module also holds faulty forms of some of its definitions (named in its
header), each a plausible mistake in the code, which the properties detect when
they take the place of the definition they follow.

### RecoveryWorkflow

A step is the code between two awaits. `pc` names the await: an activity
(`"Execute"`, `"Reconcile"`, ...), `"Wait"` for `wait_condition`, or `"Drain"`
inside `_drain_signals`. `site` says which of the three loops the drain returns
to (`_wait_until`, `_wait_for_approval_or_terminal`, the main loop), and `then`
what follows the CANCEL activity being awaited. `Deliver` (the signal handlers,
which only enqueue) and `Tick` are enabled at every await, so signals and
time interleave with every activity. Each `Handle...` action is one handler up to
its first await that matters; `...Returns` are the continuations. An activity's
result is any value of its contract; `ActivityFails` is an activity out of
attempts, which raises through `run()`. The first branch of the drain loop that
finishes the case leaves later signals in the queue, as the code does.

Abstractions: CUSTOMER_INTENT is split by intent, APPROVAL by its flag, A2A_UPDATE
by whether it names the workflow's own task; amounts are reduced to "exactly the
amount at risk or not"; audit activities appear only as places to fail; fields
that only the status query reads are left out. `outreach`, `outreachAt`,
`cleanup` and `evidence` are history variables: no action's guard reads them.

### WebhookOutbox

The state is the rows of the database that concern one invoice, what each poller
is doing, and what Temporal knows. A transaction that locks what it reads is one
step (`ApplyFailed`, `ApplyCaptured`, ...). After `LeaseAndCommit` the dispatch is a
sequence of steps (`LockRow`, `StartWorkflow`, `SignalWorkflow`, `Publish`) that
may fail or crash at every point. `Holds` is the row lock: the dispatcher's first
query flushes `attempt_count`, so the row is locked again until the final commit;
a lifecycle event with a case keeps its first transaction, and so the
subscription's row, open across the dispatch. A failed poller first rolls back
(`Failing`) and records the failure in a transaction of its own (`RecordFailure`),
because other pollers can act in between. Leases and back-offs are `"HELD"` rows
that `HoldExpires` frees at any time. The environment: the provider captures
payments and keeps the invoice snapshot up to date, webhooks arrive in any order
(a success only after its capture; a duplicate delivery writes nothing), workflows
close, the initial action completes, pollers crash.

Amounts are small integers. Widths do not matter here: paise amounts are bounded
by the invoice in every sum the code makes.

### RevenueLedger

A case opens once for a positive amount; a payment is recognised once and only
within what is still at risk; the outcome follows from the arrears. It is
instantiated in `WebhookOutbox` with `recognised` mapped to the payments of the
ledger records; `LedgerRefined` is its specification.

### PaymentAction

The rows are functions over `Actions` (the idempotency key allows one action per case
and surface, so an instance has one of either surface). A delivery of the execute
activity walks through `pc`: `claimed`, `preflight`, `posted`, `accepted`, `persist` is
the first submission, which holds no lock and is noted in its process's
`_payment_submissions_in_flight` (`inFlight`) between `EnterTry` and `LeaveTry`;
`reconcile`, `lookup`, `resubmit`, `reposted`, `reaccepted` is
`_reconcile_or_resume_standard_payment_link`, under the row lock. `Abort` is every
exception (breaker, failing GET, subscription not halted), timeout and process death:
the lock goes, the row stays as committed, a request already sent stays on the `wire`
and may be accepted at any later time. A cleanup locks the rows it selects, settles
them one by one, in what it has `staged`, and commits all or nothing. A request of an
operator reads the row first and writes it later: SQLAlchemy's `FOR UPDATE` waits for
the lock but does not refresh an object that the session already holds.

External: Razorpay's payment links. `reference_id` is unique, as the code assumes
when it calls a second match ambiguous; a lookup is authoritative at the instant it is
answered; partially paid counts as paid. A cancel request whose answer is lost has
taken effect at once or not at all.

Left out: the branch of the claim whose conditional UPDATE finds another status (the
row is locked by then), the A2A claim and voice actions (below), the mock provider,
and audit events. The two surfaces that are not created (invoice link, card update)
behave alike and one stands for both.

### CaseReconciliation

`EXTENDS WebhookOutbox` and adds the activity its signals lead to. `BeginReconciliation`
is the session of `reconcile_case`: a recognition of the trigger (of any event, once the
case has recovered) answers at once; a webhook that names no capture is unreconciled;
otherwise `reading` keeps what the session found to be missing while the provider is
asked. `FinishReconciliation` compares the snapshot with it: pollers may have credited
the case in between. `told` is the recovery the workflow was told of last, on which
`RecoveryWorkflow` ends as RECOVERED. It has no effect on `WebhookOutbox`'s own
variables, as the code writes nothing.

The provider's answer to an ALREADY_PAID reconciliation is the invoice's current
payment, whichever it is. When a part payment that is already recognised equals the
remainder, the code counts it as the rest and reports a recovery: `ToldIsPaidUp` asks
for the ledger's own total only of what a webhook triggered.

### A2AMandate and SingleUseConsent

One SEND_TO_CUSTOMER_AGENT action. The agent's task is a record with a revision; a
handler loads it (`LoadDecision`, `LoadCancel`, `LoadReceipt`), works on the copy, and
saves it if the revision is still the one it loaded (`Saves`), which is the
compare-and-swap of `TaskStore.save`. The cancellation reads again on a conflict, three
times in all; a decision and a receipt are answered with the conflict. The worker sends
the request until it hears the answer (`SendRequest`, `CreateTask`): the display context
is rebuilt from the database each time, and a different one under the same idempotency
key is a conflict. An execution claims the consumed mandate and the action, opens the
invoice link and persists it; it may die between any two of these.

`workflow` is the main loop of `run` as far as the mandate needs it. In the `loop`, before
the deadline and while nothing has ended it, a poll may be due (`Polling`, `BeginPoll`);
in a `poll` up to `MaximumAttempts` attempts read the task (`Reading`), then verify and
consume the mandate (`Consume`), and each answer may be lost after the commit. What is
heard goes back to the loop or, being a refusal, ends the workflow (`Hears`), and so does
the last failed attempt (`PollFails`). An attempt given up goes on: it still consumes, and
nobody listens. `WorkflowEnds` stands for every other end that `RecoveryWorkflow` has.

`provider` is what Razorpay has captured, `case` and `exact` are what the row says of it,
later (`Captured`, `PartCaptured`). `Settle` is an authoritative reconciliation of the
workflow, by a payment signal or an ALREADY_PAID intent, that sends a receipt. By
`reconcile_case` it applies (`ReceiptApplies`) when the row is recovered, or when the
payment the provider shows equals what the row still misses: a receipt may so precede the
paid row, follow a part payment and the rest, or rest on half of the amount counted twice
(section 4). `Stop` and `CancelAction` are what the rest of the system does to the case
and the action meanwhile. A customer who pays more than is due is left out: the amounts
then differ and no receipt is sent.

`SingleUseConsent` is asked, given or refused, perhaps withdrawn, reserved once and
used once. The refinement reads consent off the task's state and mandate, and the use
off the claim and the history variable `opened`. A withdrawal that reaches the agent
after the mandate was polled loses the race with the reservation, as it does in the code.

### VoiceContact and CircuitBreaker

The calls to one customer: rows by idempotency key with the partial unique index on
active rows (`IndexHolds`), start requests of operators and attempts of the worker's
START_VOICE activity through the same `VoiceContactService.start`, callbacks, and the
cancellation after a payment. A request goes through `begun`, `allowed`, `reserved`
(committed before Twilio is called), `posting`, `answered`; it may be cut off after each,
alone or with its process, whose breaker then starts afresh. Handlers work on the row
their session loaded first and write the columns they changed. A Twilio call exists
from the moment the POST reaches it, whatever the answer says.

`CircuitBreaker` has the transitions of `before_call`, `record_success` and
`record_failure` as operators on a record, so that a process, or another module, can keep
one per operation. The history variable `doubtful` has the processes with a submission
in doubt: one that timed out or was answered 5xx, and no confirmed call since.

What the model shows of the code beyond the properties: a start that was waiting saves
its answer over the status a callback or a cancellation wrote meanwhile; a callback
that loaded the row before a cancellation can make it active again; a row left RESERVED
by a crash keeps the one-call slot for good, while an UNCERTAIN one frees it although
the call may be live (docs/security/deployment-controls.md:32 says "calls are one
concurrent"); a hang-up that failed is not tried again; a voice action cancelled during
the call is completed by `_finalize_voice_action`; an exception that is not one of
Twilio's expected ones is not reported to the breaker; a success of one call in flight
clears the uncertainty another has caused.

### DecisionPolicy and CaseService

`DecisionPolicy` has no state: the functions are put to contexts that
`CaseService` reaches. An error token is the class it belongs to, a score is a rank, a
day has `DayLength` hours. Reference definitions (`Quiet`, `PolicyIsSafe`,
`ChoiceIsSound`) say what the functions should return without following their code.

`CaseService` is one case under overlapping requests. A request that loads before it
locks keeps what it loaded (`request[o].copy`): the review of an action and the plain
stop and escalate endpoints do, the command endpoint does not. After the commit the
request still has to deliver its signal (`Deliver`), and may be lost before that. The
worker claims actions by compare-and-set on status, stored policy and due time at any
moment (`ClaimAction`); the workflow appears by its policy evaluation and its end.

What the model shows of the code beyond the properties: an approved action runs at once
even in quiet hours, and one delayed for them needs no approval afterwards
(`EvaluateSafetyPolicy`'s order); the contact limit of README.md:140 is never enforced
because no caller counts contacts; a recommendation computed before a stop is inserted
after it; a stop decided on a stale copy overwrites RECOVERED, and an approval on one
revives a cancelled action; an approval whose signal is lost cannot be repeated; a
safety disposition is never signalled. `ClosedStaysAtRest` therefore speaks of a case
that has come to rest, with no request in progress.

## 3. Runs

| Run | Instance | Shows |
|---|---|---|
| `workflow_safety` | 2 signal ids, all 13 signal kinds, 4 actions, deadlines {0, 2}, delays {1, 3}, clock to 3; 1.2 million states | type correctness and the six safety properties |
| `workflow_closes` | the same with one signal; fairness | every run ends |
| `workflow_recovered_overwritten` | as `workflow_safety` | **violation**: RECOVERED is overwritten by EXPIRED in the approval wait |
| `workflow_opt_out` | as `workflow_safety` | **violation**: outreach after an opt-out |
| `outbox_safety` | 2 pollers, any number of crashes, invoice of 3, payments of 1 and 2, one failure and three success events (two of the same payment), invoice not imported; 1.2 million states | money, publication and regress properties; refinement of `RevenueLedger` |
| `outbox_live` | `CaseReconciliation` with 1 poller, any number of crashes, 2 workflow runs, a failure, a capture and a lifecycle event; fairness; 0.1 million states | a run is told of a recovery only when it is paid up; recognised successes are signalled |
| `outbox_lifecycle` | 2 pollers, any number of crashes, 2 workflow runs, a failure, a capture and two lifecycle events; 1.5 million states | the subscription shows no older lifecycle event than one that counts as processed |
| `payment_safety` | 1 action of either surface and any policy, 3 deliveries in 2 processes, 1 cleanup, 2 operators; 2.9 million states | type correctness and the five safety properties |
| `payment_stop` | 1 delivery, 1 cleanup, no operator | **violation**: a stop leaves a link payable |
| `mandate_safety` | 2 requests at the agent, polls of 2 attempts one after the other, 2 executions, 1 display context, a payment at once or in two parts, clock to 2; fairness; 1.4 million states | consent, receipts, final tasks, lost answers; refinement of `SingleUseConsent`; decisions are heard |
| `voice_safety` | 1 operator request and 2 activity attempts in 1 process, 1 callback, 1 cancellation, 2 in progress at a time; 1.8 million states | type correctness and the five safety properties |
| `case_safety` | 2 operator requests with all commands between them, 1 named recommendation, 2 dispositions, clock to 2 in a day of 3; fairness; 0.3 million states | approvals, rest, decisions; stops are heard |

*Bounds.* `MaxTime`, `SignalIds` and `MaxRuns` are the only bounds that cut behaviour
off. Two signals are enough for one to finish the case while another is queued, for an
approval to meet a payment and for a repeated id; the clock reaches past every deadline,
delay and poll; deadline 0 is a workflow that starts expired and delay 3 one that the
deadline overtakes. Two pollers that may crash let one act between any two steps of the
other. The two payments together pay the invoice exactly, so the case passes through
PARTIALLY_RECOVERED to RECOVERED, or is opened late for what the hydrated invoice has
left. START_VOICE and ESCALATE_TO_HUMAN take the same path in the workflow as a payment
surface and are left out of the instance. Signal ids, and pollers where both are
interchangeable, are symmetric. In `payment_safety` two deliveries share a process, so a
redelivery meets the in-flight set of its own process and that of another one; three let
two reconcile while the first create is out; a cleanup that was rolled back is tried
again. Two operators may send any number of commands, which overlap. `MaxInFlight`
bounds the voice requests that overlap: two are enough for each pair of handlers to
interleave at every await, and a third attempt follows when one is lost.
`mandate_safety`'s clock passes the expiry of a request and of a mandate; `Deadline` and
`MandateTtl` meet. Two attempts of a poll are enough for a lost answer and its retry
(the code allows three). The conflict of two display contexts is not in the instance;
the theorems hold for any number of them. `case_safety` gives o1 STOP, PAY and APPROVE
and o2 RECOMMEND, REJECT and ESCALATE, so every two of them overlap across the two
groups; its policies are all four, its quiet intervals lie within a day and around
midnight, and the amount at risk lies below one approval threshold and at another.
Deadlock is not checked: a closed workflow, a drained outbox and finished deliveries
really stop.

*Fairness.* Workflow: Temporal resumes a runnable coroutine, completes or times
out activities (start-to-close timeouts are set in `_activity`) and fires timers,
hence weak fairness of `AwaitReturns`, `Wake`, `Drain`, `Resume` and `Tick`; none
is assumed of signals or of failures. Outbox: `run_razorpay_outbox_poller` never
stops polling and leases run out, hence weak fairness of a poller's `Dispatch`, of
`RecordFailure` and of `HoldExpires`; each step that a success event needs and that is
possible again and again, although provider and Temporal may fail it any finite number
of times, eventually succeeds (strong fairness per success event). A poller may crash
any number of times (strong fairness carries a step through that as well), and nothing
is assumed of webhooks or of other events. Mandates: the timers of the next poll and of
the deadline fire while the workflow waits (weak fairness of `BeginPoll` as long as the
mandate is pending, and of `DeadlineExpires`), an attempt returns or times out and is
retried (weak fairness of a poller's steps, losing the answer being one of them), and the
last one fails the workflow (weak fairness of `PollFails`). That any answer is heard is
not assumed, nor that time passes. Case service: a handler
that runs is not stopped for ever, an operator whose stop was answered with an error
repeats it, and Temporal is not out of reach for ever (strong fairness of `CommandStop`
and `Deliver`); nothing is assumed of other commands, of the workflow or of the worker.

## 4. What the violations say

1. `workflow.py:323`: the approval wait tests the deadline after each drain
   without testing `_terminal`, as `_wait_until` does. A payment handled as the
   deadline passes is finished RECOVERED and then again EXPIRED.
2. `workflow.py:219`: `_outreach_suppressed` is never read before an action is
   executed. An opt-out during a delay, an approval wait or an A2A authorisation
   is followed by outreach.
3. `runtime.py:1350`: a stop (or an escalation, a safety disposition, a payment)
   commits the open actions as CANCELLED; the workflow's cleanup then looks only at
   EXECUTING and SUCCEEDED ones. A link whose create was accepted while its delivery
   was timing out is never looked up, and stays payable.

Four more have no run of their own; the properties say exactly how far the code goes:

4. `processor.py:620`: `_record_failure` resets `published_at` and `processed_at` without
   looking at them. A poller that failed can un-publish what another has published; an
   older lifecycle event is then no longer stale and may be shown. `SubscriptionIsNewest`
   therefore compares with the events that count as processed.
5. `cases.py:407`: the status tested under the lock is the one read before it. Two
   approvals at once both pass; the second turns an EXECUTING row back to SCHEDULED,
   and the next delivery sends a second create without a lookup. `CreatesAreAuthorized`
   therefore counts approvals.
6. `runtime.py:1182-1222`: an ALREADY_PAID reconciliation compares the invoice's current
   payment with what the row misses. Half of the amount, credited already, equals the
   other half: the workflow ends RECOVERED and the customer's agent gets a receipt for
   the full amount. `CompletedWasPaid` names the case (`PartCountsTwice`).
7. `circuit_breaker.py:89-94`: `record_success` of a call submitted before clears the
   uncertainty of another one, although the docstring (`circuit_breaker.py:43-49`) asks
   for a reconciliation. `DoubtStopsCalls` holds until such a confirmation.

## 5. What is proved

For every value of the constants that satisfies the named assumptions
(`RecoveryWorkflow`: `ConstantsAssumption`, `NoneAssumption`; `WebhookOutbox`:
`AmountsAssumption`, `EventsAssumption`; `CaseReconciliation`: `TriggerAssumption`;
`PaymentAction`: `ActionsAssumption`; `A2AMandate`: `TimeAssumption`,
`AttemptsAssumption`, `NoneAssumption`; `VoiceContact`: `VoiceAssumption`, with
`ThresholdAssumption` of the breaker; `DecisionPolicy`: `DayAssumption`, `NoneIsNoTime`;
`CaseService`: `CaseAssumption`, `NoneIsNoAction`). They type the constants and keep
`None` apart from values. Two say something about the system: no delivery is a cleanup
(`ActionsAssumption`), and a merchant's settings are those
`SafetyPolicyConfig.__post_init__` accepts (`PolicySettings`: quiet hours that begin and
end at different times, or none).

Every safety property that a passing run checks is proved, with no further hypothesis.

* `RecoveryWorkflowProofs!TypeCorrect`: the type invariant, action by action.
* `RecoveryNeedsEvidence` and `ReceiptNeedsCapture`: from `SettledInv`. Neither
  property is inductive alone: that nothing takes a capture back needs that a
  terminal workflow never reconciles again and that a delivered receipt is followed
  only by the cancellation and the finish.
* `OutreachWaitsForItsGate`: from `GatedInv`, which adds why each gate holds: the
  wait a workflow is in tells its disposition, nothing is submitted before the policy
  has answered, and a mandate is polled only for a task an earlier submission began.
* `SignalsHandledOnce`: from `SignalInv`. That the ids in the queue are distinct and
  all seen is inductive only with the count: a handled signal leaves the queue and is
  counted, a duplicate is refused because its id is in the finite set `seen`.
* `DrainsBeforeExpiry`: from `ExpiryInv`, that a cancellation is awaited for its own
  cause only and that a case is EXPIRED only by the step that ends the coroutine.
* `ClosingCancels`: from `ClosingInv`, which says where the coroutine can be with
  outreach submitted and not cancelled: nothing has been submitted before the policy
  answered or while a gate is waited for, and `_cancel_active_action` finds nothing to
  cancel only when the provider refused.
* `WebhookOutboxProofs!TypeCorrect`: the type invariant (proved, so no run spends a
  check on it).
* `RecoveredExactlyWhenPaidUp`, `CapturesAreFinal`: from `LedgerInv`, which says what
  every outcome implies for the arrears; without it a repeated success event could
  change the outcome.
* `PublishedIsDispatched`: from `DispatchInv`, which says of each poller's job how far
  its dispatch has come (`Dispatched`), and that nothing it relied on is taken back
  (`Grows`): a run that was started stays started, a superseded failure superseded.
* `LedgerAlwaysBalances`: from `LedgerInv` and `SumInv`, that the ledger is finite and
  its total is the arrears. The total folds a set in an order that `CHOOSE` picks; that
  a recognition adds its amount whatever the order (`TotalOfMore`) is proved by
  induction on the number of elements. The library's induction theorems take a
  predicate, which the provers cannot instantiate; `NatSetInduction` takes a *set* of
  numbers instead and follows from the well-foundedness of the naturals.
* `LifecycleShowsNewest`: from `LifecycleInv`. The subscription's row lock lets one
  poller at a time write a lifecycle event, so one that was found current still is when
  it is committed, and one that was found stale is no newer than what is shown; an
  event taken back by `_record_failure` only leaves fewer to compare with.
* `LedgerImplementsRevenueLedger`: every step of the processor is a step of the
  abstract ledger or leaves it alone.
* `CaseReconciliationProofs!ToldOfPaidUpCases`: the composition first implements
  `WebhookOutbox` (`ReconciliationImplementsOutbox`), so its invariants carry over.
  A success that was signalled is in the ledger (`DispatchInv`), hence a webhook's
  reconciliation is answered by the ledger alone; what was read before the provider
  was asked stays true, because an open case keeps what is at risk
  (`ReconciliationInv`).
* `PaymentActionProofs!TypeCorrect`, `SucceededIsLinked`, `OneDecider`,
  `CancelledIsFinal`, `CancelsDeadLinks`: from `Inv`, whose parts are `Held` (a delivery
  that reconciles and a cleanup hold their rows, which are still in the status they were
  read in) and `Linked` (what a row, an answer or a stage says of a link is true). None
  of the five is inductive: a lookup that completes an action must know that the row was
  not cancelled since, a commit of a cleanup that what it staged is still so. `ActionsAssumption`
  is used where a delivery and a cleanup meet.
* `NeverBlindlyRepeated`: from `BudgetInv`. The blind creates sent, the deliveries on
  their way to one and a row that can be claimed together never exceed what was
  authorized (`WithinBudget`): a claim takes the row away for the delivery it begins, a
  create the delivery, and only an approval of an action that needs one gives the row
  back, being counted.
* `A2AMandateProofs!TypeCorrect`, `ConsentOpensOnce`, `CompletedOnlyIfPaid`,
  `FinalTasksStay`, `ConsumedStaysGood`: from `Inv`. `TaskOK` ties a task's revision to
  its state; `HoldsCopy` says that a handler's copy with the task's revision *is* the
  task, which is why compare-and-swap leaves only the moves of `TaskMoves`. The mandate
  is written once, so whoever holds one holds that one (`MandateInv`), and the claim on
  it is executed by one delivery at a time that opens a surface once (`SpendInv`).
  `CompletedOnlyIfPaid` also needs `MoneyInv`: a paid row, a credited part and a settled
  workflow each say something of what the provider captured, and no later step undoes it.
* `ProtocolImplementsConsent`: every step of agent, polls, executions and environment
  is a step of `SingleUseConsent` or leaves it alone.
* `VoiceContactProofs!TypeCorrect`, `OneCallPerKey`, `OptOutsAreKept`,
  `UncertaintyStopsCalls`: from `Inv`. A reservation belongs to one request and a
  reserved request has not posted (`SubmitInv`); a cancellation that has claimed is
  the only one with its key and nothing was hung up under it (`CancelInv`); a callback
  about to hang up has suppressed the customer (`CallbackInv`); a breaker that remembers
  an uncertain submission is open, and that of every process in doubt does (`BreakerInv`).
  No step takes a row away (`RowStep`),
  on which the first three rest.
* `LiveCallsAreVisible`, `SuccessWasCalled`: from `CallInv` on top of `Inv`: what each
  status of a row says of its call (`RowFact`), and what every request, callback,
  cancellation and open transaction knows that it will write (`StartFact`,
  `CallbackFact`, `CancelFact`, `PostFact`, `ActionFact`).
* `DecisionPolicyProofs!QuietHoursAreExact`, `PolicySafety`, `ChoiceSoundness`: about the
  functions, for every length of the day, setting, context, evidence and score. The
  first is arithmetic modulo the day, in the two cases of an interval that does and
  does not go around midnight; the third needs that the ranking is a strict
  total order (`TiePriority` leaves no tie), so that every set of candidates has a best.
* `CaseServiceProofs!TypeCorrect`, `ApprovalIsRequired`, `DecisionsAreSound`,
  `RestIsKept`: a held action leaves AWAITING_APPROVAL only by an approval or to
  CANCELLED, also when the reviewer's copy is stale; `DecisionsAreSound` is `ChoiceSoundness` and
  the other two in every context a request can meet, which `TypeOK` makes a member of
  `Contexts`; a case at rest has no step that leaves it.

Only model-checked are the liveness properties `Closes`, `RecognisedIsSignalled`,
`DecisionIsHeard` and `StopIsHeard`: fairness and ENABLED are out of the prover's reach.

## 6. Not modelled

* Signature checking, JSON and HTTP: the Razorpay client's transport and normaliser,
  the JSON-RPC facade `a2a/router.py`. A message is what it says once it is decoded.
* Onboarding, authentication, health probes, the simulator and failure lab, the ML
  model, the web console, the schema's migrations and deployment: I/O, configuration or
  presentation without protocol state. What onboarding leaves behind is the constant
  `Imported`.
* The status query of the workflow; audit events, except as places to fail.
* The mock payment provider, with `reconcile_case`'s fallback to it, and the mock
  payment surfaces of the demonstration.
* Voice: `fetch_contact` and `reconcile_payment_cancellation`, which no production code
  calls, the in-memory repository, audio and speech.
* Case service: `apply_late_failure_event`, which has no caller, updates of the policy
  settings, and the read endpoints.
* `reliability/optimistic.py` and the two projections, which only tests and the failure
  lab use.
* Decisions: daylight saving changes, the contact limit (no caller passes a count) and
  the statistical score, which is an input.
* Several invoices of one subscription: every row the processor writes except the
  subscription's belongs to one invoice.

## 7. Plan

The modules of the plan are written. What is left, in this order:

1. An abstract specification of a payment action (one submission, one final status)
   that `PaymentAction` implements; liveness of redelivered activities.
2. `CaseService` composed with `RecoveryWorkflow`: the operator's commit, its signal and
   the workflow's approval wait in one state space.
