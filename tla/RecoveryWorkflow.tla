-------------------------- MODULE RecoveryWorkflow --------------------------
(***************************************************************************)
(* RecoveryCaseWorkflow (services/worker/app/workflow.py): the durable     *)
(* coroutine that works one failed invoice.  One step of the model is the  *)
(* code between two awaits.  Activities are external calls whose result is *)
(* any value of their contract; an activity that exhausts its retries      *)
(* raises and fails the workflow.  Signal handlers only enqueue, so a      *)
(* signal may arrive at any step and the clock may advance at any step.    *)
(* Audit activities change nothing the workflow reads: they appear only as *)
(* places where a handler can fail (HandlerAuditFails before it acted,     *)
(* ActivityFails after a result).  Fields that only the status query and   *)
(* the audit trail read (phase, diagnosis, a2a_state, contact_disposition, *)
(* subscription state, duplicate count) are left out.                      *)
(*                                                                         *)
(* DeliverAgain, FinishCopiesOutcome, NothingToCancelIfUncertain,          *)
(* WakeOnSignalOnly, DrainedEarly, ExpiredLate, ReceiptAppliesToPartial    *)
(* and ProvesRecoveryUnverified are faulty forms of the definition that    *)
(* follows them, kept to show that the properties notice.                  *)
(***************************************************************************)
EXTENDS Integers, Sequences, FiniteSets

CONSTANTS SignalIds,       \* signal ids a sender may use (and reuse)
          Kinds,           \* the kinds of signal delivered
          PolicyActions,   \* the actions the policy may select
          Deadlines,       \* possible recovery_deadline instants
          DelayTargets,    \* possible policy.delay_until instants
          PollInterval,    \* _A2A_POLL_INTERVAL
          MaxTime,         \* bound: the clock stops here
          None             \* Python's None

\* CUSTOMER_INTENT is split by intent, APPROVAL by its flag and A2A_UPDATE by
\* whether the task id is the one the workflow started.
SignalKinds == {"APPROVE", "REJECT", "PAYMENT_EVENT", "OPT_OUT", "CANCELLATION",
                "OPERATOR_ESCALATION", "A2A_UPDATE", "A2A_UPDATE_OTHER_TASK",
                "MANDATE", "INTENT_OPT_OUT", "INTENT_DISPUTE",
                "INTENT_ALREADY_PAID", "INTENT_OTHER"}

Actions == {"WAIT_FOR_GATEWAY_RETRY", "STOP", "SEND_TO_CUSTOMER_AGENT",
            "OPEN_CUSTOMER_PAYMENT_SURFACE", "START_VOICE", "ESCALATE_TO_HUMAN"}

Outcomes == {"RECOVERED", "DISPUTED", "STOPPED", "ESCALATED", "EXPIRED"}

Dispositions == {"ALLOW", "DELAY", "REQUIRE_MANUAL_APPROVAL", "BLOCK"}

\* Why a cancellation of the active action is awaited.
Causes == {"SUPPRESS", "DISPUTE", "CANCELLED", "ESCALATED", "PAYMENT", "DEADLINE"}

ExecutionStatuses == {"SUCCEEDED", "FAILED", "REJECTED", "UNCERTAIN"}

\* A remote task state matters here only as WORKING (poll at once), FAILED
\* (never cancelled again) or any other.
A2AStates == {"AUTH_REQUIRED", "WORKING", "FAILED"}

ActionStatuses == ExecutionStatuses \cup A2AStates
                      \cup {"SCHEDULED", "EXECUTING", "CANCELLED"}

ASSUME ConstantsAssumption ==
    /\ Kinds \subseteq SignalKinds
    /\ PolicyActions \subseteq Actions
    /\ Deadlines \subseteq Nat
    /\ DelayTargets \subseteq Nat
    /\ PollInterval \in Nat \ {0}
    /\ MaxTime \in Nat

ASSUME NoneAssumption ==
    /\ None \notin Nat
    /\ None \notin BOOLEAN
    /\ None \notin Actions \cup Outcomes \cup Causes \cup ActionStatuses

VARIABLES
    pc,            \* the await the coroutine is at
    site,          \* which wait loop the drain returns to
    then,          \* what follows the CANCEL activity being awaited
    queue, seen, processed,                 \* _signals, _seen_signal_ids, count
    terminal, outcome,
    disposition, action, delayUntil,        \* the policy result
    actionStatus, paymentState,
    exactArrears,  \* arrears_collected_paise = amount_at_risk_paise
    approval, suppressed,
    a2aTask, nextPoll, mandate, receiptSent,
    scoped,        \* the input names an exact surface and a durable action
    now, deadline,
    \* What the outside world saw, for the properties only:
    outreach,      \* outreach submissions (START_A2A or EXECUTE) begun
    outreachAt,    \* when the first of them began
    cleanup,       \* a cancellation was requested after the last of them
    evidence       \* an authoritative reconciliation proved recovery

frame     == <<pc, site, then>>
mailbox   == <<queue, seen, processed>>
policy    == <<disposition, action, delayUntil>>
result    == <<terminal, outcome, paymentState>>
consent   == <<approval, suppressed>>
a2a       == <<a2aTask, nextPoll, mandate, receiptSent>>
input     == <<scoped, deadline>>
history   == <<outreach, outreachAt, cleanup, evidence>>
vars == <<frame, mailbox, policy, result, actionStatus, exactArrears, consent,
          a2a, input, now, history>>

----------------------------------------------------------------------------
Closed == {"Done", "Failed"}
Activities == {"Normalize", "Diagnose", "Score", "Policy", "StartA2A", "Poll",
               "Execute", "Reconcile", "Receipt", "Cancel"}
Sites == {"DELAY", "APPROVAL", "LOOP"}

Reconciliations ==
    [authoritative : BOOLEAN, recovered : BOOLEAN,
     state : {"FAILED", "CAPTURED"}, exact : BOOLEAN, reference : BOOLEAN]

Init ==
    /\ pc = "Normalize" /\ site = "LOOP" /\ then = None
    /\ queue = <<>> /\ seen = {} /\ processed = 0
    /\ terminal = FALSE /\ outcome = None
    /\ disposition = None /\ action = None /\ delayUntil = None
    /\ actionStatus = None /\ paymentState = "FAILED" /\ exactArrears = FALSE
    /\ approval = None /\ suppressed = FALSE
    /\ a2aTask = FALSE /\ nextPoll = None /\ mandate = FALSE /\ receiptSent = FALSE
    /\ scoped \in BOOLEAN /\ deadline \in Deadlines /\ now = 0
    /\ outreach = 0 /\ outreachAt = None /\ cleanup = FALSE /\ evidence = FALSE

----------------------------------------------------------------------------
(* The signal handlers and the clock: enabled at every await. *)

DeliverAgain(id, kind) ==
    /\ pc \notin Closed
    /\ seen' = seen \cup {id}
    /\ queue' = Append(queue, [id |-> id, kind |-> kind])
    /\ UNCHANGED <<frame, processed, policy, result, actionStatus, exactArrears,
                   consent, a2a, input, now, history>>

\* _enqueue: a repeated id is counted and dropped, whatever its payload.
Deliver(id, kind) ==
    /\ pc \notin Closed
    /\ id \notin seen
    /\ seen' = seen \cup {id}
    /\ queue' = Append(queue, [id |-> id, kind |-> kind])
    /\ UNCHANGED <<frame, processed, policy, result, actionStatus, exactArrears,
                   consent, a2a, input, now, history>>

Tick ==
    /\ pc \notin Closed
    /\ now < MaxTime
    /\ now' = now + 1
    /\ UNCHANGED <<frame, mailbox, policy, result, actionStatus, exactArrears,
                   consent, a2a, input, history>>

----------------------------------------------------------------------------
(* Finishing and cancelling. *)

DeadlineOutcome == IF suppressed THEN "STOPPED" ELSE "EXPIRED"

\* _finish.
FinishCopiesOutcome(o) ==
    /\ terminal' = TRUE
    /\ outcome' = o
    /\ paymentState' = o

Finish(o) ==
    /\ terminal' = TRUE
    /\ outcome' = o
    /\ paymentState' = IF o = "RECOVERED" THEN "CAPTURED" ELSE paymentState

OutcomeOf(cause) ==
    CASE cause = "PAYMENT"   -> "RECOVERED"
      [] cause = "DISPUTE"   -> "DISPUTED"
      [] cause = "CANCELLED" -> "STOPPED"
      [] cause = "ESCALATED" -> "ESCALATED"
      [] OTHER               -> DeadlineOutcome

\* What the code does once _cancel_active_action has returned: the tail of
\* _suppress_outreach keeps the workflow open; a deadline check ends the
\* coroutine; every other caller finishes inside the drain.
AfterCancel(cause) ==
    IF cause = "SUPPRESS"
    THEN /\ outcome' = "STOPPED"
         /\ pc' = "Drain"
         /\ UNCHANGED <<terminal, paymentState>>
    ELSE /\ Finish(OutcomeOf(cause))
         /\ pc' = IF cause = "DEADLINE" THEN "Done" ELSE "Drain"

NothingToCancelIfUncertain(cause) ==
    \/ actionStatus \in {"CANCELLED", "FAILED", "REJECTED", "UNCERTAIN"}
    \/ actionStatus = None /\ cause # "PAYMENT"

\* The early returns of _cancel_active_action.
NothingToCancel(cause) ==
    \/ actionStatus \in {"CANCELLED", "FAILED", "REJECTED"}
    \/ actionStatus = None /\ cause # "PAYMENT"

CancelActiveAction(cause) ==
    IF NothingToCancel(cause)
    THEN AfterCancel(cause) /\ UNCHANGED <<then, cleanup>>
    ELSE /\ pc' = "Cancel"
         /\ then' = cause
         /\ cleanup' = TRUE
         /\ UNCHANGED result

CancelReturns(cancelled) ==
    /\ pc = "Cancel"
    /\ actionStatus' = IF cancelled THEN "CANCELLED" ELSE actionStatus
    /\ then' = None
    /\ AfterCancel(then)
    /\ UNCHANGED <<site, mailbox, policy, exactArrears, consent, a2a, input,
                   now, history>>

----------------------------------------------------------------------------
(* The opening activities and the selected action. *)

Opening(from, to) ==
    /\ pc = from
    /\ pc' = to
    /\ UNCHANGED <<site, then, mailbox, policy, result, actionStatus,
                   exactArrears, consent, a2a, input, now, history>>

Normalize == Opening("Normalize", "Diagnose")
Diagnose  == Opening("Diagnose", "Score")
Score     == Opening("Score", "Policy")

BeginOutreach(activity) ==
    /\ pc' = activity
    /\ outreach' = outreach + 1
    /\ outreachAt' = IF outreachAt = None THEN now ELSE outreachAt
    /\ cleanup' = FALSE

\* The dispatch on policy.action, with the scope checks of
\* _start_a2a_authorization; the callers have no await before it.
BeginAction(act) ==
    /\ UNCHANGED evidence
    /\ \/ /\ act = "WAIT_FOR_GATEWAY_RETRY"
          /\ actionStatus' = "SCHEDULED"
          /\ site' = "LOOP" /\ pc' = "Drain"
          /\ UNCHANGED <<result, outreach, outreachAt, cleanup>>
       \/ /\ act = "STOP"
          /\ Finish("STOPPED") /\ pc' = "Done"
          /\ UNCHANGED <<site, actionStatus, outreach, outreachAt, cleanup>>
       \/ /\ act = "SEND_TO_CUSTOMER_AGENT" /\ ~scoped
          /\ actionStatus' = "REJECTED"
          /\ Finish("ESCALATED") /\ pc' = "Done"
          /\ UNCHANGED <<site, outreach, outreachAt, cleanup>>
       \/ /\ act = "SEND_TO_CUSTOMER_AGENT" /\ scoped
          /\ BeginOutreach("StartA2A")
          /\ UNCHANGED <<site, result, actionStatus>>
       \/ /\ act \in {"OPEN_CUSTOMER_PAYMENT_SURFACE", "START_VOICE", "ESCALATE_TO_HUMAN"}
          /\ actionStatus' = "EXECUTING"
          /\ BeginOutreach("Execute")
          /\ UNCHANGED <<site, result>>

\* EVALUATE_POLICY and the branches on its disposition.
PolicyReturns(d, act, until) ==
    /\ pc = "Policy"
    /\ d # "DELAY" => until = None
    /\ disposition' = d /\ action' = act /\ delayUntil' = until
    /\ \/ /\ d = "BLOCK"
          /\ Finish("STOPPED") /\ pc' = "Done"
          /\ UNCHANGED <<site, actionStatus, history>>
       \/ /\ d = "DELAY" /\ until # None
          /\ site' = "DELAY" /\ pc' = "Resume"
          /\ UNCHANGED <<result, actionStatus, history>>
       \/ /\ d = "REQUIRE_MANUAL_APPROVAL"
          /\ site' = "APPROVAL" /\ pc' = "Wait"
          /\ UNCHANGED <<result, actionStatus, history>>
       \/ /\ d = "ALLOW" \/ (d = "DELAY" /\ until = None)
          /\ BeginAction(act)
    /\ UNCHANGED <<then, mailbox, exactArrears, consent, a2a, input, now>>

\* START_A2A_AUTHORIZATION returned: poll at once when the task is WORKING.
StartA2AReturns(state) ==
    /\ pc = "StartA2A"
    /\ actionStatus' = state
    /\ a2aTask' = TRUE
    /\ nextPoll' = IF state = "WORKING" THEN now ELSE now + PollInterval
    /\ site' = "LOOP" /\ pc' = "Drain"
    /\ UNCHANGED <<then, mailbox, policy, result, exactArrears, consent,
                   mandate, receiptSent, input, now, history>>

\* EXECUTE_RECOVERY_ACTION returned and ACTION_SUBMITTED was audited.  The
\* first submission falls into the main loop's drain; one made by
\* _poll_a2a_if_due goes on to the loop's wait.
ExecuteReturns(status) ==
    /\ pc = "Execute"
    /\ actionStatus' = status
    /\ action' = IF mandate THEN "OPEN_CUSTOMER_PAYMENT_SURFACE" ELSE action
    /\ IF status \in {"FAILED", "REJECTED"}
       THEN Finish("ESCALATED") /\ pc' = "Done" /\ UNCHANGED site
       ELSE /\ site' = "LOOP"
            /\ pc' = IF mandate THEN "Wait" ELSE "Drain"
            /\ UNCHANGED result
    /\ UNCHANGED <<then, mailbox, disposition, delayUntil, exactArrears, consent,
                   a2a, input, now, history>>

----------------------------------------------------------------------------
(* Waiting: wait_condition wakes on a signal or on its timeout. *)

Earlier(s, t) == IF s <= t THEN s ELSE t

WakeAt ==
    CASE site = "DELAY" -> Earlier(delayUntil, deadline)
      [] site # "DELAY" /\ nextPoll # None -> Earlier(deadline, nextPoll)
      [] OTHER -> deadline

WakeOnSignalOnly ==
    /\ pc = "Wait" /\ queue # <<>>
    /\ pc' = "Drain"
    /\ UNCHANGED <<site, then, mailbox, policy, result, actionStatus,
                   exactArrears, consent, a2a, input, now, history>>

Wake ==
    /\ pc = "Wait"
    /\ queue # <<>> \/ now >= WakeAt
    /\ pc' = "Drain"
    /\ UNCHANGED <<site, then, mailbox, policy, result, actionStatus,
                   exactArrears, consent, a2a, input, now, history>>

DrainedEarly == pc = "Drain"

\* _drain_signals returns once the queue is empty or the case is terminal;
\* what follows, up to the next await, belongs to the same step.
Drained == pc = "Drain" /\ (queue = <<>> \/ terminal)

ExpiredLate == now > deadline
Expired == now >= deadline
DelayOver == now >= delayUntil

WaitAgain ==
    /\ pc' = "Wait"
    /\ UNCHANGED <<site, then, result, actionStatus, nextPoll, history>>

Return ==
    /\ pc' = "Done"
    /\ UNCHANGED <<site, then, result, actionStatus, nextPoll, history>>

ExpireDeadline ==
    /\ CancelActiveAction("DEADLINE")
    /\ UNCHANGED <<site, actionStatus, nextPoll, outreach, outreachAt, evidence>>

AfterDrainUnchanged ==
    UNCHANGED <<mailbox, policy, exactArrears, consent, a2aTask, mandate,
                receiptSent, input, now>>

\* _wait_until: the loop test, its early break, and the deadline check.
ResumeDelay ==
    /\ site = "DELAY"
    /\ Drained \/ pc = "Resume"
    /\ \/ ~terminal /\ ~DelayOver /\ ~Expired /\ WaitAgain
       \/ terminal /\ Return
       \/ ~terminal /\ Expired /\ ExpireDeadline
       \/ /\ ~terminal /\ DelayOver /\ ~Expired
          /\ BeginAction(action)
          /\ UNCHANGED <<then, nextPoll>>
    /\ AfterDrainUnchanged

\* _wait_for_approval_or_terminal: the deadline is tested after every drain,
\* whether or not the drain made the case terminal.
ResumeApproval ==
    /\ site = "APPROVAL"
    /\ Drained
    /\ \/ Expired /\ ExpireDeadline
       \/ ~Expired /\ ~terminal /\ approval = None /\ WaitAgain
       \/ ~Expired /\ terminal /\ Return
       \/ /\ ~Expired /\ ~terminal /\ approval = FALSE
          /\ Finish("STOPPED") /\ pc' = "Done"
          /\ UNCHANGED <<site, then, actionStatus, nextPoll, history>>
       \/ /\ ~Expired /\ ~terminal /\ approval = TRUE
          /\ BeginAction(action)
          /\ UNCHANGED <<then, nextPoll>>
    /\ AfterDrainUnchanged

PollDue == a2aTask /\ nextPoll # None /\ now >= nextPoll

\* One turn of run()'s main loop after its drain.
ResumeLoop ==
    /\ site = "LOOP"
    /\ Drained
    /\ \/ terminal /\ Return
       \/ ~terminal /\ Expired /\ ExpireDeadline
       \/ ~terminal /\ ~Expired /\ ~PollDue /\ WaitAgain
       \/ /\ ~terminal /\ ~Expired /\ PollDue
          /\ pc' = "Poll"
          /\ UNCHANGED <<site, then, result, actionStatus, nextPoll, history>>
    /\ AfterDrainUnchanged

\* POLL_A2A_MANDATE returned.  The scope was checked when the task started and
\* the input never changes, so _poll_a2a_if_due's own checks cannot fail.
PollReturns(verification) ==
    /\ pc = "Poll"
    /\ \/ /\ verification = "PENDING"
          /\ nextPoll' = now + PollInterval
          /\ pc' = "Wait"
          /\ UNCHANGED <<result, actionStatus, mandate, history>>
       \/ /\ verification = "REJECTED"
          /\ nextPoll' = None
          /\ actionStatus' = "REJECTED"
          /\ Finish("ESCALATED") /\ pc' = "Done"
          /\ UNCHANGED <<mandate, history>>
       \/ /\ verification = "VERIFIED"
          /\ nextPoll' = None
          /\ mandate' = TRUE
          /\ actionStatus' = "EXECUTING"
          /\ BeginOutreach("Execute")
          /\ UNCHANGED <<result, evidence>>
    /\ UNCHANGED <<site, then, mailbox, policy, exactArrears, consent, a2aTask,
                   receiptSent, input, now>>

----------------------------------------------------------------------------
(* Draining: one action per handler. *)

Take(kinds) ==
    /\ pc = "Drain" /\ ~terminal /\ queue # <<>>
    /\ Head(queue).kind \in kinds
    /\ queue' = Tail(queue)
    /\ processed' = processed + 1
    /\ UNCHANGED <<site, seen, policy, actionStatus, exactArrears, a2aTask,
                   mandate, receiptSent, input, now, outreach, outreachAt, evidence>>

HandleApproval ==
    /\ Take({"APPROVE", "REJECT"})
    /\ approval' = IF disposition = "REQUIRE_MANUAL_APPROVAL" /\ approval = None
                   THEN Head(queue).kind = "APPROVE"
                   ELSE approval
    /\ UNCHANGED <<pc, then, result, suppressed, nextPoll, cleanup>>

\* _handle_payment and the ALREADY_PAID branch of _handle_customer_intent.
HandlePayment ==
    /\ Take({"PAYMENT_EVENT", "INTENT_ALREADY_PAID"})
    /\ pc' = "Reconcile"
    /\ UNCHANGED <<then, result, consent, nextPoll, cleanup>>

\* _handle_opt_out and the OPT_OUT and WRONG_PERSON intents.
HandleOptOut ==
    /\ Take({"OPT_OUT", "INTENT_OPT_OUT"})
    /\ suppressed' = TRUE
    /\ CancelActiveAction("SUPPRESS")
    /\ UNCHANGED <<approval, nextPoll>>

HandleStop(kind, cause) ==
    /\ Take({kind})
    /\ CancelActiveAction(cause)
    /\ UNCHANGED <<consent, nextPoll>>

HandleDispute      == HandleStop("INTENT_DISPUTE", "DISPUTE")
HandleCancellation == HandleStop("CANCELLATION", "CANCELLED")
HandleEscalation   == HandleStop("OPERATOR_ESCALATION", "ESCALATED")

\* PROMISE_TO_PAY and every other intent only record a disposition; an update
\* of a task the workflow did not start is ignored.
HandleIgnored ==
    /\ Take({"INTENT_OTHER", "A2A_UPDATE_OTHER_TASK"})
    /\ UNCHANGED <<pc, then, result, consent, nextPoll, cleanup>>

\* An A2A update or a mandate signal is only a hint to poll now.
HandleA2AHint ==
    /\ Take({"A2A_UPDATE", "MANDATE"})
    /\ nextPoll' = IF a2aTask THEN now ELSE nextPoll
    /\ UNCHANGED <<pc, then, result, consent, cleanup>>

ReceiptAppliesToPartial(r) ==
    /\ ~receiptSent /\ a2aTask /\ mandate
    /\ r.state = "CAPTURED" /\ r.reference

\* _send_a2a_receipt_if_applicable sends nothing unless the task, the mandate
\* and the exact captured amount are all known.
ReceiptApplies(r) ==
    /\ ~receiptSent /\ a2aTask /\ mandate
    /\ r.state = "CAPTURED" /\ r.exact /\ r.reference

ProvesRecoveryUnverified(r) == r.recovered
ProvesRecovery(r) == r.recovered /\ r.authoritative

\* RECONCILE_CASE returned: _apply_reconciliation, then on authoritative
\* recovery the receipt, the cancellation and the finish.
ReconcileReturns(r) ==
    /\ pc = "Reconcile"
    /\ exactArrears' = IF r.authoritative THEN r.exact ELSE exactArrears
    /\ evidence' = (evidence \/ (r.authoritative /\ r.recovered))
    /\ LET applied == IF r.authoritative THEN r.state ELSE paymentState
       IN \/ /\ ~ProvesRecovery(r)
             /\ paymentState' = applied
             /\ pc' = "Drain"
             /\ UNCHANGED <<then, terminal, outcome, cleanup>>
          \/ /\ ProvesRecovery(r) /\ ReceiptApplies(r)
             /\ paymentState' = applied
             /\ pc' = "Receipt"
             /\ UNCHANGED <<then, terminal, outcome, cleanup>>
          \/ /\ ProvesRecovery(r) /\ ~ReceiptApplies(r)
             /\ IF NothingToCancel("PAYMENT")
                THEN AfterCancel("PAYMENT") /\ UNCHANGED <<then, cleanup>>
                ELSE /\ paymentState' = applied
                     /\ pc' = "Cancel" /\ then' = "PAYMENT" /\ cleanup' = TRUE
                     /\ UNCHANGED <<terminal, outcome>>
    /\ UNCHANGED <<site, mailbox, policy, actionStatus, consent, a2a, input,
                   now, outreach, outreachAt>>

ReceiptReturns(delivered) ==
    /\ pc = "Receipt"
    /\ receiptSent' = delivered
    /\ CancelActiveAction("PAYMENT")
    /\ UNCHANGED <<site, mailbox, policy, actionStatus, exactArrears, consent,
                   a2aTask, nextPoll, mandate, input, now, outreach, outreachAt,
                   evidence>>

----------------------------------------------------------------------------
(* Failure: an activity out of attempts raises through run(). *)

ActivityFails ==
    /\ pc \in Activities
    /\ pc' = "Failed"
    /\ UNCHANGED <<site, then, mailbox, policy, result, actionStatus,
                   exactArrears, consent, a2a, input, now, history>>

\* The audit a handler records before it acts fails.
HandlerAuditFails ==
    /\ Take(Kinds)
    /\ pc' = "Failed"
    /\ UNCHANGED <<then, result, consent, nextPoll, cleanup>>

----------------------------------------------------------------------------
AwaitReturns ==
    \/ Normalize \/ Diagnose \/ Score
    \/ \E d \in Dispositions, act \in PolicyActions, until \in DelayTargets \cup {None} :
           PolicyReturns(d, act, until)
    \/ \E s \in A2AStates : StartA2AReturns(s)
    \/ \E s \in ExecutionStatuses : ExecuteReturns(s)
    \/ \E v \in {"PENDING", "REJECTED", "VERIFIED"} : PollReturns(v)
    \/ \E r \in Reconciliations : ReconcileReturns(r)
    \/ \E b \in BOOLEAN : ReceiptReturns(b) \/ CancelReturns(b)

Drain ==
    \/ HandleApproval \/ HandlePayment \/ HandleOptOut \/ HandleDispute
    \/ HandleCancellation \/ HandleEscalation \/ HandleIgnored \/ HandleA2AHint

Resume == ResumeDelay \/ ResumeApproval \/ ResumeLoop

Next ==
    \/ \E id \in SignalIds, k \in Kinds : Deliver(id, k)
    \/ Tick
    \/ AwaitReturns
    \/ Wake
    \/ Drain
    \/ Resume
    \/ ActivityFails
    \/ HandlerAuditFails

Spec == Init /\ [][Next]_vars

\* Temporal resumes a runnable coroutine, times out or completes every
\* activity, and fires its timers.
FairSpec == Spec /\ WF_vars(AwaitReturns) /\ WF_vars(Wake) /\ WF_vars(Drain)
                 /\ WF_vars(Resume) /\ WF_vars(Tick)

----------------------------------------------------------------------------
(* Properties. *)

Signal == [id : SignalIds, kind : Kinds]

\* Every variable holds a value of the kind workflow.py's annotations give it.
TypeOK ==
    /\ pc \in Activities \cup Closed \cup {"Wait", "Drain", "Resume"}
    /\ site \in Sites /\ then \in Causes \cup {None}
    /\ queue \in Seq(Signal) /\ seen \subseteq SignalIds /\ processed \in Nat
    /\ terminal \in BOOLEAN /\ outcome \in Outcomes \cup {None}
    /\ disposition \in Dispositions \cup {None}
    /\ action \in Actions \cup {None}
    /\ delayUntil \in Nat \cup {None}
    /\ actionStatus \in ActionStatuses \cup {None}
    /\ paymentState \in {"FAILED", "CAPTURED"} /\ exactArrears \in BOOLEAN
    /\ approval \in BOOLEAN \cup {None} /\ suppressed \in BOOLEAN
    /\ a2aTask \in BOOLEAN /\ nextPoll \in Nat \cup {None}
    /\ mandate \in BOOLEAN /\ receiptSent \in BOOLEAN
    /\ scoped \in BOOLEAN /\ deadline \in Nat /\ now \in Nat
    /\ outreach \in Nat /\ outreachAt \in Nat \cup {None}
    /\ cleanup \in BOOLEAN /\ evidence \in BOOLEAN

\* _enqueue and _drain_signals handle a signal id at most once: every id seen
\* is either still queued, once, or has been processed, once.
EachSignalOnce ==
    /\ \A i, j \in DOMAIN queue : queue[i].id = queue[j].id => i = j
    /\ \A i \in DOMAIN queue : queue[i].id \in seen
    /\ processed + Len(queue) = Cardinality(seen)

\* Outreach held back by the policy starts only inside its window: a delayed
\* action no earlier than delay_until, an action needing approval only after
\* an operator said yes, and both only before the recovery deadline, however
\* signals, timers and the deadline interleave in the two wait loops.
GatedOutreachInWindow ==
    outreachAt # None =>
        /\ disposition # "BLOCK"
        /\ disposition = "REQUIRE_MANUAL_APPROVAL" =>
               approval = TRUE /\ outreachAt < deadline
        /\ delayUntil # None => delayUntil <= outreachAt /\ outreachAt < deadline

\* The workflow reports RECOVERED only on an authoritative reconciliation that
\* proved recovery, and then also reports the payment captured: no signal, hint
\* or customer claim is enough (_handle_payment, _handle_customer_intent).
RecoveredOnlyOnEvidence ==
    outcome = "RECOVERED" => evidence /\ paymentState = "CAPTURED"

\* A payment receipt reaches the customer's agent only for a verified mandate
\* and an exact authoritative capture, which no later step takes back
\* (_send_a2a_receipt_if_applicable).
ReceiptOnlyForExactCapture ==
    receiptSent => /\ a2aTask /\ mandate
                   /\ evidence /\ exactArrears /\ paymentState = "CAPTURED"

\* However the workflow ends, except in an escalation or after the provider
\* refused, it has asked for its outreach to be cancelled after the last time
\* it submitted any (_cancel_active_action is reached on every other exit).
CloseCancelsOutreach ==
    pc = "Done" /\ outreach > 0 /\ outcome # "ESCALATED"
        => cleanup \/ actionStatus \in {"FAILED", "REJECTED"}

\* The main loop expires the case only when no delivered signal is waiting, and
\* never after a signal has finished it ("Process an already-delivered
\* authoritative signal before expiring the case", run).
ExpiryAfterDrain ==
    [][site = "LOOP" /\ pc = "Drain" /\ (then' = "DEADLINE" \/ outcome' = "EXPIRED")
           => queue = <<>> /\ ~terminal]_vars

\* Every workflow ends, at the latest at its recovery deadline.
Closes == <>(pc \in Closed)

\* A case that an authoritative payment has closed as RECOVERED stays so.
RecoveredOutcomeFinal ==
    [][terminal /\ outcome = "RECOVERED" => outcome' = "RECOVERED"]_vars

\* No outreach starts once the customer has opted out.
NoOutreachAfterOptOut == [][suppressed => outreach' = outreach]_vars
=============================================================================
