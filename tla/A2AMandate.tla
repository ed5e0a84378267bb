----------------------------- MODULE A2AMandate -----------------------------
(***************************************************************************)
(* The customer's authorization of one SEND_TO_CUSTOMER_AGENT action: the  *)
(* customer agent (customer-agent/app/service.py and store.py), whose      *)
(* handlers read a task, await, and save it with a compare-and-swap on its *)
(* revision; the worker's activities that ask, poll, verify and consume    *)
(* the mandate and return a receipt (a2a_runtime.py, integrations/a2a);    *)
(* and the execution that spends it (_claim_a2a_payment_action).  Requests *)
(* are repeated and reordered, answers are lost, activities overlap.       *)
(*                                                                         *)
(* An instant is a number; the agent and the worker share the clock; the   *)
(* poll timer is finer than a tick.  A signature is valid and the signed   *)
(* scope is the scope asked for, except what changes over time: the        *)
(* expiry, the amount and the display context.  The provider captures the  *)
(* amount asked for at once, or in two equal parts.                        *)
(*                                                                         *)
(* CreatesAgain, SavesBlindly, UnboundedMandate, ReceiptOnHint,            *)
(* PollsCanceledAgain, RetriedClaimConflicts and ClaimAnyState are faulty  *)
(* forms of the definition that follows them, kept to show that the        *)
(* properties notice.                                                      *)
(***************************************************************************)
EXTENDS Integers

CONSTANTS Requests,    \* concurrent HTTP requests to the customer agent
          Pollers,     \* overlapping attempts of the poll activity
          Deliveries,  \* overlapping attempts of the execute activity
          Contexts,    \* values of the display context put in a request
          Deadline,    \* recovery_deadline, the expiry of a request
          MandateTtl,  \* mandate_ttl_seconds
          MaximumAttempts,  \* of an activity, by _STANDARD_RETRY
          MaxTime,     \* the clock stops here
          None

ASSUME TimeAssumption ==
    /\ Deadline \in Nat \ {0} /\ MandateTtl \in Nat \ {0} /\ MaxTime \in Nat

ASSUME AttemptsAssumption == MaximumAttempts \in Nat \ {0}

VARIABLES
    now,
    sent,       \* contexts of the recovery requests sent to the agent
    task,       \* the agent's task for the idempotency key, or None
    request,    \* each HTTP request: None, or what it holds across an await
    known,      \* has the workflow learnt the task id?
    workflow,   \* "loop", in a "poll", "settled" with a receipt, or "over"
    attempts,   \* attempts made of the poll activity in progress
    poll,       \* each poll attempt: None, or the mandate it is to verify
    verdict,    \* what the polls told the workflow
    claim,      \* the consumed mandate of the action, or None
    execution,  \* execution_status of the claim
    held,       \* the mandate the workflow passes to the execution, or None
    delivery,   \* each execute attempt: "idle", "claimed" or "opened"
    action,     \* status of the SEND_TO_CUSTOMER_AGENT action
    due,        \* the instant from which it may execute
    case,       \* "open", "paid" or "stopped"
    exact,      \* is the outstanding amount the amount asked for?
    provider,   \* captures at the provider: "unpaid", "part", "parts", "whole"
    opened      \* history: payment surfaces opened at the provider

agentVars  == <<task, request>>
workerVars == <<known, workflow, attempts, poll, verdict, held>>
claimVars  == <<claim, execution>>
caseVars   == <<action, due, case, exact, provider>>
vars == <<now, sent, agentVars, workerVars, claimVars, caseVars,
          delivery, opened>>

TaskStates == {"AUTH_REQUIRED", "WORKING", "COMPLETED", "CANCELED"}
Final == {"COMPLETED", "CANCELED"}
Verdicts == {"pending", "verified", "canceled", "completed", "expired", "replayed",
             "too long"}

Minimum(a, b) == IF a < b THEN a ELSE b

\* A mandate is named by the request that issued it and the instant.
Mandates == [by : Requests, at : 0..MaxTime, expires : 0..Deadline]
Tasks == [state : TaskStates, revision : 1..3, context : Contexts,
          mandate : Mandates \cup {None}, receipt : BOOLEAN]

ASSUME NoneAssumption == None \notin Tasks \cup Mandates

Init ==
    /\ now = 0
    /\ sent = {}
    /\ task = None
    /\ request = [r \in Requests |-> None]
    /\ known = FALSE
    /\ workflow = "loop" /\ attempts = 0
    /\ poll = [p \in Pollers |-> None]
    /\ verdict = "pending"
    /\ claim = None /\ execution = "none"
    /\ held = None
    /\ delivery = [d \in Deliveries |-> "idle"]
    /\ \/ action = "PROPOSED" /\ due = 0     \* the policy allowed it
       \/ action = "SCHEDULED" /\ due = 1    \* the policy delayed it
    /\ case = "open"
    /\ exact = TRUE /\ provider = "unpaid"
    /\ opened = 0

Tick ==
    /\ now < MaxTime
    /\ now' = now + 1
    /\ UNCHANGED <<sent, agentVars, workerVars, claimVars, caseVars,
                   delivery, opened>>

----------------------------------------------------------------------------
(* Asking: start_authorization and _create_authorization_task. *)

\* load_authoritative_request: the request is rebuilt from the database, with
\* the invoice, payment and subscription state that it shows at that moment.
ScopeIsSafe ==
    /\ case = "open" /\ exact /\ now < Deadline
    /\ action \in {"PROPOSED", "SCHEDULED"}

SendRequest(c) ==
    /\ ~known /\ ScopeIsSafe
    /\ sent' = sent \cup {c}
    /\ UNCHANGED <<now, agentVars, workerVars, claimVars, caseVars, delivery,
                   opened>>

NewTask(c) == [state |-> "AUTH_REQUIRED", revision |-> 1, context |-> c,
               mandate |-> None, receipt |-> FALSE]

CreatesAgain(c) == NewTask(c)

\* create_once: the idempotency key finds the task it created before, and a
\* different request under the same key is a conflict.
CreateOnce(c) == IF task = None THEN NewTask(c) ELSE task

\* The agent answers a request; the answer may be lost, or come when the
\* workflow is over.
CreateTask(c, heard) ==
    /\ c \in sent /\ now < Deadline
    /\ task # None => task.context = c
    /\ task' = CreateOnce(c)
    /\ known' = (known \/ (heard /\ workflow = "loop"))
    /\ UNCHANGED <<now, sent, request, workflow, attempts, poll, verdict, held,
                   claimVars, caseVars, delivery, opened>>

----------------------------------------------------------------------------
(* The agent's handlers: each loads the task, changes its copy and saves. *)

Put(r, x) == request' = [request EXCEPT ![r] = x]
agentFrame == <<now, sent, workerVars, claimVars, caseVars, delivery, opened>>

Changed(new) == [new EXCEPT !.revision = @ + 1]

SavesBlindly(r) == TRUE

\* TaskStore.save: the update matches the row or changes nothing.
Saves(r) == request[r].copy.revision = task.revision

\* _authorized_task: the customer's approval capability has not expired.
CapabilityIsValid == now < Deadline

\* decide: the customer approves or rejects an undecided, unexpired task.
LoadDecision(r, op) ==
    /\ request[r] = None /\ task # None
    /\ task.state = "AUTH_REQUIRED" /\ CapabilityIsValid
    /\ op \in {"approve", "reject"}
    /\ Put(r, [op |-> op, copy |-> task, at |-> now, tries |-> 1])
    /\ UNCHANGED <<task, agentFrame>>

UnboundedMandate(r) ==
    [by |-> r, at |-> request[r].at, expires |-> request[r].at + MandateTtl]

\* The mandate expires with the request or after its own lifetime.
NewMandate(r) ==
    [by |-> r, at |-> request[r].at,
     expires |-> Minimum(Deadline, request[r].at + MandateTtl)]

Decided(r) ==
    IF request[r].op = "approve"
    THEN [request[r].copy EXCEPT !.state = "WORKING", !.mandate = NewMandate(r)]
    ELSE [request[r].copy EXCEPT !.state = "CANCELED"]

\* _save_once: a conflict is reported to the customer, nothing is retried.
SaveDecision(r) ==
    /\ request[r] # None /\ request[r].op \in {"approve", "reject"}
    /\ task' = IF Saves(r) THEN Changed(Decided(r)) ELSE task
    /\ Put(r, None)
    /\ UNCHANGED agentFrame

\* cancel_task: a finished task is returned as it is.
LoadCancel(r) ==
    /\ request[r] = None /\ task # None /\ task.state \notin Final
    /\ Put(r, [op |-> "cancel", copy |-> task, at |-> now, tries |-> 1])
    /\ UNCHANGED <<task, agentFrame>>

\* A conflict reads the task again, three times in all.
SaveCancel(r) ==
    /\ request[r] # None /\ request[r].op = "cancel"
    /\ IF Saves(r)
       THEN task' = Changed([request[r].copy EXCEPT !.state = "CANCELED"]) /\ Put(r, None)
       ELSE /\ Put(r, IF task.state \in Final \/ request[r].tries = 3 THEN None
                      ELSE [request[r] EXCEPT !.copy = task, !.tries = @ + 1])
            /\ UNCHANGED task
    /\ UNCHANGED agentFrame

\* send_payment_receipt: the signed receipt names the mandate that the workflow
\* holds.
ReceiptMandate == held

\* _complete_with_receipt: a repeated message returns the task; another one
\* needs a task that waits for a receipt, with the mandate it names.
AcceptsReceipt == task.state = "WORKING" /\ task.mandate = ReceiptMandate

LoadReceipt(r) ==
    /\ request[r] = None /\ workflow = "settled"
    /\ ~task.receipt /\ AcceptsReceipt
    /\ Put(r, [op |-> "receipt", copy |-> task, at |-> now, tries |-> 1])
    /\ UNCHANGED <<task, agentFrame>>

SaveReceipt(r) ==
    /\ request[r] # None /\ request[r].op = "receipt"
    /\ task' = IF Saves(r)
               THEN Changed([request[r].copy EXCEPT !.state = "COMPLETED",
                                                    !.receipt = TRUE])
               ELSE task
    /\ Put(r, None)
    /\ UNCHANGED agentFrame

\* The agent's process restarts, or the client gives up: the request is gone.
RequestLost(r) ==
    /\ request[r] # None
    /\ Put(r, None)
    /\ UNCHANGED <<task, agentFrame>>

----------------------------------------------------------------------------
(* The worker's poll: poll_and_verify_mandate and verify_and_consume. *)

pollFrame == <<now, sent, agentVars, known, caseVars, delivery, opened>>

\* run: each round of the loop, until it is over, tests the deadline and then
\* whether a poll is due; after a mandate was accepted, a late hint makes it due.
Polling ==
    /\ known /\ workflow = "loop" /\ now < Deadline
    /\ verdict \in {"pending", "verified"}

BeginPoll ==
    /\ Polling
    /\ workflow' = "poll" /\ attempts' = 0
    /\ UNCHANGED <<poll, verdict, held, claimVars, pollFrame>>

\* _poll_a2a_if_due: an undecided task is polled again, a refusal ends the
\* workflow.
Hears(answer) ==
    /\ verdict' = IF answer = "pending" THEN verdict ELSE answer
    /\ workflow' = IF answer \in {"pending", "verified"} THEN "loop" ELSE "over"
    /\ attempts' = 0

PollsCanceledAgain ==
    IF task.state \in {"AUTH_REQUIRED", "CANCELED"} THEN "pending"
    ELSE IF task.state = "COMPLETED" THEN "completed" ELSE "mandate"

\* poll_and_verify_mandate, on the state and the first artifact that GetTask
\* returns: a finished task is refused, and so is a mandate that outlives the
\* deadline, before its nonce is used.
Reading ==
    CASE task.state = "AUTH_REQUIRED" -> "pending"
      [] task.state = "CANCELED" -> "canceled"
      [] task.state = "COMPLETED" -> "completed"
      [] task.state = "WORKING" ->
           IF task.mandate.expires > Deadline THEN "too long" ELSE "mandate"

\* An attempt starts and reads the task; what it concludes may not be heard.
PollReads(p, heard) ==
    /\ workflow = "poll" /\ attempts < MaximumAttempts /\ poll[p] = None
    /\ poll' = IF Reading = "mandate" THEN [poll EXCEPT ![p] = task.mandate] ELSE poll
    /\ IF heard /\ Reading # "mandate"
       THEN Hears(Reading)
       ELSE attempts' = attempts + 1 /\ UNCHANGED <<verdict, workflow>>
    /\ UNCHANGED <<held, claimVars, pollFrame>>

\* The last attempt has failed or timed out, and with it the workflow.
PollFails ==
    /\ workflow = "poll" /\ attempts = MaximumAttempts
    /\ workflow' = "over" /\ attempts' = 0
    /\ UNCHANGED <<poll, verdict, held, claimVars, pollFrame>>

Expired(mandate) == mandate.expires <= now

RetriedClaimConflicts(mandate) ==
    IF claim = None /\ ~Expired(mandate) THEN "CLAIMED" ELSE "CONFLICT"

\* SqlAlchemyNonceStore.consume: one row per nonce, mandate and action; the
\* same signed claim again is recognised, even when it has expired since.
Consume(mandate) ==
    IF claim = None /\ ~Expired(mandate) THEN "CLAIMED"
    ELSE IF claim = mandate THEN "ALREADY_CLAIMED" ELSE "CONFLICT"

\* The claim is committed before the workflow hears of it, if it does: an
\* attempt that has timed out is not listened to any more.
Verify(p, heard) ==
    LET outcome == Consume(poll[p])
        listens == heard /\ workflow = "poll" IN
    /\ claim' = IF outcome = "CLAIMED" THEN poll[p] ELSE claim
    /\ execution' = IF outcome = "CLAIMED" THEN "AUTHORIZED" ELSE execution
    /\ IF listens
       THEN Hears(IF outcome # "CONFLICT" THEN "verified"
                  ELSE IF Expired(poll[p]) THEN "expired" ELSE "replayed")
       ELSE UNCHANGED <<verdict, workflow, attempts>>
    /\ held' = IF listens /\ outcome # "CONFLICT" THEN poll[p] ELSE held

PollVerifies(p, heard) ==
    /\ poll[p] # None
    /\ Verify(p, heard)
    /\ poll' = [poll EXCEPT ![p] = None]
    /\ UNCHANGED pollFrame

PollLost(p) ==
    /\ poll[p] # None
    /\ poll' = [poll EXCEPT ![p] = None]
    /\ UNCHANGED <<workflow, attempts, verdict, held, claimVars, pollFrame>>

----------------------------------------------------------------------------
(* Spending the mandate: execute_recovery_action with a mandate. *)

executeFrame == <<now, sent, agentVars, workerVars, due, case, exact, provider>>
Goto(d, place) == delivery' = [delivery EXCEPT ![d] = place]

\* The claim's row, the case and the invoice still say what was signed.
Authorized(mandate) ==
    /\ claim = mandate /\ ~Expired(mandate)
    /\ case = "open" /\ exact

ClaimAnyState(d) ==
    /\ Authorized(held) /\ action \in {"PROPOSED", "SCHEDULED", "EXECUTING"} /\ now >= due

\* An unused authorization of an action that is due and was not cancelled.
MayExecute(d) ==
    /\ Authorized(held)
    /\ execution = "AUTHORIZED" /\ action \in {"PROPOSED", "SCHEDULED"}
    /\ now >= due

ClaimAction(d) ==
    /\ held # None /\ delivery[d] = "idle" /\ MayExecute(d)
    /\ action' = "EXECUTING" /\ execution' = "EXECUTING"
    /\ Goto(d, "claimed")
    /\ UNCHANGED <<executeFrame, claim, opened>>

\* The provider is asked for the invoice link of the exact invoice.
OpenSurface(d) ==
    /\ delivery[d] = "claimed"
    /\ Goto(d, "opened")
    /\ opened' = opened + 1
    /\ UNCHANGED <<executeFrame, action, claimVars>>

\* _persist_payment_surface: a row cancelled meanwhile keeps its status.
PersistSurface(d) ==
    /\ delivery[d] = "opened"
    /\ Goto(d, "idle")
    /\ IF action \in {"CANCELLED", "SUCCEEDED"}
       THEN UNCHANGED <<action, execution>>
       ELSE action' = "SUCCEEDED" /\ execution' = "SUCCEEDED"
    /\ UNCHANGED <<executeFrame, claim, opened>>

\* The worker dies or the provider's answer is an error: the rows stay.
DeliveryLost(d) ==
    /\ delivery[d] # "idle"
    /\ Goto(d, "idle")
    /\ UNCHANGED <<executeFrame, action, claimVars, opened>>

----------------------------------------------------------------------------
(* The money, and what ends the workflow. *)

\* Payments captured at the provider, which the row hears of later.
ProviderCaptures ==
    /\ \/ provider = "unpaid" /\ provider' \in {"part", "whole"}
       \/ provider = "part" /\ provider' = "parts"
    /\ UNCHANGED <<now, sent, agentVars, workerVars, claimVars, delivery, opened,
                   action, due, case, exact>>

ReceiptOnHint == held # None

\* _send_a2a_receipt_if_applicable on what reconcile_case returns: the row is
\* recovered, or the payment that the provider shows for the invoice is as large
\* as what the row still misses - the whole, or one of the parts when the row
\* has credited a part, be it the same one.
ReceiptApplies ==
    /\ held # None
    /\ case = "paid" \/ provider = "whole" \/ (provider \in {"part", "parts"} /\ ~exact)

workflowFrame == <<now, sent, agentVars, known, attempts, poll, verdict, held,
                   claimVars, caseVars, delivery, opened>>

\* _handle_payment, or _handle_customer_intent told ALREADY_PAID: the payment
\* reconciles, the receipt is sent and the workflow is over.
Settle ==
    /\ workflow = "loop" /\ ReceiptApplies
    /\ workflow' = "settled"
    /\ UNCHANGED workflowFrame

\* The workflow is over for another reason: a payment without a receipt, a
\* stop, a dispute, an escalation, an activity that failed.
WorkflowEnds ==
    /\ workflow = "loop" /\ workflow' = "over"
    /\ UNCHANGED workflowFrame

\* run: the loop finds the deadline passed.
DeadlineExpires ==
    /\ workflow = "loop" /\ now >= Deadline /\ workflow' = "over"
    /\ UNCHANGED workflowFrame

caseFrame == <<now, sent, agentVars, workerVars, claimVars, delivery, due, provider,
               opened>>

\* cancel_nonterminal_actions, and the same update after a capture.
Cancelled == IF action = "SUCCEEDED" THEN action ELSE "CANCELLED"

\* _apply_captured: the capture that pays all that is due recovers the case, even
\* one that was stopped, and cancels its unfinished actions; one of a part of it
\* leaves another amount outstanding.
Captured ==
    /\ case # "paid" /\ IF exact THEN provider = "whole" ELSE provider = "parts"
    /\ case' = "paid"
    /\ action' = Cancelled
    /\ UNCHANGED <<caseFrame, exact>>

PartCaptured ==
    /\ case # "paid" /\ exact /\ provider \in {"part", "parts"}
    /\ exact' = FALSE
    /\ UNCHANGED <<caseFrame, action, case>>

\* stop_case: the case closes and its unfinished actions are cancelled.
Stop ==
    /\ case = "open" /\ case' = "stopped"
    /\ action' = Cancelled
    /\ UNCHANGED <<caseFrame, exact>>

\* cancel_recovery_action: the workflow asks for it whatever ended the
\* outreach (an opt-out, an expiry), once it has a task or an execution.
CancelAction ==
    /\ known
    /\ action' = Cancelled
    /\ UNCHANGED <<caseFrame, case, exact>>

AgentStep(r) ==
    \/ \E op \in {"approve", "reject"} : LoadDecision(r, op)
    \/ SaveDecision(r) \/ LoadCancel(r) \/ SaveCancel(r)
    \/ LoadReceipt(r) \/ SaveReceipt(r) \/ RequestLost(r)

PollStep(p) ==
    \/ PollLost(p)
    \/ \E heard \in BOOLEAN : PollReads(p, heard) \/ PollVerifies(p, heard)

WorkflowStep == BeginPoll \/ PollFails \/ Settle \/ WorkflowEnds \/ DeadlineExpires

CaseStep == ProviderCaptures \/ Captured \/ PartCaptured \/ Stop \/ CancelAction

ExecuteStep(d) ==
    ClaimAction(d) \/ OpenSurface(d) \/ PersistSurface(d) \/ DeliveryLost(d)

Next ==
    \/ Tick
    \/ \E c \in Contexts : SendRequest(c)
    \/ \E c \in Contexts, heard \in BOOLEAN : CreateTask(c, heard)
    \/ \E r \in Requests : AgentStep(r)
    \/ \E p \in Pollers : PollStep(p)
    \/ \E d \in Deliveries : ExecuteStep(d)
    \/ WorkflowStep \/ CaseStep

Spec == Init /\ [][Next]_vars

\* The timer of the next poll and the deadline fire while the workflow waits; an
\* attempt is answered or times out, and its retries are counted.  No answer
\* need ever be heard, and no second poll follows an accepted mandate.
LiveSpec ==
    /\ Spec
    /\ WF_vars(verdict = "pending" /\ BeginPoll) /\ WF_vars(DeadlineExpires)
    /\ WF_vars(PollFails) /\ \A p \in Pollers : WF_vars(PollStep(p))

----------------------------------------------------------------------------
(* Properties. *)

\* Every variable has its type; a mandate never outlives the request.
TypeOK ==
    /\ now \in 0..MaxTime /\ sent \subseteq Contexts
    /\ task \in Tasks \cup {None}
    /\ request \in [Requests -> [op : {"approve", "reject", "cancel", "receipt"},
                                copy : Tasks, at : 0..MaxTime, tries : 1..3] \cup {None}]
    /\ known \in BOOLEAN
    /\ workflow \in {"loop", "poll", "settled", "over"} /\ attempts \in 0..MaximumAttempts
    /\ poll \in [Pollers -> Mandates \cup {None}]
    /\ verdict \in Verdicts
    /\ claim \in Mandates \cup {None} /\ held \in Mandates \cup {None}
    /\ execution \in {"none", "AUTHORIZED", "EXECUTING", "SUCCEEDED"}
    /\ delivery \in [Deliveries -> {"idle", "claimed", "opened"}]
    /\ action \in {"PROPOSED", "SCHEDULED", "EXECUTING", "SUCCEEDED", "CANCELLED"}
    /\ due \in {0, 1} /\ case \in {"open", "paid", "stopped"} /\ exact \in BOOLEAN
    /\ provider \in {"unpaid", "part", "parts", "whole"} /\ opened \in Nat

\* The customer's approval opens the payment surface at most once, whatever is
\* retried: late hints, repeated executions, workers that die after the claim.
OpenedOnce == opened <= 1

\* The amount asked for was captured at the provider.
ArrearsCaptured == provider \in {"whole", "parts"}

\* The row has credited the first of two equal parts: the same payment is then
\* equal to what is missing, and reconcile_case counts it again.
PartCountsTwice == provider = "part" /\ ~exact

\* The agent reports a task as completed only when the amount asked for was
\* captured at the provider, or a credited half of it was counted twice, and the
\* task carries the very mandate that RecoveryOS consumed.
CompletedWasPaid ==
    task # None /\ task.state = "COMPLETED" =>
        /\ ArrearsCaptured \/ PartCountsTwice
        /\ claim # None /\ claim = task.mandate

\* A canceled or completed task never changes: of a cancellation, a decision
\* and a receipt in progress at the same time one wins, the others conflict.
FinalTaskIsFinal ==
    [][task # None /\ task.state \in Final => task' = task]_vars

\* Losing the answer of a verification loses nothing: a mandate that has been
\* consumed is not refused later as expired or replayed.
ConsumedIsNotRefused ==
    [][verdict' # verdict /\ verdict' \in {"expired", "replayed"} => claim = None]_vars

\* The refinement: consent and its use, read off the task, the claim and the
\* surfaces opened.
Consent == INSTANCE SingleUseConsent WITH
    consent <- IF task = None THEN "unasked"
               ELSE IF task.state = "AUTH_REQUIRED" THEN "asked"
               ELSE IF task.mandate = None THEN "refused"
               ELSE IF task.state = "CANCELED" THEN "withdrawn" ELSE "given",
    use <- IF claim = None /\ opened = 0 THEN "none"
           ELSE IF opened = 0 THEN "reserved"
           ELSE IF opened = 1 THEN "used" ELSE "used again"

\* The protocol implements consent that is given before it is reserved and
\* reserved and used once.
ImplementsConsent == Consent!ConsentSpec

\* A decision the customer has made reaches the workflow, unless it is over first:
\* no interleaving of retries, late answers and the deadline leaves it polling or
\* waiting for an answer that was there.
DecisionIsHeard ==
    known /\ task # None /\ task.state # "AUTH_REQUIRED"
        ~> verdict # "pending" \/ workflow \in {"settled", "over"}
=============================================================================
