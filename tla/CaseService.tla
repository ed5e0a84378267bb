----------------------------- MODULE CaseService -----------------------------
(***************************************************************************)
(* One recovery case under the operator API: recommendations, approvals,   *)
(* rejections, stops, escalations, safety dispositions and mock payments   *)
(* (services/cases.py, repositories/cases.py, api/router.py) with the      *)
(* signal each command sends to the case's workflow after its commit       *)
(* (workflows/commands.py), and the worker's claim of the recommended      *)
(* actions.  Requests overlap and may die at every await.  A session keeps *)
(* the rows it loaded first: a handler that loads the case or the action   *)
(* before it locks it decides on that copy, and its UPDATE writes the      *)
(* columns it changed.                                                     *)
(*                                                                         *)
(* An action is identified by its idempotency key: the first one, which    *)
(* the transaction that opens the case writes, has a key of its own, and   *)
(* one that an operator asks for has its candidate's.  Policy settings and *)
(* subscription state do not change.  Of the audit events those are kept   *)
(* that a handler or a property asks for.  Of the workflow the model has   *)
(* its evaluation of the policy and the signals it has accepted that end   *)
(* the case (its handlers are in RecoveryWorkflow).                        *)
(*                                                                         *)
(* KeepsDisposition, StopsOnce and ClaimsAwaiting are faulty forms of the  *)
(* definition that follows them.                                           *)
(***************************************************************************)
EXTENDS DecisionPolicy

CONSTANTS Operators,     \* concurrent requests,
          Commands,      \* and the commands each of them is considered for
          Requestable,   \* candidates an operator asks for by name
          Scores,        \* the scores the model may give: candidate -> Nat
          Config,        \* the merchant's policy settings
          Reported,      \* the safety dispositions that are reported
          Retries,       \* the subscription is PENDING: the gateway retries
          Deadline,      \* recovery_deadline, and the bound on the clock
          AmountAtRisk,  \* amount_at_risk_paise
          MockEvents,    \* provider event ids of mock payments
          Evidences,     \* the evidence of the failure,
          Configs        \* and other policy settings, that decisions are put to

ASSUME CaseAssumption ==
    /\ Requestable \subseteq Candidates /\ Reported \subseteq Dispositions \ {"NONE"}
    /\ Retries \in BOOLEAN
    /\ Commands \in [Operators -> SUBSET {"RECOMMEND", "APPROVE", "REJECT",
                                          "STOP", "ESCALATE", "PAY"}]
    /\ Deadline \in Nat /\ AmountAtRisk \in Nat \ {0}
    /\ Config \in PolicySettings /\ Configs \subseteq PolicySettings
    /\ Scores \subseteq [Candidates -> Nat]

VARIABLES
    now,         \* the clock
    case,        \* recovery_cases row, with its invoice's amount paid
    optedOut,    \* customer.opted_out_at is set
    action,      \* recovery_actions and their policy, by key, or None
    events,      \* audit events: "STOPPED", "ESCALATED", or the approved key
    recognized,  \* revenue recognitions: mock event -> amount, 0 if there is none
    request,     \* each operator's request: None, or what it holds
    signals,     \* signals the running workflow has accepted that end the case
    phase        \* the workflow: before its policy result, after it, or closed

caseVars     == <<case, optedOut, recognized>>
workflowVars == <<signals, phase>>
vars == <<now, caseVars, action, events, request, workflowVars>>

-----------------------------------------------------------------------------

Statuses == {"PROPOSED", "AWAITING_APPROVAL", "SCHEDULED", "EXECUTING", "SUCCEEDED", "CANCELLED"}
Cases == [outcome : Outcomes, disposition : Dispositions, captured : BOOLEAN,
          recovered : BOOLEAN, collected : 0..AmountAtRisk, paid : 0..AmountAtRisk]
Actions == [candidate : Candidates, status : Statuses, policy : Policies,
            due : Nat \cup {None}]
Keys == Candidates \cup {"INITIAL"}

ASSUME NoneIsNoAction == None \notin Actions

\* terminal_outcomes of record_safety_disposition
OutcomeOf(d) == CASE d = "DISPUTE" -> "DISPUTED"
                  [] d \in {"OPTED_OUT", "WRONG_PERSON"} -> "STOPPED"
                  [] d = "ALREADY_PAID" -> "ESCALATED"

Ends(o) == request' = [request EXCEPT ![o] = None]

\* The response waits for the workflow to accept the signal.
Signals(o, signal) ==
    request' = [request EXCEPT ![o] =
        [command |-> "SIGNAL", target |-> signal, copy |-> None]]

Free(o, command) == request[o] = None /\ command \in Commands[o]
Holds(o, command) == request[o] # None /\ request[o].command = command

\* A request arrives; `copy' is what its session loads before it locks.  A
\* request that is refused or answered on what it loads changes nothing, and is
\* left out.
Arrives(o, command, target, copy) ==
    /\ Free(o, command)
    /\ request' = [request EXCEPT ![o] =
           [command |-> command, target |-> target, copy |-> copy]]
    /\ UNCHANGED <<now, caseVars, action, events, workflowVars>>

\* cancel_nonterminal_actions
Cancelled ==
    [k \in Keys |->
        IF action[k] # None /\ action[k].status \notin {"SUCCEEDED", "CANCELLED"}
        THEN [action[k] EXCEPT !.status = "CANCELLED"] ELSE action[k]]

-----------------------------------------------------------------------------
(* Recommendations *)

\* The context recommend_action builds from the case it has loaded.
Context ==
    [now |-> now, deadline |-> Deadline, outcome |-> case.outcome,
     captured |-> case.captured, pending |-> Retries, disposition |-> case.disposition,
     amount |-> AmountAtRisk, diagnosis |-> "UNKNOWN", invoice |-> TRUE,
     link |-> FALSE, agent |-> TRUE]

\* The status a policy decision gives a new action.
KeepsDisposition(disposition) == disposition
StatusOf(disposition) ==
    CASE disposition = "ALLOW" -> "PROPOSED"
      [] disposition = "BLOCK" -> "CANCELLED"
      [] disposition = "DELAY" -> "SCHEDULED"
      [] disposition = "REQUIRE_MANUAL_APPROVAL" -> "AWAITING_APPROVAL"

NewAction(c, policy) ==
    [candidate |-> c, status |-> StatusOf(policy.disposition),
     policy |-> policy.disposition, due |-> policy.until]

\* _ensure_initial_recommendation, as the case is opened: the engine decides.
InitialAction(score) ==
    LET choice == Decide(Context, Config, score)
    IN  [k \in Keys |-> IF k = "INITIAL" THEN NewAction(choice.action, choice.policy)
                        ELSE None]

\* The case when the workflow has been started; it opens before its deadline.
Init ==
    /\ now \in 0..(Deadline - 1)
    /\ case = [outcome |-> "OPEN", disposition |-> "NONE", captured |-> FALSE,
               recovered |-> FALSE, collected |-> 0, paid |-> 0]
    /\ optedOut = FALSE
    /\ recognized = [e \in MockEvents |-> 0]
    /\ \E score \in Scores : action = InitialAction(score)
    /\ events = {}
    /\ request = [o \in Operators |-> None]
    /\ signals = {} /\ phase = "POLICY"

\* recommend_action up to the lookup of the key: a named candidate is put to
\* policy.  Without a name the latest action is returned, and there is one.
Recommend(o) ==
    \E c \in {c \in Requestable : action[c] = None} :
        Arrives(o, "RECOMMEND", c, EvaluateSafetyPolicy(Context, Config, c))

\* get_action_by_idempotency_key
Known(key) == action[key] # None

\* The rest of recommend_action: an action of this key is returned as it is,
\* otherwise it is inserted with its policy, whatever the case has become.
Insert(o) ==
    /\ Holds(o, "RECOMMEND")
    /\ LET c == request[o].target
       IN  IF Known(c) THEN UNCHANGED action
           ELSE action' = [action EXCEPT ![c] = NewAction(c, request[o].copy)]
    /\ Ends(o)
    /\ UNCHANGED <<now, caseVars, events, workflowVars>>

-----------------------------------------------------------------------------
(* Approvals and rejections *)

\* Both commands load the action before they lock it, and decide on the status
\* they have loaded: approve_action asks for a pending approval, reject_action
\* for an action that has not been claimed.
Reviewable(command) ==
    IF command = "APPROVE" THEN {"AWAITING_APPROVAL"}
    ELSE {"PROPOSED", "AWAITING_APPROVAL", "SCHEDULED"}

Review(o) ==
    \E command \in {"APPROVE", "REJECT"}, k \in Keys :
        /\ action[k] # None /\ action[k].status \in Reviewable(command)
        /\ Arrives(o, command, k, None)

Approve(o) ==
    /\ Holds(o, "APPROVE")
    /\ action' = [action EXCEPT ![request[o].target].status = "SCHEDULED"]
    /\ events' = events \cup {request[o].target}
    /\ Signals(o, "approval")
    /\ UNCHANGED <<now, caseVars, workflowVars>>

Reject(o) ==
    /\ Holds(o, "REJECT")
    /\ action' = [action EXCEPT ![request[o].target].status = "CANCELLED"]
    /\ Signals(o, "approval")
    /\ UNCHANGED <<now, caseVars, events, workflowVars>>

-----------------------------------------------------------------------------
(* Stops, escalations and dispositions *)

\* POST /stop and /escalate load the case before they lock it.
LoadCase(o, command, outcome) ==
    /\ case.outcome \in {"OPEN", outcome}
    /\ Arrives(o, command, None, case.outcome)

\* stop_case, on the outcome it sees: a case stopped already is answered, and
\* signalled, again; another closed case is refused.
StopsOnce(seen) == FALSE
AlreadyStopped(seen) == seen = "STOPPED"

StopCase(o, seen) ==
    /\ IF AlreadyStopped(seen) THEN Signals(o, "stop") /\ UNCHANGED <<case, action, events>>
       ELSE IF seen # "OPEN" THEN Ends(o) /\ UNCHANGED <<case, action, events>>
       ELSE /\ case' = [case EXCEPT !.outcome = "STOPPED"]
            /\ action' = Cancelled
            /\ events' = events \cup {"STOPPED"}
            /\ Signals(o, "stop")
    /\ UNCHANGED <<now, optedOut, recognized, workflowVars>>

\* The command endpoint locks the case first, and sees it as it is.
CommandStop(o) == Free(o, "STOP") /\ StopCase(o, case.outcome)
Stop(o) == Holds(o, "STOP") /\ StopCase(o, request[o].copy)

\* escalate_case: the escalation is an action of its own, whose key contains
\* the version: a second one from the same version is refused.
EscalateCase(o, seen) ==
    /\ \/ /\ seen = "ESCALATED"
          /\ Signals(o, "escalate") /\ UNCHANGED <<case, action, events>>
       \/ /\ \/ seen \notin {"OPEN", "ESCALATED"}
             \/ seen = "OPEN" /\ "ESCALATED" \in events
          /\ Ends(o) /\ UNCHANGED <<case, action, events>>
       \/ /\ seen = "OPEN" /\ "ESCALATED" \notin events
          /\ case' = [case EXCEPT !.outcome = "ESCALATED"]
          /\ action' = Cancelled
          /\ events' = events \cup {"ESCALATED"}
          /\ Signals(o, "escalate")
    /\ UNCHANGED <<now, optedOut, recognized, workflowVars>>

\* The command endpoint and the safety controls lock the case first.
CommandEscalate(o) == Free(o, "ESCALATE") /\ EscalateCase(o, case.outcome)
Escalate(o) == Holds(o, "ESCALATE") /\ EscalateCase(o, request[o].copy)

\* CaseService.record_safety_disposition, in one transaction.  A repetition
\* changes nothing and on another closed case it is refused.
RecordDisposition(d) ==
    /\ case.outcome = "OPEN"
    /\ case' = [case EXCEPT !.disposition = d, !.outcome = OutcomeOf(d)]
    /\ optedOut' = (optedOut \/ d = "OPTED_OUT")
    /\ action' = Cancelled

\* The safety controls' endpoint: the workflow is not told.
SafetyDisposition(d) ==
    /\ RecordDisposition(d)
    /\ UNCHANGED <<now, recognized, events, request, workflowVars>>

-----------------------------------------------------------------------------
(* Mock payments *)

\* find_revenue_recognition and recognize_revenue_once
Recognized(e) == recognized[e] # 0

\* add_invoice_collection
Collected(amount) ==
    IF case.paid + amount < AmountAtRisk THEN case.paid + amount ELSE AmountAtRisk

\* apply_mock_payment_success under the case's lock: a known event is answered,
\* and signalled, again; a payment takes a part of what remains.
Pay(o, e) ==
    /\ LET remaining == AmountAtRisk - case.collected
       IN  \/ /\ Recognized(e)
              /\ Signals(o, "payment")
              /\ UNCHANGED <<case, recognized, action>>
           \/ /\ ~Recognized(e) /\ remaining = 0
              /\ Ends(o)
              /\ UNCHANGED <<case, recognized, action>>
           \/ \E amount \in 1..remaining :
              /\ ~Recognized(e)
              /\ recognized' = [recognized EXCEPT ![e] = amount]
              /\ LET all == case.collected + amount = AmountAtRisk
                 IN  case' = [case EXCEPT
                        !.collected = @ + amount, !.captured = TRUE, !.recovered = all,
                        !.paid = Collected(amount),
                        !.outcome = IF all THEN "RECOVERED" ELSE "PARTIALLY_RECOVERED"]
              /\ action' = Cancelled
              /\ Signals(o, "payment")
    /\ UNCHANGED <<now, optedOut, events, workflowVars>>

\* The endpoint of mock payments.
PaymentSuccess(o, e) == Free(o, "PAY") /\ Pay(o, e)

-----------------------------------------------------------------------------
(* The workflow, the worker and the environment *)

Ending == {"stop", "escalate", "payment"}

\* _deliver: a workflow that is not running is not signalled, and the command
\* is answered all the same.
Deliver(o) ==
    /\ Holds(o, "SIGNAL")
    /\ signals' = IF phase # "CLOSED" THEN signals \cup ({request[o].target} \cap Ending)
                  ELSE signals
    /\ Ends(o)
    /\ UNCHANGED <<now, caseVars, action, events, phase>>

\* A request ends early: Temporal cannot be reached, the API process dies, the
\* transaction fails.
RequestLost(o) ==
    /\ request[o] # None /\ Ends(o)
    /\ UNCHANGED <<now, caseVars, action, events, workflowVars>>

\* The statuses from which the worker claims an action, by its policy.
ClaimsAwaiting(policy) ==
    CASE policy = "ALLOW" -> {"PROPOSED", "SCHEDULED"}
      [] policy = "DELAY" -> {"SCHEDULED"}
      [] policy = "REQUIRE_MANUAL_APPROVAL" -> {"SCHEDULED", "AWAITING_APPROVAL"}
      [] policy = "BLOCK" -> {}
Claimable(policy) ==
    CASE policy = "ALLOW" -> {"PROPOSED", "SCHEDULED"}
      [] policy \in {"DELAY", "REQUIRE_MANUAL_APPROVAL"} -> {"SCHEDULED"}
      [] policy = "BLOCK" -> {}

\* The actions that the worker executes after such a claim.
Executed == Surfaces \cup {"AGENT"}

\* The claim that precedes an execution: a compare-and-set, tried at any time.
ClaimAction(k) ==
    /\ action[k] # None
    /\ action[k].candidate \in Executed
    /\ action[k].status \in Claimable(action[k].policy)
    /\ action[k].due # None => now >= action[k].due
    /\ action' = [action EXCEPT ![k].status = "EXECUTING"]
    /\ UNCHANGED <<now, caseVars, events, request, workflowVars>>

\* The execution has succeeded (PaymentAction, A2AMandate, VoiceContact).
ActionSucceeds(k) ==
    /\ action[k] # None /\ action[k].status = "EXECUTING"
    /\ action' = [action EXCEPT ![k].status = "SUCCEEDED"]
    /\ UNCHANGED <<now, caseVars, events, request, workflowVars>>

\* evaluate_policy: the policy stored with the latest action of the workflow's
\* candidate, which is the one an operator has asked for, if there is one.
StoredPolicy ==
    LET c == action["INITIAL"].candidate
    IN  IF action[c] # None THEN action[c].policy ELSE action["INITIAL"].policy

\* The workflow takes the result; BLOCK ends it.
EvaluatePolicy ==
    /\ phase = "POLICY"
    /\ phase' = IF StoredPolicy = "BLOCK" THEN "CLOSED" ELSE "ACTING"
    /\ UNCHANGED <<now, caseVars, action, events, request, signals>>

\* The workflow closes on a signal that ends the case, or at the deadline.
WorkflowCloses ==
    /\ phase = "ACTING" /\ (now = Deadline \/ signals # {})
    /\ phase' = "CLOSED" /\ signals' = {}
    /\ UNCHANGED <<now, caseVars, action, events, request>>

Tick ==
    /\ now < Deadline /\ now' = now + 1
    /\ UNCHANGED <<caseVars, action, events, request, workflowVars>>

Arrive(o) ==
    \/ Recommend(o) \/ Review(o)
    \/ LoadCase(o, "STOP", "STOPPED") \/ LoadCase(o, "ESCALATE", "ESCALATED")
    \/ CommandStop(o) \/ CommandEscalate(o)
    \/ \E e \in MockEvents : PaymentSuccess(o, e)

Handle(o) == Insert(o) \/ Approve(o) \/ Reject(o) \/ Stop(o) \/ Escalate(o)

Next ==
    \/ \E o \in Operators : Arrive(o) \/ Handle(o) \/ Deliver(o) \/ RequestLost(o)
    \/ \E d \in Reported : SafetyDisposition(d)
    \/ \E k \in Keys : ClaimAction(k) \/ ActionSucceeds(k)
    \/ EvaluatePolicy
    \/ WorkflowCloses
    \/ Tick

Spec == Init /\ [][Next]_vars

\* Handlers run to their end; an operator whose stop was answered with an error
\* repeats it, and neither the requests nor Temporal fail for ever.
LiveSpec ==
    /\ Spec
    /\ \A o \in Operators : "STOP" \in Commands[o] =>
           /\ WF_vars(Handle(o))
           /\ SF_vars(CommandStop(o))
           /\ SF_vars(Deliver(o))

-----------------------------------------------------------------------------
(* Properties *)

\* Every variable has its type.
TypeOK ==
    /\ now \in 0..Deadline
    /\ case \in Cases /\ optedOut \in BOOLEAN
    /\ recognized \in [MockEvents -> 0..AmountAtRisk]
    /\ action \in [Keys -> Actions \cup {None}]
    /\ signals \subseteq Ending
    /\ phase \in {"POLICY", "ACTING", "CLOSED"}

\* An action that policy holds for approval is scheduled or executed only after
\* an approval was recorded, whatever copies the reviewers decided on.
HeldUntilApproved ==
    \A k \in Keys :
        /\ action[k] # None
        /\ action[k].policy = "REQUIRE_MANUAL_APPROVAL"
        /\ action[k].status \in {"SCHEDULED", "EXECUTING", "SUCCEEDED"}
        => k \in events

\* A closed case that has come to rest stays at rest: no command that begins
\* after that brings back an action that contacts the customer.
LiveContact ==
    \E k \in Keys : /\ action[k] # None /\ action[k].candidate \in Contacts
                    /\ action[k].status \notin {"SUCCEEDED", "CANCELLED"}
AtRest == case.outcome # "OPEN" /\ (\A o \in Operators : request[o] = None) /\ ~LiveContact
ClosedStaysAtRest == [](AtRest => []~LiveContact)

\* While a recommendation is the only request, whatever the case has become,
\* the quiet hours are exact, the policy is safe and the engine's choice is
\* sound (see DecisionPolicy), for every evidence of the failure, setting of the
\* merchant, gateway state and payment link.
DecisionIsSound ==
    (\E o \in Operators : Holds(o, "RECOMMEND") /\ \A p \in Operators \ {o} : request[p] = None) =>
        \A config \in Configs :
            /\ config.quiet # None => QuietEndIsExact(now, config.quiet)
            /\ \A pending, link \in BOOLEAN :
                   LET context == [Context EXCEPT !.pending = pending, !.link = link] IN
                   /\ \A c \in Candidates : PolicyIsSafe(context, config, c)
                   /\ \A evidence \in Evidences, score \in Scores :
                          ChoiceIsSound(evidence, context, config, score)

\* A case that an operator has stopped is stopped in its workflow too: the
\* command may fail after its commit, and repeating it delivers the signal.
StopIsHeard ==
    (case.outcome = "STOPPED" /\ "STOPPED" \in events)
        ~> ("stop" \in signals \/ phase = "CLOSED" \/ case.outcome # "STOPPED")
=============================================================================
