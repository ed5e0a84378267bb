------------------------- MODULE CaseServiceProofs -------------------------
(***************************************************************************)
(* Proofs about CaseService: its types, that an action held for approval   *)
(* waits for one, that decisions are sound in every reachable case, and    *)
(* that a closed case at rest stays at rest.  They hold for every number   *)
(* of operators, every setting of the merchant and every score.            *)
(***************************************************************************)
EXTENDS CaseService, DecisionPolicyProofs

-----------------------------------------------------------------------------
(* What the requests hold *)

PolicyAnswers == [disposition : Policies, until : Nat \cup {None}]

\* A recommendation carries a candidate and policy's answer, a review an action
\* that exists.
RequestOK(o) ==
    request[o] # None =>
        /\ request[o].command = "RECOMMEND" =>
               request[o].target \in Candidates /\ request[o].copy \in PolicyAnswers
        /\ request[o].command \in {"APPROVE", "REJECT"} =>
               request[o].target \in Keys /\ action[request[o].target] # None
RequestsOK == DOMAIN request = Operators /\ \A o \in Operators : RequestOK(o)

TypeInv == TypeOK /\ RequestsOK

-----------------------------------------------------------------------------
(* The ways the actions change *)

LEMMA NewActionType ==
    ASSUME NEW c \in Candidates, NEW p \in PolicyAnswers
    PROVE  /\ NewAction(c, p) \in Actions
           /\ NewAction(c, p).candidate = c
           /\ NewAction(c, p).policy = p.disposition
           /\ NewAction(c, p).status = StatusOf(p.disposition)
<1>1. p.disposition \in Policies /\ p.until \in Nat \cup {None}
  BY DEF PolicyAnswers
<1>2. StatusOf(p.disposition) \in Statuses
  BY <1>1 DEF StatusOf, Statuses, Policies
<1> QED BY <1>1, <1>2 DEF NewAction, Actions

SetsStatus(k, s) ==
    /\ action[k] # None
    /\ action' = [action EXCEPT ![k].status = s]

Inserts(c, p) ==
    /\ action[c] = None
    /\ action' = [action EXCEPT ![c] = NewAction(c, p)]

\* What stays of an action, whatever its status becomes.
Kept(k) ==
    /\ action'[k] # None
    /\ action'[k].candidate = action[k].candidate
    /\ action'[k].policy = action[k].policy

LEMMA SetStatusKeeps ==
    ASSUME action \in [Keys -> Actions \cup {None}],
           NEW k \in Keys, NEW s \in Statuses, SetsStatus(k, s)
    PROVE  /\ action' \in [Keys -> Actions \cup {None}]
           /\ \A j \in Keys \ {k} : action'[j] = action[j]
           /\ Kept(k) /\ action'[k].status = s
<1>1. action[k] \in Actions
  BY DEF SetsStatus
<1> DEFINE new == [action[k] EXCEPT !.status = s]
<1>2. /\ new \in Actions /\ new.status = s
      /\ new.candidate = action[k].candidate /\ new.policy = action[k].policy
  BY <1>1 DEF Actions
<1>3. action' = [action EXCEPT ![k] = new]
  BY DEF SetsStatus
<1> HIDE DEF new
<1>4. action'[k] = new /\ \A j \in Keys \ {k} : action'[j] = action[j]
  BY <1>3
<1> QED BY <1>2, <1>3, <1>4, NoneIsNoAction DEF Kept

LEMMA CancelKeeps ==
    ASSUME action \in [Keys -> Actions \cup {None}], action' = Cancelled
    PROVE  /\ action' \in [Keys -> Actions \cup {None}]
           /\ \A k \in Keys :
                  IF action[k] = None THEN action'[k] = None
                  ELSE Kept(k) /\ action'[k].status \in {"SUCCEEDED", "CANCELLED"}
                               /\ action'[k].status \in {"CANCELLED", action[k].status}
<1>1. ASSUME NEW k \in Keys
      PROVE  /\ action'[k] \in Actions \cup {None}
             /\ IF action[k] = None THEN action'[k] = None
                ELSE Kept(k) /\ action'[k].status \in {"SUCCEEDED", "CANCELLED"}
                             /\ action'[k].status \in {"CANCELLED", action[k].status}
  <2> DEFINE new == [action[k] EXCEPT !.status = "CANCELLED"]
  <2>1. CASE action[k] # None /\ action[k].status \notin {"SUCCEEDED", "CANCELLED"}
    <3>1. action[k] \in Actions
      BY <2>1
    <3>2. /\ new \in Actions /\ new.status = "CANCELLED"
          /\ new.candidate = action[k].candidate /\ new.policy = action[k].policy
      BY <3>1 DEF Actions, Statuses
    <3>3. action'[k] = new
      BY <2>1 DEF Cancelled
    <3> HIDE DEF new
    <3> QED BY <2>1, <3>2, <3>3, NoneIsNoAction DEF Kept
  <2>2. CASE ~(action[k] # None /\ action[k].status \notin {"SUCCEEDED", "CANCELLED"})
    <3>1. action'[k] = action[k]
      BY <2>2 DEF Cancelled
    <3> QED BY <2>2, <3>1 DEF Kept
  <2> QED BY <2>1, <2>2
<1>2. action' = [k \in Keys |-> action'[k]]
  BY DEF Cancelled
<1> QED BY <1>1, <1>2

LEMMA InsertKeeps ==
    ASSUME action \in [Keys -> Actions \cup {None}],
           NEW c \in Candidates, NEW p \in PolicyAnswers, Inserts(c, p)
    PROVE  /\ action' \in [Keys -> Actions \cup {None}]
           /\ \A j \in Keys \ {c} : action'[j] = action[j]
           /\ action'[c] # None /\ action'[c].candidate = c
           /\ action'[c].policy = p.disposition
           /\ action'[c].status = StatusOf(p.disposition)
<1>1. c \in Keys
  BY DEF Keys
<1>2. action'[c] = NewAction(c, p) /\ \A j \in Keys \ {c} : action'[j] = action[j]
  BY <1>1 DEF Inserts
<1>3. NewAction(c, p) \in Actions
  BY NewActionType
<1>4. action' \in [Keys -> Actions \cup {None}]
  BY <1>1, <1>3 DEF Inserts
<1> QED BY <1>2, <1>3, <1>4, NewActionType, NoneIsNoAction

\* Every step changes the actions in one of these ways.
LEMMA ActionSteps ==
    ASSUME TypeInv, [Next]_vars
    PROVE  /\ events \subseteq events'
           /\ \/ UNCHANGED action
              \/ action' = Cancelled
              \/ \E o \in Operators :
                     /\ Holds(o, "RECOMMEND")
                     /\ Inserts(request[o].target, request[o].copy)
              \/ \E o \in Operators :
                     /\ Holds(o, "APPROVE") /\ request[o].target \in events'
                     /\ SetsStatus(request[o].target, "SCHEDULED")
              \/ \E o \in Operators :
                     Holds(o, "REJECT") /\ SetsStatus(request[o].target, "CANCELLED")
              \/ \E k \in Keys : /\ action[k].status \in Claimable(action[k].policy)
                                 /\ SetsStatus(k, "EXECUTING")
              \/ \E k \in Keys : /\ action[k].status = "EXECUTING"
                                 /\ SetsStatus(k, "SUCCEEDED")
<1>1. CASE UNCHANGED vars
  BY <1>1 DEF vars
<1>2. ASSUME NEW o \in Operators, Arrive(o) \/ Deliver(o) \/ RequestLost(o)
      PROVE  events \subseteq events' /\ (UNCHANGED action \/ action' = Cancelled)
  BY <1>2 DEF Arrive, Recommend, Review, LoadCase, Arrives, CommandStop, StopCase, CommandEscalate,
              EscalateCase, PaymentSuccess, Pay, Deliver, RequestLost
<1>3. ASSUME NEW o \in Operators, Stop(o) \/ Escalate(o)
      PROVE  events \subseteq events' /\ (UNCHANGED action \/ action' = Cancelled)
  BY <1>3 DEF Stop, StopCase, Escalate, EscalateCase
<1>4. ASSUME NEW o \in Operators, Insert(o)
      PROVE  /\ events \subseteq events' /\ Holds(o, "RECOMMEND")
             /\ UNCHANGED action \/ Inserts(request[o].target, request[o].copy)
  BY <1>4 DEF Insert, Known, Inserts
<1>5. ASSUME NEW o \in Operators, Approve(o)
      PROVE  /\ events \subseteq events' /\ Holds(o, "APPROVE") /\ request[o].target \in events'
             /\ SetsStatus(request[o].target, "SCHEDULED")
  BY <1>5 DEF Approve, Holds, SetsStatus, TypeInv, RequestsOK, RequestOK
<1>6. ASSUME NEW o \in Operators, Reject(o)
      PROVE  /\ events \subseteq events' /\ Holds(o, "REJECT")
             /\ SetsStatus(request[o].target, "CANCELLED")
  BY <1>6 DEF Reject, Holds, SetsStatus, TypeInv, RequestsOK, RequestOK
<1>7. ASSUME NEW d \in Reported, SafetyDisposition(d)
      PROVE  events \subseteq events' /\ action' = Cancelled
  BY <1>7 DEF SafetyDisposition, RecordDisposition
<1>8. ASSUME NEW k \in Keys, ClaimAction(k)
      PROVE  /\ events \subseteq events' /\ action[k].status \in Claimable(action[k].policy)
             /\ SetsStatus(k, "EXECUTING")
  BY <1>8 DEF ClaimAction, SetsStatus
<1>9. ASSUME NEW k \in Keys, ActionSucceeds(k)
      PROVE  /\ events \subseteq events' /\ action[k].status = "EXECUTING"
             /\ SetsStatus(k, "SUCCEEDED")
  BY <1>9 DEF ActionSucceeds, SetsStatus
<1>10. CASE EvaluatePolicy \/ WorkflowCloses \/ Tick
  BY <1>10 DEF EvaluatePolicy, WorkflowCloses, Tick
<1> QED BY <1>1, <1>2, <1>3, <1>4, <1>5, <1>6, <1>7, <1>8, <1>9, <1>10 DEF Next, Handle

\* No action disappears, or changes what it is and what policy said of it.
LEMMA ActionsKept ==
    ASSUME TypeInv, [Next]_vars
    PROVE  /\ action' \in [Keys -> Actions \cup {None}]
           /\ \A k \in Keys : action[k] # None => Kept(k)
<1>0. action \in [Keys -> Actions \cup {None}]
  BY DEF TypeInv, TypeOK
<1>1. CASE UNCHANGED action
  BY <1>0, <1>1 DEF Kept
<1>2. CASE action' = Cancelled
  BY <1>0, <1>2, CancelKeeps
<1>3. ASSUME NEW o \in Operators, Holds(o, "RECOMMEND"),
             Inserts(request[o].target, request[o].copy)
      PROVE  /\ action' \in [Keys -> Actions \cup {None}]
             /\ \A k \in Keys : action[k] # None => Kept(k)
  <2>1. request[o].target \in Candidates /\ request[o].copy \in PolicyAnswers
    BY <1>3 DEF Holds, TypeInv, RequestsOK, RequestOK
  <2>2. action[request[o].target] = None
    BY <1>3 DEF Inserts
  <2> QED BY <1>0, <1>3, <2>1, <2>2, InsertKeeps DEF Kept
<1>4. ASSUME NEW k \in Keys, NEW s \in Statuses, SetsStatus(k, s)
      PROVE  /\ action' \in [Keys -> Actions \cup {None}]
             /\ \A j \in Keys : action[j] # None => Kept(j)
  BY <1>0, <1>4, SetStatusKeeps DEF Kept
<1>5. ASSUME NEW o \in Operators, Holds(o, "APPROVE") \/ Holds(o, "REJECT")
      PROVE  request[o].target \in Keys
  BY <1>5 DEF Holds, TypeInv, RequestsOK, RequestOK
<1> QED BY <1>1, <1>2, <1>3, <1>4, <1>5, ActionSteps DEF Statuses

-----------------------------------------------------------------------------
(* Types *)

LEMMA ContextTyped ==
    ASSUME case \in Cases, now \in Nat
    PROVE  Context \in Contexts
BY CaseAssumption DEF Context, Contexts, Cases, Diagnoses

\* The case row stays a case row.
LEMMA CaseTyped ==
    ASSUME TypeOK, [Next]_vars
    PROVE  /\ case' \in Cases /\ optedOut' \in BOOLEAN
           /\ recognized' \in [MockEvents -> 0..AmountAtRisk]
<1>0. /\ case \in Cases /\ optedOut \in BOOLEAN
      /\ recognized \in [MockEvents -> 0..AmountAtRisk]
  BY DEF TypeOK
<1>1. ASSUME NEW x \in Outcomes, case' = [case EXCEPT !.outcome = x] PROVE case' \in Cases
  BY <1>0, <1>1 DEF Cases
<1>2. ASSUME NEW o \in Operators, NEW seen, StopCase(o, seen) \/ EscalateCase(o, seen)
      PROVE  case' \in Cases /\ UNCHANGED <<optedOut, recognized>>
  BY <1>0, <1>1, <1>2 DEF StopCase, EscalateCase, Outcomes
<1>3. ASSUME NEW o \in Operators, NEW e \in MockEvents, Pay(o, e)
      PROVE  /\ case' \in Cases /\ UNCHANGED optedOut
             /\ recognized' \in [MockEvents -> 0..AmountAtRisk]
  <2>1. CASE UNCHANGED <<case, recognized>>
    BY <1>0, <1>3, <2>1 DEF Pay
  <2>2. CASE ~UNCHANGED <<case, recognized>>
    <3>1. PICK amount \in 1..(AmountAtRisk - case.collected) :
              /\ recognized' = [recognized EXCEPT ![e] = amount]
              /\ LET all == case.collected + amount = AmountAtRisk
                 IN  case' = [case EXCEPT
                        !.collected = @ + amount, !.captured = TRUE, !.recovered = all,
                        !.paid = Collected(amount),
                        !.outcome = IF all THEN "RECOVERED" ELSE "PARTIALLY_RECOVERED"]
      BY <1>3, <2>2 DEF Pay
    <3>2. /\ case.collected \in 0..AmountAtRisk /\ case.paid \in 0..AmountAtRisk
          /\ AmountAtRisk \in Nat
      BY <1>0, CaseAssumption DEF Cases
    <3>3. /\ amount \in 0..AmountAtRisk /\ case.collected + amount \in 0..AmountAtRisk
          /\ Collected(amount) \in 0..AmountAtRisk
      BY <3>2 DEF Collected
    <3>4. case' \in Cases
      BY <1>0, <3>1, <3>3 DEF Cases, Outcomes
    <3> QED BY <1>0, <1>3, <3>1, <3>3, <3>4 DEF Pay
  <2> QED BY <2>1, <2>2
<1>4. ASSUME NEW d \in Reported, SafetyDisposition(d)
      PROVE  case' \in Cases /\ optedOut' \in BOOLEAN /\ UNCHANGED recognized
  <2>1. d \in Dispositions /\ OutcomeOf(d) \in Outcomes
    BY CaseAssumption DEF OutcomeOf, Outcomes, Dispositions
  <2> QED BY <1>0, <1>4, <2>1 DEF SafetyDisposition, RecordDisposition, Cases
<1>5. CASE UNCHANGED caseVars
  BY <1>0, <1>5 DEF caseVars
<1>6. ASSUME NEW o \in Operators, Arrive(o) \/ Handle(o) \/ Deliver(o) \/ RequestLost(o)
      PROVE  \/ UNCHANGED caseVars
             \/ \E seen : StopCase(o, seen) \/ EscalateCase(o, seen)
             \/ \E e \in MockEvents : Pay(o, e)
  BY <1>6 DEF Arrive, Recommend, Review, LoadCase, Arrives, CommandStop, CommandEscalate,
              PaymentSuccess, Deliver, RequestLost, Handle, Insert, Approve, Reject, Stop, Escalate
<1>7. CASE \/ \E k \in Keys : ClaimAction(k) \/ ActionSucceeds(k)
           \/ EvaluatePolicy \/ WorkflowCloses \/ Tick \/ UNCHANGED vars
  BY <1>5, <1>7 DEF ClaimAction, ActionSucceeds, EvaluatePolicy, WorkflowCloses, Tick, vars
<1> QED BY <1>0, <1>2, <1>3, <1>4, <1>5, <1>6, <1>7 DEF Next

\* A handler's change of its own request.
LEMMA RequestStep ==
    ASSUME DOMAIN request = Operators, NEW o \in Operators, NEW r,
           request' = [request EXCEPT ![o] = r]
    PROVE  /\ DOMAIN request' = Operators
           /\ request'[o] = r
           /\ \A p \in Operators \ {o} : request'[p] = request[p]
OBVIOUS

LEMMA RequestsTyped ==
    ASSUME TypeInv, [Next]_vars
    PROVE  RequestsOK'
<1>0. DOMAIN request = Operators /\ \A o \in Operators : RequestOK(o)
  BY DEF TypeInv, RequestsOK
<1>1. \A k \in Keys : action[k] # None => action'[k] # None
  BY ActionsKept DEF Kept
<1>2. ASSUME NEW o \in Operators, request'[o] = request[o] PROVE RequestOK(o)'
  BY <1>0, <1>1, <1>2 DEF RequestOK
<1>3. CASE UNCHANGED request
  BY <1>0, <1>2, <1>3 DEF RequestsOK
<1>4. ASSUME NEW o \in Operators, NEW r, request' = [request EXCEPT ![o] = r],
             r = None \/ (request'[o] = r => RequestOK(o)')
      PROVE  RequestsOK'
  <2>1. /\ DOMAIN request' = Operators /\ request'[o] = r
        /\ \A p \in Operators \ {o} : request'[p] = request[p]
    BY <1>0, <1>4, RequestStep
  <2>2. RequestOK(o)'
    BY <1>4, <2>1 DEF RequestOK
  <2> QED BY <1>2, <2>1, <2>2 DEF RequestsOK
<1>5. ASSUME NEW o \in Operators, Ends(o) PROVE RequestsOK'
  BY <1>4, <1>5 DEF Ends
<1>6. ASSUME NEW o \in Operators, NEW signal, Signals(o, signal) PROVE RequestsOK'
  <2> DEFINE r == [command |-> "SIGNAL", target |-> signal, copy |-> None]
  <2>1. request' = [request EXCEPT ![o] = r] /\ r.command = "SIGNAL"
    BY <1>6 DEF Signals
  <2> HIDE DEF r
  <2>2. request'[o] = r => RequestOK(o)'
    BY <2>1 DEF RequestOK
  <2> QED BY <1>4, <2>1, <2>2
<1>7. ASSUME NEW o \in Operators, Arrive(o) PROVE RequestsOK'
  <2>1. ASSUME NEW c \in Candidates,
               Arrives(o, "RECOMMEND", c, EvaluateSafetyPolicy(Context, Config, c))
        PROVE  RequestsOK'
    <3> DEFINE answer == EvaluateSafetyPolicy(Context, Config, c)
               r == [command |-> "RECOMMEND", target |-> c, copy |-> answer]
    <3>1. Context.now \in Nat /\ Context.deadline \in Nat
      BY CaseAssumption DEF TypeInv, TypeOK, Context
    <3>2. answer \in PolicyAnswers
      BY <3>1, PolicyType, CaseAssumption DEF PolicyAnswers
    <3>3. request' = [request EXCEPT ![o] = r]
      BY <2>1 DEF Arrives
    <3>4. r.command = "RECOMMEND" /\ r.target = c /\ r.copy = answer
      OBVIOUS
    <3> HIDE DEF r, answer
    <3>5. request'[o] = r => RequestOK(o)'
      BY <3>2, <3>4 DEF RequestOK
    <3> QED BY <1>4, <3>3, <3>5
  <2>2. ASSUME NEW command \in {"APPROVE", "REJECT"}, NEW k \in Keys, action[k] # None,
               Arrives(o, command, k, None)
        PROVE  RequestsOK'
    <3> DEFINE r == [command |-> command, target |-> k, copy |-> None]
    <3>1. request' = [request EXCEPT ![o] = r] /\ r.command = command /\ r.target = k
      BY <2>2 DEF Arrives
    <3> HIDE DEF r
    <3>2. request'[o] = r => RequestOK(o)'
      BY <1>1, <2>2, <3>1 DEF RequestOK
    <3> QED BY <1>4, <3>1, <3>2
  <2>3. ASSUME NEW command \in {"STOP", "ESCALATE"}, NEW seen, Arrives(o, command, None, seen)
        PROVE  RequestsOK'
    <3> DEFINE r == [command |-> command, target |-> None, copy |-> seen]
    <3>1. request' = [request EXCEPT ![o] = r] /\ r.command = command
      BY <2>3 DEF Arrives
    <3> HIDE DEF r
    <3>2. request'[o] = r => RequestOK(o)'
      BY <2>3, <3>1 DEF RequestOK
    <3> QED BY <1>4, <3>1, <3>2
  <2>4. CASE Recommend(o)
    BY <2>1, <2>4, CaseAssumption DEF Recommend
  <2>5. CASE Review(o)
    BY <2>2, <2>5 DEF Review
  <2>6. CASE LoadCase(o, "STOP", "STOPPED") \/ LoadCase(o, "ESCALATE", "ESCALATED")
    BY <2>3, <2>6 DEF LoadCase
  <2>7. CASE CommandStop(o) \/ CommandEscalate(o) \/ \E e \in MockEvents : PaymentSuccess(o, e)
    BY <1>5, <1>6, <2>7 DEF CommandStop, StopCase, CommandEscalate, EscalateCase, PaymentSuccess, Pay
  <2> QED BY <1>7, <2>4, <2>5, <2>6, <2>7 DEF Arrive
<1>8. ASSUME NEW o \in Operators, Handle(o) \/ Deliver(o) \/ RequestLost(o) PROVE RequestsOK'
  BY <1>5, <1>6, <1>8 DEF Handle, Insert, Approve, Reject, Stop, StopCase, Escalate, EscalateCase,
                          Deliver, RequestLost
<1>9. CASE \/ \E d \in Reported : SafetyDisposition(d)
           \/ \E k \in Keys : ClaimAction(k) \/ ActionSucceeds(k)
           \/ EvaluatePolicy \/ WorkflowCloses \/ Tick \/ UNCHANGED vars
  BY <1>3, <1>9 DEF SafetyDisposition, ClaimAction, ActionSucceeds, EvaluatePolicy, WorkflowCloses,
                    Tick, vars
<1> QED BY <1>7, <1>8, <1>9 DEF Next

\* The clock and the workflow.
LEMMA WorkflowTyped ==
    ASSUME TypeOK, [Next]_vars
    PROVE  /\ now' \in 0..Deadline /\ signals' \subseteq Ending
           /\ phase' \in {"POLICY", "ACTING", "CLOSED"}
<1>0. /\ now \in 0..Deadline /\ signals \subseteq Ending
      /\ phase \in {"POLICY", "ACTING", "CLOSED"}
  BY DEF TypeOK
<1>1. CASE UNCHANGED <<now, workflowVars>>
  BY <1>0, <1>1 DEF workflowVars
<1>2. ASSUME NEW o \in Operators, Arrive(o) \/ Handle(o) \/ RequestLost(o)
      PROVE  UNCHANGED <<now, workflowVars>>
  BY <1>2 DEF Arrive, Recommend, Review, LoadCase, Arrives, CommandStop, StopCase, CommandEscalate,
              EscalateCase, PaymentSuccess, Pay, RequestLost, Handle, Insert, Approve, Reject,
              Stop, Escalate
<1>3. ASSUME NEW o \in Operators, Deliver(o)
      PROVE  /\ now' \in 0..Deadline /\ signals' \subseteq Ending
             /\ phase' \in {"POLICY", "ACTING", "CLOSED"}
  BY <1>0, <1>3 DEF Deliver
<1>4. CASE EvaluatePolicy \/ WorkflowCloses
  BY <1>0, <1>4 DEF EvaluatePolicy, WorkflowCloses
<1>5. CASE Tick
  BY <1>0, <1>5, CaseAssumption DEF Tick, workflowVars
<1>6. CASE \/ \E d \in Reported : SafetyDisposition(d)
           \/ \E k \in Keys : ClaimAction(k) \/ ActionSucceeds(k)
           \/ UNCHANGED vars
  BY <1>1, <1>6 DEF SafetyDisposition, ClaimAction, ActionSucceeds, vars
<1> QED BY <1>1, <1>2, <1>3, <1>4, <1>5, <1>6 DEF Next

LEMMA TypeInductive == TypeInv /\ [Next]_vars => TypeInv'
BY ActionsKept, CaseTyped, RequestsTyped, WorkflowTyped DEF TypeInv, TypeOK

\* The engine's first action.
LEMMA InitialTyped ==
    ASSUME Init
    PROVE  /\ action \in [Keys -> Actions \cup {None}]
           /\ \A k \in Keys : action[k] # None =>
                  \E d \in Policies : action[k].policy = d /\ action[k].status = StatusOf(d)
<1>1. PICK score \in Scores : action = InitialAction(score)
  BY DEF Init
<1>2. score \in [Candidates -> Nat] /\ Config \in PolicySettings
  BY CaseAssumption
<1>3. now \in Nat /\ Context.now \in Nat /\ Context.deadline \in Nat
  BY CaseAssumption DEF Init, Context
<1> DEFINE choice == Decide(Context, Config, score)
<1>4. choice.action \in Candidates /\ choice.policy \in PolicyAnswers
  <2>1. /\ choice.action \in Eligible(Context)
        /\ choice.policy = EvaluateSafetyPolicy(Context, Config, choice.action)
    BY <1>2, <1>3, DecideBest
  <2> QED BY <1>2, <1>3, <2>1, EligibleCandidates, PolicyType DEF PolicyAnswers
<1>5. action = [k \in Keys |-> IF k = "INITIAL" THEN NewAction(choice.action, choice.policy)
                               ELSE None]
  BY <1>1 DEF InitialAction
<1> HIDE DEF choice
<1>6. /\ NewAction(choice.action, choice.policy) \in Actions
      /\ NewAction(choice.action, choice.policy).policy = choice.policy.disposition
      /\ NewAction(choice.action, choice.policy).status = StatusOf(choice.policy.disposition)
      /\ choice.policy.disposition \in Policies
  BY <1>4, NewActionType DEF PolicyAnswers
<1> QED BY <1>5, <1>6

LEMMA TypeInitial == Init => TypeInv
<1> SUFFICES ASSUME Init PROVE TypeInv
  OBVIOUS
<1>1. now \in 0..Deadline
  BY CaseAssumption DEF Init
<1>2. case \in Cases /\ optedOut \in BOOLEAN /\ recognized \in [MockEvents -> 0..AmountAtRisk]
  <2>1. 0 \in 0..AmountAtRisk
    BY CaseAssumption
  <2>2. case \in Cases
    BY <2>1 DEF Init, Cases, Outcomes, Dispositions
  <2> QED BY <2>1, <2>2 DEF Init
<1>3. RequestsOK
  BY DEF Init, RequestsOK, RequestOK
<1>4. signals \subseteq Ending /\ phase \in {"POLICY", "ACTING", "CLOSED"}
  BY DEF Init
<1> QED BY <1>1, <1>2, <1>3, <1>4, InitialTyped DEF TypeInv, TypeOK

LEMMA TypeAlways == Spec => []TypeInv
BY TypeInitial, TypeInductive, PTL DEF Spec

\* The variables of CaseService keep their types under every interleaving of
\* the commands (CaseService, CaseRepository).
THEOREM TypeCorrect == Spec => []TypeOK
<1>1. TypeInv => TypeOK
  BY DEF TypeInv
<1> QED BY <1>1, TypeAlways, PTL

-----------------------------------------------------------------------------
(* Approvals *)

LEMMA HeldInductive == TypeInv /\ HeldUntilApproved /\ [Next]_vars => HeldUntilApproved'
<1> SUFFICES ASSUME TypeInv, HeldUntilApproved, [Next]_vars,
                    NEW k \in Keys, action'[k] # None,
                    action'[k].policy = "REQUIRE_MANUAL_APPROVAL",
                    action'[k].status \in {"SCHEDULED", "EXECUTING", "SUCCEEDED"}
             PROVE  k \in events'
  BY DEF HeldUntilApproved
<1>0. action \in [Keys -> Actions \cup {None}] /\ events \subseteq events'
  BY ActionSteps DEF TypeInv, TypeOK
<1>1. ASSUME action[k] # None, action[k].policy = "REQUIRE_MANUAL_APPROVAL",
             action[k].status \in {"SCHEDULED", "EXECUTING", "SUCCEEDED"}
      PROVE  k \in events'
  BY <1>0, <1>1 DEF HeldUntilApproved
<1>2. CASE UNCHANGED action
  BY <1>1, <1>2
<1>3. CASE action' = Cancelled
  <2>1. /\ action[k] # None /\ action[k].policy = action'[k].policy
        /\ action'[k].status \in {"CANCELLED", action[k].status}
    BY <1>0, <1>3, CancelKeeps DEF Kept
  <2> QED BY <1>1, <2>1
<1>4. ASSUME NEW o \in Operators, Holds(o, "RECOMMEND"),
             Inserts(request[o].target, request[o].copy)
      PROVE  k \in events'
  <2>1. request[o].target \in Candidates /\ request[o].copy \in PolicyAnswers
    BY <1>4 DEF Holds, TypeInv, RequestsOK, RequestOK
  <2>2. CASE k = request[o].target
    <3>1. action'[k].status = StatusOf("REQUIRE_MANUAL_APPROVAL")
      BY <1>0, <1>4, <2>1, <2>2, InsertKeeps
    <3> QED BY <3>1 DEF StatusOf
  <2>3. CASE k # request[o].target
    <3>1. action'[k] = action[k]
      BY <1>0, <1>4, <2>1, <2>3, InsertKeeps
    <3> QED BY <1>1, <3>1
  <2> QED BY <2>2, <2>3
<1>5. ASSUME NEW j \in Keys, NEW s \in Statuses, SetsStatus(j, s),
             \/ s = "SCHEDULED" /\ j \in events'
             \/ s = "CANCELLED"
             \/ s = "EXECUTING" /\ action[j].status \in Claimable(action[j].policy)
             \/ s = "SUCCEEDED" /\ action[j].status = "EXECUTING"
      PROVE  k \in events'
  <2>1. /\ \A i \in Keys \ {j} : action'[i] = action[i]
        /\ Kept(j) /\ action'[j].status = s
    BY <1>0, <1>5, SetStatusKeeps
  <2>2. CASE k # j
    BY <1>1, <2>1, <2>2
  <2>3. CASE k = j
    <3>1. action[k] # None /\ action[k].policy = "REQUIRE_MANUAL_APPROVAL"
      BY <1>5, <2>1, <2>3 DEF SetsStatus, Kept
    <3>2. Claimable("REQUIRE_MANUAL_APPROVAL") = {"SCHEDULED"}
      BY DEF Claimable
    <3> QED BY <1>1, <1>5, <2>1, <2>3, <3>1, <3>2
  <2> QED BY <2>2, <2>3
<1>6. ASSUME NEW o \in Operators, Holds(o, "APPROVE") \/ Holds(o, "REJECT")
      PROVE  request[o].target \in Keys
  BY <1>6 DEF Holds, TypeInv, RequestsOK, RequestOK
<1>7. {"SCHEDULED", "CANCELLED", "EXECUTING", "SUCCEEDED"} \subseteq Statuses
  BY DEF Statuses
<1> QED BY <1>2, <1>3, <1>4, <1>5, <1>6, <1>7, ActionSteps

\* An action held for approval is scheduled or executed only after an approval
\* was recorded, for every number of reviewers and stale copies (approve_action,
\* reject_action and the worker's claim).
THEOREM ApprovalIsRequired == Spec => []HeldUntilApproved
<1>1. Init => HeldUntilApproved
  <2> SUFFICES ASSUME Init, NEW k \in Keys, action[k] # None,
                      action[k].policy = "REQUIRE_MANUAL_APPROVAL",
                      action[k].status \in {"SCHEDULED", "EXECUTING", "SUCCEEDED"}
               PROVE  FALSE
    BY DEF HeldUntilApproved
  <2>1. action[k].status = StatusOf("REQUIRE_MANUAL_APPROVAL")
    BY InitialTyped
  <2> QED BY <2>1 DEF StatusOf
<1> QED BY <1>1, HeldInductive, TypeAlways, PTL DEF Spec

-----------------------------------------------------------------------------
(* Decisions *)

\* Quiet hours, policy and choice are sound in every state the case can reach,
\* for every evidence, setting, gateway state and score (see DecisionIsSound).
THEOREM DecisionsAreSound == Spec => []DecisionIsSound
<1>1. TypeOK => DecisionIsSound
  <2> SUFFICES ASSUME TypeOK, NEW config \in Configs
               PROVE  /\ config.quiet # None => QuietEndIsExact(now, config.quiet)
                      /\ \A pending, link \in BOOLEAN :
                             LET context == [Context EXCEPT !.pending = pending, !.link = link] IN
                             /\ \A c \in Candidates : PolicyIsSafe(context, config, c)
                             /\ \A evidence \in Evidences, score \in Scores :
                                    ChoiceIsSound(evidence, context, config, score)
    BY DEF DecisionIsSound
  <2>1. config \in PolicySettings /\ now \in Nat /\ case \in Cases
    BY CaseAssumption DEF TypeOK
  <2>2. config.quiet # None => QuietEndIsExact(now, config.quiet)
    BY <2>1, QuietHoursAreExact DEF PolicySettings
  <2>3. ASSUME NEW pending \in BOOLEAN, NEW link \in BOOLEAN
        PROVE  LET context == [Context EXCEPT !.pending = pending, !.link = link] IN
               /\ \A c \in Candidates : PolicyIsSafe(context, config, c)
               /\ \A evidence \in Evidences, score \in Scores :
                      ChoiceIsSound(evidence, context, config, score)
    <3> DEFINE context == [Context EXCEPT !.pending = pending, !.link = link]
    <3>1. Context \in Contexts
      BY <2>1, ContextTyped
    <3>2. context \in Contexts
      BY <3>1 DEF Contexts
    <3>3. context.now \in Nat /\ context.deadline \in Nat
      BY <3>2 DEF Contexts
    <3> HIDE DEF context
    <3>4. \A c \in Candidates : PolicyIsSafe(context, config, c)
      BY <2>1, <3>3, PolicySafety
    <3>5. \A evidence \in Evidences, score \in Scores :
              ChoiceIsSound(evidence, context, config, score)
      BY <2>1, <3>2, ChoiceSoundness, CaseAssumption
    <3> QED BY <3>4, <3>5 DEF context
  <2> QED BY <2>2, <2>3
<1> QED BY <1>1, TypeCorrect, PTL

-----------------------------------------------------------------------------
(* Rest *)

\* What a closed case at rest keeps: the requests that may have come since do
\* not bring a contact back.  Policy blocked every contact that is being
\* recommended, and only a control can be waiting for an approval.
Resting ==
    /\ case.outcome # "OPEN" /\ ~LiveContact
    /\ \A o \in Operators :
           /\ Holds(o, "RECOMMEND") /\ request[o].target \in Contacts
                  => request[o].copy.disposition = "BLOCK"
           /\ Holds(o, "APPROVE") => action[request[o].target].candidate \notin Contacts

\* No step opens a closed case again.
LEMMA StaysClosed ==
    ASSUME TypeInv, [Next]_vars, case.outcome # "OPEN"
    PROVE  case'.outcome # "OPEN"
<1>0. case \in Cases
  BY DEF TypeInv, TypeOK
<1>1. ASSUME NEW o \in Operators, NEW seen, StopCase(o, seen) \/ EscalateCase(o, seen)
      PROVE  case'.outcome # "OPEN"
  BY <1>0, <1>1 DEF StopCase, EscalateCase, Cases
<1>2. ASSUME NEW o \in Operators, NEW e \in MockEvents, Pay(o, e)
      PROVE  case'.outcome # "OPEN"
  BY <1>0, <1>2 DEF Pay, Cases
<1>3. CASE UNCHANGED caseVars
  BY <1>3 DEF caseVars
<1>4. ASSUME NEW o \in Operators, Arrive(o) \/ Handle(o) \/ Deliver(o) \/ RequestLost(o)
      PROVE  \/ UNCHANGED caseVars
             \/ \E seen : StopCase(o, seen) \/ EscalateCase(o, seen)
             \/ \E e \in MockEvents : Pay(o, e)
  BY <1>4 DEF Arrive, Recommend, Review, LoadCase, Arrives, CommandStop, CommandEscalate,
              PaymentSuccess, Deliver, RequestLost, Handle, Insert, Approve, Reject, Stop, Escalate
<1>5. ~\E d \in Reported : SafetyDisposition(d)
  BY DEF SafetyDisposition, RecordDisposition
<1>6. CASE \/ \E k \in Keys : ClaimAction(k) \/ ActionSucceeds(k)
           \/ EvaluatePolicy \/ WorkflowCloses \/ Tick \/ UNCHANGED vars
  BY <1>3, <1>6 DEF ClaimAction, ActionSucceeds, EvaluatePolicy, WorkflowCloses, Tick, vars
<1> QED BY <1>1, <1>2, <1>3, <1>4, <1>5, <1>6 DEF Next

LEMMA ContactsStayQuiet ==
    ASSUME TypeInv, Resting, [Next]_vars
    PROVE  ~LiveContact'
<1> SUFFICES ASSUME NEW k \in Keys, action'[k] # None, action'[k].candidate \in Contacts
             PROVE  action'[k].status \in {"SUCCEEDED", "CANCELLED"}
  BY DEF LiveContact
<1>0. action \in [Keys -> Actions \cup {None}]
  BY DEF TypeInv, TypeOK
<1>1. ASSUME action[k] # None, action[k].candidate \in Contacts
      PROVE  action[k].status \in {"SUCCEEDED", "CANCELLED"}
  BY <1>1 DEF Resting, LiveContact
<1>2. CASE UNCHANGED action
  BY <1>1, <1>2
<1>3. CASE action' = Cancelled
  BY <1>0, <1>3, CancelKeeps DEF Kept
<1>4. ASSUME NEW o \in Operators, Holds(o, "RECOMMEND"),
             Inserts(request[o].target, request[o].copy)
      PROVE  action'[k].status \in {"SUCCEEDED", "CANCELLED"}
  <2>1. request[o].target \in Candidates /\ request[o].copy \in PolicyAnswers
    BY <1>4 DEF Holds, TypeInv, RequestsOK, RequestOK
  <2>2. CASE k = request[o].target
    <3>1. /\ action'[k].candidate = k
          /\ action'[k].status = StatusOf(request[o].copy.disposition)
      BY <1>0, <1>4, <2>1, <2>2, InsertKeeps
    <3>2. request[o].copy.disposition = "BLOCK"
      BY <1>4, <2>2, <3>1 DEF Resting
    <3> QED BY <3>1, <3>2 DEF StatusOf
  <2>3. CASE k # request[o].target
    <3>1. action'[k] = action[k]
      BY <1>0, <1>4, <2>1, <2>3, InsertKeeps
    <3> QED BY <1>1, <3>1
  <2> QED BY <2>2, <2>3
<1>5. ASSUME NEW j \in Keys, NEW s \in Statuses, SetsStatus(j, s),
             \/ action[j].candidate \notin Contacts
             \/ s \in {"SUCCEEDED", "CANCELLED"}
             \/ action[j].status \notin {"SUCCEEDED", "CANCELLED"}
      PROVE  action'[k].status \in {"SUCCEEDED", "CANCELLED"}
  <2>1. /\ \A i \in Keys \ {j} : action'[i] = action[i]
        /\ Kept(j) /\ action'[j].status = s
    BY <1>0, <1>5, SetStatusKeeps
  <2>2. CASE k # j
    BY <1>1, <2>1, <2>2
  <2>3. CASE k = j
    <3>1. action[k] # None /\ action[k].candidate \in Contacts
      BY <1>5, <2>1, <2>3 DEF SetsStatus, Kept
    <3> QED BY <1>1, <1>5, <2>1, <2>3, <3>1
  <2> QED BY <2>2, <2>3
<1>6. ASSUME NEW o \in Operators, Holds(o, "APPROVE") \/ Holds(o, "REJECT")
      PROVE  request[o].target \in Keys
  BY <1>6 DEF Holds, TypeInv, RequestsOK, RequestOK
<1>7. ASSUME NEW o \in Operators, Holds(o, "APPROVE")
      PROVE  action[request[o].target].candidate \notin Contacts
  BY <1>7 DEF Resting
<1>8. ASSUME NEW j \in Keys, action[j] # None, action[j].status \in Claimable(action[j].policy)
      PROVE  action[j].status \notin {"SUCCEEDED", "CANCELLED"}
  <2>1. action[j].policy \in Policies
    BY <1>0, <1>8 DEF Actions
  <2> QED BY <1>8, <2>1 DEF Claimable, Policies
<1>9. {"SCHEDULED", "CANCELLED", "EXECUTING", "SUCCEEDED"} \subseteq Statuses
  BY DEF Statuses
<1>10. ASSUME NEW j \in Keys, NEW s, SetsStatus(j, s) PROVE action[j] # None
  BY <1>10 DEF SetsStatus
<1> QED BY <1>2, <1>3, <1>4, <1>5, <1>6, <1>7, <1>8, <1>9, <1>10, ActionSteps

LEMMA RestingInductive == TypeInv /\ Resting /\ [Next]_vars => Resting'
<1> SUFFICES ASSUME TypeInv, Resting, [Next]_vars PROVE Resting'
  OBVIOUS
<1> DEFINE Harmless(o) ==
             /\ Holds(o, "RECOMMEND") /\ request[o].target \in Contacts
                    => request[o].copy.disposition = "BLOCK"
             /\ Holds(o, "APPROVE") => action[request[o].target].candidate \notin Contacts
           AllHarmless == \A o \in Operators : Harmless(o)
<1>0. /\ DOMAIN request = Operators /\ \A o \in Operators : RequestOK(o)
      /\ \A o \in Operators : Harmless(o)
  BY DEF TypeInv, RequestsOK, Resting
<1>1. \A k \in Keys : action[k] # None => action'[k].candidate = action[k].candidate
  BY ActionsKept DEF Kept
<1>2. ASSUME NEW o \in Operators, request'[o] = request[o] PROVE Harmless(o)'
  BY <1>0, <1>1, <1>2 DEF RequestOK, Holds
<1>3. ASSUME NEW o \in Operators, request'[o] = None PROVE Harmless(o)'
  BY <1>3 DEF Holds
<1>4. ASSUME NEW o \in Operators, request'[o].command \notin {"RECOMMEND", "APPROVE"}
      PROVE  Harmless(o)'
  BY <1>4 DEF Holds
<1>5. ASSUME NEW o \in Operators, NEW r, request' = [request EXCEPT ![o] = r], Harmless(o)'
      PROVE  AllHarmless'
  BY <1>0, <1>2, <1>5, RequestStep
<1>6. ASSUME NEW o \in Operators, Ends(o) PROVE AllHarmless'
  <2>1. request'[o] = None
    BY <1>0, <1>6, RequestStep DEF Ends
  <2>2. Harmless(o)'
    BY <1>3, <2>1
  <2> QED BY <1>5, <1>6, <2>2 DEF Ends
<1>7. ASSUME NEW o \in Operators, NEW signal, Signals(o, signal)
      PROVE  AllHarmless'
  <2> DEFINE r == [command |-> "SIGNAL", target |-> signal, copy |-> None]
  <2>1. request' = [request EXCEPT ![o] = r] /\ r.command = "SIGNAL"
    BY <1>7 DEF Signals
  <2> HIDE DEF r
  <2>2. request'[o] = r
    BY <1>0, <2>1, RequestStep
  <2>3. Harmless(o)'
    BY <1>4, <2>1, <2>2
  <2> QED BY <1>5, <2>1, <2>3
<1>8. ASSUME NEW o \in Operators, NEW c \in Candidates,
             Arrives(o, "RECOMMEND", c, EvaluateSafetyPolicy(Context, Config, c))
      PROVE  AllHarmless'
  <2> DEFINE answer == EvaluateSafetyPolicy(Context, Config, c)
             r == [command |-> "RECOMMEND", target |-> c, copy |-> answer]
  <2>1. c \in Contacts => answer.disposition = "BLOCK"
    <3>1. Context.now \in Nat /\ Context.deadline \in Nat
      BY CaseAssumption DEF TypeInv, TypeOK, Context
    <3>2. Context.outcome # "OPEN"
      BY DEF Context, Resting
    <3>3. PolicyIsSafe(Context, Config, c)
      BY <3>1, PolicySafety, CaseAssumption
    <3> QED BY <3>2, <3>3 DEF PolicyIsSafe
  <2>2. request' = [request EXCEPT ![o] = r]
    BY <1>8 DEF Arrives
  <2>3. r.command = "RECOMMEND" /\ r.target = c /\ r.copy = answer
    OBVIOUS
  <2> HIDE DEF r, answer
  <2>4. request'[o] = r
    BY <1>0, <2>2, RequestStep
  <2>5. Harmless(o)'
    BY <2>1, <2>3, <2>4 DEF Holds
  <2> QED BY <1>5, <2>2, <2>5
<1>9. ASSUME NEW o \in Operators, Review(o) PROVE AllHarmless'
  <2>1. PICK command \in {"APPROVE", "REJECT"}, k \in Keys :
            /\ action[k] # None /\ action[k].status \in Reviewable(command)
            /\ Arrives(o, command, k, None)
    BY <1>9 DEF Review
  <2> DEFINE r == [command |-> command, target |-> k, copy |-> None]
  <2>2. request' = [request EXCEPT ![o] = r] /\ r.command = command /\ r.target = k
    BY <2>1 DEF Arrives
  <2>3. action[k].candidate \notin Contacts
    <3>1. action[k].status \notin {"SUCCEEDED", "CANCELLED"}
      BY <2>1 DEF Reviewable
    <3> QED BY <2>1, <3>1 DEF Resting, LiveContact
  <2> HIDE DEF r
  <2>4. request'[o] = r
    BY <1>0, <2>2, RequestStep
  <2>5. Harmless(o)'
    BY <1>1, <2>1, <2>2, <2>3, <2>4 DEF Holds
  <2> QED BY <1>5, <2>2, <2>5
<1>10. ASSUME NEW o \in Operators, NEW command \in {"STOP", "ESCALATE"}, NEW seen,
              Arrives(o, command, None, seen)
       PROVE  AllHarmless'
  <2> DEFINE r == [command |-> command, target |-> None, copy |-> seen]
  <2>1. request' = [request EXCEPT ![o] = r] /\ r.command = command
    BY <1>10 DEF Arrives
  <2> HIDE DEF r
  <2>2. request'[o] = r
    BY <1>0, <2>1, RequestStep
  <2>3. Harmless(o)'
    BY <1>4, <2>1, <2>2
  <2> QED BY <1>5, <2>1, <2>3
<1>11. ASSUME UNCHANGED request PROVE AllHarmless'
  BY <1>2, <1>11
<1> HIDE DEF Harmless, AllHarmless
<1>12. ASSUME NEW o \in Operators, Arrive(o) \/ Handle(o) \/ Deliver(o) \/ RequestLost(o)
       PROVE  AllHarmless'
  <2>1. CASE Recommend(o)
    BY <1>8, <2>1, CaseAssumption DEF Recommend
  <2>2. CASE Review(o)
    BY <1>9, <2>2
  <2>3. CASE LoadCase(o, "STOP", "STOPPED") \/ LoadCase(o, "ESCALATE", "ESCALATED")
    BY <1>10, <2>3 DEF LoadCase
  <2>4. CASE CommandStop(o) \/ CommandEscalate(o) \/ \E e \in MockEvents : PaymentSuccess(o, e)
    BY <1>6, <1>7, <2>4 DEF CommandStop, StopCase, CommandEscalate, EscalateCase, PaymentSuccess, Pay
  <2>5. CASE Handle(o) \/ Deliver(o) \/ RequestLost(o)
    BY <1>6, <1>7, <2>5 DEF Handle, Insert, Approve, Reject, Stop, StopCase, Escalate, EscalateCase,
                            Deliver, RequestLost
  <2> QED BY <1>12, <2>1, <2>2, <2>3, <2>4, <2>5 DEF Arrive
<1>13. ASSUME \/ \E d \in Reported : SafetyDisposition(d)
              \/ \E k \in Keys : ClaimAction(k) \/ ActionSucceeds(k)
              \/ EvaluatePolicy \/ WorkflowCloses \/ Tick \/ UNCHANGED vars
       PROVE  AllHarmless'
  BY <1>11, <1>13 DEF SafetyDisposition, ClaimAction, ActionSucceeds, EvaluatePolicy,
                      WorkflowCloses, Tick, vars
<1>14. AllHarmless'
  BY <1>12, <1>13 DEF Next
<1>15. case'.outcome # "OPEN"
  BY StaysClosed DEF Resting
<1>16. ~LiveContact'
  BY ContactsStayQuiet
<1> QED BY <1>14, <1>15, <1>16 DEF Resting, Harmless, AllHarmless

\* A closed case with no open request and no live contact never gets a live
\* contact again: what is recommended later is blocked, and what is approved
\* later is a control (CaseService.recommend_action, approve_action).
THEOREM RestIsKept == Spec => ClosedStaysAtRest
<1>1. AtRest => Resting
  BY DEF AtRest, Resting, Holds
<1>2. Resting => ~LiveContact
  BY DEF Resting
<1>3. TypeInv /\ [Next]_vars => (Resting => Resting')
  BY RestingInductive
<1> QED BY <1>1, <1>2, <1>3, TypeAlways, PTL DEF Spec, ClosedStaysAtRest
=============================================================================
