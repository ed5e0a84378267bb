----------------------- MODULE RecoveryWorkflowProofs -----------------------
(***************************************************************************)
(* Theorems about RecoveryWorkflow for every set of signals, deadlines,    *)
(* delays and policies, and without a bound on the clock.                  *)
(***************************************************************************)
EXTENDS RecoveryWorkflow, FiniteSetTheorems, TLAPS

----------------------------------------------------------------------------
(* Type correctness. *)

ResultType ==
    /\ terminal \in BOOLEAN /\ outcome \in Outcomes \cup {None}
    /\ paymentState \in {"FAILED", "CAPTURED"}

\* _finish keeps the result fields well typed.
LEMMA FinishType ==
    ASSUME TypeOK, NEW o \in Outcomes, Finish(o)
    PROVE  ResultType'
BY DEF TypeOK, Finish, ResultType

\* Every cause of a cancellation leads to an outcome of the workflow.
LEMMA OutcomeOfType ==
    ASSUME NEW c
    PROVE  OutcomeOf(c) \in Outcomes
BY DEF OutcomeOf, DeadlineOutcome, Outcomes

\* What follows a cancellation keeps the result fields and the stage well typed.
LEMMA AfterCancelType ==
    ASSUME TypeOK, NEW c, AfterCancel(c)
    PROVE  ResultType' /\ pc' \in {"Drain", "Done"}
<1>1. CASE c = "SUPPRESS"
  BY <1>1 DEF AfterCancel, TypeOK, ResultType, Outcomes
<1>2. CASE c # "SUPPRESS"
  <2>1. Finish(OutcomeOf(c)) /\ pc' \in {"Drain", "Done"}
    BY <1>2 DEF AfterCancel
  <2> QED BY <2>1, FinishType, OutcomeOfType
<1> QED BY <1>1, <1>2

\* _cancel_active_action keeps every field it touches well typed.
LEMMA CancelActiveActionType ==
    ASSUME TypeOK, NEW c \in Causes, CancelActiveAction(c)
    PROVE  /\ ResultType' /\ pc' \in {"Drain", "Done", "Cancel"}
           /\ then' \in Causes \cup {None} /\ cleanup' \in BOOLEAN
<1>1. CASE NothingToCancel(c)
  <2>1. AfterCancel(c) /\ UNCHANGED <<then, cleanup>>
    BY <1>1 DEF CancelActiveAction
  <2> QED BY <2>1, AfterCancelType DEF TypeOK
<1>2. CASE ~NothingToCancel(c)
  BY <1>2 DEF CancelActiveAction, TypeOK, result, ResultType
<1> QED BY <1>1, <1>2

\* Beginning an outreach keeps the outside world's view of it well typed.
LEMMA BeginOutreachType ==
    ASSUME TypeOK, NEW activity, BeginOutreach(activity)
    PROVE  /\ pc' = activity /\ cleanup' \in BOOLEAN
           /\ outreach' \in Nat /\ outreachAt' \in Nat \cup {None}
<1>1. outreach' \in Nat
  BY DEF BeginOutreach, TypeOK
<1>2. outreachAt' \in Nat \cup {None}
  BY DEF BeginOutreach, TypeOK
<1>3. pc' = activity /\ cleanup' \in BOOLEAN
  BY DEF BeginOutreach
<1> QED BY <1>1, <1>2, <1>3

\* Dispatching the policy's action keeps every field it touches well typed.
LEMMA BeginActionType ==
    ASSUME TypeOK, NEW act \in Actions, BeginAction(act)
    PROVE  /\ ResultType' /\ pc' \in {"Drain", "Done", "StartA2A", "Execute"}
           /\ site' \in Sites /\ actionStatus' \in ActionStatuses \cup {None}
           /\ outreach' \in Nat /\ outreachAt' \in Nat \cup {None}
           /\ cleanup' \in BOOLEAN /\ evidence' \in BOOLEAN
<1> USE DEF TypeOK, ActionStatuses, Sites, ExecutionStatuses, result
<1>1. evidence' \in BOOLEAN
  BY DEF BeginAction
<1>2. CASE act = "WAIT_FOR_GATEWAY_RETRY"
  BY <1>1, <1>2 DEF BeginAction, ResultType
<1>3. CASE act = "STOP"
  <2>1. Finish("STOPPED") /\ pc' = "Done"
        /\ UNCHANGED <<site, actionStatus, outreach, outreachAt, cleanup>>
    BY <1>3 DEF BeginAction
  <2> QED BY <1>1, <2>1, FinishType DEF Outcomes
<1>4. CASE act = "SEND_TO_CUSTOMER_AGENT"
  <2>1. CASE ~scoped
    <3>1. /\ actionStatus' = "REJECTED" /\ Finish("ESCALATED") /\ pc' = "Done"
          /\ UNCHANGED <<site, outreach, outreachAt, cleanup>>
      BY <1>4, <2>1 DEF BeginAction
    <3> QED BY <1>1, <3>1, FinishType DEF Outcomes
  <2>2. CASE scoped
    <3>1. BeginOutreach("StartA2A") /\ UNCHANGED <<site, result, actionStatus>>
      BY <1>4, <2>2 DEF BeginAction
    <3> QED BY <1>1, <3>1, BeginOutreachType DEF ResultType
  <2> QED BY <2>1, <2>2
<1>5. CASE act \in {"OPEN_CUSTOMER_PAYMENT_SURFACE", "START_VOICE", "ESCALATE_TO_HUMAN"}
  <2>1. /\ actionStatus' = "EXECUTING" /\ BeginOutreach("Execute")
        /\ UNCHANGED <<site, result>>
    BY <1>5 DEF BeginAction
  <2> QED BY <1>1, <2>1, BeginOutreachType DEF ResultType
<1> QED BY <1>2, <1>3, <1>4, <1>5 DEF Actions

\* Popping a signal keeps the mailbox well typed and leaves alone what no
\* handler writes.
LEMMA TakeType ==
    ASSUME TypeOK, NEW kinds, Take(kinds)
    PROVE  /\ queue' \in Seq(Signal) /\ processed' \in Nat
           /\ UNCHANGED <<site, seen, policy, actionStatus, exactArrears, a2aTask,
                          mandate, receiptSent, input, now, outreach, outreachAt,
                          evidence>>
<1>1. queue \in Seq(Signal) /\ queue # <<>> /\ queue' = Tail(queue)
  BY DEF TypeOK, Take
<1>2. queue' \in Seq(Signal)
  BY <1>1
<1> QED BY <1>2 DEF TypeOK, Take

\* Every action keeps every variable in its type.
LEMMA TypeInductive == TypeOK /\ [Next]_vars => TypeOK'
<1> SUFFICES ASSUME TypeOK, [Next]_vars PROVE TypeOK'
  OBVIOUS
<1> USE ConstantsAssumption
<1>1. ASSUME NEW id \in SignalIds, NEW k \in Kinds, Deliver(id, k) PROVE TypeOK'
  <2>1. [id |-> id, kind |-> k] \in Signal
    BY DEF Signal
  <2>2. queue' \in Seq(Signal)
    BY <1>1, <2>1 DEF Deliver, TypeOK
  <2> QED BY <1>1, <2>2 DEF Deliver, TypeOK, frame, policy, result, consent, a2a, input, history
<1>2. CASE Tick
  BY <1>2 DEF Tick, TypeOK, frame, mailbox, policy, result, consent, a2a, input, history
<1>3. CASE Normalize \/ Diagnose \/ Score
  BY <1>3 DEF Normalize, Diagnose, Score, Opening, TypeOK, Activities, mailbox, policy,
              result, consent, a2a, input, history
<1>4. ASSUME NEW d \in Dispositions, NEW act \in PolicyActions,
             NEW until \in DelayTargets \cup {None}, PolicyReturns(d, act, until)
      PROVE  TypeOK'
  <2>1. /\ disposition' \in Dispositions \cup {None}
        /\ action' \in Actions \cup {None}
        /\ delayUntil' \in Nat \cup {None}
        /\ UNCHANGED <<then, mailbox, exactArrears, consent, a2a, input, now>>
    BY <1>4 DEF PolicyReturns
  <2>2. CASE d = "BLOCK"
    <3>1. Finish("STOPPED") /\ pc' = "Done" /\ UNCHANGED <<site, actionStatus, history>>
      BY <1>4, <2>2 DEF PolicyReturns
    <3>2. ResultType'
      BY <3>1, FinishType DEF Outcomes
    <3> QED BY <2>1, <3>1, <3>2 DEF TypeOK, ResultType, mailbox, consent, a2a, input,
                                    history, Closed
  <2>3. CASE (d = "DELAY" /\ until # None) \/ d = "REQUIRE_MANUAL_APPROVAL"
    BY <1>4, <2>1, <2>3 DEF PolicyReturns, TypeOK, Sites, mailbox, consent, a2a, input,
                            history, result
  <2>4. CASE d = "ALLOW" \/ (d = "DELAY" /\ until = None)
    <3>1. BeginAction(act)
      BY <1>4, <2>4 DEF PolicyReturns
    <3>2. act \in Actions
      OBVIOUS
    <3> QED BY <2>1, <3>1, <3>2, BeginActionType
            DEF TypeOK, ResultType, mailbox, consent, a2a, input, Closed, Activities
  <2> QED BY <2>2, <2>3, <2>4 DEF Dispositions
<1>5. ASSUME NEW s \in A2AStates, StartA2AReturns(s) PROVE TypeOK'
  BY <1>5 DEF StartA2AReturns, TypeOK, A2AStates, ActionStatuses, Sites, mailbox, policy,
              result, consent, input, history
<1>6. ASSUME NEW s \in ExecutionStatuses, ExecuteReturns(s) PROVE TypeOK'
  <2>1. CASE s \in {"FAILED", "REJECTED"}
    <3>1. Finish("ESCALATED") /\ pc' = "Done" /\ UNCHANGED site
      BY <1>6, <2>1 DEF ExecuteReturns
    <3>2. ResultType'
      BY <3>1, FinishType DEF Outcomes
    <3> QED BY <1>6, <3>1, <3>2 DEF ExecuteReturns, TypeOK, ResultType, ActionStatuses,
                 Actions, Closed, mailbox, consent, a2a, input, history
  <2>2. CASE s \notin {"FAILED", "REJECTED"}
    BY <1>6, <2>2 DEF ExecuteReturns, TypeOK, ActionStatuses, Actions, Sites, result,
                 mailbox, consent, a2a, input, history
  <2> QED BY <2>1, <2>2
<1>7. ASSUME NEW v \in {"PENDING", "REJECTED", "VERIFIED"}, PollReturns(v) PROVE TypeOK'
  <2>1. CASE v = "PENDING"
    BY <1>7, <2>1 DEF PollReturns, TypeOK, result, mailbox, policy, consent, input, history
  <2>2. CASE v = "REJECTED"
    <3>1. Finish("ESCALATED") /\ pc' = "Done"
      BY <1>7, <2>2 DEF PollReturns
    <3>2. ResultType'
      BY <3>1, FinishType DEF Outcomes
    <3> QED BY <1>7, <2>2, <3>1, <3>2 DEF PollReturns, TypeOK, ResultType, ActionStatuses,
                 ExecutionStatuses, Closed, mailbox, policy, consent, input, history
  <2>3. CASE v = "VERIFIED"
    <3>1. BeginOutreach("Execute") /\ UNCHANGED <<result, evidence>>
          /\ nextPoll' = None /\ mandate' = TRUE /\ actionStatus' = "EXECUTING"
      BY <1>7, <2>3 DEF PollReturns
    <3> QED BY <1>7, <3>1, BeginOutreachType DEF PollReturns, TypeOK, ActionStatuses,
                 Activities, result, mailbox, policy, consent, input
  <2> QED BY <2>1, <2>2, <2>3
<1>8. ASSUME NEW r \in Reconciliations, ReconcileReturns(r) PROVE TypeOK'
  <2>1. /\ UNCHANGED <<site, mailbox, policy, actionStatus, consent, a2a, input, now,
                       outreach, outreachAt>>
        /\ exactArrears' \in BOOLEAN /\ evidence' \in BOOLEAN
    BY <1>8 DEF ReconcileReturns, TypeOK, Reconciliations
  <2>2. ResultType' /\ pc' \in {"Drain", "Done", "Receipt", "Cancel"}
        /\ then' \in Causes \cup {None} /\ cleanup' \in BOOLEAN
    <3>1. CASE AfterCancel("PAYMENT") /\ UNCHANGED <<then, cleanup>>
      BY <3>1, AfterCancelType DEF TypeOK
    <3>2. CASE ~(AfterCancel("PAYMENT") /\ UNCHANGED <<then, cleanup>>)
      BY <1>8, <3>2 DEF ReconcileReturns, ResultType, TypeOK, Reconciliations, Causes
    <3> QED BY <3>1, <3>2
  <2> QED BY <2>1, <2>2 DEF TypeOK, ResultType, Closed, Activities, mailbox, policy,
                            consent, a2a, input
<1>9. ASSUME NEW b \in BOOLEAN, ReceiptReturns(b) PROVE TypeOK'
  <2>1. CancelActiveAction("PAYMENT") /\ "PAYMENT" \in Causes
    BY <1>9 DEF ReceiptReturns, Causes
  <2> QED BY <1>9, <2>1, CancelActiveActionType DEF ReceiptReturns, TypeOK, ResultType,
             Closed, Activities, mailbox, policy, consent, input
<1>10. ASSUME NEW b \in BOOLEAN, CancelReturns(b) PROVE TypeOK'
  <2>1. AfterCancel(then)
    BY <1>10 DEF CancelReturns
  <2> QED BY <1>10, <2>1, AfterCancelType DEF CancelReturns, TypeOK, ResultType, Closed,
             ActionStatuses, mailbox, policy, consent, a2a, input, history
<1>11. CASE Wake
  BY <1>11 DEF Wake, TypeOK, mailbox, policy, result, consent, a2a, input, history
<1>12. CASE Drain
  <2>1. CASE HandleApproval
    <3>1. Take({"APPROVE", "REJECT"}) /\ UNCHANGED <<pc, then, result, suppressed,
                                                     nextPoll, cleanup>>
      BY <2>1 DEF HandleApproval
    <3>2. approval' \in BOOLEAN \cup {None}
      BY <2>1, Zenon DEF HandleApproval, TypeOK
    <3> QED BY <3>1, <3>2, TakeType DEF TypeOK, policy, input, result
  <2>2. CASE HandlePayment
    BY <2>2, TakeType DEF HandlePayment, TypeOK, Activities, policy, input, result, consent
  <2>3. CASE HandleOptOut
    <3>1. CancelActiveAction("SUPPRESS") /\ "SUPPRESS" \in Causes
      BY <2>3 DEF HandleOptOut, Causes
    <3> QED BY <2>3, <3>1, TakeType, CancelActiveActionType
            DEF HandleOptOut, TypeOK, ResultType, Activities, Closed, policy, input
  <2>4. ASSUME NEW kind, NEW c \in Causes, HandleStop(kind, c) PROVE TypeOK'
    <3>1. CancelActiveAction(c) /\ Take({kind}) /\ UNCHANGED <<consent, nextPoll>>
      BY <2>4 DEF HandleStop
    <3> QED BY <3>1, TakeType, CancelActiveActionType
            DEF TypeOK, ResultType, Activities, Closed, policy, input, consent
  <2>5. CASE HandleDispute \/ HandleCancellation \/ HandleEscalation
    BY <2>4, <2>5 DEF HandleDispute, HandleCancellation, HandleEscalation, Causes
  <2>6. CASE HandleIgnored
    BY <2>6, TakeType DEF HandleIgnored, TypeOK, policy, input, result, consent
  <2>7. CASE HandleA2AHint
    BY <2>7, TakeType DEF HandleA2AHint, TypeOK, policy, input, result, consent
  <2> QED BY <1>12, <2>1, <2>2, <2>3, <2>5, <2>6, <2>7 DEF Drain
<1>13. CASE Resume
  <2>1. AfterDrainUnchanged
    BY <1>13 DEF Resume, ResumeDelay, ResumeApproval, ResumeLoop
  <2>2. CASE WaitAgain \/ Return
    BY <2>1, <2>2 DEF WaitAgain, Return, AfterDrainUnchanged, TypeOK, Closed, result,
                      history, mailbox, policy, consent, input
  <2>3. CASE ExpireDeadline
    <3>1. CancelActiveAction("DEADLINE") /\ "DEADLINE" \in Causes
      BY <2>3 DEF ExpireDeadline, Causes
    <3> QED BY <2>1, <2>3, <3>1, CancelActiveActionType
            DEF ExpireDeadline, AfterDrainUnchanged, TypeOK, ResultType, Activities, Closed,
                mailbox, policy, consent, input
  <2>4. CASE BeginAction(action) /\ UNCHANGED <<then, nextPoll>>
    <3>1. action \in Actions
      <4>1. action \in Actions \/ action = None
        BY DEF TypeOK
      <4>2. CASE action = None
        BY <2>4, <4>2, NoneAssumption DEF BeginAction, Actions
      <4> QED BY <4>1, <4>2
    <3> QED BY <2>1, <2>4, <3>1, BeginActionType
            DEF AfterDrainUnchanged, TypeOK, ResultType, Activities, Closed, mailbox,
                policy, consent, input
  <2>5. CASE /\ Finish("STOPPED") /\ pc' = "Done"
             /\ UNCHANGED <<site, then, actionStatus, nextPoll, history>>
    <3>1. ResultType'
      BY <2>5, FinishType DEF Outcomes
    <3> QED BY <2>1, <2>5, <3>1 DEF AfterDrainUnchanged, TypeOK, ResultType, Closed,
               history, mailbox, policy, consent, input
  <2>6. CASE pc' = "Poll" /\ UNCHANGED <<site, then, result, actionStatus, nextPoll, history>>
    BY <2>1, <2>6 DEF AfterDrainUnchanged, TypeOK, Activities, result, history, mailbox,
                      policy, consent, input
  <2> QED BY <1>13, <2>2, <2>3, <2>4, <2>5, <2>6
          DEF Resume, ResumeDelay, ResumeApproval, ResumeLoop
<1>14. CASE ActivityFails
  BY <1>14 DEF ActivityFails, TypeOK, Closed, mailbox, policy, result, consent, a2a, input,
               history
<1>15. CASE HandlerAuditFails
  BY <1>15, TakeType DEF HandlerAuditFails, TypeOK, Closed, policy, result, consent, input
<1>16. CASE UNCHANGED vars
  BY <1>16 DEF vars, frame, mailbox, policy, result, consent, a2a, input, history, TypeOK
<1> QED BY <1>1, <1>2, <1>3, <1>4, <1>5, <1>6, <1>7, <1>8, <1>9, <1>10, <1>11, <1>12,
           <1>13, <1>14, <1>15, <1>16 DEF Next, AwaitReturns

\* Every variable of the workflow keeps the type workflow.py's annotations give
\* it, whatever signals, results and times the run meets.
THEOREM TypeCorrect == Spec => []TypeOK
<1>1. Init => TypeOK
  <2> SUFFICES ASSUME Init PROVE TypeOK
    OBVIOUS
  <2>1. processed \in Nat /\ deadline \in Nat /\ now \in Nat /\ outreach \in Nat
    BY ConstantsAssumption DEF Init
  <2>2. queue \in Seq(Signal) /\ seen \subseteq SignalIds
    BY DEF Init
  <2> QED BY <2>1, <2>2 DEF Init, TypeOK, Activities, Sites
<1> QED BY <1>1, TypeInductive, PTL DEF Spec
----------------------------------------------------------------------------
(* What a reconciliation establishes. *)

\* RecoveredOnlyOnEvidence and ReceiptOnlyForExactCapture are inductive together
\* with where the coroutine is while it settles: a terminal workflow never
\* reconciles again, the receipt is awaited only after an exact authoritative
\* capture, and a delivered receipt is followed by the cancellation and the
\* finish of _handle_payment, or by a failure.
SettledInv ==
    /\ RecoveredOnlyOnEvidence
    /\ ReceiptOnlyForExactCapture
    /\ outcome = "RECOVERED" => terminal
    /\ terminal => pc \in {"Drain", "Cancel", "Done", "Failed"}
    /\ pc = "Receipt" => /\ a2aTask /\ mandate /\ evidence /\ exactArrears
                         /\ paymentState = "CAPTURED"
    /\ pc = "Cancel" /\ then = "PAYMENT" => evidence
    /\ receiptSent => \/ terminal \/ pc = "Failed"
                      \/ pc = "Cancel" /\ then = "PAYMENT"

\* GatedOutreachInWindow is inductive together with the reason each gate exists:
\* the wait a gated workflow is in tells its disposition, nothing is submitted
\* before the policy has answered, and a mandate is polled only for a task that
\* an earlier submission started.
GatedInv ==
    /\ GatedOutreachInWindow
    /\ pc \in {"Normalize", "Diagnose", "Score", "Policy"} =>
           site = "LOOP" /\ outreachAt = None /\ ~a2aTask
    /\ site = "DELAY" => disposition = "DELAY"
    /\ site = "APPROVAL" => disposition = "REQUIRE_MANUAL_APPROVAL" /\ delayUntil = None
    /\ a2aTask \/ pc = "StartA2A" => outreachAt # None
    /\ pc = "Poll" => a2aTask

\* Every action preserves SettledInv.
LEMMA SettledInductive == TypeOK /\ SettledInv /\ [Next]_vars => SettledInv'
<1> SUFFICES ASSUME TypeOK, SettledInv, [Next]_vars PROVE SettledInv'
  OBVIOUS
<1> USE DEF SettledInv, RecoveredOnlyOnEvidence, ReceiptOnlyForExactCapture
<1>1. ASSUME NEW id \in SignalIds, NEW k \in Kinds, Deliver(id, k) PROVE SettledInv'
  BY <1>1 DEF Deliver, frame, result, a2a, history
<1>2. CASE Tick
  BY <1>2 DEF Tick, frame, result, a2a, history
<1>3. CASE Normalize \/ Diagnose \/ Score
  BY <1>3 DEF Normalize, Diagnose, Score, Opening, result, a2a, history
<1>4. ASSUME NEW d \in Dispositions, NEW act \in PolicyActions,
             NEW until \in DelayTargets \cup {None}, PolicyReturns(d, act, until)
      PROVE  SettledInv'
  <2>1. pc = "Policy" /\ UNCHANGED <<then, exactArrears, a2a>>
    BY <1>4 DEF PolicyReturns
  <2>2. CASE d = "BLOCK"
    BY <1>4, <2>1, <2>2 DEF PolicyReturns, Finish, a2a, history
  <2>3. CASE (d = "DELAY" /\ until # None) \/ d = "REQUIRE_MANUAL_APPROVAL"
    BY <1>4, <2>1, <2>3 DEF PolicyReturns, result, a2a, history
  <2>4. CASE BeginAction(act)
    BY <2>1, <2>4 DEF BeginAction, BeginOutreach, Finish, result, a2a
  <2> QED BY <1>4, <2>2, <2>3, <2>4 DEF PolicyReturns, Dispositions
<1>5. ASSUME NEW s \in A2AStates, StartA2AReturns(s) PROVE SettledInv'
  BY <1>5 DEF StartA2AReturns, result, history
<1>6. ASSUME NEW s \in ExecutionStatuses, ExecuteReturns(s) PROVE SettledInv'
  BY <1>6 DEF ExecuteReturns, Finish, result, a2a, history
<1>7. ASSUME NEW v \in {"PENDING", "REJECTED", "VERIFIED"}, PollReturns(v) PROVE SettledInv'
  BY <1>7 DEF PollReturns, BeginOutreach, Finish, result, history
<1>8. ASSUME NEW r \in Reconciliations, ReconcileReturns(r) PROVE SettledInv'
  <2>1. /\ pc = "Reconcile" /\ UNCHANGED a2a
        /\ exactArrears' = IF r.authoritative THEN r.exact ELSE exactArrears
        /\ evidence' = (evidence \/ (r.authoritative /\ r.recovered))
    BY <1>8 DEF ReconcileReturns
  <2>2. ~terminal /\ ~receiptSent /\ outcome # "RECOVERED"
    BY <2>1
  <2>3. CASE ~ProvesRecovery(r)
    BY <1>8, <2>1, <2>2, <2>3 DEF ReconcileReturns, a2a
  <2>4. CASE ProvesRecovery(r) /\ ReceiptApplies(r)
    <3>1. evidence' /\ exactArrears' /\ r.state = "CAPTURED" /\ r.authoritative
      BY <2>1, <2>4 DEF ProvesRecovery, ReceiptApplies
    <3>2. pc' = "Receipt" /\ paymentState' = "CAPTURED" /\ UNCHANGED <<terminal, outcome>>
      BY <1>8, <2>4, <3>1 DEF ReconcileReturns
    <3>3. a2aTask' /\ mandate' /\ ~receiptSent'
      BY <2>1, <2>4 DEF ReceiptApplies, a2a
    <3> QED BY <2>2, <3>1, <3>2, <3>3
  <2>5. CASE ProvesRecovery(r) /\ ~ReceiptApplies(r)
    <3>1. evidence'
      BY <2>1, <2>5 DEF ProvesRecovery
    <3>2. CASE AfterCancel("PAYMENT")
      BY <2>1, <2>2, <3>1, <3>2 DEF AfterCancel, Finish, OutcomeOf, a2a
    <3>3. CASE pc' = "Cancel" /\ then' = "PAYMENT" /\ UNCHANGED <<terminal, outcome>>
      BY <2>1, <2>2, <3>1, <3>3 DEF a2a
    <3> QED BY <1>8, <2>5, <3>2, <3>3 DEF ReconcileReturns
  <2> QED BY <2>3, <2>4, <2>5
<1>9. ASSUME NEW b \in BOOLEAN, ReceiptReturns(b) PROVE SettledInv'
  <2>1. /\ pc = "Receipt" /\ receiptSent' = b /\ CancelActiveAction("PAYMENT")
        /\ UNCHANGED <<exactArrears, a2aTask, mandate, evidence>>
    BY <1>9 DEF ReceiptReturns
  <2>2. CASE AfterCancel("PAYMENT")
    BY <2>1, <2>2 DEF AfterCancel, Finish, OutcomeOf
  <2>3. CASE pc' = "Cancel" /\ then' = "PAYMENT" /\ UNCHANGED result
    BY <2>1, <2>3 DEF result
  <2> QED BY <2>1, <2>2, <2>3 DEF CancelActiveAction
<1>10. ASSUME NEW b \in BOOLEAN, CancelReturns(b) PROVE SettledInv'
  <2>1. /\ pc = "Cancel" /\ AfterCancel(then)
        /\ UNCHANGED <<exactArrears, a2a, history>>
    BY <1>10 DEF CancelReturns
  <2>2. CASE then = "SUPPRESS"
    BY <2>1, <2>2 DEF AfterCancel, a2a, history
  <2>3. CASE then = "PAYMENT"
    BY <2>1, <2>3 DEF AfterCancel, Finish, OutcomeOf, a2a, history
  <2>4. CASE then \notin {"SUPPRESS", "PAYMENT"}
    <3>1. OutcomeOf(then) # "RECOVERED"
      BY <2>4 DEF OutcomeOf, DeadlineOutcome
    <3> QED BY <2>1, <2>4, <3>1 DEF AfterCancel, Finish, a2a, history
  <2> QED BY <2>2, <2>3, <2>4
<1>11. CASE Wake
  BY <1>11 DEF Wake, result, a2a, history
<1>12. CASE Drain
  <2>1. /\ pc = "Drain" /\ ~terminal
        /\ UNCHANGED <<exactArrears, a2aTask, mandate, receiptSent, evidence>>
    BY <1>12 DEF Drain, HandleApproval, HandlePayment, HandleOptOut, HandleDispute,
                 HandleCancellation, HandleEscalation, HandleStop, HandleIgnored,
                 HandleA2AHint, Take
  <2>2. ~receiptSent /\ outcome # "RECOVERED"
    BY <2>1
  <2>3. CASE UNCHANGED <<pc, then, result>>
    BY <2>1, <2>3 DEF result
  <2>4. CASE HandlePayment
    BY <2>1, <2>2, <2>4 DEF HandlePayment, result
  <2>5. ASSUME NEW c, c # "PAYMENT", CancelActiveAction(c) PROVE SettledInv'
    <3>1. OutcomeOf(c) # "RECOVERED"
      BY <2>5 DEF OutcomeOf, DeadlineOutcome
    <3> QED BY <2>1, <2>2, <2>5, <3>1 DEF CancelActiveAction, AfterCancel, Finish, result
  <2> QED BY <1>12, <2>3, <2>4, <2>5
          DEF Drain, HandleApproval, HandleOptOut, HandleDispute, HandleCancellation,
              HandleEscalation, HandleStop, HandleIgnored, HandleA2AHint
<1>13. CASE Resume
  <2>1. AfterDrainUnchanged /\ pc \in {"Drain", "Resume"}
    BY <1>13 DEF Resume, ResumeDelay, ResumeApproval, ResumeLoop, Drained
  <2>2. CASE Return \/ (WaitAgain /\ ~terminal)
    BY <2>1, <2>2 DEF Return, WaitAgain, AfterDrainUnchanged, result, history
  <2>3. CASE ExpireDeadline
    <3>1. OutcomeOf("DEADLINE") # "RECOVERED"
      BY DEF OutcomeOf, DeadlineOutcome
    <3> QED BY <2>1, <2>3, <3>1 DEF ExpireDeadline, AfterDrainUnchanged, CancelActiveAction,
               AfterCancel, Finish, result
  <2>4. CASE ~terminal /\ BeginAction(action) /\ UNCHANGED then
    BY <2>1, <2>4 DEF AfterDrainUnchanged, BeginAction, BeginOutreach, Finish, result
  <2>5. CASE Finish("STOPPED") /\ pc' = "Done" /\ UNCHANGED <<then, history>>
    BY <2>1, <2>5 DEF AfterDrainUnchanged, Finish, history
  <2>6. CASE ~terminal /\ pc' = "Poll" /\ UNCHANGED <<then, result, history>>
    BY <2>1, <2>6 DEF AfterDrainUnchanged, result, history
  <2> QED BY <1>13, <2>2, <2>3, <2>4, <2>5, <2>6
          DEF Resume, ResumeDelay, ResumeApproval, ResumeLoop
<1>14. CASE ActivityFails
  BY <1>14 DEF ActivityFails, result, a2a, history
<1>15. CASE HandlerAuditFails
  BY <1>15 DEF HandlerAuditFails, Take, result
<1>16. CASE UNCHANGED vars
  BY <1>16 DEF vars, frame, result, a2a, history
<1> QED BY <1>1, <1>2, <1>3, <1>4, <1>5, <1>6, <1>7, <1>8, <1>9, <1>10, <1>11, <1>12,
           <1>13, <1>14, <1>15, <1>16 DEF Next, AwaitReturns

\* SettledInv holds in every state: what RECOVERED and a sent receipt rest on is
\* never taken back.
LEMMA SettledInvariant == Spec => []SettledInv
<1>1. Init => SettledInv
  BY NoneAssumption DEF Init, SettledInv, RecoveredOnlyOnEvidence,
     ReceiptOnlyForExactCapture, Outcomes
<1> QED BY <1>1, SettledInductive, TypeCorrect, PTL DEF Spec

\* The workflow reports RECOVERED, and the payment captured, only after an
\* authoritative reconciliation proved it (_handle_payment).
THEOREM RecoveryNeedsEvidence == Spec => []RecoveredOnlyOnEvidence
<1>1. SettledInv => RecoveredOnlyOnEvidence
  BY DEF SettledInv
<1> QED BY <1>1, SettledInvariant, PTL

\* A receipt reaches the customer's agent only for a verified mandate and an
\* exact authoritative capture, and nothing takes that back
\* (_send_a2a_receipt_if_applicable).
THEOREM ReceiptNeedsCapture == Spec => []ReceiptOnlyForExactCapture
<1>1. SettledInv => ReceiptOnlyForExactCapture
  BY DEF SettledInv
<1> QED BY <1>1, SettledInvariant, PTL

----------------------------------------------------------------------------
(* Outreach inside its window. *)


\* Every action preserves GatedInv.
LEMMA GatedInductive == TypeOK /\ GatedInv /\ [Next]_vars => GatedInv'
<1> SUFFICES ASSUME TypeOK, GatedInv, [Next]_vars PROVE GatedInv'
  OBVIOUS
<1> USE DEF GatedInv, GatedOutreachInWindow
<1>1. ASSUME NEW id \in SignalIds, NEW k \in Kinds, Deliver(id, k) PROVE GatedInv'
  BY <1>1 DEF Deliver, frame, policy, consent, a2a, input, history
<1>2. CASE Tick
  BY <1>2 DEF Tick, frame, policy, consent, a2a, input, history
<1>3. CASE Normalize \/ Diagnose \/ Score
  BY <1>3 DEF Normalize, Diagnose, Score, Opening, policy, consent, a2a, input, history
<1>4. ASSUME NEW d \in Dispositions, NEW act \in PolicyActions,
             NEW until \in DelayTargets \cup {None}, PolicyReturns(d, act, until)
      PROVE  GatedInv'
  <2>1. /\ pc = "Policy" /\ site = "LOOP" /\ outreachAt = None /\ ~a2aTask
        /\ disposition' = d /\ delayUntil' = until /\ (d # "DELAY" => until = None)
        /\ UNCHANGED <<a2a, consent, input>>
    BY <1>4 DEF PolicyReturns
  <2>2. CASE d = "BLOCK"
    BY <1>4, <2>1, <2>2 DEF PolicyReturns, a2a, history
  <2>3. CASE (d = "DELAY" /\ until # None) \/ d = "REQUIRE_MANUAL_APPROVAL"
    BY <1>4, <2>1, <2>3 DEF PolicyReturns, a2a, history
  <2>4. CASE /\ BeginAction(act) /\ until = None
             /\ d # "BLOCK" /\ d # "REQUIRE_MANUAL_APPROVAL"
    <3>1. pc' \in {"Drain", "Done", "Execute", "StartA2A"} /\ site' = "LOOP"
      BY <2>1, <2>4 DEF BeginAction, BeginOutreach
    <3>2. ~a2aTask' /\ (pc' = "StartA2A" => outreachAt' = now)
      BY <2>1, <2>4 DEF BeginAction, BeginOutreach, a2a
    <3>3. now # None
      BY NoneAssumption DEF TypeOK
    <3> QED BY <2>1, <2>4, <3>1, <3>2, <3>3
  <2> QED BY <1>4, <2>1, <2>2, <2>3, <2>4 DEF PolicyReturns, Dispositions
<1>5. ASSUME NEW s \in A2AStates, StartA2AReturns(s) PROVE GatedInv'
  BY <1>5 DEF StartA2AReturns, policy, consent, input, history
<1>6. ASSUME NEW s \in ExecutionStatuses, ExecuteReturns(s) PROVE GatedInv'
  BY <1>6 DEF ExecuteReturns, consent, a2a, input, history
<1>7. ASSUME NEW v \in {"PENDING", "REJECTED", "VERIFIED"}, PollReturns(v) PROVE GatedInv'
  <2>1. /\ pc = "Poll" /\ outreachAt # None
        /\ UNCHANGED <<site, policy, consent, a2aTask, input>>
    BY <1>7 DEF PollReturns
  <2>2. UNCHANGED outreachAt /\ pc' \in {"Wait", "Done", "Execute"}
    BY <1>7, <2>1 DEF PollReturns, BeginOutreach, history
  <2> QED BY <2>1, <2>2 DEF policy, consent, input
<1>8. ASSUME NEW r \in Reconciliations, ReconcileReturns(r) PROVE GatedInv'
  <2>1. pc' \in {"Drain", "Receipt", "Cancel"}
    BY <1>8 DEF ReconcileReturns, AfterCancel
  <2>2. UNCHANGED <<site, policy, consent, a2a, input, outreachAt>>
    BY <1>8 DEF ReconcileReturns
  <2> QED BY <2>1, <2>2 DEF policy, consent, a2a, input
<1>9. ASSUME NEW c, CancelActiveAction(c)
      PROVE  pc' \in {"Drain", "Done", "Cancel"}
  BY <1>9 DEF CancelActiveAction, AfterCancel
<1>10. ASSUME NEW b \in BOOLEAN, ReceiptReturns(b) PROVE GatedInv'
  BY <1>9, <1>10 DEF ReceiptReturns, policy, consent, input
<1>11. ASSUME NEW b \in BOOLEAN, CancelReturns(b) PROVE GatedInv'
  BY <1>11 DEF CancelReturns, AfterCancel, policy, consent, a2a, input, history
<1>12. CASE Wake
  BY <1>12 DEF Wake, policy, consent, a2a, input, history
<1>13. CASE Drain
  <2>1. UNCHANGED <<site, policy, a2aTask, input, outreachAt>>
    BY <1>13 DEF Drain, HandleApproval, HandlePayment, HandleOptOut, HandleDispute,
                 HandleCancellation, HandleEscalation, HandleStop, HandleIgnored,
                 HandleA2AHint, Take
  <2>2. pc' \in {"Drain", "Reconcile", "Done", "Cancel"}
    BY <1>9, <1>13 DEF Drain, HandleApproval, HandlePayment, HandleOptOut, HandleDispute,
                 HandleCancellation, HandleEscalation, HandleStop, HandleIgnored,
                 HandleA2AHint, Take
  <2>3. approval = TRUE => approval' = TRUE
    <3>1. CASE HandleApproval
      BY <3>1, NoneAssumption, Zenon DEF HandleApproval
    <3>2. CASE ~HandleApproval
      BY <1>13, <3>2 DEF Drain, HandlePayment, HandleOptOut, HandleDispute,
                 HandleCancellation, HandleEscalation, HandleStop, HandleIgnored,
                 HandleA2AHint, consent
    <3> QED BY <3>1, <3>2
  <2> QED BY <2>1, <2>2, <2>3 DEF policy, input
<1>14. CASE Resume
  <2>1. AfterDrainUnchanged
    BY <1>14 DEF Resume, ResumeDelay, ResumeApproval, ResumeLoop
  <2>2. CASE WaitAgain \/ Return
    BY <2>1, <2>2 DEF WaitAgain, Return, AfterDrainUnchanged, policy, consent, input, history
  <2>3. CASE ExpireDeadline
    BY <1>9, <2>1, <2>3 DEF ExpireDeadline, AfterDrainUnchanged, policy, consent, input
  <2>4. CASE /\ BeginAction(action) /\ ~Expired
             /\ \/ site = "DELAY" /\ DelayOver
                \/ site = "APPROVAL" /\ approval = TRUE
    <3>1. /\ pc' \in {"Drain", "Done", "StartA2A", "Execute"}
          /\ site' = site \/ site' = "LOOP"
          /\ outreachAt' = outreachAt \/ (outreachAt = None /\ outreachAt' = now)
          /\ pc' = "StartA2A" => outreachAt' # None
      <4>1. now # None
        BY NoneAssumption DEF TypeOK
      <4> QED BY <2>4, <4>1 DEF BeginAction, BeginOutreach
    <3>2. outreachAt' = now => GatedOutreachInWindow'
      <4>1. UNCHANGED <<disposition, delayUntil, approval, deadline>>
        BY <2>1 DEF AfterDrainUnchanged, policy, consent, input
      <4>2. now < deadline
        BY <2>4 DEF Expired, TypeOK
      <4>3. CASE site = "DELAY" /\ DelayOver
        BY <2>4, <4>1, <4>2, <4>3, NoneAssumption DEF DelayOver, TypeOK
      <4>4. CASE site = "APPROVAL" /\ approval = TRUE
        BY <4>1, <4>2, <4>4
      <4> QED BY <2>4, <4>3, <4>4
    <3>3. outreachAt' = outreachAt => GatedOutreachInWindow'
      BY <2>1 DEF AfterDrainUnchanged, policy, consent, input
    <3>4. UNCHANGED <<disposition, delayUntil, a2aTask>>
      BY <2>1 DEF AfterDrainUnchanged, policy
    <3>5. a2aTask' => outreachAt' # None
      BY <3>1, <3>4
    <3> QED BY <3>1, <3>2, <3>3, <3>4, <3>5
  <2>5. CASE pc' = "Done" /\ UNCHANGED <<site, history>>
    BY <2>1, <2>5 DEF AfterDrainUnchanged, policy, consent, input, history
  <2>6. CASE PollDue /\ pc' = "Poll" /\ UNCHANGED <<site, history>>
    BY <2>1, <2>6 DEF PollDue, AfterDrainUnchanged, policy, consent, input, history
  <2> QED BY <1>14, <2>2, <2>3, <2>4, <2>5, <2>6
          DEF Resume, ResumeDelay, ResumeApproval, ResumeLoop
<1>15. CASE ActivityFails
  BY <1>15 DEF ActivityFails, policy, consent, a2a, input, history
<1>16. CASE HandlerAuditFails
  BY <1>16 DEF HandlerAuditFails, Take, policy, consent, input
<1>17. CASE UNCHANGED vars
  BY <1>17 DEF vars, frame, policy, consent, a2a, input, history
<1> QED BY <1>1, <1>2, <1>3, <1>4, <1>5, <1>6, <1>7, <1>8, <1>10, <1>11, <1>12, <1>13,
           <1>14, <1>15, <1>16, <1>17 DEF Next, AwaitReturns

\* A delayed action is submitted neither before its delay has passed nor at or
\* after the deadline, and an action that needs approval only with it, for every
\* delay, deadline and order of signals (_wait_until,
\* _wait_for_approval_or_terminal).
THEOREM OutreachWaitsForItsGate == Spec => []GatedOutreachInWindow
<1>1. Init => GatedInv
  BY DEF Init, GatedInv, GatedOutreachInWindow
<1>2. GatedInv => GatedOutreachInWindow
  BY DEF GatedInv
<1> QED BY <1>1, <1>2, GatedInductive, TypeCorrect, PTL DEF Spec

----------------------------------------------------------------------------
(* Each signal once. *)

SignalInv == EachSignalOnce /\ IsFiniteSet(seen)

\* Apart from the handlers' enqueue and the drain's pop nothing touches the
\* mailbox.
LEMMA MailboxSteps ==
    ASSUME [Next]_vars
    PROVE  \/ \E id \in SignalIds, k \in Kinds : Deliver(id, k)
           \/ \E kinds : Take(kinds)
           \/ UNCHANGED mailbox
<1>1. CASE AwaitReturns
  BY <1>1 DEF AwaitReturns, Normalize, Diagnose, Score, Opening, PolicyReturns, StartA2AReturns,
              ExecuteReturns, PollReturns, ReconcileReturns, ReceiptReturns, CancelReturns
<1>2. CASE Drain
  BY <1>2 DEF Drain, HandleApproval, HandlePayment, HandleOptOut, HandleDispute,
              HandleCancellation, HandleEscalation, HandleStop, HandleIgnored, HandleA2AHint
<1>3. CASE Resume
  BY <1>3 DEF Resume, ResumeDelay, ResumeApproval, ResumeLoop, AfterDrainUnchanged
<1>4. CASE Tick \/ Wake \/ ActivityFails \/ HandlerAuditFails
  BY <1>4 DEF Tick, Wake, ActivityFails, HandlerAuditFails
<1>5. CASE UNCHANGED vars
  BY <1>5 DEF vars, mailbox
<1> QED BY <1>1, <1>2, <1>3, <1>4, <1>5 DEF Next

LEMMA SignalInductive == TypeOK /\ SignalInv /\ [Next]_vars => SignalInv'
<1> SUFFICES ASSUME TypeOK, SignalInv, [Next]_vars PROVE SignalInv'
  OBVIOUS
<1>0. /\ queue \in Seq(Signal) /\ processed \in Nat /\ Len(queue) \in Nat
      /\ IsFiniteSet(seen) /\ Cardinality(seen) \in Nat
      /\ processed + Len(queue) = Cardinality(seen)
      /\ \A i, j \in 1..Len(queue) : queue[i].id = queue[j].id => i = j
      /\ \A i \in 1..Len(queue) : queue[i].id \in seen
  BY FS_CardinalityType DEF TypeOK, SignalInv, EachSignalOnce
<1>1. ASSUME NEW id \in SignalIds, NEW k \in Kinds, Deliver(id, k) PROVE SignalInv'
  <2> DEFINE s == [id |-> id, kind |-> k]
  <2>1. /\ id \notin seen /\ seen' = seen \cup {id} /\ queue' = Append(queue, s)
        /\ processed' = processed
    BY <1>1 DEF Deliver
  <2>2. IsFiniteSet(seen') /\ Cardinality(seen') = Cardinality(seen) + 1
    BY <1>0, <2>1, FS_AddElement
  <2>3. s.id = id
    OBVIOUS
  <2>4. s \in Signal
    BY DEF Signal
  <2> HIDE DEF s
  <2>5. /\ Len(queue') = Len(queue) + 1 /\ DOMAIN queue' = 1..(Len(queue) + 1)
        /\ queue'[Len(queue) + 1] = s
        /\ \A i \in 1..Len(queue) : queue'[i] = queue[i]
    BY <1>0, <2>1, <2>4
  <2>6. \A i \in DOMAIN queue' : i \in 1..Len(queue) \/ i = Len(queue) + 1
    BY <1>0, <2>5
  <2>7. \A i \in DOMAIN queue' : queue'[i].id \in seen'
    BY <1>0, <2>1, <2>3, <2>5, <2>6
  <2>8. \A i, j \in DOMAIN queue' : queue'[i].id = queue'[j].id => i = j
    BY <1>0, <2>1, <2>3, <2>5, <2>6
  <2>9. processed' + Len(queue') = Cardinality(seen')
    BY <1>0, <2>1, <2>2, <2>5
  <2> QED BY <2>2, <2>7, <2>8, <2>9 DEF SignalInv, EachSignalOnce
<1>2. ASSUME NEW kinds, Take(kinds) PROVE SignalInv'
  <2>1. queue # <<>> /\ queue' = Tail(queue) /\ processed' = processed + 1 /\ seen' = seen
    BY <1>2 DEF Take
  <2>2. /\ Len(queue) > 0 /\ Len(queue') = Len(queue) - 1
        /\ DOMAIN queue' = 1..(Len(queue) - 1)
        /\ \A i \in 1..(Len(queue) - 1) : queue'[i] = queue[i + 1]
    BY <1>0, <2>1
  <2>3. \A i \in DOMAIN queue' : i + 1 \in 1..Len(queue) /\ queue'[i] = queue[i + 1]
    BY <1>0, <2>2
  <2>4. \A i \in DOMAIN queue' : queue'[i].id \in seen'
    BY <1>0, <2>1, <2>3
  <2>5. \A i, j \in DOMAIN queue' : queue'[i].id = queue'[j].id => i = j
    BY <1>0, <2>2, <2>3
  <2>6. processed' + Len(queue') = Cardinality(seen')
    BY <1>0, <2>1, <2>2
  <2> QED BY <1>0, <2>1, <2>4, <2>5, <2>6 DEF SignalInv, EachSignalOnce
<1>3. CASE UNCHANGED mailbox
  BY <1>3 DEF SignalInv, EachSignalOnce, mailbox
<1> QED BY <1>1, <1>2, <1>3, MailboxSteps

\* Every signal id that was seen is queued once or has been processed once,
\* whatever is sent again and wherever the drain stops (_enqueue,
\* _drain_signals).
THEOREM SignalsHandledOnce == Spec => []EachSignalOnce
<1>1. Init => SignalInv
  BY FS_EmptySet DEF Init, SignalInv, EachSignalOnce
<1>2. SignalInv => EachSignalOnce
  BY DEF SignalInv
<1> QED BY <1>1, <1>2, SignalInductive, TypeCorrect, PTL DEF Spec

----------------------------------------------------------------------------
(* The end of a workflow. *)

\* A cancellation is awaited only for its cause, and a case is EXPIRED only by
\* the step that ends the coroutine.
ExpiryInv ==
    /\ then # None => pc \in {"Cancel", "Failed"}
    /\ pc = "Cancel" => then # None
    /\ outcome = "EXPIRED" => pc = "Done"

\* What CancelActiveAction does for a cause that is not the deadline.
LEMMA CancelNotExpiring ==
    ASSUME ExpiryInv, pc \in {"Drain", "Receipt"}, NEW c \in Causes \ {"DEADLINE"},
           CancelActiveAction(c)
    PROVE  ExpiryInv' /\ then' # "DEADLINE" /\ outcome' # "EXPIRED"
<1>1. OutcomeOf(c) # "EXPIRED" \/ c = "SUPPRESS"
  BY DEF OutcomeOf, DeadlineOutcome, Causes
<1>2. then = None /\ None # "DEADLINE" /\ outcome # "EXPIRED"
  BY NoneAssumption DEF ExpiryInv, Causes
<1>3. CASE AfterCancel(c) /\ UNCHANGED then
  BY <1>1, <1>2, <1>3 DEF AfterCancel, Finish, ExpiryInv
<1>4. CASE pc' = "Cancel" /\ then' = c /\ UNCHANGED result
  BY <1>2, <1>4, NoneAssumption DEF ExpiryInv, result
<1> QED BY <1>3, <1>4 DEF CancelActiveAction

LEMMA ExpiryInductive == TypeOK /\ ExpiryInv /\ [Next]_vars => ExpiryInv'
<1> SUFFICES ASSUME TypeOK, ExpiryInv, [Next]_vars PROVE ExpiryInv'
  OBVIOUS
<1>1. ASSUME UNCHANGED <<then, outcome>>, pc \notin {"Cancel", "Failed", "Done"},
             pc' # "Cancel"
      PROVE  ExpiryInv'
  BY <1>1 DEF ExpiryInv
<1>2. ASSUME NEW o \in Outcomes \ {"EXPIRED"}, Finish(o), UNCHANGED then,
             pc \notin {"Cancel", "Failed", "Done"}, pc' # "Cancel"
      PROVE  ExpiryInv'
  BY <1>2 DEF ExpiryInv, Finish
<1>3. ASSUME NEW act, BeginAction(act), UNCHANGED then, pc \notin {"Cancel", "Failed", "Done"}
      PROVE  ExpiryInv'
  <2>1. UNCHANGED outcome \/ Finish("STOPPED") \/ Finish("ESCALATED")
    BY <1>3 DEF BeginAction, result
  <2>2. pc' # "Cancel"
    BY <1>3 DEF BeginAction, BeginOutreach
  <2> QED BY <1>1, <1>2, <1>3, <2>1, <2>2 DEF Outcomes
<1>4. CASE (\E id \in SignalIds, k \in Kinds : Deliver(id, k)) \/ Tick
  BY <1>4 DEF Deliver, Tick, frame, result, ExpiryInv
<1>5. CASE AwaitReturns
  <2>1. CASE Normalize \/ Diagnose \/ Score
    BY <1>1, <2>1 DEF Normalize, Diagnose, Score, Opening, result
  <2>2. ASSUME NEW d \in Dispositions, NEW act \in PolicyActions,
               NEW until \in DelayTargets \cup {None}, PolicyReturns(d, act, until)
        PROVE  ExpiryInv'
    <3>1. (pc' # "Cancel" /\ (UNCHANGED outcome \/ Finish("STOPPED"))) \/ BeginAction(act)
      BY <2>2 DEF PolicyReturns, result
    <3> QED BY <1>1, <1>2, <1>3, <2>2, <3>1 DEF PolicyReturns, Outcomes
  <2>3. ASSUME NEW s, StartA2AReturns(s) PROVE ExpiryInv'
    BY <1>1, <2>3 DEF StartA2AReturns, result
  <2>4. ASSUME NEW s, ExecuteReturns(s) PROVE ExpiryInv'
    BY <1>1, <1>2, <2>4 DEF ExecuteReturns, result, Outcomes
  <2>5. ASSUME NEW v, PollReturns(v) PROVE ExpiryInv'
    BY <1>1, <1>2, <2>5 DEF PollReturns, BeginOutreach, result, Outcomes
  <2>6. ASSUME NEW r \in Reconciliations, ReconcileReturns(r) PROVE ExpiryInv'
    <3>1. CASE AfterCancel("PAYMENT") /\ UNCHANGED then
      BY <1>2, <2>6, <3>1 DEF AfterCancel, OutcomeOf, Outcomes, ReconcileReturns
    <3>2. CASE pc' # "Cancel" /\ UNCHANGED <<then, outcome>>
      BY <1>1, <2>6, <3>2 DEF ReconcileReturns
    <3>3. CASE pc' = "Cancel" /\ then' = "PAYMENT" /\ UNCHANGED outcome
      BY <2>6, <3>3, NoneAssumption DEF ReconcileReturns, ExpiryInv, Causes
    <3> QED BY <2>6, <3>1, <3>2, <3>3 DEF ReconcileReturns
  <2>7. ASSUME NEW b, ReceiptReturns(b) PROVE ExpiryInv'
    BY <2>7, CancelNotExpiring DEF ReceiptReturns, Causes
  <2>8. ASSUME NEW b, CancelReturns(b) PROVE ExpiryInv'
    <3>1. /\ pc = "Cancel" /\ then' = None /\ AfterCancel(then) /\ outcome # "EXPIRED"
      BY <2>8 DEF CancelReturns, ExpiryInv
    <3>2. then \in Causes
      BY <3>1 DEF ExpiryInv, TypeOK
    <3>3. pc' # "Cancel" /\ (outcome' = "EXPIRED" => pc' = "Done")
      BY <3>1, <3>2 DEF AfterCancel, Finish, OutcomeOf, DeadlineOutcome, Causes
    <3> QED BY <3>1, <3>3 DEF ExpiryInv
  <2> QED BY <1>5, <2>1, <2>2, <2>3, <2>4, <2>5, <2>6, <2>7, <2>8 DEF AwaitReturns
<1>6. CASE Drain
  <2>1. pc = "Drain"
    BY <1>6 DEF Drain, HandleApproval, HandlePayment, HandleOptOut, HandleDispute,
                HandleCancellation, HandleEscalation, HandleStop, HandleIgnored,
                HandleA2AHint, Take
  <2>2. ASSUME NEW c \in Causes \ {"DEADLINE"}, CancelActiveAction(c) PROVE ExpiryInv'
    BY <2>1, <2>2, CancelNotExpiring
  <2> QED BY <1>1, <1>6, <2>1, <2>2
          DEF Drain, HandleApproval, HandlePayment, HandleOptOut, HandleDispute,
              HandleCancellation, HandleEscalation, HandleStop, HandleIgnored,
              HandleA2AHint, result, Causes
<1>7. CASE Resume
  <2>1. pc \in {"Drain", "Resume"}
    BY <1>7 DEF Resume, ResumeDelay, ResumeApproval, ResumeLoop, Drained
  <2>2. CASE ExpireDeadline
    BY <2>1, <2>2, NoneAssumption
    DEF ExpireDeadline, CancelActiveAction, AfterCancel, Finish, result, ExpiryInv, Causes
  <2> QED BY <1>1, <1>2, <1>3, <1>7, <2>1, <2>2
          DEF Resume, ResumeDelay, ResumeApproval, ResumeLoop, WaitAgain, Return, result,
              Outcomes
<1>8. CASE Wake \/ HandlerAuditFails
  BY <1>1, <1>8 DEF Wake, HandlerAuditFails, Take, result
<1>9. CASE ActivityFails
  BY <1>9 DEF ActivityFails, Activities, result, ExpiryInv
<1>10. CASE UNCHANGED vars
  BY <1>10 DEF vars, frame, result, ExpiryInv
<1> QED BY <1>4, <1>5, <1>6, <1>7, <1>8, <1>9, <1>10 DEF Next

\* The main loop expires a case only with its mailbox drained and never one that
\* a signal has finished: a payment that was delivered before the deadline was
\* noticed is reconciled first (run).
THEOREM DrainsBeforeExpiry == Spec => ExpiryAfterDrain
<1> DEFINE Step == site = "LOOP" /\ pc = "Drain" /\ (then' = "DEADLINE" \/ outcome' = "EXPIRED")
                      => queue = <<>> /\ ~terminal
<1>1. Init => ExpiryInv
  BY NoneAssumption DEF Init, ExpiryInv, Outcomes
<1>2. TypeOK /\ ExpiryInv /\ [Next]_vars => [Step]_vars
  <2> SUFFICES ASSUME ExpiryInv, Next, site = "LOOP", pc = "Drain",
                      then' = "DEADLINE" \/ outcome' = "EXPIRED"
               PROVE  queue = <<>> /\ ~terminal
    OBVIOUS
  <2>1. then # "DEADLINE" /\ outcome # "EXPIRED"
    BY NoneAssumption DEF ExpiryInv, Causes
  <2>2. ~Drain
    <3>1. ASSUME NEW c \in Causes \ {"DEADLINE"}, CancelActiveAction(c) PROVE FALSE
      BY <3>1, CancelNotExpiring
    <3> QED BY <2>1, <3>1
            DEF Drain, HandleApproval, HandlePayment, HandleOptOut, HandleDispute,
                HandleCancellation, HandleEscalation, HandleStop, HandleIgnored,
                HandleA2AHint, result, Causes
  <2>3. CASE Resume
    BY <2>1, <2>3 DEF Resume, ResumeDelay, ResumeApproval, ResumeLoop, Drained, Return, result
  <2> QED BY <2>1, <2>2, <2>3
          DEF Next, Deliver, Tick, AwaitReturns, Normalize, Diagnose, Score, Opening, PolicyReturns,
              StartA2AReturns, ExecuteReturns, PollReturns, ReconcileReturns, ReceiptReturns,
              CancelReturns, Wake, ActivityFails, Activities, HandlerAuditFails, frame, result
<1> QED BY <1>1, <1>2, ExpiryInductive, TypeCorrect, PTL DEF Spec, ExpiryAfterDrain

----------------------------------------------------------------------------
(* No outreach is left behind. *)

\* Where the coroutine can be with outreach submitted and not cancelled: before
\* the policy and in the two wait loops nothing has been submitted, the status
\* of a submission is known from its answer on, and CANCELLED is written only
\* after a cancellation was requested.
ClosingInv ==
    /\ pc \in {"Normalize", "Diagnose", "Score", "Policy"}
           => outreach = 0 /\ actionStatus = None
    /\ site # "LOOP" /\ pc \notin {"StartA2A", "Execute"} \cup Closed
           => outreach = 0 /\ (actionStatus = None \/ terminal)
    /\ pc = "StartA2A" => actionStatus = None
    /\ actionStatus = None /\ outreach > 0 => pc \in {"StartA2A", "Failed"}
    /\ actionStatus = "CANCELLED" /\ outreach > 0 => cleanup
    /\ pc = "Cancel" => cleanup /\ ~NothingToCancel(then)
    /\ terminal => pc \in {"Drain", "Cancel"} \cup Closed
    /\ terminal /\ pc = "Cancel" => outreach = 0
    /\ pc = "Done" => terminal
    /\ terminal /\ outreach > 0 /\ outcome # "ESCALATED"
           => cleanup \/ actionStatus \in {"FAILED", "REJECTED"}

\* The dispatch starts from a case that has submitted nothing.
LEMMA BeginCloses ==
    ASSUME TypeOK, NEW act, BeginAction(act), ~terminal, outreach = 0, actionStatus = None
    PROVE  ClosingInv'
<1>1. None \notin {"SCHEDULED", "EXECUTING", "REJECTED", "CANCELLED"}
  BY NoneAssumption DEF ActionStatuses, ExecutionStatuses
<1> QED BY <1>1 DEF BeginAction, BeginOutreach, Finish, result, ClosingInv, Closed, TypeOK

\* _cancel_active_action and what its callers do next, from the drain.
LEMMA CancelCloses ==
    ASSUME TypeOK, ClosingInv, NEW c \in Causes, CancelActiveAction(c),
           pc \in {"Drain", "Receipt", "Resume"},
           \/ ~terminal
           \/ outreach = 0,
           UNCHANGED <<site, actionStatus, outreach>>
    PROVE  ClosingInv'
<1>1. CASE NothingToCancel(c)
  <2>1. AfterCancel(c) /\ UNCHANGED <<then, cleanup>>
    BY <1>1 DEF CancelActiveAction
  <2>2. outreach > 0 => cleanup \/ actionStatus \in {"FAILED", "REJECTED"}
    BY <1>1 DEF NothingToCancel, ClosingInv
  <2>3. outreach > 0 => ~terminal
    BY DEF TypeOK
  <2> QED BY <2>1, <2>2, <2>3 DEF AfterCancel, Finish, ClosingInv, Closed, TypeOK
<1>2. CASE ~NothingToCancel(c)
  <2>1. /\ pc' = "Cancel" /\ then' = c /\ cleanup' = TRUE
        /\ UNCHANGED <<terminal, outcome>>
    BY <1>2 DEF CancelActiveAction, result
  <2>2. ~NothingToCancel(then)'
    BY <1>2, <2>1 DEF NothingToCancel
  <2>3. terminal => outreach = 0
    BY DEF TypeOK
  <2> QED BY <2>1, <2>2, <2>3 DEF ClosingInv, Closed, TypeOK
<1> QED BY <1>1, <1>2

LEMMA ClosingInductive == TypeOK /\ ClosingInv /\ [Next]_vars => ClosingInv'
<1> SUFFICES ASSUME TypeOK, ClosingInv, [Next]_vars PROVE ClosingInv'
  OBVIOUS
<1>0. None \notin ActionStatuses
  BY NoneAssumption
<1>1. CASE (\E id \in SignalIds, k \in Kinds : Deliver(id, k)) \/ Tick \/ UNCHANGED vars
  <2>1. UNCHANGED <<frame, result, actionStatus, history>>
    BY <1>1 DEF Deliver, Tick, vars
  <2> QED BY <2>1 DEF frame, result, history, ClosingInv, NothingToCancel
<1>2. CASE AwaitReturns
  <2>1. CASE Normalize \/ Diagnose \/ Score
    BY <2>1 DEF Normalize, Diagnose, Score, Opening, result, history, ClosingInv, Closed
  <2>2. ASSUME NEW d \in Dispositions, NEW act \in PolicyActions,
               NEW until \in DelayTargets \cup {None}, PolicyReturns(d, act, until)
        PROVE  ClosingInv'
    <3>1. pc = "Policy" /\ ~terminal /\ outreach = 0 /\ actionStatus = None
      BY <2>2 DEF PolicyReturns, ClosingInv, Closed, TypeOK
    <3>2. CASE BeginAction(act)
      BY <3>1, <3>2, BeginCloses
    <3>3. CASE /\ UNCHANGED <<actionStatus, outreach, cleanup>>
               /\ \/ Finish("STOPPED") /\ pc' = "Done"
                  \/ pc' \in {"Resume", "Wait"} /\ UNCHANGED result
      BY <1>0, <3>1, <3>3 DEF Finish, result, ClosingInv, Closed, ActionStatuses, ExecutionStatuses
    <3> QED BY <2>2, <3>2, <3>3 DEF PolicyReturns, history
  <2>3. ASSUME NEW s \in A2AStates, StartA2AReturns(s) PROVE ClosingInv'
    BY <1>0, <2>3 DEF StartA2AReturns, result, history, ClosingInv, Closed, ActionStatuses, A2AStates
  <2>4. ASSUME NEW s \in ExecutionStatuses, ExecuteReturns(s) PROVE ClosingInv'
    BY <1>0, <2>4 DEF ExecuteReturns, Finish, result, history, ClosingInv, Closed, ActionStatuses,
                      ExecutionStatuses
  <2>5. ASSUME NEW v, PollReturns(v) PROVE ClosingInv'
    <3>1. pc = "Poll" /\ ~terminal
      BY <2>5 DEF PollReturns, ClosingInv, Closed, TypeOK
    <3>2. CASE v = "VERIFIED"
      BY <1>0, <2>5, <3>1, <3>2
      DEF PollReturns, BeginOutreach, result, ClosingInv, Closed, ActionStatuses, TypeOK
    <3>3. CASE v # "VERIFIED"
      BY <1>0, <2>5, <3>1, <3>3
      DEF PollReturns, Finish, result, history, ClosingInv, Closed, ActionStatuses,
          ExecutionStatuses, TypeOK
    <3> QED BY <3>2, <3>3
  <2>6. ASSUME NEW r \in Reconciliations, ReconcileReturns(r) PROVE ClosingInv'
    <3>1. /\ pc = "Reconcile" /\ ~terminal
          /\ UNCHANGED <<site, actionStatus, outreach>>
      BY <2>6 DEF ReconcileReturns, ClosingInv, Closed, TypeOK
    <3>2. CASE NothingToCancel("PAYMENT") /\ AfterCancel("PAYMENT") /\ UNCHANGED <<then, cleanup>>
      <4>1. outreach > 0 => cleanup \/ actionStatus \in {"FAILED", "REJECTED"}
        BY <3>1, <3>2 DEF NothingToCancel, ClosingInv
      <4> QED BY <3>1, <3>2, <4>1 DEF AfterCancel, Finish, ClosingInv, Closed, TypeOK
    <3>3. CASE pc' \in {"Drain", "Receipt"} /\ UNCHANGED <<then, terminal, outcome, cleanup>>
      BY <3>1, <3>3 DEF ClosingInv, Closed
    <3>4. CASE /\ ~NothingToCancel("PAYMENT") /\ pc' = "Cancel" /\ then' = "PAYMENT"
               /\ cleanup' = TRUE /\ UNCHANGED <<terminal, outcome>>
      BY <3>1, <3>4 DEF ClosingInv, Closed, NothingToCancel
    <3> QED BY <2>6, <3>2, <3>3, <3>4 DEF ReconcileReturns
  <2>7. ASSUME NEW b \in BOOLEAN, ReceiptReturns(b) PROVE ClosingInv'
    <3>1. /\ pc = "Receipt" /\ ~terminal /\ CancelActiveAction("PAYMENT")
          /\ UNCHANGED <<site, actionStatus, outreach>>
      BY <2>7 DEF ReceiptReturns, ClosingInv, Closed, TypeOK
    <3> QED BY <3>1, CancelCloses DEF Causes
  <2>8. ASSUME NEW b \in BOOLEAN, CancelReturns(b) PROVE ClosingInv'
    <3>1. /\ pc = "Cancel" /\ cleanup /\ ~NothingToCancel(then)
          /\ UNCHANGED <<site, outreach, cleanup>>
          /\ actionStatus' \in {"CANCELLED", actionStatus}
          /\ AfterCancel(then)
      BY <2>8 DEF CancelReturns, ClosingInv, history
    <3>2. actionStatus' = None => actionStatus = None
      BY <1>0, <3>1 DEF ActionStatuses
    <3>3. (terminal' \/ actionStatus # None) /\ (terminal => terminal')
      BY <3>1 DEF AfterCancel, Finish, NothingToCancel
    <3>4. pc' \in {"Drain", "Done"} /\ terminal' \in BOOLEAN /\ (pc' = "Done" => terminal')
      BY <3>1 DEF AfterCancel, Finish, TypeOK
    <3> QED BY <3>1, <3>2, <3>3, <3>4 DEF ClosingInv, Closed, TypeOK
  <2> QED BY <1>2, <2>1, <2>2, <2>3, <2>4, <2>5, <2>6, <2>7, <2>8 DEF AwaitReturns
<1>3. CASE Drain
  <2>1. pc = "Drain" /\ ~terminal /\ UNCHANGED <<site, actionStatus, outreach>>
    BY <1>3 DEF Drain, HandleApproval, HandlePayment, HandleOptOut, HandleDispute,
                HandleCancellation, HandleEscalation, HandleStop, HandleIgnored,
                HandleA2AHint, Take
  <2>2. ASSUME NEW c \in Causes, CancelActiveAction(c) PROVE ClosingInv'
    BY <2>1, <2>2, CancelCloses
  <2>3. CASE pc' \in {"Drain", "Reconcile"} /\ UNCHANGED <<then, result, cleanup>>
    BY <2>1, <2>3 DEF ClosingInv, Closed, result
  <2> QED BY <1>3, <2>1, <2>2, <2>3
          DEF Drain, HandleApproval, HandlePayment, HandleOptOut, HandleDispute,
              HandleCancellation, HandleEscalation, HandleStop, HandleIgnored,
              HandleA2AHint, Causes
<1>4. CASE Resume
  <2>1. pc \in {"Drain", "Resume"}
    BY <1>4 DEF Resume, ResumeDelay, ResumeApproval, ResumeLoop, Drained
  <2>2. CASE ExpireDeadline /\ (~terminal \/ site = "APPROVAL")
    <3>1. ~terminal \/ outreach = 0
      BY <2>1, <2>2 DEF ClosingInv, Closed
    <3> QED BY <2>1, <2>2, <3>1, CancelCloses DEF ExpireDeadline, Causes
  <2>3. CASE pc' \in {"Wait", "Poll"} /\ ~terminal /\ UNCHANGED <<site, then, result, actionStatus, history>>
    BY <2>1, <2>3 DEF ClosingInv, Closed, result, history
  <2>4. CASE Return /\ terminal
    BY <2>1, <2>4 DEF Return, ClosingInv, Closed, result, history
  <2>5. CASE /\ site # "LOOP" /\ ~terminal /\ Finish("STOPPED") /\ pc' = "Done"
             /\ UNCHANGED <<site, then, actionStatus, history>>
    BY <2>1, <2>5 DEF Finish, ClosingInv, Closed, history
  <2>6. CASE site # "LOOP" /\ ~terminal /\ BeginAction(action)
    <3>1. outreach = 0 /\ actionStatus = None
      BY <2>1, <2>6 DEF ClosingInv, Closed
    <3> QED BY <2>6, <3>1, BeginCloses
  <2> QED BY <1>4, <2>2, <2>3, <2>4, <2>5, <2>6
          DEF Resume, ResumeDelay, ResumeApproval, ResumeLoop, WaitAgain
<1>5. CASE Wake \/ ActivityFails \/ HandlerAuditFails
  <2>1. /\ pc' = "Failed" \/ (pc = "Wait" /\ pc' = "Drain")
        /\ UNCHANGED <<site, then, result, actionStatus, outreach, cleanup>>
    BY <1>5 DEF Wake, ActivityFails, HandlerAuditFails, Take, history
  <2> QED BY <2>1 DEF ClosingInv, Closed, result
<1> QED BY <1>1, <1>2, <1>3, <1>4, <1>5 DEF Next

\* A workflow that ends without an escalation has asked for its outreach to be
\* cancelled after the last time it submitted any, or the provider refused it,
\* for every order of signals, polls and timers (_cancel_active_action).
THEOREM ClosingCancels == Spec => []CloseCancelsOutreach
<1>1. Init => ClosingInv
  BY NoneAssumption DEF Init, ClosingInv, Closed, ActionStatuses
<1>2. ClosingInv => CloseCancelsOutreach
  BY DEF ClosingInv, CloseCancelsOutreach
<1> QED BY <1>1, <1>2, ClosingInductive, TypeCorrect, PTL DEF Spec
=============================================================================
