---------------------------- MODULE PaymentAction ----------------------------
(***************************************************************************)
(* Executing, approving and cancelling the payment actions of one recovery *)
(* case: execute_recovery_action and cancel_recovery_action (worker        *)
(* runtime.py), each run by any number of activity deliveries in several   *)
(* worker processes, the operator commands of the API (services/cases.py), *)
(* the closing of a case and the Razorpay payment-link API                 *)
(* (integrations/razorpay/client.py).  A transaction that makes no         *)
(* provider call is one step.  The others hold the action's row lock       *)
(* between steps: a reconciling delivery and a cleanup.  A create request  *)
(* may be slow, lost or answered too late.                                 *)
(*                                                                         *)
(* InitialStatusNamesPolicy, ReclaimsExecuting, PersistOverwrites,         *)
(* ReconcilesUnlocked, AbsentIsFound and CancelsPaidLink are faulty forms  *)
(* of the definition that follows them, kept to show that the properties   *)
(* notice.                                                                 *)
(***************************************************************************)
EXTENDS Integers, FiniteSets

CONSTANTS Actions,     \* the case's OPEN_CUSTOMER_PAYMENT_SURFACE rows
          Deliveries,  \* deliveries of the execute activity
          Cleanups,    \* deliveries of the cancel activity
          ProcessOf,   \* delivery -> the worker process that runs it
          Operators,   \* concurrent operator requests
          Nobody

ASSUME ActionsAssumption ==
    /\ Nobody \notin Deliveries \cup Cleanups \cup Actions
    /\ Deliveries \cap Cleanups = {}

VARIABLES
    surface,      \* RecoveryActionRecord.payment_surface_type of each action
    disposition,  \* PolicyDecisionRecord.disposition of each action
    status,       \* RecoveryActionRecord.status
    reference,    \* is external_reference set?
    due,          \* has scheduled_for / delay_until passed?
    lock,         \* who holds the row FOR UPDATE between steps
    closed,       \* what has closed the case so far
    pc, target,   \* each delivery: where it is, on which action
    trying,       \* deliveries inside the try block of the first submission
    inFlight,     \* _payment_submissions_in_flight of each process
    cleanup,      \* each cancel delivery: where it is
    todo, staged, \* its actions still to settle, what it learnt of them
    seen,         \* what an operator request has read, not locked
    link,         \* the provider's payment link for each action's reference
    wire,         \* create requests the provider has not answered
    blind,        \* history: creates sent without a lookup, per action
    approvals     \* history: approvals committed, per action

fixedVars    == <<surface, disposition>>
rowVars      == <<fixedVars, status, reference, due, closed>>
deliveryVars == <<pc, target, trying, inFlight>>
cleanupVars  == <<cleanup, todo, staged>>
providerVars == <<link, wire>>
historyVars  == <<blind, approvals>>
vars == <<rowVars, lock, deliveryVars, cleanupVars, seen, providerVars, historyVars>>

\* The two other surface types are pages the provider already has.
Surfaces == {"STANDARD_PAYMENT_LINK", "SUBSCRIPTION_INVOICE_LINK"}
Dispositions == {"ALLOW", "BLOCK", "DELAY", "REQUIRE_MANUAL_APPROVAL"}
Open == {"PROPOSED", "AWAITING_APPROVAL", "SCHEDULED", "EXECUTING"}
Statuses == Open \cup {"SUCCEEDED", "CANCELLED"}
Links == {"none", "created", "paid", "cancelled", "expired"}
Places == {"idle", "claimed", "preflight", "posted", "accepted", "persist",
           "reconcile", "lookup", "resubmit", "reposted", "reaccepted", "done"}
Standard == {a \in Actions : surface[a] = "STANDARD_PAYMENT_LINK"}
Outcomes == {"keep", "absent", "found", "revoked"}
NoRead == [command |-> "none", action |-> Nobody]

InitialStatusNamesPolicy(d) == IF d = "BLOCK" THEN "BLOCKED" ELSE "SCHEDULED"

\* recommend_action: the status that a policy decision gives a new action.
InitialStatus(d) ==
    CASE d = "ALLOW" -> "PROPOSED"
      [] d = "BLOCK" -> "CANCELLED"
      [] d = "DELAY" -> "SCHEDULED"
      [] d = "REQUIRE_MANUAL_APPROVAL" -> "AWAITING_APPROVAL"

Init ==
    /\ surface \in [Actions -> Surfaces]
    /\ disposition \in [Actions -> Dispositions]
    /\ status = [a \in Actions |-> InitialStatus(disposition[a])]
    /\ reference = [a \in Actions |-> FALSE]
    /\ due = [a \in Actions |-> disposition[a] # "DELAY"]
    /\ lock = [a \in Actions |-> Nobody]
    /\ closed = {}
    /\ pc = [d \in Deliveries |-> "idle"]
    /\ target = [d \in Deliveries |-> Nobody]
    /\ trying = {} /\ inFlight = {}
    /\ cleanup = [c \in Cleanups |-> "idle"]
    /\ todo = [c \in Cleanups |-> {}]
    /\ staged = [c \in Cleanups |-> [a \in Actions |-> "keep"]]
    /\ seen = [o \in Operators |-> NoRead]
    /\ link = [a \in Actions |-> "none"]
    /\ wire = {}
    /\ blind = [a \in Actions |-> 0] /\ approvals = [a \in Actions |-> 0]

Free(a) == lock[a] = Nobody
Write(a, new) == status' = [status EXCEPT ![a] = new]
Goto(d, place) == pc' = [pc EXCEPT ![d] = place]

\* The session of d closes: its locks go, uncommitted changes are lost.
Unlock(h) == lock' = [a \in Actions |-> IF lock[a] = h THEN Nobody ELSE lock[a]]

\* The finally clause: it discards the action id from the process's set.
LeaveTry(d) ==
    /\ trying' = trying \ {d}
    /\ inFlight' = IF d \in trying
                   THEN inFlight \ {<<ProcessOf[d], target[d]>>} ELSE inFlight

\* The delivery ends: it returns a result or raises.
End(d) == Goto(d, "done") /\ Unlock(d) /\ LeaveTry(d)

\* scheduled_for and delay_until pass.
DueTimePasses(a) ==
    /\ ~due[a]
    /\ due' = [due EXCEPT ![a] = TRUE]
    /\ UNCHANGED <<fixedVars, status, reference, closed, lock, deliveryVars,
                   cleanupVars, seen, providerVars, historyVars>>

----------------------------------------------------------------------------
(* Claiming an action: _claim_payment_action. *)

Claimable(a) ==
    /\ due[a]
    /\ CASE disposition[a] = "ALLOW" -> status[a] \in {"PROPOSED", "SCHEDULED"}
         [] disposition[a] = "BLOCK" -> FALSE
         [] OTHER -> status[a] = "SCHEDULED"

ReclaimsExecuting(d, a) ==
    IF Claimable(a) \/ status[a] = "EXECUTING" THEN "claimed" ELSE "done"

\* Where the claim leads.  An EXECUTING row was claimed before: if its create
\* is in flight in this process nothing is done, a payment link is
\* reconciled, another surface is left to an operator.
ClaimLeadsTo(d, a) ==
    IF Claimable(a) THEN "claimed"
    ELSE IF status[a] = "EXECUTING" /\ a \in Standard
              /\ <<ProcessOf[d], a>> \notin inFlight
         THEN "reconcile" ELSE "done"

Claim(d, a) ==
    /\ pc[d] = "idle" /\ Free(a)
    /\ target' = [target EXCEPT ![d] = a]
    /\ Goto(d, ClaimLeadsTo(d, a))
    /\ status' = IF ClaimLeadsTo(d, a) = "claimed"
                 THEN [status EXCEPT ![a] = "EXECUTING"] ELSE status
    /\ UNCHANGED <<fixedVars, reference, due, closed, lock, trying, inFlight,
                   cleanupVars, seen, providerVars, historyVars>>

----------------------------------------------------------------------------
(* The first submission, which holds no lock. *)

\* The session of the claim is closed, the id is noted and the provider called.
EnterTry(d) ==
    /\ pc[d] = "claimed"
    /\ Goto(d, "preflight")
    /\ trying' = trying \cup {d}
    /\ inFlight' = inFlight \cup {<<ProcessOf[d], target[d]>>}
    /\ UNCHANGED <<rowVars, lock, target, cleanupVars, seen, providerVars, historyVars>>

\* The subscription is halted and the circuit breaker allows the call, or an
\* exception is raised: Abort.
PostCreate(d) ==
    /\ pc[d] = "preflight" /\ target[d] \in Standard
    /\ Goto(d, "posted")
    /\ wire' = wire \cup {<<d, "first">>}
    /\ blind' = [blind EXCEPT ![target[d]] = @ + 1]
    /\ UNCHANGED <<rowVars, lock, target, trying, inFlight, cleanupVars, seen, link,
                   approvals>>

\* Invoice links and card updates are read from the provider, not created.
FetchSurface(d) ==
    /\ pc[d] = "preflight" /\ target[d] \notin Standard
    /\ Goto(d, "persist") /\ LeaveTry(d)
    /\ UNCHANGED <<rowVars, lock, target, cleanupVars, seen, providerVars, historyVars>>

CreateReturns(d) ==
    /\ pc[d] = "accepted"
    /\ Goto(d, "persist") /\ LeaveTry(d)
    /\ UNCHANGED <<rowVars, lock, target, cleanupVars, seen, providerVars, historyVars>>

\* Transport error, 5xx or malformed body: RazorpayUncertainSubmissionError.
\* The request may still reach the provider.
CreateUncertain(d) ==
    /\ pc[d] \in {"posted", "accepted"}
    /\ Goto(d, "reconcile")
    /\ UNCHANGED <<rowVars, lock, target, trying, inFlight, cleanupVars, seen,
                   providerVars, historyVars>>

PersistOverwrites(d) ==
    /\ Write(target[d], "SUCCEEDED")
    /\ reference' = [reference EXCEPT ![target[d]] = TRUE]

\* _persist_payment_surface keeps a row that was cancelled or completed since.
StoreSurface(d) ==
    IF status[target[d]] \in {"CANCELLED", "SUCCEEDED"}
    THEN UNCHANGED <<status, reference>>
    ELSE /\ Write(target[d], "SUCCEEDED")
         /\ reference' = [reference EXCEPT ![target[d]] = TRUE]

PersistSurface(d) ==
    /\ pc[d] = "persist" /\ Free(target[d])
    /\ StoreSurface(d)
    /\ End(d)
    /\ UNCHANGED <<fixedVars, due, closed, target, cleanupVars, seen,
                   providerVars, historyVars>>

----------------------------------------------------------------------------
(* _reconcile_or_resume_standard_payment_link, under the row lock. *)

ReconcilesUnlocked(d) == lock' = [lock EXCEPT ![target[d]] = d]

\* SELECT ... FOR UPDATE waits for the row.
LockRow(d) == Free(target[d]) /\ lock' = [lock EXCEPT ![target[d]] = d]

Reconcile(d) ==
    /\ pc[d] = "reconcile"
    /\ status[target[d]] = "EXECUTING"
    /\ LockRow(d)
    /\ Goto(d, "lookup")
    /\ UNCHANGED <<rowVars, target, trying, inFlight, cleanupVars, seen,
                   providerVars, historyVars>>

\* SUCCEEDED, CANCELLED or changed otherwise: nothing to reconcile.
NothingToReconcile(d) ==
    /\ pc[d] = "reconcile" /\ Free(target[d])
    /\ status[target[d]] # "EXECUTING"
    /\ End(d)
    /\ UNCHANGED <<rowVars, target, cleanupVars, seen, providerVars, historyVars>>

Complete(d) ==
    /\ Write(target[d], "SUCCEEDED")
    /\ reference' = [reference EXCEPT ![target[d]] = TRUE]
    /\ End(d)
    /\ UNCHANGED <<fixedVars, due, closed, target, cleanupVars, seen,
                   providerVars, historyVars>>

AbsentIsFound(d) == pc[d] = "lookup"

\* reconcile_payment_link_by_reference returns the link.
Found(d) == pc[d] = "lookup" /\ link[target[d]] # "none"

\* SUBMISSION_RECONCILED.
LookupFinds(d) == Found(d) /\ Complete(d)

\* Confirmed absence is the only way to a second create.
LookupAbsent(d) ==
    /\ pc[d] = "lookup" /\ link[target[d]] = "none"
    /\ Goto(d, "resubmit")
    /\ UNCHANGED <<rowVars, lock, target, trying, inFlight, cleanupVars, seen,
                   providerVars, historyVars>>

PostAgain(d) ==
    /\ pc[d] = "resubmit"
    /\ Goto(d, "reposted")
    /\ wire' = wire \cup {<<d, "again">>}
    /\ UNCHANGED <<rowVars, lock, target, trying, inFlight, cleanupVars, seen,
                   link, historyVars>>

\* CONFIRMED_ABSENT_RESUBMITTED.
ResubmissionReturns(d) == pc[d] = "reaccepted" /\ Complete(d)

\* An exception anywhere, the activity timeout, or the process's death: the
\* locks are released, the row stays as committed, a request sent is out.
Abort(d) ==
    /\ pc[d] \notin {"idle", "done"}
    /\ End(d)
    /\ UNCHANGED <<rowVars, target, cleanupVars, seen, providerVars, historyVars>>

----------------------------------------------------------------------------
(* The provider.  reference_id is unique: one link for an action. *)

Awaits(d, n) == pc[d] = IF n = "first" THEN "posted" ELSE "reposted"

ProviderCreates(d, n) ==
    /\ <<d, n>> \in wire /\ link[target[d]] = "none"
    /\ wire' = wire \ {<<d, n>>}
    /\ link' = [link EXCEPT ![target[d]] = "created"]
    /\ pc' = IF Awaits(d, n)
             THEN [pc EXCEPT ![d] = IF n = "first" THEN "accepted" ELSE "reaccepted"]
             ELSE pc
    /\ UNCHANGED <<rowVars, lock, target, trying, inFlight, cleanupVars, seen,
                   historyVars>>

\* 4xx, for a reference already used or another reason: the call raises.
ProviderRejects(d, n) ==
    /\ <<d, n>> \in wire
    /\ wire' = wire \ {<<d, n>>}
    /\ IF Awaits(d, n) THEN End(d) ELSE UNCHANGED <<pc, lock, trying, inFlight>>
    /\ UNCHANGED <<rowVars, target, cleanupVars, seen, link, historyVars>>

\* The customer pays through the link, or its expire_by passes.
LinkSettles(a, outcome) ==
    /\ link[a] = "created" /\ outcome \in {"paid", "expired"}
    /\ link' = [link EXCEPT ![a] = outcome]
    /\ UNCHANGED <<rowVars, lock, deliveryVars, cleanupVars, seen, wire, historyVars>>

----------------------------------------------------------------------------
(* cancel_recovery_action: _cleanup_standard_payment_links, then the rest. *)

ToClean == {a \in Standard : status[a] \in {"EXECUTING", "SUCCEEDED"}}

BeginCleanup(c) ==
    /\ cleanup[c] = "idle"
    /\ \A a \in ToClean : Free(a)
    /\ todo' = [todo EXCEPT ![c] = ToClean]
    /\ lock' = [a \in Actions |-> IF a \in ToClean THEN c ELSE lock[a]]
    /\ cleanup' = [cleanup EXCEPT ![c] = "clean"]
    /\ UNCHANGED <<rowVars, deliveryVars, staged, seen, providerVars, historyVars>>

Stage(c, a, new) == staged' = [staged EXCEPT ![c][a] = new]
Settled(c, a) == todo' = [todo EXCEPT ![c] = @ \ {a}]

\* No external_reference: the link is looked up by its reference id.
CleanupLooksUp(c, a) ==
    /\ cleanup[c] = "clean" /\ a \in todo[c]
    /\ ~reference[a] /\ staged[c][a] = "keep"
    /\ IF link[a] = "none"
       THEN Stage(c, a, "absent") /\ Settled(c, a)
       ELSE Stage(c, a, "found") /\ UNCHANGED todo
    /\ UNCHANGED <<rowVars, lock, deliveryVars, cleanup, seen, providerVars,
                   historyVars>>

CancelsPaidLink(c, a) == Stage(c, a, "revoked")

\* A paid link cannot be cancelled: PAYMENT_PRESENT keeps its row.
StageRevocation(c, a) ==
    IF link[a] = "paid" THEN UNCHANGED staged ELSE Stage(c, a, "revoked")

\* revoke_standard_payment_link: fetch, cancel, and fetch again on an error.
Revoke(c, a) ==
    /\ cleanup[c] = "clean" /\ a \in todo[c]
    /\ reference[a] \/ staged[c][a] = "found"
    /\ link' = [link EXCEPT ![a] = IF @ = "created" THEN "cancelled" ELSE @]
    /\ StageRevocation(c, a)
    /\ Settled(c, a)
    /\ UNCHANGED <<rowVars, lock, deliveryVars, cleanup, seen, wire, historyVars>>

\* A call raises, perhaps after the provider cancelled, or the process dies,
\* which ends the delivery: rollback.
CleanupFails(c) ==
    /\ cleanup[c] = "clean"
    /\ \/ UNCHANGED link
       \/ \E a \in todo[c] :
            /\ reference[a] \/ staged[c][a] = "found"
            /\ link[a] = "created"
            /\ link' = [link EXCEPT ![a] = "cancelled"]
    /\ \E next \in {"unresolved", "not cancelled"} :
          /\ next = "unresolved" => todo[c] # {}
          /\ cleanup' = [cleanup EXCEPT ![c] = next]
    /\ todo' = [todo EXCEPT ![c] = {}]
    /\ staged' = [staged EXCEPT ![c] = [a \in Actions |-> "keep"]]
    /\ Unlock(c)
    /\ UNCHANGED <<rowVars, deliveryVars, seen, wire, historyVars>>

CommitCleanup(c) ==
    /\ cleanup[c] = "clean" /\ todo[c] = {}
    /\ status' = [a \in Actions |->
                    CASE staged[c][a] = "keep" -> status[a]
                      [] staged[c][a] = "found" -> "SUCCEEDED"
                      [] OTHER -> "CANCELLED"]
    /\ reference' = [a \in Actions |->
                       reference[a] \/ staged[c][a] \in {"found", "revoked"}]
    /\ staged' = [staged EXCEPT ![c] = [a \in Actions |-> "keep"]]
    /\ cleanup' = [cleanup EXCEPT ![c] = "settled"]
    /\ Unlock(c)
    /\ UNCHANGED <<fixedVars, due, closed, deliveryVars, todo, seen,
                   providerVars, historyVars>>

\* The second transaction cancels what is not a payment link; it answers
\* cancelled = TRUE if the links were settled.
CancelOthers(c) ==
    /\ cleanup[c] \in {"settled", "unresolved"}
    /\ \A a \in Actions : status[a] # "CANCELLED" => Free(a)
    /\ status' = [a \in Actions |-> IF a \notin Standard /\ status[a] \in Open
                                    THEN "CANCELLED" ELSE status[a]]
    /\ cleanup' = [cleanup EXCEPT ![c] =
                     IF @ = "settled" THEN "cancelled" ELSE "not cancelled"]
    /\ UNCHANGED <<fixedVars, reference, due, closed, lock, deliveryVars, todo,
                   staged, seen, providerVars, historyVars>>

----------------------------------------------------------------------------
(* The API: operator commands, and the end of the case. *)

\* execute_operator_command loads the case with its latest action, unlocked.
\* A status that the command does not allow ends the request here.
OperatorReads(o, a, command) ==
    /\ seen[o] = NoRead
    /\ status[a] \in IF command = "APPROVE" THEN {"AWAITING_APPROVAL"}
                     ELSE {"PROPOSED", "AWAITING_APPROVAL", "SCHEDULED"}
    /\ seen' = [seen EXCEPT ![o] = [command |-> command, action |-> a]]
    /\ UNCHANGED <<rowVars, lock, deliveryVars, cleanupVars, providerVars, historyVars>>

\* approve_action and reject_action: the FOR UPDATE query waits for the row,
\* but the session already holds the object, and without populate_existing
\* its attributes keep the values read before: the status is not seen to
\* have changed, and is overwritten.
OperatorWrites(o) ==
    /\ seen[o] # NoRead /\ Free(seen[o].action)
    /\ Write(seen[o].action,
             IF seen[o].command = "APPROVE" THEN "SCHEDULED" ELSE "CANCELLED")
    /\ approvals' = [approvals EXCEPT ![seen[o].action] =
                        IF seen[o].command = "APPROVE" THEN @ + 1 ELSE @]
    /\ seen' = [seen EXCEPT ![o] = NoRead]
    /\ UNCHANGED <<fixedVars, reference, due, closed, lock,
                   deliveryVars, cleanupVars, providerVars, blind>>

\* stop_case, escalate_case and record_safety_disposition close an OPEN case;
\* a recognised payment closes it as well.  All cancel its open actions.
CloseCase(how) ==
    /\ how \notin closed /\ (how = "operator" => closed = {})
    /\ \A a \in Actions : status[a] \in Open => Free(a)
    /\ closed' = closed \cup {how}
    /\ status' = [a \in Actions |->
                    IF status[a] \in Open THEN "CANCELLED" ELSE status[a]]
    /\ UNCHANGED <<fixedVars, reference, due, lock, deliveryVars, cleanupVars,
                   seen, providerVars, historyVars>>

----------------------------------------------------------------------------

ExecuteStep(d) ==
    \/ \E a \in Actions : Claim(d, a)
    \/ EnterTry(d) \/ PostCreate(d) \/ FetchSurface(d) \/ CreateReturns(d)
    \/ CreateUncertain(d) \/ PersistSurface(d) \/ Reconcile(d)
    \/ NothingToReconcile(d) \/ LookupFinds(d) \/ LookupAbsent(d)
    \/ PostAgain(d) \/ ResubmissionReturns(d) \/ Abort(d)

CleanupStep(c) ==
    \/ BeginCleanup(c) \/ CleanupFails(c) \/ CommitCleanup(c) \/ CancelOthers(c)
    \/ \E a \in Actions : CleanupLooksUp(c, a) \/ Revoke(c, a)

ProviderStep ==
    \/ \E d \in Deliveries, n \in {"first", "again"} :
          ProviderCreates(d, n) \/ ProviderRejects(d, n)
    \/ \E a \in Actions, outcome \in {"paid", "expired"} : LinkSettles(a, outcome)

OperatorStep(o) ==
    \/ \E a \in Actions, command \in {"APPROVE", "REJECT"} :
          OperatorReads(o, a, command)
    \/ OperatorWrites(o)

Next ==
    \/ \E d \in Deliveries : ExecuteStep(d)
    \/ \E c \in Cleanups : CleanupStep(c)
    \/ ProviderStep
    \/ \E o \in Operators : OperatorStep(o)
    \/ \E how \in {"operator", "payment"} : CloseCase(how)
    \/ \E a \in Actions : DueTimePasses(a)

Spec == Init /\ [][Next]_vars

----------------------------------------------------------------------------
(* Properties. *)

\* Types of the rows, the activity deliveries, the provider and the requests.
TypeOK ==
    /\ surface \in [Actions -> Surfaces]
    /\ disposition \in [Actions -> Dispositions]
    /\ status \in [Actions -> Statuses]
    /\ reference \in [Actions -> BOOLEAN] /\ due \in [Actions -> BOOLEAN]
    /\ lock \in [Actions -> Deliveries \cup Cleanups \cup {Nobody}]
    /\ closed \subseteq {"operator", "payment"}
    /\ pc \in [Deliveries -> Places]
    /\ target \in [Deliveries -> Actions \cup {Nobody}]
    /\ trying \subseteq Deliveries
    /\ inFlight \subseteq {ProcessOf[d] : d \in Deliveries} \X Actions
    /\ cleanup \in [Cleanups -> {"idle", "clean", "settled", "unresolved",
                                 "cancelled", "not cancelled"}]
    /\ todo \in [Cleanups -> SUBSET Actions]
    /\ staged \in [Cleanups -> [Actions -> Outcomes]]
    /\ seen \in [Operators -> [command : {"APPROVE", "REJECT"}, action : Actions]
                              \cup {NoRead}]
    /\ link \in [Actions -> Links]
    /\ wire \subseteq Deliveries \X {"first", "again"}
    /\ blind \in [Actions -> Nat] /\ approvals \in [Actions -> Nat]

\* What may send a create: an action that needs approval as often as one was
\* committed, any other action once.
Authorized(a) ==
    IF disposition[a] = "REQUIRE_MANUAL_APPROVAL" THEN approvals[a] ELSE 1

\* "It never blindly repeats the create request": whatever deliveries, timeouts,
\* crashes and overlapping operator requests do, no more creates are sent for an
\* action without a lookup of its reference under the row lock than were
\* authorized (runtime.py:349).  A second approval that was read before the first
\* one was committed does authorize a second (services/cases.py:407).
CreatesAreAuthorized == \A a \in Actions : blind[a] <= Authorized(a)

\* A completed payment-link action names a link the provider really has, also
\* when the create was answered late, reconciled or found by a cleanup
\* (runtime.py:586, 675, 1391).
SucceededHasLink ==
    \A a \in Standard : status[a] = "SUCCEEDED" => reference[a] /\ link[a] # "none"

\* While one delivery or cleanup decides what became of an action's create,
\* no other delivery sends a second one (the row lock, runtime.py:623).
OneDecides ==
    \A d, e \in Deliveries :
        /\ d # e /\ target[d] = target[e]
        /\ pc[d] \in {"lookup", "resubmit", "reposted", "reaccepted"}
        => /\ pc[e] \notin {"lookup", "resubmit", "reposted", "reaccepted"}
           /\ \A c \in Cleanups : cleanup[c] = "clean" => target[d] \notin todo[c]

\* A completed payment-link action is cancelled by the system only once its
\* link is dead: never one that was paid, not even while the cleanup was
\* asking, and never one the customer can still pay (runtime.py:1403-1411).
CancelledOnceDead ==
    [][\A a \in Standard :
         /\ status[a] = "SUCCEEDED" /\ status'[a] = "CANCELLED"
         /\ seen' = seen
         => link[a] \in {"cancelled", "expired"}]_vars

\* What the system cancelled is not completed by a create that returns, or a
\* lookup that answers, afterwards (runtime.py:571, 638).
CancelledStays ==
    [][\A a \in Actions :
         status[a] = "CANCELLED" /\ seen' = seen => status'[a] = "CANCELLED"]_vars

\* "Unpaid standalone links are cancelled on stop/deadline": a cleanup that
\* begins when no submission is under way settles every link that can still
\* be paid.  The code does not ensure it: stop_case commits CANCELLED before
\* the workflow's cleanup selects EXECUTING and SUCCEEDED (runtime.py:1350).
StopFindsUnpaidLinks ==
    [][\A c \in Cleanups :
         /\ cleanup[c] = "idle" /\ cleanup'[c] = "clean"
         /\ wire = {} /\ \A d \in Deliveries : pc[d] \in {"idle", "done"}
         => \A a \in Standard : link[a] = "created" => a \in todo'[c]]_vars
=============================================================================
