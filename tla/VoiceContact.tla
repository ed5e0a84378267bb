---------------------------- MODULE VoiceContact ----------------------------
(***************************************************************************)
(* The calls placed to one customer for one case: operators' start         *)
(* requests and the worker's approved START_VOICE action, both through     *)
(* VoiceContactService.start (voice/service.py, repository.py), the Twilio *)
(* adapter with its circuit breaker, the callbacks of Twilio, ElevenLabs   *)
(* and the browser (voice/router.py), and the cancellation after an        *)
(* authoritative payment (cancel_recovery_action).  Requests overlap, are  *)
(* repeated under one idempotency key and may die at every await; a        *)
(* session keeps the row it loaded first, so a handler decides on that     *)
(* copy and the UPDATE writes the columns it changed.                      *)
(*                                                                         *)
(* A transcript is its intent, a Twilio sid is "known" or not (one call    *)
(* per attempt, so it can only be the right one), signatures are valid.    *)
(*                                                                         *)
(* ReplaysStatus, CountsAsSubmitted, SuppressesInTheCall, ForgetsClaim and *)
(* CanceledAnyway are faulty forms of the definition that follows them,    *)
(* kept to show that the properties notice.                                *)
(***************************************************************************)
EXTENDS CircuitBreaker, FiniteSets

CONSTANTS ApiRequests,    \* concurrent POST /v1/voice/contacts requests
          ApiKeys,        \* the idempotency keys they carry
          Activities,     \* overlapping attempts of the execute activity
          ActionKey,      \* the idempotency key of the worker's command
          Processes,      \* processes, each with a breaker
          Callbacks,      \* concurrent callback requests
          Events,         \* the callbacks considered: <<key, event>>
          Cancellers,     \* overlapping attempts of the cancel activity
          CancelKeys,     \* the cancellation keys of their commands
          DailyLimit,     \* calls per day (10 in evaluate_voice_safety)
          MaxInFlight,    \* requests and activities in progress at a time
          None

Requests == ApiRequests \cup Activities
Keys == ApiKeys \cup {ActionKey}

VARIABLES
    row,          \* voice_contact_attempts by idempotency key, or None
    consent,      \* customer.voice_consent_at is set
    suppressed,   \* voice_suppressions row, and customer.opted_out_at with it
    receipts,     \* voice_webhook_receipts of callbacks: <<key, event>>
    claimed,      \* receipts of cancellations: cancellation key -> attempt
    action,       \* status of the START_VOICE action
    breaker,      \* the start_contact breaker of each process
    doubtful,     \* history: processes whose breaker was told of a submission in
                  \* doubt, and of no call that was created since
    start,        \* each start request: None, or what it holds
    callback,     \* each callback request: None, or what it holds
    cancel,       \* each cancel attempt: None, or what it holds
    call,         \* Twilio: "none", "live" or "ended" for each attempt
    posts,        \* Twilio: calls created for each attempt
    hangups       \* Twilio: cancellations submitted for each cancellation key

attemptVars  == <<row, receipts>>
customerVars == <<consent, suppressed>>
cancelVars   == <<claimed, cancel, hangups>>
twilioVars   == <<call, posts>>
breakerVars  == <<breaker, doubtful>>
vars == <<attemptVars, customerVars, cancelVars, twilioVars,
          action, breakerVars, start, callback>>

-----------------------------------------------------------------------------
(* Statuses of an attempt *)

ActiveStatuses == {"RESERVED", "SUBMITTED", "RINGING", "IN_PROGRESS"}
TerminalStatuses == {"BUSY", "CANCELED", "COMPLETED", "FAILED", "NO_ANSWER", "REJECTED",
                     "CANCEL_PENDING", "CANCEL_UNCERTAIN"}
Statuses == ActiveStatuses \cup TerminalStatuses \cup {"UNCERTAIN"}

\* VOICE_TERMINAL_STATUSES a call can end with, as Twilio reports it.
EndStatuses == {"BUSY", "CANCELED", "COMPLETED", "FAILED", "NO_ANSWER"}

StatusRank == [s \in ActiveStatuses \cup {"UNCERTAIN"} |->
    CASE s \in {"RESERVED", "UNCERTAIN"} -> 0
      [] s = "SUBMITTED" -> 1 [] s = "RINGING" -> 2 [] s = "IN_PROGRESS" -> 3]

\* can_advance_voice_status
CanAdvance(current, candidate) ==
    \/ current = candidate
    \/ /\ current \notin TerminalStatuses
       /\ \/ candidate \in TerminalStatuses
          \/ StatusRank[candidate] >= StatusRank[current]

Rows == [status : Statuses, sid : BOOLEAN, uncertain : BOOLEAN]

Active(rows) == {k \in Keys : rows[k] # None /\ rows[k].status \in ActiveStatuses}

\* The partial unique index uq_voice_contact_one_active.
IndexHolds(rows) == Cardinality(Active(rows)) <= 1

Init ==
    /\ row = [k \in Keys |-> None] /\ receipts = {}
    /\ consent = TRUE /\ suppressed = FALSE
    /\ claimed = [c \in CancelKeys |-> None] /\ hangups = [c \in CancelKeys |-> 0]
    /\ cancel = [t \in Cancellers |-> None]
    /\ action = "SCHEDULED"
    /\ breaker = [p \in Processes |-> ClosedBreaker] /\ doubtful = {}
    /\ start = [r \in Requests |-> None] /\ callback = [h \in Callbacks |-> None]
    /\ call = [k \in Keys |-> "none"] /\ posts = [k \in Keys |-> 0]

-----------------------------------------------------------------------------
(* Starting a call *)

\* The bound on concurrency.
Room == Cardinality({r \in Requests : start[r] # None})
        + Cardinality({h \in Callbacks : callback[h] # None})
        + Cardinality({t \in Cancellers : cancel[t] # None}) < MaxInFlight

Goes(r, pc) == start' = [start EXCEPT ![r].pc = pc]
Ends(r) == start' = [start EXCEPT ![r] = None]

\* An API request ends with its response; an activity goes on to finalize.
Returns(r, result) ==
    start' = [start EXCEPT ![r] =
        IF r \in ApiRequests THEN None ELSE [@ EXCEPT !.pc = "returned", !.result = result]]

Begin(r, p, k) ==
    start' = [start EXCEPT ![r] = [pc |-> "begun", key |-> k, process |-> p, result |-> None]]

\* start_voice_contact, authorized.
ReceiveStart(r, p, k) ==
    /\ r \in ApiRequests /\ k \in ApiKeys /\ start[r] = None /\ Room
    /\ Begin(r, p, k)
    /\ UNCHANGED <<attemptVars, customerVars, cancelVars, twilioVars, action,
                   breakerVars, callback>>

\* _claim_voice_action, the approval event and the policy being there: an
\* action is executed when it is scheduled or was left executing.
Executable == {"SCHEDULED", "EXECUTING"}

ClaimVoiceAction(a, p) ==
    /\ a \in Activities /\ start[a] = None /\ Room
    /\ action \in Executable
    /\ action' = "EXECUTING"
    /\ Begin(a, p, ActionKey)
    /\ UNCHANGED <<attemptVars, customerVars, cancelVars, twilioVars, breakerVars, callback>>

\* _replay_result
ReplaysStatus(attempt) == attempt.status
CountsAsSubmitted(attempt) ==
    IF attempt.uncertain THEN "UNCERTAIN"
    ELSE IF attempt.status = "REJECTED" THEN "REJECTED" ELSE "SUBMITTED"
ReplayResult(attempt) ==
    IF attempt.status = "RESERVED" \/ attempt.uncertain THEN "UNCERTAIN"
    ELSE IF attempt.status = "REJECTED" THEN "REJECTED" ELSE "SUBMITTED"

\* load_subject: the customer's consent and opt-out as they are now.
Subject == [consent |-> consent, optedOut |-> suppressed]

\* calls_today, within one day.
CallsToday == Cardinality({k \in Keys : row[k] # None})

\* evaluate_voice_safety as far as the state decides it.
VoiceContactAllowed ==
    /\ Subject.consent /\ ~Subject.optedOut
    /\ Active(row) = {}
    /\ CallsToday < DailyLimit

\* service.start up to the reservation: a known key is answered from its row;
\* otherwise the subject is loaded and the safety gate decides.  Kill switch,
\* quiet hours, allowlist and authorization may refuse at any time.
CheckStart(r) ==
    /\ start[r] # None /\ start[r].pc = "begun"
    /\ LET k == start[r].key IN
       \/ row[k] # None /\ Returns(r, ReplayResult(row[k]))
       \/ row[k] = None /\ Returns(r, "REJECTED")
       \/ row[k] = None /\ VoiceContactAllowed /\ Goes(r, "allowed")
    /\ UNCHANGED <<attemptVars, customerVars, cancelVars, twilioVars, action,
                   breakerVars, callback>>

\* reserve_attempt finds a row of this key.
Taken(k) == row[k] # None

\* reserve_attempt: the row is committed before the provider is called; a
\* conflict on the key is a replay, one on the index raises.
Reserved(r) ==
    LET k == start[r].key
        rows == [row EXCEPT ![k] = [status |-> "RESERVED", sid |-> FALSE, uncertain |-> FALSE]]
    IN  IF Taken(k) THEN Returns(r, ReplayResult(row[k])) /\ UNCHANGED row
        ELSE IF IndexHolds(rows) THEN Goes(r, "reserved") /\ row' = rows
        ELSE Ends(r) /\ UNCHANGED row

ReserveAttempt(r) ==
    /\ start[r] # None /\ start[r].pc = "allowed"
    /\ Reserved(r)
    /\ UNCHANGED <<receipts, customerVars, cancelVars, twilioVars, action, breakerVars,
                   callback>>

\* TwilioVoiceProvider.start_contact: the breaker allows the POST, which
\* reaches Twilio and creates a call, or does not.
SubmitCall(r, elapsed) ==
    /\ start[r] # None /\ start[r].pc = "reserved"
    /\ LET k == start[r].key
           p == start[r].process IN
       /\ breaker' = [breaker EXCEPT ![p] = BeforeCall(@, elapsed)]
       /\ IF Allows(HalfOpened(breaker[p], elapsed))
          THEN /\ Goes(r, "posting")
               /\ \/ /\ call' = [call EXCEPT ![k] = "live"]
                     /\ posts' = [posts EXCEPT ![k] = @ + 1]
                  \/ UNCHANGED twilioVars
          ELSE /\ start' = [start EXCEPT ![r].pc = "answered",
                      ![r].result = IF breaker[p].uncertain THEN "UNCERTAIN" ELSE "REJECTED"]
               /\ UNCHANGED twilioVars
    /\ UNCHANGED <<attemptVars, customerVars, cancelVars, action, doubtful, callback>>

Answered(r, result) ==
    start' = [start EXCEPT ![r].pc = "answered", ![r].result = result]

\* The answer to the POST: created; refused (4xx), which only a call that was
\* not created can be; a timeout, a network error or a 5xx, which says nothing;
\* or another exception, which service.start catches and no breaker hears of.
AnswerCall(r) ==
    /\ start[r] # None /\ start[r].pc = "posting"
    /\ LET k == start[r].key
           p == start[r].process IN
       \/ /\ call[k] # "none" /\ Answered(r, "SUBMITTED")
          /\ breaker' = [breaker EXCEPT ![p] = RecordSuccess(@)]
          /\ doubtful' = doubtful \ {p}
       \/ /\ call[k] = "none" /\ Answered(r, "REJECTED")
          /\ breaker' = [breaker EXCEPT ![p] = RecordFailure(@, "PERMANENT")]
          /\ UNCHANGED doubtful
       \/ /\ Answered(r, "UNCERTAIN")
          /\ breaker' = [breaker EXCEPT ![p] = RecordFailure(@, "UNCERTAIN_SUBMISSION")]
          /\ doubtful' = doubtful \cup {p}
       \/ Answered(r, "UNCERTAIN") /\ UNCHANGED breakerVars
    /\ UNCHANGED <<attemptVars, customerVars, cancelVars, twilioVars, action, callback>>

\* save_attempt reads the row again and overwrites all its columns with what the
\* request made of its reservation: what others committed since is lost.
Saved(k, result) ==
    [row EXCEPT ![k] = [status |-> result, sid |-> result = "SUBMITTED",
                        uncertain |-> result = "UNCERTAIN"]]

\* The commit that ends the request, unless the index refuses it.
SaveAttempt(r) ==
    /\ start[r] # None /\ start[r].pc = "answered"
    /\ LET result == start[r].result
           rows == Saved(start[r].key, result)
       IN  IF IndexHolds(rows) THEN Returns(r, result) /\ row' = rows
           ELSE Ends(r) /\ UNCHANGED row
    /\ UNCHANGED <<receipts, customerVars, cancelVars, twilioVars, action, breakerVars,
                   callback>>

\* _finalize_voice_action, for a submitted or a rejected call: it leaves only
\* a succeeded action alone.
FinalizeVoiceAction(a) ==
    /\ start[a] # None /\ start[a].pc = "returned"
    /\ action' = IF action = "SUCCEEDED" THEN action
                 ELSE CASE start[a].result = "SUBMITTED" -> "SUCCEEDED"
                        [] start[a].result = "REJECTED" -> "CANCELLED"
                        [] OTHER -> action
    /\ Ends(a)
    /\ UNCHANGED <<attemptVars, customerVars, cancelVars, twilioVars, breakerVars, callback>>

-----------------------------------------------------------------------------
(* The customer's subject row and the callbacks *)

\* configure_subject writes the consent and leaves opted_out_at alone.
ConfigureSubject == consent' = ~consent /\ UNCHANGED suppressed

\* configure_voice_contact
ConfigureContact ==
    /\ ConfigureSubject
    /\ UNCHANGED <<attemptVars, cancelVars, twilioVars,
                   action, breakerVars, start, callback>>

\* What a callback sets: Twilio its status; ElevenLabs' post-call report and
\* a transcript or a live tool call their intent.
OptOutEvents == {"LIVE_OPT_OUT", "TRANSCRIPT_OPT_OUT", "POST_CALL_OPT_OUT"}
EventKinds == OptOutEvents \cup EndStatuses \cup (ActiveStatuses \ {"RESERVED"})
EventStatus(e) == IF e = "POST_CALL_OPT_OUT" THEN "COMPLETED"
                  ELSE IF e \in OptOutEvents THEN None ELSE e

ASSUME VoiceAssumption ==
    /\ None \notin Rows \cup Keys
    /\ Events \subseteq Keys \X EventKinds

\* Twilio and ElevenLabs report what has happened, any number of times and in
\* any order; an attempt that is not there is answered 404.
Reportable(k, e) ==
    /\ row[k] # None
    /\ call[k] # "none"
    /\ e \in EndStatuses \cup {"POST_CALL_OPT_OUT"} => call[k] = "ended"

\* A callback loads the attempt, to check the sid against it.
ReceiveCallback(h, k, e) ==
    /\ callback[h] = None /\ Room
    /\ Reportable(k, e)
    /\ callback' = [callback EXCEPT ![h] =
           [pc |-> "loaded", key |-> k, event |-> e, copy |-> row[k], committed |-> FALSE]]
    /\ UNCHANGED <<attemptVars, customerVars, cancelVars, twilioVars, action,
                   breakerVars, start>>

\* The four endpoints through which a callback arrives.
TwilioStatus(h, k, e) == e \notin OptOutEvents /\ ReceiveCallback(h, k, e)
BrowserTranscript(h, k, e) == e = "TRANSCRIPT_OPT_OUT" /\ ReceiveCallback(h, k, e)
LiveIntentTool(h, k, e) == e = "LIVE_OPT_OUT" /\ ReceiveCallback(h, k, e)
PostCall(h, k, e) == e = "POST_CALL_OPT_OUT" /\ ReceiveCallback(h, k, e)

\* apply_callback: the columns that differ from the copy are updated; a status
\* the copy cannot advance to is left out.
Updated(k, copy, e) ==
    LET status == EventStatus(e)
        moves == status # None /\ status # copy.status /\ CanAdvance(copy.status, status)
        knows == e \in ActiveStatuses \cup EndStatuses   \* a Twilio callback has the sid
    IN  [row EXCEPT ![k].status = IF moves THEN status ELSE @,
                    ![k].sid = @ \/ knows]

\* suppress creates the suppression of an opt-out, once.
SuppressesInTheCall(e) == e \in OptOutEvents \ {"POST_CALL_OPT_OUT"} /\ ~suppressed
Suppresses(e) == e \in OptOutEvents /\ ~suppressed

\* Another callback has inserted the receipt and not committed: the insert waits.
Awaited(h) ==
    \E g \in Callbacks \ {h} : /\ callback[g] # None /\ callback[g].pc = "hangup"
                               /\ ~callback[g].committed
                               /\ callback[g].key = callback[h].key
                               /\ callback[g].event = callback[h].event

\* apply_twilio_status, apply_transcript, apply_live_intent and
\* apply_elevenlabs_post_call: a receipt that exists makes the callback a
\* duplicate; the index may refuse the update, and the receipt with it; an
\* opt-out commits receipt and suppression before it hangs up.
ApplyCallback(h) ==
    /\ callback[h] # None /\ callback[h].pc = "loaded" /\ ~Awaited(h)
    /\ LET k == callback[h].key
           e == callback[h].event
           rows == Updated(k, callback[h].copy, e)
           created == Suppresses(e)
           done == callback' = [callback EXCEPT ![h] = None]
       IN  IF <<k, e>> \in receipts \/ ~IndexHolds(rows)
           THEN done /\ UNCHANGED <<attemptVars, suppressed>>
           ELSE /\ suppressed' = (suppressed \/ created)
                /\ IF e \in {"LIVE_OPT_OUT", "TRANSCRIPT_OPT_OUT"}
                   THEN /\ callback' = [callback EXCEPT ![h].pc = "hangup",
                                                        ![h].committed = created]
                        /\ row' = rows
                        /\ receipts' = IF created THEN receipts \cup {<<k, e>>} ELSE receipts
                   ELSE /\ done /\ row' = rows /\ receipts' = receipts \cup {<<k, e>>}
    /\ UNCHANGED <<consent, cancelVars, twilioVars, action, breakerVars, start>>

\* provider.cancel_contact after an opt-out, with the sid of the copy.  A live
\* intent swallows its failure and commits; a transcript raises, and what was
\* not committed is rolled back.
HangUp(h) ==
    /\ callback[h] # None /\ callback[h].pc = "hangup"
    /\ LET k == callback[h].key
           e == callback[h].event
           commits == receipts' = receipts \cup {<<k, e>>}
       IN  \/ /\ callback[h].copy.sid
              /\ call' = [call EXCEPT ![k] = "ended"]
              /\ commits
           \/ /\ IF e = "LIVE_OPT_OUT" THEN commits ELSE UNCHANGED receipts
              /\ UNCHANGED call
    /\ callback' = [callback EXCEPT ![h] = None]
    /\ UNCHANGED <<row, customerVars, cancelVars, posts, action, breakerVars, start>>

-----------------------------------------------------------------------------
(* Cancelling after an authoritative payment *)

\* cancel_recovery_action cancels what has not succeeded and commits.
CancelAction(t, c) ==
    /\ cancel[t] = None /\ Room
    /\ action' = IF action = "SUCCEEDED" THEN action ELSE "CANCELLED"
    /\ cancel' = [cancel EXCEPT ![t] =
           [pc |-> "claim", key |-> c, attempt |-> None, sid |-> FALSE, confirmed |-> FALSE]]
    /\ UNCHANGED <<attemptVars, customerVars, claimed, hangups, twilioVars,
                   breakerVars, start, callback>>

\* claim_payment_cancellation: the receipt and CANCEL_PENDING are committed
\* before the provider is called; a key that has a receipt is not submitted.
ForgetsClaim(t) == Active(row) # {}
MayClaim(t) == claimed[cancel[t].key] = None /\ Active(row) # {}

ClaimCancellation(t) ==
    /\ cancel[t] # None /\ cancel[t].pc = "claim"
    /\ IF ~MayClaim(t)
       THEN cancel' = [cancel EXCEPT ![t] = None] /\ UNCHANGED <<row, claimed>>
       ELSE \E k \in Active(row) :
            /\ row' = [row EXCEPT ![k].status = "CANCEL_PENDING"]
            /\ claimed' = [claimed EXCEPT ![cancel[t].key] = k]
            /\ cancel' = [cancel EXCEPT ![t].pc = "claimed", ![t].attempt = k,
                                        ![t].sid = row[k].sid]
    /\ UNCHANGED <<receipts, customerVars, hangups, twilioVars, action, breakerVars,
                   start, callback>>

\* provider.cancel_contact: the disabled provider submits nothing and confirms
\* nothing; without a sid it raises; with one it POSTs, the call
\* ends, or the request fails before or after that.
SubmitCancellation(t) ==
    /\ cancel[t] # None /\ cancel[t].pc = "claimed"
    /\ LET k == cancel[t].attempt
           c == cancel[t].key
           hears(ok) == cancel' = [cancel EXCEPT ![t].pc = "heard", ![t].confirmed = ok]
       IN  \/ hears(FALSE) /\ UNCHANGED <<call, hangups>>
           \/ ~cancel[t].sid /\ hears(FALSE) /\ UNCHANGED <<call, hangups>>
           \/ /\ cancel[t].sid
              /\ hangups' = [hangups EXCEPT ![c] = @ + 1]
              /\ \/ call' = [call EXCEPT ![k] = "ended"] /\ hears(TRUE)
                 \/ call' = [call EXCEPT ![k] = "ended"] /\ hears(FALSE)
                 \/ UNCHANGED call /\ hears(FALSE)
    /\ UNCHANGED <<attemptVars, customerVars, claimed, posts, action, breakerVars, start,
                   callback>>

CanceledAnyway(confirmed) == "CANCELED"
CancelStatus(confirmed) == IF confirmed THEN "CANCELED" ELSE "CANCEL_UNCERTAIN"

\* finalize_payment_cancellation writes over whatever status the row has by now.
FinalizeCancellation(t) ==
    /\ cancel[t] # None /\ cancel[t].pc = "heard"
    /\ LET ok == cancel[t].confirmed IN
       row' = [row EXCEPT ![cancel[t].attempt].status = CancelStatus(ok),
                          ![cancel[t].attempt].uncertain = ~ok]
    /\ cancel' = [cancel EXCEPT ![t] = None]
    /\ UNCHANGED <<receipts, customerVars, claimed, hangups, twilioVars,
                   action, breakerVars, start, callback>>

-----------------------------------------------------------------------------
(* The environment *)

\* A live call ends by itself.
CallEnds(k) ==
    /\ call[k] = "live"
    /\ call' = [call EXCEPT ![k] = "ended"]
    /\ UNCHANGED <<attemptVars, customerVars, cancelVars, posts, action, breakerVars,
                   start, callback>>

\* A process dies: its breaker starts afresh and its start requests are gone;
\* an activity is attempted again.
ProcessDies(p) ==
    /\ breaker' = [breaker EXCEPT ![p] = ClosedBreaker] /\ doubtful' = doubtful \ {p}
    /\ start' = [r \in Requests |->
           IF start[r] # None /\ start[r].process = p THEN None ELSE start[r]]
    /\ UNCHANGED <<attemptVars, customerVars, cancelVars, twilioVars, action, callback>>

\* A start request is cut off alone: its client leaves, its commit fails.
StartLost(r) ==
    /\ start[r] # None /\ Ends(r)
    /\ UNCHANGED <<attemptVars, customerVars, cancelVars, twilioVars, action,
                   breakerVars, callback>>

CallbackLost(h) ==
    /\ callback[h] # None /\ callback' = [callback EXCEPT ![h] = None]
    /\ UNCHANGED <<attemptVars, customerVars, cancelVars, twilioVars, action,
                   breakerVars, start>>

CancelLost(t) ==
    /\ cancel[t] # None /\ cancel' = [cancel EXCEPT ![t] = None]
    /\ UNCHANGED <<attemptVars, customerVars, claimed, hangups, twilioVars,
                   action, breakerVars, start, callback>>

Next ==
    \/ \E r \in ApiRequests, p \in Processes, k \in ApiKeys : ReceiveStart(r, p, k)
    \/ \E a \in Activities, p \in Processes : ClaimVoiceAction(a, p)
    \/ \E r \in Requests : CheckStart(r) \/ ReserveAttempt(r) \/ AnswerCall(r)
                           \/ SaveAttempt(r) \/ StartLost(r)
    \/ \E a \in Activities : FinalizeVoiceAction(a)
    \/ \E r \in Requests, elapsed \in BOOLEAN : SubmitCall(r, elapsed)
    \/ ConfigureContact
    \/ \E h \in Callbacks, ke \in Events :
           \/ TwilioStatus(h, ke[1], ke[2]) \/ BrowserTranscript(h, ke[1], ke[2])
           \/ LiveIntentTool(h, ke[1], ke[2]) \/ PostCall(h, ke[1], ke[2])
    \/ \E h \in Callbacks : ApplyCallback(h) \/ HangUp(h) \/ CallbackLost(h)
    \/ \E t \in Cancellers, c \in CancelKeys : CancelAction(t, c)
    \/ \E t \in Cancellers : ClaimCancellation(t) \/ SubmitCancellation(t)
                             \/ FinalizeCancellation(t) \/ CancelLost(t)
    \/ \E k \in Keys : CallEnds(k)
    \/ \E p \in Processes : ProcessDies(p)

Spec == Init /\ [][Next]_vars

-----------------------------------------------------------------------------
(* Properties *)

\* Every variable has its type.
TypeOK ==
    /\ row \in [Keys -> Rows \cup {None}]
    /\ receipts \subseteq Events
    /\ consent \in BOOLEAN /\ suppressed \in BOOLEAN
    /\ claimed \in [CancelKeys -> Keys \cup {None}]
    /\ hangups \in [CancelKeys -> Nat] /\ posts \in [Keys -> Nat]
    /\ action \in {"SCHEDULED", "EXECUTING", "SUCCEEDED", "CANCELLED"}
    /\ breaker \in [Processes -> Breakers] /\ doubtful \subseteq Processes
    /\ call \in [Keys -> {"none", "live", "ended"}]
    /\ start \in [Requests ->
           [pc : {"begun", "allowed", "reserved", "posting", "answered", "returned"},
            key : Keys, process : Processes,
            result : {"SUBMITTED", "REJECTED", "UNCERTAIN", None}] \cup {None}]
    /\ callback \in [Callbacks -> [pc : {"loaded", "hangup"}, key : Keys, event : EventKinds,
                                   copy : Rows, committed : BOOLEAN] \cup {None}]
    /\ cancel \in [Cancellers -> [pc : {"claim", "claimed", "heard"}, key : CancelKeys,
                                  attempt : Keys \cup {None}, sid : BOOLEAN,
                                  confirmed : BOOLEAN] \cup {None}]

\* One idempotency key places at most one call and one cancellation key hangs
\* up at most once, through replays, overlapping attempts and processes that
\* die between the reservation (or the claim) and the provider's answer.
SubmittedOnce ==
    /\ \A k \in Keys : posts[k] <= 1
    /\ \A c \in CancelKeys : hangups[c] <= 1

\* A call that is live is never hidden behind a row that says it is over: the
\* row counts as active or says that its outcome is not known.
LiveCallIsVisible ==
    \A k \in Keys : call[k] = "live" =>
        row[k] # None /\ row[k].status \in
            ActiveStatuses \cup {"UNCERTAIN", "CANCEL_PENDING", "CANCEL_UNCERTAIN"}

\* The action is reported as succeeded only when its call was created, or its
\* attempt has meanwhile been taken by a payment cancellation.
SucceededWasCalled ==
    action = "SUCCEEDED" =>
        \/ posts[ActionKey] = 1
        \/ \E c \in CancelKeys : claimed[c] = ActionKey

\* An opt-out whose callback has been recorded has suppressed the customer.
OptOutIsKept == \A k \in Keys, e \in OptOutEvents : <<k, e>> \in receipts => suppressed

\* After a submission that timed out or was answered 5xx, the process places no
\* further call, however long it waits and however many requests it had under
\* way, until Twilio confirms a call that it had already submitted or it starts
\* afresh ("never permit an automatic retry", circuit_breaker.py).
DoubtStopsCalls ==
    [][\A r \in Requests :
           start[r] # None /\ start[r].pc = "reserved" /\ start[r].process \in doubtful
           => start'[r] = None \/ start'[r].pc # "posting"]_vars
=============================================================================
