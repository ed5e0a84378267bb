--------------------------- MODULE DecisionPolicy ---------------------------
(***************************************************************************)
(* What the platform recommends for a failed payment, as functions:        *)
(* diagnose_failure (services/diagnosis.py), the technically eligible      *)
(* actions and their ranking (services/decision_engine.py) and the safety  *)
(* policy with its quiet hours (safety/policy.py).                         *)
(*                                                                         *)
(* An error token is the class of codes it belongs to.  The score of a     *)
(* candidate is the rank of (expected utility, expected recovery,          *)
(* probability); the clock counts hours of a merchant-local day without a  *)
(* change of offset.  The contact limit is left out: no caller passes      *)
(* contact_attempts_in_window, so its branch is never taken.  The engine   *)
(* is never told of an available voice executor (services/cases.py:255).   *)
(*                                                                         *)
(* EndsOnTheSameDay and ForgetsOutcome are faulty forms of the definition  *)
(* that follows them.                                                      *)
(***************************************************************************)
EXTENDS Integers

CONSTANTS DayLength,   \* hours of a day
          RetryDelay,  \* gateway_retry_delay
          None

ASSUME DayAssumption == DayLength \in Nat \ {0} /\ RetryDelay \in Nat \ {0}
ASSUME NoneIsNoTime == None \notin Nat

-----------------------------------------------------------------------------
(* Diagnosis *)

TokenClasses == {"RISK", "MERCHANT", "FUNDS", "AUTHENTICATION", "INSTRUMENT", "TRANSIENT"}
Diagnoses == TokenClasses \cup {"UNKNOWN"}

\* The order in which diagnose_failure looks at the classes.
Precedence == <<"RISK", "MERCHANT", "FUNDS", "AUTHENTICATION", "INSTRUMENT", "TRANSIENT">>

\* A diagnosis is made only of a failed payment whose invoice and subscription
\* agree; the first class that occurs among the tokens decides.
DiagnoseFailure(evidence) ==
    LET found == {i \in 1..6 : Precedence[i] \in evidence.tokens}
    IN  IF ~evidence.failed \/ ~evidence.correlated \/ found = {} THEN "UNKNOWN"
        ELSE Precedence[CHOOSE i \in found : \A j \in found : i <= j]

-----------------------------------------------------------------------------
(* The safety policy *)

\* A candidate is an action type with its payment surface.
Surfaces == {"CARD_UPDATE", "INVOICE_LINK", "STANDARD_LINK"}
Outreach == {"VOICE", "AGENT"}
Controls == {"STOP", "ESCALATE"}
Contacts == Surfaces \cup Outreach
Candidates == Contacts \cup Controls \cup {"WAIT"}

ActionType(c) == IF c \in Surfaces THEN "OPEN_SURFACE" ELSE c

Policies == {"ALLOW", "BLOCK", "DELAY", "REQUIRE_MANUAL_APPROVAL"}

\* The settings SafetyPolicyConfig accepts: quiet hours that start and end at
\* different hours, or none; a threshold that is not negative, or none.
QuietHours == {q \in (0..(DayLength - 1)) \X (0..(DayLength - 1)) : q[1] # q[2]}
PolicySettings == [quiet : QuietHours \cup {None}, killed : BOOLEAN,
                   approvals : SUBSET {ActionType(c) : c \in Candidates},
                   above : Nat \cup {None}]

\* quiet_hours_delay_until: the end of the quiet interval `now' is in, or None.
EndsOnTheSameDay(now, quiet) ==
    LET local == now % DayLength
        start == quiet[1]
        end == quiet[2]
        inside == IF start < end THEN start <= local /\ local < end
                  ELSE local >= start \/ local < end
    IN  IF inside THEN now - local + end ELSE None
QuietEnd(now, quiet) ==
    LET local == now % DayLength
        midnight == now - local
        start == quiet[1]
        end == quiet[2]
    IN  IF start < end
        THEN IF start <= local /\ local < end THEN midnight + end ELSE None
        ELSE IF local >= start THEN midnight + DayLength + end
        ELSE IF local < end THEN midnight + end
        ELSE None

\* What policy and engine are told of a case (SafetyPolicyContext and
\* DecisionContext).
Outcomes == {"OPEN", "STOPPED", "ESCALATED", "DISPUTED", "RECOVERED", "PARTIALLY_RECOVERED"}
Dispositions == {"NONE", "OPTED_OUT", "WRONG_PERSON", "DISPUTE", "ALREADY_PAID"}
Contexts == [now : Nat, deadline : Nat, outcome : Outcomes, captured : BOOLEAN,
             pending : BOOLEAN, disposition : Dispositions, amount : Nat,
             diagnosis : Diagnoses, invoice : BOOLEAN, link : BOOLEAN, agent : BOOLEAN]

Decision(disposition, until) == [disposition |-> disposition, until |-> until]
Block == Decision("BLOCK", None)

\* When a gateway retry is looked at again.
RetryAt(context) ==
    IF context.now + RetryDelay < context.deadline
    THEN context.now + RetryDelay ELSE context.deadline

\* The rules no preference can overrule: evaluate_safety_policy up to the
\* rule on standalone collection.  active_gateway_retries is `pending'.
ForgetsOutcome(context, config, c) ==
    \/ c \notin Controls /\ \/ config.killed
                            \/ context.captured
                            \/ context.now >= context.deadline
    \/ c \in Contacts /\ context.disposition # "NONE"
    \/ c = "STANDARD_LINK" /\ context.pending
Blocked(context, config, c) ==
    \/ c \notin Controls /\ \/ config.killed
                            \/ context.outcome # "OPEN"
                            \/ context.captured
                            \/ context.now >= context.deadline
    \/ c \in Contacts /\ context.disposition # "NONE"
    \/ c = "STANDARD_LINK" /\ context.pending

NeedsApproval(context, config, c) ==
    \/ c \notin Controls /\ ActionType(c) \in config.approvals
    \/ c \in Contacts /\ config.above # None /\ context.amount >= config.above

EvaluateSafetyPolicy(context, config, c) ==
    LET end == IF c \in Outreach /\ config.quiet # None
               THEN QuietEnd(context.now, config.quiet) ELSE None
    IN  IF Blocked(context, config, c) THEN Block
        ELSE IF c = "WAIT" /\ context.pending /\ RetryAt(context) > context.now
             THEN Decision("DELAY", RetryAt(context))
        ELSE IF end # None
             THEN IF end < context.deadline THEN Decision("DELAY", end) ELSE Block
        ELSE IF NeedsApproval(context, config, c)
             THEN Decision("REQUIRE_MANUAL_APPROVAL", None)
        ELSE Decision("ALLOW", None)

-----------------------------------------------------------------------------
(* The decision engine *)

NotRemediable == {"MERCHANT", "RISK"}

\* _surface_candidates
SurfaceCandidates(context) ==
    IF \/ ~context.invoice
       \/ context.diagnosis \in NotRemediable
       \/ context.diagnosis = "TRANSIENT" /\ context.pending
    THEN {}
    ELSE IF context.link THEN Surfaces ELSE Surfaces \ {"STANDARD_LINK"}

\* generate_technically_eligible_actions
Eligible(context) ==
    (IF context.pending /\ context.diagnosis \in {"TRANSIENT", "FUNDS", "UNKNOWN"}
     THEN {"WAIT"} ELSE {})
    \cup SurfaceCandidates(context)
    \cup (IF context.agent /\ context.diagnosis \notin NotRemediable THEN {"AGENT"} ELSE {})
    \cup Controls

\* The surface that comes first among equals, and the tie priority: the
\* preferred surface, then the others in the order of their names.
Preferred(diagnosis) ==
    IF diagnosis \in {"AUTHENTICATION", "INSTRUMENT"} THEN "CARD_UPDATE" ELSE "INVOICE_LINK"

TiePriority(c, diagnosis) ==
    CASE c = "WAIT" -> 0
      [] c = Preferred(diagnosis) -> 10
      [] c = "STANDARD_LINK" -> 11
      [] c \in Surfaces \ {Preferred(diagnosis), "STANDARD_LINK"} -> 12
      [] c = "AGENT" -> 20
      [] c = "VOICE" -> 30
      [] c = "ESCALATE" -> 40
      [] c = "STOP" -> 50

\* decide: the candidates are ranked by score, and policy is the last gate:
\* the best candidate that is not blocked is chosen.
Better(c, d, score, diagnosis) ==
    \/ score[c] > score[d]
    \/ score[c] = score[d] /\ TiePriority(c, diagnosis) < TiePriority(d, diagnosis)

Decide(context, config, score) ==
    LET open == {c \in Eligible(context) :
                     EvaluateSafetyPolicy(context, config, c).disposition # "BLOCK"}
        best == CHOOSE c \in open : \A d \in open \ {c} : Better(c, d, score, context.diagnosis)
    IN  [action |-> best, policy |-> EvaluateSafetyPolicy(context, config, best)]

-----------------------------------------------------------------------------
(* What the functions promise *)

\* The reference for quiet hours: is t in the interval, around midnight or not?
Quiet(t, quiet) ==
    (t + DayLength - quiet[1]) % DayLength < (quiet[2] + DayLength - quiet[1]) % DayLength

\* A delay ends with the quiet interval, not before and not after it.
QuietEndIsExact(now, quiet) ==
    LET end == QuietEnd(now, quiet)
    IN  IF Quiet(now, quiet)
        THEN end > now /\ ~Quiet(end, quiet) /\ \A t \in now..(end - 1) : Quiet(t, quiet)
        ELSE end = None

\* A customer is contacted only for an open, unpaid case of a customer who did
\* not object, within the recovery window and with no kill switch on, never in
\* quiet hours and, above the threshold, never without an approval or a delay;
\* a delay ends within the window; the controls are always available.
PolicyIsSafe(context, config, c) ==
    LET p == EvaluateSafetyPolicy(context, config, c)
        quietNow == config.quiet # None /\ Quiet(context.now, config.quiet)
    IN  /\ c \in Contacts /\ p.disposition # "BLOCK" =>
               /\ context.outcome = "OPEN" /\ ~context.captured
               /\ context.disposition = "NONE"
               /\ context.now < context.deadline
               /\ ~config.killed
        /\ p.disposition = "DELAY" => context.now < p.until /\ p.until <= context.deadline
        /\ c \in Outreach /\ quietNow =>
               \/ p.disposition = "BLOCK"
               \/ p.disposition = "DELAY" /\ ~Quiet(p.until, config.quiet)
        /\ c \in Contacts /\ p.disposition = "ALLOW" => ~NeedsApproval(context, config, c)
        /\ c \in Controls => p.disposition = "ALLOW"

\* The engine chooses an eligible action that policy does not block and that no
\* other such action outscores; evidence of a risk block or of a merchant's own
\* error never leads to a contact.
ChoiceIsSound(evidence, context, config, score) ==
    LET known == [context EXCEPT !.diagnosis = DiagnoseFailure(evidence)]
        choice == Decide(known, config, score)
        trusted == evidence.failed /\ evidence.correlated
    IN  /\ choice.action \in Eligible(known)
        /\ choice.policy.disposition # "BLOCK"
        /\ \A c \in Eligible(known) :
               \/ score[c] <= score[choice.action]
               \/ EvaluateSafetyPolicy(known, config, c).disposition = "BLOCK"
        /\ trusted /\ evidence.tokens \cap NotRemediable # {} => choice.action \notin Contacts
=============================================================================
