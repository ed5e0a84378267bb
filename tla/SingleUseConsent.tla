-------------------------- MODULE SingleUseConsent --------------------------
(***************************************************************************)
(* What the customer-agent protocol promises for one recovery action, told *)
(* without tasks, revisions, retries or rows: the customer is asked once,  *)
(* consent may be refused or given, and consent that was given is reserved *)
(* at most once and used at most once.  A withdrawal that arrives before   *)
(* the reservation may still lose the race with it.                        *)
(***************************************************************************)

VARIABLES consent,  \* "unasked", "asked", "given", "refused" or "withdrawn"
          use       \* "none", "reserved" or "used"

consentVars == <<consent, use>>

ConsentInit == consent = "unasked" /\ use = "none"

Ask      == consent = "unasked" /\ consent' = "asked" /\ UNCHANGED use
Give     == consent = "asked" /\ consent' = "given" /\ UNCHANGED use
Refuse   == consent = "asked" /\ consent' = "refused" /\ UNCHANGED use
Withdraw == consent = "given" /\ consent' = "withdrawn" /\ UNCHANGED use

\* Only consent that was once given is reserved, and it is reserved once.
Reserve ==
    /\ consent \in {"given", "withdrawn"} /\ use = "none"
    /\ use' = "reserved" /\ UNCHANGED consent

Use == use = "reserved" /\ use' = "used" /\ UNCHANGED consent

ConsentNext == Ask \/ Give \/ Refuse \/ Withdraw \/ Reserve \/ Use

ConsentSpec == ConsentInit /\ [][ConsentNext]_consentVars
=============================================================================
