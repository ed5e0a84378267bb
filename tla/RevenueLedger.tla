---------------------------- MODULE RevenueLedger ----------------------------
(***************************************************************************)
(* What the revenue ledger of one recovery case promises, whatever         *)
(* webhooks, pollers and retries do: the case opens once, for a positive   *)
(* amount at risk; a payment is recognised at most once and never beyond   *)
(* what is still at risk; the case is recovered exactly when nothing is.   *)
(***************************************************************************)
EXTENDS Integers

CONSTANTS Payments,   \* provider payment ids
          Amount,     \* the captured amount of each payment
          Invoice     \* the invoice's amount

VARIABLES atRisk,       \* amount_at_risk_paise, 0 while there is no case
          arrears,      \* arrears_collected_paise
          recognised,   \* payments with a revenue recognition record
          outcome       \* case_outcome

ledgerVars == <<atRisk, arrears, recognised, outcome>>

LedgerInit ==
    /\ atRisk = 0 /\ arrears = 0 /\ recognised = {} /\ outcome = "NONE"

OpenCase ==
    /\ outcome = "NONE"
    /\ atRisk' \in 1..Invoice
    /\ outcome' = "OPEN"
    /\ UNCHANGED <<arrears, recognised>>

Recognise(p) ==
    /\ outcome # "NONE"
    /\ p \notin recognised
    /\ arrears + Amount[p] <= atRisk
    /\ recognised' = recognised \cup {p}
    /\ arrears' = arrears + Amount[p]
    /\ outcome' = IF arrears' = atRisk THEN "RECOVERED" ELSE "PARTIALLY_RECOVERED"
    /\ UNCHANGED atRisk

LedgerNext == OpenCase \/ \E p \in Payments : Recognise(p)

LedgerSpec == LedgerInit /\ [][LedgerNext]_ledgerVars
=============================================================================
