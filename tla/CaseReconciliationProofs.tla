----------------------- MODULE CaseReconciliationProofs -----------------------
(***************************************************************************)
(* reconcile_case, for every set of payments, events and pollers.          *)
(*                                                                         *)
(* The invariants of WebhookOutbox carry over, since a reconciliation      *)
(* writes nothing.  From DispatchInv a success that was signalled is in    *)
(* the ledger, so a webhook's reconciliation is answered by the ledger and *)
(* only the customer's word is left to the provider; what the activity     *)
(* then read stays true of the case, because atRisk never changes once the *)
(* case is open.                                                           *)
(***************************************************************************)
EXTENDS CaseReconciliation, WebhookOutboxProofs

\* What the activity remembers across its call of the provider, and what the
\* workflow was told.
ReconciliationInv ==
    /\ \A r \in reading : /\ outcome # "NONE" /\ r.trigger = Intent
                          /\ r.existing \in Nat /\ r.required \in Nat
                          /\ r.existing + r.required = atRisk
    /\ \A t \in told : outcome # "NONE"
    /\ ToldIsPaidUp

\* A case that is open keeps what is at risk, and what was collected and
\* captured is never taken back.
LEMMA CaseStable ==
    ASSUME TypeOK, TypeOK', LedgerInv, LedgerInv', DispatchInv, [Next]_vars, outcome # "NONE"
    PROVE  /\ outcome' # "NONE" /\ atRisk' = atRisk
           /\ captured # {} => captured' # {}
           /\ arrears = atRisk => arrears' = atRisk'
<1> USE AmountsAssumption
<1>1. captured \subseteq captured'
  <2>1. CASE \E p \in Pollers, e \in Events :
               ApplyFailed(p, e) \/ ApplyCaptured(p, e) \/ ApplySecondSuccess(p, e)
    BY <2>1, FailureGrows, CaptureGrows DEF Grows
  <2>2. CASE \A p \in Pollers, e \in Events :
               ~(ApplyFailed(p, e) \/ ApplyCaptured(p, e) \/ ApplySecondSuccess(p, e))
    BY <2>2, OthersGrow DEF Grows
  <2> QED BY <2>1, <2>2
<1>2. arrears \in Nat /\ atRisk \in Nat
  BY DEF TypeOK
<1>3. CASE UNCHANGED Ledger!ledgerVars
  BY <1>1, <1>3 DEF Ledger!ledgerVars
<1>4. CASE Ledger!LedgerNext
  BY <1>1, <1>2, <1>4 DEF Ledger!LedgerNext, Ledger!OpenCase, Ledger!Recognise
<1> QED BY <1>3, <1>4, LedgerStep

\* The pollers keep what the activity remembers.
LEMMA PollersKeep ==
    ASSUME TypeOK, TypeOK', LedgerInv, LedgerInv', DispatchInv, ReconciliationInv,
           [Next]_vars, UNCHANGED reconciliationVars
    PROVE  ReconciliationInv'
<1>1. CASE outcome = "NONE"
  BY <1>1 DEF ReconciliationInv, ToldIsPaidUp, reconciliationVars
<1>2. CASE outcome # "NONE"
  BY <1>2, CaseStable DEF ReconciliationInv, ToldIsPaidUp, reconciliationVars
<1> QED BY <1>1, <1>2

\* An open case has collected at most what was at risk.
LEMMA AtMostAtRisk ==
    ASSUME TypeOK, LedgerInv, outcome # "NONE"
    PROVE  /\ arrears \in Nat /\ atRisk \in Nat /\ Required \in Nat
           /\ arrears + Required = atRisk
           /\ outcome = "RECOVERED" => arrears = atRisk
<1>1. arrears \in Nat /\ atRisk \in Nat /\ arrears <= atRisk
  BY DEF TypeOK, LedgerInv
<1> QED BY <1>1 DEF Required, LedgerInv

\* The session answers from the ledger, or leaves the customer's word to the
\* provider.
LEMMA BeginKeeps ==
    ASSUME TypeOK, LedgerInv, DispatchInv, ReconciliationInv, NEW trigger \in Triggers,
           BeginReconciliation(trigger)
    PROVE  ReconciliationInv'
<1>1. UNCHANGED <<captured, atRisk, arrears, outcome>> /\ outcome # "NONE"
  BY DEF BeginReconciliation, vars, providerVars, moneyVars
<1>2. CASE Recognitions(trigger) # {}
  <2>1. captured # {}
    BY <1>2 DEF Recognitions, DispatchInv
  <2>2. /\ UNCHANGED reading
        /\ \A t \in told' : t \in told \/ (outcome = "RECOVERED" /\ t.collected = arrears)
    BY <1>2 DEF BeginReconciliation
  <2> QED BY <1>1, <2>1, <2>2, AtMostAtRisk DEF ReconciliationInv, ToldIsPaidUp
<1>3. CASE Recognitions(trigger) = {}
  <2>1. PICK p \in Lookup(trigger) :
            /\ reading' = {[trigger |-> trigger, payment |-> p,
                            required |-> Required, existing |-> arrears]}
            /\ UNCHANGED told
    BY <1>3 DEF BeginReconciliation
  <2>2. trigger = Intent
    <3> SUFFICES ASSUME trigger # Intent PROVE FALSE
      OBVIOUS
    <3>1. trigger \in signalled /\ Kind[trigger] = "CAPTURED"
      BY <2>1 DEF BeginReconciliation, Lookup
    <3>2. Recorded(trigger)
      BY <3>1 DEF DispatchInv
    <3> QED BY <1>3, <3>2 DEF Recorded, Recognitions
  <2> QED BY <1>1, <2>1, <2>2, AtMostAtRisk DEF ReconciliationInv, ToldIsPaidUp
<1> QED BY <1>2, <1>3

\* What the provider answers completes what the session read.
LEMMA FinishKeeps ==
    ASSUME TypeOK, ReconciliationInv, NEW r \in reading, FinishReconciliation(r)
    PROVE  ReconciliationInv'
<1>1. /\ UNCHANGED <<captured, atRisk, arrears, outcome>> /\ reading' = {}
  BY DEF FinishReconciliation, vars, providerVars, moneyVars
<1>2. PICK p \in SnapshotOf(r.payment) :
          told' = IF p \in captured /\ Settles(Amount[p], r.required)
                  THEN {[run |-> runs, trigger |-> r.trigger,
                         collected |-> r.existing + Amount[p]]}
                  ELSE told
  BY DEF FinishReconciliation
<1>3. CASE UNCHANGED told
  BY <1>1, <1>3 DEF ReconciliationInv, ToldIsPaidUp
<1>4. CASE /\ p \in captured /\ Amount[p] = r.required
           /\ told' = {[run |-> runs, trigger |-> r.trigger,
                        collected |-> r.existing + Amount[p]]}
  BY <1>1, <1>4 DEF ReconciliationInv, ToldIsPaidUp
<1> QED BY <1>2, <1>3, <1>4 DEF Settles

\* Every step of the composition is one of WebhookOutbox, or leaves it alone.
LEMMA ReconciliationImplementsOutbox == ReconciliationSpec => Spec
<1>1. ReconciliationInit => Init
  BY DEF ReconciliationInit
<1>2. [ReconciliationNext]_allVars => [Next]_vars
  BY DEF ReconciliationNext, BeginReconciliation, FinishReconciliation, ReconciliationLost, allVars
<1> QED BY <1>1, <1>2, PTL DEF ReconciliationSpec, Spec

\* For every set of payments, events and pollers, reconcile_case tells the
\* workflow of a recovery only when a payment is captured and the amounts add up
\* to what was at risk, although it reads the case before it asks the provider;
\* and when it does on the word of a webhook, the ledger has collected it.
THEOREM ToldOfPaidUpCases == ReconciliationSpec => []ToldIsPaidUp
<1>1. ReconciliationInit => ReconciliationInv
  BY DEF ReconciliationInit, ReconciliationInv, ToldIsPaidUp
<1>2. /\ TypeOK /\ TypeOK' /\ LedgerInv /\ LedgerInv' /\ DispatchInv /\ ReconciliationInv
      /\ [ReconciliationNext]_allVars
      => ReconciliationInv'
  <2> SUFFICES ASSUME TypeOK, TypeOK', LedgerInv, LedgerInv', DispatchInv, ReconciliationInv,
                      [ReconciliationNext]_allVars
               PROVE  ReconciliationInv'
    OBVIOUS
  <2>1. CASE [Next]_vars /\ UNCHANGED reconciliationVars
    BY <2>1, PollersKeep
  <2>2. CASE \E trigger \in Triggers : BeginReconciliation(trigger)
    BY <2>2, BeginKeeps
  <2>3. CASE \E r \in reading : FinishReconciliation(r)
    BY <2>3, FinishKeeps
  <2>4. CASE \E r \in reading : ReconciliationLost(r)
    <3>1. UNCHANGED <<captured, atRisk, arrears, outcome, told>> /\ reading' = {}
      BY <2>4 DEF ReconciliationLost, vars, providerVars, moneyVars
    <3> QED BY <3>1 DEF ReconciliationInv, ToldIsPaidUp
  <2> QED BY <2>1, <2>2, <2>3, <2>4 DEF ReconciliationNext, allVars
<1>3. ReconciliationInv => ToldIsPaidUp
  BY DEF ReconciliationInv
<1>4. ReconciliationSpec => [](TypeOK /\ LedgerInv /\ DispatchInv)
  BY ReconciliationImplementsOutbox, TypeCorrect, LedgerInvariant, DispatchInvariant, PTL
<1> QED BY <1>1, <1>2, <1>3, <1>4, PTL DEF ReconciliationSpec
=============================================================================
