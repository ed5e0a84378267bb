------------------------- MODULE PaymentActionProofs -------------------------
(***************************************************************************)
(* Proofs about PaymentAction for any number of actions, deliveries,       *)
(* cleanups, worker processes and operator requests.                       *)
(*                                                                         *)
(* The argument is about who may write a row.  A delivery that reconciles  *)
(* and a cleanup that settles links hold the row lock, so what they read   *)
(* of the row when they took it is still so when they commit (Held).       *)
(* Every other writer takes a free row.  A link, once created, is never    *)
(* absent again, so a reference read from the provider stays valid         *)
(* (Linked).                                                               *)
(***************************************************************************)
EXTENDS PaymentAction, FiniteSetTheorems, TLAPS

Deciding == {"lookup", "resubmit", "reposted", "reaccepted"}

\* A delivery under way, or with a request on the wire, has its action.
Placed ==
    /\ \A d \in Deliveries : pc[d] # "idle" => target[d] \in Actions
    /\ \A d \in Deliveries, n \in {"first", "again"} :
          <<d, n>> \in wire => pc[d] # "idle"

\* A delivery that reconciles holds its row, which is still EXECUTING.
DeliveryHolds ==
    \A d \in Deliveries : pc[d] \in Deciding
        => lock[target[d]] = d /\ status[target[d]] = "EXECUTING"

\* A cleanup holds the rows it works on, which are still as it selected them.
CleanupHolds ==
    \A c \in Cleanups, a \in Actions :
        a \in todo[c] \/ staged[c][a] # "keep"
        => /\ cleanup[c] = "clean" /\ lock[a] = c /\ a \in Standard
           /\ status[a] \in {"EXECUTING", "SUCCEEDED"}

\* What the database says of a link is true.
RowsLinked ==
    \A a \in Actions : a \in Standard =>
        /\ status[a] = "SUCCEEDED" => reference[a] = TRUE
        /\ reference[a] = TRUE => link[a] # "none"

\* A delivery that had an answer was answered about a link.
AnswersLinked ==
    \A d \in Deliveries :
        pc[d] \in {"accepted", "persist", "reaccepted"} /\ target[d] \in Standard
        => link[target[d]] # "none"

\* What a cleanup has learnt and not committed is still true.
StagesLinked ==
    \A c \in Cleanups, a \in Actions :
        /\ staged[c][a] = "absent" => reference[a] = FALSE
        /\ staged[c][a] = "found" => link[a] # "none"
        /\ staged[c][a] = "revoked" => link[a] \in {"cancelled", "expired"}

Held == DeliveryHolds /\ CleanupHolds
Linked == RowsLinked /\ AnswersLinked /\ StagesLinked
Inv == TypeOK /\ Placed /\ Held /\ Linked

USE DEF Deciding

\* The initial states: nobody has read, locked or created anything.
LEMMA InitInv == Init => Inv
<1> SUFFICES ASSUME Init PROVE Inv
    OBVIOUS
<1>1. status \in [Actions -> Statuses]
    BY DEF Init, InitialStatus, Dispositions, Statuses, Open
<1>2. \A a \in Actions : status[a] # "SUCCEEDED"
    BY DEF Init, InitialStatus, Dispositions
<1>3. TypeOK
    BY <1>1 DEF Init, TypeOK, Places, Links, Outcomes
<1>4. Placed /\ Held
    BY DEF Init, Placed, Held, DeliveryHolds, CleanupHolds
<1>5. Linked
    BY <1>2 DEF Init, Linked, RowsLinked, AnswersLinked, StagesLinked, Standard
<1> QED BY <1>3, <1>4, <1>5 DEF Inv

\* A request on the wire is a delivery's first or second create.
LEMMA WireAdd ==
    ASSUME NEW W, W \subseteq Deliveries \X {"first", "again"},
           NEW d \in Deliveries, NEW n \in {"first", "again"}
    PROVE  W \cup {<<d, n>>} \subseteq Deliveries \X {"first", "again"}
OBVIOUS

\* Staging an outcome and settling an action keep the types of a cleanup.
LEMMA StagedAdd ==
    ASSUME NEW S \in [Cleanups -> [Actions -> Outcomes]],
           NEW c \in Cleanups, NEW a \in Actions, NEW v \in Outcomes
    PROVE  [S EXCEPT ![c][a] = v] \in [Cleanups -> [Actions -> Outcomes]]
OBVIOUS

\* A cleanup's lookup keeps the types of what it has staged and has to do.
LEMMA LooksUpType ==
    ASSUME NEW c \in Cleanups, NEW a \in Actions, CleanupLooksUp(c, a),
           staged \in [Cleanups -> [Actions -> Outcomes]],
           todo \in [Cleanups -> SUBSET Actions]
    PROVE  /\ staged' \in [Cleanups -> [Actions -> Outcomes]]
           /\ todo' \in [Cleanups -> SUBSET Actions]
<1>1. PICK v \in Outcomes : staged' = [staged EXCEPT ![c][a] = v]
    BY DEF CleanupLooksUp, Stage, Outcomes
<1>2. staged' \in [Cleanups -> [Actions -> Outcomes]]
    BY <1>1, StagedAdd
<1>3. todo' \in [Cleanups -> SUBSET Actions]
    BY DEF CleanupLooksUp, Settled
<1> QED BY <1>2, <1>3

\* A revocation keeps the types of what the cleanup has staged and has to do.
LEMMA RevokeType ==
    ASSUME NEW c \in Cleanups, NEW a \in Actions, Revoke(c, a),
           staged \in [Cleanups -> [Actions -> Outcomes]],
           todo \in [Cleanups -> SUBSET Actions]
    PROVE  /\ staged' \in [Cleanups -> [Actions -> Outcomes]]
           /\ todo' \in [Cleanups -> SUBSET Actions]
<1>1. staged' = staged \/ staged' = [staged EXCEPT ![c][a] = "revoked"]
    BY DEF Revoke, StageRevocation, Stage
<1>2. [staged EXCEPT ![c][a] = "revoked"] \in [Cleanups -> [Actions -> Outcomes]]
    BY StagedAdd DEF Outcomes
<1>3. todo' \in [Cleanups -> SUBSET Actions]
    BY DEF Revoke, Settled
<1> QED BY <1>1, <1>2, <1>3, Zenon

\* Noting a submission keeps the type of the processes' sets.
LEMMA EnterTryType ==
    ASSUME NEW d \in Deliveries, EnterTry(d), target[d] \in Actions,
           inFlight \subseteq {ProcessOf[e] : e \in Deliveries} \X Actions
    PROVE  inFlight' \subseteq {ProcessOf[e] : e \in Deliveries} \X Actions
BY DEF EnterTry

\* Counting a create or an approval keeps the type of the count.
LEMMA CountAdd ==
    ASSUME NEW B \in [Actions -> Nat], NEW a \in Actions
    PROVE  [B EXCEPT ![a] = @ + 1] \in [Actions -> Nat]
OBVIOUS

\* Every step keeps the types.
LEMMA TypeStep ==
    ASSUME Inv, Next PROVE TypeOK'
<1> USE DEF Inv, TypeOK, rowVars, fixedVars, deliveryVars, cleanupVars,
            providerVars, historyVars, Places
<1>1. ASSUME NEW d \in Deliveries, NEW a \in Actions, Claim(d, a)
      PROVE  TypeOK'
    BY <1>1 DEF Claim, Goto, ClaimLeadsTo, Statuses, Open
<1>2. ASSUME NEW d \in Deliveries, EnterTry(d)
      PROVE  TypeOK'
  <2>1. target[d] \in Actions
    BY <1>2 DEF EnterTry, Placed
  <2>2. inFlight' \subseteq {ProcessOf[e] : e \in Deliveries} \X Actions
    BY <1>2, <2>1, EnterTryType
  <2> QED BY <1>2, <2>2 DEF EnterTry, Goto
<1>3. ASSUME NEW d \in Deliveries, PostCreate(d)
      PROVE  TypeOK'
  <2>1. wire' \subseteq Deliveries \X {"first", "again"}
    BY <1>3, WireAdd, Zenon DEF PostCreate
  <2>2. target[d] \in Actions
    BY <1>3 DEF PostCreate, Placed
  <2>3. blind' \in [Actions -> Nat]
    BY <1>3, <2>2, CountAdd, Zenon DEF PostCreate
  <2> QED BY <1>3, <2>1, <2>3 DEF PostCreate, Goto
<1>4. ASSUME NEW d \in Deliveries, FetchSurface(d)
      PROVE  TypeOK'
    BY <1>4 DEF FetchSurface, Goto, LeaveTry
<1>5. ASSUME NEW d \in Deliveries, CreateReturns(d)
      PROVE  TypeOK'
    BY <1>5 DEF CreateReturns, Goto, LeaveTry
<1>6. ASSUME NEW d \in Deliveries, CreateUncertain(d)
      PROVE  TypeOK'
    BY <1>6 DEF CreateUncertain, Goto
<1>7. ASSUME NEW d \in Deliveries, PersistSurface(d)
      PROVE  TypeOK'
    BY <1>7 DEF PersistSurface, StoreSurface, Write, End, Goto, Unlock,
        LeaveTry, Free, Statuses
<1>8. ASSUME NEW d \in Deliveries, Reconcile(d)
      PROVE  TypeOK'
    BY <1>8 DEF Reconcile, LockRow, Goto, Free
<1>9. ASSUME NEW d \in Deliveries, NothingToReconcile(d)
      PROVE  TypeOK'
    BY <1>9 DEF NothingToReconcile, End, Goto, Unlock, LeaveTry, Free
<1>10. ASSUME NEW d \in Deliveries, LookupFinds(d)
      PROVE  TypeOK'
    BY <1>10 DEF LookupFinds, Found, Complete, Write, End, Goto, Unlock,
        LeaveTry, Statuses
<1>11. ASSUME NEW d \in Deliveries, LookupAbsent(d)
      PROVE  TypeOK'
    BY <1>11 DEF LookupAbsent, Goto
<1>12. ASSUME NEW d \in Deliveries, PostAgain(d)
      PROVE  TypeOK'
  <2>1. wire' \subseteq Deliveries \X {"first", "again"}
    BY <1>12, WireAdd, Zenon DEF PostAgain
  <2> QED BY <1>12, <2>1 DEF PostAgain, Goto
<1>13. ASSUME NEW d \in Deliveries, ResubmissionReturns(d)
      PROVE  TypeOK'
    BY <1>13 DEF ResubmissionReturns, Complete, Write, End, Goto, Unlock,
        LeaveTry, Statuses
<1>14. ASSUME NEW d \in Deliveries, Abort(d)
      PROVE  TypeOK'
    BY <1>14 DEF Abort, End, Goto, Unlock, LeaveTry
<1>15. ASSUME NEW c \in Cleanups, BeginCleanup(c)
      PROVE  TypeOK'
    BY <1>15 DEF BeginCleanup, ToClean, Free, Standard
<1>16. ASSUME NEW c \in Cleanups, CleanupFails(c)
      PROVE  TypeOK'
  <2>1. link' \in [Actions -> Links]
    BY <1>16 DEF CleanupFails, Links
  <2>2. staged' \in [Cleanups -> [Actions -> Outcomes]]
    BY <1>16 DEF CleanupFails, Outcomes
  <2>3. todo' \in [Cleanups -> SUBSET Actions] /\ UNCHANGED <<wire, historyVars>>
    BY <1>16 DEF CleanupFails
  <2>4. cleanup' \in [Cleanups -> {"idle", "clean", "settled", "unresolved",
                                   "cancelled", "not cancelled"}]
    BY <1>16 DEF CleanupFails
  <2>5. lock' \in [Actions -> Deliveries \cup Cleanups \cup {Nobody}]
    BY <1>16 DEF CleanupFails, Unlock
  <2>6. UNCHANGED <<rowVars, deliveryVars, seen>>
    BY <1>16 DEF CleanupFails
  <2> QED BY <2>1, <2>2, <2>3, <2>4, <2>5, <2>6
<1>17. ASSUME NEW c \in Cleanups, CommitCleanup(c)
      PROVE  TypeOK'
    BY <1>17 DEF CommitCleanup, Unlock, Statuses, Outcomes
<1>18. ASSUME NEW c \in Cleanups, CancelOthers(c)
      PROVE  TypeOK'
    BY <1>18 DEF CancelOthers, Free, Statuses
<1>19. ASSUME NEW c \in Cleanups, NEW a \in Actions, CleanupLooksUp(c, a)
      PROVE  TypeOK'
  <2>1. /\ staged' \in [Cleanups -> [Actions -> Outcomes]]
        /\ todo' \in [Cleanups -> SUBSET Actions]
    BY <1>19, LooksUpType
  <2> QED BY <1>19, <2>1 DEF CleanupLooksUp
<1>20. ASSUME NEW c \in Cleanups, NEW a \in Actions, Revoke(c, a)
      PROVE  TypeOK'
  <2>1. /\ staged' \in [Cleanups -> [Actions -> Outcomes]]
        /\ todo' \in [Cleanups -> SUBSET Actions]
    BY <1>20, RevokeType
  <2>2. link' \in [Actions -> Links]
    BY <1>20 DEF Revoke, Links
  <2> QED BY <1>20, <2>1, <2>2 DEF Revoke
<1>21. ASSUME NEW d \in Deliveries, NEW n \in {"first", "again"}, ProviderCreates(d, n)
      PROVE  TypeOK'
    BY <1>21 DEF ProviderCreates, Awaits, Links
<1>22. ASSUME NEW d \in Deliveries, NEW n \in {"first", "again"}, ProviderRejects(d, n)
      PROVE  TypeOK'
  <2>1. wire' \subseteq wire /\ UNCHANGED <<rowVars, target, cleanupVars>>
    BY <1>22 DEF ProviderRejects
  <2>2. UNCHANGED <<seen, link, historyVars>>
    BY <1>22 DEF ProviderRejects
  <2>3. End(d) \/ UNCHANGED <<pc, lock, trying, inFlight>>
    BY <1>22 DEF ProviderRejects
  <2> QED BY <2>1, <2>2, <2>3 DEF End, Goto, Unlock, LeaveTry
<1>23. ASSUME NEW a \in Actions, NEW k \in {"paid", "expired"}, LinkSettles(a, k)
      PROVE  TypeOK'
    BY <1>23 DEF LinkSettles, Links
<1>24. ASSUME NEW o \in Operators, NEW a \in Actions,
             NEW k \in {"APPROVE", "REJECT"}, OperatorReads(o, a, k)
      PROVE  TypeOK'
    BY <1>24 DEF OperatorReads, NoRead
<1>25. ASSUME NEW o \in Operators, OperatorWrites(o)
      PROVE  TypeOK'
  <2>1. seen[o].action \in Actions
    BY <1>25 DEF OperatorWrites
  <2>2. \/ UNCHANGED approvals
        \/ approvals' = [approvals EXCEPT ![seen[o].action] = @ + 1]
    BY <1>25 DEF OperatorWrites
  <2>3. approvals' \in [Actions -> Nat]
    <3>1. approvals \in [Actions -> Nat]
      OBVIOUS
    <3>2. [approvals EXCEPT ![seen[o].action] = @ + 1] \in [Actions -> Nat]
      BY <2>1, <3>1, CountAdd
    <3> QED BY <2>2, <3>1, <3>2
  <2> QED BY <1>25, <2>3 DEF OperatorWrites, Write, Free, Statuses, Open, NoRead
<1>26. ASSUME NEW h \in {"operator", "payment"}, CloseCase(h)
      PROVE  TypeOK'
    BY <1>26 DEF CloseCase, Free, Statuses
<1>27. ASSUME NEW a \in Actions, DueTimePasses(a)
      PROVE  TypeOK'
    BY <1>27 DEF DueTimePasses
<1> HIDE DEF Inv, TypeOK, Places
<1> QED BY <1>1, <1>2, <1>3, <1>4, <1>5, <1>6, <1>7, <1>8, <1>9, <1>10, <1>11,
        <1>12, <1>13, <1>14, <1>15, <1>16, <1>17, <1>18, <1>19, <1>20, <1>21,
        <1>22, <1>23, <1>24, <1>25, <1>26, <1>27
    DEF Next, ExecuteStep, CleanupStep, ProviderStep, OperatorStep

\* A delivery keeps its action.
LEMMA PlacedStep ==
    ASSUME Inv, Next PROVE Placed'
<1> USE DEF Inv, TypeOK, Placed, rowVars, fixedVars, deliveryVars,
            cleanupVars, providerVars, Places
<1>1. ASSUME NEW d \in Deliveries, NEW a \in Actions, Claim(d, a)
      PROVE  Placed'
    BY <1>1 DEF Claim, Goto, ClaimLeadsTo
<1>2. ASSUME NEW d \in Deliveries, EnterTry(d)
      PROVE  Placed'
    BY <1>2 DEF EnterTry, Goto
<1>3. ASSUME NEW d \in Deliveries, PostCreate(d)
      PROVE  Placed'
    BY <1>3 DEF PostCreate, Goto
<1>4. ASSUME NEW d \in Deliveries, FetchSurface(d)
      PROVE  Placed'
    BY <1>4 DEF FetchSurface, Goto, LeaveTry
<1>5. ASSUME NEW d \in Deliveries, CreateReturns(d)
      PROVE  Placed'
    BY <1>5 DEF CreateReturns, Goto, LeaveTry
<1>6. ASSUME NEW d \in Deliveries, CreateUncertain(d)
      PROVE  Placed'
    BY <1>6 DEF CreateUncertain, Goto
<1>7. ASSUME NEW d \in Deliveries, PersistSurface(d)
      PROVE  Placed'
    BY <1>7 DEF PersistSurface, StoreSurface, Write, End, Goto, Unlock,
        LeaveTry, Free
<1>8. ASSUME NEW d \in Deliveries, Reconcile(d)
      PROVE  Placed'
    BY <1>8 DEF Reconcile, LockRow, Goto, Free
<1>9. ASSUME NEW d \in Deliveries, NothingToReconcile(d)
      PROVE  Placed'
    BY <1>9 DEF NothingToReconcile, End, Goto, Unlock, LeaveTry, Free
<1>10. ASSUME NEW d \in Deliveries, LookupFinds(d)
      PROVE  Placed'
    BY <1>10 DEF LookupFinds, Found, Complete, Write, End, Goto, Unlock,
        LeaveTry
<1>11. ASSUME NEW d \in Deliveries, LookupAbsent(d)
      PROVE  Placed'
    BY <1>11 DEF LookupAbsent, Goto
<1>12. ASSUME NEW d \in Deliveries, PostAgain(d)
      PROVE  Placed'
    BY <1>12 DEF PostAgain, Goto
<1>13. ASSUME NEW d \in Deliveries, ResubmissionReturns(d)
      PROVE  Placed'
    BY <1>13 DEF ResubmissionReturns, Complete, Write, End, Goto, Unlock,
        LeaveTry
<1>14. ASSUME NEW d \in Deliveries, Abort(d)
      PROVE  Placed'
    BY <1>14 DEF Abort, End, Goto, Unlock, LeaveTry
<1>15. ASSUME NEW c \in Cleanups, BeginCleanup(c)
      PROVE  Placed'
    BY <1>15 DEF BeginCleanup, ToClean, Free
<1>16. ASSUME NEW c \in Cleanups, CleanupFails(c)
      PROVE  Placed'
    BY <1>16 DEF CleanupFails, Unlock
<1>17. ASSUME NEW c \in Cleanups, CommitCleanup(c)
      PROVE  Placed'
    BY <1>17 DEF CommitCleanup, Unlock
<1>18. ASSUME NEW c \in Cleanups, CancelOthers(c)
      PROVE  Placed'
    BY <1>18 DEF CancelOthers, Free
<1>19. ASSUME NEW c \in Cleanups, NEW a \in Actions, CleanupLooksUp(c, a)
      PROVE  Placed'
    BY <1>19 DEF CleanupLooksUp, Stage, Settled
<1>20. ASSUME NEW c \in Cleanups, NEW a \in Actions, Revoke(c, a)
      PROVE  Placed'
    BY <1>20 DEF Revoke, StageRevocation, Stage, Settled
<1>21. ASSUME NEW d \in Deliveries, NEW n \in {"first", "again"}, ProviderCreates(d, n)
      PROVE  Placed'
    BY <1>21 DEF ProviderCreates, Awaits
<1>22. ASSUME NEW d \in Deliveries, NEW n \in {"first", "again"}, ProviderRejects(d, n)
      PROVE  Placed'
    BY <1>22 DEF ProviderRejects, Awaits, End, Goto, Unlock, LeaveTry
<1>23. ASSUME NEW a \in Actions, NEW k \in {"paid", "expired"}, LinkSettles(a, k)
      PROVE  Placed'
    BY <1>23 DEF LinkSettles
<1>24. ASSUME NEW o \in Operators, NEW a \in Actions,
             NEW k \in {"APPROVE", "REJECT"}, OperatorReads(o, a, k)
      PROVE  Placed'
    BY <1>24 DEF OperatorReads
<1>25. ASSUME NEW o \in Operators, OperatorWrites(o)
      PROVE  Placed'
    BY <1>25 DEF OperatorWrites, Write, Free
<1>26. ASSUME NEW h \in {"operator", "payment"}, CloseCase(h)
      PROVE  Placed'
    BY <1>26 DEF CloseCase, Free
<1>27. ASSUME NEW a \in Actions, DueTimePasses(a)
      PROVE  Placed'
    BY <1>27 DEF DueTimePasses
<1> HIDE DEF Inv, TypeOK, Placed, Places
<1> QED BY <1>1, <1>2, <1>3, <1>4, <1>5, <1>6, <1>7, <1>8, <1>9, <1>10, <1>11,
        <1>12, <1>13, <1>14, <1>15, <1>16, <1>17, <1>18, <1>19, <1>20, <1>21,
        <1>22, <1>23, <1>24, <1>25, <1>26, <1>27
    DEF Next, ExecuteStep, CleanupStep, ProviderStep, OperatorStep

\* Nobody writes or takes the row of a delivery that reconciles.
LEMMA DeliveryHoldsStep ==
    ASSUME Inv, Next PROVE DeliveryHolds'
<1>0. /\ pc \in [Deliveries -> Places] /\ status \in [Actions -> Statuses]
      /\ lock \in [Actions -> Deliveries \cup Cleanups \cup {Nobody}]
      /\ target \in [Deliveries -> Actions \cup {Nobody}]
      /\ Placed /\ DeliveryHolds /\ CleanupHolds
    BY DEF Inv, TypeOK, Held, Linked
<1> USE ActionsAssumption
<1> USE <1>0 DEF Placed, DeliveryHolds, rowVars, fixedVars, deliveryVars,
            cleanupVars, providerVars
<1>1. ASSUME NEW d \in Deliveries, NEW a \in Actions, Claim(d, a)
      PROVE  DeliveryHolds'
    BY <1>1 DEF Claim, Goto, ClaimLeadsTo, Free
<1>2. ASSUME NEW d \in Deliveries, EnterTry(d)
      PROVE  DeliveryHolds'
    BY <1>2 DEF EnterTry, Goto
<1>3. ASSUME NEW d \in Deliveries, PostCreate(d)
      PROVE  DeliveryHolds'
    BY <1>3 DEF PostCreate, Goto
<1>4. ASSUME NEW d \in Deliveries, FetchSurface(d)
      PROVE  DeliveryHolds'
    BY <1>4 DEF FetchSurface, Goto, LeaveTry
<1>5. ASSUME NEW d \in Deliveries, CreateReturns(d)
      PROVE  DeliveryHolds'
    BY <1>5 DEF CreateReturns, Goto, LeaveTry
<1>6. ASSUME NEW d \in Deliveries, CreateUncertain(d)
      PROVE  DeliveryHolds'
    BY <1>6 DEF CreateUncertain, Goto
<1>7. ASSUME NEW d \in Deliveries, PersistSurface(d)
      PROVE  DeliveryHolds'
    BY <1>7 DEF PersistSurface, StoreSurface, Write, End, Goto, Unlock,
        LeaveTry, Free
<1>8. ASSUME NEW d \in Deliveries, Reconcile(d)
      PROVE  DeliveryHolds'
    BY <1>8 DEF Reconcile, LockRow, Goto, Free
<1>9. ASSUME NEW d \in Deliveries, NothingToReconcile(d)
      PROVE  DeliveryHolds'
    BY <1>9 DEF NothingToReconcile, End, Goto, Unlock, LeaveTry, Free
<1>10. ASSUME NEW d \in Deliveries, LookupFinds(d)
      PROVE  DeliveryHolds'
    BY <1>10 DEF LookupFinds, Found, Complete, Write, End, Goto, Unlock,
        LeaveTry
<1>11. ASSUME NEW d \in Deliveries, LookupAbsent(d)
      PROVE  DeliveryHolds'
    BY <1>11 DEF LookupAbsent, Goto
<1>12. ASSUME NEW d \in Deliveries, PostAgain(d)
      PROVE  DeliveryHolds'
    BY <1>12 DEF PostAgain, Goto
<1>13. ASSUME NEW d \in Deliveries, ResubmissionReturns(d)
      PROVE  DeliveryHolds'
    BY <1>13 DEF ResubmissionReturns, Complete, Write, End, Goto, Unlock,
        LeaveTry
<1>14. ASSUME NEW d \in Deliveries, Abort(d)
      PROVE  DeliveryHolds'
    BY <1>14 DEF Abort, End, Goto, Unlock, LeaveTry
<1>15. ASSUME NEW c \in Cleanups, BeginCleanup(c)
      PROVE  DeliveryHolds'
    BY <1>15 DEF BeginCleanup, ToClean, Free
<1>16. ASSUME NEW c \in Cleanups, CleanupFails(c)
      PROVE  DeliveryHolds'
    BY <1>16 DEF CleanupFails, Unlock
<1>17. ASSUME NEW c \in Cleanups, CommitCleanup(c)
      PROVE  DeliveryHolds'
    BY <1>17 DEF CommitCleanup, Unlock, CleanupHolds
<1>18. ASSUME NEW c \in Cleanups, CancelOthers(c)
      PROVE  DeliveryHolds'
  <2>1. \A a \in Actions : status[a] # "CANCELLED" => lock[a] = Nobody
    BY <1>18 DEF CancelOthers, Free
  <2>2. \A e \in Deliveries : pc[e] \notin Deciding
    BY <2>1
  <2>3. pc' = pc
    BY <1>18 DEF CancelOthers
  <2> QED BY <2>2, <2>3
<1>19. ASSUME NEW c \in Cleanups, NEW a \in Actions, CleanupLooksUp(c, a)
      PROVE  DeliveryHolds'
    BY <1>19 DEF CleanupLooksUp, Stage, Settled
<1>20. ASSUME NEW c \in Cleanups, NEW a \in Actions, Revoke(c, a)
      PROVE  DeliveryHolds'
    BY <1>20 DEF Revoke, StageRevocation, Stage, Settled
<1>21. ASSUME NEW d \in Deliveries, NEW n \in {"first", "again"}, ProviderCreates(d, n)
      PROVE  DeliveryHolds'
    BY <1>21 DEF ProviderCreates, Awaits
<1>22. ASSUME NEW d \in Deliveries, NEW n \in {"first", "again"}, ProviderRejects(d, n)
      PROVE  DeliveryHolds'
    BY <1>22 DEF ProviderRejects, Awaits, End, Goto, Unlock, LeaveTry
<1>23. ASSUME NEW a \in Actions, NEW k \in {"paid", "expired"}, LinkSettles(a, k)
      PROVE  DeliveryHolds'
    BY <1>23 DEF LinkSettles
<1>24. ASSUME NEW o \in Operators, NEW a \in Actions,
             NEW k \in {"APPROVE", "REJECT"}, OperatorReads(o, a, k)
      PROVE  DeliveryHolds'
    BY <1>24 DEF OperatorReads
<1>25. ASSUME NEW o \in Operators, OperatorWrites(o)
      PROVE  DeliveryHolds'
    BY <1>25 DEF OperatorWrites, Write, Free
<1>26. ASSUME NEW h \in {"operator", "payment"}, CloseCase(h)
      PROVE  DeliveryHolds'
    BY <1>26 DEF CloseCase, Free, Open
<1>27. ASSUME NEW a \in Actions, DueTimePasses(a)
      PROVE  DeliveryHolds'
    BY <1>27 DEF DueTimePasses
<1> HIDE DEF DeliveryHolds
<1> QED BY <1>1, <1>2, <1>3, <1>4, <1>5, <1>6, <1>7, <1>8, <1>9, <1>10, <1>11,
        <1>12, <1>13, <1>14, <1>15, <1>16, <1>17, <1>18, <1>19, <1>20, <1>21,
        <1>22, <1>23, <1>24, <1>25, <1>26, <1>27
    DEF Next, ExecuteStep, CleanupStep, ProviderStep, OperatorStep

\* Nobody writes or takes the rows of a cleanup.
LEMMA CleanupHoldsStep ==
    ASSUME Inv, Next PROVE CleanupHolds'
<1>0. /\ status \in [Actions -> Statuses]
      /\ lock \in [Actions -> Deliveries \cup Cleanups \cup {Nobody}]
      /\ Placed /\ DeliveryHolds /\ CleanupHolds
    BY DEF Inv, TypeOK, Held, Linked
<1> USE ActionsAssumption
<1> USE <1>0 DEF CleanupHolds, Standard, rowVars, fixedVars, deliveryVars,
            cleanupVars, providerVars
<1>a. /\ cleanup \in [Cleanups -> {"idle", "clean", "settled", "unresolved",
                                   "cancelled", "not cancelled"}]
      /\ todo \in [Cleanups -> SUBSET Actions]
      /\ staged \in [Cleanups -> [Actions -> Outcomes]]
    BY DEF Inv, TypeOK
<1>b. DOMAIN cleanup = Cleanups /\ DOMAIN todo = Cleanups /\ DOMAIN staged = Cleanups
    BY <1>a, Zenon
<1>c. \A x \in Cleanups : DOMAIN staged[x] = Actions
  <2>1. \A x \in Cleanups : staged[x] \in [Actions -> Outcomes]
    BY <1>a, Zenon
  <2> QED BY <2>1, Zenon
<1>1. ASSUME NEW d \in Deliveries, NEW a \in Actions, Claim(d, a)
      PROVE  CleanupHolds'
    BY <1>1 DEF Claim, Goto, ClaimLeadsTo, Free
<1>2. ASSUME NEW d \in Deliveries, EnterTry(d)
      PROVE  CleanupHolds'
    BY <1>2 DEF EnterTry, Goto
<1>3. ASSUME NEW d \in Deliveries, PostCreate(d)
      PROVE  CleanupHolds'
    BY <1>3 DEF PostCreate, Goto
<1>4. ASSUME NEW d \in Deliveries, FetchSurface(d)
      PROVE  CleanupHolds'
    BY <1>4 DEF FetchSurface, Goto, LeaveTry
<1>5. ASSUME NEW d \in Deliveries, CreateReturns(d)
      PROVE  CleanupHolds'
    BY <1>5 DEF CreateReturns, Goto, LeaveTry
<1>6. ASSUME NEW d \in Deliveries, CreateUncertain(d)
      PROVE  CleanupHolds'
    BY <1>6 DEF CreateUncertain, Goto
<1>7. ASSUME NEW d \in Deliveries, PersistSurface(d)
      PROVE  CleanupHolds'
    BY <1>7 DEF PersistSurface, StoreSurface, Write, End, Goto, Unlock,
        LeaveTry, Free
<1>8. ASSUME NEW d \in Deliveries, Reconcile(d)
      PROVE  CleanupHolds'
    BY <1>8 DEF Reconcile, LockRow, Goto, Free
<1>9. ASSUME NEW d \in Deliveries, NothingToReconcile(d)
      PROVE  CleanupHolds'
    BY <1>9 DEF NothingToReconcile, End, Goto, Unlock, LeaveTry, Free
<1>10. ASSUME NEW d \in Deliveries, LookupFinds(d)
      PROVE  CleanupHolds'
    BY <1>10 DEF LookupFinds, Found, Complete, Write, End, Goto, Unlock,
        LeaveTry, DeliveryHolds, Placed
<1>11. ASSUME NEW d \in Deliveries, LookupAbsent(d)
      PROVE  CleanupHolds'
    BY <1>11 DEF LookupAbsent, Goto
<1>12. ASSUME NEW d \in Deliveries, PostAgain(d)
      PROVE  CleanupHolds'
    BY <1>12 DEF PostAgain, Goto
<1>13. ASSUME NEW d \in Deliveries, ResubmissionReturns(d)
      PROVE  CleanupHolds'
    BY <1>13 DEF ResubmissionReturns, Complete, Write, End, Goto, Unlock,
        LeaveTry, DeliveryHolds, Placed
<1>14. ASSUME NEW d \in Deliveries, Abort(d)
      PROVE  CleanupHolds'
    BY <1>14 DEF Abort, End, Goto, Unlock, LeaveTry
<1>15. ASSUME NEW c \in Cleanups, BeginCleanup(c)
      PROVE  CleanupHolds'
  <2> SUFFICES ASSUME NEW x \in Cleanups, NEW b \in Actions,
                      b \in todo'[x] \/ staged'[x][b] # "keep"
               PROVE  /\ cleanup'[x] = "clean" /\ lock'[b] = x
                      /\ surface'[b] = "STANDARD_PAYMENT_LINK"
                      /\ status'[b] \in {"EXECUTING", "SUCCEEDED"}
    OBVIOUS
  <2>1. /\ UNCHANGED <<staged, status, surface>> /\ cleanup[c] = "idle"
        /\ todo' = [todo EXCEPT ![c] = ToClean]
        /\ cleanup' = [cleanup EXCEPT ![c] = "clean"]
    BY <1>15 DEF BeginCleanup
  <2>2. lock'[b] = IF b \in ToClean THEN c ELSE lock[b]
    BY <1>15 DEF BeginCleanup
  <2>3. b \in ToClean => lock[b] = Nobody
    BY <1>15 DEF BeginCleanup, Free
  <2>4. CASE x = c
    BY <1>b, <2>1, <2>2, <2>4 DEF ToClean
  <2>5. CASE x # c
    BY <1>b, <2>1, <2>2, <2>3, <2>5
  <2> QED BY <2>4, <2>5
<1>16. ASSUME NEW c \in Cleanups, CleanupFails(c)
      PROVE  CleanupHolds'
  <2> SUFFICES ASSUME NEW x \in Cleanups, NEW b \in Actions,
                      b \in todo'[x] \/ staged'[x][b] # "keep"
               PROVE  /\ cleanup'[x] = "clean" /\ lock'[b] = x
                      /\ surface'[b] = "STANDARD_PAYMENT_LINK"
                      /\ status'[b] \in {"EXECUTING", "SUCCEEDED"}
    OBVIOUS
  <2>1. /\ UNCHANGED <<status, surface>> /\ cleanup[c] = "clean"
        /\ \E next : cleanup' = [cleanup EXCEPT ![c] = next]
        /\ todo' = [todo EXCEPT ![c] = {}]
        /\ staged' = [staged EXCEPT ![c] = [e \in Actions |-> "keep"]]
    BY <1>16 DEF CleanupFails
  <2>2. lock'[b] = IF lock[b] = c THEN Nobody ELSE lock[b]
    BY <1>16 DEF CleanupFails, Unlock
  <2>3. x # c
    BY <1>b, <2>1
  <2> QED BY <1>b, <2>1, <2>2, <2>3
<1>17. ASSUME NEW c \in Cleanups, CommitCleanup(c)
      PROVE  CleanupHolds'
  <2> SUFFICES ASSUME NEW x \in Cleanups, NEW b \in Actions,
                      b \in todo'[x] \/ staged'[x][b] # "keep"
               PROVE  /\ cleanup'[x] = "clean" /\ lock'[b] = x
                      /\ surface'[b] = "STANDARD_PAYMENT_LINK"
                      /\ status'[b] \in {"EXECUTING", "SUCCEEDED"}
    OBVIOUS
  <2>1. /\ UNCHANGED <<todo, surface>> /\ todo[c] = {}
        /\ cleanup' = [cleanup EXCEPT ![c] = "settled"]
        /\ staged' = [staged EXCEPT ![c] = [e \in Actions |-> "keep"]]
    BY <1>17 DEF CommitCleanup
  <2>2. lock'[b] = IF lock[b] = c THEN Nobody ELSE lock[b]
    BY <1>17 DEF CommitCleanup, Unlock
  <2>3. x # c
    BY <1>b, <2>1
  <2>4. b \in todo[x] \/ staged[x][b] # "keep"
    BY <1>b, <2>1, <2>3
  <2>5. staged[c][b] = "keep" => status'[b] = status[b]
    BY <1>17 DEF CommitCleanup
  <2>6. lock[b] = x /\ staged[c][b] = "keep"
    BY <2>3, <2>4
  <2> QED BY <1>b, <2>1, <2>2, <2>3, <2>4, <2>5, <2>6
<1>18. ASSUME NEW c \in Cleanups, CancelOthers(c)
      PROVE  CleanupHolds'
  <2>1. \A a \in Actions : status[a] # "CANCELLED" => lock[a] = Nobody
    BY <1>18 DEF CancelOthers, Free
  <2>2. UNCHANGED <<todo, staged>>
    BY <1>18 DEF CancelOthers
  <2>3. \A x \in Cleanups, b \in Actions : b \notin todo[x] /\ staged[x][b] = "keep"
    BY <2>1
  <2> QED BY <2>2, <2>3
<1>19. ASSUME NEW c \in Cleanups, NEW a \in Actions, CleanupLooksUp(c, a)
      PROVE  CleanupHolds'
  <2> SUFFICES ASSUME NEW x \in Cleanups, NEW b \in Actions,
                      b \in todo'[x] \/ staged'[x][b] # "keep"
               PROVE  /\ cleanup'[x] = "clean" /\ lock'[b] = x
                      /\ surface'[b] = "STANDARD_PAYMENT_LINK"
                      /\ status'[b] \in {"EXECUTING", "SUCCEEDED"}
    OBVIOUS
  <2>1. /\ UNCHANGED <<status, surface, lock, cleanup>>
        /\ cleanup[c] = "clean" /\ a \in todo[c]
    BY <1>19 DEF CleanupLooksUp
  <2>2. b \in todo[x] \/ staged[x][b] # "keep"
    <3>1. b \in todo'[x] => b \in todo[x]
      BY <1>19, <1>b DEF CleanupLooksUp, Settled
    <3>2. PICK v : staged' = [staged EXCEPT ![c][a] = v]
      BY <1>19 DEF CleanupLooksUp, Stage
    <3>3. staged'[x][b] = staged[x][b] \/ (x = c /\ b = a)
      BY <3>2, <1>b, <1>c
    <3> QED BY <3>1, <3>3, <2>1
  <2> QED BY <2>1, <2>2
<1>20. ASSUME NEW c \in Cleanups, NEW a \in Actions, Revoke(c, a)
      PROVE  CleanupHolds'
  <2> SUFFICES ASSUME NEW x \in Cleanups, NEW b \in Actions,
                      b \in todo'[x] \/ staged'[x][b] # "keep"
               PROVE  /\ cleanup'[x] = "clean" /\ lock'[b] = x
                      /\ surface'[b] = "STANDARD_PAYMENT_LINK"
                      /\ status'[b] \in {"EXECUTING", "SUCCEEDED"}
    OBVIOUS
  <2>1. /\ UNCHANGED <<status, surface, lock, cleanup>>
        /\ cleanup[c] = "clean" /\ a \in todo[c]
    BY <1>20 DEF Revoke
  <2>2. b \in todo[x] \/ staged[x][b] # "keep"
    <3>1. b \in todo'[x] => b \in todo[x]
      BY <1>20, <1>b DEF Revoke, Settled
    <3>2. staged' = staged \/ staged' = [staged EXCEPT ![c][a] = "revoked"]
      BY <1>20 DEF Revoke, StageRevocation, Stage
    <3>3. staged'[x][b] = staged[x][b] \/ (x = c /\ b = a)
      BY <3>2, <1>b, <1>c
    <3> QED BY <3>1, <3>3, <2>1
  <2> QED BY <2>1, <2>2
<1>21. ASSUME NEW d \in Deliveries, NEW n \in {"first", "again"}, ProviderCreates(d, n)
      PROVE  CleanupHolds'
    BY <1>21 DEF ProviderCreates, Awaits
<1>22. ASSUME NEW d \in Deliveries, NEW n \in {"first", "again"}, ProviderRejects(d, n)
      PROVE  CleanupHolds'
    BY <1>22 DEF ProviderRejects, Awaits, End, Goto, Unlock, LeaveTry
<1>23. ASSUME NEW a \in Actions, NEW k \in {"paid", "expired"}, LinkSettles(a, k)
      PROVE  CleanupHolds'
    BY <1>23 DEF LinkSettles
<1>24. ASSUME NEW o \in Operators, NEW a \in Actions,
             NEW k \in {"APPROVE", "REJECT"}, OperatorReads(o, a, k)
      PROVE  CleanupHolds'
    BY <1>24 DEF OperatorReads
<1>25. ASSUME NEW o \in Operators, OperatorWrites(o)
      PROVE  CleanupHolds'
    BY <1>25 DEF OperatorWrites, Write, Free
<1>26. ASSUME NEW h \in {"operator", "payment"}, CloseCase(h)
      PROVE  CleanupHolds'
    BY <1>26 DEF CloseCase, Free, Open
<1>27. ASSUME NEW a \in Actions, DueTimePasses(a)
      PROVE  CleanupHolds'
    BY <1>27 DEF DueTimePasses
<1> HIDE DEF CleanupHolds, Standard
<1> QED BY <1>1, <1>2, <1>3, <1>4, <1>5, <1>6, <1>7, <1>8, <1>9, <1>10, <1>11,
        <1>12, <1>13, <1>14, <1>15, <1>16, <1>17, <1>18, <1>19, <1>20, <1>21,
        <1>22, <1>23, <1>24, <1>25, <1>26, <1>27
    DEF Next, ExecuteStep, CleanupStep, ProviderStep, OperatorStep

\* What is stored of a link stays true.
LEMMA RowsLinkedStep ==
    ASSUME Inv, Next PROVE RowsLinked'
<1>0. /\ status \in [Actions -> Statuses] /\ reference \in [Actions -> BOOLEAN]
      /\ link \in [Actions -> Links] /\ Placed
      /\ target \in [Deliveries -> Actions \cup {Nobody}]
      /\ RowsLinked /\ AnswersLinked /\ StagesLinked
    BY DEF Inv, TypeOK, Held, Linked
<1> USE ActionsAssumption
<1> USE <1>0 DEF RowsLinked, Standard, rowVars, fixedVars, deliveryVars,
            cleanupVars, providerVars
<1>1. ASSUME NEW d \in Deliveries, NEW a \in Actions, Claim(d, a)
      PROVE  RowsLinked'
    BY <1>1 DEF Claim, Goto, ClaimLeadsTo
<1>2. ASSUME NEW d \in Deliveries, EnterTry(d)
      PROVE  RowsLinked'
    BY <1>2 DEF EnterTry, Goto
<1>3. ASSUME NEW d \in Deliveries, PostCreate(d)
      PROVE  RowsLinked'
    BY <1>3 DEF PostCreate, Goto
<1>4. ASSUME NEW d \in Deliveries, FetchSurface(d)
      PROVE  RowsLinked'
    BY <1>4 DEF FetchSurface, Goto, LeaveTry
<1>5. ASSUME NEW d \in Deliveries, CreateReturns(d)
      PROVE  RowsLinked'
    BY <1>5 DEF CreateReturns, Goto, LeaveTry
<1>6. ASSUME NEW d \in Deliveries, CreateUncertain(d)
      PROVE  RowsLinked'
    BY <1>6 DEF CreateUncertain, Goto
<1>7. ASSUME NEW d \in Deliveries, PersistSurface(d)
      PROVE  RowsLinked'
    BY <1>7 DEF PersistSurface, StoreSurface, Write, End, Goto, Unlock,
        LeaveTry, Free, AnswersLinked, Placed
<1>8. ASSUME NEW d \in Deliveries, Reconcile(d)
      PROVE  RowsLinked'
    BY <1>8 DEF Reconcile, LockRow, Goto, Free
<1>9. ASSUME NEW d \in Deliveries, NothingToReconcile(d)
      PROVE  RowsLinked'
    BY <1>9 DEF NothingToReconcile, End, Goto, Unlock, LeaveTry, Free
<1>10. ASSUME NEW d \in Deliveries, LookupFinds(d)
      PROVE  RowsLinked'
    BY <1>10 DEF LookupFinds, Found, Complete, Write, End, Goto, Unlock,
        LeaveTry, Placed
<1>11. ASSUME NEW d \in Deliveries, LookupAbsent(d)
      PROVE  RowsLinked'
    BY <1>11 DEF LookupAbsent, Goto
<1>12. ASSUME NEW d \in Deliveries, PostAgain(d)
      PROVE  RowsLinked'
    BY <1>12 DEF PostAgain, Goto
<1>13. ASSUME NEW d \in Deliveries, ResubmissionReturns(d)
      PROVE  RowsLinked'
    BY <1>13 DEF ResubmissionReturns, Complete, Write, End, Goto, Unlock,
        LeaveTry, AnswersLinked, Placed
<1>14. ASSUME NEW d \in Deliveries, Abort(d)
      PROVE  RowsLinked'
    BY <1>14 DEF Abort, End, Goto, Unlock, LeaveTry
<1>15. ASSUME NEW c \in Cleanups, BeginCleanup(c)
      PROVE  RowsLinked'
    BY <1>15 DEF BeginCleanup, ToClean, Free
<1>16. ASSUME NEW c \in Cleanups, CleanupFails(c)
      PROVE  RowsLinked'
    BY <1>16 DEF CleanupFails, Unlock
<1>17. ASSUME NEW c \in Cleanups, CommitCleanup(c)
      PROVE  RowsLinked'
    BY <1>17 DEF CommitCleanup, Unlock, StagesLinked
<1>18. ASSUME NEW c \in Cleanups, CancelOthers(c)
      PROVE  RowsLinked'
    BY <1>18 DEF CancelOthers, Free
<1>19. ASSUME NEW c \in Cleanups, NEW a \in Actions, CleanupLooksUp(c, a)
      PROVE  RowsLinked'
    BY <1>19 DEF CleanupLooksUp, Stage, Settled
<1>20. ASSUME NEW c \in Cleanups, NEW a \in Actions, Revoke(c, a)
      PROVE  RowsLinked'
    BY <1>20 DEF Revoke, StageRevocation, Stage, Settled
<1>21. ASSUME NEW d \in Deliveries, NEW n \in {"first", "again"}, ProviderCreates(d, n)
      PROVE  RowsLinked'
    BY <1>21 DEF ProviderCreates, Awaits
<1>22. ASSUME NEW d \in Deliveries, NEW n \in {"first", "again"}, ProviderRejects(d, n)
      PROVE  RowsLinked'
    BY <1>22 DEF ProviderRejects, Awaits, End, Goto, Unlock, LeaveTry
<1>23. ASSUME NEW a \in Actions, NEW k \in {"paid", "expired"}, LinkSettles(a, k)
      PROVE  RowsLinked'
    BY <1>23 DEF LinkSettles
<1>24. ASSUME NEW o \in Operators, NEW a \in Actions,
             NEW k \in {"APPROVE", "REJECT"}, OperatorReads(o, a, k)
      PROVE  RowsLinked'
    BY <1>24 DEF OperatorReads
<1>25. ASSUME NEW o \in Operators, OperatorWrites(o)
      PROVE  RowsLinked'
    BY <1>25 DEF OperatorWrites, Write, Free
<1>26. ASSUME NEW h \in {"operator", "payment"}, CloseCase(h)
      PROVE  RowsLinked'
    BY <1>26 DEF CloseCase, Free
<1>27. ASSUME NEW a \in Actions, DueTimePasses(a)
      PROVE  RowsLinked'
    BY <1>27 DEF DueTimePasses
<1> HIDE DEF RowsLinked, Standard
<1> QED BY <1>1, <1>2, <1>3, <1>4, <1>5, <1>6, <1>7, <1>8, <1>9, <1>10, <1>11,
        <1>12, <1>13, <1>14, <1>15, <1>16, <1>17, <1>18, <1>19, <1>20, <1>21,
        <1>22, <1>23, <1>24, <1>25, <1>26, <1>27
    DEF Next, ExecuteStep, CleanupStep, ProviderStep, OperatorStep

\* A link a delivery was answered about stays.
LEMMA AnswersLinkedStep ==
    ASSUME Inv, Next PROVE AnswersLinked'
<1>0. /\ link \in [Actions -> Links] /\ Placed
      /\ pc \in [Deliveries -> Places]
      /\ target \in [Deliveries -> Actions \cup {Nobody}]
      /\ RowsLinked /\ AnswersLinked /\ StagesLinked
    BY DEF Inv, TypeOK, Held, Linked
<1> USE ActionsAssumption
<1> USE <1>0 DEF AnswersLinked, Standard, rowVars, fixedVars, deliveryVars,
            cleanupVars, providerVars
<1>1. ASSUME NEW d \in Deliveries, NEW a \in Actions, Claim(d, a)
      PROVE  AnswersLinked'
    BY <1>1 DEF Claim, Goto, ClaimLeadsTo
<1>2. ASSUME NEW d \in Deliveries, EnterTry(d)
      PROVE  AnswersLinked'
    BY <1>2 DEF EnterTry, Goto
<1>3. ASSUME NEW d \in Deliveries, PostCreate(d)
      PROVE  AnswersLinked'
    BY <1>3 DEF PostCreate, Goto
<1>4. ASSUME NEW d \in Deliveries, FetchSurface(d)
      PROVE  AnswersLinked'
    BY <1>4 DEF FetchSurface, Goto, LeaveTry
<1>5. ASSUME NEW d \in Deliveries, CreateReturns(d)
      PROVE  AnswersLinked'
    BY <1>5 DEF CreateReturns, Goto, LeaveTry
<1>6. ASSUME NEW d \in Deliveries, CreateUncertain(d)
      PROVE  AnswersLinked'
    BY <1>6 DEF CreateUncertain, Goto
<1>7. ASSUME NEW d \in Deliveries, PersistSurface(d)
      PROVE  AnswersLinked'
    BY <1>7 DEF PersistSurface, StoreSurface, Write, End, Goto, Unlock,
        LeaveTry, Free
<1>8. ASSUME NEW d \in Deliveries, Reconcile(d)
      PROVE  AnswersLinked'
    BY <1>8 DEF Reconcile, LockRow, Goto, Free
<1>9. ASSUME NEW d \in Deliveries, NothingToReconcile(d)
      PROVE  AnswersLinked'
    BY <1>9 DEF NothingToReconcile, End, Goto, Unlock, LeaveTry, Free
<1>10. ASSUME NEW d \in Deliveries, LookupFinds(d)
      PROVE  AnswersLinked'
    BY <1>10 DEF LookupFinds, Found, Complete, Write, End, Goto, Unlock,
        LeaveTry
<1>11. ASSUME NEW d \in Deliveries, LookupAbsent(d)
      PROVE  AnswersLinked'
    BY <1>11 DEF LookupAbsent, Goto
<1>12. ASSUME NEW d \in Deliveries, PostAgain(d)
      PROVE  AnswersLinked'
    BY <1>12 DEF PostAgain, Goto
<1>13. ASSUME NEW d \in Deliveries, ResubmissionReturns(d)
      PROVE  AnswersLinked'
    BY <1>13 DEF ResubmissionReturns, Complete, Write, End, Goto, Unlock,
        LeaveTry
<1>14. ASSUME NEW d \in Deliveries, Abort(d)
      PROVE  AnswersLinked'
    BY <1>14 DEF Abort, End, Goto, Unlock, LeaveTry
<1>15. ASSUME NEW c \in Cleanups, BeginCleanup(c)
      PROVE  AnswersLinked'
    BY <1>15 DEF BeginCleanup, ToClean, Free
<1>16. ASSUME NEW c \in Cleanups, CleanupFails(c)
      PROVE  AnswersLinked'
    BY <1>16 DEF CleanupFails, Unlock
<1>17. ASSUME NEW c \in Cleanups, CommitCleanup(c)
      PROVE  AnswersLinked'
    BY <1>17 DEF CommitCleanup, Unlock
<1>18. ASSUME NEW c \in Cleanups, CancelOthers(c)
      PROVE  AnswersLinked'
    BY <1>18 DEF CancelOthers, Free
<1>19. ASSUME NEW c \in Cleanups, NEW a \in Actions, CleanupLooksUp(c, a)
      PROVE  AnswersLinked'
    BY <1>19 DEF CleanupLooksUp, Stage, Settled
<1>20. ASSUME NEW c \in Cleanups, NEW a \in Actions, Revoke(c, a)
      PROVE  AnswersLinked'
    BY <1>20 DEF Revoke, StageRevocation, Stage, Settled
<1>21. ASSUME NEW d \in Deliveries, NEW n \in {"first", "again"}, ProviderCreates(d, n)
      PROVE  AnswersLinked'
    BY <1>21 DEF ProviderCreates, Awaits, Placed
<1>22. ASSUME NEW d \in Deliveries, NEW n \in {"first", "again"}, ProviderRejects(d, n)
      PROVE  AnswersLinked'
    BY <1>22 DEF ProviderRejects, Awaits, End, Goto, Unlock, LeaveTry
<1>23. ASSUME NEW a \in Actions, NEW k \in {"paid", "expired"}, LinkSettles(a, k)
      PROVE  AnswersLinked'
    BY <1>23 DEF LinkSettles
<1>24. ASSUME NEW o \in Operators, NEW a \in Actions,
             NEW k \in {"APPROVE", "REJECT"}, OperatorReads(o, a, k)
      PROVE  AnswersLinked'
    BY <1>24 DEF OperatorReads
<1>25. ASSUME NEW o \in Operators, OperatorWrites(o)
      PROVE  AnswersLinked'
    BY <1>25 DEF OperatorWrites, Write, Free
<1>26. ASSUME NEW h \in {"operator", "payment"}, CloseCase(h)
      PROVE  AnswersLinked'
    BY <1>26 DEF CloseCase, Free
<1>27. ASSUME NEW a \in Actions, DueTimePasses(a)
      PROVE  AnswersLinked'
    BY <1>27 DEF DueTimePasses
<1> HIDE DEF AnswersLinked, Standard
<1> QED BY <1>1, <1>2, <1>3, <1>4, <1>5, <1>6, <1>7, <1>8, <1>9, <1>10, <1>11,
        <1>12, <1>13, <1>14, <1>15, <1>16, <1>17, <1>18, <1>19, <1>20, <1>21,
        <1>22, <1>23, <1>24, <1>25, <1>26, <1>27
    DEF Next, ExecuteStep, CleanupStep, ProviderStep, OperatorStep

\* What a cleanup has learnt stays true until it commits.
LEMMA StagesLinkedStep ==
    ASSUME Inv, Next PROVE StagesLinked'
<1>0. /\ reference \in [Actions -> BOOLEAN] /\ link \in [Actions -> Links]
      /\ staged \in [Cleanups -> [Actions -> Outcomes]]
      /\ lock \in [Actions -> Deliveries \cup Cleanups \cup {Nobody}]
      /\ target \in [Deliveries -> Actions \cup {Nobody}]
      /\ Placed /\ DeliveryHolds /\ CleanupHolds /\ RowsLinked /\ StagesLinked
    BY DEF Inv, TypeOK, Held, Linked
<1> USE ActionsAssumption
<1> USE <1>0 DEF StagesLinked, rowVars, fixedVars, deliveryVars, cleanupVars,
            providerVars
<1>1. ASSUME NEW d \in Deliveries, NEW a \in Actions, Claim(d, a)
      PROVE  StagesLinked'
    BY <1>1 DEF Claim, Goto, ClaimLeadsTo
<1>2. ASSUME NEW d \in Deliveries, EnterTry(d)
      PROVE  StagesLinked'
    BY <1>2 DEF EnterTry, Goto
<1>3. ASSUME NEW d \in Deliveries, PostCreate(d)
      PROVE  StagesLinked'
    BY <1>3 DEF PostCreate, Goto
<1>4. ASSUME NEW d \in Deliveries, FetchSurface(d)
      PROVE  StagesLinked'
    BY <1>4 DEF FetchSurface, Goto, LeaveTry
<1>5. ASSUME NEW d \in Deliveries, CreateReturns(d)
      PROVE  StagesLinked'
    BY <1>5 DEF CreateReturns, Goto, LeaveTry
<1>6. ASSUME NEW d \in Deliveries, CreateUncertain(d)
      PROVE  StagesLinked'
    BY <1>6 DEF CreateUncertain, Goto
<1>7. ASSUME NEW d \in Deliveries, PersistSurface(d)
      PROVE  StagesLinked'
    BY <1>7 DEF PersistSurface, StoreSurface, Write, End, Goto, Unlock,
        LeaveTry, Free, CleanupHolds
<1>8. ASSUME NEW d \in Deliveries, Reconcile(d)
      PROVE  StagesLinked'
    BY <1>8 DEF Reconcile, LockRow, Goto, Free
<1>9. ASSUME NEW d \in Deliveries, NothingToReconcile(d)
      PROVE  StagesLinked'
    BY <1>9 DEF NothingToReconcile, End, Goto, Unlock, LeaveTry, Free
<1>10. ASSUME NEW d \in Deliveries, LookupFinds(d)
      PROVE  StagesLinked'
    BY <1>10 DEF LookupFinds, Found, Complete, Write, End, Goto, Unlock,
        LeaveTry, CleanupHolds, DeliveryHolds, Placed
<1>11. ASSUME NEW d \in Deliveries, LookupAbsent(d)
      PROVE  StagesLinked'
    BY <1>11 DEF LookupAbsent, Goto
<1>12. ASSUME NEW d \in Deliveries, PostAgain(d)
      PROVE  StagesLinked'
    BY <1>12 DEF PostAgain, Goto
<1>13. ASSUME NEW d \in Deliveries, ResubmissionReturns(d)
      PROVE  StagesLinked'
    BY <1>13 DEF ResubmissionReturns, Complete, Write, End, Goto, Unlock,
        LeaveTry, CleanupHolds, DeliveryHolds, Placed
<1>14. ASSUME NEW d \in Deliveries, Abort(d)
      PROVE  StagesLinked'
    BY <1>14 DEF Abort, End, Goto, Unlock, LeaveTry
<1>15. ASSUME NEW c \in Cleanups, BeginCleanup(c)
      PROVE  StagesLinked'
    BY <1>15 DEF BeginCleanup, ToClean, Free
<1>16. ASSUME NEW c \in Cleanups, CleanupFails(c)
      PROVE  StagesLinked'
    BY <1>16 DEF CleanupFails, Unlock
<1>17. ASSUME NEW c \in Cleanups, CommitCleanup(c)
      PROVE  StagesLinked'
    BY <1>17 DEF CommitCleanup, Unlock, CleanupHolds
<1>18. ASSUME NEW c \in Cleanups, CancelOthers(c)
      PROVE  StagesLinked'
    BY <1>18 DEF CancelOthers, Free
<1>19. ASSUME NEW c \in Cleanups, NEW a \in Actions, CleanupLooksUp(c, a)
      PROVE  StagesLinked'
    BY <1>19 DEF CleanupLooksUp, Stage, Settled
<1>20. ASSUME NEW c \in Cleanups, NEW a \in Actions, Revoke(c, a)
      PROVE  StagesLinked'
    BY <1>20 DEF Revoke, StageRevocation, Stage, Settled, Links, RowsLinked,
        CleanupHolds
<1>21. ASSUME NEW d \in Deliveries, NEW n \in {"first", "again"}, ProviderCreates(d, n)
      PROVE  StagesLinked'
    BY <1>21 DEF ProviderCreates, Awaits
<1>22. ASSUME NEW d \in Deliveries, NEW n \in {"first", "again"}, ProviderRejects(d, n)
      PROVE  StagesLinked'
    BY <1>22 DEF ProviderRejects, Awaits, End, Goto, Unlock, LeaveTry
<1>23. ASSUME NEW a \in Actions, NEW k \in {"paid", "expired"}, LinkSettles(a, k)
      PROVE  StagesLinked'
    BY <1>23 DEF LinkSettles
<1>24. ASSUME NEW o \in Operators, NEW a \in Actions,
             NEW k \in {"APPROVE", "REJECT"}, OperatorReads(o, a, k)
      PROVE  StagesLinked'
    BY <1>24 DEF OperatorReads
<1>25. ASSUME NEW o \in Operators, OperatorWrites(o)
      PROVE  StagesLinked'
    BY <1>25 DEF OperatorWrites, Write, Free
<1>26. ASSUME NEW h \in {"operator", "payment"}, CloseCase(h)
      PROVE  StagesLinked'
    BY <1>26 DEF CloseCase, Free
<1>27. ASSUME NEW a \in Actions, DueTimePasses(a)
      PROVE  StagesLinked'
    BY <1>27 DEF DueTimePasses
<1> HIDE DEF StagesLinked
<1> QED BY <1>1, <1>2, <1>3, <1>4, <1>5, <1>6, <1>7, <1>8, <1>9, <1>10, <1>11,
        <1>12, <1>13, <1>14, <1>15, <1>16, <1>17, <1>18, <1>19, <1>20, <1>21,
        <1>22, <1>23, <1>24, <1>25, <1>26, <1>27
    DEF Next, ExecuteStep, CleanupStep, ProviderStep, OperatorStep

\* Inv holds in every reachable state.
THEOREM Invariance == Spec => []Inv
<1>1. Inv /\ [Next]_vars => Inv'
  <2> SUFFICES ASSUME Inv, [Next]_vars PROVE Inv'
    OBVIOUS
  <2>1. CASE Next
    <3>1. TypeOK' /\ Placed' /\ DeliveryHolds' /\ CleanupHolds'
      BY <2>1, TypeStep, PlacedStep, DeliveryHoldsStep, CleanupHoldsStep, Zenon
    <3>2. RowsLinked' /\ AnswersLinked' /\ StagesLinked'
      BY <2>1, RowsLinkedStep, AnswersLinkedStep, StagesLinkedStep, Zenon
    <3> QED BY <3>1, <3>2, Zenon DEF Inv, Held, Linked
  <2>2. CASE UNCHANGED vars
    <3> USE <2>2 DEF vars, rowVars, fixedVars, deliveryVars, cleanupVars, providerVars,
            historyVars
    <3>1. TypeOK' /\ Placed'
      BY Zenon DEF Inv, TypeOK, Placed
    <3>2. Held'
      BY Zenon DEF Inv, Held, DeliveryHolds, CleanupHolds, Standard
    <3>3. Linked'
      BY Zenon DEF Inv, Linked, RowsLinked, AnswersLinked, StagesLinked, Standard
    <3> QED BY <3>1, <3>2, <3>3, Zenon DEF Inv
  <2> QED BY <2>1, <2>2
<1> QED BY <1>1, InitInv, PTL DEF Spec

\* The state of the rows, the deliveries and the provider is well typed.
THEOREM TypeCorrect == Spec => []TypeOK
<1>1. Inv => TypeOK
    BY DEF Inv
<1> QED BY <1>1, Invariance, PTL

\* A completed payment-link action names a link that the provider has: what a
\* create, a lookup or a cleanup wrote into the row was true then and stays so.
THEOREM SucceededIsLinked == Spec => []SucceededHasLink
<1>1. Inv => SucceededHasLink
    BY DEF Inv, Linked, RowsLinked, SucceededHasLink, Standard
<1> QED BY <1>1, Invariance, PTL

\* The row lock lets one delivery or cleanup at a time decide what became of
\* an action's create.
THEOREM OneDecider == Spec => []OneDecides
<1>1. Inv => OneDecides
  <2> SUFFICES ASSUME Inv, NEW d \in Deliveries, NEW e \in Deliveries,
                      d # e, target[d] = target[e], pc[d] \in Deciding
               PROVE  /\ pc[e] \notin Deciding
                      /\ \A c \in Cleanups : cleanup[c] = "clean" => target[d] \notin todo[c]
    BY DEF OneDecides
  <2>1. lock[target[d]] = d
    BY DEF Inv, Held, DeliveryHolds
  <2>2. pc[e] \in Deciding => lock[target[e]] = e
    BY DEF Inv, Held, DeliveryHolds
  <2>3. target[d] \in Actions
    BY DEF Inv, Placed
  <2>4. \A c \in Cleanups : target[d] \in todo[c] => lock[target[d]] = c
    BY <2>3 DEF Inv, Held, CleanupHolds
  <2>5. \A c \in Cleanups : d # c
    BY ActionsAssumption
  <2> QED BY <2>1, <2>2, <2>4, <2>5
<1> QED BY <1>1, Invariance, PTL

\* Who changes a status, and how: a claim, a persisted or reconciled create, a
\* committed cleanup, the cancellation of the rest, an operator, a closed case.
LEMMA WhoWrites ==
    ASSUME Inv, Next, UNCHANGED seen, NEW a \in Actions, status'[a] # status[a]
    PROVE  \/ status[a] \in Open
           \/ \E c \in Cleanups : CommitCleanup(c)
<1>0. /\ status \in [Actions -> Statuses] /\ Placed /\ DeliveryHolds
      /\ seen \in [Operators -> [command : {"APPROVE", "REJECT"}, action : Actions]
                                \cup {NoRead}]
    BY DEF Inv, TypeOK, Held
<1>2. ASSUME NEW d \in Deliveries, ExecuteStep(d) PROVE status[a] \in Open
  <2>1. ASSUME NEW e \in Actions, Claim(d, e) PROVE status[a] \in Open
    <3>1. /\ ClaimLeadsTo(d, e) = "claimed"
          /\ status' = [status EXCEPT ![e] = "EXECUTING"]
      BY <2>1 DEF Claim
    <3>2. Claimable(e)
      BY <3>1 DEF ClaimLeadsTo
    <3>3. status[e] \in Open
      BY <3>2 DEF Claimable, Open
    <3> QED BY <3>1, <3>3, <1>0
  <2>2. ASSUME PersistSurface(d) PROVE status[a] \in Open
    <3>1. StoreSurface(d)
      BY <2>2 DEF PersistSurface
    <3>2. target[d] = a /\ status[a] \notin {"CANCELLED", "SUCCEEDED"}
      BY <3>1, <1>0 DEF StoreSurface, Write
    <3> QED BY <3>2, <1>0 DEF Statuses
  <2>3. ASSUME pc[d] \in Deciding, Write(target[d], "SUCCEEDED")
        PROVE  status[a] \in Open
    <3>1. target[d] = a
      BY <2>3, <1>0 DEF Write
    <3>2. status[target[d]] = "EXECUTING"
      BY <2>3, <1>0 DEF DeliveryHolds
    <3> QED BY <3>1, <3>2 DEF Open
  <2>4. LookupFinds(d) \/ ResubmissionReturns(d)
        => pc[d] \in Deciding /\ Write(target[d], "SUCCEEDED")
    BY DEF LookupFinds, Found, ResubmissionReturns, Complete
  <2>5. \/ EnterTry(d) \/ PostCreate(d) \/ FetchSurface(d) \/ CreateReturns(d)
        \/ CreateUncertain(d) \/ Reconcile(d) \/ NothingToReconcile(d)
        \/ LookupAbsent(d) \/ PostAgain(d) \/ Abort(d)
        => UNCHANGED status
    BY DEF EnterTry, PostCreate, FetchSurface, CreateReturns, CreateUncertain,
        Reconcile, NothingToReconcile, LookupAbsent, PostAgain, Abort, rowVars
  <2> QED BY <1>2, <2>1, <2>2, <2>3, <2>4, <2>5, Zenon DEF ExecuteStep
<1>3. ASSUME NEW c \in Cleanups, CleanupStep(c)
      PROVE  status[a] \in Open \/ CommitCleanup(c)
  <2>1. CancelOthers(c) => status[a] \in Open
    BY DEF CancelOthers
  <2>2. \/ BeginCleanup(c) \/ CleanupFails(c)
        \/ \E e \in Actions : CleanupLooksUp(c, e) \/ Revoke(c, e)
        => UNCHANGED status
    BY DEF BeginCleanup, CleanupFails, CleanupLooksUp, Revoke, rowVars
  <2> QED BY <1>3, <2>1, <2>2, Zenon DEF CleanupStep
<1>4. ProviderStep => UNCHANGED status
    BY DEF ProviderStep, ProviderCreates, ProviderRejects, LinkSettles, rowVars
<1>5. ASSUME NEW o \in Operators, OperatorStep(o) PROVE UNCHANGED status
  <2>1. ~OperatorWrites(o)
    BY <1>0 DEF OperatorWrites
  <2> QED BY <1>5, <2>1 DEF OperatorStep, OperatorReads, rowVars
<1>6. ASSUME NEW how \in {"operator", "payment"}, CloseCase(how)
      PROVE  status[a] \in Open
    BY <1>6 DEF CloseCase
<1>7. (\E e \in Actions : DueTimePasses(e)) => UNCHANGED status
    BY DEF DueTimePasses
<1> QED BY <1>2, <1>3, <1>4, <1>5, <1>6, <1>7, Zenon DEF Next

\* What the system cancelled stays cancelled: a late create, a late lookup or
\* a cleanup that commits afterwards does not complete the action again.
THEOREM CancelledIsFinal == Spec => CancelledStays
<1>1. ASSUME Inv, [Next]_vars, UNCHANGED seen, NEW a \in Actions, status[a] = "CANCELLED"
      PROVE  status'[a] = "CANCELLED"
  <2>1. CASE UNCHANGED vars
    BY <1>1, <2>1 DEF vars, rowVars
  <2>2. ASSUME NEW c \in Cleanups, CommitCleanup(c) PROVE status'[a] = status[a]
    <3>1. staged[c][a] = "keep"
      BY <1>1 DEF Inv, Held, CleanupHolds
    <3> QED BY <2>2, <3>1 DEF CommitCleanup
  <2>3. status[a] \notin Open
    BY <1>1 DEF Open
  <2>4. CASE Next
    BY <1>1, <2>2, <2>3, <2>4, WhoWrites
  <2> QED BY <1>1, <2>1, <2>4
<1>2. Inv /\ [Next]_vars =>
        [\A a \in Actions :
           status[a] = "CANCELLED" /\ seen' = seen => status'[a] = "CANCELLED"]_vars
    BY <1>1
<1> QED BY <1>2, Invariance, PTL DEF Spec, CancelledStays

\* A completed payment-link action is cancelled only when its link is dead.
THEOREM CancelsDeadLinks == Spec => CancelledOnceDead
<1>1. ASSUME Inv, [Next]_vars, UNCHANGED seen, NEW a \in Standard,
             status[a] = "SUCCEEDED", status'[a] = "CANCELLED"
      PROVE  link[a] \in {"cancelled", "expired"}
  <2>0. a \in Actions
    BY DEF Standard
  <2>1. Next
    BY <1>1 DEF vars, rowVars
  <2>2. PICK c \in Cleanups : CommitCleanup(c)
    BY <1>1, <2>0, <2>1, WhoWrites DEF Open
  <2>3. staged[c][a] \in Outcomes
    BY <1>1, <2>0 DEF Inv, TypeOK
  <2>4. staged[c][a] \notin {"keep", "found"}
    BY <1>1, <2>0, <2>2 DEF CommitCleanup
  <2>5. staged[c][a] # "absent"
    BY <1>1, <2>0 DEF Inv, Linked, RowsLinked, StagesLinked
  <2>6. staged[c][a] = "revoked"
    BY <2>3, <2>4, <2>5 DEF Outcomes
  <2> QED BY <1>1, <2>0, <2>6 DEF Inv, Linked, StagesLinked
<1>2. Inv /\ [Next]_vars =>
        [\A a \in Standard :
           /\ status[a] = "SUCCEEDED" /\ status'[a] = "CANCELLED"
           /\ seen' = seen
           => link[a] \in {"cancelled", "expired"}]_vars
    BY <1>1
<1> QED BY <1>2, Invariance, PTL DEF Spec, CancelledOnceDead

----------------------------------------------------------------------------
(* The first create.  What may still send one is an action that can be      *)
(* claimed, and a delivery that claimed it and has not posted: with the     *)
(* creates already sent they are never more than what was authorized.       *)
(* Only an approval makes an action claimable again, and it is counted.     *)

First == {"claimed", "preflight"}
Posting(a) == {d \in Deliveries : target[d] = a /\ pc[d] \in First}
Ready(a) == IF status[a] \in {"PROPOSED", "SCHEDULED"} THEN 1 ELSE 0
Manual(a) == disposition[a] = "REQUIRE_MANUAL_APPROVAL"

WithinBudget(a) ==
    /\ IsFiniteSet(Posting(a))
    /\ blind[a] + Cardinality(Posting(a)) + Ready(a) <= Authorized(a)
ApprovalIsManual ==
    /\ \A a \in Actions : status[a] = "AWAITING_APPROVAL" => Manual(a)
    /\ \A o \in Operators :
           seen[o] # NoRead /\ seen[o].command = "APPROVE" => Manual(seen[o].action)
BudgetInv == ApprovalIsManual /\ \A a \in Actions : WithinBudget(a)

\* A step that begins no delivery, sends no first create and is no operator's.
Settles ==
    /\ UNCHANGED <<disposition, target, seen, blind, approvals>>
    /\ \A d \in Deliveries : pc'[d] \in First => pc[d] \in First
    /\ \A a \in Actions :
           status'[a] \in {"PROPOSED", "AWAITING_APPROVAL", "SCHEDULED"}
           => status'[a] = status[a]

\* What is counted is a number.
LEMMA BudgetTypes ==
    ASSUME Inv, BudgetInv, NEW a \in Actions
    PROVE  /\ blind[a] \in Nat /\ Cardinality(Posting(a)) \in Nat
           /\ Ready(a) \in {0, 1} /\ Authorized(a) \in Nat
<1>1. blind[a] \in Nat /\ approvals[a] \in Nat
  BY DEF Inv, TypeOK
<1>2. Cardinality(Posting(a)) \in Nat
  BY FS_CardinalityType DEF BudgetInv, WithinBudget
<1> QED BY <1>1, <1>2 DEF Ready, Authorized

\* Such a step leaves at most what was there.
LEMMA SettlesBudget ==
    ASSUME Inv, BudgetInv, Settles
    PROVE  BudgetInv'
<1>1. ASSUME NEW a \in Actions PROVE WithinBudget(a)'
  <2>1. IsFiniteSet(Posting(a)) /\ Posting(a)' \subseteq Posting(a)
    BY DEF BudgetInv, WithinBudget, Posting, Settles
  <2>2. /\ IsFiniteSet(Posting(a)') /\ Cardinality(Posting(a)') \in Nat
        /\ Cardinality(Posting(a)') <= Cardinality(Posting(a))
    BY <2>1, FS_Subset, FS_CardinalityType
  <2>3. Ready(a)' \in {0, 1} /\ Ready(a)' <= Ready(a)
    BY DEF Ready, Settles
  <2>4. blind'[a] = blind[a] /\ Authorized(a)' = Authorized(a)
    BY DEF Settles, Authorized
  <2>5. blind[a] + Cardinality(Posting(a)) + Ready(a) <= Authorized(a)
    BY DEF BudgetInv, WithinBudget
  <2>6. blind'[a] + Cardinality(Posting(a)') + Ready(a)' <= Authorized(a)'
    BY <2>2, <2>3, <2>4, <2>5, BudgetTypes
  <2> QED BY <2>2, <2>6 DEF WithinBudget
<1>2. ApprovalIsManual'
  BY DEF BudgetInv, ApprovalIsManual, Manual, Settles
<1> QED BY <1>1, <1>2 DEF BudgetInv

\* Where the steps of a delivery lead, and what they write.
LEMMA DeliverySettles ==
    ASSUME Inv, NEW d \in Deliveries,
           \/ EnterTry(d) \/ FetchSurface(d) \/ CreateReturns(d) \/ CreateUncertain(d)
           \/ PersistSurface(d) \/ Reconcile(d) \/ NothingToReconcile(d) \/ LookupFinds(d)
           \/ LookupAbsent(d) \/ PostAgain(d) \/ ResubmissionReturns(d) \/ Abort(d)
    PROVE  Settles
<1>0. pc \in [Deliveries -> Places] /\ status \in [Actions -> Statuses]
  BY DEF Inv, TypeOK
<1>1. UNCHANGED <<disposition, target, seen, blind, approvals>>
  BY DEF EnterTry, FetchSurface, CreateReturns, CreateUncertain, PersistSurface, Reconcile,
         NothingToReconcile, LookupFinds, LookupAbsent, PostAgain, ResubmissionReturns, Abort,
         Complete, rowVars, fixedVars, historyVars
<1>2. PICK place : pc' = [pc EXCEPT ![d] = place] /\ (place \in First => pc[d] \in First)
  BY DEF EnterTry, FetchSurface, CreateReturns, CreateUncertain, PersistSurface, Reconcile,
         NothingToReconcile, LookupFinds, LookupAbsent, PostAgain, ResubmissionReturns, Abort,
         Complete, End, Goto, Found, First
<1>3. \A e \in Deliveries : pc'[e] \in First => pc[e] \in First
  BY <1>0, <1>2
<1>4. UNCHANGED status \/ Write(target[d], "SUCCEEDED")
  BY DEF EnterTry, FetchSurface, CreateReturns, CreateUncertain, PersistSurface, Reconcile,
         NothingToReconcile, LookupFinds, LookupAbsent, PostAgain, ResubmissionReturns, Abort,
         Complete, StoreSurface, rowVars
<1>5. \A a \in Actions : status'[a] = status[a] \/ status'[a] = "SUCCEEDED"
  BY <1>0, <1>4 DEF Write
<1> QED BY <1>1, <1>3, <1>5 DEF Settles

\* So do the cleanups, the provider, the end of the case and the clock.
LEMMA OthersSettle ==
    ASSUME Inv, \/ \E c \in Cleanups : CleanupStep(c)
                \/ ProviderStep
                \/ \E how \in {"operator", "payment"} : CloseCase(how)
                \/ \E a \in Actions : DueTimePasses(a)
                \/ UNCHANGED vars
    PROVE  Settles
<1>0. pc \in [Deliveries -> Places] /\ status \in [Actions -> Statuses]
  BY DEF Inv, TypeOK
<1> USE DEF rowVars, fixedVars, deliveryVars, cleanupVars, providerVars, historyVars, Settles
<1>1. CASE UNCHANGED <<disposition, pc, target, seen, blind, approvals, status>>
  BY <1>1
<1>2. ASSUME NEW c \in Cleanups, CleanupStep(c) PROVE Settles
  <2>1. CASE \/ BeginCleanup(c) \/ CleanupFails(c)
             \/ \E a \in Actions : CleanupLooksUp(c, a) \/ Revoke(c, a)
    BY <1>1, <2>1 DEF BeginCleanup, CleanupFails, CleanupLooksUp, Revoke
  <2>2. CASE CommitCleanup(c)
    BY <1>0, <2>2 DEF CommitCleanup
  <2>3. CASE CancelOthers(c)
    BY <1>0, <2>3 DEF CancelOthers
  <2> QED BY <1>2, <2>1, <2>2, <2>3 DEF CleanupStep
<1>3. ASSUME NEW d \in Deliveries, NEW n \in {"first", "again"},
             ProviderCreates(d, n) \/ ProviderRejects(d, n)
      PROVE  Settles
  <2>1. UNCHANGED <<disposition, target, seen, blind, approvals, status>>
    BY <1>3 DEF ProviderCreates, ProviderRejects
  <2>2. \/ UNCHANGED pc
        \/ \E place \in {"accepted", "reaccepted", "done"} : pc' = [pc EXCEPT ![d] = place]
    BY <1>3 DEF ProviderCreates, ProviderRejects, Awaits, End, Goto
  <2> QED BY <1>0, <2>1, <2>2 DEF First
<1>4. CASE \E a \in Actions, outcome \in {"paid", "expired"} : LinkSettles(a, outcome)
  BY <1>1, <1>4 DEF LinkSettles
<1>5. CASE \E how \in {"operator", "payment"} : CloseCase(how)
  BY <1>0, <1>5 DEF CloseCase
<1>6. CASE (\E a \in Actions : DueTimePasses(a)) \/ UNCHANGED vars
  BY <1>1, <1>6 DEF DueTimePasses, vars
<1> HIDE DEF Settles
<1> QED BY <1>2, <1>3, <1>4, <1>5, <1>6 DEF ProviderStep

\* A claim turns an action that is ready into a delivery that may post.
LEMMA ClaimBudget ==
    ASSUME Inv, BudgetInv, NEW d \in Deliveries, NEW a \in Actions, Claim(d, a)
    PROVE  BudgetInv'
<1> DEFINE place == ClaimLeadsTo(d, a)
<1>0. /\ pc \in [Deliveries -> Places] /\ status \in [Actions -> Statuses]
      /\ target \in [Deliveries -> Actions \cup {Nobody}]
  BY DEF Inv, TypeOK
<1>1. /\ pc[d] = "idle" /\ UNCHANGED <<disposition, seen, blind, approvals>>
      /\ target'[d] = a /\ pc'[d] = place
      /\ \A e \in Deliveries \ {d} : pc'[e] = pc[e] /\ target'[e] = target[e]
  BY <1>0 DEF Claim, Goto, fixedVars, historyVars
<1>2. \A b \in Actions \ {a} : status'[b] = status[b]
  BY <1>0 DEF Claim
<1>3. \/ place = "claimed" /\ status[a] \in {"PROPOSED", "SCHEDULED"} /\ status'[a] = "EXECUTING"
      \/ place \in {"reconcile", "done"} /\ UNCHANGED status
  BY <1>0 DEF Claim, ClaimLeadsTo, Claimable
<1> HIDE DEF place
<1>4. ApprovalIsManual'
  BY <1>1, <1>2, <1>3 DEF BudgetInv, ApprovalIsManual, Manual
<1>5. ASSUME NEW b \in Actions PROVE WithinBudget(b)'
  <2>1. blind'[b] = blind[b] /\ Authorized(b)' = Authorized(b)
    BY <1>1 DEF Authorized
  <2>2. WithinBudget(b)
    BY DEF BudgetInv
  <2>3. CASE b # a \/ place # "claimed"
    <3>1. Posting(b)' = Posting(b)
      BY <1>1, <1>3, <2>3 DEF Posting, First
    <3>2. Ready(b)' = Ready(b)
      BY <1>2, <1>3, <2>3 DEF Ready
    <3> QED BY <2>1, <2>2, <3>1, <3>2 DEF WithinBudget
  <2>4. CASE b = a /\ place = "claimed"
    <3>1. Posting(a)' = Posting(a) \cup {d} /\ d \notin Posting(a)
      BY <1>1, <2>4 DEF Posting, First
    <3>2. IsFiniteSet(Posting(a)) /\ IsFiniteSet(Posting(a)')
          /\ Cardinality(Posting(a)') = Cardinality(Posting(a)) + 1
      BY <2>2, <2>4, <3>1, FS_AddElement DEF WithinBudget
    <3>3. Ready(a) = 1 /\ Ready(a)' = 0
      BY <1>3, <2>4 DEF Ready
    <3>4. blind[a] + Cardinality(Posting(a)) + Ready(a) <= Authorized(a)
      BY <2>2, <2>4 DEF WithinBudget
    <3>5. blind'[a] + Cardinality(Posting(a)') + Ready(a)' <= Authorized(a)'
      BY <2>1, <2>4, <3>2, <3>3, <3>4, BudgetTypes
    <3> QED BY <2>4, <3>2, <3>5 DEF WithinBudget
  <2> QED BY <2>3, <2>4
<1> QED BY <1>4, <1>5 DEF BudgetInv

\* The create that is sent was counted with the delivery that sends it.
LEMMA PostBudget ==
    ASSUME Inv, BudgetInv, NEW d \in Deliveries, PostCreate(d)
    PROVE  BudgetInv'
<1>0. pc \in [Deliveries -> Places] /\ blind \in [Actions -> Nat]
  BY DEF Inv, TypeOK
<1>1. PICK a \in Actions : a = target[d]
  BY DEF PostCreate, Standard
<1>2. /\ pc[d] = "preflight" /\ pc'[d] = "posted"
      /\ UNCHANGED <<disposition, target, seen, status, approvals>>
      /\ \A e \in Deliveries \ {d} : pc'[e] = pc[e]
  BY <1>0 DEF PostCreate, Goto, rowVars, fixedVars
<1>3. blind'[a] = blind[a] + 1 /\ \A b \in Actions \ {a} : blind'[b] = blind[b]
  <2>1. blind' = [blind EXCEPT ![a] = blind[a] + 1]
    BY <1>0, <1>1 DEF PostCreate
  <2> QED BY <1>0, <2>1
<1>4. ApprovalIsManual'
  BY <1>2 DEF BudgetInv, ApprovalIsManual, Manual
<1>5. ASSUME NEW b \in Actions PROVE WithinBudget(b)'
  <2>1. Ready(b)' = Ready(b) /\ Authorized(b)' = Authorized(b)
    BY <1>2 DEF Ready, Authorized
  <2>2. WithinBudget(b)
    BY DEF BudgetInv
  <2>3. CASE b # a
    <3>1. Posting(b)' = Posting(b)
      BY <1>1, <1>2, <2>3 DEF Posting, First
    <3>2. blind'[b] = blind[b]
      BY <1>3, <2>3
    <3> QED BY <2>1, <2>2, <3>1, <3>2 DEF WithinBudget
  <2>4. CASE b = a
    <3>1. Posting(a)' = Posting(a) \ {d} /\ d \in Posting(a)
      BY <1>1, <1>2 DEF Posting, First
    <3>2. IsFiniteSet(Posting(a)) /\ IsFiniteSet(Posting(a)')
          /\ Cardinality(Posting(a)') = Cardinality(Posting(a)) - 1
      BY <2>2, <2>4, <3>1, FS_RemoveElement DEF WithinBudget
    <3>3. blind[a] + Cardinality(Posting(a)) + Ready(a) <= Authorized(a)
      BY <2>2, <2>4 DEF WithinBudget
    <3>4. blind'[a] + Cardinality(Posting(a)') + Ready(a)' <= Authorized(a)'
      BY <1>3, <2>1, <2>4, <3>2, <3>3, BudgetTypes
    <3> QED BY <2>4, <3>2, <3>4 DEF WithinBudget
  <2> QED BY <2>3, <2>4
<1> QED BY <1>4, <1>5 DEF BudgetInv

\* An approval authorizes one create and makes its action ready once; requests
\* may overlap, each having read the row before the other overwrote it.
LEMMA OperatorBudget ==
    ASSUME Inv, BudgetInv, NEW o \in Operators, OperatorStep(o)
    PROVE  BudgetInv'
<1>0. /\ status \in [Actions -> Statuses] /\ approvals \in [Actions -> Nat]
      /\ seen \in [Operators -> [command : {"APPROVE", "REJECT"}, action : Actions] \cup {NoRead}]
  BY DEF Inv, TypeOK
<1>1. UNCHANGED <<disposition, pc, target, blind>>
  BY DEF OperatorStep, OperatorReads, OperatorWrites, deliveryVars, rowVars, fixedVars,
         historyVars
<1>2. \A a \in Actions : Posting(a)' = Posting(a) /\ (Manual(a)' <=> Manual(a))
  BY <1>1 DEF Posting, Manual
<1>3. ASSUME NEW a \in Actions, NEW command \in {"APPROVE", "REJECT"},
             OperatorReads(o, a, command)
      PROVE  BudgetInv'
  <2>1. UNCHANGED <<status, approvals>>
    BY <1>3 DEF OperatorReads, rowVars, historyVars
  <2>2. \A p \in Operators : seen'[p] = seen[p] \/ seen'[p] = [command |-> command, action |-> a]
    BY <1>0, <1>3 DEF OperatorReads
  <2>3. command = "APPROVE" => Manual(a)
    BY <1>3 DEF OperatorReads, BudgetInv, ApprovalIsManual
  <2>4. \A p \in Operators :
            seen'[p] # NoRead /\ seen'[p].command = "APPROVE" => Manual(seen'[p].action)
    BY <2>2, <2>3 DEF BudgetInv, ApprovalIsManual
  <2>5. ApprovalIsManual'
    BY <1>1, <2>1, <2>4 DEF BudgetInv, ApprovalIsManual, Manual
  <2>6. \A b \in Actions : WithinBudget(b)'
    BY <1>1, <1>2, <2>1 DEF BudgetInv, WithinBudget, Ready, Authorized
  <2> QED BY <2>5, <2>6 DEF BudgetInv
<1>4. CASE OperatorWrites(o)
  <2>1. PICK a \in Actions : a = seen[o].action
    BY <1>0, <1>4 DEF OperatorWrites
  <2>2. /\ \A b \in Actions \ {a} : status'[b] = status[b] /\ approvals'[b] = approvals[b]
        /\ status'[a] = IF seen[o].command = "APPROVE" THEN "SCHEDULED" ELSE "CANCELLED"
        /\ approvals'[a] = IF seen[o].command = "APPROVE" THEN approvals[a] + 1 ELSE approvals[a]
    BY <1>0, <1>4, <2>1 DEF OperatorWrites, Write
  <2>3. \A p \in Operators : seen'[p] = seen[p] \/ seen'[p] = NoRead
    BY <1>0, <1>4 DEF OperatorWrites
  <2>4. ApprovalIsManual'
    BY <1>1, <2>2, <2>3 DEF BudgetInv, ApprovalIsManual, Manual
  <2>5. seen[o].command = "APPROVE" => Manual(a)
    BY <1>4, <2>1 DEF OperatorWrites, BudgetInv, ApprovalIsManual
  <2>6. ASSUME NEW b \in Actions PROVE WithinBudget(b)'
    <3>1. WithinBudget(b)
      BY DEF BudgetInv
    <3>2. CASE b # a
      BY <1>1, <1>2, <2>2, <3>1, <3>2 DEF WithinBudget, Ready, Authorized
    <3>3. CASE b = a
      <4>1. Ready(a)' + Authorized(a) <= Ready(a) + Authorized(a)'
        BY <1>0, <1>1, <2>2, <2>5 DEF Ready, Authorized, Manual
      <4>2. blind[a] + Cardinality(Posting(a)) + Ready(a) <= Authorized(a)
        BY <3>1, <3>3 DEF WithinBudget
      <4>3. Ready(a)' \in {0, 1} /\ Authorized(a)' \in Nat
        BY <1>0, <1>1, <2>2 DEF Ready, Authorized
      <4>4. blind'[a] = blind[a] /\ Cardinality(Posting(a)') = Cardinality(Posting(a))
        BY <1>1, <1>2
      <4>5. blind'[a] + Cardinality(Posting(a)') + Ready(a)' <= Authorized(a)'
        BY <4>1, <4>2, <4>3, <4>4, BudgetTypes
      <4> QED BY <1>2, <3>1, <3>3, <4>5 DEF WithinBudget
    <3> QED BY <3>2, <3>3
  <2> QED BY <2>4, <2>6 DEF BudgetInv
<1> QED BY <1>3, <1>4 DEF OperatorStep

LEMMA BudgetInductive == Inv /\ BudgetInv /\ [Next]_vars => BudgetInv'
<1> SUFFICES ASSUME Inv, BudgetInv, [Next]_vars PROVE BudgetInv'
  OBVIOUS
<1>1. ASSUME NEW d \in Deliveries, ExecuteStep(d) PROVE BudgetInv'
  BY <1>1, ClaimBudget, PostBudget, DeliverySettles, SettlesBudget DEF ExecuteStep
<1>2. ASSUME NEW o \in Operators, OperatorStep(o) PROVE BudgetInv'
  BY <1>2, OperatorBudget
<1> QED BY <1>1, <1>2, OthersSettle, SettlesBudget DEF Next

\* "It never blindly repeats the create request": an action sees no more creates
\* without a lookup under the row lock than were authorized, however many
\* deliveries, timeouts, dead processes, cleanups and overlapping operator
\* requests there are (_claim_payment_action makes the row EXECUTING before the
\* provider is called, and only an approval makes it claimable again).
THEOREM NeverBlindlyRepeated == Spec => []CreatesAreAuthorized
<1>1. Init => BudgetInv
  <2> SUFFICES ASSUME Init PROVE BudgetInv
    OBVIOUS
  <2>1. ASSUME NEW a \in Actions PROVE WithinBudget(a) /\ (status[a] = "AWAITING_APPROVAL" => Manual(a))
    <3>1. Posting(a) = {} /\ IsFiniteSet({}) /\ Cardinality({}) = 0
      BY FS_EmptySet DEF Init, Posting, First
    <3>2. blind[a] = 0 /\ approvals[a] = 0 /\ disposition[a] \in Dispositions
          /\ status[a] = InitialStatus(disposition[a])
      BY DEF Init
    <3>3. Ready(a) <= Authorized(a) /\ Ready(a) \in {0, 1} /\ Authorized(a) \in {0, 1}
      BY <3>2 DEF Ready, Authorized, InitialStatus, Dispositions
    <3>4. status[a] = "AWAITING_APPROVAL" => Manual(a)
      BY <3>2 DEF Manual, InitialStatus, Dispositions
    <3>5. blind[a] + Cardinality(Posting(a)) + Ready(a) <= Authorized(a)
      BY <3>1, <3>2, <3>3
    <3> QED BY <3>1, <3>4, <3>5 DEF WithinBudget
  <2> QED BY <2>1 DEF Init, BudgetInv, ApprovalIsManual
<1>2. Inv /\ BudgetInv => CreatesAreAuthorized
  <2> SUFFICES ASSUME Inv, BudgetInv, NEW a \in Actions PROVE blind[a] <= Authorized(a)
    BY DEF CreatesAreAuthorized
  <2>1. blind[a] + Cardinality(Posting(a)) + Ready(a) <= Authorized(a)
    BY DEF BudgetInv, WithinBudget
  <2> QED BY <2>1, BudgetTypes
<1> QED BY <1>1, <1>2, BudgetInductive, Invariance, PTL DEF Spec
=============================================================================
