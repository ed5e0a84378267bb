------------------------- MODULE VoiceContactProofs -------------------------
(***************************************************************************)
(* The calls to one customer, for every number of requests, activity       *)
(* attempts, callbacks, cancellations and processes.                       *)
(*                                                                         *)
(* Inv is inductive.  A reservation belongs to one request and comes       *)
(* before the POST (SubmitInv), a cancellation key to one cancellation and *)
(* comes before the hang-up (CancelInv), an opt-out that hangs up has      *)
(* suppressed the customer (CallbackInv), and the breaker of a process     *)
(* with a submission in doubt is open and remembers it (BreakerInv).  On   *)
(* top of it, CallInv says what the rows, the requests and the action know *)
(* of Twilio's calls.                                                      *)
(***************************************************************************)
EXTENDS VoiceContact, TLAPS

Results == {"SUBMITTED", "REJECTED", "UNCERTAIN"}
Starts == [pc : {"begun", "allowed", "reserved", "posting", "answered", "returned"},
           key : Keys, process : Processes, result : Results \cup {None}]

\* The request has the reservation of its key.
HasReservation(r) == start[r] # None /\ start[r].pc \in {"reserved", "posting", "answered"}

StartType == start \in [Requests -> Starts \cup {None}]
RowType == row \in [Keys -> Rows \cup {None}]

SubmitInv ==
    /\ \A r \in Requests : HasReservation(r) =>
           /\ row[start[r].key] # None
           /\ start[r].pc = "reserved" => posts[start[r].key] = 0
           /\ start[r].pc = "answered" => start[r].result \in Results
    /\ \A r, s \in Requests :
           HasReservation(r) /\ HasReservation(s) /\ start[r].key = start[s].key => r = s
    /\ \A k \in Keys : posts[k] \in {0, 1} /\ (row[k] = None => posts[k] = 0)

\* How a step may move a request without touching reservations or posts.
Ordinary(r) ==
    start'[r] # None /\ start'[r].pc \in {"reserved", "posting", "answered"} =>
        /\ HasReservation(r) /\ start'[r].key = start[r].key
        /\ start'[r].pc \in {"reserved", "posting"} => start[r].pc = start'[r].pc
        /\ start'[r].pc = "answered" => start'[r].result \in Results

RowsKept == \A k \in Keys : row[k] # None => row'[k] # None

\* Such a step keeps SubmitInv.
LEMMA OrdinaryStep ==
    ASSUME StartType, StartType', SubmitInv, RowsKept, UNCHANGED posts,
           \A r \in Requests : Ordinary(r)
    PROVE  SubmitInv'
<1>1. \A r \in Requests : HasReservation(r)' =>
          /\ HasReservation(r) /\ start'[r].key = start[r].key /\ start[r].key \in Keys
          /\ start'[r].pc = "reserved" => start[r].pc = "reserved"
          /\ start'[r].pc = "answered" => start'[r].result \in Results
  BY DEF HasReservation, Ordinary, StartType, Starts
<1>2. \A r \in Requests : HasReservation(r)' =>
          /\ row'[start'[r].key] # None
          /\ start'[r].pc = "reserved" => posts'[start'[r].key] = 0
          /\ start'[r].pc = "answered" => start'[r].result \in Results
  BY <1>1 DEF SubmitInv, RowsKept
<1>3. \A r, s \in Requests :
          HasReservation(r)' /\ HasReservation(s)' /\ start'[r].key = start'[s].key => r = s
  BY <1>1 DEF SubmitInv
<1>4. \A k \in Keys : posts'[k] \in {0, 1} /\ (row'[k] = None => posts'[k] = 0)
  BY DEF SubmitInv, RowsKept
<1> QED BY <1>2, <1>3, <1>4 DEF SubmitInv

\* What a step of one request says of all of them.
LEMMA OneStarts ==
    ASSUME StartType, NEW r \in Requests, NEW x \in Starts \cup {None},
           start' = [start EXCEPT ![r] = x]
    PROVE  StartType' /\ start'[r] = x /\ \A s \in Requests \ {r} : start'[s] = start[s]
BY DEF StartType

LEMMA OthersOrdinary ==
    ASSUME SubmitInv, NEW s \in Requests, start'[s] = start[s]
    PROVE  Ordinary(s)
BY DEF Ordinary, SubmitInv, HasReservation

\* A request that ends, begins, is allowed or returns is ordinary.
LEMMA NoReservation ==
    ASSUME StartType, SubmitInv, NEW r \in Requests, NEW x \in Starts \cup {None},
           x = None \/ x.pc \in {"begun", "allowed", "returned"},
           start' = [start EXCEPT ![r] = x]
    PROVE  StartType' /\ \A s \in Requests : Ordinary(s)
<1>1. StartType' /\ start'[r] = x /\ \A s \in Requests \ {r} : start'[s] = start[s]
  BY OneStarts
<1>2. Ordinary(r)
  BY <1>1 DEF Ordinary
<1> QED BY <1>1, <1>2, OthersOrdinary

\* The record of a request that goes on.
LEMMA GoneOn ==
    ASSUME StartType, NEW r \in Requests, start[r] # None,
           NEW pc \in {"begun", "allowed", "reserved", "posting", "answered", "returned"},
           NEW result \in Results \cup {None}
    PROVE  LET x == [start[r] EXCEPT !.pc = pc, !.result = result]
               y == [start[r] EXCEPT !.pc = pc]
           IN  /\ x \in Starts /\ x.pc = pc /\ x.key = start[r].key /\ x.result = result
               /\ y \in Starts /\ y.pc = pc /\ y.key = start[r].key
               /\ y.result = start[r].result
<1>1. start[r] \in Starts
  BY DEF StartType
<1> QED BY <1>1 DEF Starts

LEMMA ReplayResultType == \A a : ReplayResult(a) \in Results
BY DEF ReplayResult, Results

\* A request that returns its answer.
LEMMA ReturnsOrdinary ==
    ASSUME StartType, SubmitInv, NEW r \in Requests, start[r] # None,
           NEW result \in Results \cup {None}, Returns(r, result)
    PROVE  StartType' /\ \A s \in Requests : Ordinary(s)
<1> DEFINE x == IF r \in ApiRequests THEN None
                ELSE [start[r] EXCEPT !.pc = "returned", !.result = result]
<1>1. x \in Starts \cup {None} /\ (x = None \/ x.pc \in {"begun", "allowed", "returned"})
  <2> DEFINE y == [start[r] EXCEPT !.pc = "returned", !.result = result]
  <2>1. start[r] \in Starts
    BY DEF StartType
  <2>2. y \in Starts /\ y.pc = "returned"
    BY <2>1 DEF Starts
  <2> HIDE DEF y
  <2>3. x = IF r \in ApiRequests THEN None ELSE y
    BY DEF y
  <2> HIDE DEF x
  <2> QED BY <2>2, <2>3
<1>2. start' = [start EXCEPT ![r] = x]
  BY DEF Returns, StartType
<1> HIDE DEF x
<1> QED BY <1>1, <1>2, NoReservation

\* The steps that ordinary requests take.
LEMMA OrdinaryStarts ==
    ASSUME StartType, SubmitInv,
           \/ \E r \in ApiRequests, p \in Processes, k \in ApiKeys : ReceiveStart(r, p, k)
           \/ \E a \in Activities, p \in Processes : ClaimVoiceAction(a, p)
           \/ \E r \in Requests : CheckStart(r) \/ SaveAttempt(r) \/ StartLost(r)
           \/ \E a \in Activities : FinalizeVoiceAction(a)
           \/ \E p \in Processes : ProcessDies(p)
    PROVE  StartType' /\ \A s \in Requests : Ordinary(s)
<1> DEFINE Good == StartType' /\ \A s \in Requests : Ordinary(s)
<1>1. ASSUME NEW r \in Requests, NEW p \in Processes, NEW k \in Keys, Begin(r, p, k) PROVE Good
  <2> DEFINE x == [pc |-> "begun", key |-> k, process |-> p, result |-> None]
  <2>1. x \in Starts /\ x.pc = "begun"
    BY DEF Starts
  <2>2. start' = [start EXCEPT ![r] = x]
    BY <1>1 DEF Begin
  <2> HIDE DEF x
  <2> QED BY <2>1, <2>2, NoReservation
<1>2. ASSUME NEW r \in Requests, Ends(r) PROVE Good
  BY <1>2, NoReservation DEF Ends
<1>3. ASSUME NEW r \in Requests, CheckStart(r) PROVE Good
  <2>1. ASSUME NEW a, Returns(r, ReplayResult(a)) PROVE Good
    BY <1>3, <2>1, ReplayResultType, ReturnsOrdinary DEF CheckStart
  <2>2. ASSUME Returns(r, "REJECTED") PROVE Good
    BY <1>3, <2>2, ReturnsOrdinary DEF CheckStart, Results
  <2>3. ASSUME Goes(r, "allowed") PROVE Good
    <3> DEFINE y == [start[r] EXCEPT !.pc = "allowed"]
    <3>1. start[r] \in Starts
      BY <1>3 DEF StartType, CheckStart
    <3>2. y \in Starts /\ y.pc = "allowed"
      BY <3>1 DEF Starts
    <3>3. start' = [start EXCEPT ![r] = y]
      BY <2>3 DEF Goes, StartType
    <3> HIDE DEF y
    <3> QED BY <3>2, <3>3, NoReservation
  <2> HIDE DEF Good
  <2> QED BY <1>3, <2>1, <2>2, <2>3 DEF CheckStart
<1>4. ASSUME NEW r \in Requests, SaveAttempt(r) PROVE Good
  <2>1. start[r] # None /\ start[r].result \in Results \cup {None}
    BY <1>4 DEF SaveAttempt, StartType, Starts
  <2>2. Returns(r, start[r].result) => Good
    BY <2>1, ReturnsOrdinary
  <2> HIDE DEF Good
  <2> QED BY <1>2, <1>4, <2>2 DEF SaveAttempt
<1>5. ASSUME NEW p \in Processes, ProcessDies(p) PROVE Good
  <2>1. start' = [r \in Requests |->
           IF start[r] # None /\ start[r].process = p THEN None ELSE start[r]]
    BY <1>5 DEF ProcessDies
  <2>2. \A s \in Requests : start'[s] \in {start[s], None}
    BY <2>1
  <2>3. StartType'
    BY <2>1 DEF StartType
  <2>4. \A s \in Requests : start'[s] = None => Ordinary(s)
    BY DEF Ordinary
  <2> QED BY <2>2, <2>3, <2>4, OthersOrdinary
<1> HIDE DEF Good
<1>6. Good
  BY <1>1, <1>2, <1>3, <1>4, <1>5
     DEF ReceiveStart, ClaimVoiceAction, StartLost, FinalizeVoiceAction, Requests, Keys
<1> QED BY <1>6 DEF Good

\* A POST that is answered keeps the reservation.
LEMMA AnswerStep ==
    ASSUME StartType, SubmitInv, NEW r \in Requests, AnswerCall(r)
    PROVE  StartType' /\ \A s \in Requests : Ordinary(s)
<1>1. PICK result \in Results : Answered(r, result)
  BY DEF AnswerCall, Results
<1>2. start[r] # None /\ start[r].pc = "posting" /\ start[r] \in Starts
  BY DEF AnswerCall, StartType
<1> DEFINE x == [start[r] EXCEPT !.pc = "answered", !.result = result]
<1>3. x \in Starts /\ x.pc = "answered" /\ x.key = start[r].key /\ x.result = result
  BY <1>2 DEF Starts
<1>4. start' = [start EXCEPT ![r] = x]
  BY <1>1 DEF Answered, StartType
<1> HIDE DEF x
<1>5. StartType' /\ start'[r] = x /\ \A s \in Requests \ {r} : start'[s] = start[s]
  BY <1>3, <1>4, OneStarts
<1>6. Ordinary(r)
  BY <1>2, <1>3, <1>5 DEF Ordinary, HasReservation
<1> QED BY <1>5, <1>6, OthersOrdinary

\* The reservation is won by one request, before any call is placed.
LEMMA ReserveStep ==
    ASSUME StartType, SubmitInv, RowType, NEW r \in Requests, ReserveAttempt(r)
    PROVE  StartType' /\ SubmitInv'
<1> DEFINE k == start[r].key
           new == [status |-> "RESERVED", sid |-> FALSE, uncertain |-> FALSE]
<1>0. start[r] # None /\ start[r].pc = "allowed" /\ start[r] \in Starts /\ UNCHANGED posts
  BY DEF ReserveAttempt, StartType, twilioVars
<1>1. CASE UNCHANGED row /\ (Ends(r) \/ Returns(r, ReplayResult(row[k])))
  <2>1. Ends(r) => StartType' /\ \A s \in Requests : Ordinary(s)
    BY NoReservation DEF Ends
  <2>2. Returns(r, ReplayResult(row[k])) => StartType' /\ \A s \in Requests : Ordinary(s)
    BY <1>0, ReplayResultType, ReturnsOrdinary
  <2>3. RowsKept
    BY <1>1 DEF RowsKept
  <2> QED BY <1>0, <1>1, <2>1, <2>2, <2>3, OrdinaryStep
<1>2. CASE row[k] = None /\ Goes(r, "reserved") /\ row' = [row EXCEPT ![k] = new]
  <2> DEFINE y == [start[r] EXCEPT !.pc = "reserved"]
  <2>1. y \in Starts /\ y.pc = "reserved" /\ y.key = k
    BY <1>0 DEF Starts
  <2>2. start' = [start EXCEPT ![r] = y]
    BY <1>2 DEF Goes, StartType
  <2> HIDE DEF y
  <2>3. StartType' /\ start'[r] = y /\ \A s \in Requests \ {r} : start'[s] = start[s]
    BY <2>1, <2>2, OneStarts
  <2>4. k \in Keys
    BY <1>0 DEF Starts
  <2>5. new # None
    <3>1. new \in Rows
      BY DEF Rows, Statuses, ActiveStatuses
    <3> QED BY <3>1, VoiceAssumption
  <2>6. row'[k] # None /\ \A l \in Keys : l # k => row'[l] = row[l]
    BY <1>2, <2>4, <2>5 DEF RowType
  <2>7. \A s \in Requests \ {r} : HasReservation(s)' =>
            HasReservation(s) /\ start[s].key \in Keys /\ start[s].key # k
    BY <1>2, <2>3 DEF HasReservation, SubmitInv, StartType, Starts
  <2>8. posts[k] = 0
    BY <1>2, <2>4 DEF SubmitInv
  <2> HIDE DEF k, new
  <2>9. \A s \in Requests : HasReservation(s)' =>
            /\ row'[start'[s].key] # None
            /\ start'[s].pc = "reserved" => posts'[start'[s].key] = 0
            /\ start'[s].pc = "answered" => start'[s].result \in Results
    BY <1>0, <2>1, <2>3, <2>6, <2>7, <2>8 DEF SubmitInv
  <2>10. \A q, s \in Requests :
            HasReservation(q)' /\ HasReservation(s)' /\ start'[q].key = start'[s].key => q = s
    BY <2>1, <2>3, <2>7 DEF SubmitInv
  <2>11. \A l \in Keys : posts'[l] \in {0, 1} /\ (row'[l] = None => posts'[l] = 0)
    BY <1>0, <2>6, <2>8 DEF SubmitInv
  <2> QED BY <2>3, <2>9, <2>10, <2>11 DEF SubmitInv
<1> QED BY <1>1, <1>2 DEF ReserveAttempt, Reserved, Taken

\* The one POST of a reservation.
LEMMA SubmitStep ==
    ASSUME StartType, SubmitInv, posts \in [Keys -> Nat], NEW r \in Requests,
           NEW elapsed \in BOOLEAN, SubmitCall(r, elapsed)
    PROVE  StartType' /\ SubmitInv' /\ posts' \in [Keys -> Nat]
<1> DEFINE k == start[r].key
<1>0. /\ start[r] # None /\ start[r].pc = "reserved" /\ start[r] \in Starts /\ k \in Keys
      /\ UNCHANGED row
  BY DEF SubmitCall, StartType, Starts, attemptVars
<1>1. PICK pc \in {"posting", "answered"}, result \in Results \cup {None} :
          /\ start' = [start EXCEPT ![r] = [start[r] EXCEPT !.pc = pc, !.result = result]]
          /\ pc = "answered" => result \in Results
          /\ posts' = posts \/ (pc = "posting" /\ posts' = [posts EXCEPT ![k] = @ + 1])
  <2>1. CASE Goes(r, "posting")
    <3>1. start[r].result \in Results \cup {None}
      BY <1>0 DEF Starts
    <3>2. [start[r] EXCEPT !.pc = "posting"]
              = [start[r] EXCEPT !.pc = "posting", !.result = start[r].result]
      BY <1>0 DEF Starts
    <3>3. start' = [start EXCEPT ![r] = [start[r] EXCEPT !.pc = "posting"]]
      BY <2>1 DEF Goes, StartType
    <3>4. posts' = posts \/ posts' = [posts EXCEPT ![k] = @ + 1]
      BY DEF SubmitCall, twilioVars
    <3> QED BY <3>1, <3>2, <3>3, <3>4
  <2>2. CASE UNCHANGED posts /\ \E result \in Results :
               start' = [start EXCEPT ![r].pc = "answered", ![r].result = result]
    BY <2>2 DEF StartType
  <2> QED BY <2>1, <2>2 DEF SubmitCall, twilioVars, Results
<1> DEFINE x == [start[r] EXCEPT !.pc = pc, !.result = result]
<1>2. x \in Starts /\ x.pc = pc /\ x.key = k /\ x.result = result
  BY <1>0 DEF Starts
<1> HIDE DEF x
<1>3. StartType' /\ start'[r] = x /\ \A s \in Requests \ {r} : start'[s] = start[s]
  BY <1>1, <1>2, OneStarts DEF x
<1>4. HasReservation(r) /\ posts[k] = 0
  BY <1>0 DEF HasReservation, SubmitInv
<1>5. \A l \in Keys : posts'[l] = posts[l] \/ (l = k /\ posts'[l] = 1)
  BY <1>0, <1>1, <1>4
<1>6. posts' \in [Keys -> Nat]
  BY <1>1
<1>7. \A s \in Requests \ {r} : HasReservation(s)' =>
          HasReservation(s) /\ start[s].key \in Keys /\ start[s].key # k
  BY <1>3, <1>4 DEF HasReservation, SubmitInv, StartType, Starts
<1>8. row[k] # None
  BY <1>4 DEF SubmitInv
<1> HIDE DEF k
<1>9. \A s \in Requests : HasReservation(s)' =>
          /\ row'[start'[s].key] # None
          /\ start'[s].pc = "reserved" => posts'[start'[s].key] = 0
          /\ start'[s].pc = "answered" => start'[s].result \in Results
  <2>1. ASSUME NEW s \in Requests \ {r}, HasReservation(s)'
        PROVE  /\ row'[start'[s].key] # None
               /\ start'[s].pc = "reserved" => posts'[start'[s].key] = 0
               /\ start'[s].pc = "answered" => start'[s].result \in Results
    BY <1>0, <1>3, <1>5, <1>7, <2>1 DEF SubmitInv
  <2>2. /\ row'[start'[r].key] # None /\ start'[r].pc # "reserved"
        /\ start'[r].pc = "answered" => start'[r].result \in Results
    BY <1>0, <1>1, <1>2, <1>3, <1>8
  <2> QED BY <2>1, <2>2
<1>10. \A q, s \in Requests :
          HasReservation(q)' /\ HasReservation(s)' /\ start'[q].key = start'[s].key => q = s
  BY <1>2, <1>3, <1>7 DEF SubmitInv
<1>11. \A l \in Keys : posts'[l] \in {0, 1} /\ (row'[l] = None => posts'[l] = 0)
  BY <1>0, <1>5, <1>8 DEF SubmitInv
<1> QED BY <1>3, <1>6, <1>9, <1>10, <1>11 DEF SubmitInv

----------------------------------------------------------------------------
(* The breaker. *)

BreakerInv ==
    /\ breaker \in [Processes -> Breakers]
    /\ \A p \in Processes : breaker[p].uncertain => breaker[p].state = "OPEN"
    /\ doubtful \subseteq Processes
    /\ \A p \in doubtful : breaker[p].uncertain = TRUE

\* What the functions of the breaker keep.
LEMMA BreakerKeeps ==
    ASSUME NEW b \in Breakers, b.uncertain => b.state = "OPEN", NEW elapsed \in BOOLEAN,
           NEW kind \in FailureKinds \ {"RETRYABLE"}
    PROVE  /\ BeforeCall(b, elapsed) \in Breakers
           /\ BeforeCall(b, elapsed).uncertain => BeforeCall(b, elapsed).state = "OPEN"
           /\ b.uncertain => ~Allows(HalfOpened(b, elapsed))
           /\ RecordFailure(b, kind) \in Breakers
           /\ RecordFailure(b, kind).uncertain => RecordFailure(b, kind).state = "OPEN"
<1>1. /\ HalfOpened(b, elapsed) \in Breakers
      /\ HalfOpened(b, elapsed).uncertain => HalfOpened(b, elapsed).state = "OPEN"
      /\ b.uncertain => HalfOpened(b, elapsed) = b
  BY DEF HalfOpened, Breakers
<1>2. b.uncertain => ~Allows(HalfOpened(b, elapsed))
  BY <1>1 DEF Allows
<1>3. PICK h \in Breakers : h = HalfOpened(b, elapsed)
  BY <1>1
<1>4. (h.probe \/ h.state = "HALF_OPEN") \in BOOLEAN
  OBVIOUS
<1> DEFINE c == [h EXCEPT !.probe = h.probe \/ h.state = "HALF_OPEN"]
<1>5. c \in Breakers /\ c.uncertain = h.uncertain /\ c.state = h.state
  BY <1>4 DEF Breakers
<1>6. BeforeCall(b, elapsed) = c
  BY <1>3 DEF BeforeCall
<1> HIDE DEF c
<1>7. Counted(b.failures) \in 0..FailureThreshold
  BY ThresholdAssumption DEF Counted, Breakers
<1>8. /\ RecordFailure(b, kind) \in Breakers
      /\ RecordFailure(b, kind).uncertain => RecordFailure(b, kind).state = "OPEN"
  <2>1. CASE kind = "PERMANENT"
    BY <2>1 DEF RecordFailure, Breakers
  <2>2. CASE kind = "UNCERTAIN_SUBMISSION"
    <3>1. RecordFailure(b, kind) = [state |-> "OPEN", failures |-> Counted(b.failures),
                                    probe |-> FALSE, uncertain |-> TRUE]
      BY <2>2 DEF RecordFailure
    <3>2. RecordFailure(b, kind) \in Breakers
      BY <1>7, <3>1 DEF Breakers
    <3> QED BY <3>1, <3>2
  <2> QED BY <2>1, <2>2 DEF FailureKinds
<1> QED BY <1>1, <1>2, <1>3, <1>5, <1>6, <1>8

\* An uncertain submission is remembered by all but record_success.
LEMMA BreakerRemembers ==
    ASSUME NEW b \in Breakers, NEW elapsed \in BOOLEAN
    PROVE  /\ b.uncertain = TRUE => BeforeCall(b, elapsed).uncertain = TRUE
           /\ b.uncertain = TRUE => RecordFailure(b, "PERMANENT").uncertain = TRUE
           /\ RecordFailure(b, "UNCERTAIN_SUBMISSION").uncertain = TRUE
<1>1. b.uncertain = TRUE => BeforeCall(b, elapsed).uncertain = TRUE
  <2> SUFFICES ASSUME b.uncertain = TRUE PROVE BeforeCall(b, elapsed).uncertain = TRUE
    OBVIOUS
  <2>1. HalfOpened(b, elapsed) = b
    BY DEF HalfOpened
  <2>2. BeforeCall(b, elapsed) = [b EXCEPT !.probe = b.probe \/ b.state = "HALF_OPEN"]
    BY <2>1 DEF BeforeCall
  <2> QED BY <2>2 DEF Breakers
<1>2. b.uncertain = TRUE => RecordFailure(b, "PERMANENT").uncertain = TRUE
  BY DEF RecordFailure, Breakers
<1>3. RecordFailure(b, "UNCERTAIN_SUBMISSION").uncertain = TRUE
  BY DEF RecordFailure
<1> QED BY <1>1, <1>2, <1>3

LEMMA ClosedBreakerOK == ClosedBreaker \in Breakers /\ ~ClosedBreaker.uncertain
BY ThresholdAssumption DEF ClosedBreaker, Breakers

----------------------------------------------------------------------------
(* Which steps write what. *)

Starting ==
    \/ \E r \in ApiRequests, p \in Processes, k \in ApiKeys : ReceiveStart(r, p, k)
    \/ \E a \in Activities, p \in Processes : ClaimVoiceAction(a, p)
    \/ \E r \in Requests : CheckStart(r) \/ SaveAttempt(r) \/ StartLost(r)
    \/ \E a \in Activities : FinalizeVoiceAction(a)
    \/ \E p \in Processes : ProcessDies(p)
Reserving == \E r \in Requests : ReserveAttempt(r)
Submitting == \E r \in Requests, elapsed \in BOOLEAN : SubmitCall(r, elapsed)
Answering == \E r \in Requests : AnswerCall(r)
Receiving == \E h \in Callbacks, ke \in Events : ReceiveCallback(h, ke[1], ke[2])
CallingBack == \E h \in Callbacks : ApplyCallback(h) \/ HangUp(h) \/ CallbackLost(h)
Cancelling ==
    \/ \E t \in Cancellers, c \in CancelKeys : CancelAction(t, c)
    \/ \E t \in Cancellers : ClaimCancellation(t) \/ SubmitCancellation(t)
                             \/ FinalizeCancellation(t) \/ CancelLost(t)
Outside == ConfigureContact \/ (\E k \in Keys : CallEnds(k)) \/ UNCHANGED vars

LEMMA Groups ==
    ASSUME [Next]_vars
    PROVE  \/ Starting \/ Reserving \/ Submitting \/ Answering \/ Receiving \/ CallingBack
           \/ Cancelling \/ Outside
BY DEF Next, Starting, Reserving, Submitting, Answering, Receiving, CallingBack, Cancelling,
       Outside, TwilioStatus, BrowserTranscript, LiveIntentTool, PostCall

LEMMA Frames ==
    /\ Starting => UNCHANGED <<receipts, consent, suppressed, claimed, cancel, hangups, call,
                               posts, callback>>
    /\ Reserving => UNCHANGED <<receipts, consent, suppressed, claimed, cancel, hangups, call,
                                posts, callback, breaker, doubtful, action>>
    /\ Submitting => UNCHANGED <<row, receipts, consent, suppressed, claimed, cancel, hangups,
                                 callback, action>>
    /\ Answering => UNCHANGED <<row, receipts, consent, suppressed, claimed, cancel, hangups,
                                call, posts, callback, action>>
    /\ Receiving => UNCHANGED <<row, receipts, consent, suppressed, claimed, cancel, hangups,
                                call, posts, start, breaker, doubtful, action>>
    /\ CallingBack => UNCHANGED <<consent, claimed, cancel, hangups, posts, start,
                                  breaker, doubtful, action>>
    /\ Cancelling => UNCHANGED <<receipts, consent, suppressed, posts, start, callback,
                                 breaker, doubtful>>
    /\ Outside => UNCHANGED <<row, receipts, suppressed, claimed, cancel, hangups, posts, start,
                              callback, breaker, doubtful, action>>
<1> USE DEF attemptVars, customerVars, cancelVars, twilioVars, breakerVars
<1>1. Starting => UNCHANGED <<receipts, consent, suppressed, claimed, cancel, hangups, call,
                               posts, callback>>
  BY DEF Starting, ReceiveStart, ClaimVoiceAction, CheckStart, SaveAttempt, StartLost,
         FinalizeVoiceAction, ProcessDies
<1>2. Reserving => UNCHANGED <<receipts, consent, suppressed, claimed, cancel, hangups, call,
                                posts, callback, breaker, doubtful, action>>
  BY DEF Reserving, ReserveAttempt
<1>3. Submitting => UNCHANGED <<row, receipts, consent, suppressed, claimed, cancel, hangups,
                                 callback, action>>
  BY DEF Submitting, SubmitCall
<1>4. Answering => UNCHANGED <<row, receipts, consent, suppressed, claimed, cancel, hangups,
                                call, posts, callback, action>>
  BY DEF Answering, AnswerCall
<1>5. Receiving => UNCHANGED <<row, receipts, consent, suppressed, claimed, cancel, hangups,
                                call, posts, start, breaker, doubtful, action>>
  BY DEF Receiving, ReceiveCallback
<1>6. CallingBack => UNCHANGED <<consent, claimed, cancel, hangups, posts, start,
                                 breaker, doubtful, action>>
  BY DEF CallingBack, ApplyCallback, HangUp, CallbackLost
<1>7. Cancelling => UNCHANGED <<receipts, consent, suppressed, posts, start, callback,
                                breaker, doubtful>>
  BY DEF Cancelling, CancelAction, ClaimCancellation, SubmitCancellation, FinalizeCancellation,
         CancelLost
<1>8. Outside => UNCHANGED <<row, receipts, suppressed, claimed, cancel, hangups, posts, start,
                              callback, breaker, doubtful, action>>
  BY DEF Outside, ConfigureContact, ConfigureSubject, CallEnds, vars
<1> QED BY <1>1, <1>2, <1>3, <1>4, <1>5, <1>6, <1>7, <1>8

LEMMA BreakerStep ==
    ASSUME BreakerInv, StartType, [Next]_vars
    PROVE  BreakerInv'
<1>1. ASSUME NEW p \in Processes, NEW b \in Breakers, b.uncertain => b.state = "OPEN",
             breaker' = [breaker EXCEPT ![p] = b],
             doubtful' \subseteq doubtful \cup {p}, p \in doubtful' => b.uncertain = TRUE
      PROVE  BreakerInv'
  BY <1>1 DEF BreakerInv
<1>2. CASE UNCHANGED <<breaker, doubtful>>
  BY <1>2 DEF BreakerInv
<1>3. ASSUME NEW r \in Requests, start[r] # None PROVE start[r].process \in Processes
  BY <1>3 DEF StartType, Starts
<1>4. ASSUME NEW p \in Processes
      PROVE  breaker[p] \in Breakers /\ (breaker[p].uncertain => breaker[p].state = "OPEN")
  BY DEF BreakerInv
<1>9. ASSUME NEW p \in Processes, p \in doubtful PROVE breaker[p].uncertain = TRUE
  BY <1>9 DEF BreakerInv
<1>5. ASSUME NEW r \in Requests, NEW elapsed \in BOOLEAN, SubmitCall(r, elapsed)
      PROVE  BreakerInv'
  <2>1. PICK p \in Processes : breaker' = [breaker EXCEPT ![p] = BeforeCall(@, elapsed)]
    BY <1>3, <1>5 DEF SubmitCall
  <2>2. /\ breaker' = [breaker EXCEPT ![p] = BeforeCall(breaker[p], elapsed)]
        /\ doubtful' = doubtful
    BY <1>5, <2>1 DEF BreakerInv, SubmitCall
  <2>3. /\ BeforeCall(breaker[p], elapsed) \in Breakers
        /\ BeforeCall(breaker[p], elapsed).uncertain
               => BeforeCall(breaker[p], elapsed).state = "OPEN"
    BY <1>4, BreakerKeeps DEF FailureKinds
  <2>4. p \in doubtful => BeforeCall(breaker[p], elapsed).uncertain = TRUE
    BY <1>4, <1>9, BreakerRemembers
  <2> QED BY <1>1, <2>2, <2>3, <2>4
<1>6. ASSUME NEW r \in Requests, AnswerCall(r) PROVE BreakerInv'
  <2>1. PICK p \in Processes :
            \/ UNCHANGED <<breaker, doubtful>>
            \/ /\ breaker' = [breaker EXCEPT ![p] = RecordSuccess(breaker[p])]
               /\ doubtful' = doubtful \ {p}
            \/ /\ breaker' = [breaker EXCEPT ![p] = RecordFailure(breaker[p], "PERMANENT")]
               /\ doubtful' = doubtful
            \/ /\ breaker' = [breaker EXCEPT ![p] =
                                 RecordFailure(breaker[p], "UNCERTAIN_SUBMISSION")]
               /\ doubtful' = doubtful \cup {p}
    BY <1>3, <1>6 DEF AnswerCall, BreakerInv, breakerVars
  <2>2. ASSUME NEW kind \in {"PERMANENT", "UNCERTAIN_SUBMISSION"}
        PROVE  /\ RecordFailure(breaker[p], kind) \in Breakers
               /\ RecordFailure(breaker[p], kind).uncertain
                      => RecordFailure(breaker[p], kind).state = "OPEN"
    BY <1>4, BreakerKeeps DEF FailureKinds
  <2>3. CASE /\ breaker' = [breaker EXCEPT ![p] = RecordSuccess(breaker[p])]
             /\ doubtful' = doubtful \ {p}
    BY <1>1, <2>3, ClosedBreakerOK DEF RecordSuccess
  <2>4. CASE /\ breaker' = [breaker EXCEPT ![p] = RecordFailure(breaker[p], "PERMANENT")]
             /\ doubtful' = doubtful
    <3>1. p \in doubtful => RecordFailure(breaker[p], "PERMANENT").uncertain = TRUE
      BY <1>4, <1>9, BreakerRemembers
    <3> QED BY <1>1, <2>2, <2>4, <3>1
  <2>5. CASE /\ breaker' = [breaker EXCEPT ![p] =
                               RecordFailure(breaker[p], "UNCERTAIN_SUBMISSION")]
             /\ doubtful' = doubtful \cup {p}
    <3>1. RecordFailure(breaker[p], "UNCERTAIN_SUBMISSION").uncertain = TRUE
      BY <1>4, BreakerRemembers
    <3> QED BY <1>1, <2>2, <2>5, <3>1
  <2> QED BY <1>2, <2>1, <2>3, <2>4, <2>5
<1>7. ASSUME NEW p \in Processes, ProcessDies(p) PROVE BreakerInv'
  BY <1>1, <1>7, ClosedBreakerOK DEF ProcessDies
<1>8. CASE Starting
  BY <1>2, <1>7, <1>8 DEF Starting, ReceiveStart, ClaimVoiceAction, CheckStart, SaveAttempt,
                          StartLost, FinalizeVoiceAction, breakerVars
<1> QED BY <1>2, <1>5, <1>6, <1>8, Groups, Frames DEF Submitting, Answering

----------------------------------------------------------------------------
(* The rows, the callbacks and the cancellations. *)

CallbackRecords == [pc : {"loaded", "hangup"}, key : Keys, event : EventKinds,
                    copy : Rows, committed : BOOLEAN]

\* A callback is one of Events for an attempt that is there, and one that
\* hangs up has suppressed the customer.
CallbackInv ==
    /\ callback \in [Callbacks -> CallbackRecords \cup {None}]
    /\ \A h \in Callbacks : callback[h] # None =>
           /\ row[callback[h].key] # None
           /\ <<callback[h].key, callback[h].event>> \in Events
           /\ callback[h].pc = "hangup" => suppressed
    /\ receipts \subseteq Events /\ suppressed \in BOOLEAN
    /\ OptOutIsKept

CancelRecords == [pc : {"claim", "claimed", "heard"}, key : CancelKeys,
                  attempt : Keys \cup {None}, sid : BOOLEAN, confirmed : BOOLEAN]

Claims(t) == cancel[t] # None /\ cancel[t].pc = "claimed"

\* A cancellation that has claimed its attempt is the only one with its key,
\* and nothing has been hung up under that key.
CancelInv ==
    /\ cancel \in [Cancellers -> CancelRecords \cup {None}]
    /\ claimed \in [CancelKeys -> Keys \cup {None}]
    /\ hangups \in [CancelKeys -> Nat]
    /\ \A t \in Cancellers : cancel[t] # None /\ cancel[t].pc \in {"claimed", "heard"} =>
           /\ cancel[t].attempt \in Keys /\ row[cancel[t].attempt] # None
           /\ claimed[cancel[t].key] # None
    /\ \A t \in Cancellers : Claims(t) => hangups[cancel[t].key] = 0
    /\ \A t, u \in Cancellers : Claims(t) /\ Claims(u) /\ cancel[t].key = cancel[u].key => t = u
    /\ \A c \in CancelKeys : hangups[c] \in {0, 1} /\ (claimed[c] = None => hangups[c] = 0)

\* A step that writes one row leaves every row there.
LEMMA RowWritten ==
    ASSUME RowType, NEW k \in Keys, NEW x \in Rows, row' = [row EXCEPT ![k] = x]
    PROVE  RowType' /\ RowsKept
BY VoiceAssumption DEF RowType, RowsKept

LEMMA RowUnchanged ==
    ASSUME RowType, UNCHANGED row
    PROVE  RowType' /\ RowsKept
BY DEF RowType, RowsKept

\* A row of which some columns are updated.
LEMMA RowUpdated ==
    ASSUME RowType, NEW k \in Keys, row[k] # None, NEW status \in Statuses,
           NEW sid \in BOOLEAN, NEW uncertain \in BOOLEAN
    PROVE  /\ [row[k] EXCEPT !.status = status] \in Rows
           /\ [row[k] EXCEPT !.status = status, !.sid = sid] \in Rows
           /\ [row[k] EXCEPT !.status = status, !.uncertain = uncertain] \in Rows
<1>1. row[k] \in Rows
  BY DEF RowType
<1> QED BY <1>1 DEF Rows

LEMMA SaveRow ==
    ASSUME RowType, StartType, SubmitInv, NEW r \in Requests, SaveAttempt(r)
    PROVE  RowType' /\ RowsKept
<1> DEFINE k == start[r].key
           result == start[r].result
           x == [status |-> result, sid |-> result = "SUBMITTED",
                 uncertain |-> result = "UNCERTAIN"]
<1>1. k \in Keys /\ result \in Results
  BY DEF SaveAttempt, StartType, Starts, SubmitInv, HasReservation
<1>2. x \in Rows
  <2>1. result \in Statuses
    BY <1>1 DEF Results, Statuses, ActiveStatuses, TerminalStatuses
  <2>2. (result = "SUBMITTED") \in BOOLEAN /\ (result = "UNCERTAIN") \in BOOLEAN
    OBVIOUS
  <2> QED BY <2>1, <2>2 DEF Rows
<1>3. row' = [row EXCEPT ![k] = x] \/ UNCHANGED row
  BY <1>1 DEF SaveAttempt, Saved, RowType
<1> HIDE DEF k, x
<1> QED BY <1>1, <1>2, <1>3, RowWritten, RowUnchanged

LEMMA ReserveRow ==
    ASSUME RowType, StartType, NEW r \in Requests, ReserveAttempt(r)
    PROVE  RowType' /\ RowsKept
<1> DEFINE x == [status |-> "RESERVED", sid |-> FALSE, uncertain |-> FALSE]
<1>1. start[r].key \in Keys
  BY DEF ReserveAttempt, StartType, Starts
<1>2. x \in Rows
  BY DEF Rows, Statuses, ActiveStatuses
<1>3. row' = [row EXCEPT ![start[r].key] = x] \/ UNCHANGED row
  BY DEF ReserveAttempt, Reserved
<1> HIDE DEF x
<1> QED BY <1>1, <1>2, <1>3, RowWritten, RowUnchanged

LEMMA ApplyRow ==
    ASSUME RowType, CallbackInv, NEW h \in Callbacks, ApplyCallback(h)
    PROVE  RowType' /\ RowsKept
<1> DEFINE k == callback[h].key
           e == callback[h].event
<1>1. k \in Keys /\ e \in EventKinds /\ row[k] # None /\ row[k] \in Rows
  BY DEF ApplyCallback, CallbackInv, CallbackRecords, RowType
<1>2. EventStatus(e) # None => EventStatus(e) \in Statuses
  BY <1>1 DEF EventStatus, EventKinds, EndStatuses, Statuses, ActiveStatuses, TerminalStatuses
<1>3. row[k].status \in Statuses /\ row[k].sid \in BOOLEAN
  BY <1>1 DEF Rows
<1>4. CASE row' = Updated(k, callback[h].copy, e)
  <2>1. PICK status \in Statuses, sid \in BOOLEAN :
            row' = [row EXCEPT ![k] = [row[k] EXCEPT !.status = status, !.sid = sid]]
    BY <1>1, <1>2, <1>3, <1>4 DEF Updated, RowType
  <2> HIDE DEF k
  <2>2. [row[k] EXCEPT !.status = status, !.sid = sid] \in Rows
    BY <1>1, RowUpdated
  <2> QED BY <1>1, <2>1, <2>2, RowWritten
<1> HIDE DEF k, e
<1>5. row' = Updated(k, callback[h].copy, e) \/ UNCHANGED row
  BY DEF ApplyCallback, attemptVars, k, e
<1> QED BY <1>4, <1>5, RowUnchanged

LEMMA ClaimRow ==
    ASSUME RowType, NEW t \in Cancellers, ClaimCancellation(t)
    PROVE  RowType' /\ RowsKept
<1>1. ASSUME NEW k \in Active(row), row' = [row EXCEPT ![k].status = "CANCEL_PENDING"]
      PROVE  RowType' /\ RowsKept
  <2>1. k \in Keys /\ row[k] # None
    BY DEF Active
  <2>2. [row[k] EXCEPT !.status = "CANCEL_PENDING"] \in Rows
    BY <2>1, RowUpdated DEF Statuses, TerminalStatuses
  <2>3. row' = [row EXCEPT ![k] = [row[k] EXCEPT !.status = "CANCEL_PENDING"]]
    BY <1>1, <2>1 DEF RowType
  <2> QED BY <2>1, <2>2, <2>3, RowWritten
<1> QED BY <1>1, RowUnchanged DEF ClaimCancellation

LEMMA FinalizeRow ==
    ASSUME RowType, CancelInv, NEW t \in Cancellers, FinalizeCancellation(t)
    PROVE  RowType' /\ RowsKept
<1> DEFINE k == cancel[t].attempt
           ok == cancel[t].confirmed
           x == [row[k] EXCEPT !.status = CancelStatus(ok), !.uncertain = ~ok]
<1>1. k \in Keys /\ row[k] # None /\ ok \in BOOLEAN
  BY DEF FinalizeCancellation, CancelInv, CancelRecords
<1>2. CancelStatus(ok) \in Statuses
  BY DEF CancelStatus, Statuses, TerminalStatuses
<1>3. row' = [row EXCEPT ![k] = x]
  BY <1>1 DEF FinalizeCancellation, RowType
<1>4. x \in Rows
  BY <1>1, <1>2, RowUpdated
<1> HIDE DEF k, x
<1> QED BY <1>1, <1>3, <1>4, RowWritten

\* No step loses a row.
LEMMA RowStep ==
    ASSUME RowType, StartType, SubmitInv, CallbackInv, CancelInv, [Next]_vars
    PROVE  RowType' /\ RowsKept
<1>1. CASE Starting
  BY <1>1, SaveRow, RowUnchanged
     DEF Starting, ReceiveStart, ClaimVoiceAction, CheckStart, StartLost, FinalizeVoiceAction,
         ProcessDies, attemptVars
<1>2. CASE Reserving
  BY <1>2, ReserveRow DEF Reserving
<1>3. CASE CallingBack
  BY <1>3, ApplyRow, RowUnchanged DEF CallingBack, HangUp, CallbackLost, attemptVars
<1>4. CASE Cancelling
  BY <1>4, ClaimRow, FinalizeRow, RowUnchanged
     DEF Cancelling, CancelAction, SubmitCancellation, CancelLost, attemptVars
<1> QED BY <1>1, <1>2, <1>3, <1>4, Groups, Frames, RowUnchanged

\* A step of one callback, the others and the rows it needs staying.
LEMMA OneCallback ==
    ASSUME CallbackInv, RowsKept, NEW h \in Callbacks, NEW x \in CallbackRecords \cup {None},
           callback' = [callback EXCEPT ![h] = x],
           x # None => /\ row'[x.key] # None /\ <<x.key, x.event>> \in Events
                       /\ x.pc = "hangup" => suppressed',
           suppressed' \in BOOLEAN, suppressed => suppressed',
           receipts' \subseteq Events, OptOutIsKept'
    PROVE  CallbackInv'
<1>1. /\ callback' \in [Callbacks -> CallbackRecords \cup {None}] /\ callback'[h] = x
      /\ \A g \in Callbacks \ {h} : callback'[g] = callback[g]
  BY DEF CallbackInv
<1>2. ASSUME NEW g \in Callbacks, callback'[g] # None
      PROVE  /\ row'[callback'[g].key] # None
             /\ <<callback'[g].key, callback'[g].event>> \in Events
             /\ callback'[g].pc = "hangup" => suppressed'
  <2>1. CASE g = h
    BY <1>1, <1>2, <2>1
  <2>2. CASE g # h
    <3>1. callback'[g] = callback[g] /\ callback[g].key \in Keys
      BY <1>1, <1>2, <2>2 DEF CallbackInv, CallbackRecords
    <3> QED BY <1>2, <3>1 DEF CallbackInv, RowsKept
  <2> QED BY <2>1, <2>2
<1> QED BY <1>1, <1>2 DEF CallbackInv

LEMMA ReceiveStep ==
    ASSUME CallbackInv, RowType, NEW h \in Callbacks, NEW ke \in Events,
           ReceiveCallback(h, ke[1], ke[2])
    PROVE  CallbackInv'
<1> DEFINE x == [pc |-> "loaded", key |-> ke[1], event |-> ke[2], copy |-> row[ke[1]],
                 committed |-> FALSE]
<1>1. ke \in Keys \X EventKinds
  BY VoiceAssumption
<1>2. ke[1] \in Keys /\ ke[2] \in EventKinds /\ <<ke[1], ke[2]>> = ke
  BY <1>1
<1>3. row[ke[1]] \in Rows /\ row[ke[1]] # None
  BY <1>2 DEF ReceiveCallback, Reportable, RowType
<1>4. x \in CallbackRecords /\ x.key = ke[1] /\ x.event = ke[2] /\ x.pc = "loaded"
  BY <1>2, <1>3 DEF CallbackRecords
<1>5. /\ callback' = [callback EXCEPT ![h] = x]
      /\ UNCHANGED <<row, receipts, suppressed>>
  BY DEF ReceiveCallback, attemptVars, customerVars
<1> HIDE DEF x
<1>6. /\ receipts' \subseteq Events /\ OptOutIsKept' /\ suppressed' \in BOOLEAN
      /\ suppressed => suppressed'
  BY <1>5 DEF CallbackInv, OptOutIsKept
<1>7. RowsKept
  BY <1>5 DEF RowsKept
<1> QED BY <1>2, <1>3, <1>4, <1>5, <1>6, <1>7, OneCallback

LEMMA ApplyStep ==
    ASSUME CallbackInv, RowsKept, NEW h \in Callbacks, ApplyCallback(h)
    PROVE  CallbackInv'
<1> DEFINE k == callback[h].key
           e == callback[h].event
<1>1. /\ callback[h] \in CallbackRecords /\ k \in Keys /\ <<k, e>> \in Events
      /\ row[k] # None /\ row'[k] # None /\ suppressed \in BOOLEAN
  BY DEF ApplyCallback, CallbackInv, CallbackRecords, RowsKept
<1>2. CASE callback' = [callback EXCEPT ![h] = None] /\ UNCHANGED <<attemptVars, suppressed>>
  <2>1. /\ receipts' \subseteq Events /\ OptOutIsKept' /\ suppressed' \in BOOLEAN
        /\ suppressed => suppressed'
    BY <1>2 DEF CallbackInv, OptOutIsKept, attemptVars
  <2> QED BY <1>2, <2>1, OneCallback
<1>3. CASE /\ suppressed' = (suppressed \/ Suppresses(e))
           /\ receipts' \in {receipts, receipts \cup {<<k, e>>}}
           /\ \/ callback' = [callback EXCEPT ![h] = None]
              \/ /\ e \in OptOutEvents
                 /\ callback' = [callback EXCEPT ![h].pc = "hangup",
                                                 ![h].committed = Suppresses(e)]
  <2>1. /\ suppressed' \in BOOLEAN /\ (suppressed => suppressed')
        /\ e \in OptOutEvents => suppressed'
    BY <1>1, <1>3 DEF Suppresses
  <2>2. receipts' \subseteq Events
    BY <1>1, <1>3 DEF CallbackInv
  <2>3. OptOutIsKept'
    <3>1. ASSUME NEW l \in Keys, NEW d \in OptOutEvents, <<l, d>> \in receipts'
          PROVE  suppressed'
      BY <1>3, <2>1, <3>1 DEF CallbackInv, OptOutIsKept
    <3> QED BY <3>1 DEF OptOutIsKept
  <2>4. CASE callback' = [callback EXCEPT ![h] = None]
    BY <2>1, <2>2, <2>3, <2>4, OneCallback
  <2>5. CASE /\ e \in OptOutEvents
             /\ callback' = [callback EXCEPT ![h].pc = "hangup",
                                             ![h].committed = Suppresses(e)]
    <3> DEFINE b == Suppresses(e)
               x == [callback[h] EXCEPT !.pc = "hangup", !.committed = b]
    <3>1. b \in BOOLEAN
      BY DEF Suppresses
    <3>2. callback' = [callback EXCEPT ![h] = x]
      BY <2>5 DEF CallbackInv
    <3> HIDE DEF b
    <3>3. x \in CallbackRecords /\ x.key = k /\ x.event = e
      BY <1>1, <3>1 DEF CallbackRecords
    <3> HIDE DEF x, k, e
    <3> QED BY <1>1, <2>1, <2>2, <2>3, <2>5, <3>2, <3>3, OneCallback
  <2> HIDE DEF k, e
  <2> QED BY <1>3, <2>4, <2>5
<1> HIDE DEF k, e
<1>4. {"LIVE_OPT_OUT", "TRANSCRIPT_OPT_OUT"} \subseteq OptOutEvents
  BY DEF OptOutEvents
<1> QED BY <1>2, <1>3, <1>4 DEF ApplyCallback, k, e

LEMMA HangUpStep ==
    ASSUME CallbackInv, RowsKept, NEW h \in Callbacks, HangUp(h)
    PROVE  CallbackInv'
<1> DEFINE k == callback[h].key
           e == callback[h].event
<1>1. /\ <<k, e>> \in Events /\ suppressed /\ suppressed' = suppressed
      /\ callback' = [callback EXCEPT ![h] = None]
  BY DEF HangUp, CallbackInv, customerVars
<1>2. receipts' \in {receipts, receipts \cup {<<k, e>>}}
  BY DEF HangUp
<1> HIDE DEF k, e
<1>3. receipts' \subseteq Events /\ OptOutIsKept' /\ suppressed' \in BOOLEAN
  BY <1>1, <1>2 DEF CallbackInv, OptOutIsKept
<1> QED BY <1>1, <1>3, OneCallback

LEMMA CallbackKept ==
    ASSUME CallbackInv, RowsKept, UNCHANGED <<callback, receipts, suppressed>>
    PROVE  CallbackInv'
<1>1. \A h \in Callbacks : callback[h] # None => callback[h].key \in Keys
  BY DEF CallbackInv, CallbackRecords
<1> QED BY <1>1 DEF CallbackInv, RowsKept, OptOutIsKept

LEMMA CallbackStep ==
    ASSUME CallbackInv, RowType, RowsKept, [Next]_vars
    PROVE  CallbackInv'
<1>1. CASE Receiving
  BY <1>1, ReceiveStep DEF Receiving
<1>2. ASSUME NEW h \in Callbacks, CallbackLost(h) PROVE CallbackInv'
  <2>1. /\ callback' = [callback EXCEPT ![h] = None] /\ UNCHANGED <<receipts, suppressed>>
    BY <1>2 DEF CallbackLost, attemptVars, customerVars
  <2>2. /\ receipts' \subseteq Events /\ OptOutIsKept' /\ suppressed' \in BOOLEAN
        /\ suppressed => suppressed'
    BY <2>1 DEF CallbackInv, OptOutIsKept
  <2> QED BY <2>1, <2>2, OneCallback
<1>3. CASE CallingBack
  BY <1>2, <1>3, ApplyStep, HangUpStep DEF CallingBack
<1> QED BY <1>1, <1>3, Groups, Frames, CallbackKept

\* What CancelInv says of the attempt a cancellation has claimed.
Holds(t) ==
    cancel[t] # None /\ cancel[t].pc \in {"claimed", "heard"} =>
        /\ cancel[t].attempt \in Keys /\ row[cancel[t].attempt] # None
        /\ claimed[cancel[t].key] # None

LEMMA CancelKept ==
    ASSUME CancelInv, RowsKept, UNCHANGED <<cancel, claimed, hangups>>
    PROVE  CancelInv'
BY DEF CancelInv, Claims, RowsKept

\* A cancellation that begins, ends or has heard the provider's answer.
LEMMA CancelMoves ==
    ASSUME CancelInv, RowsKept, NEW t \in Cancellers, NEW x \in CancelRecords \cup {None},
           cancel' = [cancel EXCEPT ![t] = x], UNCHANGED claimed,
           x = None \/ x.pc = "claim"
             \/ (x.pc = "heard" /\ Claims(t) /\ x.attempt = cancel[t].attempt
                   /\ x.key = cancel[t].key),
           UNCHANGED hangups \/ (Claims(t) /\ hangups' = [hangups EXCEPT ![cancel[t].key] = @ + 1])
    PROVE  CancelInv'
<1>1. /\ cancel' \in [Cancellers -> CancelRecords \cup {None}] /\ cancel'[t] = x
      /\ \A u \in Cancellers \ {t} : cancel'[u] = cancel[u]
  BY DEF CancelInv
<1>2. ~Claims(t)' /\ \A u \in Cancellers : Claims(u)' => u # t /\ Claims(u)
  BY <1>1 DEF Claims
<1>3. \A u \in Cancellers : cancel[u] # None => cancel[u].key \in CancelKeys
  BY DEF CancelInv, CancelRecords
<1>4. hangups' \in [CancelKeys -> Nat]
  BY DEF CancelInv
<1>5. \A c \in CancelKeys : \/ hangups'[c] = hangups[c]
                            \/ /\ Claims(t) /\ c = cancel[t].key /\ hangups[c] = 0
                               /\ hangups'[c] = 1 /\ claimed[c] # None
  BY <1>3 DEF CancelInv, Claims
<1>6. ASSUME NEW u \in Cancellers PROVE Holds(u)'
  <2>1. CASE u = t
    BY <1>1, <2>1 DEF Holds, CancelInv, RowsKept, Claims
  <2>2. CASE u # t
    BY <1>1, <2>2 DEF Holds, CancelInv, RowsKept
  <2> QED BY <2>1, <2>2
<1>7. ASSUME NEW u \in Cancellers, Claims(u)' PROVE hangups'[cancel'[u].key] = 0
  <2>1. u # t /\ Claims(u) /\ cancel'[u] = cancel[u] /\ cancel[u].key \in CancelKeys
    BY <1>1, <1>2, <1>3, <1>7 DEF Claims
  <2>2. hangups[cancel[u].key] = 0 /\ (Claims(t) => cancel[u].key # cancel[t].key)
    BY <2>1 DEF CancelInv
  <2> QED BY <1>5, <2>1, <2>2
<1>8. \A u, v \in Cancellers : Claims(u)' /\ Claims(v)' /\ cancel'[u].key = cancel'[v].key => u = v
  BY <1>1, <1>2 DEF CancelInv
<1>9. \A c \in CancelKeys : hangups'[c] \in {0, 1} /\ (claimed'[c] = None => hangups'[c] = 0)
  BY <1>5 DEF CancelInv
<1>10. claimed' \in [CancelKeys -> Keys \cup {None}]
  BY DEF CancelInv
<1> QED BY <1>1, <1>4, <1>6, <1>7, <1>8, <1>9, <1>10 DEF CancelInv, Holds

\* The receipt of a cancellation key goes to one cancellation.
LEMMA ClaimStep ==
    ASSUME CancelInv, RowType, RowsKept, NEW t \in Cancellers, ClaimCancellation(t)
    PROVE  CancelInv'
<1> DEFINE c == cancel[t].key
<1>0. cancel[t] \in CancelRecords /\ cancel[t].pc = "claim" /\ c \in CancelKeys
      /\ UNCHANGED hangups
  BY DEF ClaimCancellation, CancelInv, CancelRecords
<1>1. CASE cancel' = [cancel EXCEPT ![t] = None] /\ UNCHANGED <<row, claimed>>
  BY <1>0, <1>1, CancelMoves
<1>2. ASSUME NEW k \in Active(row), claimed[c] = None,
             claimed' = [claimed EXCEPT ![c] = k],
             cancel' = [cancel EXCEPT ![t].pc = "claimed", ![t].attempt = k,
                                      ![t].sid = row[k].sid]
      PROVE  CancelInv'
  <2> DEFINE sid == row[k].sid
             x == [cancel[t] EXCEPT !.pc = "claimed", !.attempt = k, !.sid = sid]
  <2>1. k \in Keys /\ row[k] # None /\ row[k] \in Rows /\ k # None
    BY VoiceAssumption DEF Active, RowType
  <2>2. sid \in BOOLEAN
    BY <2>1 DEF Rows
  <2>3. cancel' = [cancel EXCEPT ![t] = x]
    BY <1>2 DEF CancelInv
  <2> HIDE DEF sid
  <2>4. x \in CancelRecords /\ x.pc = "claimed" /\ x.attempt = k /\ x.key = c
    BY <1>0, <2>1, <2>2 DEF CancelRecords
  <2> HIDE DEF x, c
  <2>5. /\ cancel' \in [Cancellers -> CancelRecords \cup {None}] /\ cancel'[t] = x
        /\ \A u \in Cancellers \ {t} : cancel'[u] = cancel[u]
    BY <2>3, <2>4 DEF CancelInv
  <2>6. /\ claimed' \in [CancelKeys -> Keys \cup {None}] /\ claimed'[c] = k
        /\ \A d \in CancelKeys \ {c} : claimed'[d] = claimed[d]
    BY <1>0, <1>2, <2>1 DEF CancelInv
  <2>7. hangups[c] = 0
    BY <1>0, <1>2 DEF CancelInv
  <2>8. \A u \in Cancellers \ {t} : Claims(u)' => Claims(u) /\ cancel[u].key # c
    BY <1>2, <2>5 DEF Claims, CancelInv
  <2>9. ASSUME NEW u \in Cancellers PROVE Holds(u)'
    <3>1. CASE u = t
      BY <2>1, <2>4, <2>5, <2>6, <3>1 DEF Holds, RowsKept
    <3>2. CASE u # t
      <4>1. cancel[u] # None => cancel[u].key \in CancelKeys
        BY DEF CancelInv, CancelRecords
      <4> QED BY <2>1, <2>5, <2>6, <3>2, <4>1 DEF Holds, CancelInv, RowsKept
    <3> QED BY <3>1, <3>2
  <2>10. \A u \in Cancellers : Claims(u)' => hangups'[cancel'[u].key] = 0
    BY <1>0, <2>4, <2>5, <2>7, <2>8 DEF CancelInv
  <2>11. \A u, v \in Cancellers :
             Claims(u)' /\ Claims(v)' /\ cancel'[u].key = cancel'[v].key => u = v
    BY <2>4, <2>5, <2>8 DEF CancelInv
  <2>12. /\ hangups' \in [CancelKeys -> Nat]
         /\ \A d \in CancelKeys :
                hangups'[d] \in {0, 1} /\ (claimed'[d] = None => hangups'[d] = 0)
    BY <1>0, <2>6, <2>7 DEF CancelInv
  <2> QED BY <2>5, <2>6, <2>9, <2>10, <2>11, <2>12 DEF CancelInv, Holds
<1> QED BY <1>1, <1>2 DEF ClaimCancellation, MayClaim

\* The one hang-up of a claim.
LEMMA SubmitCancelStep ==
    ASSUME CancelInv, RowsKept, NEW t \in Cancellers, SubmitCancellation(t)
    PROVE  CancelInv'
<1>1. /\ cancel[t] \in CancelRecords /\ Claims(t) /\ UNCHANGED claimed
      /\ UNCHANGED hangups \/ hangups' = [hangups EXCEPT ![cancel[t].key] = @ + 1]
  BY DEF SubmitCancellation, CancelInv, Claims
<1>2. PICK ok \in BOOLEAN :
          cancel' = [cancel EXCEPT ![t] = [cancel[t] EXCEPT !.pc = "heard", !.confirmed = ok]]
  BY DEF SubmitCancellation, CancelInv
<1> DEFINE x == [cancel[t] EXCEPT !.pc = "heard", !.confirmed = ok]
<1>3. /\ x \in CancelRecords /\ x.pc = "heard" /\ x.attempt = cancel[t].attempt
      /\ x.key = cancel[t].key
  BY <1>1 DEF CancelRecords
<1> HIDE DEF x
<1> QED BY <1>1, <1>2, <1>3, CancelMoves DEF x

LEMMA CancelStep ==
    ASSUME CancelInv, RowType, RowsKept, [Next]_vars
    PROVE  CancelInv'
<1>1. ASSUME NEW t \in Cancellers, NEW c \in CancelKeys, CancelAction(t, c) PROVE CancelInv'
  <2> DEFINE x == [pc |-> "claim", key |-> c, attempt |-> None, sid |-> FALSE,
                   confirmed |-> FALSE]
  <2>1. x \in CancelRecords /\ x.pc = "claim"
    BY DEF CancelRecords
  <2>2. cancel' = [cancel EXCEPT ![t] = x] /\ UNCHANGED <<claimed, hangups>>
    BY <1>1 DEF CancelAction
  <2> HIDE DEF x
  <2> QED BY <2>1, <2>2, CancelMoves
<1>2. ASSUME NEW t \in Cancellers, CancelLost(t) \/ FinalizeCancellation(t) PROVE CancelInv'
  BY <1>2, CancelMoves DEF CancelLost, FinalizeCancellation
<1>3. CASE Cancelling
  BY <1>1, <1>2, <1>3, ClaimStep, SubmitCancelStep DEF Cancelling
<1> QED BY <1>3, Groups, Frames, CancelKept

----------------------------------------------------------------------------
(* The theorems. *)

RestInv ==
    /\ consent \in BOOLEAN /\ posts \in [Keys -> Nat]
    /\ action \in {"SCHEDULED", "EXECUTING", "SUCCEEDED", "CANCELLED"}
    /\ call \in [Keys -> {"none", "live", "ended"}]

LEMMA StartStep ==
    ASSUME StartType, SubmitInv, RowType, RestInv, RowsKept, [Next]_vars
    PROVE  StartType' /\ SubmitInv' /\ posts' \in [Keys -> Nat]
<1>1. CASE Starting
  <2>1. StartType' /\ \A s \in Requests : Ordinary(s)
    BY <1>1, OrdinaryStarts DEF Starting
  <2> QED BY <1>1, <2>1, OrdinaryStep, Frames DEF RestInv
<1>2. CASE Reserving
  BY <1>2, ReserveStep, Frames DEF Reserving, RestInv
<1>3. CASE Submitting
  BY <1>3, SubmitStep DEF Submitting, RestInv
<1>4. CASE Answering
  <2>1. StartType' /\ \A s \in Requests : Ordinary(s)
    BY <1>4, AnswerStep DEF Answering
  <2> QED BY <1>4, <2>1, OrdinaryStep, Frames DEF RestInv
<1>5. CASE UNCHANGED <<start, posts>>
  <2>1. StartType' /\ \A s \in Requests : Ordinary(s)
    BY <1>5, OthersOrdinary DEF StartType
  <2> QED BY <1>5, <2>1, OrdinaryStep DEF RestInv
<1> QED BY <1>1, <1>2, <1>3, <1>4, <1>5, Groups, Frames

LEMMA RestStep ==
    ASSUME RestInv, StartType, CallbackInv, CancelInv, posts' \in [Keys -> Nat], [Next]_vars
    PROVE  RestInv'
<1>1. consent' \in BOOLEAN
  <2>1. CASE Outside
    BY <2>1 DEF Outside, ConfigureContact, ConfigureSubject, CallEnds, customerVars, vars, RestInv
  <2> QED BY <2>1, Groups, Frames DEF RestInv
<1>2. action' \in {"SCHEDULED", "EXECUTING", "SUCCEEDED", "CANCELLED"}
  <2>1. CASE Starting
    BY <2>1 DEF Starting, ReceiveStart, ClaimVoiceAction, CheckStart, SaveAttempt, StartLost,
                FinalizeVoiceAction, ProcessDies, RestInv
  <2>2. CASE Cancelling
    BY <2>2 DEF Cancelling, CancelAction, ClaimCancellation, SubmitCancellation,
                FinalizeCancellation, CancelLost, RestInv
  <2> QED BY <2>1, <2>2, Groups, Frames DEF RestInv
<1>3. call' \in [Keys -> {"none", "live", "ended"}]
  <2>1. ASSUME NEW k, NEW s \in {"live", "ended"}, call' = [call EXCEPT ![k] = s]
        PROVE  call' \in [Keys -> {"none", "live", "ended"}]
    BY <2>1 DEF RestInv
  <2>2. CASE UNCHANGED call
    BY <2>2 DEF RestInv
  <2>3. CASE Submitting
    BY <2>1, <2>2, <2>3 DEF Submitting, SubmitCall, twilioVars
  <2>4. CASE CallingBack
    BY <2>1, <2>2, <2>4 DEF CallingBack, ApplyCallback, HangUp, CallbackLost, twilioVars
  <2>5. CASE Cancelling
    BY <2>1, <2>2, <2>5 DEF Cancelling, CancelAction, ClaimCancellation, SubmitCancellation,
                            FinalizeCancellation, CancelLost, twilioVars
  <2>6. CASE Outside
    BY <2>1, <2>2, <2>6 DEF Outside, ConfigureContact, CallEnds, twilioVars, vars
  <2> QED BY <2>2, <2>3, <2>4, <2>5, <2>6, Groups, Frames
<1> QED BY <1>1, <1>2, <1>3 DEF RestInv

Inv ==
    /\ StartType /\ RowType /\ SubmitInv /\ BreakerInv
    /\ CallbackInv /\ CancelInv /\ RestInv

LEMMA Initially == Init => Inv
<1> SUFFICES ASSUME Init PROVE Inv
  OBVIOUS
<1> USE DEF Init
<1>1. StartType /\ RowType /\ RestInv
  BY DEF StartType, RowType, RestInv
<1>2. SubmitInv
  BY DEF SubmitInv, HasReservation
<1>3. BreakerInv
  BY ClosedBreakerOK DEF BreakerInv
<1>4. CallbackInv
  BY DEF CallbackInv, OptOutIsKept
<1>5. CancelInv
  BY DEF CancelInv, Claims
<1> QED BY <1>1, <1>2, <1>3, <1>4, <1>5 DEF Inv

LEMMA Inductive == Inv /\ [Next]_vars => Inv'
<1> SUFFICES ASSUME Inv, [Next]_vars PROVE Inv'
  OBVIOUS
<1>1. RowType' /\ RowsKept
  BY RowStep DEF Inv
<1>2. StartType' /\ SubmitInv' /\ posts' \in [Keys -> Nat]
  BY <1>1, StartStep DEF Inv
<1>3. BreakerInv' /\ CallbackInv' /\ CancelInv'
  BY <1>1, BreakerStep, CallbackStep, CancelStep DEF Inv
<1>4. RestInv'
  BY <1>2, RestStep DEF Inv
<1> QED BY <1>1, <1>2, <1>3, <1>4 DEF Inv

\* Every variable keeps its type.
THEOREM TypeCorrect == Spec => []TypeOK
<1>1. Inv => TypeOK
  BY DEF Inv, TypeOK, StartType, Starts, Results, RowType, BreakerInv, CallbackInv,
         CallbackRecords, CancelInv, CancelRecords, RestInv
<1> QED BY <1>1, Initially, Inductive, PTL DEF Spec

\* One idempotency key places at most one call, one cancellation key hangs up
\* at most once: start reserves its row before the POST and the cancellation
\* commits its receipt before it calls the provider.
THEOREM OneCallPerKey == Spec => []SubmittedOnce
<1>1. Inv => SubmittedOnce
  BY DEF Inv, SubmittedOnce, SubmitInv, CancelInv
<1> QED BY <1>1, Initially, Inductive, PTL DEF Spec

\* A recorded opt-out has suppressed the customer, whichever of the three
\* callbacks brought it and wherever its request died.
THEOREM OptOutsAreKept == Spec => []OptOutIsKept
<1>1. Inv => OptOutIsKept
  BY DEF Inv, CallbackInv
<1> QED BY <1>1, Initially, Inductive, PTL DEF Spec

\* A process that was told of a submission in doubt places no call until one is
\* confirmed or it starts afresh: its breaker is open, and before_call does not
\* half open it, however long ago that was.
THEOREM UncertaintyStopsCalls == Spec => DoubtStopsCalls
<1> DEFINE Quiet == \A r \in Requests :
               start[r] # None /\ start[r].pc = "reserved" /\ start[r].process \in doubtful
               => start'[r] = None \/ start'[r].pc # "posting"
<1>1. ASSUME Inv, [Next]_vars PROVE [Quiet]_vars
  <2> SUFFICES ASSUME NEW r \in Requests, start[r] # None, start[r].pc = "reserved",
                      start[r].process \in doubtful, start'[r] # None
               PROVE  start'[r].pc # "posting"
    OBVIOUS
  <2>1. start[r] \in Starts /\ start[r].process \in Processes
    BY <1>1 DEF Inv, StartType, Starts
  <2>2. CASE start'[r] = start[r]
    BY <2>2
  <2>3. ASSUME NEW s \in Requests, NEW elapsed \in BOOLEAN, SubmitCall(s, elapsed)
        PROVE  start'[r].pc # "posting"
    <3>1. CASE s = r
      <4>1. ~Allows(HalfOpened(breaker[start[r].process], elapsed))
        <5>1. PICK b \in Breakers : b = breaker[start[r].process]
          BY <1>1, <2>1 DEF Inv, BreakerInv
        <5>2. b.uncertain => b.state = "OPEN"
          BY <1>1, <2>1, <5>1 DEF Inv, BreakerInv
        <5>3. b.uncertain = TRUE
          BY <1>1, <5>1 DEF Inv, BreakerInv
        <5>4. b.uncertain => ~Allows(HalfOpened(b, elapsed))
          BY <5>2, BreakerKeeps DEF FailureKinds
        <5> QED BY <5>1, <5>3, <5>4
      <4>2. PICK result : start' = [start EXCEPT ![r].pc = "answered", ![r].result = result]
        BY <2>3, <3>1, <4>1 DEF SubmitCall
      <4>3. start'[r].pc = "answered"
        BY <1>1, <2>1, <4>2 DEF Inv, StartType, Starts
      <4> QED BY <4>3
    <3>2. CASE s # r
      <4>1. start'[r] = start[r]
        BY <1>1, <2>3, <3>2 DEF SubmitCall, Goes, Inv, StartType
      <4> QED BY <2>2, <4>1
    <3> QED BY <3>1, <3>2
  <2>4. CASE Starting \/ Answering
    <3>1. \A q \in Requests : Ordinary(q)
      BY <1>1, <2>4, OrdinaryStarts, AnswerStep DEF Inv, Starting, Answering
    <3> QED BY <3>1 DEF Ordinary
  <2>5. ASSUME NEW s \in Requests, ReserveAttempt(s) PROVE start'[r] = start[r]
    <3>1. s # r
      BY <2>5 DEF ReserveAttempt
    <3> QED BY <1>1, <2>5, <3>1
            DEF ReserveAttempt, Reserved, Ends, Goes, Returns, Inv, StartType
  <2> QED BY <1>1, <2>2, <2>3, <2>4, <2>5, Groups, Frames DEF Submitting, Reserving
<1> QED BY <1>1, Initially, Inductive, PTL DEF Spec, DoubtStopsCalls

----------------------------------------------------------------------------
(* What the rows, the requests and the action say of the calls.  A call is  *)
(* placed once and never comes back, and a cancellation stays with its      *)
(* attempt: what anyone has heard of them stays true until it is written.   *)

Called(k) == call[k] # "none"
Over(k) == call[k] = "ended"
Claimed(k) == \E c \in CancelKeys : claimed[c] = k

\* A row that is closed has its call over, a rejected one has no call and none
\* to come, and one that is neither open nor uncertain has a call or a
\* cancellation.
RowFact(k) == row[k] # None =>
    /\ row[k].status \in EndStatuses => Over(k)
    /\ row[k].status = "REJECTED" =>
           ~Called(k) /\ \A r \in Requests : HasReservation(r) => start[r].key # k
    /\ row[k].sid => Called(k)
    /\ \/ row[k].status \in {"RESERVED", "REJECTED"} \/ row[k].uncertain
       \/ Called(k) \/ Claimed(k)

\* The provider's answer, and what the activity goes on to finalize.
StartFact(r) == start[r] # None =>
    /\ r \notin ApiRequests => start[r].key = ActionKey
    /\ start[r].pc = "answered" =>
           /\ start[r].result = "REJECTED" => ~Called(start[r].key)
           /\ start[r].result = "SUBMITTED" => Called(start[r].key)
    /\ start[r].pc = "returned" =>
           /\ r \notin ApiRequests
           /\ start[r].result = "SUBMITTED" => Called(start[r].key) \/ Claimed(start[r].key)

CallbackFact(h) == callback[h] # None =>
    /\ Called(callback[h].key)
    /\ callback[h].event \in EndStatuses \cup {"POST_CALL_OPT_OUT"} => Over(callback[h].key)

CancelFact(t) == cancel[t] # None /\ cancel[t].pc \in {"claimed", "heard"} =>
    /\ claimed[cancel[t].key] = cancel[t].attempt
    /\ cancel[t].sid => Called(cancel[t].attempt)
    /\ cancel[t].pc = "heard" /\ cancel[t].confirmed => Over(cancel[t].attempt)

PostFact(k) == posts[k] = 0 <=> ~Called(k)
ActionFact == action = "SUCCEEDED" => Called(ActionKey) \/ Claimed(ActionKey)

CallInv ==
    /\ \A k \in Keys : PostFact(k) /\ RowFact(k)
    /\ \A r \in Requests : StartFact(r)
    /\ \A h \in Callbacks : CallbackFact(h)
    /\ \A t \in Cancellers : CancelFact(t)
    /\ ActionFact

\* The request places the call of its key in this step.
Places(r, k) ==
    start[r] # None /\ start[r].pc = "reserved" /\ start[r].key = k /\ Goes(r, "posting")

\* What no step takes back, and how a call comes about.
CallsKept ==
    \A k \in Keys :
        /\ Called(k) => Called(k)'
        /\ Over(k) => Over(k)'
        /\ Claimed(k) => Claimed(k)'
        /\ Called(k)' => Called(k) \/ \E r \in Requests : Places(r, k)

\* A call that is hung up or ends had been placed.
LEMMA CallEnded ==
    ASSUME RestInv, NEW k \in Keys, Called(k), call' = [call EXCEPT ![k] = "ended"]
    PROVE  \A l \in Keys : (Called(l)' <=> Called(l)) /\ (Over(l) => Over(l)')
BY DEF RestInv, Called, Over

LEMMA CallsStep ==
    ASSUME Inv, CallInv, [Next]_vars
    PROVE  CallsKept /\ \A k \in Keys : PostFact(k)'
<1> DEFINE Same == \A k \in Keys : (Called(k)' <=> Called(k)) /\ (Over(k) => Over(k)')
<1>0. RestInv /\ SubmitInv /\ CancelInv /\ CallbackInv /\ StartType
  BY DEF Inv
<1>1. \A k \in Keys : Claimed(k) => Claimed(k)'
  <2>1. CASE UNCHANGED claimed
    BY <2>1 DEF Claimed
  <2>2. ASSUME NEW t \in Cancellers, ClaimCancellation(t), ~UNCHANGED claimed
        PROVE  \A k \in Keys : Claimed(k) => Claimed(k)'
    <3>1. PICK l : claimed' = [claimed EXCEPT ![cancel[t].key] = l]
      BY <2>2 DEF ClaimCancellation
    <3>2. claimed[cancel[t].key] = None
      BY <2>2 DEF ClaimCancellation, MayClaim
    <3>3. \A c \in CancelKeys : claimed[c] # None => claimed'[c] = claimed[c]
      BY <1>0, <3>1, <3>2 DEF CancelInv
    <3> QED BY <3>3, VoiceAssumption DEF Claimed
  <2>3. CASE Cancelling
    BY <2>1, <2>2, <2>3 DEF Cancelling, CancelAction, SubmitCancellation,
                            FinalizeCancellation, CancelLost
  <2> QED BY <2>1, <2>3, Groups, Frames
<1>2. CASE Same /\ UNCHANGED posts
  BY <1>1, <1>2 DEF CallsKept, PostFact, CallInv
<1>3. CASE UNCHANGED <<call, posts>>
  <2>1. Same
    BY <1>3 DEF Called, Over
  <2> QED BY <1>2, <1>3, <2>1
<1>4. ASSUME NEW r \in Requests, NEW elapsed \in BOOLEAN, SubmitCall(r, elapsed)
      PROVE  CallsKept /\ \A k \in Keys : PostFact(k)'
  <2>0. start[r].key \in Keys
    BY <1>0, <1>4 DEF SubmitCall, StartType, Starts
  <2>1. PICK k \in Keys : start[r] # None /\ start[r].pc = "reserved" /\ k = start[r].key
    BY <1>4, <2>0 DEF SubmitCall
  <2>2. posts[k] = 0 /\ ~Called(k)
    BY <1>0, <2>1 DEF SubmitInv, HasReservation, CallInv, PostFact
  <2>3. CASE UNCHANGED twilioVars
    BY <1>3, <2>3 DEF twilioVars
  <2>4. CASE /\ Goes(r, "posting") /\ call' = [call EXCEPT ![k] = "live"]
             /\ posts' = [posts EXCEPT ![k] = @ + 1]
    <3>0. Places(r, k)
      BY <2>1, <2>4 DEF Places
    <3>1. Called(k)' /\ posts'[k] = 1
      BY <1>0, <2>1, <2>2, <2>4 DEF RestInv, Called
    <3>2. \A l \in Keys \ {k} : call'[l] = call[l] /\ posts'[l] = posts[l]
      BY <1>0, <2>4 DEF RestInv
    <3>3. \A l \in Keys : PostFact(l)'
      BY <3>1, <3>2 DEF CallInv, PostFact, Called
    <3>4. \A l \in Keys : (Called(l) => Called(l)') /\ (Over(l) => Over(l)')
      BY <2>2, <3>1, <3>2 DEF Called, Over
    <3>5. \A l \in Keys : Called(l)' => Called(l) \/ l = k
      BY <3>2 DEF Called
    <3> QED BY <1>1, <3>0, <3>3, <3>4, <3>5 DEF CallsKept
  <2> QED BY <1>4, <2>1, <2>3, <2>4 DEF SubmitCall
<1>5. ASSUME NEW h \in Callbacks, HangUp(h) PROVE CallsKept /\ \A k \in Keys : PostFact(k)'
  <2>1. callback[h].key \in Keys /\ Called(callback[h].key) /\ UNCHANGED posts
    BY <1>0, <1>5 DEF HangUp, CallbackInv, CallbackRecords, CallInv, CallbackFact
  <2>2. UNCHANGED call \/ call' = [call EXCEPT ![callback[h].key] = "ended"]
    BY <1>5 DEF HangUp
  <2>3. Same
    BY <1>0, <2>1, <2>2, CallEnded DEF Called, Over
  <2> QED BY <1>2, <2>1, <2>3
<1>6. ASSUME NEW t \in Cancellers, SubmitCancellation(t)
      PROVE  CallsKept /\ \A k \in Keys : PostFact(k)'
  <2>1. cancel[t].attempt \in Keys /\ UNCHANGED posts
    BY <1>0, <1>6 DEF SubmitCancellation, CancelInv
  <2>2. UNCHANGED call \/ (cancel[t].sid /\ call' = [call EXCEPT ![cancel[t].attempt] = "ended"])
    BY <1>6 DEF SubmitCancellation
  <2>3. cancel[t].sid => Called(cancel[t].attempt)
    BY <1>6 DEF SubmitCancellation, CallInv, CancelFact
  <2>4. Same
    BY <1>0, <2>1, <2>2, <2>3, CallEnded DEF Called, Over
  <2> QED BY <1>2, <2>1, <2>4
<1>7. ASSUME NEW k \in Keys, CallEnds(k) PROVE CallsKept /\ \A l \in Keys : PostFact(l)'
  <2>1. Called(k) /\ call' = [call EXCEPT ![k] = "ended"] /\ UNCHANGED posts
    BY <1>7 DEF CallEnds, Called
  <2>2. Same
    BY <1>0, <2>1, CallEnded
  <2> QED BY <1>2, <2>1, <2>2
<1> HIDE DEF Same
<1>8. CASE Submitting
  BY <1>4, <1>8 DEF Submitting
<1>9. CASE CallingBack
  BY <1>3, <1>5, <1>9 DEF CallingBack, ApplyCallback, CallbackLost, twilioVars
<1>10. CASE Cancelling
  BY <1>3, <1>6, <1>10 DEF Cancelling, CancelAction, ClaimCancellation, FinalizeCancellation,
                           CancelLost, twilioVars
<1>11. CASE Outside
  BY <1>3, <1>7, <1>11 DEF Outside, ConfigureContact, twilioVars, vars
<1> QED BY <1>3, <1>8, <1>9, <1>10, <1>11, Groups, Frames

\* A callback carries what had happened when it was sent.
LEMMA CallbackFacts ==
    ASSUME Inv, CallInv, CallsKept, [Next]_vars, NEW h \in Callbacks
    PROVE  CallbackFact(h)'
<1>0. /\ CallbackFact(h) /\ callback \in [Callbacks -> CallbackRecords \cup {None}]
      /\ callback[h] # None => callback[h].key \in Keys
  BY DEF Inv, CallbackInv, CallbackRecords, CallInv
<1>1. CASE /\ callback[h] # None /\ callback'[h].key = callback[h].key
           /\ callback'[h].event = callback[h].event
  BY <1>0, <1>1 DEF CallsKept, CallbackFact
<1>2. CASE callback'[h] = None
  BY <1>2 DEF CallbackFact
<1>3. CASE callback'[h] = callback[h]
  BY <1>1, <1>2, <1>3
<1>4. ASSUME NEW g \in Callbacks, NEW ke \in Events, ReceiveCallback(g, ke[1], ke[2])
      PROVE  CallbackFact(h)'
  <2> DEFINE x == [pc |-> "loaded", key |-> ke[1], event |-> ke[2], copy |-> row[ke[1]],
                   committed |-> FALSE]
  <2>1. ke \in Keys \X EventKinds
    BY VoiceAssumption
  <2>2. callback' = [callback EXCEPT ![g] = x] /\ UNCHANGED call
    BY <1>4 DEF ReceiveCallback, twilioVars
  <2>3. x.key = ke[1] /\ x.event = ke[2]
    OBVIOUS
  <2> HIDE DEF x
  <2>4. CASE g = h
    <3>1. callback'[h].key = ke[1] /\ callback'[h].event = ke[2]
      BY <1>0, <2>2, <2>3, <2>4
    <3> QED BY <1>4, <2>2, <3>1 DEF ReceiveCallback, Reportable, CallbackFact, Called, Over
  <2>5. CASE g # h
    BY <1>0, <1>3, <2>2, <2>5
  <2> QED BY <2>4, <2>5
<1>5. ASSUME NEW g \in Callbacks, ApplyCallback(g) \/ HangUp(g) \/ CallbackLost(g)
      PROVE  CallbackFact(h)'
  <2>1. \/ callback' = [callback EXCEPT ![g] = None]
        \/ \E b : /\ callback[g] # None
                  /\ callback' = [callback EXCEPT ![g].pc = "hangup", ![g].committed = b]
    BY <1>5 DEF ApplyCallback, HangUp, CallbackLost
  <2>2. CASE g # h
    BY <1>0, <1>3, <2>1, <2>2
  <2>3. CASE g = h
    <3>1. CASE callback' = [callback EXCEPT ![g] = None]
      BY <1>0, <1>2, <2>3, <3>1
    <3>2. ASSUME NEW b, callback[h] # None,
                 callback' = [callback EXCEPT ![h].pc = "hangup", ![h].committed = b]
          PROVE  CallbackFact(h)'
      <4>1. callback[h] \in CallbackRecords
        BY <1>0, <3>2
      <4>2. callback'[h].key = callback[h].key /\ callback'[h].event = callback[h].event
        BY <1>0, <3>2, <4>1 DEF CallbackRecords
      <4> QED BY <1>1, <3>2, <4>2
    <3> QED BY <2>1, <2>3, <3>1, <3>2
  <2> QED BY <2>2, <2>3
<1> QED BY <1>3, <1>4, <1>5, Groups, Frames DEF Receiving, CallingBack

\* A cancellation knows the sid of a call that was placed, and is confirmed
\* when that call is over.
LEMMA CancelFacts ==
    ASSUME Inv, CallInv, CallsKept, [Next]_vars, NEW t \in Cancellers
    PROVE  CancelFact(t)'
<1>0. CancelInv /\ CancelFact(t) /\ cancel \in [Cancellers -> CancelRecords \cup {None}]
  BY DEF Inv, CancelInv, CallInv
<1>1. CASE cancel'[t] = None \/ cancel'[t].pc = "claim"
  BY <1>1 DEF CancelFact
<1>2. ASSUME NEW c \in CancelKeys, claimed[c] # None PROVE claimed'[c] = claimed[c]
  <2>1. ASSUME NEW u \in Cancellers, ClaimCancellation(u) PROVE claimed'[c] = claimed[c]
    BY <1>0, <1>2, <2>1 DEF ClaimCancellation, MayClaim, CancelInv
  <2>2. CASE Cancelling
    BY <2>1, <2>2 DEF Cancelling, CancelAction, SubmitCancellation, FinalizeCancellation,
                      CancelLost
  <2> QED BY <2>2, Groups, Frames
<1>3. CASE cancel'[t] = cancel[t]
  <2>1. SUFFICES ASSUME cancel[t] # None, cancel[t].pc \in {"claimed", "heard"}
                 PROVE  CancelFact(t)'
    BY <1>3 DEF CancelFact
  <2>2. /\ cancel[t].attempt \in Keys /\ cancel[t].key \in CancelKeys
        /\ claimed[cancel[t].key] # None
    BY <1>0, <2>1 DEF CancelInv, CancelRecords
  <2>3. claimed'[cancel[t].key] = claimed[cancel[t].key]
    BY <1>2, <2>2
  <2> QED BY <1>0, <1>3, <2>1, <2>2, <2>3 DEF CancelFact, CallsKept
<1>4. ASSUME NEW u \in Cancellers, ClaimCancellation(u) PROVE CancelFact(t)'
  <2>1. CASE cancel' = [cancel EXCEPT ![u] = None]
    BY <1>0, <1>1, <1>3, <2>1
  <2>2. ASSUME NEW k \in Active(row),
               claimed' = [claimed EXCEPT ![cancel[u].key] = k],
               cancel' = [cancel EXCEPT ![u].pc = "claimed", ![u].attempt = k,
                                        ![u].sid = row[k].sid]
        PROVE  CancelFact(t)'
    <3>1. CASE u # t
      BY <1>0, <1>3, <2>2, <3>1
    <3>2. CASE u = t
      <4>1. cancel[t] \in CancelRecords /\ cancel[t].key \in CancelKeys
        BY <1>0, <1>4, <3>2 DEF ClaimCancellation, CancelRecords
      <4>2. /\ cancel'[t].pc = "claimed" /\ cancel'[t].attempt = k
            /\ cancel'[t].sid = row[k].sid /\ cancel'[t].key = cancel[t].key
        BY <1>0, <2>2, <3>2, <4>1 DEF CancelRecords
      <4>3. claimed'[cancel[t].key] = k
        BY <1>0, <2>2, <3>2, <4>1 DEF CancelInv
      <4>4. row[k].sid => Called(k)
        BY DEF Active, CallInv, RowFact
      <4>5. k \in Keys
        BY DEF Active
      <4> QED BY <4>2, <4>3, <4>4, <4>5 DEF CancelFact, CallsKept
    <3> QED BY <3>1, <3>2
  <2> QED BY <1>4, <2>1, <2>2 DEF ClaimCancellation
<1>5. ASSUME NEW u \in Cancellers, SubmitCancellation(u) PROVE CancelFact(t)'
  <2>1. PICK ok \in BOOLEAN :
            /\ cancel' = [cancel EXCEPT ![u].pc = "heard", ![u].confirmed = ok]
            /\ ok => call' = [call EXCEPT ![cancel[u].attempt] = "ended"]
    BY <1>5 DEF SubmitCancellation
  <2>2. CASE u # t
    BY <1>0, <1>3, <2>1, <2>2
  <2>3. CASE u = t
    <3>1. /\ cancel[t] \in CancelRecords /\ cancel[t] # None /\ cancel[t].pc = "claimed"
          /\ cancel[t].attempt \in Keys /\ UNCHANGED claimed
      BY <1>0, <1>5, <2>3 DEF SubmitCancellation, CancelInv
    <3>2. /\ cancel'[t].pc = "heard" /\ cancel'[t].attempt = cancel[t].attempt
          /\ cancel'[t].sid = cancel[t].sid /\ cancel'[t].key = cancel[t].key
          /\ cancel'[t].confirmed = ok
      BY <1>0, <2>1, <2>3, <3>1 DEF CancelRecords
    <3>3. PICK k \in Keys : k = cancel[t].attempt
      BY <3>1
    <3>4. ok => Over(k)'
      BY <2>1, <2>3, <3>3 DEF Over, Inv, RestInv
    <3>5. cancel[t].sid => Called(k)'
      BY <1>0, <3>1, <3>3 DEF CancelFact, CallsKept
    <3> QED BY <1>0, <3>1, <3>2, <3>3, <3>4, <3>5 DEF CancelFact, Called, Over
  <2> QED BY <2>2, <2>3
<1>6. ASSUME NEW u \in Cancellers, NEW c \in CancelKeys, CancelAction(u, c)
      PROVE  CancelFact(t)'
  <2> DEFINE x == [pc |-> "claim", key |-> c, attempt |-> None, sid |-> FALSE,
                   confirmed |-> FALSE]
  <2>1. cancel' = [cancel EXCEPT ![u] = x] /\ x.pc = "claim"
    BY <1>6 DEF CancelAction
  <2> HIDE DEF x
  <2> QED BY <1>0, <1>1, <1>3, <2>1
<1>7. ASSUME NEW u \in Cancellers, FinalizeCancellation(u) \/ CancelLost(u)
      PROVE  CancelFact(t)'
  <2>1. cancel' = [cancel EXCEPT ![u] = None]
    BY <1>7 DEF FinalizeCancellation, CancelLost
  <2> QED BY <1>0, <1>1, <1>3, <2>1
<1>8. CASE Cancelling
  BY <1>4, <1>5, <1>6, <1>7, <1>8 DEF Cancelling
<1> QED BY <1>3, <1>8, Groups, Frames

\* A reservation is kept, or won for a key that had no row.
HoldersKept ==
    \A r \in Requests : HasReservation(r)' =>
        \/ HasReservation(r) /\ start'[r].key = start[r].key
        \/ row[start'[r].key] = None

LEMMA HoldersStep ==
    ASSUME Inv, [Next]_vars
    PROVE  HoldersKept
<1>0. StartType /\ SubmitInv
  BY DEF Inv
<1>1. CASE \A r \in Requests : Ordinary(r)
  BY <1>1 DEF HoldersKept, Ordinary, HasReservation
<1>2. ASSUME NEW r \in Requests, start[r] # None, start[r] \in Starts,
             NEW pc \in {"reserved", "posting", "answered"}, NEW result,
             \/ start' = [start EXCEPT ![r].pc = pc, ![r].result = result]
             \/ start' = [start EXCEPT ![r].pc = pc],
             HasReservation(r) \/ row[start[r].key] = None
      PROVE  HoldersKept
  <2>1. start'[r].key = start[r].key
    BY <1>0, <1>2 DEF StartType, Starts
  <2>2. \A s \in Requests \ {r} : start'[s] = start[s]
    BY <1>0, <1>2 DEF StartType
  <2> QED BY <1>2, <2>1, <2>2 DEF HoldersKept, HasReservation
<1>3. ASSUME NEW r \in Requests, NEW elapsed \in BOOLEAN, SubmitCall(r, elapsed)
      PROVE  HoldersKept
  <2>1. start[r] # None /\ start[r] \in Starts /\ HasReservation(r)
    BY <1>0, <1>3 DEF SubmitCall, StartType, HasReservation
  <2>2. \/ Goes(r, "posting")
        \/ \E result : start' = [start EXCEPT ![r].pc = "answered", ![r].result = result]
    BY <1>3 DEF SubmitCall
  <2> QED BY <1>2, <2>1, <2>2 DEF Goes
<1>4. ASSUME NEW r \in Requests, ReserveAttempt(r) PROVE HoldersKept
  <2>1. start[r] # None /\ start[r] \in Starts
    BY <1>0, <1>4 DEF ReserveAttempt, StartType
  <2>2. CASE Goes(r, "reserved") /\ row[start[r].key] = None
    BY <1>2, <2>1, <2>2 DEF Goes
  <2>3. CASE Ends(r)
    <3>1. \A s \in Requests : Ordinary(s)
      BY <1>0, <2>3, NoReservation DEF Ends
    <3> QED BY <1>1, <3>1
  <2>4. CASE Returns(r, ReplayResult(row[start[r].key]))
    <3>1. \A s \in Requests : Ordinary(s)
      BY <1>0, <2>1, <2>4, ReplayResultType, ReturnsOrdinary
    <3> QED BY <1>1, <3>1
  <2> QED BY <1>4, <2>2, <2>3, <2>4 DEF ReserveAttempt, Reserved, Taken
<1>5. CASE Starting \/ Answering
  <2>1. \A q \in Requests : Ordinary(q)
    BY <1>0, <1>5, OrdinaryStarts, AnswerStep DEF Starting, Answering
  <2> QED BY <1>1, <2>1
<1>6. CASE UNCHANGED start
  BY <1>6 DEF HoldersKept, HasReservation
<1> QED BY <1>3, <1>4, <1>5, <1>6, Groups, Frames DEF Submitting, Reserving

\* A row that is not written stays true to its call: the call of a rejected
\* one has no request left that could place it.
LEMMA RowFactKept ==
    ASSUME Inv, CallInv, CallsKept, HoldersKept, NEW k \in Keys, row'[k] = row[k]
    PROVE  RowFact(k)'
<1>1. SUFFICES ASSUME row[k] # None PROVE RowFact(k)'
  BY DEF RowFact
<1>2. RowFact(k)
  BY DEF CallInv
<1>3. ASSUME row[k].status = "REJECTED"
      PROVE  ~Called(k)' /\ \A r \in Requests : HasReservation(r)' => start'[r].key # k
  <2>1. ~Called(k) /\ \A r \in Requests : HasReservation(r) => start[r].key # k
    BY <1>1, <1>2, <1>3 DEF RowFact
  <2>2. \A r \in Requests : ~Places(r, k)
    BY <2>1 DEF Places, HasReservation
  <2>3. ~Called(k)'
    BY <2>1, <2>2 DEF CallsKept
  <2>4. \A r \in Requests : HasReservation(r)' => start'[r].key # k
    BY <1>1, <2>1 DEF HoldersKept
  <2> QED BY <2>3, <2>4
<1>4. row[k].status \in EndStatuses => Over(k)'
  BY <1>1, <1>2 DEF RowFact, CallsKept
<1>5. row[k].sid => Called(k)'
  BY <1>1, <1>2 DEF RowFact, CallsKept
<1>6. \/ row[k].status \in {"RESERVED", "REJECTED"} \/ row[k].uncertain
      \/ Called(k)' \/ Claimed(k)'
  BY <1>1, <1>2 DEF RowFact, CallsKept
<1> QED BY <1>3, <1>4, <1>5, <1>6 DEF RowFact

\* save_attempt writes what the provider answered.
LEMMA SaveFacts ==
    ASSUME Inv, CallInv, CallsKept, HoldersKept, NEW r \in Requests, SaveAttempt(r),
           NEW k \in Keys
    PROVE  RowFact(k)'
<1>0. /\ StartType /\ SubmitInv /\ row \in [Keys -> Rows \cup {None}]
      /\ start[r] # None /\ start[r].pc = "answered" /\ start[r] \in Starts
      /\ UNCHANGED <<call, claimed>>
  BY DEF Inv, StartType, RowType, SaveAttempt, twilioVars, cancelVars
<1>1. PICK l \in Keys : l = start[r].key
  BY <1>0 DEF Starts
<1>2. PICK result \in Results : result = start[r].result
  BY <1>0 DEF SubmitInv, HasReservation
<1>3. CASE UNCHANGED row
  BY <1>3, RowFactKept
<1>4. CASE row' = Saved(l, result) /\ Returns(r, result)
  <2>1. CASE k # l
    <3>1. row'[k] = row[k]
      BY <1>0, <1>4, <2>1 DEF Saved
    <3> QED BY <3>1, RowFactKept
  <2>2. CASE k = l
    <3>1. /\ row'[k].status = result
          /\ row'[k].sid = (result = "SUBMITTED")
          /\ row'[k].uncertain = (result = "UNCERTAIN")
      BY <1>0, <1>4, <2>2 DEF Saved
    <3>2. row[k] # None /\ HasReservation(r)
      BY <1>0, <1>1, <2>2 DEF SubmitInv, HasReservation
    <3>3. /\ result = "REJECTED" => ~Called(k)
          /\ result = "SUBMITTED" => Called(k)
      BY <1>0, <1>1, <1>2, <2>2 DEF CallInv, StartFact
    <3>4. Called(k)' <=> Called(k)
      BY <1>0 DEF Called
    <3>5. ~HasReservation(r)'
      <4>1. start[r] \in Starts
        BY <1>0
      <4>2. start'[r] = None \/ start'[r].pc = "returned"
        BY <1>0, <1>4, <4>1 DEF Returns, StartType, Starts
      <4> QED BY <4>2 DEF HasReservation
    <3>6. \A s \in Requests : HasReservation(s)' => start'[s].key # k
      BY <1>0, <1>1, <2>2, <3>2, <3>5 DEF HoldersKept, SubmitInv
    <3>7. result \notin EndStatuses
      BY DEF Results, EndStatuses
    <3>8. result \in {"REJECTED", "SUBMITTED", "UNCERTAIN"}
      BY DEF Results
    <3> QED BY <3>1, <3>3, <3>4, <3>6, <3>7, <3>8 DEF RowFact
  <2> QED BY <2>1, <2>2
<1> QED BY <1>1, <1>2, <1>3, <1>4 DEF SaveAttempt

\* The reserved row promises nothing.
LEMMA ReserveFacts ==
    ASSUME Inv, CallInv, CallsKept, HoldersKept, NEW r \in Requests, ReserveAttempt(r),
           NEW k \in Keys
    PROVE  RowFact(k)'
<1>0. row \in [Keys -> Rows \cup {None}]
  BY DEF Inv, RowType
<1>1. CASE row'[k] = row[k]
  BY <1>1, RowFactKept
<1>2. CASE row'[k] = [status |-> "RESERVED", sid |-> FALSE, uncertain |-> FALSE]
  BY <1>2 DEF RowFact, EndStatuses
<1> QED BY <1>0, <1>1, <1>2 DEF ReserveAttempt, Reserved

\* A callback is about a call that was placed, and writes an end only when
\* that call is over, however stale the copy it decided on.
LEMMA ApplyFacts ==
    ASSUME Inv, CallInv, CallsKept, HoldersKept, NEW h \in Callbacks, ApplyCallback(h),
           NEW k \in Keys
    PROVE  RowFact(k)'
<1>0. /\ row \in [Keys -> Rows \cup {None}] /\ UNCHANGED call
      /\ callback[h] # None /\ callback[h] \in CallbackRecords /\ row[callback[h].key] # None
  BY DEF Inv, RowType, CallbackInv, ApplyCallback, twilioVars
<1>1. PICK l \in Keys, e \in EventKinds : l = callback[h].key /\ e = callback[h].event
  BY <1>0 DEF CallbackRecords
<1>2. Called(l) /\ (e \in EndStatuses \cup {"POST_CALL_OPT_OUT"} => Over(l))
  BY <1>0, <1>1 DEF CallInv, CallbackFact
<1>3. CASE UNCHANGED row
  BY <1>3, RowFactKept
<1>4. CASE row' = Updated(l, callback[h].copy, e)
  <2>1. CASE k # l
    <3>1. row'[k] = row[k]
      BY <1>0, <1>4, <2>1 DEF Updated
    <3> QED BY <3>1, RowFactKept
  <2>2. CASE k = l
    <3>1. row[k] \in Rows /\ row[k] # None
      BY <1>0, <1>1, <2>2
    <3>2. \/ row'[k].status = row[k].status
          \/ EventStatus(e) # None /\ row'[k].status = EventStatus(e)
      BY <1>0, <1>4, <2>2, <3>1 DEF Updated, Rows
    <3>3. Called(k)' /\ Called(k) /\ (Over(k) => Over(k)')
      BY <1>2, <2>2 DEF CallsKept
    <3>4. row[k].status # "REJECTED" /\ (row[k].status \in EndStatuses => Over(k))
      BY <3>1, <3>3 DEF CallInv, RowFact
    <3>5. EventStatus(e) # None =>
              /\ EventStatus(e) # "REJECTED"
              /\ EventStatus(e) \in EndStatuses =>
                     e \in EndStatuses \cup {"POST_CALL_OPT_OUT"}
      BY DEF EventStatus, EventKinds, EndStatuses, OptOutEvents, ActiveStatuses
    <3> QED BY <1>2, <2>2, <3>2, <3>3, <3>4, <3>5 DEF RowFact
  <2> QED BY <2>1, <2>2
<1> QED BY <1>1, <1>3, <1>4 DEF ApplyCallback, attemptVars

\* The claim takes the row over, and finalize_payment_cancellation closes it
\* only when the provider has confirmed.
LEMMA CancelRowFacts ==
    ASSUME Inv, CallInv, CallsKept, HoldersKept, NEW t \in Cancellers,
           ClaimCancellation(t) \/ FinalizeCancellation(t), NEW k \in Keys
    PROVE  RowFact(k)'
<1>0. CancelInv /\ row \in [Keys -> Rows \cup {None}] /\ RowFact(k) /\ CancelFact(t)
  BY DEF Inv, RowType, CallInv
<1>1. CASE row'[k] = row[k]
  BY <1>1, RowFactKept
<1>2. ASSUME ClaimCancellation(t), row'[k] # row[k] PROVE RowFact(k)'
  <2>1. PICK l \in Active(row) : /\ row' = [row EXCEPT ![l].status = "CANCEL_PENDING"]
                                 /\ claimed' = [claimed EXCEPT ![cancel[t].key] = l]
    BY <1>2 DEF ClaimCancellation
  <2>2. k = l /\ row[k] # None /\ row[k] \in Rows
    BY <1>0, <1>2, <2>1 DEF Active
  <2>3. row'[k].status = "CANCEL_PENDING" /\ row'[k].sid = row[k].sid
    BY <1>0, <2>1, <2>2 DEF Rows
  <2>4. Claimed(k)'
    <3>1. cancel[t].key \in CancelKeys
      BY <1>0, <1>2 DEF ClaimCancellation, CancelInv, CancelRecords
    <3>2. claimed'[cancel[t].key] = k
      BY <1>0, <2>1, <2>2, <3>1 DEF CancelInv
    <3> QED BY <3>1, <3>2 DEF Claimed
  <2>5. row[k].sid => Called(k)'
    BY <1>0, <2>2 DEF RowFact, CallsKept
  <2> QED BY <2>3, <2>4, <2>5 DEF RowFact, EndStatuses
<1>3. ASSUME FinalizeCancellation(t), row'[k] # row[k] PROVE RowFact(k)'
  <2>1. PICK ok \in BOOLEAN : ok = cancel[t].confirmed
    BY <1>0, <1>3 DEF FinalizeCancellation, CancelInv, CancelRecords
  <2>2. /\ cancel[t].attempt \in Keys /\ row[cancel[t].attempt] # None
        /\ cancel[t] # None /\ cancel[t].pc = "heard" /\ cancel[t].key \in CancelKeys
    BY <1>0, <1>3 DEF FinalizeCancellation, CancelInv, CancelRecords
  <2>3. row' = [row EXCEPT ![cancel[t].attempt].status = CancelStatus(ok),
                           ![cancel[t].attempt].uncertain = ~ok]
    BY <1>3, <2>1 DEF FinalizeCancellation
  <2>4. k = cancel[t].attempt /\ row[k] \in Rows /\ row[k] # None
    BY <1>0, <1>3, <2>2, <2>3
  <2>5. row'[k].status = CancelStatus(ok) /\ row'[k].sid = row[k].sid
    BY <1>0, <2>3, <2>4 DEF Rows
  <2>6. Claimed(k) /\ (ok => Over(k))
    BY <1>0, <2>1, <2>2, <2>4 DEF CancelFact, Claimed
  <2>7. Claimed(k)' /\ (ok => Over(k)') /\ (row[k].sid => Called(k)')
    BY <1>0, <2>4, <2>6 DEF CallsKept, RowFact
  <2> QED BY <2>5, <2>7 DEF RowFact, EndStatuses, CancelStatus
<1> QED BY <1>1, <1>2, <1>3

LEMMA RowFacts ==
    ASSUME Inv, CallInv, CallsKept, HoldersKept, [Next]_vars, NEW k \in Keys
    PROVE  RowFact(k)'
<1>1. CASE UNCHANGED row
  BY <1>1, RowFactKept
<1>2. CASE Starting
  BY <1>1, <1>2, SaveFacts
     DEF Starting, ReceiveStart, ClaimVoiceAction, CheckStart, StartLost, FinalizeVoiceAction,
         ProcessDies, attemptVars
<1>3. CASE Reserving
  BY <1>3, ReserveFacts DEF Reserving
<1>4. CASE CallingBack
  BY <1>1, <1>4, ApplyFacts DEF CallingBack, HangUp, CallbackLost, attemptVars
<1>5. CASE Cancelling
  BY <1>1, <1>5, CancelRowFacts
     DEF Cancelling, CancelAction, SubmitCancellation, CancelLost, attemptVars
<1> QED BY <1>1, <1>2, <1>3, <1>4, <1>5, Groups, Frames

\* A request that takes no step: a call it knows was refused is not placed by
\* another, whose reservation would be the same.
LEMMA StartFactKept ==
    ASSUME Inv, CallInv, CallsKept, NEW r \in Requests, start'[r] = start[r]
    PROVE  StartFact(r)'
<1>1. SUFFICES ASSUME start[r] # None PROVE StartFact(r)'
  BY DEF StartFact
<1>2. StartFact(r) /\ start[r] \in Starts
  BY <1>1 DEF CallInv, Inv, StartType
<1>3. PICK k \in Keys : k = start[r].key
  BY <1>2 DEF Starts
<1>4. ASSUME start[r].pc = "answered", start[r].result = "REJECTED" PROVE ~Called(k)'
  <2>1. ~Called(k)
    BY <1>1, <1>2, <1>3, <1>4 DEF StartFact
  <2>2. \A s \in Requests : ~Places(s, k)
    BY <1>1, <1>3, <1>4 DEF Places, Inv, SubmitInv, HasReservation
  <2> QED BY <2>1, <2>2 DEF CallsKept
<1>5. /\ start[r].pc = "answered" /\ start[r].result = "SUBMITTED" => Called(k)'
      /\ start[r].pc = "returned" /\ start[r].result = "SUBMITTED" => Called(k)' \/ Claimed(k)'
      /\ start[r].pc = "returned" => r \notin ApiRequests
      /\ r \notin ApiRequests => k = ActionKey
  BY <1>1, <1>2, <1>3 DEF StartFact, CallsKept
<1>6. start'[r].key = k
  BY <1>3
<1> QED BY <1>4, <1>5, <1>6 DEF StartFact, Called, Claimed

\* A request that returns: what a replay reports as submitted has a call or
\* has been taken by a cancellation.
LEMMA ReturnFacts ==
    ASSUME Inv, CallInv, CallsKept, NEW r \in Requests, start[r] # None, NEW result,
           Returns(r, result),
           result = "SUBMITTED" => Called(start[r].key) \/ Claimed(start[r].key)
    PROVE  \A s \in Requests : StartFact(s)'
<1>0. start \in [Requests -> Starts \cup {None}] /\ start[r] \in Starts /\ StartFact(r)
  BY DEF Inv, StartType, CallInv
<1>1. \A s \in Requests \ {r} : start'[s] = start[s]
  BY <1>0 DEF Returns
<1>2. CASE r \in ApiRequests
  <2>1. start'[r] = None
    BY <1>0, <1>2 DEF Returns
  <2> QED BY <1>1, <2>1, StartFactKept DEF StartFact
<1>3. CASE r \notin ApiRequests
  <2>1. /\ start'[r].pc = "returned" /\ start'[r].key = start[r].key
        /\ start'[r].result = result
    BY <1>0, <1>3 DEF Returns, Starts
  <2>2. PICK k \in Keys : k = start[r].key
    BY <1>0 DEF Starts
  <2>3. k = ActionKey /\ (result = "SUBMITTED" => Called(k)' \/ Claimed(k)')
    BY <1>0, <1>3, <2>2 DEF StartFact, CallsKept
  <2>4. StartFact(r)'
    BY <1>3, <2>1, <2>2, <2>3 DEF StartFact, Called, Claimed
  <2> QED BY <1>1, <2>4, StartFactKept
<1> QED BY <1>2, <1>3

\* _replay_result
LEMMA ReplayFacts ==
    ASSUME CallInv, NEW k \in Keys, row[k] # None, ReplayResult(row[k]) = "SUBMITTED"
    PROVE  Called(k) \/ Claimed(k)
BY DEF CallInv, RowFact, ReplayResult

\* A request that goes on without an answer.
LEMMA GoesFacts ==
    ASSUME Inv, CallInv, CallsKept, NEW r \in Requests, start[r] # None,
           NEW pc \in {"allowed", "reserved", "posting"}, Goes(r, pc)
    PROVE  \A s \in Requests : StartFact(s)'
<1>0. start \in [Requests -> Starts \cup {None}] /\ start[r] \in Starts /\ StartFact(r)
  BY DEF Inv, StartType, CallInv
<1>1. \A s \in Requests \ {r} : start'[s] = start[s]
  BY <1>0 DEF Goes
<1>2. start'[r].pc = pc /\ start'[r].key = start[r].key
  BY <1>0 DEF Goes, Starts
<1>3. StartFact(r)'
  BY <1>0, <1>2 DEF StartFact
<1> QED BY <1>1, <1>3, StartFactKept

\* A request that has its answer.
LEMMA AnsweredFacts ==
    ASSUME Inv, CallInv, CallsKept, NEW r \in Requests, start[r] # None, NEW result,
           Answered(r, result), UNCHANGED call,
           result = "REJECTED" => ~Called(start[r].key),
           result = "SUBMITTED" => Called(start[r].key)
    PROVE  \A s \in Requests : StartFact(s)'
<1>0. start \in [Requests -> Starts \cup {None}] /\ start[r] \in Starts /\ StartFact(r)
  BY DEF Inv, StartType, CallInv
<1>1. \A s \in Requests \ {r} : start'[s] = start[s]
  BY <1>0 DEF Answered
<1>2. /\ start'[r].pc = "answered" /\ start'[r].key = start[r].key
      /\ start'[r].result = result
  BY <1>0 DEF Answered, Starts
<1>3. StartFact(r)'
  BY <1>0, <1>2 DEF StartFact, Called
<1> QED BY <1>1, <1>3, StartFactKept

LEMMA StartFacts ==
    ASSUME Inv, CallInv, CallsKept, [Next]_vars
    PROVE  \A s \in Requests : StartFact(s)'
<1> DEFINE Good == \A s \in Requests : StartFact(s)'
<1>0. start \in [Requests -> Starts \cup {None}]
  BY DEF Inv, StartType
<1>1. CASE \A s \in Requests : start'[s] \in {start[s], None}
  BY <1>1, StartFactKept DEF StartFact
<1>2. ASSUME NEW r \in Requests, NEW p, NEW k, Begin(r, p, k),
             r \notin ApiRequests => k = ActionKey
      PROVE  Good
  <2>1. \A s \in Requests \ {r} : start'[s] = start[s]
    BY <1>0, <1>2 DEF Begin
  <2>2. start'[r].pc = "begun" /\ start'[r].key = k
    BY <1>0, <1>2 DEF Begin
  <2>3. StartFact(r)'
    BY <1>2, <2>2 DEF StartFact
  <2> QED BY <2>1, <2>3, StartFactKept
<1>3. ASSUME NEW r \in Requests, Ends(r) PROVE Good
  BY <1>0, <1>1, <1>3 DEF Ends
<1>4. ASSUME NEW r \in Requests, start[r] # None, row[start[r].key] # None,
             Returns(r, ReplayResult(row[start[r].key]))
      PROVE  Good
  <2>1. start[r].key \in Keys
    BY <1>0, <1>4 DEF Starts
  <2> HIDE DEF Good
  <2>2. ReplayResult(row[start[r].key]) = "SUBMITTED" =>
            Called(start[r].key) \/ Claimed(start[r].key)
    BY <1>4, <2>1, ReplayFacts
  <2> QED BY <1>4, <2>2, ReturnFacts DEF Good
<1>5. ASSUME NEW r \in Requests, CheckStart(r) PROVE Good
  <2>1. start[r] # None
    BY <1>5 DEF CheckStart
  <2>2. Returns(r, "REJECTED") => Good
    BY <2>1, ReturnFacts
  <2>3. Goes(r, "allowed") => Good
    BY <2>1, GoesFacts
  <2> HIDE DEF Good
  <2> QED BY <1>4, <1>5, <2>1, <2>2, <2>3 DEF CheckStart
<1>6. ASSUME NEW r \in Requests, SaveAttempt(r) PROVE Good
  <2>1. /\ start[r] # None
        /\ start[r].result = "SUBMITTED" => Called(start[r].key)
    BY <1>6 DEF SaveAttempt, CallInv, StartFact
  <2>2. Returns(r, start[r].result) => Good
    BY <2>1, ReturnFacts
  <2> HIDE DEF Good
  <2> QED BY <1>3, <1>6, <2>2 DEF SaveAttempt
<1>7. ASSUME NEW r \in Requests, ReserveAttempt(r) PROVE Good
  <2>1. start[r] # None
    BY <1>7 DEF ReserveAttempt
  <2>2. Goes(r, "reserved") => Good
    BY <2>1, GoesFacts
  <2> HIDE DEF Good
  <2> QED BY <1>3, <1>4, <1>7, <2>1, <2>2 DEF ReserveAttempt, Reserved, Taken
<1>8. ASSUME NEW r \in Requests, NEW elapsed \in BOOLEAN, SubmitCall(r, elapsed) PROVE Good
  <2>1. start[r] # None /\ start[r].pc = "reserved" /\ start[r].key \in Keys
    BY <1>0, <1>8 DEF SubmitCall, Starts
  <2>2. ~Called(start[r].key)
    BY <2>1 DEF Inv, SubmitInv, HasReservation, CallInv, PostFact
  <2>3. Goes(r, "posting") => Good
    BY <2>1, GoesFacts
  <2>4. ASSUME NEW result \in {"UNCERTAIN", "REJECTED"}, Answered(r, result), UNCHANGED call
        PROVE  Good
    BY <2>1, <2>2, <2>4, AnsweredFacts
  <2> HIDE DEF Good
  <2> QED BY <1>8, <2>3, <2>4 DEF SubmitCall, Answered, twilioVars
<1>9. ASSUME NEW r \in Requests, AnswerCall(r) PROVE Good
  <2>1. start[r] # None /\ UNCHANGED call
    BY <1>9 DEF AnswerCall, twilioVars
  <2>2. PICK result : /\ Answered(r, result)
                      /\ result = "REJECTED" => ~Called(start[r].key)
                      /\ result = "SUBMITTED" => Called(start[r].key)
    BY <1>9 DEF AnswerCall, Called
  <2> QED BY <2>1, <2>2, AnsweredFacts
<1>10. ASSUME NEW p \in Processes, ProcessDies(p) PROVE Good
  BY <1>1, <1>10 DEF ProcessDies
<1>11. ASSUME NEW r \in Requests, StartLost(r) \/ FinalizeVoiceAction(r) PROVE Good
  BY <1>3, <1>11 DEF StartLost, FinalizeVoiceAction
<1>12. ASSUME NEW r \in ApiRequests, NEW p, NEW k, ReceiveStart(r, p, k) PROVE Good
  <2>1. r \in Requests /\ Begin(r, p, k)
    BY <1>12 DEF ReceiveStart, Requests
  <2> QED BY <1>2, <2>1
<1>13. ASSUME NEW a \in Activities, NEW p, ClaimVoiceAction(a, p) PROVE Good
  <2>1. a \in Requests /\ Begin(a, p, ActionKey)
    BY <1>13 DEF ClaimVoiceAction, Requests
  <2> QED BY <1>2, <2>1
<1>14. ASSUME UNCHANGED start PROVE Good
  BY <1>1, <1>14
<1> HIDE DEF Good
<1>15. ASSUME Starting PROVE Good
  BY <1>5, <1>6, <1>10, <1>11, <1>12, <1>13, <1>15 DEF Starting, Requests
<1>16. Good
  BY <1>7, <1>8, <1>9, <1>14, <1>15, Groups, Frames DEF Reserving, Submitting, Answering
<1> QED BY <1>16 DEF Good

\* _finalize_voice_action reports the submission of its own key.
LEMMA ActionFacts ==
    ASSUME Inv, CallInv, CallsKept, [Next]_vars
    PROVE  ActionFact'
<1>0. ActionKey \in Keys /\ ActionFact
  BY DEF Keys, CallInv
<1>1. CASE action' = "SUCCEEDED" => action = "SUCCEEDED"
  BY <1>0, <1>1 DEF ActionFact, CallsKept
<1>2. ASSUME NEW a \in Activities, FinalizeVoiceAction(a) PROVE ActionFact'
  <2>1. CASE action' = "SUCCEEDED" /\ start[a].result = "SUBMITTED"
    <3>1. StartFact(a)
      BY DEF CallInv, Requests
    <3>2. Called(ActionKey) \/ Claimed(ActionKey)
      BY <1>2, <2>1, <3>1 DEF FinalizeVoiceAction, StartFact
    <3> QED BY <1>0, <3>2 DEF ActionFact, CallsKept
  <2>2. action' = "SUCCEEDED" => action = "SUCCEEDED" \/ start[a].result = "SUBMITTED"
    BY <1>2 DEF FinalizeVoiceAction
  <2> QED BY <1>1, <2>1, <2>2
<1>3. CASE Starting
  BY <1>1, <1>2, <1>3 DEF Starting, ReceiveStart, ClaimVoiceAction, CheckStart, SaveAttempt,
                          StartLost, ProcessDies
<1>4. CASE Cancelling
  BY <1>1, <1>4 DEF Cancelling, CancelAction, ClaimCancellation, SubmitCancellation,
                    FinalizeCancellation, CancelLost
<1> QED BY <1>1, <1>3, <1>4, Groups, Frames

LEMMA CallsInitially == Init => CallInv
BY DEF Init, CallInv, PostFact, RowFact, StartFact, CallbackFact, CancelFact, ActionFact,
       Called, Over, Claimed

LEMMA CallsInductive == Inv /\ CallInv /\ [Next]_vars => CallInv'
<1> SUFFICES ASSUME Inv, CallInv, [Next]_vars PROVE CallInv'
  OBVIOUS
<1>1. CallsKept /\ \A k \in Keys : PostFact(k)'
  BY CallsStep
<1>2. HoldersKept
  BY HoldersStep
<1>3. \A k \in Keys : RowFact(k)'
  BY <1>1, <1>2, RowFacts
<1>4. \A r \in Requests : StartFact(r)'
  BY <1>1, StartFacts
<1>5. \A h \in Callbacks : CallbackFact(h)'
  BY <1>1, CallbackFacts
<1>6. \A t \in Cancellers : CancelFact(t)'
  BY <1>1, CancelFacts
<1>7. ActionFact'
  BY <1>1, ActionFacts
<1> QED BY <1>1, <1>3, <1>4, <1>5, <1>6, <1>7 DEF CallInv

\* A live call is never hidden: no callback, replay, late save or cancellation
\* closes the row of a call that Twilio still has, although each writes from
\* the copy it loaded before.
THEOREM LiveCallsAreVisible == Spec => []LiveCallIsVisible
<1>1. Inv /\ CallInv => LiveCallIsVisible
  <2> SUFFICES ASSUME Inv, CallInv, NEW k \in Keys, call[k] = "live"
               PROVE  row[k] # None /\ row[k].status \in
                          ActiveStatuses \cup {"UNCERTAIN", "CANCEL_PENDING", "CANCEL_UNCERTAIN"}
    BY DEF LiveCallIsVisible
  <2>1. posts[k] # 0 /\ RowFact(k)
    BY DEF CallInv, PostFact, Called
  <2>2. row[k] # None
    BY <2>1 DEF Inv, SubmitInv
  <2>3. row[k].status \in Statuses
    BY <2>2 DEF Inv, RowType, Rows
  <2>4. row[k].status \notin EndStatuses \cup {"REJECTED"}
    BY <2>1, <2>2 DEF RowFact, Over, Called
  <2> QED BY <2>2, <2>3, <2>4 DEF Statuses, TerminalStatuses, EndStatuses
<1> QED BY <1>1, Initially, Inductive, CallsInitially, CallsInductive, PTL DEF Spec

\* The START_VOICE action succeeds only for a call that was created or an
\* attempt that a payment cancellation has taken: what _replay_result reports
\* as submitted is one of the two.
THEOREM SuccessWasCalled == Spec => []SucceededWasCalled
<1>1. Inv /\ CallInv => SucceededWasCalled
  <2>1. ActionKey \in Keys
    BY DEF Keys
  <2> QED BY <2>1 DEF Inv, SubmitInv, CallInv, ActionFact, PostFact, Claimed,
                      SucceededWasCalled
<1> QED BY <1>1, Initially, Inductive, CallsInitially, CallsInductive, PTL DEF Spec
=============================================================================
