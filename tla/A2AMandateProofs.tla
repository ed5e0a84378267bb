-------------------------- MODULE A2AMandateProofs --------------------------
(***************************************************************************)
(* The customer's authorization, for every number of requests, polls and   *)
(* executions and every deadline.                                          *)
(*                                                                         *)
(* Inv is inductive.  TaskOK ties the revision of a task to its state, and *)
(* HoldsCopy says that a handler's copy with the task's revision is the    *)
(* task: compare-and-swap then leaves five moves of the task (TaskMoves).  *)
(* Its mandate is written once, so every mandate anyone holds is that one  *)
(* (MandateInv), and its one claim is spent once (SpendInv).  MoneyInv     *)
(* ties the row and a settled workflow to what the provider captured.      *)
(***************************************************************************)
EXTENDS A2AMandate, TLAPS

\* The amount asked for was captured, or half of it was counted twice.
Collected == ArrearsCaptured \/ PartCountsTwice

TaskOK ==
    /\ task \in Tasks
    /\ task.state = "AUTH_REQUIRED" => task.revision = 1 /\ task.mandate = None
    /\ task.state = "WORKING" => task.revision = 2 /\ task.mandate # None
    /\ task.state = "COMPLETED" => task.mandate # None /\ Collected /\ claim # None

Held == [op : {"approve", "reject", "cancel", "receipt"}, copy : Tasks,
         at : 0..MaxTime, tries : 1..3]

\* What a handler holds across its await.
HoldsCopy(q) ==
    /\ task # None
    /\ q.copy.revision <= task.revision
    /\ q.copy.revision = task.revision => q.copy = task
    /\ q.op \in {"approve", "reject"} => q.copy.state = "AUTH_REQUIRED"
    /\ q.op = "cancel" => q.copy.state \in {"AUTH_REQUIRED", "WORKING"}
    /\ q.op = "receipt" => q.copy.state = "WORKING" /\ Collected /\ claim # None

\* There is one mandate, the task's.
MandateInv ==
    /\ known => task # None
    /\ \A p \in Pollers : poll[p] # None => task # None /\ task.mandate = poll[p]
    /\ claim # None => task # None /\ task.mandate = claim
    /\ held # None => held = claim

\* The row follows the provider, and a workflow that settled had the money and
\* a mandate.
MoneyInv ==
    /\ case = "paid" => ArrearsCaptured
    /\ ~exact => provider \in {"part", "parts"}
    /\ workflow = "settled" => Collected /\ held # None
    /\ workflow = "poll" => known

\* The claim is executed once.
SpendInv ==
    /\ execution = "none" <=> claim = None
    /\ execution \in {"none", "AUTHORIZED"} =>
           opened = 0 /\ \A d \in Deliveries : delivery[d] = "idle"
    /\ \A d \in Deliveries : delivery[d] = "claimed" =>
           opened = 0 /\ \A e \in Deliveries : delivery[e] = "claimed" => e = d
    /\ OpenedOnce

AgentInv ==
    /\ task # None => TaskOK
    /\ \A r \in Requests : request[r] # None => HoldsCopy(request[r])

Inv == TypeOK /\ AgentInv /\ MandateInv /\ MoneyInv /\ SpendInv

----------------------------------------------------------------------------
(* The task. *)

\* The moves of the task that compare-and-swap leaves.
TaskMoves ==
    \/ task' = task
    \/ task = None /\ \E c \in Contexts : task' = NewTask(c)
    \/ /\ task # None /\ task.state = "AUTH_REQUIRED"
       /\ \E m \in Mandates :
              task' = Changed([task EXCEPT !.state = "WORKING", !.mandate = m])
    \/ /\ task # None /\ task.state \in {"AUTH_REQUIRED", "WORKING"}
       /\ task' = Changed([task EXCEPT !.state = "CANCELED"])
    \/ /\ task # None /\ task.state = "WORKING" /\ Collected /\ claim # None
       /\ task' = Changed([task EXCEPT !.state = "COMPLETED", !.receipt = TRUE])

\* What a request holds is well typed, and is the task if it has its revision.
LEMMA RequestType ==
    ASSUME Inv, NEW r \in Requests, request[r] # None
    PROVE  /\ request[r] \in Held /\ HoldsCopy(request[r])
           /\ task \in Tasks
           /\ Saves(r) => request[r].copy = task
<1>1. request[r] \in Held
  BY DEF Inv, TypeOK, Held
<1>2. HoldsCopy(request[r])
  BY DEF Inv, AgentInv
<1>3. task \in Tasks
  BY <1>2 DEF HoldsCopy, Inv, AgentInv, TaskOK
<1> QED BY <1>1, <1>2, <1>3 DEF HoldsCopy, Saves

\* A decided task got a mandate that expires with the request.
LEMMA NewMandateType ==
    ASSUME NEW r \in Requests, request[r].at \in 0..MaxTime
    PROVE  NewMandate(r) \in Mandates
BY TimeAssumption DEF NewMandate, Mandates, Minimum

\* Every step moves the task in one of these ways.
LEMMA TaskStep ==
    ASSUME Inv, [Next]_vars
    PROVE  TaskMoves
<1>1. CASE \E c \in Contexts, heard \in BOOLEAN : CreateTask(c, heard)
  BY <1>1 DEF CreateTask, CreateOnce, TaskMoves
<1>2. ASSUME NEW r \in Requests, SaveDecision(r) PROVE TaskMoves
  <2>1. CASE Saves(r)
    <3>1. /\ request[r] \in Held /\ HoldsCopy(request[r]) /\ request[r].copy = task
          /\ task # None /\ task' = Changed(Decided(r))
          /\ request[r].op \in {"approve", "reject"}
      BY <1>2, <2>1, RequestType DEF SaveDecision, HoldsCopy
    <3>2. task.state = "AUTH_REQUIRED"
      BY <3>1 DEF HoldsCopy
    <3>3. NewMandate(r) \in Mandates
      BY <3>1, NewMandateType DEF Held
    <3> QED BY <3>1, <3>2, <3>3 DEF Decided, TaskMoves
  <2>2. CASE ~Saves(r)
    BY <1>2, <2>2 DEF SaveDecision, TaskMoves
  <2> QED BY <2>1, <2>2
<1>3. ASSUME NEW r \in Requests, SaveCancel(r) PROVE TaskMoves
  <2>1. CASE Saves(r)
    <3>1. /\ HoldsCopy(request[r]) /\ request[r].copy = task /\ task # None
          /\ task' = Changed([request[r].copy EXCEPT !.state = "CANCELED"])
          /\ request[r].op = "cancel"
      BY <1>3, <2>1, RequestType DEF SaveCancel, HoldsCopy
    <3> QED BY <3>1 DEF HoldsCopy, TaskMoves
  <2>2. CASE ~Saves(r)
    BY <1>3, <2>2 DEF SaveCancel, TaskMoves
  <2> QED BY <2>1, <2>2
<1>4. ASSUME NEW r \in Requests, SaveReceipt(r) PROVE TaskMoves
  <2>1. CASE Saves(r)
    <3>1. /\ HoldsCopy(request[r]) /\ request[r].copy = task /\ task # None
          /\ task' = Changed([request[r].copy EXCEPT !.state = "COMPLETED", !.receipt = TRUE])
          /\ request[r].op = "receipt"
      BY <1>4, <2>1, RequestType DEF SaveReceipt, HoldsCopy
    <3> QED BY <3>1 DEF HoldsCopy, TaskMoves
  <2>2. CASE ~Saves(r)
    BY <1>4, <2>2 DEF SaveReceipt, TaskMoves
  <2> QED BY <2>1, <2>2
<1>5. CASE UNCHANGED task
  BY <1>5 DEF TaskMoves
<1>6. \/ UNCHANGED task
      \/ \E c \in Contexts, heard \in BOOLEAN : CreateTask(c, heard)
      \/ \E r \in Requests : SaveDecision(r) \/ SaveCancel(r) \/ SaveReceipt(r)
  <2> USE DEF agentVars, agentFrame, pollFrame, executeFrame, caseFrame
  <2>1. CASE Tick \/ (\E c \in Contexts : SendRequest(c))
    BY <2>1 DEF Tick, SendRequest
  <2>2. CASE \E r \in Requests : AgentStep(r)
    BY <2>2 DEF AgentStep, LoadDecision, LoadCancel, LoadReceipt, RequestLost
  <2>3. CASE \E p \in Pollers : PollStep(p)
    BY <2>3 DEF PollStep, PollReads, PollLost, PollVerifies
  <2>4. CASE \E d \in Deliveries : ExecuteStep(d)
    BY <2>4 DEF ExecuteStep, ClaimAction, OpenSurface, PersistSurface, DeliveryLost
  <2>5. CASE WorkflowStep \/ CaseStep
    BY <2>5 DEF WorkflowStep, BeginPoll, PollFails, Settle, WorkflowEnds, DeadlineExpires,
      workflowFrame, CaseStep, ProviderCaptures, Captured, PartCaptured, Stop, CancelAction
  <2>6. CASE UNCHANGED vars
    BY <2>6 DEF vars
  <2> QED BY <2>1, <2>2, <2>3, <2>4, <2>5, <2>6 DEF Next
<1> QED BY <1>1, <1>2, <1>3, <1>4, <1>5, <1>6

\* What each move does to the fields of the task.
LEMMA MovedTask ==
    ASSUME Inv, TaskMoves, Collected => Collected', claim # None => claim' # None
    PROVE  /\ task' \in Tasks \cup {None}
           /\ task' # None => TaskOK'
           /\ task # None => /\ task' # None
                             /\ task' = task \/ task'.revision = task.revision + 1
                             /\ task.mandate # None => task'.mandate = task.mandate
<1> USE NoneAssumption DEF Changed
<1>0. task # None => TaskOK
  BY DEF Inv, AgentInv
<1>1. CASE task' = task
  BY <1>0, <1>1 DEF TaskOK
<1>2. CASE task = None /\ \E c \in Contexts : task' = NewTask(c)
  <2>1. PICK c \in Contexts : task' = NewTask(c)
    BY <1>2
  <2>2. task' \in Tasks
    BY <2>1 DEF NewTask, Tasks, TaskStates
  <2>3. task'.state = "AUTH_REQUIRED" /\ task'.revision = 1 /\ task'.mandate = None
    BY <2>1 DEF NewTask
  <2> QED BY <1>2, <2>2, <2>3 DEF TaskOK
<1>3. CASE /\ task # None /\ task.state = "AUTH_REQUIRED"
           /\ \E m \in Mandates :
                  task' = Changed([task EXCEPT !.state = "WORKING", !.mandate = m])
  <2>1. PICK m \in Mandates :
            task' = Changed([task EXCEPT !.state = "WORKING", !.mandate = m])
    BY <1>3
  <2>2. task \in Tasks /\ task.revision = 1 /\ task.mandate = None
    BY <1>0, <1>3 DEF TaskOK
  <2>3. task' \in Tasks
    <3>1. task' = [state |-> "WORKING", revision |-> task.revision + 1,
                   context |-> task.context, mandate |-> m, receipt |-> task.receipt]
      BY <2>1, <2>2 DEF Tasks
    <3>2. task.revision + 1 \in 1..3
      BY <2>2
    <3> QED BY <2>2, <3>1, <3>2 DEF Tasks, TaskStates
  <2>4. task'.state = "WORKING" /\ task'.revision = 2 /\ task'.mandate = m
    BY <2>1, <2>2 DEF Tasks
  <2>5. task' # None /\ m # None
    BY <2>3
  <2> QED BY <1>3, <2>2, <2>3, <2>4, <2>5 DEF TaskOK
<1>4. CASE /\ task # None /\ task.state \in {"AUTH_REQUIRED", "WORKING"}
           /\ task' = Changed([task EXCEPT !.state = "CANCELED"])
  <2>1. task \in Tasks /\ task.revision \in {1, 2}
    BY <1>0, <1>4 DEF TaskOK
  <2>2. task' \in Tasks
    <3>1. task' = [state |-> "CANCELED", revision |-> task.revision + 1,
                   context |-> task.context, mandate |-> task.mandate,
                   receipt |-> task.receipt]
      BY <1>4, <2>1 DEF Tasks
    <3>2. task.revision + 1 \in 1..3
      BY <2>1
    <3> QED BY <2>1, <3>1, <3>2 DEF Tasks, TaskStates
  <2>3. /\ task'.state = "CANCELED" /\ task'.revision = task.revision + 1
        /\ task'.mandate = task.mandate
    BY <1>4, <2>1 DEF Tasks
  <2> QED BY <2>2, <2>3 DEF TaskOK
<1>5. CASE /\ task # None /\ task.state = "WORKING" /\ Collected /\ claim # None
           /\ task' = Changed([task EXCEPT !.state = "COMPLETED", !.receipt = TRUE])
  <2>1. task \in Tasks /\ task.revision = 2 /\ task.mandate # None
    BY <1>0, <1>5 DEF TaskOK
  <2>2. task' \in Tasks
    <3>1. task' = [state |-> "COMPLETED", revision |-> task.revision + 1,
                   context |-> task.context, mandate |-> task.mandate, receipt |-> TRUE]
      BY <1>5, <2>1 DEF Tasks
    <3>2. task.revision + 1 \in 1..3
      BY <2>1
    <3> QED BY <2>1, <3>1, <3>2 DEF Tasks, TaskStates
  <2>3. /\ task'.state = "COMPLETED" /\ task'.revision = task.revision + 1
        /\ task'.mandate = task.mandate
    BY <1>5, <2>1 DEF Tasks
  <2> QED BY <1>5, <2>1, <2>2, <2>3 DEF TaskOK
<1> QED BY <1>1, <1>2, <1>3, <1>4, <1>5 DEF TaskMoves

----------------------------------------------------------------------------
(* The handlers' copies, the claim and the polls. *)

\* A step of the case, or none, changes the money and its row.
LEMMA MoneyFrame ==
    ASSUME Inv, [Next]_vars
    PROVE  UNCHANGED <<case, exact, provider>> \/ (CaseStep /\ UNCHANGED <<workflow, held, known>>)
<1> USE DEF agentVars, agentFrame, pollFrame, executeFrame, caseFrame, claimVars, workerVars,
            caseVars
<1>1. CASE Tick \/ (\E c \in Contexts : SendRequest(c))
  BY <1>1 DEF Tick, SendRequest
<1>2. CASE \E c \in Contexts, heard \in BOOLEAN : CreateTask(c, heard)
  BY <1>2 DEF CreateTask
<1>3. CASE \E r \in Requests : AgentStep(r)
  BY <1>3 DEF AgentStep, LoadDecision, SaveDecision, LoadCancel, SaveCancel, LoadReceipt,
              SaveReceipt, RequestLost
<1>4. CASE \E p \in Pollers : PollStep(p)
  BY <1>4 DEF PollStep, PollReads, PollLost, PollVerifies
<1>5. CASE \E d \in Deliveries : ExecuteStep(d)
  BY <1>5 DEF ExecuteStep, ClaimAction, OpenSurface, PersistSurface, DeliveryLost
<1>6. CASE WorkflowStep
  BY <1>6 DEF WorkflowStep, BeginPoll, PollFails, Settle, WorkflowEnds, DeadlineExpires,
              workflowFrame
<1>7. CASE CaseStep
  BY <1>7 DEF CaseStep, ProviderCaptures, Captured, PartCaptured, Stop, CancelAction
<1>8. CASE UNCHANGED vars
  BY <1>8 DEF vars
<1> QED BY <1>1, <1>2, <1>3, <1>4, <1>5, <1>6, <1>7, <1>8 DEF Next

\* Money that came does not go, and the row follows it.
LEMMA MoneyStep ==
    ASSUME Inv, [Next]_vars
    PROVE  /\ Collected => Collected'
           /\ (case = "paid" => ArrearsCaptured)'
           /\ (~exact => provider \in {"part", "parts"})'
<1>0. /\ case = "paid" => ArrearsCaptured
      /\ ~exact => provider \in {"part", "parts"}
  BY DEF Inv, MoneyInv
<1> USE DEF Collected, ArrearsCaptured, PartCountsTwice
<1>1. CASE UNCHANGED <<case, exact, provider>>
  BY <1>0, <1>1
<1>2. CASE ProviderCaptures
  BY <1>0, <1>2 DEF ProviderCaptures
<1>3. CASE Captured
  BY <1>0, <1>3 DEF Captured, caseFrame
<1>4. CASE PartCaptured
  BY <1>0, <1>4 DEF PartCaptured, caseFrame
<1>5. CASE Stop
  BY <1>0, <1>5 DEF Stop, caseFrame
<1>6. CASE CancelAction
  BY <1>0, <1>6 DEF CancelAction, caseFrame
<1> QED BY <1>1, <1>2, <1>3, <1>4, <1>5, <1>6, MoneyFrame DEF CaseStep

\* The claim is written once, with a mandate that a poll has read.
LEMMA ClaimStep ==
    ASSUME Inv, [Next]_vars
    PROVE  \/ UNCHANGED <<claim, held, execution>>
           \/ UNCHANGED <<claim, held>> /\ \E d \in Deliveries : ExecuteStep(d)
           \/ \E p \in Pollers :
                  /\ poll[p] # None /\ UNCHANGED <<task, delivery, opened, known>>
                  /\ \/ claim = None /\ claim' = poll[p] /\ execution' = "AUTHORIZED"
                     \/ UNCHANGED <<claim, execution>>
                  /\ held' = held \/ (held' = poll[p] /\ claim' = poll[p])
<1> USE DEF agentVars, agentFrame, pollFrame, executeFrame, caseFrame, claimVars, workerVars,
            caseVars
<1>1. CASE Tick \/ (\E c \in Contexts : SendRequest(c))
  BY <1>1 DEF Tick, SendRequest
<1>2. CASE \E c \in Contexts, heard \in BOOLEAN : CreateTask(c, heard)
  BY <1>2 DEF CreateTask
<1>3. CASE \E r \in Requests : AgentStep(r)
  BY <1>3 DEF AgentStep, LoadDecision, SaveDecision, LoadCancel, SaveCancel, LoadReceipt,
              SaveReceipt, RequestLost
<1>4. CASE \E p \in Pollers : PollLost(p) \/ \E heard \in BOOLEAN : PollReads(p, heard)
  BY <1>4 DEF PollReads, PollLost
<1>5. ASSUME NEW p \in Pollers, NEW heard \in BOOLEAN, PollVerifies(p, heard)
      PROVE  /\ poll[p] # None /\ UNCHANGED <<task, delivery, opened, known>>
             /\ \/ claim = None /\ claim' = poll[p] /\ execution' = "AUTHORIZED"
                \/ UNCHANGED <<claim, execution>>
             /\ held' = held \/ (held' = poll[p] /\ claim' = poll[p])
  BY <1>5 DEF PollVerifies, Verify, Consume
<1>6. CASE \E d \in Deliveries : ExecuteStep(d)
  BY <1>6 DEF ExecuteStep, ClaimAction, OpenSurface, PersistSurface, DeliveryLost
<1>7. CASE WorkflowStep \/ CaseStep
  BY <1>7 DEF WorkflowStep, BeginPoll, PollFails, Settle, WorkflowEnds, DeadlineExpires,
      workflowFrame, CaseStep, ProviderCaptures, Captured, PartCaptured, Stop, CancelAction
<1>8. CASE UNCHANGED vars
  BY <1>8 DEF vars
<1> QED BY <1>1, <1>2, <1>3, <1>4, <1>5, <1>6, <1>7, <1>8 DEF Next, PollStep

\* So whoever has the claim keeps it.
LEMMA ClaimStays ==
    ASSUME Inv, [Next]_vars
    PROVE  claim # None => claim' = claim
BY ClaimStep

\* A handler's copy stays what it was while others save theirs.
LEMMA HoldsCopyStays ==
    ASSUME NEW q \in Held, HoldsCopy(q), task \in Tasks, task' # None,
           task' = task \/ task'.revision = task.revision + 1,
           Collected => Collected', claim # None => claim' = claim
    PROVE  HoldsCopy(q)'
<1>1. q.copy.revision \in Int /\ task.revision \in Int
  BY DEF Held, Tasks
<1>2. /\ q.copy.revision <= task'.revision
      /\ q.copy.revision = task'.revision => q.copy = task'
  BY <1>1 DEF HoldsCopy
<1> QED BY <1>2 DEF HoldsCopy

\* A request is as it was, is over, or has just read the task.
RequestMoves(r) ==
    \/ request'[r] = request[r] \/ request'[r] = None
    \/ /\ UNCHANGED <<task, provider, exact, claim>>
       /\ \E q \in Held : request'[r] = q /\ HoldsCopy(q)

\* What a handler reads is the task.
LEMMA LoadedCopy ==
    ASSUME Inv, task # None, NEW q \in Held, q.copy = task,
           q.op \in {"approve", "reject"} => task.state = "AUTH_REQUIRED",
           q.op = "cancel" => task.state \in {"AUTH_REQUIRED", "WORKING"},
           q.op = "receipt" => task.state = "WORKING" /\ Collected /\ claim # None
    PROVE  HoldsCopy(q)
<1>1. task.revision \in Int
  BY DEF Inv, AgentInv, TaskOK, Tasks
<1> QED BY <1>1 DEF HoldsCopy

\* A task that is there is well typed.
LEMMA TaskType ==
    ASSUME Inv, task # None
    PROVE  task \in Tasks
BY DEF Inv, AgentInv, TaskOK

\* A task that is not final is undecided or waits for a receipt.
LEMMA NotFinal ==
    ASSUME Inv, task # None, task.state \notin Final
    PROVE  task.state \in {"AUTH_REQUIRED", "WORKING"}
<1>1. task \in Tasks
  BY DEF Inv, AgentInv, TaskOK
<1> QED BY <1>1 DEF Tasks, TaskStates, Final

LEMMA RequestStep ==
    ASSUME Inv, [Next]_vars
    PROVE  /\ request' \in [Requests -> Held \cup {None}]
           /\ \A r \in Requests : RequestMoves(r)
<1> USE DEF agentVars, agentFrame, pollFrame, executeFrame, caseFrame, claimVars, caseVars
<1>0. request \in [Requests -> Held \cup {None}] /\ now \in 0..MaxTime
  BY DEF Inv, TypeOK, Held
<1> DEFINE Good == /\ request' \in [Requests -> Held \cup {None}]
                   /\ \A r \in Requests : RequestMoves(r)
<1>1. ASSUME NEW r \in Requests, NEW q, Put(r, q),
             q = None \/ (q \in Held /\ HoldsCopy(q) /\ UNCHANGED <<task, provider, exact, claim>>)
      PROVE  Good
  <2>1. request' \in [Requests -> Held \cup {None}]
    BY <1>0, <1>1 DEF Put
  <2>2. \A o \in Requests : o # r => request'[o] = request[o]
    BY <1>0, <1>1 DEF Put
  <2>3. request'[r] = q
    BY <1>0, <1>1 DEF Put
  <2> QED BY <1>1, <2>1, <2>2, <2>3 DEF RequestMoves
<1>2. ASSUME UNCHANGED request PROVE Good
  BY <1>0, <1>2 DEF RequestMoves
<1>3. ASSUME NEW r \in Requests, AgentStep(r) PROVE Good
  <2>1. ASSUME NEW op \in {"approve", "reject"}, LoadDecision(r, op) PROVE Good
    <3>1. /\ task # None /\ task.state = "AUTH_REQUIRED" /\ UNCHANGED <<task, provider, exact, claim>>
          /\ Put(r, [op |-> op, copy |-> task, at |-> now, tries |-> 1])
      BY <2>1 DEF LoadDecision
    <3> DEFINE q == [op |-> op, copy |-> task, at |-> now, tries |-> 1]
    <3>3. q \in Held /\ q.copy = task /\ q.op = op
      BY <1>0, <3>1, TaskType DEF Held
    <3>4. Put(r, q)
      BY <3>1
    <3> HIDE DEF Good, q
    <3> QED BY <1>1, <3>1, <3>3, <3>4, LoadedCopy
  <2>2. CASE LoadCancel(r)
    <3>1. /\ task # None /\ task.state \notin Final /\ UNCHANGED <<task, provider, exact, claim>>
          /\ Put(r, [op |-> "cancel", copy |-> task, at |-> now, tries |-> 1])
      BY <2>2 DEF LoadCancel
    <3> DEFINE q == [op |-> "cancel", copy |-> task, at |-> now, tries |-> 1]
    <3>3. q \in Held /\ q.copy = task /\ q.op = "cancel"
      BY <1>0, <3>1, TaskType DEF Held
    <3>4. Put(r, q)
      BY <3>1
    <3> HIDE DEF Good, q
    <3> QED BY <1>1, <3>1, <3>3, <3>4, LoadedCopy, NotFinal
  <2>3. CASE LoadReceipt(r)
    <3>1. /\ workflow = "settled" /\ task.state = "WORKING"
          /\ UNCHANGED <<task, provider, exact, claim>>
          /\ Put(r, [op |-> "receipt", copy |-> task, at |-> now, tries |-> 1])
      BY <2>3 DEF LoadReceipt, AcceptsReceipt
    <3>2. task # None /\ Collected /\ claim # None
      BY <3>1 DEF Inv, MandateInv, MoneyInv
    <3> DEFINE q == [op |-> "receipt", copy |-> task, at |-> now, tries |-> 1]
    <3>3. q \in Held /\ q.copy = task /\ q.op = "receipt"
      BY <1>0, <3>1, <3>2, TaskType DEF Held
    <3>4. Put(r, q)
      BY <3>1
    <3> HIDE DEF Good, q
    <3> QED BY <1>1, <3>1, <3>2, <3>3, <3>4, LoadedCopy
  <2>4. CASE SaveCancel(r) /\ request'[r] # None
    <3>1. /\ request[r] # None /\ request[r].op = "cancel" /\ UNCHANGED <<task, provider, exact, claim>>
          /\ task.state \notin Final /\ request[r].tries # 3
          /\ Put(r, [request[r] EXCEPT !.copy = task, !.tries = @ + 1])
      BY <1>0, <2>4 DEF SaveCancel, Put
    <3>2. request[r] \in Held /\ task # None
      BY <3>1, RequestType DEF HoldsCopy
    <3>3. request[r].tries + 1 \in 1..3
      BY <3>1, <3>2 DEF Held
    <3> DEFINE q == [request[r] EXCEPT !.copy = task, !.tries = @ + 1]
    <3>4. q \in Held /\ q.copy = task /\ q.op = "cancel"
      BY <3>1, <3>2, <3>3, TaskType DEF Held
    <3>5. Put(r, q)
      BY <3>1
    <3> HIDE DEF Good, q
    <3> QED BY <1>1, <3>1, <3>2, <3>4, <3>5, LoadedCopy, NotFinal
  <2>5. CASE Put(r, None)
    BY <1>1, <2>5
  <2>6. SaveCancel(r) /\ request'[r] = None => Put(r, None)
    BY <1>0 DEF SaveCancel, Put
  <2> QED BY <1>3, <2>1, <2>2, <2>3, <2>4, <2>5, <2>6
          DEF AgentStep, SaveDecision, SaveReceipt, RequestLost
<1>4. UNCHANGED request \/ \E r \in Requests : AgentStep(r)
  <2>1. CASE Tick \/ (\E c \in Contexts : SendRequest(c))
    BY <2>1 DEF Tick, SendRequest
  <2>2. CASE \E c \in Contexts, heard \in BOOLEAN : CreateTask(c, heard)
    BY <2>2 DEF CreateTask
  <2>3. CASE \E p \in Pollers : PollStep(p)
    BY <2>3 DEF PollStep, PollReads, PollLost, PollVerifies
  <2>4. CASE \E d \in Deliveries : ExecuteStep(d)
    BY <2>4 DEF ExecuteStep, ClaimAction, OpenSurface, PersistSurface, DeliveryLost
  <2>5. CASE WorkflowStep \/ CaseStep
    BY <2>5 DEF WorkflowStep, BeginPoll, PollFails, Settle, WorkflowEnds, DeadlineExpires,
      workflowFrame, CaseStep, ProviderCaptures, Captured, PartCaptured, Stop, CancelAction
  <2>6. CASE UNCHANGED vars
    BY <2>6 DEF vars
  <2> QED BY <2>1, <2>2, <2>3, <2>4, <2>5, <2>6 DEF Next
<1> HIDE DEF Good
<1>5. Good
  BY <1>2, <1>3, <1>4
<1> QED BY <1>5 DEF Good

\* Compare-and-swap keeps the task and the copies of it together.
LEMMA AgentInductive ==
    ASSUME Inv, [Next]_vars
    PROVE  AgentInv'
<1>1. /\ Collected => Collected'
      /\ claim # None => claim' = claim
  BY MoneyStep, ClaimStays
<1>2. TaskMoves
  BY TaskStep
<1>3. /\ task' # None => TaskOK'
      /\ task # None => task' # None /\ (task' = task \/ task'.revision = task.revision + 1)
  BY <1>1, <1>2, MovedTask
<1>4. ASSUME NEW r \in Requests, request'[r] # None PROVE HoldsCopy(request[r])'
  <2>1. CASE request'[r] = request[r]
    <3>1. PICK q \in Held : q = request[r] /\ HoldsCopy(q)
      BY <1>4, <2>1, RequestType
    <3>2. task \in Tasks /\ task # None
      BY <1>4, <2>1, RequestType DEF HoldsCopy
    <3>3. HoldsCopy(q)'
      BY <1>1, <1>3, <3>1, <3>2, HoldsCopyStays
    <3> QED BY <2>1, <3>1, <3>3 DEF HoldsCopy
  <2>2. CASE /\ UNCHANGED <<task, provider, exact, claim>>
             /\ \E q \in Held : request'[r] = q /\ HoldsCopy(q)
    BY <2>2 DEF HoldsCopy, Collected, ArrearsCaptured, PartCountsTwice
  <2> QED BY <1>4, <2>1, <2>2, RequestStep DEF RequestMoves
<1> QED BY <1>3, <1>4 DEF AgentInv

\* A poll attempt is as it was, is over, or has read the mandate of the task.
PollMoves(p) ==
    \/ poll'[p] = poll[p] \/ poll'[p] = None
    \/ UNCHANGED task /\ task # None /\ poll'[p] = task.mandate

LEMMA PollStepType ==
    ASSUME Inv, [Next]_vars
    PROVE  /\ poll' \in [Pollers -> Mandates \cup {None}]
           /\ \A p \in Pollers : PollMoves(p)
           /\ known' => known \/ task' # None
           /\ verdict' \in Verdicts
<1> USE DEF agentVars, agentFrame, pollFrame, executeFrame, caseFrame, workerVars
<1>0. /\ poll \in [Pollers -> Mandates \cup {None}] /\ verdict \in Verdicts
      /\ known => task # None
  BY DEF Inv, TypeOK, MandateInv
<1> DEFINE Good == /\ poll' \in [Pollers -> Mandates \cup {None}]
                   /\ \A p \in Pollers : PollMoves(p)
                   /\ known' => known \/ task' # None
                   /\ verdict' \in Verdicts
<1>1. ASSUME UNCHANGED <<poll, verdict, known>> PROVE Good
  BY <1>0, <1>1 DEF PollMoves
<1>2. ASSUME NEW c \in Contexts, NEW heard \in BOOLEAN, CreateTask(c, heard) PROVE Good
  <2>1. task' # None
    <3>1. NewTask(c) \in Tasks
      BY DEF NewTask, Tasks, TaskStates
    <3> QED BY <1>2, <3>1, NoneAssumption DEF CreateTask, CreateOnce
  <2> QED BY <1>0, <1>2, <2>1 DEF CreateTask, PollMoves
<1>3. ASSUME NEW p \in Pollers, NEW heard \in BOOLEAN, PollReads(p, heard) PROVE Good
  <2>1. known /\ UNCHANGED <<task, known>> /\ task \in Tasks /\ task # None
    BY <1>0, <1>3, TaskType DEF PollReads, Inv, MoneyInv
  <2>2. task.mandate \in Mandates \cup {None} /\ task.state \in TaskStates
    BY <2>1 DEF Tasks
  <2>3. /\ poll' = poll \/ poll' = [poll EXCEPT ![p] = task.mandate]
        /\ verdict' \in Verdicts
    BY <1>0, <1>3, <2>2 DEF PollReads, Hears, Reading, Verdicts, TaskStates
  <2> QED BY <1>0, <2>1, <2>2, <2>3 DEF PollMoves
<1>4. ASSUME NEW p \in Pollers, NEW heard \in BOOLEAN, PollVerifies(p, heard) PROVE Good
  BY <1>0, <1>4 DEF PollVerifies, Verify, Hears, PollMoves, Verdicts
<1>5. ASSUME NEW p \in Pollers, PollLost(p) PROVE Good
  BY <1>0, <1>5 DEF PollLost, PollMoves
<1>6. \/ UNCHANGED <<poll, verdict, known>>
      \/ \E c \in Contexts, heard \in BOOLEAN : CreateTask(c, heard)
      \/ \E p \in Pollers : PollStep(p)
  <2>1. CASE Tick \/ (\E c \in Contexts : SendRequest(c))
    BY <2>1 DEF Tick, SendRequest
  <2>2. CASE \E r \in Requests : AgentStep(r)
    BY <2>2 DEF AgentStep, LoadDecision, SaveDecision, LoadCancel, SaveCancel, LoadReceipt,
                SaveReceipt, RequestLost
  <2>3. CASE \E d \in Deliveries : ExecuteStep(d)
    BY <2>3 DEF ExecuteStep, ClaimAction, OpenSurface, PersistSurface, DeliveryLost
  <2>4. CASE WorkflowStep \/ CaseStep
    BY <2>4 DEF WorkflowStep, BeginPoll, PollFails, Settle, WorkflowEnds, DeadlineExpires,
      workflowFrame, CaseStep, ProviderCaptures, Captured, PartCaptured, Stop, CancelAction
  <2>5. CASE UNCHANGED vars
    BY <2>5 DEF vars
  <2> QED BY <2>1, <2>2, <2>3, <2>4, <2>5 DEF Next
<1> HIDE DEF Good
<1>7. Good
  BY <1>1, <1>2, <1>3, <1>4, <1>5, <1>6 DEF PollStep
<1> QED BY <1>7 DEF Good

\* There is one mandate in the system, the one the task was given.
LEMMA MandateInductive ==
    ASSUME Inv, [Next]_vars
    PROVE  MandateInv'
<1>1. /\ known => task # None
      /\ \A p \in Pollers : poll[p] # None => task # None /\ task.mandate = poll[p]
      /\ claim # None => task # None /\ task.mandate = claim
      /\ held # None => held = claim
  BY DEF Inv, MandateInv
<1>2. task # None => /\ task' # None
                     /\ task.mandate # None => task'.mandate = task.mandate
  BY MoneyStep, ClaimStays, TaskStep, MovedTask
<1>3. known' => task' # None
  BY <1>1, <1>2, PollStepType
<1>4. \A p \in Pollers : poll'[p] # None => task' # None /\ task'.mandate = poll'[p]
  BY <1>1, <1>2, PollStepType DEF PollMoves
<1>5. claim' # None => task' # None /\ task'.mandate = claim'
  BY <1>1, <1>2, ClaimStep
<1>6. held' # None => held' = claim'
  BY <1>1, ClaimStep
<1> QED BY <1>3, <1>4, <1>5, <1>6 DEF MandateInv

\* How the workflow moves: to settle it needs a receipt, to poll a task it knows.
LEMMA WorkflowMoves ==
    ASSUME Inv, [Next]_vars
    PROVE  /\ workflow' \in {"loop", "poll", "settled", "over"}
           /\ attempts' \in 0..MaximumAttempts
           /\ workflow' = "settled" => workflow = "settled" \/ Settle
           /\ workflow' = "poll" => workflow = "poll" \/ BeginPoll
           /\ known => known'
<1> USE DEF agentVars, agentFrame, pollFrame, executeFrame, caseFrame, workerVars
<1>0. /\ workflow \in {"loop", "poll", "settled", "over"}
      /\ attempts \in 0..MaximumAttempts /\ MaximumAttempts \in Nat
  BY AttemptsAssumption DEF Inv, TypeOK
<1>1. CASE UNCHANGED <<workflow, attempts, known>>
  BY <1>0, <1>1
<1>2. CASE Tick \/ (\E c \in Contexts : SendRequest(c))
  BY <1>1, <1>2 DEF Tick, SendRequest
<1>3. CASE \E c \in Contexts, heard \in BOOLEAN : CreateTask(c, heard)
  BY <1>0, <1>3 DEF CreateTask
<1>4. CASE \E r \in Requests : AgentStep(r)
  BY <1>1, <1>4 DEF AgentStep, LoadDecision, SaveDecision, LoadCancel, SaveCancel, LoadReceipt,
                    SaveReceipt, RequestLost
<1>5. CASE \E p \in Pollers : PollStep(p)
  BY <1>0, <1>5 DEF PollStep, PollReads, PollLost, PollVerifies, Verify, Hears
<1>6. CASE \E d \in Deliveries : ExecuteStep(d)
  BY <1>1, <1>6 DEF ExecuteStep, ClaimAction, OpenSurface, PersistSurface, DeliveryLost
<1>7. CASE WorkflowStep
  BY <1>0, <1>7 DEF WorkflowStep, BeginPoll, PollFails, Settle, WorkflowEnds, DeadlineExpires,
                    workflowFrame
<1>8. CASE CaseStep
  BY <1>1, <1>8 DEF CaseStep, ProviderCaptures, Captured, PartCaptured, Stop, CancelAction
<1>9. CASE UNCHANGED vars
  BY <1>1, <1>9 DEF vars
<1> QED BY <1>2, <1>3, <1>4, <1>5, <1>6, <1>7, <1>8, <1>9 DEF Next

\* A workflow settles only with the money captured, or half of it counted twice,
\* and a mandate accepted.
LEMMA MoneyInductive ==
    ASSUME Inv, [Next]_vars
    PROVE  MoneyInv'
<1>1. held # None => held' # None
  BY ClaimStep
<1>2. /\ workflow = "settled" => Collected /\ held # None
      /\ workflow = "poll" => known
      /\ case = "paid" => ArrearsCaptured
  BY DEF Inv, MoneyInv
<1>3. (workflow = "settled" => Collected /\ held # None)'
  <2>1. Settle => Collected /\ held # None
    BY <1>2 DEF Settle, ReceiptApplies, Collected, ArrearsCaptured, PartCountsTwice
  <2> QED BY <1>1, <1>2, <2>1, MoneyStep, WorkflowMoves
<1>4. (workflow = "poll" => known)'
  BY <1>2, WorkflowMoves DEF BeginPoll, Polling
<1> QED BY <1>3, <1>4, MoneyStep DEF MoneyInv

----------------------------------------------------------------------------
(* The execution. *)

\* An execute attempt claims, opens and persists what nobody else has claimed.
LEMMA ExecuteKeeps ==
    ASSUME Inv, NEW d \in Deliveries, ExecuteStep(d)
    PROVE  /\ SpendInv'
           /\ delivery' \in [Deliveries -> {"idle", "claimed", "opened"}]
           /\ execution' \in {"none", "AUTHORIZED", "EXECUTING", "SUCCEEDED"}
           /\ action' \in {"PROPOSED", "SCHEDULED", "EXECUTING", "SUCCEEDED", "CANCELLED"}
           /\ opened' \in Nat
           /\ opened' = opened \/ (opened = 0 /\ opened' = 1 /\ claim # None)
<1>0. /\ delivery \in [Deliveries -> {"idle", "claimed", "opened"}]
      /\ execution \in {"none", "AUTHORIZED", "EXECUTING", "SUCCEEDED"}
      /\ action \in {"PROPOSED", "SCHEDULED", "EXECUTING", "SUCCEEDED", "CANCELLED"}
      /\ opened \in Nat /\ SpendInv
  BY DEF Inv, TypeOK
<1> USE DEF claimVars
<1>1. CASE ClaimAction(d)
  BY <1>0, <1>1 DEF ClaimAction, MayExecute, Goto, SpendInv, OpenedOnce
<1>2. CASE OpenSurface(d)
  BY <1>0, <1>2 DEF OpenSurface, Goto, SpendInv, OpenedOnce
<1>3. CASE PersistSurface(d)
  BY <1>0, <1>3 DEF PersistSurface, Goto, SpendInv, OpenedOnce
<1>4. CASE DeliveryLost(d)
  BY <1>0, <1>4 DEF DeliveryLost, Goto, SpendInv, OpenedOnce
<1> QED BY <1>1, <1>2, <1>3, <1>4 DEF ExecuteStep

\* Everyone else leaves the execution alone.
LEMMA OthersLeaveExecution ==
    ASSUME Inv, [Next]_vars, \A d \in Deliveries : ~ExecuteStep(d)
    PROVE  /\ UNCHANGED <<delivery, opened>>
           /\ action' \in {action, "CANCELLED"} /\ due' = due
           /\ case' \in {case, "paid", "stopped"} /\ exact' \in {exact, FALSE}
           /\ provider' \in {provider, "part", "parts", "whole"}
<1> USE DEF agentVars, agentFrame, pollFrame, caseFrame, caseVars, Cancelled
<1>1. CASE Tick \/ (\E c \in Contexts : SendRequest(c))
  BY <1>1 DEF Tick, SendRequest
<1>2. CASE \E c \in Contexts, heard \in BOOLEAN : CreateTask(c, heard)
  BY <1>2 DEF CreateTask
<1>3. CASE \E r \in Requests : AgentStep(r)
  BY <1>3 DEF AgentStep, LoadDecision, SaveDecision, LoadCancel, SaveCancel, LoadReceipt,
              SaveReceipt, RequestLost
<1>4. CASE \E p \in Pollers : PollStep(p)
  BY <1>4 DEF PollStep, PollReads, PollLost, PollVerifies
<1>5. CASE WorkflowStep \/ CaseStep
  BY <1>5 DEF WorkflowStep, BeginPoll, PollFails, Settle, WorkflowEnds, DeadlineExpires,
      workflowFrame, CaseStep, ProviderCaptures, Captured, PartCaptured, Stop, CancelAction
<1>6. CASE UNCHANGED vars
  BY <1>6 DEF vars
<1> QED BY <1>1, <1>2, <1>3, <1>4, <1>5, <1>6 DEF Next

\* The claim is spent once, whoever retries.
LEMMA SpendInductive ==
    ASSUME Inv, [Next]_vars
    PROVE  SpendInv'
<1>1. CASE \E d \in Deliveries : ExecuteStep(d)
  BY <1>1, ExecuteKeeps
<1>2. CASE \A d \in Deliveries : ~ExecuteStep(d)
  <2>1. UNCHANGED <<delivery, opened>> /\ SpendInv
    BY <1>2, OthersLeaveExecution DEF Inv
  <2>2. CASE UNCHANGED <<claim, execution>>
    BY <2>1, <2>2 DEF SpendInv, OpenedOnce
  <2>3. CASE /\ claim = None /\ execution' = "AUTHORIZED"
             /\ \E p \in Pollers : poll[p] # None /\ claim' = poll[p]
    BY <2>1, <2>3 DEF SpendInv, OpenedOnce
  <2> QED BY <1>2, <2>2, <2>3, ClaimStep
<1> QED BY <1>1, <1>2

----------------------------------------------------------------------------
(* The theorems. *)

\* The clock, the requests sent, and whether the task is known, are of their types.
LEMMA ClockType ==
    ASSUME Inv, [Next]_vars
    PROVE  now' \in 0..MaxTime /\ sent' \subseteq Contexts /\ known' \in BOOLEAN
<1>0. now \in 0..MaxTime /\ sent \subseteq Contexts /\ known \in BOOLEAN
  BY DEF Inv, TypeOK
<1> USE DEF agentVars, agentFrame, pollFrame, executeFrame, caseFrame, workerVars
<1>1. CASE Tick
  BY <1>0, <1>1, TimeAssumption DEF Tick
<1>2. CASE \E c \in Contexts : SendRequest(c)
  BY <1>0, <1>2 DEF SendRequest
<1>3. CASE \E c \in Contexts, heard \in BOOLEAN : CreateTask(c, heard)
  BY <1>0, <1>3 DEF CreateTask
<1>4. CASE UNCHANGED <<now, sent, known>>
  BY <1>0, <1>4
<1>5. CASE \E r \in Requests : AgentStep(r)
  BY <1>4, <1>5 DEF AgentStep, LoadDecision, SaveDecision, LoadCancel, SaveCancel, LoadReceipt,
                    SaveReceipt, RequestLost
<1>6. CASE \E p \in Pollers : PollStep(p)
  BY <1>4, <1>6 DEF PollStep, PollReads, PollLost, PollVerifies
<1>7. CASE \E d \in Deliveries : ExecuteStep(d)
  BY <1>4, <1>7 DEF ExecuteStep, ClaimAction, OpenSurface, PersistSurface, DeliveryLost
<1>8. CASE WorkflowStep \/ CaseStep
  BY <1>4, <1>8 DEF WorkflowStep, BeginPoll, PollFails, Settle, WorkflowEnds, DeadlineExpires,
      workflowFrame, CaseStep, ProviderCaptures, Captured, PartCaptured, Stop, CancelAction
<1>9. CASE UNCHANGED vars
  BY <1>4, <1>9 DEF vars
<1> QED BY <1>1, <1>2, <1>3, <1>5, <1>6, <1>7, <1>8, <1>9 DEF Next

\* Every step keeps the types.
LEMMA TypeInductive ==
    ASSUME Inv, [Next]_vars
    PROVE  TypeOK'
<1>1. now' \in 0..MaxTime /\ sent' \subseteq Contexts /\ known' \in BOOLEAN
  BY ClockType
<1>2. task' \in Tasks \cup {None}
  BY MoneyStep, ClaimStays, TaskStep, MovedTask
<1>3. request' \in [Requests -> Held \cup {None}]
  BY RequestStep
<1>4. /\ poll' \in [Pollers -> Mandates \cup {None}] /\ verdict' \in Verdicts
      /\ workflow' \in {"loop", "poll", "settled", "over"} /\ attempts' \in 0..MaximumAttempts
  BY PollStepType, WorkflowMoves
<1>5. claim' \in Mandates \cup {None} /\ held' \in Mandates \cup {None}
  <2>1. /\ claim \in Mandates \cup {None} /\ held \in Mandates \cup {None}
        /\ \A p \in Pollers : poll[p] \in Mandates \cup {None}
    BY DEF Inv, TypeOK
  <2> QED BY <2>1, ClaimStep
<1>6. /\ execution' \in {"none", "AUTHORIZED", "EXECUTING", "SUCCEEDED"}
      /\ delivery' \in [Deliveries -> {"idle", "claimed", "opened"}]
      /\ action' \in {"PROPOSED", "SCHEDULED", "EXECUTING", "SUCCEEDED", "CANCELLED"}
      /\ due' \in {0, 1} /\ case' \in {"open", "paid", "stopped"} /\ exact' \in BOOLEAN
      /\ provider' \in {"unpaid", "part", "parts", "whole"} /\ opened' \in Nat
  <2>0. /\ execution \in {"none", "AUTHORIZED", "EXECUTING", "SUCCEEDED"}
        /\ delivery \in [Deliveries -> {"idle", "claimed", "opened"}]
        /\ action \in {"PROPOSED", "SCHEDULED", "EXECUTING", "SUCCEEDED", "CANCELLED"}
        /\ due \in {0, 1} /\ case \in {"open", "paid", "stopped"} /\ exact \in BOOLEAN
        /\ provider \in {"unpaid", "part", "parts", "whole"} /\ opened \in Nat
    BY DEF Inv, TypeOK
  <2>1. CASE \E d \in Deliveries : ExecuteStep(d)
    <3>1. UNCHANGED <<due, case, exact, provider>>
      BY <2>1 DEF ExecuteStep, ClaimAction, OpenSurface, PersistSurface, DeliveryLost,
                  executeFrame
    <3> QED BY <2>0, <2>1, <3>1, ExecuteKeeps
  <2>2. CASE \A d \in Deliveries : ~ExecuteStep(d)
    <3>1. execution' \in {execution, "AUTHORIZED"}
      BY <2>2, ClaimStep
    <3> QED BY <2>0, <2>2, <3>1, OthersLeaveExecution
  <2> QED BY <2>1, <2>2
<1> QED BY <1>1, <1>2, <1>3, <1>4, <1>5, <1>6 DEF TypeOK, Held

\* Inv is inductive.
LEMMA Invariance == Spec => []Inv
<1>1. Init => Inv
  <2> SUFFICES ASSUME Init PROVE Inv
    OBVIOUS
  <2>1. TypeOK
    <3>1. /\ now \in 0..MaxTime /\ opened \in Nat /\ due \in {0, 1}
          /\ attempts \in 0..MaximumAttempts
      BY TimeAssumption, AttemptsAssumption DEF Init
    <3>2. /\ request \in [Requests -> Held \cup {None}] /\ poll \in [Pollers -> Mandates \cup {None}]
          /\ delivery \in [Deliveries -> {"idle", "claimed", "opened"}]
      BY DEF Init
    <3> QED BY <3>1, <3>2 DEF Init, TypeOK, Verdicts, Held
  <2> QED BY <2>1 DEF Init, Inv, AgentInv, MandateInv, MoneyInv, SpendInv, OpenedOnce
<1>2. Inv /\ [Next]_vars => Inv'
  BY TypeInductive, AgentInductive, MandateInductive, MoneyInductive, SpendInductive DEF Inv
<1> QED BY <1>1, <1>2, PTL DEF Spec

\* Every variable of the agent, the worker and the rows has its type; a mandate
\* never outlives the request (NewMandate).
THEOREM TypeCorrect == Spec => []TypeOK
<1>1. Inv => TypeOK
  BY DEF Inv
<1> QED BY <1>1, Invariance, PTL

\* For any number of overlapping polls and executions, the customer's approval
\* opens the payment surface at most once (_claim_a2a_payment_action).
THEOREM ConsentOpensOnce == Spec => []OpenedOnce
<1>1. Inv => OpenedOnce
  BY DEF Inv, SpendInv
<1> QED BY <1>1, Invariance, PTL

\* However the row of the case lags behind the provider, a task is completed only
\* when the amount asked for was captured, or a credited half of it was counted
\* twice, and with the mandate that was consumed (reconcile_case,
\* _send_a2a_receipt_if_applicable, _complete_with_receipt).
THEOREM CompletedOnlyIfPaid == Spec => []CompletedWasPaid
<1>1. Inv => CompletedWasPaid
  BY DEF Inv, AgentInv, TaskOK, MandateInv, Collected, CompletedWasPaid
<1> QED BY <1>1, Invariance, PTL

\* However many requests race, a canceled or completed task never changes
\* (TaskStore.save).
THEOREM FinalTasksStay == Spec => FinalTaskIsFinal
<1>1. Inv /\ [Next]_vars => [task # None /\ task.state \in Final => task' = task]_vars
  <2> SUFFICES ASSUME Inv, [Next]_vars, task # None, task.state \in Final PROVE task' = task
    OBVIOUS
  <2> QED BY TaskStep DEF TaskMoves, Final
<1> QED BY <1>1, Invariance, PTL DEF Spec, FinalTaskIsFinal

\* A mandate that was consumed is never refused as expired or replayed by a later
\* poll (SqlAlchemyNonceStore.consume).
THEOREM ConsumedStaysGood == Spec => ConsumedIsNotRefused
<1>1. Inv /\ [Next]_vars =>
        [verdict' # verdict /\ verdict' \in {"expired", "replayed"} => claim = None]_vars
  <2> SUFFICES ASSUME Inv, [Next]_vars, verdict' # verdict,
                      verdict' \in {"expired", "replayed"}, claim # None
               PROVE  FALSE
    OBVIOUS
  <2> USE DEF agentVars, agentFrame, pollFrame, executeFrame, caseFrame, workerVars
  <2>1. ASSUME NEW p \in Pollers, NEW heard \in BOOLEAN, PollVerifies(p, heard) PROVE FALSE
    <3>1. poll[p] # None /\ Consume(poll[p]) = "CONFLICT"
      BY <2>1 DEF PollVerifies, Verify, Hears
    <3>2. poll[p] = claim
      BY <2>1 DEF PollVerifies, Inv, MandateInv
    <3> QED BY <3>1, <3>2 DEF Consume
  <2>2. CASE \E p \in Pollers : PollLost(p) \/ \E heard \in BOOLEAN : PollReads(p, heard)
    <3>1. PICK p \in Pollers, heard \in BOOLEAN : PollReads(p, heard)
      BY <2>2 DEF PollLost
    <3>2. known /\ task # None
      BY <3>1 DEF PollReads, Inv, MoneyInv, MandateInv
    <3>3. task.state \in TaskStates
      BY <3>2, TaskType DEF Tasks
    <3> QED BY <3>1, <3>3 DEF PollReads, Hears, Reading, TaskStates
  <2>3. CASE Tick \/ (\E c \in Contexts : SendRequest(c))
    BY <2>3 DEF Tick, SendRequest
  <2>4. CASE \E c \in Contexts, heard \in BOOLEAN : CreateTask(c, heard)
    BY <2>4 DEF CreateTask
  <2>5. CASE \E r \in Requests : AgentStep(r)
    BY <2>5 DEF AgentStep, LoadDecision, SaveDecision, LoadCancel, SaveCancel, LoadReceipt,
                SaveReceipt, RequestLost
  <2>6. CASE \E d \in Deliveries : ExecuteStep(d)
    BY <2>6 DEF ExecuteStep, ClaimAction, OpenSurface, PersistSurface, DeliveryLost
  <2>7. CASE WorkflowStep \/ CaseStep
    BY <2>7 DEF WorkflowStep, BeginPoll, PollFails, Settle, WorkflowEnds, DeadlineExpires,
      workflowFrame, CaseStep, ProviderCaptures, Captured, PartCaptured, Stop, CancelAction
  <2>8. CASE UNCHANGED vars
    BY <2>8 DEF vars
  <2> QED BY <2>1, <2>2, <2>3, <2>4, <2>5, <2>6, <2>7, <2>8 DEF Next, PollStep
<1> QED BY <1>1, Invariance, PTL DEF Spec, ConsumedIsNotRefused

\* A move of the task is one of the customer's decisions, or none.
LEMMA ConsentMoves ==
    ASSUME Inv, TaskMoves, Collected => Collected', claim # None => claim' # None,
           UNCHANGED <<claim, opened>>
    PROVE  Consent!ConsentNext \/ UNCHANGED Consent!consentVars
<1> USE NoneAssumption
<1>0. /\ task # None => TaskOK
      /\ task' # None => TaskOK'
      /\ task # None => task' # None
  BY MovedTask DEF Inv, AgentInv
<1>1. CASE task' = task
  BY <1>1 DEF Consent!consentVars
<1>2. CASE task = None /\ \E c \in Contexts : task' = NewTask(c)
  <2>1. PICK c \in Contexts : task' = NewTask(c)
    BY <1>2
  <2>2. task'.state = "AUTH_REQUIRED" /\ task' \in Tasks
    BY <2>1 DEF NewTask, Tasks, TaskStates
  <2>3. task' # None
    BY <2>2
  <2> QED BY <1>2, <2>2, <2>3 DEF Consent!ConsentNext, Consent!Ask
<1>3. CASE /\ task # None /\ task.state = "AUTH_REQUIRED"
           /\ \E m \in Mandates :
                  task' = Changed([task EXCEPT !.state = "WORKING", !.mandate = m])
  <2>1. task'.state = "WORKING"
    BY <1>0, <1>3 DEF TaskOK, Tasks, Changed
  <2>2. task' # None /\ task'.mandate # None
    BY <1>0, <1>3, <2>1 DEF TaskOK
  <2> QED BY <1>3, <2>1, <2>2 DEF Consent!ConsentNext, Consent!Give
<1>4. CASE /\ task # None /\ task.state \in {"AUTH_REQUIRED", "WORKING"}
           /\ task' = Changed([task EXCEPT !.state = "CANCELED"])
  <2>1. task'.state = "CANCELED" /\ task'.mandate = task.mandate /\ task' # None
    BY <1>0, <1>4 DEF TaskOK, Tasks, Changed
  <2>2. CASE task.state = "AUTH_REQUIRED"
    <3>1. task.mandate = None
      BY <1>0, <1>4, <2>2 DEF TaskOK
    <3> QED BY <1>4, <2>1, <2>2, <3>1 DEF Consent!ConsentNext, Consent!Refuse
  <2>3. CASE task.state = "WORKING"
    <3>1. task.mandate # None
      BY <1>0, <1>4, <2>3 DEF TaskOK
    <3> QED BY <1>4, <2>1, <2>3, <3>1 DEF Consent!ConsentNext, Consent!Withdraw
  <2> QED BY <1>4, <2>2, <2>3
<1>5. CASE /\ task # None /\ task.state = "WORKING" /\ Collected /\ claim # None
           /\ task' = Changed([task EXCEPT !.state = "COMPLETED", !.receipt = TRUE])
  <2>1. task'.state = "COMPLETED" /\ task'.mandate = task.mandate /\ task' # None
    BY <1>0, <1>5 DEF TaskOK, Tasks, Changed
  <2>2. task.mandate # None
    BY <1>0, <1>5 DEF TaskOK
  <2> QED BY <1>5, <2>1, <2>2 DEF Consent!consentVars
<1> QED BY <1>1, <1>2, <1>3, <1>4, <1>5 DEF TaskMoves

\* Every step is one of the abstract consent, or leaves it alone.
LEMMA ConsentStep ==
    ASSUME Inv, Inv', [Next]_vars
    PROVE  Consent!ConsentNext \/ UNCHANGED Consent!consentVars
<1>1. CASE \E d \in Deliveries : ExecuteStep(d)
  <2>1. UNCHANGED <<task, claim>>
    BY <1>1 DEF ExecuteStep, ClaimAction, OpenSurface, PersistSurface, DeliveryLost,
                executeFrame, agentVars, claimVars
  <2>2. opened' = opened \/ (opened = 0 /\ opened' = 1 /\ claim # None)
    BY <1>1, ExecuteKeeps
  <2>3. CASE opened' = opened
    BY <2>1, <2>3 DEF Consent!consentVars
  <2>4. CASE opened = 0 /\ opened' = 1 /\ claim # None
    BY <2>1, <2>4 DEF Consent!ConsentNext, Consent!Use
  <2> QED BY <2>2, <2>3, <2>4
<1>2. CASE \A d \in Deliveries : ~ExecuteStep(d)
  <2>1. UNCHANGED opened
    BY <1>2, OthersLeaveExecution
  <2>2. CASE UNCHANGED claim
    BY <2>1, <2>2, TaskStep, MoneyStep, ConsentMoves
  <2>3. ASSUME NEW p \in Pollers, poll[p] # None, UNCHANGED task, claim = None,
               claim' = poll[p], execution' = "AUTHORIZED"
        PROVE  Consent!ConsentNext
    <3>1. task # None /\ task.mandate # None
      BY <2>3 DEF Inv, MandateInv
    <3>2. task.state # "AUTH_REQUIRED"
      BY <3>1 DEF Inv, AgentInv, TaskOK
    <3>3. opened = 0
      BY <2>3 DEF Inv, SpendInv
    <3> QED BY <2>1, <2>3, <3>1, <3>2, <3>3 DEF Consent!ConsentNext, Consent!Reserve
  <2> QED BY <1>2, <2>2, <2>3, ClaimStep
<1> QED BY <1>1, <1>2

\* For any number of requests, polls and executions the protocol implements
\* consent that is given before it is reserved, and reserved and used once.
THEOREM ProtocolImplementsConsent == Spec => ImplementsConsent
<1>1. Init => Consent!ConsentInit
  BY DEF Init, Consent!ConsentInit
<1>2. Inv /\ Inv' /\ [Next]_vars => [Consent!ConsentNext]_(Consent!consentVars)
  BY ConsentStep
<1> QED BY <1>1, <1>2, Invariance, PTL DEF Spec, ImplementsConsent, Consent!ConsentSpec
=============================================================================
