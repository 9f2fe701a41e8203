------------------------ MODULE ApprovalSafety_proofs ------------------------
(***************************************************************************)
(* The safety of the approval path for every value of its constants: its   *)
(* states are well-typed, decisions are recorded once, claims fence one    *)
(* another, rows are audited once and nothing but a committed decision     *)
(* reaches a workflow.                                                     *)
(***************************************************************************)
EXTENDS ApprovalDelivery, TLAPS

\* A delivery is always of a row that exists.
TasksHaveRows == \A t \in tasks : outbox[t.approval] # NoRow

TypeInv == TypeOK /\ TasksHaveRows

(***************************************************************************)
(* Types.                                                                  *)
(***************************************************************************)

\* Facts about the records, for the provers.
LEMMA EventType ==
    ASSUME NEW a \in Approvals, NEW req \in Requests, NEW n \in Nat
    PROVE  Event(a, req, n) \in Events
  BY DEF Event, Events

LEMMA RowIsRow ==
    ASSUME TypeOK, NEW a \in Approvals, outbox[a] # NoRow
    PROVE  outbox[a] \in Rows
  BY DEF TypeOK

LEMMA BufferedType ==
    ASSUME TypeOK, NEW f \in Workflows, NEW e \in AnyEvent
    PROVE  Buffered(f, e) \in [Workflows -> WorkflowStates]
  <1> DEFINE q == Append(wf[f].queue, e)
  <1>1. wf[f] \in WorkflowStates
    BY DEF TypeOK
  <1>2. q \in Seq(AnyEvent)
    BY <1>1 DEF WorkflowStates
  <1> HIDE DEF q
  <1>3. [wf[f] EXCEPT !.queue = q] \in WorkflowStates
    BY <1>1, <1>2 DEF WorkflowStates
  <1>4. [wf EXCEPT ![f].queue = q] \in [Workflows -> WorkflowStates]
    BY <1>3 DEF TypeOK
  <1> QED BY <1>4 DEF Buffered, q

LEMMA ApiTypes ==
    ASSUME TypeInv, NEW h \in Handlers, NEW a \in Approvals,
           NEW req \in Requests,
           \/ BeginDecision(h, a, req)
           \/ RepeatDecision(h, a, req)
           \/ DenyByPolicy(h)
           \/ SignalNow(h)
           \/ CommitDecision(h)
           \/ AbortDecision(h)
    PROVE  TypeInv'
  <1> USE ApprovalAssumption DEF TypeInv, apiVars, workerVars
  <1>1. CASE BeginDecision(h, a, req)
    BY <1>1 DEF TypeOK, TasksHaveRows, BeginDecision, Transactions
  <1>2. CASE RepeatDecision(h, a, req)
    BY <1>2 DEF TypeOK, TasksHaveRows, RepeatDecision, Replies
  <1>3. CASE DenyByPolicy(h)
    BY <1>3 DEF TypeOK, TasksHaveRows, DenyByPolicy
  <1>4. CASE SignalNow(h)
    <2> DEFINE b == handler[h].approval
               e == Event(b, handler[h].req, handler[h].at)
    <2>1. handler[h] \in Transactions
      BY <1>4 DEF SignalNow, TypeOK
    <2>2. /\ b \in Approvals
          /\ e \in Events
          /\ WorkflowOf[b] \in Workflows
      BY <2>1, EventType DEF Transactions
    <2> HIDE DEF b, e
    <2>3. handler' \in [Handlers -> Transactions \cup {Idle}]
      BY <1>4, <2>1 DEF SignalNow, TypeOK, Transactions
    <2>4. wf' \in [Workflows -> WorkflowStates] /\ net' \subseteq Events
      <3>1. Buffered(WorkflowOf[b], e) \in [Workflows -> WorkflowStates]
        BY <2>2, BufferedType DEF AnyEvent
      <3>2. \/ wf' = Buffered(WorkflowOf[b], e) /\ net' = net
            \/ wf' = wf /\ net' \in {net, net \cup {e}}
        BY <1>4 DEF SignalNow, b, e
      <3> QED BY <3>1, <3>2, <2>2 DEF TypeOK
    <2> QED BY <1>4, <2>3, <2>4 DEF SignalNow, TypeOK, TasksHaveRows
  <1>5. CASE CommitDecision(h)
    <2> DEFINE b == handler[h].approval
               e == Event(b, handler[h].req, handler[h].at)
               row == [status |-> "pending", attempt |-> 0, token |-> 0,
                       due |-> TRUE, leaseLive |-> FALSE, event |-> e]
    <2>1. handler[h] \in Transactions
      BY <1>5 DEF CommitDecision, TypeOK
    <2>2. /\ b \in Approvals
          /\ handler[h].req \in Requests
          /\ e \in Events
      BY <2>1, EventType DEF Transactions
    <2> HIDE DEF b, e
    <2>3. row \in Rows /\ row # NoRow
      BY <2>2 DEF Rows, Statuses, NoRow
    <2> HIDE DEF row
    <2>4. outbox' = outbox \/ outbox' = [outbox EXCEPT ![b] = row]
      BY <1>5 DEF CommitDecision, b, e, row
    <2>5. outbox' \in [Approvals -> Rows \cup {NoRow}]
      BY <2>2, <2>3, <2>4 DEF TypeOK
    <2>6. TasksHaveRows'
      BY <1>5, <2>2, <2>3, <2>4 DEF TypeOK, TasksHaveRows, CommitDecision,
                                    Tasks
    <2>7. record' \in [Approvals -> Requests \cup {NoDecision}]
      BY <1>5, <2>2 DEF CommitDecision, TypeOK, b
    <2>8. replies' \subseteq Replies
      BY <1>5, <2>2 DEF CommitDecision, TypeOK, Replies, b
    <2> QED BY <1>5, <2>5, <2>6, <2>7, <2>8 DEF CommitDecision, TypeOK
  <1>6. CASE AbortDecision(h)
    BY <1>6 DEF TypeOK, TasksHaveRows, AbortDecision
  <1> QED BY <1>1, <1>2, <1>3, <1>4, <1>5, <1>6

LEMMA ClaimTypes ==
    ASSUME TypeInv, NEW w \in Workers, NEW batch \in SUBSET Approvals,
           Claim(w, batch)
    PROVE  TypeInv'
  <1> USE DEF TypeInv, apiVars
  <1>1. ASSUME NEW a \in batch
        PROVE  /\ a \in Approvals
               /\ outbox[a] \in Rows
               /\ outbox[a].attempt + 1 \in Nat
    <2>1. a \in Approvals /\ outbox[a] # NoRow
      BY DEF Claim, Claimable
    <2>2. outbox[a] \in Rows
      BY <2>1, RowIsRow
    <2> QED BY <2>1, <2>2 DEF Rows
  <1>2. outbox' \in [Approvals -> Rows \cup {NoRow}]
    <2>1. ASSUME NEW a \in Approvals
          PROVE  outbox'[a] \in Rows \cup {NoRow}
      <3>1. CASE a \in batch
        <4>1. outbox'[a] = [outbox[a] EXCEPT !.status = "dispatching",
                                  !.attempt = outbox[a].attempt + 1,
                                  !.token = outbox[a].attempt + 1,
                                  !.leaseLive = TRUE]
          BY <3>1 DEF Claim
        <4> QED BY <4>1, <3>1, <1>1 DEF Rows, Statuses
      <3>2. CASE a \notin batch
        BY <3>2 DEF Claim, TypeOK
      <3> QED BY <3>1, <3>2
    <2> QED BY <2>1 DEF Claim
  <1>3. tasks' \subseteq Tasks
    <2>1. ASSUME NEW t \in tasks'
          PROVE  t \in Tasks
      <3>1. t \in tasks \/ \E a \in batch : t = NewTask(w, a)
        BY DEF Claim, NewTask
      <3>2. ASSUME NEW a \in batch
            PROVE  NewTask(w, a) \in Tasks
        BY <1>1 DEF Tasks, Outcomes, NewTask
      <3> QED BY <3>1, <3>2 DEF TypeOK
    <2> QED BY <2>1
  <1>4. TasksHaveRows'
    <2>1. ASSUME NEW a \in Approvals, outbox[a] # NoRow
          PROVE  outbox'[a] # NoRow
      BY <2>1, RowIsRow DEF Claim, Rows, NoRow
    <2>2. ASSUME NEW a \in batch
          PROVE  outbox'[a] # NoRow
      BY <2>1, <1>1 DEF Claim, Claimable
    <2>3. ASSUME NEW t \in tasks'
          PROVE  outbox'[t.approval] # NoRow
      <3>1. t \in tasks \/ \E a \in batch : t = NewTask(w, a)
        BY DEF Claim, NewTask
      <3>2. CASE t \in tasks
        BY <3>2, <2>1 DEF TasksHaveRows, TypeOK, Tasks
      <3>3. CASE \E a \in batch : t = NewTask(w, a)
        BY <3>3, <2>2 DEF NewTask
      <3> QED BY <3>1, <3>2, <3>3
    <2> QED BY <2>3 DEF TasksHaveRows
  <1> QED BY <1>2, <1>3, <1>4 DEF Claim, TypeOK

\* What a delivery step may rely on.
LEMMA TaskFacts ==
    ASSUME TypeInv, NEW t \in tasks
    PROVE  /\ t \in Tasks
           /\ t.approval \in Approvals
           /\ WorkflowOf[t.approval] \in Workflows
           /\ outbox[t.approval] \in Rows
           /\ outbox[t.approval] # NoRow
           /\ outbox[t.approval].event \in Events
  BY ApprovalAssumption, RowIsRow DEF TypeInv, TypeOK, TasksHaveRows, Tasks,
                                      Rows

LEMMA FinishedType ==
    ASSUME TypeInv, NEW t \in tasks, NEW o \in Outcomes
    PROVE  /\ Finished(t, o) \subseteq Tasks
           /\ \A u \in Finished(t, o) : outbox[u.approval] # NoRow
  <1> DEFINE v == [t EXCEPT !.phase = "final", !.outcome = o]
  <1>1. v \in Tasks /\ v.approval = t.approval
    BY TaskFacts DEF Tasks
  <1> QED BY <1>1, TaskFacts DEF Finished, Replaced, TypeInv, TypeOK,
                                 TasksHaveRows

LEMMA WriteOutcomeType ==
    ASSUME TypeInv, NEW t \in tasks, WriteOutcome(t)
    PROVE  /\ outbox' \in [Approvals -> Rows \cup {NoRow}]
           /\ audits' \in [Approvals -> Nat]
           /\ \A a \in Approvals : outbox[a] # NoRow => outbox'[a] # NoRow
  <1> USE DEF TypeInv
  <1>1. CASE HoldsClaim(t)
    <2> DEFINE row == [outbox[t.approval] EXCEPT
                          !.status = NewStatus(t), !.token = 0,
                          !.due = (NewStatus(t) # "pending"),
                          !.leaseLive = FALSE]
    <2>1. NewStatus(t) \in Statuses
      BY DEF NewStatus, Statuses
    <2>2. row \in Rows
      BY <2>1, TaskFacts DEF Rows
    <2>3. row # NoRow
      BY <2>2 DEF Rows, Statuses, NoRow
    <2>4. outbox' = [outbox EXCEPT ![t.approval] = row]
      BY <1>1 DEF WriteOutcome
    <2>5. audits' \in [Approvals -> Nat]
      BY <1>1 DEF WriteOutcome, TypeOK
    <2> HIDE DEF row
    <2> QED BY <2>2, <2>3, <2>4, <2>5, TaskFacts DEF TypeOK
  <1>2. CASE ~HoldsClaim(t)
    BY <1>2 DEF WriteOutcome, TypeOK
  <1> QED BY <1>1, <1>2

LEMMA DeliverTypes ==
    ASSUME TypeInv, NEW t \in tasks, Deliver(t) \/ FinalizeRaises(t)
    PROVE  TypeInv'
  <1> USE DEF TypeInv, apiVars, workerVars
  <1>1. CASE SignalDelivered(t)
    <2>1. wf' \in [Workflows -> WorkflowStates]
      BY <1>1, TaskFacts, BufferedType DEF SignalDelivered, AnyEvent
    <2>2. tasks' = Finished(t, "ok")
      BY <1>1 DEF SignalDelivered
    <2>3. tasks' \subseteq Tasks /\ TasksHaveRows'
      BY <1>1, <2>2, FinishedType DEF SignalDelivered, TasksHaveRows, Outcomes
    <2> QED BY <1>1, <2>1, <2>3 DEF SignalDelivered, TypeOK
  <1>2. CASE SignalFailed(t)
    <2>1. net' \subseteq Events
      BY <1>2, TaskFacts DEF SignalFailed, TypeOK
    <2>2. tasks' \subseteq Tasks /\ TasksHaveRows'
      BY <1>2, FinishedType DEF SignalFailed, TasksHaveRows, Outcomes
    <2> QED BY <1>2, <2>1, <2>2 DEF SignalFailed, TypeOK
  <1>3. CASE SignalRejected(t)
    <2> DEFINE v == [t EXCEPT !.phase = "reconcile"]
    <2>1. v \in Tasks /\ v.approval = t.approval
      BY TaskFacts DEF Tasks
    <2>2. tasks' = (tasks \ {t}) \cup {v}
      BY <1>3 DEF SignalRejected, Replaced
    <2>3. tasks' \subseteq Tasks /\ TasksHaveRows'
      BY <1>3, <2>1, <2>2, TaskFacts DEF SignalRejected, TypeOK, TasksHaveRows
    <2> QED BY <1>3, <2>3 DEF SignalRejected, TypeOK
  <1>4. CASE Reconcile(t)
    <2>1. Reconciliation(t) \in Outcomes
      BY DEF Reconciliation, Outcomes
    <2>2. tasks' \subseteq Tasks /\ TasksHaveRows'
      BY <1>4, <2>1, FinishedType DEF Reconcile, TasksHaveRows
    <2> QED BY <1>4, <2>2 DEF Reconcile, TypeOK
  <1>5. CASE ReconcileUnknown(t)
    <2>2. tasks' \subseteq Tasks /\ TasksHaveRows'
      BY <1>5, FinishedType DEF ReconcileUnknown, TasksHaveRows, Outcomes
    <2> QED BY <1>5, <2>2 DEF ReconcileUnknown, TypeOK
  <1>6. CASE Finalize(t)
    <2>1. TasksHaveRows'
      BY <1>6, WriteOutcomeType DEF Finalize, TasksHaveRows, TypeOK, Tasks
    <2> QED BY <1>6, <2>1, WriteOutcomeType DEF Finalize, TypeOK
  <1>7. CASE FinalizeRaises(t)
    <2>1. /\ outbox' \in [Approvals -> Rows \cup {NoRow}]
          /\ audits' \in [Approvals -> Nat]
          /\ \A a \in Approvals : outbox[a] # NoRow => outbox'[a] # NoRow
      BY <1>7, WriteOutcomeType DEF FinalizeRaises, TypeOK
    <2>2. ASSUME NEW u \in tasks'
          PROVE  u \in Tasks /\ outbox'[u.approval] # NoRow
      <3>1. PICK v \in tasks : u = IF v.worker = t.worker
                                   THEN [v EXCEPT !.awaited = FALSE] ELSE v
        BY <1>7 DEF FinalizeRaises
      <3>2. v \in Tasks /\ v.approval \in Approvals
        BY TaskFacts
      <3>3. u \in Tasks /\ u.approval = v.approval
        BY <3>1, <3>2 DEF Tasks
      <3> QED BY <2>1, <3>2, <3>3, TaskFacts
    <2>3. tasks' \subseteq Tasks /\ TasksHaveRows'
      BY <2>2 DEF TasksHaveRows
    <2> QED BY <1>7, <2>1, <2>3 DEF FinalizeRaises, TypeOK
  <1> QED BY <1>1, <1>2, <1>3, <1>4, <1>5, <1>6, <1>7 DEF Deliver

LEMMA ClockTypes ==
    ASSUME TypeInv, NEW a \in Approvals, LeaseExpires(a) \/ RetryDue(a)
    PROVE  TypeInv'
  <1> USE DEF TypeInv, apiVars, workerVars
  <1>1. outbox[a] \in Rows
    BY RowIsRow DEF LeaseExpires, RetryDue
  <1>2. /\ [outbox[a] EXCEPT !.leaseLive = FALSE] \in Rows
        /\ [outbox[a] EXCEPT !.due = TRUE] \in Rows
    BY <1>1 DEF Rows
  <1>3. \A r \in Rows : r # NoRow
    BY DEF Rows, Statuses, NoRow
  <1>4. CASE LeaseExpires(a)
    <2>1. outbox' = [outbox EXCEPT ![a] =
                        [outbox[a] EXCEPT !.leaseLive = FALSE]]
      BY <1>4 DEF LeaseExpires
    <2>2. faults' \in Nat
      BY <1>4 DEF LeaseExpires, TypeOK
    <2>3. /\ outbox' \in [Approvals -> Rows \cup {NoRow}]
          /\ \A b \in Approvals : outbox[b] # NoRow => outbox'[b] # NoRow
      BY <1>2, <1>3, <2>1 DEF TypeOK
    <2> QED BY <1>4, <2>2, <2>3 DEF LeaseExpires, TypeOK, TasksHaveRows, Tasks
  <1>5. CASE RetryDue(a)
    BY <1>2, <1>3, <1>5 DEF RetryDue, TypeOK, TasksHaveRows, Tasks
  <1> QED BY <1>4, <1>5

LEMMA WorkflowTypes ==
    ASSUME TypeInv, WorkflowNext
    PROVE  TypeInv'
  <1> USE DEF TypeInv, apiVars, workerVars
  <1>1. ASSUME NEW f \in Workflows,
               StartWorkflow(f) \/ CancelWorkflow(f) \/ CompleteWorkflow(f)
        PROVE  TypeInv'
    <2>1. wf[f] \in WorkflowStates
      BY DEF TypeOK
    <2>2. /\ [wf[f] EXCEPT !.status = "running"] \in WorkflowStates
          /\ [wf[f] EXCEPT !.status = "completed"] \in WorkflowStates
          /\ [wf[f] EXCEPT !.status = "cancelled", !.queue = <<>>]
                \in WorkflowStates
      BY <2>1, <<>> \in Seq(AnyEvent) DEF WorkflowStates
    <2>3. CASE StartWorkflow(f)
      BY <2>2, <2>3 DEF StartWorkflow, TypeOK, TasksHaveRows
    <2>4. CASE CancelWorkflow(f)
      BY <2>2, <2>4 DEF CancelWorkflow, TypeOK, TasksHaveRows
    <2>5. CASE CompleteWorkflow(f)
      BY <2>2, <2>5 DEF CompleteWorkflow, TypeOK, TasksHaveRows
    <2> QED BY <1>1, <2>3, <2>4, <2>5
  <1>2. ASSUME NEW f \in Workflows, AcceptDecision(f)
        PROVE  TypeInv'
    <2> DEFINE e == Head(wf[f].queue)
               q == Tail(wf[f].queue)
    <2>1. wf[f] \in WorkflowStates
      BY DEF TypeOK
    <2>2. e \in AnyEvent /\ q \in Seq(AnyEvent)
      BY <1>2, <2>1 DEF AcceptDecision, WorkflowStates
    <2>3. Accept(wf[f], e) \in WorkflowStates
      BY <2>1, <2>2 DEF Accept, WorkflowStates
    <2>4. Accept(wf[f], e).queue = wf[f].queue
      BY <2>1 DEF Accept, WorkflowStates
    <2> HIDE DEF e, q
    <2>5. [Accept(wf[f], e) EXCEPT !.queue = q] \in WorkflowStates
      BY <2>2, <2>3 DEF WorkflowStates
    <2>6. wf' = [wf EXCEPT ![f] = [Accept(wf[f], e) EXCEPT !.queue = q]]
      BY <1>2, <2>4 DEF AcceptDecision, e, q
    <2>7. wf' \in [Workflows -> WorkflowStates]
      BY <2>5, <2>6 DEF TypeOK
    <2> QED BY <1>2, <2>7 DEF AcceptDecision, TypeOK, TasksHaveRows
  <1>3. ASSUME NEW f \in Workflows, NEW e \in LegacyEvents,
               LegacySignal(f, e)
        PROVE  TypeInv'
    BY <1>3, BufferedType DEF LegacySignal, TypeOK, TasksHaveRows, AnyEvent
  <1>4. ASSUME NEW e \in net, LateArrival(e)
        PROVE  TypeInv'
    <2>1. e \in Events /\ WorkflowOf[e.approval] \in Workflows
      BY ApprovalAssumption DEF TypeOK, Events
    <2>2. wf' \in [Workflows -> WorkflowStates]
      BY <1>4, <2>1, BufferedType DEF LateArrival, TypeOK, AnyEvent
    <2> QED BY <1>4, <2>2 DEF LateArrival, TypeOK, TasksHaveRows
  <1> QED BY <1>1, <1>2, <1>3, <1>4 DEF WorkflowNext

LEMMA TypeInvariant ==
    /\ Init => TypeInv
    /\ TypeInv /\ [Next]_vars => TypeInv'
  <1>1. Init => TypeInv
    BY DEF Init, TypeInv, TypeOK, TasksHaveRows, WorkflowStates
  <1>2. ASSUME TypeInv, Next
        PROVE  TypeInv'
    <2>1. CASE ApiNext
      <3>1. PICK h \in Handlers :
               \/ \E a \in Approvals, req \in Requests :
                     BeginDecision(h, a, req) \/ RepeatDecision(h, a, req)
               \/ DenyByPolicy(h) \/ SignalNow(h)
               \/ CommitDecision(h) \/ AbortDecision(h)
        BY <2>1 DEF ApiNext
      <3>2. CASE \E a \in Approvals, req \in Requests :
                    BeginDecision(h, a, req) \/ RepeatDecision(h, a, req)
        BY <1>2, <3>2, ApiTypes
      <3>3. CASE \/ DenyByPolicy(h) \/ SignalNow(h)
                 \/ CommitDecision(h) \/ AbortDecision(h)
        <4>1. handler[h] \in Transactions
          BY <1>2, <3>3 DEF DenyByPolicy, SignalNow, CommitDecision,
                            AbortDecision, TypeInv, TypeOK
        <4>2. handler[h].approval \in Approvals /\ handler[h].req \in Requests
          BY <4>1 DEF Transactions
        <4> QED BY <1>2, <3>3, <4>2, ApiTypes
      <3> QED BY <3>1, <3>2, <3>3
    <2>2. CASE WorkerNext
      <3>1. ASSUME NEW w \in Workers, WorkerCrash(w)
            PROVE  TypeInv'
        BY <1>2, <3>1 DEF WorkerCrash, TypeInv, TypeOK, TasksHaveRows, apiVars
      <3> QED BY <1>2, <2>2, <3>1, ClaimTypes, DeliverTypes DEF WorkerNext
    <2>3. CASE ClockNext
      BY <1>2, <2>3, ClockTypes DEF ClockNext
    <2>4. CASE WorkflowNext
      BY <1>2, <2>4, WorkflowTypes
    <2> QED BY <1>2, <2>1, <2>2, <2>3, <2>4 DEF Next
  <1>3. ASSUME TypeInv, UNCHANGED vars
        PROVE  TypeInv'
    BY <1>3 DEF TypeInv, TypeOK, TasksHaveRows, vars
  <1> QED BY <1>1, <1>2, <1>3

\* Every reachable state of the approval path is well typed, and a delivery
\* is always of a row that exists.
THEOREM TypeCorrect == Spec => []TypeOK
  <1>1. TypeInv => TypeOK
    BY DEF TypeInv
  <1> QED BY <1>1, TypeInvariant, PTL DEF Spec

-----------------------------------------------------------------------------
(* Decisions, claims and audit *)

\* An open transaction holds the lock of an undecided approval alone.
LockInv ==
    /\ \A h \in Handlers : handler[h] # Idle =>
          /\ record[handler[h].approval] = NoDecision
          /\ handler[h].at = tries[handler[h].approval]
    /\ \A g, h \in Handlers :
          /\ handler[g] # Idle /\ handler[h] # Idle
          /\ handler[g].approval = handler[h].approval
          => g = h

\* A row carries the recorded decision of its approval.
RowInv ==
    \A a \in Approvals : outbox[a] # NoRow =>
        /\ record[a] = outbox[a].event.req
        /\ record[a] # NoDecision
        /\ outbox[a].event.kind = "outbox"
        /\ outbox[a].event.approval = a
        /\ outbox[a].status = "dispatching" =>
              outbox[a].token = outbox[a].attempt

DecisionInv == TypeInv /\ LockInv /\ ReplyAgreesWithRecord /\ RowInv

LEMMA RequestIsDecision == \A req \in Requests : req # NoDecision
  BY ApprovalAssumption DEF Requests, NoDecision

\* Only API requests touch the decision tables.
LEMMA ApiUnchanged ==
    ASSUME WorkerNext \/ ClockNext \/ WorkflowNext
    PROVE  UNCHANGED <<record, tries, handler, replies>>
  BY DEF WorkerNext, ClockNext, WorkflowNext, Claim, Deliver,
        SignalDelivered, SignalFailed, SignalRejected, Reconcile,
        ReconcileUnknown, Finalize, FinalizeRaises, WorkerCrash,
        LeaseExpires, RetryDue, StartWorkflow, CancelWorkflow,
        AcceptDecision, CompleteWorkflow, LegacySignal, LateArrival, apiVars

LEMMA LockStep ==
    ASSUME TypeInv, LockInv, Next
    PROVE  LockInv'
  <1> USE DEF TypeInv
  <1>1. ASSUME NEW h \in Handlers, NEW a \in Approvals, NEW req \in Requests,
               BeginDecision(h, a, req)
        PROVE  LockInv'
    <2> DEFINE tx == [pc |-> "deciding", approval |-> a, req |-> req,
                      at |-> tries[a] + 1]
    <2>1. /\ handler' = [handler EXCEPT ![h] = tx]
          /\ tries' = [tries EXCEPT ![a] = tries[a] + 1]
          /\ record' = record /\ record[a] = NoDecision
      BY <1>1 DEF BeginDecision
    <2>2. tx.approval = a /\ tx.at = tries[a] + 1
      OBVIOUS
    <2>3. \A g \in Handlers : handler[g] # Idle => handler[g].approval # a
      BY <1>1 DEF BeginDecision, Locked
    <2>4. \A g \in Handlers : handler[g] # Idle =>
                                 handler[g].approval \in Approvals
      BY DEF TypeOK, Transactions
    <2> HIDE DEF tx
    <2>5. \A g \in Handlers : handler'[g] = IF g = h THEN tx ELSE handler[g]
      BY <2>1 DEF TypeOK
    <2>6. \A b \in Approvals : b # a => tries'[b] = tries[b]
      BY <2>1 DEF TypeOK
    <2>7. tries'[a] = tries[a] + 1
      BY <2>1 DEF TypeOK
    <2> QED BY <2>1, <2>2, <2>3, <2>4, <2>5, <2>6, <2>7 DEF LockInv
  <1>2. ASSUME NEW h \in Handlers, CommitDecision(h)
        PROVE  LockInv'
    <2>1. /\ handler' = [handler EXCEPT ![h] = Idle]
          /\ tries' = tries
          /\ handler[h] # Idle
          /\ record' = [record EXCEPT ![handler[h].approval] = handler[h].req]
      BY <1>2 DEF CommitDecision
    <2>2. \A g \in Handlers : handler'[g] = IF g = h THEN Idle ELSE handler[g]
      BY <2>1 DEF TypeOK
    <2>3. \A g \in Handlers : handler[g] # Idle /\ g # h =>
                                 handler[g].approval # handler[h].approval
      BY <2>1 DEF LockInv
    <2>4. \A g \in Handlers : handler[g] # Idle =>
                                 handler[g].approval \in Approvals
      BY DEF TypeOK, Transactions
    <2> QED BY <2>1, <2>2, <2>3, <2>4 DEF LockInv, TypeOK
  <1>3. ASSUME NEW h \in Handlers, DenyByPolicy(h) \/ AbortDecision(h)
        PROVE  LockInv'
    BY <1>3 DEF DenyByPolicy, AbortDecision, LockInv, TypeOK
  <1>4. ASSUME NEW h \in Handlers, SignalNow(h)
        PROVE  LockInv'
    <2>1. handler[h] \in Transactions
      BY <1>4 DEF SignalNow, TypeOK
    <2>2. \A g \in Handlers : handler'[g] =
             IF g = h THEN [handler[h] EXCEPT !.pc = "signalled"]
             ELSE handler[g]
      BY <1>4 DEF SignalNow, TypeOK
    <2>3. /\ [handler[h] EXCEPT !.pc = "signalled"].approval
                = handler[h].approval
          /\ [handler[h] EXCEPT !.pc = "signalled"].at = handler[h].at
      BY <2>1 DEF Transactions
    <2>4. handler[h] # Idle
      BY <1>4 DEF SignalNow
    <2> QED BY <1>4, <2>2, <2>3, <2>4 DEF SignalNow, LockInv
  <1>5. ASSUME NEW h \in Handlers, NEW a \in Approvals, NEW req \in Requests,
               RepeatDecision(h, a, req)
        PROVE  LockInv'
    BY <1>5 DEF RepeatDecision, LockInv
  <1>6. CASE WorkerNext \/ ClockNext \/ WorkflowNext
    BY <1>6, ApiUnchanged DEF LockInv
  <1> QED BY <1>1, <1>2, <1>3, <1>4, <1>5, <1>6 DEF Next, ApiNext

\* A recorded decision is never changed.
LEMMA RecordStep ==
    ASSUME TypeInv, LockInv, Next, NEW a \in Approvals,
           record[a] # NoDecision
    PROVE  record'[a] = record[a]
  <1>1. ASSUME NEW h \in Handlers, CommitDecision(h)
        PROVE  record'[a] = record[a]
    BY <1>1 DEF CommitDecision, LockInv, TypeInv, TypeOK
  <1>2. ASSUME NEW h \in Handlers, NEW b \in Approvals, NEW req \in Requests,
               \/ BeginDecision(h, b, req) \/ RepeatDecision(h, b, req)
               \/ DenyByPolicy(h) \/ SignalNow(h) \/ AbortDecision(h)
        PROVE  record'[a] = record[a]
    BY <1>2 DEF BeginDecision, RepeatDecision, DenyByPolicy, SignalNow,
                AbortDecision
  <1>3. ASSUME NEW h \in Handlers,
               DenyByPolicy(h) \/ SignalNow(h) \/ AbortDecision(h)
        PROVE  record'[a] = record[a]
    BY <1>3 DEF DenyByPolicy, SignalNow, AbortDecision
  <1> QED BY <1>1, <1>2, <1>3, ApiUnchanged DEF Next, ApiNext

LEMMA ReplyStep ==
    ASSUME TypeInv, LockInv, ReplyAgreesWithRecord, Next
    PROVE  ReplyAgreesWithRecord'
  <1> USE DEF TypeInv
  <1>1. ASSUME NEW r \in replies, r.kind # "conflict"
        PROVE  record'[r.approval] = r.req
    <2>1. r \in Replies
      BY DEF TypeOK
    <2>2. r.approval \in Approvals /\ r.req \in Requests
      BY <2>1 DEF Replies
    <2>3. record[r.approval] = r.req
      BY <1>1 DEF ReplyAgreesWithRecord
    <2> QED BY <2>2, <2>3, RequestIsDecision, RecordStep
  <1>2. ASSUME NEW r \in replies', r \notin replies, r.kind # "conflict"
        PROVE  record'[r.approval] = r.req
    <2>1. ASSUME NEW h \in Handlers, NEW a \in Approvals,
                 NEW req \in Requests, RepeatDecision(h, a, req)
          PROVE  record'[r.approval] = r.req
      BY <1>2, <2>1 DEF RepeatDecision
    <2>2. ASSUME NEW h \in Handlers, CommitDecision(h)
          PROVE  record'[r.approval] = r.req
      <3>1. handler[h].approval \in Approvals
        BY <2>2 DEF CommitDecision, TypeOK, Transactions
      <3>2. r = [approval |-> handler[h].approval, req |-> handler[h].req,
                 kind |-> "recorded"]
        BY <1>2, <2>2 DEF CommitDecision
      <3>3. record' = [record EXCEPT ![handler[h].approval] = handler[h].req]
        BY <2>2 DEF CommitDecision
      <3> QED BY <3>1, <3>2, <3>3 DEF TypeOK
    <2>3. ASSUME NEW h \in Handlers, NEW a \in Approvals,
                 NEW req \in Requests, BeginDecision(h, a, req)
          PROVE  FALSE
      BY <1>2, <2>3 DEF BeginDecision
    <2>4. ASSUME NEW h \in Handlers,
                 DenyByPolicy(h) \/ SignalNow(h) \/ AbortDecision(h)
          PROVE  FALSE
      BY <1>2, <2>4 DEF DenyByPolicy, SignalNow, AbortDecision
    <2> QED BY <1>2, <2>1, <2>2, <2>3, <2>4, ApiUnchanged DEF Next, ApiNext
  <1> QED BY <1>1, <1>2 DEF ReplyAgreesWithRecord

Fresh(e) == [status |-> "pending", attempt |-> 0, token |-> 0, due |-> TRUE,
             leaseLive |-> FALSE, event |-> e]

\* All that a step may do to a row.
LEMMA RowSteps ==
    ASSUME TypeInv, Next, NEW a \in Approvals
    PROVE  \/ outbox'[a] = outbox[a]
           \/ \E h \in Handlers :
                 /\ CommitDecision(h) /\ OutboxEnabled
                 /\ handler[h].approval = a
                 /\ outbox'[a] = Fresh(Event(a, handler[h].req,
                                             handler[h].at))
           \/ \E w \in Workers, batch \in SUBSET Approvals :
                 /\ Claim(w, batch) /\ a \in batch
                 /\ outbox'[a] = [outbox[a] EXCEPT !.status = "dispatching",
                                     !.attempt = outbox[a].attempt + 1,
                                     !.token = outbox[a].attempt + 1,
                                     !.leaseLive = TRUE]
           \/ \E t \in tasks :
                 /\ Finalize(t) \/ FinalizeRaises(t)
                 /\ HoldsClaim(t) /\ t.approval = a
                 /\ outbox'[a] = [outbox[a] EXCEPT !.status = NewStatus(t),
                                     !.token = 0,
                                     !.due = (NewStatus(t) # "pending"),
                                     !.leaseLive = FALSE]
                 /\ audits' = [audits EXCEPT ![a] =
                        IF NewStatus(t) \in Terminal THEN @ + 1 ELSE @]
           \/ LeaseExpires(a) /\ outbox'[a] = [outbox[a] EXCEPT
                                                 !.leaseLive = FALSE]
           \/ RetryDue(a) /\ outbox'[a] = [outbox[a] EXCEPT !.due = TRUE]
  <1> USE DEF TypeInv
  <1>1. ASSUME NEW h \in Handlers, CommitDecision(h), outbox'[a] # outbox[a]
        PROVE  /\ OutboxEnabled /\ handler[h].approval = a
               /\ outbox'[a] = Fresh(Event(a, handler[h].req, handler[h].at))
    <2> DEFINE b == handler[h].approval
    <2>1. /\ OutboxEnabled
          /\ outbox' = [outbox EXCEPT ![b] =
                           Fresh(Event(b, handler[h].req, handler[h].at))]
      BY <1>1 DEF CommitDecision, Fresh
    <2> HIDE DEF b
    <2>2. b = a
      BY <1>1, <2>1 DEF TypeOK
    <2> QED BY <2>1, <2>2 DEF TypeOK, b
  <1>2. ASSUME NEW w \in Workers, NEW batch \in SUBSET Approvals,
               Claim(w, batch), outbox'[a] # outbox[a]
        PROVE  /\ a \in batch
               /\ outbox'[a] = [outbox[a] EXCEPT !.status = "dispatching",
                                   !.attempt = outbox[a].attempt + 1,
                                   !.token = outbox[a].attempt + 1,
                                   !.leaseLive = TRUE]
    BY <1>2 DEF Claim
  <1>3. ASSUME NEW t \in tasks, Finalize(t) \/ FinalizeRaises(t),
               outbox'[a] # outbox[a]
        PROVE  /\ HoldsClaim(t) /\ t.approval = a
               /\ outbox'[a] = [outbox[a] EXCEPT !.status = NewStatus(t),
                                   !.token = 0,
                                   !.due = (NewStatus(t) # "pending"),
                                   !.leaseLive = FALSE]
               /\ audits' = [audits EXCEPT ![a] =
                      IF NewStatus(t) \in Terminal THEN @ + 1 ELSE @]
    <2>1. WriteOutcome(t) /\ HoldsClaim(t)
      BY <1>3 DEF Finalize, FinalizeRaises, WriteOutcome
    <2>2. t.approval = a
      BY <1>3, <2>1 DEF WriteOutcome, TypeOK
    <2> QED BY <2>1, <2>2 DEF WriteOutcome, TypeOK
  <1>4. ASSUME NEW b \in Approvals, LeaseExpires(b), outbox'[a] # outbox[a]
        PROVE  LeaseExpires(a) /\ outbox'[a] = [outbox[a] EXCEPT
                                                   !.leaseLive = FALSE]
    <2>1. a = b
      BY <1>4 DEF LeaseExpires, TypeOK
    <2> QED BY <1>4, <2>1 DEF LeaseExpires, TypeOK
  <1>5. ASSUME NEW b \in Approvals, RetryDue(b), outbox'[a] # outbox[a]
        PROVE  RetryDue(a) /\ outbox'[a] = [outbox[a] EXCEPT !.due = TRUE]
    <2>1. a = b
      BY <1>5 DEF RetryDue, TypeOK
    <2> QED BY <1>5, <2>1 DEF RetryDue, TypeOK
  <1>6. ASSUME NEW h \in Handlers, NEW b \in Approvals, NEW req \in Requests,
               BeginDecision(h, b, req) \/ RepeatDecision(h, b, req)
        PROVE  outbox' = outbox
    BY <1>6 DEF BeginDecision, RepeatDecision
  <1>7. ASSUME NEW h \in Handlers,
               DenyByPolicy(h) \/ SignalNow(h) \/ AbortDecision(h)
        PROVE  outbox' = outbox
    BY <1>7 DEF DenyByPolicy, SignalNow, AbortDecision
  <1>8. ASSUME NEW t \in tasks,
               \/ SignalDelivered(t) \/ SignalFailed(t) \/ SignalRejected(t)
               \/ Reconcile(t) \/ ReconcileUnknown(t)
        PROVE  outbox' = outbox
    BY <1>8 DEF SignalDelivered, SignalFailed, SignalRejected, Reconcile,
                ReconcileUnknown
  <1>9. ASSUME (\E w \in Workers : WorkerCrash(w)) \/ WorkflowNext
        PROVE  outbox' = outbox
    BY <1>9 DEF WorkerCrash, WorkflowNext, StartWorkflow, CancelWorkflow,
                AcceptDecision, CompleteWorkflow, LegacySignal, LateArrival
  <1>10. CASE ApiNext
    BY <1>1, <1>6, <1>7, <1>10 DEF ApiNext
  <1>11. CASE WorkerNext
    BY <1>2, <1>3, <1>8, <1>9, <1>11 DEF WorkerNext, Deliver
  <1>12. CASE ClockNext
    BY <1>4, <1>5, <1>12 DEF ClockNext
  <1> QED BY <1>9, <1>10, <1>11, <1>12 DEF Next

\* A row that exists keeps its payload, and its approval keeps its decision.
LEMMA RowStep ==
    ASSUME TypeInv, LockInv, RowInv, Next
    PROVE  /\ RowInv'
           /\ \A a \in Approvals : outbox[a] # NoRow =>
                 /\ outbox'[a] # NoRow
                 /\ outbox'[a].event = outbox[a].event
                 /\ outbox'[a].attempt >= outbox[a].attempt
  <1> DEFINE Good(a) == outbox[a] # NoRow =>
                 /\ record[a] = outbox[a].event.req
                 /\ record[a] # NoDecision
                 /\ outbox[a].event.kind = "outbox"
                 /\ outbox[a].event.approval = a
                 /\ outbox[a].status = "dispatching" =>
                       outbox[a].token = outbox[a].attempt
             Kept(a) == outbox[a] # NoRow =>
                 /\ outbox'[a] # NoRow
                 /\ outbox'[a].event = outbox[a].event
                 /\ outbox'[a].attempt >= outbox[a].attempt
  <1>1. SUFFICES ASSUME NEW a \in Approvals
                 PROVE  Good(a)' /\ Kept(a)
    BY DEF RowInv
  <1>2. Good(a)
    BY DEF RowInv
  <1>3. outbox[a] # NoRow => outbox[a] \in Rows /\ record'[a] = record[a]
    BY <1>2, RowIsRow, RecordStep DEF TypeInv
  <1>4. CASE outbox'[a] = outbox[a]
    BY <1>2, <1>3, <1>4 DEF Rows
  <1>5. ASSUME NEW h \in Handlers, CommitDecision(h), OutboxEnabled,
               handler[h].approval = a,
               outbox'[a] = Fresh(Event(a, handler[h].req, handler[h].at))
        PROVE  Good(a)' /\ Kept(a)
    <2>1. handler[h] \in Transactions /\ handler[h].req \in Requests
      BY <1>5 DEF CommitDecision, TypeInv, TypeOK, Transactions
    <2>2. record'[a] = handler[h].req /\ record[a] = NoDecision
      BY <1>5 DEF CommitDecision, TypeInv, TypeOK, LockInv
    <2>3. outbox[a] = NoRow
      BY <1>2, <2>2
    <2> QED BY <1>5, <2>1, <2>2, <2>3, RequestIsDecision DEF Fresh, Event
  <1>6. ASSUME NEW w \in Workers, NEW batch \in SUBSET Approvals,
               Claim(w, batch), a \in batch,
               outbox'[a] = [outbox[a] EXCEPT !.status = "dispatching",
                                     !.attempt = outbox[a].attempt + 1,
                                     !.token = outbox[a].attempt + 1,
                                     !.leaseLive = TRUE]
        PROVE  Good(a)' /\ Kept(a)
    <2>1. outbox[a] # NoRow
      BY <1>6 DEF Claim, Claimable
    <2>2. /\ outbox'[a].status = "dispatching"
          /\ outbox'[a].attempt = outbox[a].attempt + 1
          /\ outbox'[a].token = outbox[a].attempt + 1
          /\ outbox'[a].event = outbox[a].event
          /\ outbox[a].attempt \in Nat
      BY <1>3, <1>6, <2>1 DEF Rows
    <2>3. outbox'[a] # NoRow
      BY <2>2 DEF NoRow
    <2> QED BY <1>2, <1>3, <2>1, <2>2, <2>3
  <1>7. ASSUME NEW t \in tasks, HoldsClaim(t), t.approval = a,
               outbox'[a] = [outbox[a] EXCEPT !.status = NewStatus(t),
                                     !.token = 0,
                                     !.due = (NewStatus(t) # "pending"),
                                     !.leaseLive = FALSE]
        PROVE  Good(a)' /\ Kept(a)
    <2>1. outbox[a] # NoRow /\ NewStatus(t) # "dispatching"
      BY <1>7 DEF HoldsClaim, NoRow, NewStatus
    <2>2. /\ outbox'[a].status = NewStatus(t)
          /\ outbox'[a].attempt = outbox[a].attempt
          /\ outbox'[a].event = outbox[a].event
          /\ outbox[a].attempt \in Nat
      BY <1>3, <1>7, <2>1 DEF Rows
    <2>3. outbox'[a] # NoRow
      BY <2>2 DEF NoRow, NewStatus
    <2> QED BY <1>2, <1>3, <2>1, <2>2, <2>3
  <1>8. ASSUME \/ LeaseExpires(a) /\ outbox'[a] = [outbox[a] EXCEPT
                                                       !.leaseLive = FALSE]
               \/ RetryDue(a) /\ outbox'[a] = [outbox[a] EXCEPT !.due = TRUE]
        PROVE  Good(a)' /\ Kept(a)
    <2>1. outbox[a] # NoRow
      BY <1>8 DEF LeaseExpires, RetryDue
    <2> QED BY <1>2, <1>3, <1>8, <2>1 DEF Rows, NoRow
  <1> HIDE DEF Good, Kept
  <1> QED BY <1>4, <1>5, <1>6, <1>7, <1>8, RowSteps

LEMMA DecisionInvariant ==
    /\ Init => DecisionInv
    /\ DecisionInv /\ [Next]_vars => DecisionInv'
  <1>1. Init => DecisionInv
    BY TypeInvariant DEF Init, DecisionInv, LockInv, RowInv,
                         ReplyAgreesWithRecord
  <1>2. ASSUME DecisionInv, Next
        PROVE  DecisionInv'
    BY <1>2, TypeInvariant, LockStep, ReplyStep, RowStep DEF DecisionInv
  <1>3. ASSUME DecisionInv, UNCHANGED vars
        PROVE  DecisionInv'
    BY <1>3, TypeInvariant DEF DecisionInv, LockInv, RowInv,
                               ReplyAgreesWithRecord, vars
  <1> QED BY <1>1, <1>2, <1>3

\* Nobody was ever told of a decision that is not the recorded one: two
\* concurrent requests never both record, and a recorded decision stays.
THEOREM RepliesAgree == Spec => []ReplyAgreesWithRecord
  <1>1. DecisionInv => ReplyAgreesWithRecord
    BY DEF DecisionInv
  <1> QED BY <1>1, DecisionInvariant, PTL DEF Spec

(***************************************************************************)
(* Claims, audits and attempts.                                            *)
(***************************************************************************)

\* A delivery ended for good has a reason that will not go away.
OutcomesAreJustified ==
    \A t \in tasks : t.outcome = "permanent" =>
        \/ t.approval \in Unsupported
        \/ /\ wf[WorkflowOf[t.approval]].status = "completed"
           /\ wf[WorkflowOf[t.approval]].decision # outbox[t.approval].event

\* A claim that is free to be taken again was lost to a fault, or still has
\* an attempt left.
FreeClaims ==
    \A a \in Approvals :
        /\ outbox[a] # NoRow
        /\ outbox[a].status = "dispatching"
        /\ \/ ~outbox[a].leaseLive
           \/ \A t \in tasks : ~(t.approval = a /\ HoldsClaim(t))
        => outbox[a].attempt < MaxAttempts + faults

ClaimInv ==
    /\ DecisionInv
    /\ ClaimsAreExclusive
    /\ AuditedExactlyOnce
    /\ AttemptsAreBounded
    /\ FreeClaims
    /\ OutcomesAreJustified
    /\ DeadLetterIsJustified

\* The deliveries of the next state: those of this one, or one per claim.
LEMMA TaskSteps ==
    ASSUME TypeInv, Next, NEW u \in tasks'
    PROVE  \/ \E v \in tasks : /\ u.approval = v.approval
                               /\ u.token = v.token
                               /\ u.worker = v.worker
           \/ \E w \in Workers, batch \in SUBSET Approvals :
                 Claim(w, batch) /\ \E a \in batch : u = NewTask(w, a)
  <1> DEFINE Old == \E v \in tasks : /\ u.approval = v.approval
                                     /\ u.token = v.token
                                     /\ u.worker = v.worker
  <1> USE DEF TypeInv
  <1>1. CASE u \in tasks
    BY <1>1
  <1>2. ASSUME NEW t \in tasks, NEW o \in Outcomes, tasks' = Finished(t, o)
        PROVE  Old
    <2>1. t \in Tasks
      BY DEF TypeOK
    <2>2. u \in tasks \/ u = [t EXCEPT !.phase = "final", !.outcome = o]
      BY <1>2 DEF Finished, Replaced
    <2> QED BY <2>1, <2>2 DEF Tasks
  <1>3. ASSUME NEW t \in tasks, Deliver(t)
        PROVE  Old
    <2>1. CASE SignalRejected(t)
      <3>1. t \in Tasks
        BY DEF TypeOK
      <3>2. u \in tasks \/ u = [t EXCEPT !.phase = "reconcile"]
        BY <2>1 DEF SignalRejected, Replaced
      <3> QED BY <3>1, <3>2 DEF Tasks
    <2>2. CASE Finalize(t)
      BY <2>2 DEF Finalize
    <2>3. CASE \/ SignalDelivered(t) \/ SignalFailed(t) \/ ReconcileUnknown(t)
               \/ Reconcile(t)
      <3>1. Reconciliation(t) \in Outcomes
        BY DEF Reconciliation, Outcomes
      <3>2. \/ tasks' = Finished(t, "ok") \/ tasks' = Finished(t, "retry")
            \/ tasks' = Finished(t, Reconciliation(t))
        BY <2>3 DEF SignalDelivered, SignalFailed, ReconcileUnknown, Reconcile
      <3> QED BY <3>1, <3>2, <1>2 DEF Outcomes
    <2> QED BY <1>3, <2>1, <2>2, <2>3 DEF Deliver
  <1>4. ASSUME NEW t \in tasks, FinalizeRaises(t)
        PROVE  Old
    <2>1. PICK v \in tasks : u = IF v.worker = t.worker
                                 THEN [v EXCEPT !.awaited = FALSE] ELSE v
      BY <1>4 DEF FinalizeRaises
    <2>2. v \in Tasks
      BY DEF TypeOK
    <2> QED BY <2>1, <2>2 DEF Tasks
  <1>5. ASSUME NEW w \in Workers, NEW batch \in SUBSET Approvals,
               Claim(w, batch)
        PROVE  Old \/ \E a \in batch : u = NewTask(w, a)
    BY <1>1, <1>5 DEF Claim
  <1>6. ASSUME NEW w \in Workers, WorkerCrash(w)
        PROVE  Old
    BY <1>1, <1>6 DEF WorkerCrash
  <1>7. CASE ApiNext
    <2>1. tasks' = tasks
      BY <1>7 DEF ApiNext, BeginDecision, RepeatDecision, DenyByPolicy,
                  SignalNow, CommitDecision, AbortDecision, workerVars
    <2> QED BY <1>1, <2>1
  <1>8. CASE ClockNext \/ WorkflowNext
    <2>1. tasks' = tasks
      BY <1>8 DEF ClockNext, LeaseExpires, RetryDue, WorkflowNext,
                  StartWorkflow, CancelWorkflow, AcceptDecision,
                  CompleteWorkflow, LegacySignal, LateArrival, workerVars
    <2> QED BY <1>1, <2>1
  <1>9. CASE WorkerNext
    <2> HIDE DEF Old
    <2>1. Old \/ \E w \in Workers, batch \in SUBSET Approvals :
                    Claim(w, batch) /\ \E a \in batch : u = NewTask(w, a)
      BY <1>3, <1>4, <1>5, <1>6, <1>9 DEF WorkerNext
    <2> QED BY <2>1 DEF Old
  <1> QED BY <1>7, <1>8, <1>9 DEF Next

LEMMA ClaimsStep ==
    ASSUME TypeInv, LockInv, RowInv, ClaimsAreExclusive, Next
    PROVE  ClaimsAreExclusive'
  <1> DEFINE Key(t, u) == t.approval = u.approval /\ t.token = u.token
  <1>1. ASSUME NEW u \in tasks'
        PROVE  HasRow(u.approval)' /\ u.token <= outbox'[u.approval].attempt
    <2>1. ASSUME NEW v \in tasks, u.approval = v.approval, u.token = v.token
          PROVE  HasRow(u.approval)' /\ u.token <= outbox'[u.approval].attempt
      <3>1. /\ v.approval \in Approvals /\ v.token \in Nat
            /\ outbox[v.approval].attempt \in Nat
        BY TaskFacts DEF Tasks, Rows
      <3>2. outbox[v.approval] # NoRow /\ v.token <= outbox[v.approval].attempt
        BY DEF ClaimsAreExclusive, HasRow
      <3>3. /\ outbox'[v.approval] # NoRow
            /\ outbox'[v.approval].attempt >= outbox[v.approval].attempt
        BY <3>1, <3>2, RowStep
      <3>4. outbox'[v.approval].attempt \in Nat
        BY <3>1, <3>3, TypeInvariant DEF TypeInv, TypeOK, Rows
      <3> QED BY <2>1, <3>1, <3>2, <3>3, <3>4 DEF HasRow
    <2>2. ASSUME NEW w \in Workers, NEW batch \in SUBSET Approvals,
                 Claim(w, batch), NEW a \in batch, u = NewTask(w, a)
          PROVE  HasRow(u.approval)' /\ u.token <= outbox'[u.approval].attempt
      <3>1. outbox[a] # NoRow /\ outbox[a] \in Rows
        BY <2>2, RowIsRow DEF Claim, Claimable, TypeInv
      <3>2. outbox'[a].attempt = outbox[a].attempt + 1
        BY <2>2, <3>1 DEF Claim, Rows
      <3>3. outbox'[a] # NoRow
        BY <3>1, RowStep
      <3>4. u.approval = a /\ u.token = outbox[a].attempt + 1
        BY <2>2 DEF NewTask
      <3>5. outbox[a].attempt + 1 \in Nat
        BY <3>1 DEF Rows
      <3> QED BY <3>2, <3>3, <3>4, <3>5 DEF HasRow
    <2> QED BY <2>1, <2>2, TaskSteps
  <1>2. ASSUME NEW t \in tasks', NEW u \in tasks', Key(t, u)
        PROVE  t = u
    <2> USE <1>2
    <2>1. CASE tasks' \subseteq tasks
      BY <2>1 DEF ClaimsAreExclusive
    <2>2. ASSUME NEW x \in tasks, NEW y, Key(x, y),
                 tasks' = (tasks \ {x}) \cup {y}
          PROVE  t = u
      BY <2>2 DEF ClaimsAreExclusive
    <2>3. ASSUME NEW x \in tasks, Deliver(x)
          PROVE  t = u
      <3>1. x \in Tasks
        BY DEF TypeInv, TypeOK
      <3>2. /\ Key(x, [x EXCEPT !.phase = "reconcile"])
            /\ \A o \in Outcomes :
                  Key(x, [x EXCEPT !.phase = "final", !.outcome = o])
        BY <3>1 DEF Tasks
      <3>3. Reconciliation(x) \in Outcomes
        BY DEF Reconciliation, Outcomes
      <3>4. \/ tasks' \subseteq tasks
            \/ tasks' = (tasks \ {x}) \cup {[x EXCEPT !.phase = "reconcile"]}
            \/ \E o \in Outcomes : tasks' = (tasks \ {x}) \cup
                  {[x EXCEPT !.phase = "final", !.outcome = o]}
        BY <2>3, <3>3 DEF Deliver, SignalDelivered, SignalFailed,
              SignalRejected, Reconcile, ReconcileUnknown, Finalize,
              Finished, Replaced, Outcomes
      <3> QED BY <2>1, <2>2, <3>2, <3>4
    <2>4. ASSUME NEW x \in tasks, FinalizeRaises(x)
          PROVE  t = u
      <3> DEFINE M(v) == IF v.worker = x.worker
                         THEN [v EXCEPT !.awaited = FALSE] ELSE v
      <3>1. PICK v1 \in tasks : t = M(v1)
        BY <2>4 DEF FinalizeRaises
      <3>2. PICK v2 \in tasks : u = M(v2)
        BY <2>4 DEF FinalizeRaises
      <3>3. \A v \in tasks : M(v).approval = v.approval /\ M(v).token = v.token
        BY DEF TypeInv, TypeOK, Tasks
      <3> HIDE DEF M
      <3>4. v1 = v2
        BY <3>1, <3>2, <3>3 DEF ClaimsAreExclusive
      <3> QED BY <3>1, <3>2, <3>4
    <2>5. ASSUME NEW w \in Workers, NEW batch \in SUBSET Approvals,
                 Claim(w, batch)
          PROVE  t = u
      <3>1. ASSUME NEW v \in tasks, NEW a \in batch
            PROVE  ~Key(v, NewTask(w, a))
        <4>1. v.token <= outbox[v.approval].attempt /\ v.token \in Nat
              /\ outbox[v.approval].attempt \in Nat
          BY TaskFacts DEF ClaimsAreExclusive, Tasks, Rows
        <4> QED BY <4>1 DEF NewTask
      <3>2. \A a, b \in batch : Key(NewTask(w, a), NewTask(w, b)) => a = b
        BY DEF NewTask
      <3>3. tasks' = tasks \cup {NewTask(w, a) : a \in batch}
        BY <2>5 DEF Claim
      <3>4. CASE t \in tasks /\ u \in tasks
        BY <3>4 DEF ClaimsAreExclusive
      <3>5. CASE t \notin tasks /\ u \notin tasks
        BY <3>2, <3>3, <3>5
      <3>6. CASE t \in tasks /\ u \notin tasks
        BY <3>1, <3>3, <3>6
      <3>7. CASE t \notin tasks /\ u \in tasks
        BY <3>1, <3>3, <3>7
      <3> QED BY <3>4, <3>5, <3>6, <3>7
    <2>6. CASE ApiNext \/ ClockNext \/ WorkflowNext
                \/ \E w \in Workers : WorkerCrash(w)
      <3>1. tasks' \subseteq tasks
        BY <2>6 DEF ApiNext, BeginDecision, RepeatDecision, DenyByPolicy,
              SignalNow, CommitDecision, AbortDecision, ClockNext,
              LeaseExpires, RetryDue, WorkflowNext, StartWorkflow,
              CancelWorkflow, AcceptDecision, CompleteWorkflow, LegacySignal,
              LateArrival, WorkerCrash, workerVars
      <3> QED BY <2>1, <3>1
    <2> QED BY <2>3, <2>4, <2>5, <2>6 DEF Next, WorkerNext
  <1> QED BY <1>1, <1>2 DEF ClaimsAreExclusive

LEMMA AuditStep ==
    ASSUME TypeInv, LockInv, RowInv, AuditedExactlyOnce, Next
    PROVE  AuditedExactlyOnce'
  <1> DEFINE Ended(a) == HasRow(a) /\ RowStatus(a) \in Terminal
  <1>1. SUFFICES ASSUME NEW a \in Approvals
                 PROVE  audits'[a] = IF Ended(a)' THEN 1 ELSE 0
    BY DEF AuditedExactlyOnce
  <1>2. /\ audits[a] = IF Ended(a) THEN 1 ELSE 0
        /\ audits \in [Approvals -> Nat]
    BY DEF AuditedExactlyOnce, TypeInv, TypeOK
  <1>3. \/ audits' = audits
        \/ \E t \in tasks : /\ Finalize(t) \/ FinalizeRaises(t)
                            /\ WriteOutcome(t) /\ HoldsClaim(t)
    BY DEF Next, ApiNext, WorkerNext, ClockNext, WorkflowNext, BeginDecision,
           RepeatDecision, DenyByPolicy, SignalNow, CommitDecision,
           AbortDecision, Claim, Deliver, SignalDelivered, SignalFailed,
           SignalRejected, Reconcile, ReconcileUnknown, Finalize,
           FinalizeRaises, WriteOutcome, WorkerCrash, LeaseExpires, RetryDue,
           StartWorkflow, CancelWorkflow, AcceptDecision, CompleteWorkflow,
           LegacySignal, LateArrival, workerVars
  <1>4. ASSUME NEW t \in tasks, WriteOutcome(t), HoldsClaim(t)
        PROVE  audits'[a] = IF Ended(a)' THEN 1 ELSE 0
    <2>1. CASE t.approval = a
      <3>1. outbox[a] \in Rows /\ outbox[a].status = "dispatching"
        BY <1>4, <2>1, TaskFacts DEF HoldsClaim
      <3>2. audits[a] = 0
        BY <1>2, <3>1 DEF Terminal, RowStatus
      <3>3. outbox'[a].status = NewStatus(t)
        <4>1. outbox'[a] = [outbox[a] EXCEPT
                               !.status = NewStatus(t), !.token = 0,
                               !.due = (NewStatus(t) # "pending"),
                               !.leaseLive = FALSE]
          BY <1>4, <2>1 DEF WriteOutcome, TypeInv, TypeOK
        <4> QED BY <3>1, <4>1 DEF Rows
      <3>4. outbox'[a] # NoRow
        BY <3>3 DEF NoRow, NewStatus
      <3>5. audits'[a] = IF NewStatus(t) \in Terminal THEN 1 ELSE 0
        BY <1>2, <1>4, <2>1, <3>2 DEF WriteOutcome
      <3> QED BY <3>3, <3>4, <3>5 DEF HasRow, RowStatus
    <2>2. CASE t.approval # a
      BY <1>2, <1>4, <2>2 DEF WriteOutcome, TypeInv, TypeOK, HasRow, RowStatus
    <2> QED BY <2>1, <2>2
  <1>5. CASE audits' = audits
    <2>1. Ended(a)' <=> Ended(a)
      <3>1. CASE outbox'[a] = outbox[a]
        BY <3>1 DEF HasRow, RowStatus
      <3>2. ASSUME NEW t \in tasks, HoldsClaim(t), t.approval = a,
                   outbox'[a] = [outbox[a] EXCEPT !.status = NewStatus(t),
                                     !.token = 0,
                                     !.due = (NewStatus(t) # "pending"),
                                     !.leaseLive = FALSE],
                   audits' = [audits EXCEPT ![a] =
                        IF NewStatus(t) \in Terminal THEN @ + 1 ELSE @]
            PROVE  Ended(a)' <=> Ended(a)
        <4>1. outbox[a] \in Rows /\ outbox[a].status = "dispatching"
          BY <3>2, TaskFacts DEF HoldsClaim
        <4>2. NewStatus(t) \notin Terminal
          BY <1>2, <1>5, <3>2
        <4>3. outbox'[a].status = NewStatus(t)
          BY <3>2, <4>1 DEF Rows
        <4> QED BY <4>1, <4>2, <4>3 DEF RowStatus, Terminal
      <3>3. ASSUME NEW h \in Handlers, CommitDecision(h),
                   handler[h].approval = a,
                   outbox'[a] = Fresh(Event(a, handler[h].req, handler[h].at))
            PROVE  Ended(a)' <=> Ended(a)
        <4>1. outbox[a] = NoRow
          BY <3>3 DEF CommitDecision, LockInv, RowInv
        <4>2. outbox'[a].status = "pending"
          BY <3>3 DEF Fresh
        <4> QED BY <4>1, <4>2 DEF HasRow, RowStatus, Terminal
      <3>4. ASSUME NEW w \in Workers, NEW batch \in SUBSET Approvals,
                   Claim(w, batch), a \in batch,
                   outbox'[a] = [outbox[a] EXCEPT !.status = "dispatching",
                                     !.attempt = outbox[a].attempt + 1,
                                     !.token = outbox[a].attempt + 1,
                                     !.leaseLive = TRUE]
            PROVE  Ended(a)' <=> Ended(a)
        <4>1. /\ outbox[a] \in Rows
              /\ outbox[a].status \in {"pending", "dispatching"}
          BY <3>4, RowIsRow DEF Claim, Claimable, TypeInv
        <4>2. outbox'[a].status = "dispatching"
          BY <3>4, <4>1 DEF Rows
        <4> QED BY <4>1, <4>2 DEF RowStatus, Terminal
      <3>5. ASSUME \/ LeaseExpires(a) /\ outbox'[a] = [outbox[a] EXCEPT
                                                         !.leaseLive = FALSE]
                   \/ RetryDue(a) /\ outbox'[a] = [outbox[a] EXCEPT
                                                         !.due = TRUE]
            PROVE  Ended(a)' <=> Ended(a)
        <4>1. outbox[a] # NoRow /\ outbox[a] \in Rows
          BY <3>5, RowIsRow DEF LeaseExpires, RetryDue, TypeInv
        <4>2. outbox'[a].status = outbox[a].status /\ outbox'[a] # NoRow
          BY <3>5, <4>1 DEF Rows, Statuses, NoRow
        <4> QED BY <4>1, <4>2 DEF HasRow, RowStatus
      <3> HIDE DEF Ended
      <3> QED BY <3>1, <3>2, <3>3, <3>4, <3>5, RowSteps
    <2> QED BY <1>2, <1>5, <2>1
  <1> QED BY <1>3, <1>4, <1>5

\* No row is created, claimed or written but by its own step, and faults are
\* only counted up.
LEMMA FaultStep ==
    ASSUME TypeInv, Next
    PROVE  faults' \in Nat /\ faults' >= faults
  <1>1. faults \in Nat
    BY DEF TypeInv, TypeOK
  <1>2. faults' = faults \/ faults' = faults + 1
    BY DEF Next, ApiNext, WorkerNext, ClockNext, WorkflowNext, BeginDecision,
           RepeatDecision, DenyByPolicy, SignalNow, CommitDecision,
           AbortDecision, Claim, Deliver, SignalDelivered, SignalFailed,
           SignalRejected, Reconcile, ReconcileUnknown, Finalize,
           FinalizeRaises, WorkerCrash, LeaseExpires, RetryDue,
           StartWorkflow, CancelWorkflow, AcceptDecision, CompleteWorkflow,
           LegacySignal, LateArrival, workerVars
  <1> QED BY <1>1, <1>2

\* A claim changes hands, or loses its holder, only through a fault.
LEMMA HolderStep ==
    ASSUME TypeInv, LockInv, RowInv, Next, NEW a \in Approvals,
           NEW t \in tasks, t.approval = a, HoldsClaim(t),
           outbox'[a] = outbox[a],
           \A u \in tasks' : ~(u.approval = a /\ HoldsClaim(u)')
    PROVE  faults' = faults + 1
  <1> DEFINE Same(u) == u.approval = t.approval /\ u.token = t.token
  <1>1. \A u \in tasks' : ~Same(u)
    BY DEF HoldsClaim
  <1>2. Same(t)
    OBVIOUS
  <1>3. t \notin tasks'
    BY <1>1, <1>2
  <1>4. ASSUME NEW x \in tasks, Deliver(x)
        PROVE  FALSE
    <2>1. x = t
      BY <1>3, <1>4 DEF Deliver, SignalDelivered, SignalFailed,
            SignalRejected, Reconcile, ReconcileUnknown, Finalize, Finished,
            Replaced
    <2>2. t \in Tasks
      BY DEF TypeInv, TypeOK
    <2>3. CASE Finalize(t)
      <3>1. outbox'[a].status = NewStatus(t)
        <4>1. outbox'[a] = [outbox[a] EXCEPT
                               !.status = NewStatus(t), !.token = 0,
                               !.due = (NewStatus(t) # "pending"),
                               !.leaseLive = FALSE]
          BY <2>3 DEF Finalize, WriteOutcome, TypeInv, TypeOK
        <4>2. outbox[a] \in Rows
          BY TaskFacts
        <4> QED BY <4>1, <4>2 DEF Rows
      <3>2. NewStatus(t) # "dispatching"
        BY DEF NewStatus
      <3> QED BY <3>1, <3>2 DEF HoldsClaim
    <2>4. CASE SignalRejected(t)
      <3>1. [t EXCEPT !.phase = "reconcile"] \in tasks'
        BY <2>4 DEF SignalRejected, Replaced
      <3>2. Same([t EXCEPT !.phase = "reconcile"])
        BY <2>2 DEF Tasks
      <3> QED BY <1>1, <3>1, <3>2
    <2>5. ASSUME NEW o, tasks' = Finished(t, o)
          PROVE  FALSE
      <3>1. [t EXCEPT !.phase = "final", !.outcome = o] \in tasks'
        BY <2>5 DEF Finished, Replaced
      <3>2. Same([t EXCEPT !.phase = "final", !.outcome = o])
        BY <2>2 DEF Tasks
      <3> QED BY <1>1, <3>1, <3>2
    <2> QED BY <1>4, <2>1, <2>3, <2>4, <2>5 DEF Deliver, SignalDelivered,
          SignalFailed, Reconcile, ReconcileUnknown
  <1>5. ASSUME NEW x \in tasks, FinalizeRaises(x)
        PROVE  faults' = faults + 1
    BY <1>5 DEF FinalizeRaises
  <1>6. ASSUME NEW w \in Workers, WorkerCrash(w)
        PROVE  faults' = faults + 1
    BY <1>6 DEF WorkerCrash
  <1>7. ASSUME NEW w \in Workers, NEW batch \in SUBSET Approvals,
               Claim(w, batch)
        PROVE  FALSE
    BY <1>3, <1>7 DEF Claim
  <1>8. CASE ApiNext \/ ClockNext \/ WorkflowNext
    BY <1>3, <1>8 DEF ApiNext, BeginDecision, RepeatDecision, DenyByPolicy,
          SignalNow, CommitDecision, AbortDecision, ClockNext, LeaseExpires,
          RetryDue, WorkflowNext, StartWorkflow, CancelWorkflow,
          AcceptDecision, CompleteWorkflow, LegacySignal, LateArrival,
          workerVars
  <1> QED BY <1>4, <1>5, <1>6, <1>7, <1>8 DEF Next, WorkerNext

LEMMA AttemptStep ==
    ASSUME TypeInv, LockInv, RowInv, AttemptsAreBounded, FreeClaims, Next
    PROVE  AttemptsAreBounded' /\ FreeClaims'
  <1> DEFINE Bounded(a) == HasRow(a) =>
                 /\ RowStatus(a) = "pending" => outbox[a].attempt < MaxAttempts
                 /\ outbox[a].attempt <= MaxAttempts + faults
             Held(a) == \E t \in tasks : t.approval = a /\ HoldsClaim(t)
             Free(a) == /\ outbox[a] # NoRow
                        /\ outbox[a].status = "dispatching"
                        /\ ~outbox[a].leaseLive \/ ~Held(a)
                        => outbox[a].attempt < MaxAttempts + faults
  <1>1. SUFFICES ASSUME NEW a \in Approvals
                 PROVE  Bounded(a)' /\ Free(a)'
    BY DEF AttemptsAreBounded, FreeClaims
  <1>2. Bounded(a) /\ Free(a)
    BY DEF AttemptsAreBounded, FreeClaims
  <1>3. /\ faults \in Nat /\ faults' \in Nat /\ faults' >= faults
        /\ MaxAttempts \in Nat /\ MaxAttempts > 0
    BY FaultStep, ApprovalAssumption DEF TypeInv, TypeOK
  <1>4. outbox[a] # NoRow => outbox[a] \in Rows /\ outbox[a].attempt \in Nat
    BY RowIsRow DEF TypeInv, Rows
  <1>5. CASE outbox'[a] = outbox[a]
    <2>1. Bounded(a)'
      BY <1>2, <1>3, <1>4, <1>5 DEF HasRow, RowStatus
    <2>2. ASSUME outbox[a] # NoRow, outbox[a].status = "dispatching",
                 ~outbox[a].leaseLive \/ ~Held(a)'
          PROVE  outbox[a].attempt < MaxAttempts + faults'
      <3>1. CASE ~outbox[a].leaseLive \/ ~Held(a)
        BY <1>2, <1>3, <1>4, <2>2, <3>1
      <3>2. CASE Held(a) /\ ~Held(a)'
        <4>1. PICK t \in tasks : t.approval = a /\ HoldsClaim(t)
          BY <3>2
        <4>2. faults' = faults + 1
          BY <1>5, <3>2, <4>1, HolderStep
        <4> QED BY <1>2, <1>3, <1>4, <2>2, <4>2 DEF HasRow
      <3> QED BY <2>2, <3>1, <3>2
    <2> QED BY <1>5, <2>1, <2>2
  <1>6. ASSUME NEW h \in Handlers,
               outbox'[a] = Fresh(Event(a, handler[h].req, handler[h].at))
        PROVE  Bounded(a)' /\ Free(a)'
    BY <1>3, <1>6 DEF Fresh, HasRow, RowStatus
  <1>7. ASSUME NEW w \in Workers, NEW batch \in SUBSET Approvals,
               Claim(w, batch), a \in batch,
               outbox'[a] = [outbox[a] EXCEPT !.status = "dispatching",
                                     !.attempt = outbox[a].attempt + 1,
                                     !.token = outbox[a].attempt + 1,
                                     !.leaseLive = TRUE]
        PROVE  Bounded(a)' /\ Free(a)'
    <2>1. /\ outbox[a] # NoRow
          /\ \/ outbox[a].status = "pending"
             \/ outbox[a].status = "dispatching" /\ ~outbox[a].leaseLive
      BY <1>7 DEF Claim, Claimable
    <2>2. /\ outbox'[a].status = "dispatching"
          /\ outbox'[a].attempt = outbox[a].attempt + 1
          /\ outbox'[a].token = outbox[a].attempt + 1
          /\ outbox'[a].leaseLive = TRUE
      BY <1>4, <1>7, <2>1 DEF Rows
    <2>3. outbox[a].attempt < MaxAttempts + faults
      BY <1>2, <1>3, <1>4, <2>1 DEF HasRow, RowStatus
    <2>4. Held(a)'
      <3>1. PICK u \in tasks' : u = NewTask(w, a)
        BY <1>7 DEF Claim
      <3>2. u.approval = a /\ u.token = outbox[a].attempt + 1
        BY <3>1 DEF NewTask
      <3>3. HoldsClaim(u)'
        BY <2>2, <3>2 DEF HoldsClaim
      <3> QED BY <3>2, <3>3
    <2> HIDE DEF Held
    <2> QED BY <1>3, <1>4, <2>1, <2>2, <2>3, <2>4 DEF HasRow, RowStatus
  <1>8. ASSUME NEW t \in tasks, HoldsClaim(t), t.approval = a,
               outbox'[a] = [outbox[a] EXCEPT !.status = NewStatus(t),
                                     !.token = 0,
                                     !.due = (NewStatus(t) # "pending"),
                                     !.leaseLive = FALSE]
        PROVE  Bounded(a)' /\ Free(a)'
    <2>1. outbox[a] # NoRow /\ outbox[a] \in Rows
      BY <1>8, TaskFacts
    <2>2. t.token = outbox[a].attempt
      BY <1>8, <2>1 DEF HoldsClaim, RowInv
    <2>3. /\ outbox'[a].status = NewStatus(t)
          /\ outbox'[a].attempt = outbox[a].attempt
      BY <1>8, <2>1 DEF Rows
    <2>4. NewStatus(t) = "pending" => outbox[a].attempt < MaxAttempts
      BY <1>3, <1>4, <2>1, <2>2 DEF NewStatus, DeadLetter, Exhausted
    <2>5. NewStatus(t) # "dispatching"
      BY DEF NewStatus
    <2> QED BY <1>2, <1>3, <1>4, <2>1, <2>3, <2>4, <2>5 DEF HasRow, RowStatus
  <1>9. ASSUME LeaseExpires(a),
               outbox'[a] = [outbox[a] EXCEPT !.leaseLive = FALSE]
        PROVE  Bounded(a)' /\ Free(a)'
    <2>1. outbox[a] # NoRow /\ outbox[a].status = "dispatching"
      BY <1>9 DEF LeaseExpires
    <2>2. /\ outbox'[a].status = outbox[a].status
          /\ outbox'[a].attempt = outbox[a].attempt
      BY <1>4, <1>9, <2>1 DEF Rows
    <2>3. outbox[a].attempt < MaxAttempts + faults'
      <3>1. CASE Held(a)
        <4>1. faults' = faults + 1
          BY <1>9, <3>1 DEF LeaseExpires
        <4> QED BY <1>2, <1>3, <1>4, <2>1, <4>1 DEF HasRow
      <3>2. CASE ~Held(a)
        BY <1>2, <1>3, <1>4, <2>1, <3>2
      <3> QED BY <3>1, <3>2
    <2> QED BY <1>3, <1>4, <2>1, <2>2, <2>3 DEF HasRow, RowStatus
  <1>10. ASSUME RetryDue(a), outbox'[a] = [outbox[a] EXCEPT !.due = TRUE]
         PROVE  Bounded(a)' /\ Free(a)'
    <2>1. outbox[a] # NoRow /\ outbox[a].status = "pending"
      BY <1>10 DEF RetryDue
    <2>2. /\ outbox'[a].status = outbox[a].status
          /\ outbox'[a].attempt = outbox[a].attempt
      BY <1>4, <1>10, <2>1 DEF Rows
    <2> QED BY <1>2, <1>3, <1>4, <2>1, <2>2 DEF HasRow, RowStatus
  <1> HIDE DEF Bounded, Free
  <1> QED BY <1>5, <1>6, <1>7, <1>8, <1>9, <1>10, RowSteps

(***************************************************************************)
(* Workflows.                                                              *)
(***************************************************************************)

\* The signal of an open transaction.
OpenEvent(e) ==
    \E h \in Handlers :
        /\ handler[h] # Idle
        /\ e = Event(handler[h].approval, handler[h].req, handler[h].at)

\* The signals a step may send to a workflow.
Sent(f, e) ==
    /\ e \in AnyEvent
    /\ \/ \E t \in tasks : /\ WorkflowOf[t.approval] = f
                            /\ e = outbox[t.approval].event
       \/ e \in net /\ WorkflowOf[e.approval] = f
       \/ ~OutboxEnabled /\ e.kind = "direct" /\ OpenEvent(e)
       \/ LegacySenders /\ e \in LegacyEvents

\* All that a step may do to a workflow.
LEMMA WorkflowSteps ==
    ASSUME TypeInv, Next, NEW f \in Workflows
    PROVE  \/ wf'[f] = wf[f]
           \/ /\ wf[f].status = "absent"
              /\ wf'[f] = [wf[f] EXCEPT !.status = "running"]
           \/ /\ wf[f].status = "running"
              /\ \/ wf'[f] = [wf[f] EXCEPT !.status = "cancelled",
                                          !.queue = <<>>]
                 \/ /\ wf[f].queue = <<>> /\ wf[f].decision # NoEvent
                    /\ wf'[f] = [wf[f] EXCEPT !.status = "completed"]
                 \/ \E e : Sent(f, e) /\ wf'[f] = [wf[f] EXCEPT
                                             !.queue = Append(wf[f].queue, e)]
                 \/ /\ wf[f].queue # <<>>
                    /\ wf'[f] = [Accept(wf[f], Head(wf[f].queue)) EXCEPT
                                    !.queue = Tail(@)]
  <1> DEFINE Goal == \/ wf'[f] = wf[f]
           \/ /\ wf[f].status = "absent"
              /\ wf'[f] = [wf[f] EXCEPT !.status = "running"]
           \/ /\ wf[f].status = "running"
              /\ \/ wf'[f] = [wf[f] EXCEPT !.status = "cancelled",
                                          !.queue = <<>>]
                 \/ /\ wf[f].queue = <<>> /\ wf[f].decision # NoEvent
                    /\ wf'[f] = [wf[f] EXCEPT !.status = "completed"]
                 \/ \E e : Sent(f, e) /\ wf'[f] = [wf[f] EXCEPT
                                             !.queue = Append(wf[f].queue, e)]
                 \/ /\ wf[f].queue # <<>>
                    /\ wf'[f] = [Accept(wf[f], Head(wf[f].queue)) EXCEPT
                                    !.queue = Tail(@)]
  <1> USE DEF TypeInv
  <1>1. ASSUME wf'[f] = wf[f] PROVE Goal
    BY <1>1
  <1>2. ASSUME NEW g \in Workflows, NEW e, wf' = Buffered(g, e),
               wf[g].status = "running", g = f => Sent(f, e)
        PROVE  Goal
    <2>1. CASE g = f
      <3>1. wf'[f] = [wf[f] EXCEPT !.queue = Append(wf[f].queue, e)]
        BY <1>2, <2>1 DEF Buffered, TypeOK
      <3> QED BY <1>2, <2>1, <3>1
    <2>2. CASE g # f
      BY <1>2, <2>2, <1>1 DEF Buffered, TypeOK
    <2> QED BY <2>1, <2>2
  <1> HIDE DEF Goal
  <1>3. ASSUME NEW h \in Handlers, SignalNow(h)
        PROVE  Goal
    <2> DEFINE b == handler[h].approval
               e == Event(b, handler[h].req, handler[h].at)
    <2>1. handler[h] \in Transactions
      BY <1>3 DEF SignalNow, TypeOK
    <2>2. /\ b \in Approvals /\ WorkflowOf[b] \in Workflows
          /\ e \in Events
      BY <2>1, EventType, ApprovalAssumption DEF Transactions
    <2>3. ~OutboxEnabled /\ e.kind = "direct" /\ OpenEvent(e)
      BY <1>3 DEF SignalNow, Event, OpenEvent
    <2>4. \/ wf' = wf
          \/ wf' = Buffered(WorkflowOf[b], e)
             /\ wf[WorkflowOf[b]].status = "running"
      BY <1>3 DEF SignalNow
    <2> HIDE DEF b, e
    <2>5. Sent(f, e)
      BY <2>2, <2>3 DEF Sent, AnyEvent
    <2> QED BY <1>1, <1>2, <2>2, <2>4, <2>5 DEF Goal
  <1>4. ASSUME NEW t \in tasks, SignalDelivered(t)
        PROVE  Goal
    <2> DEFINE e == outbox[t.approval].event
    <2>1. WorkflowOf[t.approval] = f => Sent(f, e)
      BY TaskFacts DEF Sent, AnyEvent
    <2>2. /\ wf' = Buffered(WorkflowOf[t.approval], e)
          /\ wf[WorkflowOf[t.approval]].status = "running"
      BY <1>4 DEF SignalDelivered
    <2> HIDE DEF e
    <2> QED BY <1>2, <2>1, <2>2, TaskFacts
  <1>5. ASSUME NEW e \in net, LateArrival(e)
        PROVE  Goal
    <2>1. e \in Events /\ WorkflowOf[e.approval] \in Workflows
      BY ApprovalAssumption DEF TypeOK, Events
    <2>2. WorkflowOf[e.approval] = f => Sent(f, e)
      BY <2>1 DEF Sent, AnyEvent
    <2>3. \/ wf' = wf
          \/ /\ wf' = Buffered(WorkflowOf[e.approval], e)
             /\ wf[WorkflowOf[e.approval]].status = "running"
      BY <1>5 DEF LateArrival
    <2> QED BY <1>1, <1>2, <2>1, <2>2, <2>3 DEF Goal
  <1>6. ASSUME NEW g \in Workflows, NEW e \in LegacyEvents,
               LegacySignal(g, e)
        PROVE  Goal
    <2>1. Sent(f, e)
      BY <1>6 DEF LegacySignal, Sent, AnyEvent
    <2> QED BY <1>2, <1>6, <2>1 DEF LegacySignal
  <1>7. ASSUME NEW g \in Workflows,
               \/ StartWorkflow(g) \/ CancelWorkflow(g)
               \/ CompleteWorkflow(g) \/ AcceptDecision(g)
        PROVE  Goal
    <2>1. CASE g # f
      <3>1. wf'[f] = wf[f]
        BY <1>7, <2>1 DEF StartWorkflow, CancelWorkflow, CompleteWorkflow,
                          AcceptDecision, TypeOK
      <3> QED BY <3>1 DEF Goal
    <2>2. CASE g = f /\ StartWorkflow(f)
      BY <2>2 DEF StartWorkflow, TypeOK, Goal
    <2>3. CASE g = f /\ CancelWorkflow(f)
      BY <2>3 DEF CancelWorkflow, TypeOK, Goal
    <2>4. CASE g = f /\ CompleteWorkflow(f)
      BY <2>4 DEF CompleteWorkflow, TypeOK, Goal
    <2>5. CASE g = f /\ AcceptDecision(f)
      BY <2>5 DEF AcceptDecision, TypeOK, Goal
    <2> QED BY <1>7, <2>1, <2>2, <2>3, <2>4, <2>5
  <1>8. ASSUME wf' = wf PROVE Goal
    BY <1>8 DEF Goal
  <1>9. ASSUME ApiNext PROVE Goal
    BY <1>3, <1>8, <1>9 DEF ApiNext, BeginDecision, RepeatDecision,
          DenyByPolicy, CommitDecision, AbortDecision
  <1>10. ASSUME WorkerNext \/ ClockNext PROVE Goal
    BY <1>4, <1>8, <1>10 DEF WorkerNext, ClockNext, Claim, Deliver,
          SignalFailed, SignalRejected, Reconcile, ReconcileUnknown,
          Finalize, FinalizeRaises, WorkerCrash, LeaseExpires, RetryDue
  <1>11. ASSUME WorkflowNext PROVE Goal
    BY <1>5, <1>6, <1>7, <1>11 DEF WorkflowNext
  <1>12. Goal
    BY <1>9, <1>10, <1>11 DEF Next
  <1> QED BY <1>12 DEF Goal

\* The first decision of a workflow stands, and a closed execution is final.
LEMMA FirstWriteStep ==
    ASSUME TypeInv, Next, NEW f \in Workflows
    PROVE  /\ wf[f].decision # NoEvent => wf'[f].decision = wf[f].decision
           /\ wf[f].status \in {"completed", "cancelled"} => wf'[f] = wf[f]
  <1>1. wf[f] \in WorkflowStates
    BY DEF TypeInv, TypeOK
  <1>2. ASSUME wf[f].decision # NoEvent
        PROVE  [Accept(wf[f], Head(wf[f].queue)) EXCEPT
                   !.queue = Tail(@)].decision = wf[f].decision
    BY <1>1, <1>2 DEF Accept, WorkflowStates
  <1>3. wf[f].status \in {"completed", "cancelled"} => wf'[f] = wf[f]
    BY WorkflowSteps
  <1>4. /\ [wf[f] EXCEPT !.status = "running"].decision = wf[f].decision
        /\ [wf[f] EXCEPT !.status = "completed"].decision = wf[f].decision
        /\ [wf[f] EXCEPT !.status = "cancelled",
                         !.queue = <<>>].decision = wf[f].decision
        /\ \A e : [wf[f] EXCEPT !.queue = Append(wf[f].queue, e)].decision
                     = wf[f].decision
    BY <1>1 DEF WorkflowStates
  <1> QED BY <1>2, <1>3, <1>4, WorkflowSteps

\* First write wins, for any number of competing senders and approvals: a
\* workflow's decision is never replaced.
THEOREM FirstWriteStands == Spec => FirstWriteWins
  <1>1. ASSUME TypeInv, [Next]_vars
        PROVE  [\A f \in Workflows :
                  /\ wf[f].decision # NoEvent => wf'[f].decision = wf[f].decision
                  /\ wf[f].status \in {"completed", "cancelled"} =>
                        wf'[f] = wf[f]]_vars
    BY <1>1, FirstWriteStep
  <1> QED BY <1>1, TypeInvariant, PTL DEF Spec, FirstWriteWins

\* A task that has become permanent was so before, was rejected when it was
\* claimed, or has read another decision from a completed execution.
LEMMA OutcomeStep ==
    ASSUME TypeInv, LockInv, RowInv, OutcomesAreJustified, Next
    PROVE  OutcomesAreJustified'
  <1> DEFINE Reason(t) ==
        \/ t.approval \in Unsupported
        \/ /\ wf[WorkflowOf[t.approval]].status = "completed"
           /\ wf[WorkflowOf[t.approval]].decision # outbox[t.approval].event
  <1> USE DEF TypeInv
  <1>1. ASSUME NEW v \in tasks, Reason(v)
        PROVE  Reason(v)'
    <2>1. /\ v.approval \in Approvals /\ WorkflowOf[v.approval] \in Workflows
          /\ outbox[v.approval] # NoRow
      BY TaskFacts
    <2>2. outbox'[v.approval].event = outbox[v.approval].event
      BY <2>1, RowStep
    <2> QED BY <1>1, <2>1, <2>2, FirstWriteStep
  <1>2. SUFFICES ASSUME NEW u \in tasks', u.outcome = "permanent"
                 PROVE  Reason(u)'
    BY DEF OutcomesAreJustified
  <1>3. ASSUME NEW v \in tasks, v.outcome = "permanent",
               u.approval = v.approval
        PROVE  Reason(u)'
    BY <1>1, <1>3 DEF OutcomesAreJustified
  <1>4. ASSUME NEW t \in tasks, NEW o \in {"ok", "retry"},
               tasks' = Finished(t, o)
        PROVE  Reason(u)'
    <2>1. u \in tasks \/ u = [t EXCEPT !.phase = "final", !.outcome = o]
      BY <1>4 DEF Finished, Replaced
    <2>2. t \in Tasks
      BY DEF TypeOK
    <2>3. u \in tasks
      BY <1>2, <2>1, <2>2 DEF Tasks
    <2> QED BY <1>2, <1>3, <2>3
  <1>5. ASSUME NEW t \in tasks, Reconcile(t)
        PROVE  Reason(u)'
    <2>1. \/ u \in tasks
          \/ u = [t EXCEPT !.phase = "final", !.outcome = Reconciliation(t)]
      BY <1>5 DEF Reconcile, Finished, Replaced
    <2>2. t \in Tasks
      BY DEF TypeOK
    <2>3. CASE u \notin tasks
      <3>1. u.approval = t.approval /\ Reconciliation(t) = "permanent"
        BY <1>2, <2>1, <2>2, <2>3 DEF Tasks
      <3>2. Reason(t)
        BY <1>5, <3>1 DEF Reconcile, Reconciliation
      <3> QED BY <1>1, <3>1, <3>2
    <2> QED BY <1>2, <1>3, <2>3
  <1>6. ASSUME NEW t \in tasks, SignalRejected(t)
        PROVE  Reason(u)'
    <2>1. u \in tasks \/ u = [t EXCEPT !.phase = "reconcile"]
      BY <1>6 DEF SignalRejected, Replaced
    <2>2. t \in Tasks
      BY DEF TypeOK
    <2>3. CASE u \notin tasks
      <3>1. u.approval = t.approval /\ u.outcome = t.outcome
        BY <2>1, <2>2, <2>3 DEF Tasks
      <3> QED BY <1>2, <1>3, <3>1
    <2> QED BY <1>2, <1>3, <2>3
  <1>7. ASSUME NEW t \in tasks, FinalizeRaises(t)
        PROVE  Reason(u)'
    <2>1. PICK v \in tasks : u = IF v.worker = t.worker
                                 THEN [v EXCEPT !.awaited = FALSE] ELSE v
      BY <1>7 DEF FinalizeRaises
    <2>2. v \in Tasks
      BY DEF TypeOK
    <2>3. u.approval = v.approval /\ u.outcome = v.outcome
      BY <2>1, <2>2 DEF Tasks
    <2> QED BY <1>2, <1>3, <2>3
  <1>8. ASSUME NEW w \in Workers, NEW batch \in SUBSET Approvals,
               Claim(w, batch)
        PROVE  Reason(u)'
    <2>1. u \in tasks \/ \E a \in batch : u = NewTask(w, a)
      BY <1>8 DEF Claim
    <2>2. ASSUME NEW a \in batch, u = NewTask(w, a)
          PROVE  u.approval \in Unsupported
      BY <1>2, <2>2 DEF NewTask
    <2> QED BY <1>2, <1>3, <2>1, <2>2
  <1>9. ASSUME tasks' \subseteq tasks
        PROVE  Reason(u)'
    BY <1>2, <1>3, <1>9
  <1> HIDE DEF Reason
  <1>10. CASE ApiNext \/ ClockNext \/ WorkflowNext
              \/ \E w \in Workers : WorkerCrash(w)
    <2>1. tasks' \subseteq tasks
      BY <1>10 DEF ApiNext, BeginDecision, RepeatDecision, DenyByPolicy,
            SignalNow, CommitDecision, AbortDecision, ClockNext,
            LeaseExpires, RetryDue, WorkflowNext, StartWorkflow,
            CancelWorkflow, AcceptDecision, CompleteWorkflow, LegacySignal,
            LateArrival, WorkerCrash, workerVars
    <2> QED BY <1>9, <2>1
  <1>11. ASSUME NEW t \in tasks, Deliver(t)
         PROVE  Reason(u)'
    BY <1>4, <1>5, <1>6, <1>9, <1>11 DEF Deliver, SignalDelivered,
          SignalFailed, ReconcileUnknown, Finalize
  <1> QED BY <1>7, <1>8, <1>10, <1>11 DEF Next, WorkerNext

LEMMA DeadLetterStep ==
    ASSUME TypeInv, LockInv, RowInv, OutcomesAreJustified,
           DeadLetterIsJustified, Next
    PROVE  DeadLetterIsJustified'
  <1> DEFINE Why(a) == \/ a \in Unsupported
                       \/ /\ wf[WorkflowOf[a]].status = "completed"
                          /\ wf[WorkflowOf[a]].decision # outbox[a].event
             Dead(a) == HasRow(a) /\ RowStatus(a) = "dead_letter"
  <1>1. SUFFICES ASSUME NEW a \in Approvals, Dead(a)'
                 PROVE  outbox'[a].attempt >= MaxAttempts \/ Why(a)'
    BY DEF DeadLetterIsJustified
  <1>2. WorkflowOf[a] \in Workflows
    BY ApprovalAssumption
  <1>3. ASSUME outbox[a] # NoRow, Why(a)
        PROVE  Why(a)'
    BY <1>2, <1>3, RowStep, FirstWriteStep
  <1>4. CASE outbox'[a] = outbox[a]
    BY <1>1, <1>3, <1>4 DEF DeadLetterIsJustified, HasRow, RowStatus
  <1>5. ASSUME NEW t \in tasks, HoldsClaim(t), t.approval = a,
               outbox'[a] = [outbox[a] EXCEPT !.status = NewStatus(t),
                                     !.token = 0,
                                     !.due = (NewStatus(t) # "pending"),
                                     !.leaseLive = FALSE]
        PROVE  outbox'[a].attempt >= MaxAttempts \/ Why(a)'
    <2>1. outbox[a] # NoRow /\ outbox[a] \in Rows
      BY <1>5, TaskFacts
    <2>2. t.token = outbox[a].attempt
      BY <1>5, <2>1 DEF HoldsClaim, RowInv
    <2>3. /\ outbox'[a].status = NewStatus(t)
          /\ outbox'[a].attempt = outbox[a].attempt
      BY <1>5, <2>1 DEF Rows
    <2>4. t.outcome = "permanent" \/ t.token >= MaxAttempts
      BY <1>1, <2>3 DEF RowStatus, NewStatus, DeadLetter, Exhausted
    <2>5. t.outcome = "permanent" => Why(a)
      BY <1>5 DEF OutcomesAreJustified
    <2> QED BY <1>3, <2>1, <2>2, <2>3, <2>4, <2>5
  <1>6. ASSUME NEW h \in Handlers,
               outbox'[a] = Fresh(Event(a, handler[h].req, handler[h].at))
        PROVE  FALSE
    BY <1>1, <1>6 DEF Fresh, RowStatus
  <1>7. ASSUME NEW w \in Workers, NEW batch \in SUBSET Approvals,
               Claim(w, batch), a \in batch,
               outbox'[a] = [outbox[a] EXCEPT !.status = "dispatching",
                                     !.attempt = outbox[a].attempt + 1,
                                     !.token = outbox[a].attempt + 1,
                                     !.leaseLive = TRUE]
        PROVE  FALSE
    <2>1. outbox[a] \in Rows
      BY <1>7, RowIsRow DEF Claim, Claimable, TypeInv
    <2>2. outbox'[a].status = "dispatching"
      BY <1>7, <2>1 DEF Rows
    <2> QED BY <1>1, <2>2 DEF RowStatus
  <1>8. ASSUME \/ LeaseExpires(a) /\ outbox'[a] = [outbox[a] EXCEPT
                                                       !.leaseLive = FALSE]
               \/ RetryDue(a) /\ outbox'[a] = [outbox[a] EXCEPT !.due = TRUE]
        PROVE  FALSE
    <2>1. /\ outbox[a] \in Rows
          /\ outbox[a].status \in {"dispatching", "pending"}
      BY <1>8, RowIsRow DEF LeaseExpires, RetryDue, TypeInv
    <2>2. outbox'[a].status = outbox[a].status
      BY <1>8, <2>1 DEF Rows
    <2> QED BY <1>1, <2>1, <2>2 DEF RowStatus
  <1> HIDE DEF Why
  <1> QED BY <1>4, <1>5, <1>6, <1>7, <1>8, RowSteps

LEMMA ClaimInvariant ==
    /\ Init => ClaimInv
    /\ ClaimInv /\ [Next]_vars => ClaimInv'
  <1>1. Init => ClaimInv
    BY DecisionInvariant DEF Init, ClaimInv, ClaimsAreExclusive,
          AuditedExactlyOnce, AttemptsAreBounded, FreeClaims,
          OutcomesAreJustified, DeadLetterIsJustified, HasRow
  <1>2. ASSUME ClaimInv, Next
        PROVE  ClaimInv'
    BY <1>2, DecisionInvariant, ClaimsStep, AuditStep, AttemptStep,
       OutcomeStep, DeadLetterStep DEF ClaimInv, DecisionInv
  <1>3. ASSUME ClaimInv, UNCHANGED vars
        PROVE  ClaimInv'
    <2>1. DecisionInv'
      BY <1>3, DecisionInvariant DEF ClaimInv
    <2>2. ClaimsAreExclusive' /\ AuditedExactlyOnce'
      BY <1>3 DEF ClaimInv, vars, ClaimsAreExclusive, AuditedExactlyOnce,
                  HasRow, RowStatus
    <2>3. AttemptsAreBounded' /\ FreeClaims'
      BY <1>3 DEF ClaimInv, vars, AttemptsAreBounded, FreeClaims, HasRow,
                  RowStatus, HoldsClaim
    <2>4. OutcomesAreJustified' /\ DeadLetterIsJustified'
      BY <1>3 DEF ClaimInv, vars, OutcomesAreJustified,
                  DeadLetterIsJustified, HasRow, RowStatus
    <2> QED BY <2>1, <2>2, <2>3, <2>4 DEF ClaimInv
  <1> QED BY <1>1, <1>2, <1>3

\* The delivery audit trail is exact for any number of workers, crashes,
\* expired leases and late finalizations.
THEOREM AuditIsExact == Spec => []AuditedExactlyOnce
  <1>1. ClaimInv => AuditedExactlyOnce
    BY DEF ClaimInv
  <1> QED BY <1>1, ClaimInvariant, PTL DEF Spec

\* A claim has one holder at any time, whatever number of workers compete.
THEOREM ClaimsExclude == Spec => []ClaimsAreExclusive
  <1>1. ClaimInv => ClaimsAreExclusive
    BY DEF ClaimInv
  <1> QED BY <1>1, ClaimInvariant, PTL DEF Spec

\* The attempts of a row stay within max_attempts plus the faults that made
\* a worker lose a claim.
THEOREM AttemptsBounded == Spec => []AttemptsAreBounded
  <1>1. ClaimInv => AttemptsAreBounded
    BY DEF ClaimInv
  <1> QED BY <1>1, ClaimInvariant, PTL DEF Spec

\* No decision is given up without one of the three reasons the code has.
THEOREM DeadLettersJustified == Spec => []DeadLetterIsJustified
  <1>1. ClaimInv => DeadLetterIsJustified
    BY DEF ClaimInv
  <1> QED BY <1>1, ClaimInvariant, PTL DEF Spec
=============================================================================
