---------------------- MODULE ApprovalRefinement_proofs ----------------------
(***************************************************************************)
(* Only committed decisions reach workflows, delivered decisions take      *)
(* effect, and ApprovalDelivery implements ApprovalPromise.                *)
(***************************************************************************)
EXTENDS ApprovalRefinement, ApprovalSafety_proofs

LEMMA RangeAppend ==
    ASSUME NEW S, NEW q \in Seq(S), NEW e \in S, NEW x \in Range(Append(q, e))
    PROVE  x \in Range(q) \/ x = e
  BY DEF Range

LEMMA RangeTail ==
    ASSUME NEW S, NEW q \in Seq(S), q # <<>>
    PROVE  Head(q) \in Range(q) /\ \A x \in Range(Tail(q)) : x \in Range(q)
  <1>1. Len(q) \in Nat /\ Len(q) > 0 /\ DOMAIN q = 1 .. Len(q)
    OBVIOUS
  <1>2. Head(q) = q[1]
    OBVIOUS
  <1>3. ASSUME NEW x \in Range(Tail(q))
        PROVE  x \in Range(q)
    <2>1. PICK i \in DOMAIN Tail(q) : x = Tail(q)[i]
      BY DEF Range
    <2>2. i \in 1 .. (Len(q) - 1) /\ Tail(q)[i] = q[i + 1]
      BY <2>1, <1>1
    <2>3. i + 1 \in DOMAIN q
      BY <1>1, <2>2
    <2> QED BY <2>1, <2>2, <2>3 DEF Range
  <1> QED BY <1>1, <1>2, <1>3 DEF Range

\* A workflow sees nothing but what it saw before and what is sent to it.
LEMMA SeenStep ==
    ASSUME TypeInv, Next, NEW f \in Workflows, NEW e \in SignalsSeen(f)'
    PROVE  e \in SignalsSeen(f) \/ Sent(f, e)
  <1> DEFINE Of(s) == Range(s.queue) \cup s.conflicts \cup
                      (IF s.decision = NoEvent THEN {} ELSE {s.decision})
  <1>1. SignalsSeen(f) = Of(wf[f]) /\ e \in Of(wf'[f])
    BY DEF SignalsSeen
  <1>2. wf[f] \in WorkflowStates
    BY DEF TypeInv, TypeOK
  <1>3. CASE wf'[f] = wf[f]
    BY <1>1, <1>3
  <1>4. CASE \/ wf'[f] = [wf[f] EXCEPT !.status = "running"]
             \/ wf'[f] = [wf[f] EXCEPT !.status = "completed"]
    <2>1. /\ wf'[f].queue = wf[f].queue
          /\ wf'[f].conflicts = wf[f].conflicts
          /\ wf'[f].decision = wf[f].decision
      BY <1>2, <1>4 DEF WorkflowStates
    <2> QED BY <1>1, <2>1
  <1>5. CASE wf'[f] = [wf[f] EXCEPT !.status = "cancelled", !.queue = <<>>]
    <2>1. /\ wf'[f].queue = <<>>
          /\ wf'[f].conflicts = wf[f].conflicts
          /\ wf'[f].decision = wf[f].decision
      BY <1>2, <1>5 DEF WorkflowStates
    <2>2. Range(<<>>) = {}
      BY DEF Range
    <2> QED BY <1>1, <2>1, <2>2
  <1>6. ASSUME NEW x, Sent(f, x),
               wf'[f] = [wf[f] EXCEPT !.queue = Append(wf[f].queue, x)]
        PROVE  e \in SignalsSeen(f) \/ Sent(f, e)
    <2>1. wf[f].queue \in Seq(AnyEvent) /\ x \in AnyEvent
      BY <1>2, <1>6 DEF WorkflowStates, Sent
    <2>2. /\ wf'[f].queue = Append(wf[f].queue, x)
          /\ wf'[f].conflicts = wf[f].conflicts
          /\ wf'[f].decision = wf[f].decision
      BY <1>2, <1>6 DEF WorkflowStates
    <2>3. e \in Range(Append(wf[f].queue, x)) => e \in Range(wf[f].queue) \/ e = x
      BY <2>1, RangeAppend
    <2> QED BY <1>1, <1>6, <2>2, <2>3
  <1>7. CASE /\ wf[f].queue # <<>>
             /\ wf'[f] = [Accept(wf[f], Head(wf[f].queue)) EXCEPT
                             !.queue = Tail(@)]
    <2> DEFINE x == Head(wf[f].queue)
               s == Accept(wf[f], x)
    <2>1. /\ s.queue = wf[f].queue
          /\ s.decision \in {wf[f].decision, x}
          /\ s.conflicts \subseteq wf[f].conflicts \cup {x}
          /\ s \in [status : {"absent", "running", "completed", "cancelled"},
                    decision : {s.decision}, queue : {s.queue},
                    conflicts : {s.conflicts}]
      BY <1>2 DEF Accept, WorkflowStates
    <2> HIDE DEF s
    <2>2. /\ wf'[f].queue = Tail(wf[f].queue)
          /\ wf'[f].conflicts = s.conflicts
          /\ wf'[f].decision = s.decision
      BY <1>7, <2>1 DEF s
    <2>3. /\ x \in Range(wf[f].queue)
          /\ \A y \in Range(Tail(wf[f].queue)) : y \in Range(wf[f].queue)
      BY <1>2, <1>7, RangeTail DEF WorkflowStates
    <2> QED BY <1>1, <2>1, <2>2, <2>3
  <1> HIDE DEF Of
  <1> QED BY <1>3, <1>4, <1>5, <1>6, <1>7, WorkflowSteps

\* A call without an answer leaves the row's own signal on its way.
LEMMA NetStep ==
    ASSUME TypeInv, Next, NEW e \in net'
    PROVE  \/ e \in net
           \/ \E t \in tasks : e = outbox[t.approval].event
           \/ ~OutboxEnabled /\ e.kind = "direct" /\ OpenEvent(e)
  <1>1. ASSUME NEW h \in Handlers, SignalNow(h)
        PROVE  e \in net \/ (~OutboxEnabled /\ e.kind = "direct" /\ OpenEvent(e))
    BY <1>1 DEF SignalNow, Event, OpenEvent
  <1>2. ASSUME NEW t \in tasks, SignalFailed(t)
        PROVE  e \in net \/ e = outbox[t.approval].event
    BY <1>2 DEF SignalFailed
  <1>3. ASSUME NEW x \in net, LateArrival(x)
        PROVE  e \in net
    BY <1>3 DEF LateArrival
  <1>4. CASE net' = net
    BY <1>4
  <1>5. CASE ApiNext
    BY <1>1, <1>4, <1>5 DEF ApiNext, BeginDecision, RepeatDecision,
          DenyByPolicy, CommitDecision, AbortDecision
  <1>6. CASE WorkerNext \/ ClockNext
    BY <1>2, <1>4, <1>6 DEF WorkerNext, ClockNext, Claim, Deliver,
          SignalDelivered, SignalRejected, Reconcile, ReconcileUnknown,
          Finalize, FinalizeRaises, WorkerCrash, LeaseExpires, RetryDue
  <1>7. CASE WorkflowNext
    BY <1>3, <1>4, <1>7 DEF WorkflowNext, StartWorkflow, CancelWorkflow,
          CompleteWorkflow, AcceptDecision, LegacySignal
  <1> QED BY <1>5, <1>6, <1>7 DEF Next

PhantomInv == DecisionInv /\ NoPhantomDecision

LEMMA PhantomStep ==
    ASSUME DecisionInv, NoPhantomDecision, Next
    PROVE  NoPhantomDecision'
  <1> DEFINE Real(e) == /\ HasRow(e.approval) /\ outbox[e.approval].event = e
                        /\ record[e.approval] = e.req
  <1>1. TypeInv /\ LockInv /\ RowInv
    BY DEF DecisionInv
  <1>2. ASSUME NEW e, e.approval \in Approvals, Real(e)
        PROVE  Real(e)'
    <2>1. outbox[e.approval] # NoRow /\ record[e.approval] # NoDecision
      BY <1>1, <1>2 DEF HasRow, RowInv
    <2>2. record'[e.approval] = record[e.approval]
      BY <1>1, <1>2, <2>1, RecordStep
    <2> QED BY <1>1, <1>2, <2>1, <2>2, RowStep DEF HasRow
  <1>3. ASSUME NEW t \in tasks
        PROVE  LET e == outbox[t.approval].event
               IN  e.approval \in Approvals /\ Real(e)
    <2>1. t.approval \in Approvals /\ outbox[t.approval] # NoRow
      BY <1>1, TaskFacts
    <2> QED BY <1>1, <2>1 DEF RowInv, HasRow
  <1>4. \A e \in net : e.approval \in Approvals
    BY <1>1 DEF TypeInv, TypeOK, Events
  <1>5. ASSUME NEW f \in Workflows, NEW e \in SignalsSeen(f) \cup net,
               e.kind = "outbox"
        PROVE  e.approval \in Approvals /\ Real(e)
    <2>1. Real(e)
      BY <1>5 DEF NoPhantomDecision
    <2>2. e \in AnyEvent
      <3>1. wf[f] \in WorkflowStates /\ net \subseteq Events
        BY <1>1 DEF TypeInv, TypeOK
      <3>2. Range(wf[f].queue) \subseteq AnyEvent
        BY <3>1 DEF WorkflowStates, Range
      <3>3. wf[f].conflicts \subseteq AnyEvent
            /\ wf[f].decision \in AnyEvent \cup {NoEvent}
        BY <3>1 DEF WorkflowStates
      <3> QED BY <3>1, <3>2, <3>3 DEF SignalsSeen, AnyEvent
    <2>3. e \in Events
      BY <1>5, <2>2 DEF AnyEvent, LegacyEvents
    <2> QED BY <2>1, <2>3 DEF Events
  <1>6. ASSUME NEW f \in Workflows, NEW e \in (SignalsSeen(f) \cup net)',
               e.kind = "outbox"
        PROVE  Real(e)'
    <2>1. e \in SignalsSeen(f)' \/ e \in net'
      BY <1>6
    <2>2. ~(e \in LegacyEvents) /\ e.kind # "direct"
      BY <1>6 DEF LegacyEvents
    <2>3. \/ e \in SignalsSeen(f) \cup net
          \/ \E t \in tasks : e = outbox[t.approval].event
      <3>1. CASE e \in SignalsSeen(f)'
        BY <1>1, <2>2, <3>1, SeenStep DEF Sent
      <3>2. CASE e \in net'
        BY <1>1, <2>2, <3>2, NetStep
      <3> QED BY <2>1, <3>1, <3>2
    <2> HIDE DEF Real
    <2> QED BY <1>2, <1>3, <1>5, <1>6, <2>3
  <1> QED BY <1>6 DEF NoPhantomDecision

LEMMA PhantomInvariant ==
    /\ Init => PhantomInv
    /\ PhantomInv /\ [Next]_vars => PhantomInv'
  <1>1. Init => PhantomInv
    BY DecisionInvariant DEF Init, PhantomInv, NoPhantomDecision,
          SignalsSeen, Range
  <1>2. ASSUME PhantomInv, Next
        PROVE  PhantomInv'
    BY <1>2, DecisionInvariant, PhantomStep DEF PhantomInv
  <1>3. ASSUME PhantomInv, UNCHANGED vars
        PROVE  PhantomInv'
    BY <1>3, DecisionInvariant DEF PhantomInv, NoPhantomDecision,
          SignalsSeen, HasRow, vars
  <1> QED BY <1>1, <1>2, <1>3

\* Through the outbox no workflow sees a decision that was not committed,
\* however many requests were rolled back.
THEOREM NoPhantoms == Spec => []NoPhantomDecision
  <1>1. PhantomInv => NoPhantomDecision
    BY DEF PhantomInv
  <1> QED BY <1>1, PhantomInvariant, PTL DEF Spec

\* A delivery counts as done because it did before, because the server took
\* its signal, or because it read its decision from the closed execution.
LEMMA DoneSources ==
    ASSUME TypeInv, Next, NEW u \in tasks', u.outcome = "ok"
    PROVE  \/ \E v \in tasks : v.outcome = "ok" /\ u.approval = v.approval
           \/ \E t \in tasks : SignalDelivered(t) /\ u.approval = t.approval
           \/ \E t \in tasks : /\ Reconcile(t) /\ Reconciliation(t) = "ok"
                               /\ u.approval = t.approval
  <1> DEFINE Why == \/ \E v \in tasks : v.outcome = "ok" /\ u.approval = v.approval
                    \/ \E t \in tasks : SignalDelivered(t) /\ u.approval = t.approval
                    \/ \E t \in tasks : /\ Reconcile(t) /\ Reconciliation(t) = "ok"
                                        /\ u.approval = t.approval
  <1>1. TypeInv
    OBVIOUS
  <1>2. u \in tasks' /\ u.outcome = "ok"
    OBVIOUS
  <1>4. ASSUME NEW v \in tasks, v.outcome = "ok", u.approval = v.approval
        PROVE  Why
    BY <1>4
  <1>5. ASSUME NEW t \in tasks, SignalDelivered(t)
        PROVE  Why
    <2>1. u \in tasks \/ u = [t EXCEPT !.phase = "final", !.outcome = "ok"]
      BY <1>5 DEF SignalDelivered, Finished, Replaced
    <2>2. u \in tasks \/ u.approval = t.approval
      BY <1>1, <2>1 DEF TypeInv, TypeOK, Tasks
    <2> QED BY <1>2, <1>4, <1>5, <2>2
  <1>6. ASSUME NEW t \in tasks, Reconcile(t)
        PROVE  Why
    <2>1. \/ u \in tasks
          \/ u = [t EXCEPT !.phase = "final", !.outcome = Reconciliation(t)]
      BY <1>6 DEF Reconcile, Finished, Replaced
    <2>2. CASE u \notin tasks
      <3>1. u.approval = t.approval /\ Reconciliation(t) = "ok"
        BY <1>1, <1>2, <2>1, <2>2 DEF TypeInv, TypeOK, Tasks
      <3> QED BY <1>6, <3>1
    <2> QED BY <1>2, <1>4, <2>2
  <1>7. ASSUME NEW t \in tasks, SignalFailed(t) \/ ReconcileUnknown(t)
        PROVE  Why
    <2>1. u \in tasks \/ u = [t EXCEPT !.phase = "final", !.outcome = "retry"]
      BY <1>7 DEF SignalFailed, ReconcileUnknown, Finished, Replaced
    <2>2. u \in tasks
      BY <1>1, <1>2, <2>1 DEF TypeInv, TypeOK, Tasks
    <2> QED BY <1>2, <1>4, <2>2
  <1>8. ASSUME NEW t \in tasks, SignalRejected(t)
        PROVE  Why
    <2>1. u \in tasks \/ u = [t EXCEPT !.phase = "reconcile"]
      BY <1>8 DEF SignalRejected, Replaced
    <2>2. u \in tasks \/ (u.approval = t.approval /\ u.outcome = t.outcome)
      BY <1>1, <2>1 DEF TypeInv, TypeOK, Tasks
    <2> QED BY <1>2, <1>4, <2>2
  <1>9. ASSUME NEW t \in tasks, FinalizeRaises(t)
        PROVE  Why
    <2>1. PICK v \in tasks : u = IF v.worker = t.worker
                                 THEN [v EXCEPT !.awaited = FALSE] ELSE v
      BY <1>9 DEF FinalizeRaises
    <2>2. u.approval = v.approval /\ u.outcome = v.outcome
      BY <1>1, <2>1 DEF TypeInv, TypeOK, Tasks
    <2> QED BY <1>2, <1>4, <2>2
  <1>10. ASSUME NEW w \in Workers, NEW batch \in SUBSET Approvals,
                Claim(w, batch)
         PROVE  Why
    <2>1. u \in tasks \/ \E a \in batch : u = NewTask(w, a)
      BY <1>10 DEF Claim
    <2>2. \A a \in batch : NewTask(w, a).outcome # "ok"
      BY DEF NewTask
    <2> QED BY <1>2, <1>4, <2>1, <2>2
  <1>11. ASSUME tasks' \subseteq tasks
         PROVE  Why
    BY <1>2, <1>4, <1>11
  <1> SUFFICES Why
    OBVIOUS
  <1> HIDE DEF Why
  <1>12. CASE ApiNext \/ ClockNext \/ WorkflowNext
              \/ \E w \in Workers : WorkerCrash(w)
    <2>1. tasks' \subseteq tasks
      BY <1>12 DEF ApiNext, BeginDecision, RepeatDecision, DenyByPolicy,
            SignalNow, CommitDecision, AbortDecision, ClockNext,
            LeaseExpires, RetryDue, WorkflowNext, StartWorkflow,
            CancelWorkflow, AcceptDecision, CompleteWorkflow, LegacySignal,
            LateArrival, WorkerCrash, workerVars
    <2> QED BY <1>11, <2>1
  <1>13. ASSUME NEW t \in tasks, Deliver(t)
         PROVE  Why
    BY <1>5, <1>6, <1>7, <1>8, <1>11, <1>13 DEF Deliver, Finalize
  <1> QED BY <1>9, <1>10, <1>12, <1>13 DEF Next, WorkerNext

\* A row is marked delivered by the finalization of a delivery that is done.
LEMMA DeliveredSources ==
    ASSUME TypeInv, Next, NEW a \in Approvals,
           outbox'[a] # NoRow, outbox'[a].status = "delivered"
    PROVE  \/ outbox'[a] = outbox[a]
           \/ outbox[a] # NoRow /\ \E t \in tasks : t.outcome = "ok" /\ t.approval = a
  <1>1. TypeInv
    OBVIOUS
  <1>2. outbox'[a] # NoRow /\ outbox'[a].status = "delivered"
    OBVIOUS
  <1>4. ASSUME NEW t \in tasks, HoldsClaim(t), t.approval = a,
               outbox'[a] = [outbox[a] EXCEPT !.status = NewStatus(t),
                                     !.token = 0,
                                     !.due = (NewStatus(t) # "pending"),
                                     !.leaseLive = FALSE]
        PROVE  outbox[a] # NoRow /\ \E v \in tasks : v.outcome = "ok" /\ v.approval = a
    <2>1. outbox[a] # NoRow /\ outbox[a] \in Rows
      BY <1>1, <1>4, TaskFacts
    <2>2. outbox'[a].status = NewStatus(t)
      BY <1>4, <2>1 DEF Rows
    <2>3. t.outcome = "ok"
      BY <1>2, <2>2 DEF NewStatus
    <2> QED BY <1>4, <2>1, <2>3
  <1>5. ASSUME NEW h \in Handlers,
               outbox'[a] = Fresh(Event(a, handler[h].req, handler[h].at))
        PROVE  FALSE
    BY <1>2, <1>5 DEF Fresh
  <1>6. ASSUME NEW w \in Workers, NEW batch \in SUBSET Approvals,
               Claim(w, batch), a \in batch,
               outbox'[a] = [outbox[a] EXCEPT !.status = "dispatching",
                                     !.attempt = outbox[a].attempt + 1,
                                     !.token = outbox[a].attempt + 1,
                                     !.leaseLive = TRUE]
        PROVE  FALSE
    <2>1. outbox[a] \in Rows
      BY <1>1, <1>6, RowIsRow DEF Claim, Claimable, TypeInv
    <2>2. outbox'[a].status = "dispatching"
      BY <1>6, <2>1 DEF Rows
    <2> QED BY <1>2, <2>2
  <1>7. ASSUME \/ LeaseExpires(a) /\ outbox'[a] = [outbox[a] EXCEPT
                                                       !.leaseLive = FALSE]
               \/ RetryDue(a) /\ outbox'[a] = [outbox[a] EXCEPT !.due = TRUE]
        PROVE  FALSE
    <2>1. /\ outbox[a] \in Rows
          /\ outbox[a].status \in {"dispatching", "pending"}
      BY <1>1, <1>7, RowIsRow DEF LeaseExpires, RetryDue, TypeInv
    <2>2. outbox'[a].status = outbox[a].status
      BY <1>7, <2>1 DEF Rows
    <2> QED BY <1>2, <2>1, <2>2
  <1> QED BY <1>1, <1>4, <1>5, <1>6, <1>7, RowSteps

(***************************************************************************)
(* Any number of senders.                                                  *)
(***************************************************************************)

LEMMA RangeKept ==
    ASSUME NEW S, NEW q \in Seq(S), NEW e \in S, NEW x \in Range(q)
    PROVE  x \in Range(Append(q, e)) /\ (x = Head(q) \/ x \in Range(Tail(q)))
  <1>1. Len(q) \in Nat /\ DOMAIN q = 1 .. Len(q)
    OBVIOUS
  <1>2. PICK i \in DOMAIN q : x = q[i]
    BY DEF Range
  <1>3. x \in Range(Append(q, e))
    <2>1. i \in DOMAIN Append(q, e) /\ Append(q, e)[i] = x
      BY <1>1, <1>2
    <2> QED BY <2>1 DEF Range
  <1>4. CASE i = 1
    BY <1>1, <1>2, <1>3, <1>4
  <1>5. CASE i # 1
    <2>1. /\ i - 1 \in 1 .. (Len(q) - 1) /\ Len(q) > 0
          /\ Tail(q) \in Seq(S) /\ Len(Tail(q)) = Len(q) - 1
      BY <1>1, <1>2, <1>5
    <2>2. i - 1 \in DOMAIN Tail(q) /\ Tail(q)[i - 1] = q[i]
      BY <1>1, <1>2, <2>1
    <2> QED BY <1>2, <1>3, <2>2 DEF Range
  <1> QED BY <1>4, <1>5

\* What a workflow has seen stays with it, unless it is cancelled.
LEMMA SeenStays ==
    ASSUME TypeInv, Next, NEW f \in Workflows, NEW e \in SignalsSeen(f), e \in AnyEvent
    PROVE  e \in SignalsSeen(f)' \/ wf'[f].status = "cancelled"
  <1> DEFINE Of(s) == Range(s.queue) \cup s.conflicts \cup
                      (IF s.decision = NoEvent THEN {} ELSE {s.decision})
  <1>1. SignalsSeen(f)' = Of(wf'[f]) /\ e \in Of(wf[f])
    BY DEF SignalsSeen
  <1>2. wf[f] \in WorkflowStates /\ e # NoEvent
    BY DEF TypeInv, TypeOK, NoEvent, AnyEvent, Events, LegacyEvents
  <1>3. CASE wf'[f] = wf[f]
    BY <1>1, <1>3
  <1>4. CASE \/ wf'[f] = [wf[f] EXCEPT !.status = "running"]
             \/ wf'[f] = [wf[f] EXCEPT !.status = "completed"]
    <2>1. /\ wf'[f].queue = wf[f].queue
          /\ wf'[f].conflicts = wf[f].conflicts
          /\ wf'[f].decision = wf[f].decision
      BY <1>2, <1>4 DEF WorkflowStates
    <2> QED BY <1>1, <2>1
  <1>5. CASE wf'[f] = [wf[f] EXCEPT !.status = "cancelled", !.queue = <<>>]
    BY <1>2, <1>5 DEF WorkflowStates
  <1>6. ASSUME NEW x, Sent(f, x),
               wf'[f] = [wf[f] EXCEPT !.queue = Append(wf[f].queue, x)]
        PROVE  e \in SignalsSeen(f)'
    <2>1. wf[f].queue \in Seq(AnyEvent) /\ x \in AnyEvent
      BY <1>2, <1>6 DEF WorkflowStates, Sent
    <2>2. /\ wf'[f].queue = Append(wf[f].queue, x)
          /\ wf'[f].conflicts = wf[f].conflicts
          /\ wf'[f].decision = wf[f].decision
      BY <1>2, <1>6 DEF WorkflowStates
    <2>3. e \in Range(wf[f].queue) => e \in Range(Append(wf[f].queue, x))
      BY <2>1, RangeKept
    <2> QED BY <1>1, <2>2, <2>3
  <1>7. CASE /\ wf[f].queue # <<>>
             /\ wf'[f] = [Accept(wf[f], Head(wf[f].queue)) EXCEPT
                             !.queue = Tail(@)]
    <2> DEFINE x == Head(wf[f].queue)
               s == Accept(wf[f], x)
    <2>1. /\ s.queue = wf[f].queue
          /\ wf[f].decision = NoEvent => s.decision = x
          /\ wf[f].decision # NoEvent =>
                /\ s.decision = wf[f].decision
                /\ x = s.decision \/ x \in s.conflicts
          /\ wf[f].conflicts \subseteq s.conflicts
          /\ s \in [status : {"absent", "running", "completed", "cancelled"},
                    decision : {s.decision}, queue : {s.queue},
                    conflicts : {s.conflicts}]
      BY <1>2 DEF Accept, WorkflowStates
    <2> HIDE DEF s
    <2>2. /\ wf'[f].queue = Tail(wf[f].queue)
          /\ wf'[f].conflicts = s.conflicts
          /\ wf'[f].decision = s.decision
      BY <1>7, <2>1 DEF s
    <2>3. e \in Range(wf[f].queue) => e = x \/ e \in Range(Tail(wf[f].queue))
      BY <1>2, RangeKept DEF WorkflowStates
    <2> HIDE DEF x
    <2> QED BY <1>1, <1>2, <2>1, <2>2, <2>3
  <1> HIDE DEF Of
  <1> QED BY <1>3, <1>4, <1>5, <1>6, <1>7, WorkflowSteps

\* The decision of a row has arrived at its workflow.
Arrived(a) ==
    \/ outbox[a].event \in SignalsSeen(WorkflowOf[a])
    \/ wf[WorkflowOf[a]].status = "cancelled"

DoneHasArrived == \A t \in tasks : t.outcome = "ok" => Arrived(t.approval)

ArrivalInv == DecisionInv /\ DoneHasArrived /\ DeliveredWasSeen

LEMMA ArrivedStays ==
    ASSUME DecisionInv, Next, NEW a \in Approvals, outbox[a] # NoRow, Arrived(a)
    PROVE  Arrived(a)'
  <1>1. TypeInv /\ LockInv /\ RowInv
    BY DEF DecisionInv
  <1>2. /\ WorkflowOf[a] \in Workflows
        /\ outbox'[a].event = outbox[a].event
    BY <1>1, ApprovalAssumption, RowStep
  <1>3. CASE wf[WorkflowOf[a]].status = "cancelled"
    BY <1>1, <1>2, <1>3, FirstWriteStep DEF Arrived
  <1>4. CASE outbox[a].event \in SignalsSeen(WorkflowOf[a])
    <2>1. outbox[a] \in Rows
      BY <1>1, RowIsRow DEF TypeInv
    <2>2. outbox[a].event \in AnyEvent
      BY <2>1 DEF Rows, AnyEvent
    <2> QED BY <1>1, <1>2, <1>4, <2>2, SeenStays DEF Arrived
  <1> QED BY <1>3, <1>4 DEF Arrived

LEMMA ArrivalStep ==
    ASSUME ArrivalInv, Next PROVE DoneHasArrived' /\ DeliveredWasSeen'
  <1>1. DecisionInv /\ TypeInv
    BY DEF ArrivalInv, DecisionInv
  <1>2. ASSUME NEW t \in tasks, Arrived(t.approval) PROVE Arrived(t.approval)'
    BY <1>1, <1>2, TaskFacts, ArrivedStays
  <1>3. ASSUME NEW t \in tasks, SignalDelivered(t) PROVE Arrived(t.approval)'
    <2> DEFINE f == WorkflowOf[t.approval]
               e == outbox[t.approval].event
    <2>1. /\ f \in Workflows /\ e \in AnyEvent /\ outbox' = outbox
          /\ wf[f] \in WorkflowStates
      BY <1>1, <1>3, TaskFacts DEF SignalDelivered, TypeInv, TypeOK, AnyEvent
    <2>2. wf'[f] = [wf[f] EXCEPT !.queue = Append(wf[f].queue, e)]
      BY <1>1, <1>3, <2>1 DEF SignalDelivered, Buffered, TypeInv, TypeOK
    <2> HIDE DEF f, e
    <2>3. wf[f].queue \in Seq(AnyEvent) /\ wf'[f].queue = Append(wf[f].queue, e)
      BY <2>1, <2>2 DEF WorkflowStates
    <2>4. e \in Range(wf'[f].queue)
      <3> DEFINE q == wf[f].queue
      <3>1. Append(q, e)[Len(q) + 1] = e /\ Len(q) + 1 \in DOMAIN Append(q, e)
        BY <2>1, <2>3
      <3> QED BY <2>3, <3>1 DEF Range
    <2> QED BY <2>1, <2>4 DEF Arrived, SignalsSeen, f, e
  <1>4. ASSUME NEW t \in tasks, Reconcile(t), Reconciliation(t) = "ok"
        PROVE  Arrived(t.approval)'
    <2>1. outbox[t.approval].event # NoEvent
      BY <1>1, TaskFacts DEF Events, NoEvent
    <2>2. Arrived(t.approval)
      BY <1>4, <2>1 DEF Reconciliation, Arrived, SignalsSeen
    <2> QED BY <1>2, <2>2
  <1>5. ASSUME NEW u \in tasks', u.outcome = "ok" PROVE Arrived(u.approval)'
    <2>1. \A v \in tasks : v.outcome = "ok" => Arrived(v.approval)
      BY DEF ArrivalInv, DoneHasArrived
    <2> QED BY <1>1, <1>2, <1>3, <1>4, <1>5, <2>1, DoneSources
  <1>6. ASSUME NEW a \in Approvals, outbox'[a] # NoRow, outbox'[a].status = "delivered"
        PROVE  Arrived(a)'
    <2>1. CASE outbox'[a] = outbox[a]
      <3>1. Arrived(a)
        BY <1>6, <2>1 DEF ArrivalInv, DeliveredWasSeen, HasRow, RowStatus, Arrived
      <3> QED BY <1>1, <1>6, <2>1, <3>1, ArrivedStays
    <2>2. ASSUME outbox[a] # NoRow, NEW t \in tasks, t.outcome = "ok", t.approval = a
          PROVE  Arrived(a)'
      <3>1. Arrived(a)
        BY <2>2 DEF ArrivalInv, DoneHasArrived
      <3> QED BY <1>1, <2>2, <3>1, ArrivedStays
    <2> QED BY <1>1, <1>6, <2>1, <2>2, DeliveredSources
  <1>7. DeliveredWasSeen'
    BY <1>6 DEF DeliveredWasSeen, HasRow, RowStatus, Arrived
  <1> QED BY <1>5, <1>7 DEF DoneHasArrived

\* However many senders compete for a workflow, a decision whose row is marked
\* delivered has reached it: complete_approval_decision_outbox follows a signal
\* the server took, or a result that is this very decision.
THEOREM DeliveryIsSeen == Spec => []DeliveredWasSeen
  <1>1. Init => ArrivalInv
    BY DecisionInvariant DEF Init, ArrivalInv, DoneHasArrived, DeliveredWasSeen, HasRow
  <1>2. ASSUME ArrivalInv, [Next]_vars PROVE ArrivalInv'
    <2>1. DecisionInv'
      BY <1>2, DecisionInvariant DEF ArrivalInv
    <2>2. CASE Next
      BY <1>2, <2>1, <2>2, ArrivalStep DEF ArrivalInv
    <2>3. CASE UNCHANGED vars
      BY <1>2, <2>1, <2>3 DEF ArrivalInv, DoneHasArrived, DeliveredWasSeen, Arrived,
            SignalsSeen, HasRow, RowStatus, vars
    <2> QED BY <1>2, <2>2, <2>3
  <1>3. ArrivalInv => DeliveredWasSeen
    BY DEF ArrivalInv
  <1> QED BY <1>1, <1>2, <1>3, PTL DEF Spec

\* A signal is no newer than the last transaction of its approval; one of that
\* transaction carries what it decided, or is about to decide.
Timely(e) ==
    /\ e.at <= tries[e.approval]
    /\ e.at = tries[e.approval] =>
          /\ record[e.approval] # NoDecision => e.req = record[e.approval]
          /\ \A h \in Handlers :
                handler[h] # Idle /\ handler[h].approval = e.approval => e.req = handler[h].req

TimelySignals ==
    /\ \A f \in Workflows : \A e \in SignalsSeen(f) \cup net : e \in Events => Timely(e)
    /\ \A a \in Approvals : outbox[a] # NoRow => Timely(outbox[a].event)

TimeInv == DecisionInv /\ TimelySignals

\* A transaction opened later is newer than every signal sent so far.
LEMMA TimelyStays ==
    ASSUME DecisionInv, Next, NEW e \in Events, Timely(e) PROVE Timely(e)'
  <1>1. /\ TypeOK /\ LockInv /\ TypeInv
        /\ e.approval \in Approvals /\ e.at \in Nat /\ tries[e.approval] \in Nat
    BY DEF DecisionInv, TypeInv, TypeOK, Events
  <1>2. ASSUME NEW h \in Handlers, NEW a \in Approvals, NEW req \in Requests,
               BeginDecision(h, a, req)
        PROVE  Timely(e)'
    <2> DEFINE tx == [pc |-> "deciding", approval |-> a, req |-> req,
                      at |-> tries[a] + 1]
    <2>1. /\ handler' = [handler EXCEPT ![h] = tx]
          /\ tries' = [tries EXCEPT ![a] = tries[a] + 1]
          /\ record' = record
      BY <1>2 DEF BeginDecision
    <2>2. tx.approval = a
      OBVIOUS
    <2>3. CASE a = e.approval
      <3>1. tries'[e.approval] = tries[e.approval] + 1
        BY <1>1, <2>1, <2>3 DEF TypeOK
      <3>2. e.at <= tries'[e.approval] /\ e.at # tries'[e.approval]
        BY <1>1, <3>1 DEF Timely
      <3> QED BY <3>2 DEF Timely
    <2>4. CASE a # e.approval
      <3>1. tries'[e.approval] = tries[e.approval]
        BY <1>1, <2>1, <2>4 DEF TypeOK
      <3>2. \A g \in Handlers : handler'[g] # Idle /\ handler'[g].approval = e.approval
                                   => handler'[g] = handler[g]
        BY <1>1, <2>1, <2>2, <2>4 DEF TypeOK
      <3> QED BY <2>1, <3>1, <3>2 DEF Timely
    <2> QED BY <2>3, <2>4
  <1>3. ASSUME NEW h \in Handlers,
               DenyByPolicy(h) \/ AbortDecision(h)
        PROVE  Timely(e)'
    <2>1. /\ handler' = [handler EXCEPT ![h] = Idle]
          /\ tries' = tries /\ record' = record
      BY <1>3 DEF DenyByPolicy, AbortDecision
    <2>2. \A g \in Handlers : handler'[g] # Idle => handler'[g] = handler[g]
      BY <1>1, <2>1 DEF TypeOK
    <2> QED BY <2>1, <2>2 DEF Timely
  <1>4. ASSUME NEW h \in Handlers, SignalNow(h) PROVE Timely(e)'
    <2>1. /\ handler' = [handler EXCEPT ![h].pc = "signalled"]
          /\ tries' = tries /\ record' = record /\ handler[h] # Idle
          /\ handler[h] \in Transactions
      BY <1>1, <1>4 DEF SignalNow, TypeOK
    <2>2. handler' = [handler EXCEPT ![h] = [handler[h] EXCEPT !.pc = "signalled"]]
      BY <2>1
    <2>3. /\ [handler[h] EXCEPT !.pc = "signalled"].approval = handler[h].approval
          /\ [handler[h] EXCEPT !.pc = "signalled"].req = handler[h].req
      BY <2>1 DEF Transactions
    <2>4. \A g \in Handlers : handler'[g] # Idle =>
             /\ handler[g] # Idle
             /\ handler'[g].approval = handler[g].approval /\ handler'[g].req = handler[g].req
      BY <1>1, <2>1, <2>2, <2>3 DEF TypeOK
    <2> QED BY <2>1, <2>4 DEF Timely
  <1>5. ASSUME NEW h \in Handlers, CommitDecision(h) PROVE Timely(e)'
    <2>1. /\ handler' = [handler EXCEPT ![h] = Idle]
          /\ tries' = tries /\ handler[h] # Idle
          /\ record' = [record EXCEPT ![handler[h].approval] = handler[h].req]
      BY <1>5 DEF CommitDecision
    <2>2. \A g \in Handlers : handler'[g] # Idle => handler'[g] = handler[g]
      BY <1>1, <2>1 DEF TypeOK
    <2>3. \/ record'[e.approval] = record[e.approval]
          \/ handler[h].approval = e.approval /\ record'[e.approval] = handler[h].req
      BY <1>1, <2>1 DEF TypeOK
    <2> QED BY <2>1, <2>2, <2>3 DEF Timely
  <1>6. ASSUME UNCHANGED <<record, tries, handler>> PROVE Timely(e)'
    BY <1>6 DEF Timely
  <1>7. ASSUME NEW h \in Handlers, NEW a \in Approvals, NEW req \in Requests,
               RepeatDecision(h, a, req)
        PROVE  Timely(e)'
    BY <1>6, <1>7 DEF RepeatDecision
  <1>8. CASE ApiNext
    BY <1>2, <1>3, <1>4, <1>5, <1>7, <1>8 DEF ApiNext
  <1> QED BY <1>6, <1>8, ApiUnchanged DEF Next

\* The signal of an open transaction is the newest of its approval.
LEMMA OpenIsTimely ==
    ASSUME DecisionInv, NEW h \in Handlers, handler[h] # Idle, NEW e,
           e = Event(handler[h].approval, handler[h].req, handler[h].at)
    PROVE  e \in Events /\ Timely(e)
  <1>1. /\ handler[h] \in Transactions
        /\ record[handler[h].approval] = NoDecision
        /\ handler[h].at = tries[handler[h].approval]
    BY DEF DecisionInv, TypeInv, TypeOK, LockInv
  <1>2. handler[h].at \in Nat
    BY <1>1 DEF Transactions
  <1>3. /\ e \in Events /\ e.approval = handler[h].approval
        /\ e.req = handler[h].req /\ e.at = handler[h].at
    BY <1>1, EventType DEF Event, Transactions
  <1>4. \A g \in Handlers : handler[g] # Idle /\ handler[g].approval = e.approval => g = h
    BY <1>3 DEF DecisionInv, LockInv
  <1> QED BY <1>1, <1>2, <1>3, <1>4 DEF Timely

LEMMA TimelyStep ==
    ASSUME TimeInv, Next PROVE TimelySignals'
  <1>1. DecisionInv /\ TypeInv /\ LockInv /\ RowInv
    BY DEF TimeInv, DecisionInv
  <1>2. ASSUME NEW t \in tasks
        PROVE  outbox[t.approval].event \in Events /\ Timely(outbox[t.approval].event)
    BY <1>1, TaskFacts DEF TimeInv, TimelySignals
  <1>3. ASSUME NEW e, OpenEvent(e) PROVE e \in Events /\ Timely(e)
    BY <1>1, <1>3, OpenIsTimely DEF OpenEvent
  <1>4. ASSUME NEW f \in Workflows, NEW e \in SignalsSeen(f) \cup net, e \in Events
        PROVE  Timely(e)
    BY <1>4 DEF TimeInv, TimelySignals
  <1>5. ASSUME NEW f \in Workflows, NEW e \in (SignalsSeen(f) \cup net)', e \in Events
        PROVE  Timely(e)'
    <2>1. e \notin LegacyEvents
      BY <1>5 DEF Events, LegacyEvents
    <2>2. \/ e \in SignalsSeen(f) \cup net
          \/ \E t \in tasks : e = outbox[t.approval].event
          \/ OpenEvent(e)
      <3>1. CASE e \in SignalsSeen(f)'
        BY <1>1, <2>1, <3>1, SeenStep DEF Sent
      <3>2. CASE e \in net'
        BY <1>1, <3>2, NetStep
      <3> QED BY <1>5, <3>1, <3>2
    <2>3. Timely(e)
      BY <1>2, <1>3, <1>4, <1>5, <2>2
    <2> QED BY <1>1, <1>5, <2>3, TimelyStays
  <1>6. ASSUME NEW a \in Approvals, outbox'[a] # NoRow PROVE Timely(outbox[a].event)'
    <2>1. CASE outbox[a] # NoRow
      <3>1. PICK e : e = outbox[a].event
        OBVIOUS
      <3>2. outbox'[a].event = e /\ outbox[a] \in Rows
        BY <1>1, <2>1, <3>1, RowStep, RowIsRow DEF TypeInv
      <3>3. e \in Events /\ Timely(e)
        BY <2>1, <3>1, <3>2 DEF Rows, TimeInv, TimelySignals
      <3>4. Timely(e)'
        BY <1>1, <3>3, TimelyStays
      <3> QED BY <3>2, <3>4 DEF Timely
    <2>2. CASE outbox[a] = NoRow
      <3>1. PICK h \in Handlers :
               /\ CommitDecision(h) /\ handler[h].approval = a
               /\ outbox'[a] = Fresh(Event(a, handler[h].req, handler[h].at))
        BY <1>1, <1>6, <2>2, RowSteps, TaskFacts DEF Claim, Claimable, LeaseExpires, RetryDue
      <3>2. PICK e : e = Event(handler[h].approval, handler[h].req, handler[h].at)
        OBVIOUS
      <3>3. e \in Events /\ Timely(e)
        BY <1>1, <3>1, <3>2, OpenIsTimely DEF CommitDecision
      <3>4. Timely(e)' /\ outbox'[a].event = e
        BY <1>1, <3>1, <3>2, <3>3, TimelyStays DEF Fresh
      <3> QED BY <3>4 DEF Timely
    <2> QED BY <2>1, <2>2
  <1>7. (\A a \in Approvals : outbox[a] # NoRow => Timely(outbox[a].event))'
    BY <1>6
  <1> QED BY <1>5, <1>7 DEF TimelySignals

\* In either mode nothing is signalled for an approval after its decision was
\* committed, and what its last transaction signalled is what it recorded: the
\* advisory lock keeps a second transaction of record_demo_approval_decision
\* out until the first has ended.
THEOREM LastSignalMatches == Spec => []LastSignalMatchesRecord
  <1>1. Init => TimeInv
    BY DecisionInvariant DEF Init, TimeInv, TimelySignals, SignalsSeen, Range
  <1>2. ASSUME TimeInv, [Next]_vars PROVE TimeInv'
    <2>1. DecisionInv'
      BY <1>2, DecisionInvariant DEF TimeInv
    <2>2. CASE Next
      BY <1>2, <2>1, <2>2, TimelyStep DEF TimeInv
    <2>3. CASE UNCHANGED vars
      BY <1>2, <2>1, <2>3 DEF TimeInv, TimelySignals, Timely, SignalsSeen, vars
    <2> QED BY <1>2, <2>2, <2>3
  <1>3. ASSUME TimeInv PROVE LastSignalMatchesRecord
    <2>1. TypeOK
      BY <1>3 DEF TimeInv, DecisionInv, TypeInv
    <2>2. ASSUME NEW f \in Workflows, NEW e \in SignalsSeen(f) \cup net, e.kind # "legacy"
          PROVE  e \in Events
      <3>1. wf[f] \in WorkflowStates /\ net \subseteq Events
        BY <2>1 DEF TypeOK
      <3>2. Range(wf[f].queue) \subseteq AnyEvent
        BY <3>1 DEF WorkflowStates, Range
      <3>3. /\ wf[f].conflicts \subseteq AnyEvent
            /\ wf[f].decision \in AnyEvent \cup {NoEvent}
        BY <3>1 DEF WorkflowStates
      <3>4. e \in AnyEvent
        BY <3>1, <3>2, <3>3 DEF SignalsSeen, AnyEvent
      <3> QED BY <2>2, <3>4 DEF AnyEvent, LegacyEvents
    <2> QED BY <1>3, <2>2 DEF TimeInv, TimelySignals, Timely, LastSignalMatchesRecord, Decided
  <1> QED BY <1>1, <1>2, <1>3, PTL DEF Spec

(***************************************************************************)
(* One workflow per approval.                                              *)
(***************************************************************************)

\* Every signal a workflow sees is an outbox signal of its own approval.
OwnSignals ==
    /\ \A f \in Workflows : \A e \in SignalsSeen(f) :
          /\ e.kind = "outbox"
          /\ e.approval \in Approvals
          /\ WorkflowOf[e.approval] = f
    /\ \A e \in net : e.kind = "outbox"

\* A delivery that counts as done has taken effect.
TakesEffect(a) ==
    \/ Effective(WorkflowOf[a]) = outbox[a].event
    \/ wf[WorkflowOf[a]].status = "cancelled"

DoneIsEffective ==
    \A t \in tasks : t.outcome = "ok" => TakesEffect(t.approval)

OwnInv ==
    /\ PhantomInv
    /\ OwnSignals
    /\ RetriesNeverConflict
    /\ DoneIsEffective
    /\ DeliveredIsEffective

LEMMA OwnStep ==
    ASSUME OwnWorkflows, PhantomInv, OwnSignals, Next
    PROVE  OwnSignals'
  <1>1. TypeInv /\ RowInv
    BY DEF PhantomInv, DecisionInv
  <1>2. OutboxEnabled /\ ~LegacySenders
    BY DEF OwnWorkflows
  <1>3. ASSUME NEW t \in tasks
        PROVE  /\ outbox[t.approval].event.kind = "outbox"
               /\ outbox[t.approval].event.approval = t.approval
               /\ t.approval \in Approvals
    BY <1>1, TaskFacts DEF RowInv
  <1>4. ASSUME NEW e \in net'
        PROVE  e.kind = "outbox"
    BY <1>1, <1>2, <1>3, NetStep DEF OwnSignals
  <1>5. ASSUME NEW f \in Workflows, NEW e \in SignalsSeen(f)'
        PROVE  /\ e.kind = "outbox"
               /\ e.approval \in Approvals
               /\ WorkflowOf[e.approval] = f
    <2>1. CASE e \in SignalsSeen(f)
      BY <2>1 DEF OwnSignals
    <2>2. CASE Sent(f, e)
      <3>1. CASE e \in net /\ WorkflowOf[e.approval] = f
        BY <1>1, <3>1 DEF OwnSignals, TypeInv, TypeOK, Events
      <3>2. ASSUME NEW t \in tasks, WorkflowOf[t.approval] = f,
                   e = outbox[t.approval].event
            PROVE  /\ e.kind = "outbox"
                   /\ e.approval \in Approvals
                   /\ WorkflowOf[e.approval] = f
        BY <1>3, <3>2
      <3> QED BY <1>2, <2>2, <3>1, <3>2 DEF Sent
    <2> QED BY <1>1, <2>1, <2>2, SeenStep
  <1> QED BY <1>4, <1>5 DEF OwnSignals

\* All the signals of a workflow are the same one.
LEMMA OneSignal ==
    ASSUME OwnWorkflows, NoPhantomDecision, OwnSignals, NEW f \in Workflows,
           NEW d \in SignalsSeen(f), NEW e \in SignalsSeen(f)
    PROVE  d = e
  <1>1. d.approval = e.approval
    BY DEF OwnSignals, OwnWorkflows
  <1>2. /\ outbox[d.approval].event = d
        /\ outbox[e.approval].event = e
    BY DEF OwnSignals, NoPhantomDecision
  <1> QED BY <1>1, <1>2

LEMMA EffectiveIsSeen ==
    ASSUME TypeInv, NEW f \in Workflows
    PROVE  /\ Effective(f) # NoEvent => Effective(f) \in SignalsSeen(f)
           /\ wf[f].queue # <<>> => Effective(f) # NoEvent
           /\ wf[f].queue # <<>> => Head(wf[f].queue) \in SignalsSeen(f)
  <1>1. wf[f] \in WorkflowStates
    BY DEF TypeInv, TypeOK
  <1>2. wf[f].queue \in Seq(AnyEvent)
    BY <1>1 DEF WorkflowStates
  <1>3. wf[f].queue # <<>> => /\ Head(wf[f].queue) \in Range(wf[f].queue)
                              /\ Head(wf[f].queue) \in AnyEvent
    BY <1>2, RangeTail
  <1>4. NoEvent \notin AnyEvent
    BY DEF NoEvent, AnyEvent, Events, LegacyEvents
  <1> QED BY <1>3, <1>4 DEF Effective, SignalsSeen

LEMMA ConflictStep ==
    ASSUME OwnWorkflows, PhantomInv, OwnSignals, RetriesNeverConflict, Next
    PROVE  RetriesNeverConflict'
  <1>1. SUFFICES ASSUME NEW f \in Workflows
                 PROVE  wf'[f].conflicts = {}
    BY DEF RetriesNeverConflict
  <1>2. TypeInv /\ NoPhantomDecision
    BY DEF PhantomInv, DecisionInv
  <1>3. wf[f] \in WorkflowStates /\ wf[f].conflicts = {}
    BY <1>2 DEF TypeInv, TypeOK, RetriesNeverConflict
  <1>4. CASE /\ wf[f].queue # <<>>
             /\ wf'[f] = [Accept(wf[f], Head(wf[f].queue)) EXCEPT
                             !.queue = Tail(@)]
    <2>1. Head(wf[f].queue) \in SignalsSeen(f)
      BY <1>2, <1>4, EffectiveIsSeen
    <2>2. wf[f].decision # NoEvent => wf[f].decision \in SignalsSeen(f)
      BY DEF SignalsSeen
    <2>3. wf[f].decision # NoEvent => wf[f].decision = Head(wf[f].queue)
      BY <1>2, <2>1, <2>2, OneSignal
    <2>4. Accept(wf[f], Head(wf[f].queue)).conflicts = {}
      BY <1>3, <2>3 DEF Accept, WorkflowStates
    <2>5. \/ Accept(wf[f], Head(wf[f].queue)) = wf[f]
          \/ Accept(wf[f], Head(wf[f].queue))
                = [wf[f] EXCEPT !.decision = Head(wf[f].queue)]
      BY <2>3 DEF Accept
    <2> QED BY <1>3, <1>4, <2>4, <2>5 DEF WorkflowStates
  <1>5. CASE \/ wf'[f] = wf[f]
             \/ wf'[f] = [wf[f] EXCEPT !.status = "running"]
             \/ wf'[f] = [wf[f] EXCEPT !.status = "completed"]
             \/ wf'[f] = [wf[f] EXCEPT !.status = "cancelled", !.queue = <<>>]
             \/ \E e : wf'[f] = [wf[f] EXCEPT
                                   !.queue = Append(wf[f].queue, e)]
    BY <1>3, <1>5 DEF WorkflowStates
  <1> QED BY <1>2, <1>4, <1>5, WorkflowSteps

\* What a workflow does first does not change, unless it is cancelled.
LEMMA EffectiveStep ==
    ASSUME TypeInv, Next, NEW f \in Workflows, Effective(f) # NoEvent
    PROVE  Effective(f)' = Effective(f) \/ wf'[f].status = "cancelled"
  <1>1. wf[f] \in WorkflowStates
    BY DEF TypeInv, TypeOK
  <1>2. wf[f].queue \in Seq(AnyEvent)
    BY <1>1 DEF WorkflowStates
  <1>3. CASE wf'[f] = wf[f]
    BY <1>3 DEF Effective
  <1>4. CASE \/ wf'[f] = [wf[f] EXCEPT !.status = "running"]
             \/ wf'[f] = [wf[f] EXCEPT !.status = "completed"]
    <2>1. wf'[f].queue = wf[f].queue /\ wf'[f].decision = wf[f].decision
      BY <1>1, <1>4 DEF WorkflowStates
    <2> QED BY <2>1 DEF Effective
  <1>5. CASE wf'[f] = [wf[f] EXCEPT !.status = "cancelled", !.queue = <<>>]
    BY <1>1, <1>5 DEF WorkflowStates
  <1>6. ASSUME NEW e, Sent(f, e),
               wf'[f] = [wf[f] EXCEPT !.queue = Append(wf[f].queue, e)]
        PROVE  Effective(f)' = Effective(f)
    <2>1. /\ wf'[f].queue = Append(wf[f].queue, e)
          /\ wf'[f].decision = wf[f].decision
      BY <1>1, <1>6 DEF WorkflowStates
    <2>2. e \in AnyEvent
      BY <1>6 DEF Sent
    <2>3. wf[f].queue # <<>> =>
             /\ Append(wf[f].queue, e) # <<>>
             /\ Head(Append(wf[f].queue, e)) = Head(wf[f].queue)
      BY <1>2, <2>2
    <2> QED BY <2>1, <2>3 DEF Effective
  <1>7. CASE /\ wf[f].queue # <<>>
             /\ wf'[f] = [Accept(wf[f], Head(wf[f].queue)) EXCEPT
                             !.queue = Tail(@)]
    <2>1. Head(wf[f].queue) # NoEvent
      <3>1. Head(wf[f].queue) \in AnyEvent
        BY <1>2, <1>7
      <3> QED BY <3>1 DEF NoEvent, AnyEvent, Events, LegacyEvents
    <2>2. wf'[f].decision = IF wf[f].decision = NoEvent
                            THEN Head(wf[f].queue) ELSE wf[f].decision
      BY <1>1, <1>7 DEF Accept, WorkflowStates
    <2> QED BY <1>7, <2>1, <2>2 DEF Effective
  <1> QED BY <1>3, <1>4, <1>5, <1>6, <1>7, WorkflowSteps

\* An effect, once there, stays.
LEMMA EffectStep ==
    ASSUME DecisionInv, Next, NEW a \in Approvals, outbox[a] # NoRow,
           TakesEffect(a)
    PROVE  TakesEffect(a)'
  <1>1. TypeInv /\ LockInv /\ RowInv
    BY DEF DecisionInv
  <1>2. /\ WorkflowOf[a] \in Workflows
        /\ outbox'[a].event = outbox[a].event
    BY <1>1, ApprovalAssumption, RowStep
  <1>3. CASE wf[WorkflowOf[a]].status = "cancelled"
    BY <1>1, <1>2, <1>3, FirstWriteStep DEF TakesEffect
  <1>4. CASE Effective(WorkflowOf[a]) = outbox[a].event
    <2>1. outbox[a] \in Rows
      BY <1>1, RowIsRow DEF TypeInv
    <2>2. outbox[a].event # NoEvent
      BY <2>1 DEF Rows, Events, NoEvent
    <2> QED BY <1>1, <1>2, <1>4, <2>2, EffectiveStep DEF TakesEffect
  <1> QED BY <1>3, <1>4 DEF TakesEffect

\* A signal that was buffered takes effect.
LEMMA SignalTakesEffect ==
    ASSUME OwnWorkflows, OwnInv, PhantomInv', OwnSignals', Next,
           NEW t \in tasks, SignalDelivered(t)
    PROVE  TakesEffect(t.approval)'
  <1> DEFINE f == WorkflowOf[t.approval]
             e == outbox[t.approval].event
  <1>1. TypeInv /\ TypeInv' /\ PhantomInv' /\ OwnSignals'
    BY DEF OwnInv, PhantomInv, DecisionInv
  <1>2. /\ f \in Workflows /\ e \in Events /\ outbox' = outbox
        /\ wf[f] \in WorkflowStates
    BY <1>1, TaskFacts DEF SignalDelivered, TypeInv, TypeOK
  <1>3. wf'[f] = [wf[f] EXCEPT !.queue = Append(wf[f].queue, e)]
    BY <1>1, <1>2 DEF SignalDelivered, Buffered, TypeInv, TypeOK
  <1> HIDE DEF f, e
  <1>4. /\ wf[f].queue \in Seq(AnyEvent) /\ e \in AnyEvent
        /\ wf'[f].queue = Append(wf[f].queue, e)
    BY <1>2, <1>3 DEF WorkflowStates, AnyEvent
  <1>5. wf'[f].queue # <<>> /\ e \in Range(wf'[f].queue)
    <2> DEFINE q == wf[f].queue
    <2>1. Append(q, e)[Len(q) + 1] = e /\ Len(q) + 1 \in DOMAIN Append(q, e)
      BY <1>4
    <2> QED BY <1>4, <2>1 DEF Range
  <1>6. e \in SignalsSeen(f)'
    BY <1>5 DEF SignalsSeen
  <1>7. Effective(f)' \in SignalsSeen(f)'
    <2>1. wf'[f].queue \in Seq(AnyEvent)
      BY <1>4
    <2>2. Head(wf'[f].queue) \in Range(wf'[f].queue)
      BY <1>5, <2>1, RangeTail
    <2> QED BY <1>5, <2>2 DEF Effective, SignalsSeen
  <1>8. Effective(f)' = e
    <2>1. NoPhantomDecision'
      BY <1>1 DEF PhantomInv
    <2>2. (\A d1, d2 \in SignalsSeen(f) : d1 = d2)'
      <3>1. ASSUME NEW d1 \in SignalsSeen(f)', NEW d2 \in SignalsSeen(f)'
            PROVE  d1 = d2
        <4>1. d1.approval = d2.approval
          BY <1>1, <1>2 DEF OwnSignals, OwnWorkflows
        <4>2. /\ outbox'[d1.approval].event = d1
              /\ outbox'[d2.approval].event = d2
          BY <1>1, <1>2, <2>1 DEF OwnSignals, NoPhantomDecision
        <4> QED BY <4>1, <4>2
      <3> QED BY <3>1
    <2> QED BY <1>6, <1>7, <2>2
  <1> QED BY <1>2, <1>8 DEF TakesEffect, f, e

LEMMA DoneStep ==
    ASSUME OwnWorkflows, OwnInv, PhantomInv' /\ OwnSignals', Next
    PROVE  DoneIsEffective'
  <1> USE DEF OwnInv, PhantomInv
  <1>1. TypeInv
    BY DEF DecisionInv
  <1>2. SUFFICES ASSUME NEW u \in tasks', u.outcome = "ok"
                 PROVE  TakesEffect(u.approval)'
    BY DEF DoneIsEffective
  <1>3. ASSUME NEW v \in tasks, TakesEffect(v.approval)
        PROVE  TakesEffect(v.approval)'
    BY <1>1, <1>3, TaskFacts, EffectStep
  <1>4. ASSUME NEW v \in tasks, v.outcome = "ok", u.approval = v.approval
        PROVE  TakesEffect(u.approval)'
    BY <1>3, <1>4 DEF DoneIsEffective
  <1>5. ASSUME NEW t \in tasks, SignalDelivered(t), u.approval = t.approval
        PROVE  TakesEffect(u.approval)'
    BY <1>5, SignalTakesEffect
  <1>6. ASSUME NEW t \in tasks, Reconcile(t), Reconciliation(t) = "ok",
               u.approval = t.approval
        PROVE  TakesEffect(u.approval)'
    <2>1. outbox[t.approval].event # NoEvent
      BY <1>1, TaskFacts DEF Events, NoEvent
    <2>2. TakesEffect(t.approval)
      BY <1>6, <2>1 DEF Reconciliation, TakesEffect, Effective
    <2> QED BY <1>3, <1>6, <2>2
  <1> QED BY <1>1, <1>2, <1>4, <1>5, <1>6, DoneSources

LEMMA DeliveredStep ==
    ASSUME OwnWorkflows, OwnInv, Next
    PROVE  DeliveredIsEffective'
  <1> USE DEF OwnInv, PhantomInv
  <1>1. TypeInv
    BY DEF DecisionInv
  <1>2. SUFFICES ASSUME NEW a \in Approvals,
                        outbox'[a] # NoRow, outbox'[a].status = "delivered"
                 PROVE  TakesEffect(a)'
    BY DEF DeliveredIsEffective, HasRow, RowStatus, TakesEffect
  <1>3. CASE outbox'[a] = outbox[a]
    <2>1. TakesEffect(a)
      BY <1>2, <1>3 DEF DeliveredIsEffective, HasRow, RowStatus, TakesEffect
    <2> QED BY <1>2, <1>3, <2>1, EffectStep
  <1>4. ASSUME outbox[a] # NoRow, NEW t \in tasks, t.outcome = "ok", t.approval = a
        PROVE  TakesEffect(a)'
    <2>1. TakesEffect(a)
      BY <1>4 DEF DoneIsEffective
    <2> QED BY <1>4, <2>1, EffectStep
  <1> QED BY <1>1, <1>2, <1>3, <1>4, DeliveredSources

LEMMA OwnInvariant ==
    ASSUME OwnWorkflows
    PROVE  /\ Init => OwnInv
           /\ OwnInv /\ [Next]_vars => OwnInv'
  <1>1. Init => OwnInv
    BY PhantomInvariant DEF Init, OwnInv, OwnSignals, RetriesNeverConflict,
          DoneIsEffective, DeliveredIsEffective, SignalsSeen, Range, HasRow
  <1>2. ASSUME OwnInv, Next
        PROVE  OwnInv'
    <2>1. PhantomInv' /\ OwnSignals'
      BY <1>2, PhantomInvariant, OwnStep DEF OwnInv
    <2>2. RetriesNeverConflict'
      BY <1>2, ConflictStep DEF OwnInv
    <2>3. DoneIsEffective'
      BY <1>2, <2>1, DoneStep
    <2>4. DeliveredIsEffective'
      BY <1>2, DeliveredStep
    <2> QED BY <2>1, <2>2, <2>3, <2>4 DEF OwnInv
  <1>3. ASSUME OwnInv, UNCHANGED vars
        PROVE  OwnInv'
    <2>1. PhantomInv'
      BY <1>3, PhantomInvariant DEF OwnInv
    <2>2. OwnSignals' /\ RetriesNeverConflict'
      BY <1>3 DEF OwnInv, vars, OwnSignals, SignalsSeen, RetriesNeverConflict
    <2>3. DoneIsEffective' /\ DeliveredIsEffective'
      BY <1>3 DEF OwnInv, vars, DoneIsEffective, DeliveredIsEffective,
                  TakesEffect, Effective, HasRow, RowStatus
    <2> QED BY <2>1, <2>2, <2>3 DEF OwnInv
  <1> QED BY <1>1, <1>2, <1>3

\* With one workflow per approval, a row marked delivered is the decision
\* its workflow acts on, through any number of retries and late signals.
THEOREM DeliveryIsEffective ==
    ASSUME OwnWorkflows
    PROVE  Spec => []DeliveredIsEffective
  <1>1. OwnInv => DeliveredIsEffective
    BY DEF OwnInv
  <1> QED BY <1>1, OwnInvariant, PTL DEF Spec

\* ... and no retry is ever taken for a conflicting decision.
THEOREM NoConflicts ==
    ASSUME OwnWorkflows
    PROVE  Spec => []RetriesNeverConflict
  <1>1. OwnInv => RetriesNeverConflict
    BY DEF OwnInv
  <1> QED BY <1>1, OwnInvariant, PTL DEF Spec

(***************************************************************************)
(* Refinement.                                                             *)
(***************************************************************************)

\* What ApprovalPromise sees of a state.
Effects == [a \in Approvals |-> EffectOf(a)]
OutcomesSeen == [a \in Approvals |-> OutcomeOf(a)]

LEMMA EffectUnchanged ==
    ASSUME wf' = wf
    PROVE  Effects' = Effects
  BY DEF Effects, EffectOf, Effective

LEMMA OutcomeUnchanged ==
    ASSUME outbox' = outbox
    PROVE  OutcomesSeen' = OutcomesSeen
  BY DEF OutcomesSeen, OutcomeOf, HasRow, RowStatus

\* The effect of a decision on its approval: it starts, stays or is cancelled.
LEMMA EffectSteps ==
    ASSUME OwnWorkflows, OwnInv, Next, NEW a \in Approvals
    PROVE  \/ EffectOf(a)' = EffectOf(a)
           \/ EffectOf(a)' = [decision |-> "cancelled"]
           \/ /\ record[a] # NoDecision
              /\ EffectOf(a) = NoDecision
              /\ EffectOf(a)' = record[a]
  <1> DEFINE f == WorkflowOf[a]
  <1> USE DEF OwnInv, PhantomInv
  <1>1. TypeInv /\ RowInv
    BY DEF DecisionInv
  <1>2. f \in Workflows
    BY ApprovalAssumption
  <1>3. wf[f] \in WorkflowStates
    BY <1>1, <1>2 DEF TypeInv, TypeOK
  <1> HIDE DEF f
  <1>4. CASE wf[f].status = "cancelled"
    <2>1. wf'[f] = wf[f]
      BY <1>1, <1>2, <1>4, FirstWriteStep
    <2> QED BY <1>4, <2>1 DEF EffectOf, f
  <1>5. CASE wf'[f].status = "cancelled"
    BY <1>5 DEF EffectOf, f
  <1>6. CASE /\ wf[f].status # "cancelled" /\ wf'[f].status # "cancelled"
             /\ Effective(f) # NoEvent
    <2>1. Effective(f)' = Effective(f)
      BY <1>1, <1>2, <1>6, EffectiveStep
    <2> QED BY <1>6, <2>1 DEF EffectOf, f
  <1>7. CASE /\ wf[f].status # "cancelled" /\ wf'[f].status # "cancelled"
             /\ Effective(f) = NoEvent
    <2>1. EffectOf(a) = NoDecision
      BY <1>7 DEF EffectOf, f
    <2>2. wf[f].decision = NoEvent /\ wf[f].queue = <<>>
      BY <1>1, <1>2, <1>7, EffectiveIsSeen DEF Effective
    <2>3. CASE wf'[f].decision = NoEvent /\ wf'[f].queue = <<>>
      BY <1>7, <2>1, <2>3 DEF EffectOf, Effective, f
    <2>4. ASSUME NEW e, Sent(f, e),
                 wf'[f] = [wf[f] EXCEPT !.queue = Append(wf[f].queue, e)]
          PROVE  /\ record[a] # NoDecision
                 /\ EffectOf(a)' = record[a]
      <3>1. e \in AnyEvent
        BY <2>4 DEF Sent
      <3>2. e # NoEvent
        BY <3>1 DEF AnyEvent, Events, LegacyEvents, NoEvent
      <3>3. wf'[f].decision = NoEvent /\ wf'[f].queue = Append(<<>>, e)
        BY <1>3, <2>2, <2>4 DEF WorkflowStates
      <3>4. Append(<<>>, e) # <<>> /\ Head(Append(<<>>, e)) = e
        BY <3>1
      <3>5. Effective(f)' = e
        BY <3>3, <3>4 DEF Effective
      <3>6. /\ e.kind = "outbox" /\ e.approval \in Approvals
            /\ WorkflowOf[e.approval] = f
            /\ outbox[e.approval] # NoRow /\ outbox[e.approval].event = e
        <4>1. ASSUME NEW t \in tasks, WorkflowOf[t.approval] = f,
                     e = outbox[t.approval].event
              PROVE  /\ e.kind = "outbox" /\ e.approval = t.approval
                     /\ t.approval \in Approvals /\ outbox[t.approval] # NoRow
          BY <1>1, <4>1, TaskFacts DEF RowInv
        <4>2. CASE e \in net /\ WorkflowOf[e.approval] = f
          <5>1. e.kind = "outbox" /\ e.approval \in Approvals
            BY <1>1, <4>2 DEF OwnSignals, TypeInv, TypeOK, Events
          <5>2. HasRow(e.approval) /\ outbox[e.approval].event = e
            BY <1>2, <4>2, <5>1 DEF NoPhantomDecision
          <5> QED BY <4>2, <5>1, <5>2 DEF HasRow
        <4> QED BY <2>4, <4>1, <4>2 DEF Sent, OwnWorkflows
      <3>7. e.approval = a
        BY <3>6 DEF OwnWorkflows, f
      <3>8. record[a] = e.req /\ record[a] # NoDecision
        BY <1>1, <3>6, <3>7 DEF RowInv
      <3> QED BY <1>7, <3>2, <3>5, <3>8 DEF EffectOf, f
    <2>5. CASE \/ wf'[f] = wf[f]
               \/ wf'[f] = [wf[f] EXCEPT !.status = "running"]
               \/ wf'[f] = [wf[f] EXCEPT !.status = "completed"]
               \/ wf'[f] = [wf[f] EXCEPT !.status = "cancelled", !.queue = <<>>]
      <3>1. wf'[f].decision = NoEvent /\ wf'[f].queue = <<>>
        BY <1>3, <2>2, <2>5 DEF WorkflowStates
      <3> QED BY <2>3, <3>1
    <2> QED BY <1>1, <1>2, <2>1, <2>2, <2>4, <2>5, WorkflowSteps
  <1> QED BY <1>4, <1>5, <1>6, <1>7

\* A step changes one workflow at most.
LEMMA OneWorkflow ==
    ASSUME TypeInv, Next
    PROVE  wf' = wf \/ \E f \in Workflows : \A g \in Workflows \ {f} :
                          wf'[g] = wf[g]
  <1>1. ASSUME NEW f, NEW e, wf' = Buffered(f, e)
        PROVE  \A g \in Workflows \ {f} : wf'[g] = wf[g]
    BY <1>1 DEF Buffered, TypeInv, TypeOK
  <1>2. CASE ApiNext
    <2>1. ASSUME NEW h \in Handlers, SignalNow(h)
          PROVE  wf' = wf \/ \E f \in Workflows : \A g \in Workflows \ {f} :
                                wf'[g] = wf[g]
      <3>1. handler[h].approval \in Approvals
        BY <2>1 DEF SignalNow, TypeInv, TypeOK, Transactions
      <3>2. WorkflowOf[handler[h].approval] \in Workflows
        BY <3>1, ApprovalAssumption
      <3> QED BY <1>1, <2>1, <3>2 DEF SignalNow
    <2> QED BY <1>2, <2>1 DEF ApiNext, BeginDecision, RepeatDecision,
          DenyByPolicy, CommitDecision, AbortDecision
  <1>3. CASE WorkerNext \/ ClockNext
    <2>1. ASSUME NEW t \in tasks, SignalDelivered(t)
          PROVE  \E f \in Workflows : \A g \in Workflows \ {f} : wf'[g] = wf[g]
      BY <1>1, <2>1, TaskFacts DEF SignalDelivered
    <2> QED BY <1>3, <2>1 DEF WorkerNext, ClockNext, Claim, Deliver,
          SignalFailed, SignalRejected, Reconcile, ReconcileUnknown,
          Finalize, FinalizeRaises, WorkerCrash, LeaseExpires, RetryDue
  <1>4. CASE WorkflowNext
    <2>1. ASSUME NEW e \in net, LateArrival(e)
          PROVE  wf' = wf \/ \E f \in Workflows : \A g \in Workflows \ {f} :
                                wf'[g] = wf[g]
      <3>1. WorkflowOf[e.approval] \in Workflows
        BY ApprovalAssumption DEF TypeInv, TypeOK, Events
      <3> QED BY <1>1, <2>1, <3>1 DEF LateArrival
    <2>2. ASSUME NEW f \in Workflows,
                 \/ StartWorkflow(f) \/ CancelWorkflow(f)
                 \/ AcceptDecision(f) \/ CompleteWorkflow(f)
          PROVE  \A g \in Workflows \ {f} : wf'[g] = wf[g]
      BY <2>2 DEF StartWorkflow, CancelWorkflow, AcceptDecision,
                  CompleteWorkflow, TypeInv, TypeOK
    <2>3. ASSUME NEW f \in Workflows, NEW e \in LegacyEvents,
                 LegacySignal(f, e)
          PROVE  \A g \in Workflows \ {f} : wf'[g] = wf[g]
      BY <1>1, <2>3 DEF LegacySignal
    <2> QED BY <1>4, <2>1, <2>2, <2>3 DEF WorkflowNext
  <1> QED BY <1>2, <1>3, <1>4 DEF Next

\* The outcome of a row changes only when its claim holder ends it.
LEMMA OutcomeSteps ==
    ASSUME DecisionInv, Next, NEW a \in Approvals
    PROVE  \/ OutcomeOf(a)' = OutcomeOf(a)
           \/ \E t \in tasks :
                 /\ Finalize(t) \/ FinalizeRaises(t)
                 /\ HoldsClaim(t) /\ t.approval = a
                 /\ OutcomeOf(a) = "open"
                 /\ NewStatus(t) \in Terminal
                 /\ OutcomeOf(a)' = NewStatus(t)
  <1>1. TypeInv /\ LockInv /\ RowInv
    BY DEF DecisionInv
  <1> USE DEF OutcomeOf, HasRow, RowStatus
  <1>2. CASE outbox'[a] = outbox[a]
    BY <1>2
  <1>3. ASSUME NEW h \in Handlers, CommitDecision(h),
               handler[h].approval = a,
               outbox'[a] = Fresh(Event(a, handler[h].req, handler[h].at))
        PROVE  OutcomeOf(a)' = OutcomeOf(a)
    <2>1. outbox[a] = NoRow
      BY <1>1, <1>3 DEF CommitDecision, LockInv, RowInv
    <2>2. outbox'[a].status = "pending"
      BY <1>3 DEF Fresh
    <2> QED BY <2>1, <2>2 DEF Terminal
  <1>4. ASSUME NEW w \in Workers, NEW batch \in SUBSET Approvals,
               Claim(w, batch), a \in batch,
               outbox'[a] = [outbox[a] EXCEPT !.status = "dispatching",
                                     !.attempt = outbox[a].attempt + 1,
                                     !.token = outbox[a].attempt + 1,
                                     !.leaseLive = TRUE]
        PROVE  OutcomeOf(a)' = OutcomeOf(a)
    <2>1. /\ outbox[a] \in Rows
          /\ outbox[a].status \in {"pending", "dispatching"}
      BY <1>1, <1>4, RowIsRow DEF Claim, Claimable, TypeInv
    <2>2. outbox'[a].status = "dispatching"
      BY <1>4, <2>1 DEF Rows
    <2> QED BY <2>1, <2>2 DEF Terminal
  <1>5. ASSUME \/ LeaseExpires(a) /\ outbox'[a] = [outbox[a] EXCEPT
                                                       !.leaseLive = FALSE]
               \/ RetryDue(a) /\ outbox'[a] = [outbox[a] EXCEPT !.due = TRUE]
        PROVE  OutcomeOf(a)' = OutcomeOf(a)
    <2>1. /\ outbox[a] \in Rows
          /\ outbox[a].status \in {"dispatching", "pending"}
      BY <1>1, <1>5, RowIsRow DEF LeaseExpires, RetryDue, TypeInv
    <2>2. outbox'[a].status = outbox[a].status
      BY <1>5, <2>1 DEF Rows
    <2> QED BY <2>1, <2>2 DEF Terminal
  <1>6. ASSUME NEW t \in tasks, HoldsClaim(t), t.approval = a,
               outbox'[a] = [outbox[a] EXCEPT !.status = NewStatus(t),
                                     !.token = 0,
                                     !.due = (NewStatus(t) # "pending"),
                                     !.leaseLive = FALSE]
        PROVE  /\ OutcomeOf(a) = "open"
               /\ OutcomeOf(a)' = IF NewStatus(t) \in Terminal
                                  THEN NewStatus(t) ELSE "open"
    <2>1. outbox[a] \in Rows /\ outbox[a].status = "dispatching"
      BY <1>1, <1>6, TaskFacts DEF HoldsClaim
    <2>2. outbox'[a].status = NewStatus(t)
      BY <1>6, <2>1 DEF Rows
    <2>3. outbox'[a] # NoRow
      BY <2>2 DEF NoRow, NewStatus
    <2> QED BY <2>1, <2>2, <2>3 DEF Terminal
  <1> HIDE DEF OutcomeOf
  <1> QED BY <1>1, <1>2, <1>3, <1>4, <1>5, <1>6, RowSteps

\* A step of the approval path is a step of the promise or none.
LEMMA PromiseStep ==
    ASSUME OwnWorkflows, OwnInv, Next
    PROVE  \/ Promise!PromiseNext
           \/ record' = record /\ Effects' = Effects
              /\ OutcomesSeen' = OutcomesSeen
  <1> USE DEF OwnInv, PhantomInv
  <1>1. TypeInv /\ LockInv /\ RowInv
    BY DEF DecisionInv
  <1>2. CASE \E h \in Handlers : CommitDecision(h)
    <2>1. PICK h \in Handlers : CommitDecision(h)
      BY <1>2
    <2> DEFINE a == handler[h].approval
               req == handler[h].req
    <2>2. a \in Approvals /\ req \in Requests
      BY <1>1, <2>1 DEF CommitDecision, TypeInv, TypeOK, Transactions
    <2>3. record[a] = NoDecision /\ record' = [record EXCEPT ![a] = req]
      BY <1>1, <2>1 DEF CommitDecision, LockInv
    <2>4. Effects' = Effects
      BY <2>1, EffectUnchanged DEF CommitDecision
    <2>5. OutcomesSeen' = OutcomesSeen
      <3>1. ASSUME NEW b \in Approvals
            PROVE  OutcomeOf(b)' = OutcomeOf(b)
        <4>1. CASE b # a
          <5>1. outbox'[b] = outbox[b]
            BY <1>1, <2>1, <2>2, <4>1 DEF CommitDecision, TypeInv, TypeOK
          <5> QED BY <5>1 DEF OutcomeOf, HasRow, RowStatus
        <4>2. CASE b = a
          <5>1. outbox[a] = NoRow
            BY <1>1, <2>2, <2>3 DEF RowInv
          <5>2. outbox'[a].status = "pending"
            <6>1. outbox' = [outbox EXCEPT ![a] =
                               [status |-> "pending", attempt |-> 0,
                                token |-> 0, due |-> TRUE,
                                leaseLive |-> FALSE,
                                event |-> Event(a, req, handler[h].at)]]
              BY <2>1 DEF CommitDecision, OwnWorkflows
            <6> HIDE DEF a, req
            <6> QED BY <1>1, <2>2, <6>1 DEF TypeInv, TypeOK
          <5> QED BY <4>2, <5>1, <5>2 DEF OutcomeOf, HasRow, RowStatus,
                                          Terminal
        <4> QED BY <4>1, <4>2
      <3> QED BY <3>1 DEF OutcomesSeen
    <2> HIDE DEF a, req
    <2>6. Promise!Decide(a, req)
      BY <2>3, <2>4, <2>5 DEF Promise!Decide, Effects, OutcomesSeen
    <2> QED BY <2>2, <2>6 DEF Promise!PromiseNext
  <1>3. CASE \E t \in tasks : Finalize(t) \/ FinalizeRaises(t)
    <2>1. PICK t \in tasks : Finalize(t) \/ FinalizeRaises(t)
      BY <1>3
    <2> DEFINE a == t.approval
    <2>2. a \in Approvals /\ outbox[a] # NoRow
      BY <1>1, TaskFacts
    <2>3. record' = record /\ wf' = wf
      BY <2>1 DEF Finalize, FinalizeRaises, apiVars
    <2>4. Effects' = Effects
      BY <2>3, EffectUnchanged
    <2>5. ASSUME NEW b \in Approvals, b # a
          PROVE  OutcomeOf(b)' = OutcomeOf(b)
      <3>1. outbox'[b] = outbox[b]
        BY <1>1, <2>1, <2>2, <2>5 DEF Finalize, FinalizeRaises,
              WriteOutcome, TypeInv, TypeOK
      <3> QED BY <3>1 DEF OutcomeOf, HasRow, RowStatus
    <2>6. CASE OutcomeOf(a)' = OutcomeOf(a)
      <3>1. OutcomesSeen' = OutcomesSeen
        BY <2>5, <2>6 DEF OutcomesSeen
      <3> QED BY <2>3, <2>4, <3>1
    <2>7. ASSUME NEW u \in tasks, HoldsClaim(u), u.approval = a,
                 OutcomeOf(a) = "open", NewStatus(u) \in Terminal,
                 OutcomeOf(a)' = NewStatus(u)
          PROVE  Promise!PromiseNext
      <3> DEFINE o == NewStatus(u)
      <3>1. record[a] # NoDecision /\ record[a] = outbox[a].event.req
        BY <1>1, <2>2 DEF RowInv
      <3>2. o \in {"delivered", "dead_letter"}
        BY <2>7 DEF Terminal
      <3>3. ASSUME o = "delivered"
            PROVE  EffectOf(a) \in {record[a], [decision |-> "cancelled"]}
        <4>1. u.outcome = "ok"
          BY <3>3 DEF NewStatus
        <4>2. TakesEffect(a)
          BY <2>7, <4>1 DEF DoneIsEffective
        <4>3. outbox[a].event # NoEvent
          BY <1>1, <2>2, RowIsRow DEF TypeInv, Rows, Events, NoEvent
        <4> QED BY <3>1, <4>2, <4>3 DEF TakesEffect, EffectOf
      <3>4. OutcomesSeen' = [OutcomesSeen EXCEPT ![a] = o]
        BY <2>2, <2>5, <2>7 DEF OutcomesSeen
      <3> HIDE DEF o, a
      <3>5. Promise!Settle(a, o)
        BY <2>2, <2>3, <2>4, <2>7, <3>1, <3>3, <3>4
           DEF Promise!Settle, Effects, OutcomesSeen
      <3> QED BY <2>2, <3>2, <3>5 DEF Promise!PromiseNext
    <2> QED BY <2>2, <2>6, <2>7, OutcomeSteps
  <1>4. CASE ~ \E t \in tasks : Finalize(t) \/ FinalizeRaises(t)
    <2>1. OutcomesSeen' = OutcomesSeen
      BY <1>4, OutcomeSteps DEF OutcomesSeen
    <2>2. CASE record' = record
      <3>1. CASE wf' = wf
        BY <2>1, <2>2, <3>1, EffectUnchanged
      <3>2. ASSUME NEW f \in Workflows,
                   \A g \in Workflows \ {f} : wf'[g] = wf[g]
            PROVE  Promise!PromiseNext \/ Effects' = Effects
        <4>1. ASSUME NEW b \in Approvals, WorkflowOf[b] # f
              PROVE  EffectOf(b)' = EffectOf(b)
          <5>1. wf'[WorkflowOf[b]] = wf[WorkflowOf[b]]
            BY <3>2, <4>1, ApprovalAssumption
          <5> QED BY <5>1 DEF EffectOf, Effective
        <4>2. CASE \A b \in Approvals : EffectOf(b)' = EffectOf(b)
          BY <4>2 DEF Effects
        <4>3. ASSUME NEW a \in Approvals, EffectOf(a)' # EffectOf(a)
              PROVE  Promise!PromiseNext
          <5>1. \A b \in Approvals : b # a => EffectOf(b)' = EffectOf(b)
            BY <4>1, <4>3 DEF OwnWorkflows
          <5>2. Effects' = [Effects EXCEPT ![a] = EffectOf(a)']
            BY <5>1 DEF Effects
          <5>3. CASE EffectOf(a)' = [decision |-> "cancelled"]
            <6>1. Promise!Cancel(a)
              BY <2>1, <2>2, <5>2, <5>3 DEF Promise!Cancel, Effects,
                                            OutcomesSeen
            <6> QED BY <6>1 DEF Promise!PromiseNext
          <5>4. CASE /\ record[a] # NoDecision
                     /\ EffectOf(a) = NoDecision
                     /\ EffectOf(a)' = record[a]
            <6>1. Promise!TakeEffect(a)
              BY <2>1, <2>2, <5>2, <5>4 DEF Promise!TakeEffect, Effects,
                                            OutcomesSeen
            <6> QED BY <6>1 DEF Promise!PromiseNext
          <5> QED BY <4>3, <5>3, <5>4, EffectSteps
        <4> QED BY <4>2, <4>3
      <3> QED BY <1>1, <2>1, <2>2, <3>1, <3>2, OneWorkflow
    <2>3. record' = record \/ \E h \in Handlers : CommitDecision(h)
      <3>1. ASSUME ApiNext
            PROVE  record' = record \/ \E h \in Handlers : CommitDecision(h)
        BY <3>1 DEF ApiNext, BeginDecision, RepeatDecision, DenyByPolicy,
              SignalNow, AbortDecision
      <3> QED BY <3>1, ApiUnchanged DEF Next
    <2> QED BY <1>2, <2>2, <2>3
  <1> QED BY <1>3, <1>4

\* The approval path implements its promise: decided once, effective as
\* decided, and reported delivered only when effective or cancelled.
THEOREM PromiseKept ==
    ASSUME OwnWorkflows
    PROVE  Spec => KeepsPromise
  <1>1. Init => Promise!PromiseInit
    <2>1. SUFFICES ASSUME Init PROVE Promise!PromiseInit
      OBVIOUS
    <2>2. ASSUME NEW a \in Approvals
          PROVE  EffectOf(a) = NoDecision /\ OutcomeOf(a) = "open"
      <3>1. WorkflowOf[a] \in Workflows
        BY ApprovalAssumption
      <3>2. wf[WorkflowOf[a]] = [status |-> "absent", decision |-> NoEvent,
                                 queue |-> <<>>, conflicts |-> {}]
        BY <2>1, <3>1 DEF Init
      <3>3. EffectOf(a) = NoDecision
        BY <3>2 DEF EffectOf, Effective
      <3>4. OutcomeOf(a) = "open"
        BY <2>1 DEF Init, OutcomeOf, HasRow
      <3> QED BY <3>3, <3>4
    <2>3. record = [a \in Approvals |-> NoDecision]
      BY <2>1 DEF Init
    <2> QED BY <2>2, <2>3 DEF Promise!PromiseInit
  <1>2. OwnInv /\ [Next]_vars =>
           [Promise!PromiseNext]_(Promise!promiseVars)
    <2>1. ASSUME OwnInv, Next
          PROVE  [Promise!PromiseNext]_(Promise!promiseVars)
      BY <2>1, PromiseStep DEF Promise!promiseVars, Effects, OutcomesSeen
    <2>2. ASSUME UNCHANGED vars
          PROVE  UNCHANGED Promise!promiseVars
      BY <2>2 DEF vars, Promise!promiseVars, EffectOf, Effective, OutcomeOf,
                  HasRow, RowStatus
    <2> QED BY <2>1, <2>2
  <1> QED BY <1>1, <1>2, OwnInvariant, PTL DEF Spec, KeepsPromise,
                                              Promise!PromiseSpec
=============================================================================
