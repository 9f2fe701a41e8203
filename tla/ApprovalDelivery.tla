-------------------------- MODULE ApprovalDelivery --------------------------
(***************************************************************************)
(* Approval decisions from the API request that records one to the         *)
(* Temporal workflow that acts on it.                                      *)
(*                                                                         *)
(*   - API handlers run record_demo_approval_decision in one database      *)
(*     transaction, serialised per approval by an advisory lock.  With the *)
(*     outbox enabled the transaction also inserts the outbox row; without *)
(*     it the workflow is signalled before the commit.                     *)
(*   - Worker processes run ApprovalDecisionOutboxDispatcher.run_once in a *)
(*     loop: claim due rows under a lease, signal Temporal, finalize the   *)
(*     row through the claim token.                                        *)
(*   - ApprovalWorkflow accepts the first decision signalled to it.        *)
(*                                                                         *)
(* Time is abstracted: a lease may run out and a retry delay may pass at   *)
(* any moment, which also covers workers whose clocks disagree.  A claim   *)
(* token (uuid4 in the code) is the ordinal of the claim of its row, which *)
(* no other claim of the row has; it is therefore the attempt_count the    *)
(* claim recorded as well.                                                 *)
(***************************************************************************)
EXTENDS Naturals, FiniteSets, Sequences, Functions

CONSTANTS
    Approvals,      \* approval ids of one tenant
    Workflows,      \* workflow ids
    WorkflowOf,     \* approval -> the workflow that waits for it
    Decisions,      \* the decisions callers send, "approve" among them or not
    Actors,         \* deciding principals (an actor stands for actor and note)
    RequestedBy,    \* approval -> the actor who asked for it
    CanDecide,      \* approval -> the actors holding required_permission
    Unsupported,    \* approvals whose row has a contract the worker rejects
    Handlers,       \* concurrent API requests
    Workers,        \* worker processes
    BatchSize,      \* approval_decision_outbox_batch_size
    MaxAttempts,    \* approval_decision_outbox_max_attempts
    OutboxEnabled,  \* approval_decision_outbox_enabled
    LegacySenders,  \* is the boolean signal contract still in use?
    MaxTries,       \* bound: decision transactions opened per approval
    MaxFaults       \* bound: worker crashes, failed finalizations, late workers

ASSUME ApprovalAssumption ==
    /\ WorkflowOf \in [Approvals -> Workflows]
    /\ Decisions \subseteq {"approve", "reject", "request_changes"}
    /\ RequestedBy \in [Approvals -> Actors]
    /\ CanDecide \in [Approvals -> SUBSET Actors]
    /\ Unsupported \subseteq Approvals
    /\ BatchSize \in Nat \ {0}
    /\ MaxAttempts \in Nat \ {0}
    /\ OutboxEnabled \in BOOLEAN
    /\ LegacySenders \in BOOLEAN
    /\ MaxTries \in Nat
    /\ MaxFaults \in Nat

VARIABLES
    record,     \* approval -> the decision stored in approval_records
    tries,      \* approval -> decision transactions opened so far
    handler,    \* handler -> the open transaction of the request, if any
    replies,    \* what callers were told
    outbox,     \* approval -> its row of approval_decision_outbox
    tasks,      \* deliveries in flight in the workers
    audits,     \* approval -> delivery audit events appended
    faults,     \* claims lost so far to a crash, an error or a late worker
    net,        \* signals whose call timed out and that may still arrive
    wf          \* workflow -> the Temporal execution

vars == <<record, tries, handler, replies, outbox, tasks, audits, faults,
          net, wf>>
apiVars == <<record, tries, handler, replies>>
workerVars == <<tasks, audits, faults>>

-----------------------------------------------------------------------------
(* Data *)

Requests == [decision : Decisions, actor : Actors]

NoDecision == [decision |-> "none"]

\* The signal payload.  "at" stands for decided_at: two transactions never
\* build equal payloads.  decision_event_id is a function of the approval
\* (uuid5) when signalled directly and of the row (uuid4) through the outbox.
Events == [kind : {"outbox", "direct"}, approval : Approvals, req : Requests,
           at : Nat]
LegacyEvents == [kind : {"legacy"}, approved : BOOLEAN]
AnyEvent == Events \cup LegacyEvents

\* The result of a workflow before it accepted a decision.
NoEvent == [kind |-> "none"]

NoRow == [status |-> "none"]
Statuses == {"pending", "dispatching", "delivered", "dead_letter"}
Terminal == {"delivered", "dead_letter"}
Rows == [status : Statuses, attempt : Nat, token : Nat, due : BOOLEAN,
         leaseLive : BOOLEAN, event : Events]

Idle == [pc |-> "idle"]
Transactions == [pc : {"deciding", "signalled"}, approval : Approvals,
                 req : Requests, at : Nat]

Outcomes == {"none", "ok", "retry", "permanent"}
Tasks == [worker : Workers, approval : Approvals, token : Nat,
          phase : {"signal", "reconcile", "final"}, outcome : Outcomes,
          awaited : BOOLEAN]

WorkflowStates == [status : {"absent", "running", "completed", "cancelled"},
                   decision : AnyEvent \cup {NoEvent},
                   queue : Seq(AnyEvent),
                   conflicts : SUBSET AnyEvent]

Replies == [approval : Approvals, req : Requests,
            kind : {"recorded", "replayed", "conflict"}]

TypeOK ==
    /\ record \in [Approvals -> Requests \cup {NoDecision}]
    /\ tries \in [Approvals -> Nat]
    /\ handler \in [Handlers -> Transactions \cup {Idle}]
    /\ replies \subseteq Replies
    /\ outbox \in [Approvals -> Rows \cup {NoRow}]
    /\ tasks \subseteq Tasks
    /\ audits \in [Approvals -> Nat]
    /\ faults \in Nat
    /\ net \subseteq Events
    /\ wf \in [Workflows -> WorkflowStates]

Init ==
    /\ record = [a \in Approvals |-> NoDecision]
    /\ tries = [a \in Approvals |-> 0]
    /\ handler = [h \in Handlers |-> Idle]
    /\ replies = {}
    /\ outbox = [a \in Approvals |-> NoRow]
    /\ tasks = {}
    /\ audits = [a \in Approvals |-> 0]
    /\ faults = 0
    /\ net = {}
    /\ wf = [f \in Workflows |-> [status |-> "absent", decision |-> NoEvent,
                                  queue |-> <<>>, conflicts |-> {}]]

-----------------------------------------------------------------------------
(* The API: record_demo_approval_decision *)

\* Required scope, then separation of duties.
MayDecide(a, req) ==
    /\ req.actor \in CanDecide[a]
    /\ req.actor # RequestedBy[a]

\* Fault: the lock is not taken (the dialect without one, on a shared database).
NeverLocked(a) == FALSE

\* pg_advisory_xact_lock on the approval, held to the end of the transaction.
Locked(a) ==
    \E h \in Handlers : handler[h] # Idle /\ handler[h].approval = a

Event(a, req, at) ==
    [kind |-> IF OutboxEnabled THEN "outbox" ELSE "direct",
     approval |-> a, req |-> req, at |-> at]

\* The lock is granted and no terminal decision is stored.
BeginDecision(h, a, req) ==
    /\ handler[h] = Idle
    /\ MayDecide(a, req)
    /\ ~Locked(a)
    /\ record[a] = NoDecision
    /\ tries[a] < MaxTries
    /\ tries' = [tries EXCEPT ![a] = @ + 1]
    /\ handler' = [handler EXCEPT ![h] =
           [pc |-> "deciding", approval |-> a, req |-> req,
            at |-> tries[a] + 1]]
    /\ UNCHANGED <<record, replies, outbox, workerVars, net, wf>>

\* A terminal decision is already stored: the same request is replayed from
\* its snapshot, any other one is refused.  A snapshot that is missing or does
\* not load is refused too (approval_replay_unavailable); every decision
\* recorded here has stored its own, so that this does not occur.
RepeatDecision(h, a, req) ==
    /\ handler[h] = Idle
    /\ MayDecide(a, req)
    /\ ~Locked(a)
    /\ record[a] # NoDecision
    /\ replies' = replies \cup
           {[approval |-> a, req |-> req,
             kind |-> IF record[a] = req THEN "replayed" ELSE "conflict"]}
    /\ UNCHANGED <<record, tries, handler, outbox, workerVars, net, wf>>

\* A platform policy denies an approval; only the denial's audit is committed.
DenyByPolicy(h) ==
    /\ handler[h] # Idle
    /\ handler[h].pc = "deciding"
    /\ handler[h].req.decision = "approve"
    /\ handler' = [handler EXCEPT ![h] = Idle]
    /\ UNCHANGED <<record, tries, replies, outbox, workerVars, net, wf>>

\* A signal reaches the execution and is buffered for the next workflow task.
Buffered(f, e) == [wf EXCEPT ![f].queue = Append(@, e)]

\* Outbox disabled: the workflow is signalled inside the open transaction.
\* WorkflowSignalError is recorded in the result and does not stop the
\* decision; a call that timed out may still arrive.
SignalNow(h) ==
    /\ ~OutboxEnabled
    /\ handler[h] # Idle
    /\ handler[h].pc = "deciding"
    /\ handler' = [handler EXCEPT ![h].pc = "signalled"]
    /\ LET a == handler[h].approval
           e == Event(a, handler[h].req, handler[h].at)
       IN  \/ /\ wf[WorkflowOf[a]].status = "running"
              /\ wf' = Buffered(WorkflowOf[a], e)
              /\ net' = net
           \/ /\ net' \in {net, net \cup {e}}
              /\ wf' = wf
    /\ UNCHANGED <<record, tries, replies, outbox, workerVars>>

\* Everything the transaction writes becomes durable at once: the decision,
\* the workflow history, the action run, the audit event and the outbox row.
CommitDecision(h) ==
    /\ handler[h] # Idle
    /\ handler[h].pc = IF OutboxEnabled THEN "deciding" ELSE "signalled"
    /\ LET a == handler[h].approval
           req == handler[h].req
       IN  /\ record' = [record EXCEPT ![a] = req]
           /\ replies' = replies \cup
                  {[approval |-> a, req |-> req, kind |-> "recorded"]}
           /\ outbox' = IF OutboxEnabled
                        THEN [outbox EXCEPT ![a] =
                                [status |-> "pending", attempt |-> 0,
                                 token |-> 0, due |-> TRUE,
                                 leaseLive |-> FALSE,
                                 event |-> Event(a, req, handler[h].at)]]
                        ELSE outbox
    /\ handler' = [handler EXCEPT ![h] = Idle]
    /\ UNCHANGED <<tries, workerVars, net, wf>>

\* Fault: the outbox row is written in a transaction of its own.
AbortKeepsRow(h) ==
    /\ handler[h] # Idle
    /\ outbox' = [outbox EXCEPT ![handler[h].approval] =
           [status |-> "pending", attempt |-> 0, token |-> 0, due |-> TRUE,
            leaseLive |-> FALSE,
            event |-> Event(handler[h].approval, handler[h].req,
                            handler[h].at)]]
    /\ handler' = [handler EXCEPT ![h] = Idle]
    /\ UNCHANGED <<record, tries, replies, workerVars, net, wf>>

\* The request fails before its commit: session_scope rolls back.
AbortDecision(h) ==
    /\ handler[h] # Idle
    /\ handler' = [handler EXCEPT ![h] = Idle]
    /\ UNCHANGED <<record, tries, replies, outbox, workerVars, net, wf>>

-----------------------------------------------------------------------------
(* The worker: ApprovalDecisionOutboxDispatcher *)

\* Fault: expired leases are not reclaimed.
ClaimablePendingOnly(a) ==
    outbox[a] # NoRow /\ outbox[a].status = "pending" /\ outbox[a].due

\* Fault: the query asks for the dates and not for the status.
ClaimableByDate(a) ==
    outbox[a] # NoRow /\ outbox[a].due /\ ~outbox[a].leaseLive

Claimable(a) ==
    /\ outbox[a] # NoRow
    /\ \/ outbox[a].status = "pending" /\ outbox[a].due
       \/ outbox[a].status = "dispatching" /\ ~outbox[a].leaseLive

\* The batch claimed before is done, or the loop gave up waiting for it.
Ready(w) == \A t \in tasks : t.worker = w => ~t.awaited

\* The delivery of a claimed row.  A row whose contract the worker rejects
\* goes straight to finalization.
NewTask(w, a) ==
    [worker |-> w, approval |-> a, token |-> outbox[a].attempt + 1,
     phase |-> IF a \in Unsupported THEN "final" ELSE "signal",
     outcome |-> IF a \in Unsupported THEN "permanent" ELSE "none",
     awaited |-> TRUE]

\* SELECT ... FOR UPDATE SKIP LOCKED LIMIT batch_size, then one lease each.
Claim(w, batch) ==
    /\ Ready(w)
    /\ batch # {} /\ Cardinality(batch) <= BatchSize
    /\ \A a \in batch : Claimable(a)
    /\ outbox' = [a \in Approvals |->
           IF a \in batch
           THEN [outbox[a] EXCEPT !.status = "dispatching",
                                  !.attempt = outbox[a].attempt + 1,
                                  !.token = outbox[a].attempt + 1,
                                  !.leaseLive = TRUE]
           ELSE outbox[a]]
    /\ tasks' = tasks \cup {NewTask(w, a) : a \in batch}
    /\ UNCHANGED <<apiVars, audits, faults, net, wf>>

Replaced(t, u) == (tasks \ {t}) \cup {u}
Finished(t, outcome) ==
    Replaced(t, [t EXCEPT !.phase = "final", !.outcome = outcome])

\* The signal call returns: the server buffered the signal.
SignalDelivered(t) ==
    /\ t.phase = "signal"
    /\ wf[WorkflowOf[t.approval]].status = "running"
    /\ wf' = Buffered(WorkflowOf[t.approval], outbox[t.approval].event)
    /\ tasks' = Finished(t, "ok")
    /\ UNCHANGED <<apiVars, outbox, audits, faults, net>>

\* Fault: a signal without an answer counts as delivered.
SignalFailedAsDelivered(t) ==
    /\ t.phase = "signal"
    /\ net' \in {net, net \cup {outbox[t.approval].event}}
    /\ tasks' = Finished(t, "ok")
    /\ UNCHANGED <<apiVars, outbox, audits, faults, wf>>

\* Connect failure, RPC error or the shared deadline; the signal may still be
\* on its way.
SignalFailed(t) ==
    /\ t.phase = "signal"
    /\ net' \in {net, net \cup {outbox[t.approval].event}}
    /\ tasks' = Finished(t, "retry")
    /\ UNCHANGED <<apiVars, outbox, audits, faults, wf>>

\* NOT_FOUND or FAILED_PRECONDITION: the execution may be closed.
SignalRejected(t) ==
    /\ t.phase = "signal"
    /\ wf[WorkflowOf[t.approval]].status # "running"
    /\ tasks' = Replaced(t, [t EXCEPT !.phase = "reconcile"])
    /\ UNCHANGED <<apiVars, outbox, audits, faults, net, wf>>

\* Fault: a completed execution counts as delivered whatever it decided.
ReconcileAnyResult(t) == "ok"

\* Fault: the read result never equals the payload.
ReconcileNoResult(t) == "permanent"

\* get_approval_decision_result of a completed execution; the result of an
\* execution decided by the boolean contract has no "decision".
Reconciliation(t) ==
    IF wf[WorkflowOf[t.approval]].decision = outbox[t.approval].event
    THEN "ok" ELSE "permanent"

Reconcile(t) ==
    /\ t.phase = "reconcile"
    /\ wf[WorkflowOf[t.approval]].status = "completed"
    /\ tasks' = Finished(t, Reconciliation(t))
    /\ UNCHANGED <<apiVars, outbox, audits, faults, net, wf>>

\* Fault: an execution without a result counts as delivered.
ReconcileUnknownAsDelivered(t) ==
    /\ t.phase = "reconcile"
    /\ tasks' = Finished(t, "ok")
    /\ UNCHANGED <<apiVars, outbox, audits, faults, net, wf>>

\* The read fails, or there is no result to read (not started, cancelled,
\* still open when the local deadline passes).
ReconcileUnknown(t) ==
    /\ t.phase = "reconcile"
    /\ tasks' = Finished(t, "retry")
    /\ UNCHANGED <<apiVars, outbox, audits, faults, net, wf>>

\* Fault: the update names the row and not the claim.
HoldsAnyClaim(t) == outbox[t.approval] # NoRow

\* The WHERE clause of complete_ and retry_approval_decision_outbox.
HoldsClaim(t) ==
    /\ outbox[t.approval].status = "dispatching"
    /\ outbox[t.approval].token = t.token

\* Fault: one attempt more than max_attempts.
ExhaustedLate(t) == t.token > MaxAttempts

\* Fault: the last attempt is never made.
ExhaustedEarly(t) == t.token + 1 >= MaxAttempts

Exhausted(t) == t.token >= MaxAttempts
DeadLetter(t) == t.outcome = "permanent" \/ Exhausted(t)

\* Fault: a status outside ck_approval_decision_outbox_status.
NewStatusFailed(t) ==
    IF t.outcome = "ok" THEN "delivered"
    ELSE IF DeadLetter(t) THEN "failed" ELSE "pending"

NewStatus(t) ==
    IF t.outcome = "ok" THEN "delivered"
    ELSE IF DeadLetter(t) THEN "dead_letter" ELSE "pending"

\* complete_ or retry_approval_decision_outbox and, when the row reaches a
\* terminal status, its audit event, in one transaction.  Without the claim
\* the call changes nothing ("fenced").
WriteOutcome(t) ==
    IF HoldsClaim(t)
    THEN /\ outbox' = [outbox EXCEPT
               ![t.approval] = [@ EXCEPT !.status = NewStatus(t),
                                         !.token = 0,
                                         !.due = (NewStatus(t) # "pending"),
                                         !.leaseLive = FALSE]]
         /\ audits' = [audits EXCEPT ![t.approval] =
               IF NewStatus(t) \in Terminal THEN @ + 1 ELSE @]
    ELSE UNCHANGED <<outbox, audits>>

\* _finalize_success and _finalize_failure.
Finalize(t) ==
    /\ t.phase = "final"
    /\ WriteOutcome(t)
    /\ tasks' = tasks \ {t}
    /\ UNCHANGED <<apiVars, faults, net, wf>>

\* The finalizing transaction raises, rolled back or committed with the
\* answer lost: gather propagates the error and run_dispatch_loop goes on
\* while the siblings of the batch still run.
FinalizeRaises(t) ==
    /\ t.phase = "final"
    /\ faults < MaxFaults
    /\ faults' = faults + 1
    /\ WriteOutcome(t) \/ UNCHANGED <<outbox, audits>>
    /\ tasks' = {IF u.worker = t.worker THEN [u EXCEPT !.awaited = FALSE]
                 ELSE u : u \in tasks \ {t}}
    /\ UNCHANGED <<apiVars, net, wf>>

\* The process dies or is cancelled: its deliveries are gone, its claims stay.
WorkerCrash(w) ==
    /\ faults < MaxFaults
    /\ \E t \in tasks : t.worker = w
    /\ faults' = faults + 1
    /\ tasks' = {t \in tasks : t.worker # w}
    /\ UNCHANGED <<apiVars, outbox, audits, net, wf>>

\* lease_expires_at <= now on some worker's clock.  The lease exceeds the
\* delivery deadline, so it outlasts its delivery unless the worker was slow
\* to start or to finalize it, or clocks disagree: a fault of its own.
LeaseExpires(a) ==
    /\ outbox[a] # NoRow
    /\ outbox[a].status = "dispatching"
    /\ outbox[a].leaseLive
    /\ IF \E t \in tasks : t.approval = a /\ HoldsClaim(t)
       THEN faults < MaxFaults /\ faults' = faults + 1
       ELSE faults' = faults
    /\ outbox' = [outbox EXCEPT ![a].leaseLive = FALSE]
    /\ UNCHANGED <<apiVars, tasks, audits, net, wf>>

\* available_at <= now: the jittered retry delay has passed.
RetryDue(a) ==
    /\ outbox[a] # NoRow
    /\ outbox[a].status = "pending"
    /\ ~outbox[a].due
    /\ outbox' = [outbox EXCEPT ![a].due = TRUE]
    /\ UNCHANGED <<apiVars, workerVars, net, wf>>

-----------------------------------------------------------------------------
(* Temporal and ApprovalWorkflow *)

\* REJECT_DUPLICATE: a workflow id is started once.
StartWorkflow(f) ==
    /\ wf[f].status = "absent"
    /\ wf' = [wf EXCEPT ![f].status = "running"]
    /\ UNCHANGED <<apiVars, outbox, workerVars, net>>

CancelWorkflow(f) ==
    /\ wf[f].status = "running"
    /\ wf' = [wf EXCEPT ![f] = [@ EXCEPT !.status = "cancelled",
                                         !.queue = <<>>]]
    /\ UNCHANGED <<apiVars, outbox, workerVars, net>>

\* A signal whose call timed out arrives late, or is dropped when the
\* execution is not open.
LateArrival(e) ==
    /\ e \in net
    /\ net' = net \ {e}
    /\ wf' = IF wf[WorkflowOf[e.approval]].status = "running"
             THEN Buffered(WorkflowOf[e.approval], e) ELSE wf
    /\ UNCHANGED <<apiVars, outbox, workerVars>>

\* The boolean contract of older senders, one buffered signal at a time.
LegacySignal(f, e) ==
    /\ LegacySenders
    /\ wf[f].status = "running"
    /\ wf[f].queue = <<>>
    /\ wf' = Buffered(f, e)
    /\ UNCHANGED <<apiVars, outbox, workerVars, net>>

\* Fault: the last decision wins.
AcceptLast(s, e) == [s EXCEPT !.decision = e]

\* Fault: a duplicate is not recognised.
AcceptWithoutDuplicates(s, e) ==
    IF s.decision = NoEvent THEN [s EXCEPT !.decision = e]
    ELSE [s EXCEPT !.conflicts = @ \cup {e}]

\* _accept_decision: the first decision stands, an identical one is a
\* duplicate, any other one is counted as a conflict.
Accept(s, e) ==
    IF s.decision = NoEvent THEN [s EXCEPT !.decision = e]
    ELSE IF s.decision = e THEN s
    ELSE [s EXCEPT !.conflicts = @ \cup {e}]

AcceptDecision(f) ==
    /\ wf[f].status = "running"
    /\ wf[f].queue # <<>>
    /\ wf' = [wf EXCEPT ![f] =
           [Accept(wf[f], Head(wf[f].queue)) EXCEPT !.queue = Tail(@)]]
    /\ UNCHANGED <<apiVars, outbox, workerVars, net>>

\* Fault: the run waits for an approval and not for any decision.
CompleteOnApproval(f) ==
    /\ wf[f].status = "running"
    /\ wf[f].decision # NoEvent
    /\ wf[f].decision.req.decision = "approve"
    /\ wf[f].queue = <<>>
    /\ wf' = [wf EXCEPT ![f].status = "completed"]
    /\ UNCHANGED <<apiVars, outbox, workerVars, net>>

\* run returns once a decision is set; the server refuses to close an
\* execution with signals it has not handled.
CompleteWorkflow(f) ==
    /\ wf[f].status = "running"
    /\ wf[f].decision # NoEvent
    /\ wf[f].queue = <<>>
    /\ wf' = [wf EXCEPT ![f].status = "completed"]
    /\ UNCHANGED <<apiVars, outbox, workerVars, net>>

-----------------------------------------------------------------------------
ApiNext ==
    \E h \in Handlers :
        \/ \E a \in Approvals, req \in Requests :
              BeginDecision(h, a, req) \/ RepeatDecision(h, a, req)
        \/ DenyByPolicy(h)
        \/ SignalNow(h)
        \/ CommitDecision(h)
        \/ AbortDecision(h)

Deliver(t) ==
    \/ SignalDelivered(t) \/ SignalFailed(t) \/ SignalRejected(t)
    \/ Reconcile(t) \/ ReconcileUnknown(t)
    \/ Finalize(t)

WorkerNext ==
    \/ \E w \in Workers, batch \in SUBSET Approvals : Claim(w, batch)
    \/ \E t \in tasks : Deliver(t)
    \/ \E t \in tasks : FinalizeRaises(t)
    \/ \E w \in Workers : WorkerCrash(w)

ClockNext == \E a \in Approvals : LeaseExpires(a) \/ RetryDue(a)

WorkflowNext ==
    \/ \E f \in Workflows :
          \/ StartWorkflow(f) \/ CancelWorkflow(f)
          \/ AcceptDecision(f) \/ CompleteWorkflow(f)
          \/ \E e \in LegacyEvents : LegacySignal(f, e)
    \/ \E e \in net : LateArrival(e)

Next == ApiNext \/ WorkerNext \/ ClockNext \/ WorkflowNext

Spec == Init /\ [][Next]_vars

\* What keeps running: the dispatch loops, the deliveries they await, the
\* clock and Temporal.  Claims are served in the order of available_at, so a
\* row that is due again and again is not passed over for ever.
ClaimRow(a) ==
    \E w \in Workers, batch \in SUBSET Approvals :
        a \in batch /\ Claim(w, batch)
DeliverRow(a) == \E t \in tasks : t.approval = a /\ Deliver(t)

FairSpec ==
    /\ Spec
    /\ \A a \in Approvals :
          /\ SF_vars(ClaimRow(a))
          /\ WF_vars(DeliverRow(a))
          /\ WF_vars(LeaseExpires(a) \/ RetryDue(a))
    /\ \A f \in Workflows :
          /\ WF_vars(AcceptDecision(f))
          /\ WF_vars(CompleteWorkflow(f))

-----------------------------------------------------------------------------
(* Properties *)

Decided(a) == record[a] # NoDecision
HasRow(a) == outbox[a] # NoRow
RowStatus(a) == outbox[a].status

\* A caller who was told that a decision is recorded, or replayed as already
\* recorded, was told the decision that is stored now: no later transaction
\* of the same approval overwrote it (the advisory lock at work).
ReplyAgreesWithRecord ==
    \A r \in replies : r.kind # "conflict" => record[r.approval] = r.req

SignalsSeen(f) ==
    Range(wf[f].queue) \cup wf[f].conflicts \cup
    (IF wf[f].decision = NoEvent THEN {} ELSE {wf[f].decision})

\* With the outbox, no workflow ever sees a decision that is not the
\* committed one: a rolled back transaction leaves no trace in Temporal.
NoPhantomDecision ==
    \A f \in Workflows : \A e \in SignalsSeen(f) \cup net :
        e.kind = "outbox" =>
            /\ HasRow(e.approval) /\ outbox[e.approval].event = e
            /\ record[e.approval] = e.req

\* In either mode the decision of the last transaction is the one recorded:
\* nothing is signalled for an approval after its decision was committed.
LastSignalMatchesRecord ==
    \A f \in Workflows : \A e \in SignalsSeen(f) \cup net :
        e.kind # "legacy" /\ Decided(e.approval) =>
            /\ e.at <= tries[e.approval]
            /\ e.at = tries[e.approval] => e.req = record[e.approval]

\* What a workflow did or will do first.
Effective(f) ==
    IF wf[f].decision # NoEvent THEN wf[f].decision
    ELSE IF wf[f].queue # <<>> THEN Head(wf[f].queue) ELSE NoEvent

\* A row marked delivered is the decision its workflow acts on, unless the
\* workflow was cancelled: the reconciliation of a closed execution never
\* takes somebody else's decision for its own.
DeliveredIsEffective ==
    \A a \in Approvals :
        HasRow(a) /\ RowStatus(a) = "delivered" =>
            \/ Effective(WorkflowOf[a]) = outbox[a].event
            \/ wf[WorkflowOf[a]].status = "cancelled"

\* Even where several senders compete for a workflow, a row marked delivered
\* reached it: as its decision, waiting, or counted as a conflict.
DeliveredWasSeen ==
    \A a \in Approvals :
        HasRow(a) /\ RowStatus(a) = "delivered" =>
            \/ outbox[a].event \in SignalsSeen(WorkflowOf[a])
            \/ wf[WorkflowOf[a]].status = "cancelled"

\* At-least-once delivery is invisible to the workflow: however often a
\* decision is retried, no workflow counts a conflicting decision.
RetriesNeverConflict == \A f \in Workflows : wf[f].conflicts = {}

\* The audit trail has one delivery event for a finished row and none for an
\* open one, whatever crashes, late workers and duplicate deliveries did.
AuditedExactlyOnce ==
    \A a \in Approvals :
        audits[a] = IF HasRow(a) /\ RowStatus(a) \in Terminal THEN 1 ELSE 0

\* A claim has one holder, and no delivery is ahead of the row's claims.
ClaimsAreExclusive ==
    \A t, u \in tasks :
        /\ HasRow(t.approval) /\ t.token <= outbox[t.approval].attempt
        /\ t.approval = u.approval /\ t.token = u.token => t = u

\* max_attempts bounds the deliveries of a row: a row waiting for a retry has
\* attempts left, and a row has more claims than that only where a claim was
\* lost with its worker.
AttemptsAreBounded ==
    \A a \in Approvals : HasRow(a) =>
        /\ RowStatus(a) = "pending" => outbox[a].attempt < MaxAttempts
        /\ outbox[a].attempt <= MaxAttempts + faults

\* A row is given up only after the last attempt, for a contract the worker
\* rejects, or because its workflow ended with another decision.
DeadLetterIsJustified ==
    \A a \in Approvals :
        HasRow(a) /\ RowStatus(a) = "dead_letter" =>
            \/ outbox[a].attempt >= MaxAttempts
            \/ a \in Unsupported
            \/ /\ wf[WorkflowOf[a]].status = "completed"
               /\ wf[WorkflowOf[a]].decision # outbox[a].event

\* A finished row is never reopened, and the payload of a row never changes.
FinishedRowsStay ==
    [][\A a \in Approvals : HasRow(a) =>
          /\ outbox'[a].event = outbox[a].event
          /\ RowStatus(a) \in Terminal => outbox'[a] = outbox[a]]_vars

\* First write wins: the decision of a workflow is never replaced and its
\* completed execution is never touched again.
FirstWriteWins ==
    [][\A f \in Workflows :
          /\ wf[f].decision # NoEvent => wf'[f].decision = wf[f].decision
          /\ wf[f].status \in {"completed", "cancelled"} =>
                 wf'[f] = wf[f]]_vars

\* Every committed decision is eventually delivered or given up.
EverySettles ==
    \A a \in Approvals :
        Decided(a) ~> HasRow(a) /\ RowStatus(a) \in Terminal

\* A delivered decision ends its workflow.
DeliveredCompletes ==
    \A a \in Approvals :
        HasRow(a) /\ RowStatus(a) = "delivered" ~>
            wf[WorkflowOf[a]].status \in {"completed", "cancelled"}
=============================================================================
