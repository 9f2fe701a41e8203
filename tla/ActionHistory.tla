---------------------------- MODULE ActionHistory ----------------------------
(***************************************************************************)
(* Action runs and the history of the workflow they belong to.  Three      *)
(* operations write it, each in one READ COMMITTED transaction: an action  *)
(* run is requested, its outcome is recorded, its approval is decided.     *)
(* Each of them reads the workflow run without a lock, updates it and then *)
(* appends an event numbered one above the latest.  The update writes the  *)
(* columns whose value differs from the one that was read, and always some *)
(* (updated_at, the pending signals); a state set to what was read is not  *)
(* among them, whatever another transaction made of it meanwhile.          *)
(*                                                                         *)
(* A statement that meets a row or a unique key another open transaction   *)
(* has written waits for its end.  The lists of pending signals, which     *)
(* concurrent writers copy and overwrite whole, are left out, and so are   *)
(* the columns that follow the state (status, current_step, blocker).      *)
(***************************************************************************)
EXTENDS Naturals, FiniteSets

CONSTANTS
    RunKeys,      \* idempotency keys of one action
    RunPayloads,  \* what may be requested under a key
    Clients,      \* API requests in flight
    MaxEvents     \* bound: timeline events

ASSUME HistoryAssumption ==
    "gate" \notin RunKeys /\ "flow" \notin RunKeys /\ MaxEvents \in Nat

VARIABLES
    run,       \* key -> row of action_runs; "gate" is the row of the decision
    audited,   \* key -> audit events of its request
    flow,      \* the row of workflow_runs; began: history, its first state
    events,    \* rows of workflow_timeline_events
    decided,   \* the approval of the action is decided
    traced,    \* fixed: a missing workflow run is bootstrapped
    tx,        \* client -> its transaction
    told,      \* replies that name a run, and the payload they were asked for
    collided   \* history: an insert failed on the sequence number

historyVars == <<run, audited, flow, events, decided, traced, tx, told, collided>>
tableVarsOfHistory == <<run, audited, flow, events, decided, traced, told, collided>>

Keys == RunKeys \cup {"gate"}
NoRun == [payload |-> "none", status |-> "absent"]
\* loaded: the state of the workflow run when it was read.
Closed == [pc |-> "idle", op |-> "none", key |-> "none", row |-> NoRun,
           loaded |-> "none", seq |-> 0, locks |-> {}]

\* The state a workflow run is bootstrapped with comes from a reference record:
\* one no operation sets, or one of theirs.
FirstStates == {"started", "action_requested"}
Outcomes == {"execution_completed", "execution_failed"}

HistoryInit ==
    /\ run = [k \in Keys |-> NoRun]
    /\ audited = [k \in Keys |-> 0]
    /\ \E first \in FirstStates, exists \in BOOLEAN :
          flow = [exists |-> exists, state |-> first, began |-> first]
    /\ events = {}
    /\ decided = FALSE
    /\ traced \in BOOLEAN
    /\ tx = [c \in Clients |-> Closed]
    /\ told = {}
    /\ collided = FALSE

Move(c, t) == tx' = [tx EXCEPT ![c] = t]
Free(c, x) == \A d \in Clients \ {c} : x \notin tx[d].locks
Latest ==
    IF events = {} THEN 0
    ELSE CHOOSE n \in {e.seq : e \in events} : \A e \in events : e.seq <= n

-----------------------------------------------------------------------------
(* Request of an action run *)

\* The run of a key is answered again, or its payload is a conflict.
Replay(c, k, payload) ==
    /\ told' = IF run[k].payload = payload
               THEN told \cup {[key |-> k, payload |-> payload]} ELSE told
    /\ Move(c, Closed)
    /\ UNCHANGED <<run, audited, flow, events, decided, traced, collided>>

RequestRun(c, k, payload, status) ==
    /\ tx[c].pc = "idle" /\ Latest < MaxEvents
    /\ IF run[k] # NoRun THEN Replay(c, k, payload)
       ELSE /\ Move(c, [Closed EXCEPT !.pc = "insert", !.op = "request",
                            !.key = k, !.row = [payload |-> payload,
                                                status |-> status]])
            /\ UNCHANGED tableVarsOfHistory

\* Fault: a key that was taken meanwhile is not noticed.
TakenUnnoticed(k) == FALSE

\* The unique constraint on tenant, action and key.
Taken(k) == run[k] # NoRun

\* The insert waits for a competitor and then finds the key taken, which the
\* savepoint turns into a replay, or holds it.  The workflow is signalled
\* before the commit; that signal is not taken back by a rollback.
InsertRun(c) ==
    /\ tx[c].pc = "insert" /\ Free(c, tx[c].key)
    /\ IF Taken(tx[c].key) THEN Replay(c, tx[c].key, tx[c].row.payload)
       ELSE /\ Move(c, [tx[c] EXCEPT !.pc = "ensure", !.locks = {tx[c].key}])
            /\ UNCHANGED tableVarsOfHistory

-----------------------------------------------------------------------------
(* Outcome of an action run, decision of its approval *)

\* An approval that is still required, or an outcome on record, refuses.
RequestOutcome(c, k, outcome) ==
    /\ tx[c].pc = "idle" /\ Latest < MaxEvents
    /\ run[k] # NoRun
    /\ run[k].status \notin {"approval_required"} \cup Outcomes
    /\ Move(c, [Closed EXCEPT !.pc = "result", !.op = "outcome", !.key = k,
                   !.row = [run[k] EXCEPT !.status = outcome]])
    /\ UNCHANGED tableVarsOfHistory

RecordResult(c) ==
    /\ tx[c].pc = "result" /\ Free(c, tx[c].key)
    /\ Move(c, [tx[c] EXCEPT !.pc = "ensure", !.locks = {tx[c].key}])
    /\ UNCHANGED tableVarsOfHistory

\* Under the lock of the approval; a decided one is replayed.
DecideApproval(c) ==
    /\ tx[c].pc = "idle" /\ Latest < MaxEvents
    /\ ~decided /\ \A d \in Clients : tx[d].op # "decision"
    /\ Move(c, [Closed EXCEPT !.pc = "ensure", !.op = "decision"])
    /\ UNCHANGED tableVarsOfHistory

\* The run of the approval, or a new gate row when there is none, takes the
\* status of the decision.
TransitionRun(c) ==
    /\ tx[c].pc = "transition"
    /\ \E k \in IF \E j \in Keys : run[j] # NoRun
                THEN {j \in Keys : run[j] # NoRun} ELSE {"gate"} :
        /\ Free(c, k)
        /\ Move(c, [tx[c] EXCEPT !.pc = "commit", !.key = k,
                       !.row = [run[k] EXCEPT !.status = "decided"],
                       !.locks = @ \cup {k}])
    /\ UNCHANGED tableVarsOfHistory

-----------------------------------------------------------------------------
(* History of the workflow *)

AfterHistory(c) == IF tx[c].op = "decision" THEN "transition" ELSE "commit"

\* The state an operation gives the workflow run.
StateSet(t) ==
    CASE t.op = "request" -> IF t.row.status = "approval_required"
                             THEN "action_proposed" ELSE "action_requested"
      [] t.op = "outcome" -> IF t.row.status = "execution_completed"
                             THEN "action_completed" ELSE "action_failed"
      [] OTHER -> "approval_decided"

\* ensure_workflow_run and then the operation read the row, unlocked; without
\* one there is no history.
EnsureFlow(c) ==
    /\ tx[c].pc = "ensure"
    /\ Move(c, [tx[c] EXCEPT !.loaded = flow.state,
                             !.pc = IF flow.exists THEN "update"
                                    ELSE IF traced THEN "create"
                                    ELSE AfterHistory(c)])
    /\ UNCHANGED tableVarsOfHistory

\* The bootstrap: a competitor that committed first fails the transaction.
CreateFlow(c) ==
    /\ tx[c].pc = "create" /\ Free(c, "flow")
    /\ Move(c, IF flow.exists THEN Closed
               ELSE [tx[c] EXCEPT !.pc = "update", !.locks = @ \cup {"flow"}])
    /\ UNCHANGED tableVarsOfHistory

\* Fault: the row is written only when the commit flushes it.
UpdateAtCommit(c) ==
    /\ tx[c].pc = "update"
    /\ Move(c, [tx[c] EXCEPT !.pc = "number"])
    /\ UNCHANGED tableVarsOfHistory

\* The flush of the changed row, which locks it until the transaction ends.
UpdateFlow(c) ==
    /\ tx[c].pc = "update" /\ Free(c, "flow")
    /\ Move(c, [tx[c] EXCEPT !.pc = "number", !.locks = @ \cup {"flow"}])
    /\ UNCHANGED tableVarsOfHistory

NumberEvent(c) ==
    /\ tx[c].pc = "number"
    /\ Move(c, [tx[c] EXCEPT !.pc = "append", !.seq = Latest + 1])
    /\ UNCHANGED tableVarsOfHistory

\* The insert, under the unique constraint on the sequence number.
AppendEvent(c) ==
    /\ tx[c].pc = "append"
    /\ \A d \in Clients \ {c} :
          tx[d].seq = tx[c].seq => tx[d].pc \notin {"transition", "commit"}
    /\ IF \E e \in events : e.seq = tx[c].seq
       THEN Move(c, Closed) /\ collided' = TRUE
       ELSE Move(c, [tx[c] EXCEPT !.pc = AfterHistory(c)]) /\ UNCHANGED collided
    /\ UNCHANGED <<run, audited, flow, events, decided, traced, told>>

\* The state column after the flush, which leaves out what equals the loaded.
Flushed(t) == IF StateSet(t) = t.loaded THEN flow.state ELSE StateSet(t)

CommitTx(c) ==
    /\ tx[c].pc = "commit"
    /\ LET t == tx[c]
       IN  /\ run' = [run EXCEPT ![t.key] = t.row]
           /\ audited' = IF t.op = "request" THEN [audited EXCEPT ![t.key] = @ + 1]
                         ELSE audited
           /\ told' = IF t.op = "request"
                      THEN told \cup {[key |-> t.key, payload |-> t.row.payload]}
                      ELSE told
           /\ decided' = (decided \/ t.op = "decision")
           /\ IF t.seq = 0 THEN UNCHANGED <<flow, events>>
              ELSE /\ flow' = [flow EXCEPT !.exists = TRUE, !.state = Flushed(t)]
                   /\ events' = events \cup {[seq |-> t.seq, state |-> StateSet(t)]}
    /\ Move(c, Closed)
    /\ UNCHANGED <<traced, collided>>

\* The request fails, or the database ends it to break a deadlock.
Rollback(c) ==
    /\ tx[c].pc # "idle"
    /\ Move(c, Closed)
    /\ UNCHANGED tableVarsOfHistory

HistoryNext ==
    \E c \in Clients :
        \/ \E k \in RunKeys, payload \in RunPayloads,
              status \in {"approval_required", "preview"} :
                RequestRun(c, k, payload, status)
        \/ \E k \in Keys, outcome \in Outcomes : RequestOutcome(c, k, outcome)
        \/ DecideApproval(c)
        \/ InsertRun(c) \/ RecordResult(c) \/ TransitionRun(c)
        \/ EnsureFlow(c) \/ CreateFlow(c) \/ UpdateFlow(c)
        \/ NumberEvent(c) \/ AppendEvent(c) \/ CommitTx(c) \/ Rollback(c)

HistorySpec == HistoryInit /\ [][HistoryNext]_historyVars

-----------------------------------------------------------------------------
\* The workflow run was in state s before event n.
WasBefore(s, n) == s = flow.began \/ \E m \in events : m.seq < n /\ m.state = s

\* The timeline of a workflow has no gap, no operation fails because another
\* took its number, and the workflow run lags behind its latest event only when
\* that event tells a state the run had been in before, and it is then in the
\* state of an event in between.  Nothing locks the numbering: it is the flush
\* of the run row before the numbers are read that lines the writers up; but
\* what they read of the row they read before the lock.
TimelineIsComplete ==
    /\ ~collided
    /\ {e.seq : e \in events} = 1 .. Cardinality(events)
    /\ \A e \in events : e.seq = Cardinality(events) =>
          \/ flow.state = e.state
          \/ \E d \in events : /\ d.seq < e.seq /\ d.state = flow.state
                                /\ WasBefore(e.state, d.seq)

\* However requests with one idempotency key race, everybody who was told of a
\* run was told of the one on record, and it was audited once.
RunsAreIdempotent ==
    /\ \A reply \in told : run[reply.key].payload = reply.payload
    /\ \A k \in RunKeys : audited[k] = IF run[k] = NoRun THEN 0 ELSE 1
=============================================================================
