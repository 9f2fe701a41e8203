--------------------------- MODULE Requests_proofs ---------------------------
(***************************************************************************)
(* Proofs about the requests that race on one idempotency key or one row:  *)
(* action runs and the history of their workflow, model invocations and    *)
(* agent runs, exports of source batches.  For each, an inductive          *)
(* invariant, its preservation and the theorems it implies.                *)
(***************************************************************************)
EXTENDS ActionHistory, ModelCalls, BatchExport, FiniteSetTheorems, TLAPS

(* Action runs and the history of their workflow *)

RunRow == [payload : RunPayloads \cup {"none"},
           status : {"absent", "approval_required", "preview", "decided"} \cup Outcomes]
FlowStates == FirstStates \cup {"action_proposed", "action_requested", "action_completed",
                                "action_failed", "approval_decided"}
Transaction ==
    [pc : {"idle", "insert", "result", "ensure", "create", "update", "number",
           "append", "transition", "commit"},
     op : {"none", "request", "outcome", "decision"},
     key : Keys \cup {"none"}, row : RunRow, loaded : FlowStates \cup {"none"}, seq : Nat,
     locks : SUBSET (Keys \cup {"flow"})]

HistoryTypes ==
    /\ run \in [Keys -> RunRow]
    /\ audited \in [Keys -> Nat]
    /\ told \subseteq [key : RunKeys, payload : RunPayloads]
    /\ flow \in [exists : BOOLEAN, state : FlowStates, began : FlowStates]
    /\ tx \in [Clients -> Transaction]

\* What transaction t is about to write: only a request that holds its key
\* writes a new run, and whoever writes an existing one keeps its payload.
WritesWell(t) ==
    /\ t.op = "none" => t.pc = "idle"
    /\ t.pc = "insert" => t.op = "request"
    /\ t.pc = "result" => t.op = "outcome"
    /\ t.pc = "transition" => t.op = "decision"
    /\ t.op = "request" =>
          /\ t.key \in RunKeys
          /\ t.row.payload \in RunPayloads
          /\ t.row.status \in {"approval_required", "preview"}
          /\ t.pc # "insert" => t.key \in t.locks /\ run[t.key] = NoRun
    /\ t.op = "outcome" =>
          /\ t.key \in Keys
          /\ run[t.key] # NoRun
          /\ t.row.payload = run[t.key].payload
          /\ t.row.status \in Outcomes
    /\ t.op = "decision" /\ t.pc = "commit" =>
          /\ t.key \in Keys /\ t.key \in t.locks
          /\ t.key \in RunKeys => run[t.key] # NoRun
          /\ t.row.payload = run[t.key].payload
          /\ t.row.status = "decided"

\* A number is taken, and kept until the commit, under the lock of the
\* workflow run, so that it is one above the latest event to the end.
NumbersWell(t) ==
    /\ t.seq # 0 => /\ t.pc \in {"append", "transition", "commit"}
                    /\ t.seq = Cardinality(events) + 1
    /\ t.pc = "append" => t.seq # 0
    /\ t.pc = "number" \/ t.seq # 0 => "flow" \in t.locks

\* What was read of the workflow run is its state or one it had before an event
\* that tells its state.
ReadsWell(t) ==
    t.pc \in {"create", "update", "number", "append", "transition", "commit"} =>
        \/ t.loaded = flow.state
        \/ \E d \in events : d.state = flow.state /\ WasBefore(t.loaded, d.seq)

\* The state of the workflow run is its first or an event's.
StateIsTold == flow.state = flow.began \/ \E e \in events : e.state = flow.state

Acts(t) == WritesWell(t) /\ NumbersWell(t) /\ ReadsWell(t)

LocksAreExclusive ==
    \A c, d \in Clients : c # d => tx[c].locks \cap tx[d].locks = {}

RepliesNameRuns == \A reply \in told : run[reply.key] # NoRun

HistoryInv ==
    /\ HistoryTypes
    /\ \A c \in Clients : Acts(tx[c])
    /\ LocksAreExclusive
    /\ RepliesNameRuns
    /\ RunsAreIdempotent
    /\ StateIsTold
    /\ IsFiniteSet(events)
    /\ TimelineIsComplete

\* The latest number is the number of events.
LEMMA LatestCounts ==
    ASSUME HistoryInv
    PROVE  Latest = Cardinality(events) /\ Latest \in Nat
  <1>1. Cardinality(events) \in Nat /\ (Cardinality(events) = 0 <=> events = {})
    BY FS_CardinalityType, FS_EmptySet DEF HistoryInv
  <1> DEFINE N == Cardinality(events)
             S == {e.seq : e \in events}
  <1>2. S = 1 .. N
    BY DEF HistoryInv, TimelineIsComplete
  <1>3. CASE events = {}
    BY <1>1, <1>3 DEF Latest
  <1>4. CASE events # {}
    <2>1. \A e \in events : e.seq \in 1 .. N
      BY <1>2
    <2>2. N \in S
      BY <1>1, <1>2, <1>4
    <2> DEFINE P(n) == \A e \in events : e.seq <= n
    <2>3. P(N)
      BY <1>1, <2>1
    <2>4. \A n \in S : P(n) => n = N
      <3> SUFFICES ASSUME NEW n \in S, P(n) PROVE n = N
        OBVIOUS
      <3>1. PICK e \in events : e.seq = N
        BY <2>2
      <3>2. N <= n
        BY <3>1
      <3>3. n \in 1 .. N
        BY <1>2
      <3> QED BY <1>1, <3>2, <3>3
    <2>5. Latest = CHOOSE n \in S : P(n)
      BY <1>4 DEF Latest
    <2> HIDE DEF P, S, N
    <2>6. Latest = N
      BY <2>2, <2>3, <2>4, <2>5
    <2> QED BY <1>1, <2>6 DEF N
  <1> QED BY <1>3, <1>4

\* Client c may go on with transaction t.
GoesOn(c, t) ==
    /\ t \in Transaction
    /\ Acts(t)
    /\ \A d \in Clients : d # c => t.locks \cap tx[d].locks = {}

\* A step that only moves one transaction.
LEMMA MoveStep ==
    ASSUME HistoryInv, NEW c \in Clients, NEW t, GoesOn(c, t), Move(c, t),
           UNCHANGED <<run, audited, flow, events, told, collided>>
    PROVE  HistoryInv'
  <1>1. /\ tx' \in [Clients -> Transaction]
        /\ tx'[c] = t
        /\ \A d \in Clients : d # c => tx'[d] = tx[d]
    BY DEF HistoryInv, HistoryTypes, Move, GoesOn
  <1>2. HistoryTypes'
    BY <1>1 DEF HistoryInv, HistoryTypes
  <1>3. ASSUME NEW d \in Clients PROVE Acts(tx[d])'
    <2>1. Acts(tx'[d])
      BY <1>1 DEF HistoryInv, GoesOn
    <2>2. tx[d]' = tx'[d]
      OBVIOUS
    <2> QED BY <2>1, <2>2 DEF Acts, WritesWell, NumbersWell, ReadsWell, WasBefore
  <1>4. LocksAreExclusive'
    BY <1>1 DEF HistoryInv, LocksAreExclusive, GoesOn
  <1>5. /\ RepliesNameRuns' /\ RunsAreIdempotent' /\ IsFiniteSet(events)'
        /\ TimelineIsComplete' /\ StateIsTold'
    BY DEF HistoryInv, RepliesNameRuns, RunsAreIdempotent, TimelineIsComplete, StateIsTold,
       WasBefore
  <1> QED BY <1>2, <1>3, <1>4, <1>5 DEF HistoryInv

\* A transaction may always end.
LEMMA ClosedGoesOn == ASSUME NEW c PROVE GoesOn(c, Closed)
  <1>1. Closed \in Transaction
    BY DEF Closed, Transaction, RunRow, NoRun
  <1>2. /\ Closed.pc = "idle" /\ Closed.op = "none" /\ Closed.seq = 0
        /\ Closed.locks = {}
    BY DEF Closed
  <1> QED BY <1>1, <1>2 DEF GoesOn, Acts, WritesWell, NumbersWell, ReadsWell

\* A transaction goes on through the history of the workflow at p with number
\* n and locks L.
LEMMA HistoryGoesOn ==
    ASSUME HistoryInv, NEW c \in Clients,
           tx[c].pc \in {"ensure", "create", "update", "number", "append"},
           NEW p \in {"create", "update", "number", "append", "transition", "commit"},
           NEW n \in Nat, NEW L \in SUBSET (Keys \cup {"flow"}),
           p = "transition" => tx[c].op = "decision",
           p = "commit" => tx[c].op # "decision",
           tx[c].locks \subseteq L,
           \A d \in Clients : d # c => L \cap tx[d].locks = {},
           n # 0 => /\ p \in {"append", "transition", "commit"}
                    /\ n = Cardinality(events) + 1,
           p = "append" => n # 0,
           p = "number" \/ n # 0 => "flow" \in L,
           NEW s \in FlowStates \cup {"none"},
           s = flow.state \/ (tx[c].pc # "ensure" /\ s = tx[c].loaded)
    PROVE  GoesOn(c, [tx[c] EXCEPT !.pc = p, !.loaded = s, !.seq = n, !.locks = L])
  <1> DEFINE t == [tx[c] EXCEPT !.pc = p, !.loaded = s, !.seq = n, !.locks = L]
  <1>1. tx[c] \in Transaction /\ WritesWell(tx[c]) /\ ReadsWell(tx[c])
    BY DEF HistoryInv, HistoryTypes, Acts
  <1>2. /\ t \in Transaction
        /\ t.pc = p /\ t.loaded = s /\ t.seq = n /\ t.locks = L
        /\ t.op = tx[c].op /\ t.key = tx[c].key /\ t.row = tx[c].row
    BY <1>1 DEF Transaction
  <1> HIDE DEF t
  <1>3. WritesWell(t)
    BY <1>1, <1>2 DEF WritesWell
  <1>4. NumbersWell(t)
    BY <1>2 DEF NumbersWell
  <1>5. ReadsWell(t)
    BY <1>1, <1>2 DEF ReadsWell
  <1>6. GoesOn(c, t)
    BY <1>2, <1>3, <1>4, <1>5 DEF GoesOn, Acts
  <1> QED BY <1>6 DEF t

\* What a lock taken under Free adds.
LEMMA FreeLock ==
    ASSUME HistoryInv, NEW c \in Clients, NEW x \in Keys \cup {"flow"}, Free(c, x)
    PROVE  /\ tx[c].locks \cup {x} \in SUBSET (Keys \cup {"flow"})
           /\ \A d \in Clients : d # c => (tx[c].locks \cup {x}) \cap tx[d].locks = {}
  <1>1. tx[c].locks \in SUBSET (Keys \cup {"flow"})
    BY DEF HistoryInv, HistoryTypes, Transaction
  <1>2. \A d \in Clients : d # c => x \notin tx[d].locks /\ tx[c].locks \cap tx[d].locks = {}
    BY DEF HistoryInv, LocksAreExclusive, Free
  <1> QED BY <1>1, <1>2

LEMMA EnsureFlowStep ==
    ASSUME HistoryInv, NEW c \in Clients, EnsureFlow(c) PROVE HistoryInv'
  <1> DEFINE p == IF flow.exists THEN "update" ELSE IF traced THEN "create"
                  ELSE AfterHistory(c)
             t == [tx[c] EXCEPT !.pc = p, !.loaded = flow.state, !.seq = tx[c].seq,
                                !.locks = tx[c].locks]
  <1>1. tx[c] \in Transaction /\ NumbersWell(tx[c]) /\ tx[c].pc = "ensure"
    BY DEF HistoryInv, HistoryTypes, Acts, EnsureFlow
  <1>2. tx[c].seq = 0 /\ tx[c].seq \in Nat /\ tx[c].locks \in SUBSET (Keys \cup {"flow"})
    BY <1>1 DEF NumbersWell, Transaction
  <1>3. \A d \in Clients : d # c => tx[c].locks \cap tx[d].locks = {}
    BY DEF HistoryInv, LocksAreExclusive
  <1>4. /\ p \in {"create", "update", "transition", "commit"}
        /\ p = "transition" => tx[c].op = "decision"
        /\ p = "commit" => tx[c].op # "decision"
    BY DEF AfterHistory
  <1>5. Move(c, t)
    <2>1. Move(c, [tx[c] EXCEPT !.loaded = flow.state, !.pc = p])
      BY DEF EnsureFlow
    <2> HIDE DEF p
    <2> QED BY <1>1, <2>1 DEF Move, Transaction
  <1> HIDE DEF p
  <1>6. flow.state \in FlowStates \cup {"none"}
    BY DEF HistoryInv, HistoryTypes
  <1>7. GoesOn(c, t)
    BY <1>1, <1>2, <1>3, <1>4, <1>6, HistoryGoesOn
  <1> QED BY <1>5, <1>7, MoveStep DEF EnsureFlow, tableVarsOfHistory

LEMMA CreateFlowStep ==
    ASSUME HistoryInv, NEW c \in Clients, CreateFlow(c) PROVE HistoryInv'
  <1> DEFINE L == tx[c].locks \cup {"flow"}
             t == [tx[c] EXCEPT !.pc = "update", !.loaded = tx[c].loaded, !.seq = tx[c].seq,
                                !.locks = L]
  <1>1. /\ tx[c] \in Transaction /\ NumbersWell(tx[c]) /\ tx[c].pc = "create"
        /\ tx[c].loaded \in FlowStates \cup {"none"}
    BY DEF HistoryInv, HistoryTypes, Acts, Transaction, CreateFlow
  <1>2. tx[c].seq = 0 /\ tx[c].seq \in Nat
    BY <1>1 DEF NumbersWell, Transaction
  <1>3. /\ L \in SUBSET (Keys \cup {"flow"})
        /\ \A d \in Clients : d # c => L \cap tx[d].locks = {}
        /\ tx[c].locks \subseteq L
    BY FreeLock DEF CreateFlow
  <1>4. CASE flow.exists
    BY <1>4, ClosedGoesOn, MoveStep DEF CreateFlow, tableVarsOfHistory
  <1>5. CASE ~flow.exists
    <2>1. Move(c, t)
      <3>1. Move(c, [tx[c] EXCEPT !.pc = "update", !.locks = L])
        BY <1>1, <1>5 DEF CreateFlow, Transaction
      <3> HIDE DEF L
      <3> QED BY <1>1, <3>1 DEF Move, Transaction
    <2> HIDE DEF L
    <2>2. GoesOn(c, t)
      BY <1>1, <1>2, <1>3, HistoryGoesOn
    <2> QED BY <2>1, <2>2, MoveStep DEF CreateFlow, tableVarsOfHistory
  <1> QED BY <1>4, <1>5

LEMMA UpdateFlowStep ==
    ASSUME HistoryInv, NEW c \in Clients, UpdateFlow(c) PROVE HistoryInv'
  <1> DEFINE L == tx[c].locks \cup {"flow"}
             t == [tx[c] EXCEPT !.pc = "number", !.loaded = tx[c].loaded, !.seq = tx[c].seq,
                                !.locks = L]
  <1>1. /\ tx[c] \in Transaction /\ NumbersWell(tx[c]) /\ tx[c].pc = "update"
        /\ tx[c].loaded \in FlowStates \cup {"none"}
    BY DEF HistoryInv, HistoryTypes, Acts, Transaction, UpdateFlow
  <1>2. tx[c].seq = 0 /\ tx[c].seq \in Nat
    BY <1>1 DEF NumbersWell, Transaction
  <1>3. /\ L \in SUBSET (Keys \cup {"flow"})
        /\ \A d \in Clients : d # c => L \cap tx[d].locks = {}
        /\ tx[c].locks \subseteq L /\ "flow" \in L
    BY FreeLock DEF UpdateFlow
  <1>4. Move(c, t)
    <2>1. Move(c, [tx[c] EXCEPT !.pc = "number", !.locks = L])
      BY <1>1 DEF UpdateFlow, Transaction
    <2> HIDE DEF L
    <2> QED BY <1>1, <2>1 DEF Move, Transaction
  <1> HIDE DEF L
  <1>5. GoesOn(c, t)
    BY <1>1, <1>2, <1>3, HistoryGoesOn
  <1> QED BY <1>4, <1>5, MoveStep DEF UpdateFlow, tableVarsOfHistory

LEMMA NumberEventStep ==
    ASSUME HistoryInv, NEW c \in Clients, NumberEvent(c) PROVE HistoryInv'
  <1> DEFINE n == Cardinality(events) + 1
             t == [tx[c] EXCEPT !.pc = "append", !.loaded = tx[c].loaded, !.seq = n,
                                !.locks = tx[c].locks]
  <1>1. /\ tx[c] \in Transaction /\ NumbersWell(tx[c]) /\ tx[c].pc = "number"
        /\ tx[c].loaded \in FlowStates \cup {"none"}
    BY DEF HistoryInv, HistoryTypes, Acts, Transaction, NumberEvent
  <1>2. Latest + 1 = n /\ n \in Nat /\ n # 0
    BY LatestCounts
  <1>3. Move(c, t)
    <2>1. Move(c, [tx[c] EXCEPT !.pc = "append", !.seq = n])
      BY <1>2 DEF NumberEvent
    <2> HIDE DEF n
    <2> QED BY <1>1, <2>1 DEF Move, Transaction
  <1>4. /\ tx[c].locks \in SUBSET (Keys \cup {"flow"})
        /\ "flow" \in tx[c].locks
    BY <1>1 DEF NumbersWell, Transaction
  <1>5. \A d \in Clients : d # c => tx[c].locks \cap tx[d].locks = {}
    BY DEF HistoryInv, LocksAreExclusive
  <1>6. n = Cardinality(events) + 1
    OBVIOUS
  <1> HIDE DEF n
  <1>7. GoesOn(c, t)
    BY <1>1, <1>2, <1>4, <1>5, <1>6, HistoryGoesOn
  <1> QED BY <1>3, <1>7, MoveStep DEF NumberEvent, tableVarsOfHistory

LEMMA AppendEventStep ==
    ASSUME HistoryInv, NEW c \in Clients, AppendEvent(c) PROVE HistoryInv'
  <1> DEFINE t == [tx[c] EXCEPT !.pc = AfterHistory(c), !.loaded = tx[c].loaded,
                                !.seq = tx[c].seq, !.locks = tx[c].locks]
  <1>1. /\ tx[c] \in Transaction /\ NumbersWell(tx[c]) /\ tx[c].pc = "append"
        /\ tx[c].loaded \in FlowStates \cup {"none"}
    BY DEF HistoryInv, HistoryTypes, Acts, Transaction, AppendEvent
  <1>2. /\ tx[c].seq # 0 /\ tx[c].seq = Cardinality(events) + 1
        /\ "flow" \in tx[c].locks
        /\ tx[c].seq \in Nat
        /\ tx[c].locks \in SUBSET (Keys \cup {"flow"})
    BY <1>1 DEF NumbersWell, Transaction
  <1>3. ~ \E e \in events : e.seq = tx[c].seq
    <2>1. \A e \in events : e.seq \in 1 .. Cardinality(events)
      BY DEF HistoryInv, TimelineIsComplete
    <2>2. Cardinality(events) \in Nat
      BY LatestCounts
    <2> QED BY <1>2, <2>1, <2>2
  <1>4. /\ Move(c, [tx[c] EXCEPT !.pc = AfterHistory(c)])
        /\ UNCHANGED <<run, audited, flow, events, told, collided>>
    BY <1>3 DEF AppendEvent
  <1>5. /\ AfterHistory(c) \in {"transition", "commit"}
        /\ AfterHistory(c) = "transition" => tx[c].op = "decision"
        /\ AfterHistory(c) = "commit" => tx[c].op # "decision"
    BY DEF AfterHistory
  <1>6. \A d \in Clients : d # c => tx[c].locks \cap tx[d].locks = {}
    BY DEF HistoryInv, LocksAreExclusive
  <1>7. GoesOn(c, t)
    BY <1>1, <1>2, <1>5, <1>6, HistoryGoesOn
  <1>8. Move(c, t)
    BY <1>1, <1>4 DEF Move, Transaction
  <1> QED BY <1>4, <1>7, <1>8, MoveStep

\* A transaction may begin, with nothing locked.
LEMMA OpenGoesOn ==
    ASSUME NEW c, NEW p \in {"insert", "result", "ensure"},
           NEW op \in {"request", "outcome", "decision"},
           NEW k \in Keys \cup {"none"}, NEW row \in RunRow,
           p = "insert" <=> op = "request",
           p = "result" <=> op = "outcome",
           op = "request" => /\ k \in RunKeys
                             /\ row.payload \in RunPayloads
                             /\ row.status \in {"approval_required", "preview"},
           op = "outcome" => /\ k \in Keys
                             /\ run[k] # NoRun
                             /\ row.payload = run[k].payload
                             /\ row.status \in Outcomes
    PROVE  GoesOn(c, [Closed EXCEPT !.pc = p, !.op = op, !.key = k, !.row = row])
  <1> DEFINE t == [Closed EXCEPT !.pc = p, !.op = op, !.key = k, !.row = row]
  <1>1. Closed \in Transaction
    BY ClosedGoesOn DEF GoesOn
  <1>2. Closed.seq = 0 /\ Closed.locks = {}
    BY DEF Closed
  <1>3. /\ t \in Transaction
        /\ t.pc = p /\ t.op = op /\ t.key = k /\ t.row = row
        /\ t.seq = 0 /\ t.locks = {}
    BY <1>1, <1>2 DEF Transaction
  <1> HIDE DEF t
  <1>4. Acts(t)
    BY <1>3 DEF Acts, WritesWell, NumbersWell, ReadsWell
  <1>5. GoesOn(c, t)
    BY <1>3, <1>4 DEF GoesOn
  <1> QED BY <1>5 DEF t

LEMMA ReplayStep ==
    ASSUME HistoryInv, NEW c \in Clients, NEW k \in RunKeys, NEW payload \in RunPayloads,
           run[k] # NoRun, Replay(c, k, payload)
    PROVE  HistoryInv'
  <1> DEFINE reply == [key |-> k, payload |-> payload]
  <1>1. /\ tx' \in [Clients -> Transaction]
        /\ tx'[c] = Closed
        /\ \A d \in Clients : d # c => tx'[d] = tx[d]
    BY ClosedGoesOn DEF HistoryInv, HistoryTypes, Replay, Move, GoesOn
  <1>2. /\ UNCHANGED <<run, audited, flow, events, collided>>
        /\ told' = told \/ (run[k].payload = payload /\ told' = told \cup {reply})
    BY DEF Replay
  <1>3. HistoryTypes'
    BY <1>1, <1>2 DEF HistoryInv, HistoryTypes
  <1>4. ASSUME NEW d \in Clients PROVE Acts(tx[d])'
    <2>1. Acts(tx'[d])
      BY <1>1, ClosedGoesOn DEF HistoryInv, GoesOn
    <2> QED BY <1>2, <2>1 DEF Acts, WritesWell, NumbersWell, ReadsWell, WasBefore
  <1>5. LocksAreExclusive'
    <2>1. Closed.locks = {}
      BY DEF Closed
    <2> QED BY <1>1, <2>1 DEF HistoryInv, LocksAreExclusive
  <1>6. \A a \in told' : a \in told \/ (a.key = k /\ a.payload = run[k].payload)
    BY <1>2
  <1>7. RepliesNameRuns' /\ RunsAreIdempotent'
    BY <1>2, <1>6 DEF HistoryInv, RepliesNameRuns, RunsAreIdempotent
  <1>8. IsFiniteSet(events)' /\ TimelineIsComplete' /\ StateIsTold'
    BY <1>2 DEF HistoryInv, TimelineIsComplete, StateIsTold, WasBefore
  <1> QED BY <1>3, <1>4, <1>5, <1>7, <1>8 DEF HistoryInv

LEMMA RequestRunStep ==
    ASSUME HistoryInv, NEW c \in Clients, NEW k \in RunKeys, NEW payload \in RunPayloads,
           NEW status \in {"approval_required", "preview"},
           RequestRun(c, k, payload, status)
    PROVE  HistoryInv'
  <1> DEFINE row == [payload |-> payload, status |-> status]
             t == [Closed EXCEPT !.pc = "insert", !.op = "request", !.key = k, !.row = row]
  <1>1. CASE run[k] # NoRun
    BY <1>1, ReplayStep DEF RequestRun
  <1>2. CASE run[k] = NoRun
    <2>1. Move(c, t) /\ UNCHANGED <<run, audited, flow, events, told, collided>>
      BY <1>2 DEF RequestRun, tableVarsOfHistory
    <2>2. row \in RunRow /\ row.payload = payload /\ row.status = status
      BY DEF RunRow
    <2> HIDE DEF row
    <2>3. GoesOn(c, t)
      BY <2>2, OpenGoesOn DEF Keys
    <2> QED BY <2>1, <2>3, MoveStep
  <1> QED BY <1>1, <1>2

\* A transaction takes the lock of its key and begins its history.
LEMMA LockGoesOn ==
    ASSUME HistoryInv, NEW c \in Clients, tx[c].pc \in {"insert", "result"},
           tx[c].key \in Keys, Free(c, tx[c].key),
           tx[c].op = "request" => run[tx[c].key] = NoRun
    PROVE  GoesOn(c, [tx[c] EXCEPT !.pc = "ensure", !.locks = {tx[c].key}])
  <1> DEFINE L == {tx[c].key}
             t == [tx[c] EXCEPT !.pc = "ensure", !.locks = L]
  <1>1. tx[c] \in Transaction /\ WritesWell(tx[c]) /\ NumbersWell(tx[c])
    BY DEF HistoryInv, HistoryTypes, Acts
  <1>2. /\ L \in SUBSET (Keys \cup {"flow"}) /\ tx[c].key \in L
        /\ \A d \in Clients : d # c => L \cap tx[d].locks = {}
    BY DEF Free
  <1> HIDE DEF L
  <1>3. /\ t \in Transaction
        /\ t.pc = "ensure" /\ t.seq = tx[c].seq /\ t.locks = L
        /\ t.op = tx[c].op /\ t.key = tx[c].key /\ t.row = tx[c].row
    BY <1>1, <1>2 DEF Transaction
  <1> HIDE DEF t
  <1>4. WritesWell(t)
    BY <1>1, <1>2, <1>3 DEF WritesWell
  <1>5. NumbersWell(t)
    BY <1>1, <1>3 DEF NumbersWell
  <1>6. GoesOn(c, t)
    BY <1>2, <1>3, <1>4, <1>5 DEF GoesOn, Acts, ReadsWell
  <1> QED BY <1>6 DEF t, L

LEMMA InsertRunStep ==
    ASSUME HistoryInv, NEW c \in Clients, InsertRun(c) PROVE HistoryInv'
  <1>1. WritesWell(tx[c]) /\ tx[c].pc = "insert"
    BY DEF HistoryInv, Acts, InsertRun
  <1>2. tx[c].key \in RunKeys /\ tx[c].row.payload \in RunPayloads
    BY <1>1 DEF WritesWell
  <1>3. CASE Taken(tx[c].key)
    BY <1>2, <1>3, ReplayStep DEF InsertRun, Taken
  <1>4. CASE ~Taken(tx[c].key)
    <2>1. GoesOn(c, [tx[c] EXCEPT !.pc = "ensure", !.locks = {tx[c].key}])
      BY <1>1, <1>2, <1>4, LockGoesOn DEF InsertRun, Taken, Keys
    <2> QED BY <1>4, <2>1, MoveStep DEF InsertRun, tableVarsOfHistory
  <1> QED BY <1>3, <1>4

LEMMA RecordResultStep ==
    ASSUME HistoryInv, NEW c \in Clients, RecordResult(c) PROVE HistoryInv'
  <1>1. WritesWell(tx[c]) /\ tx[c].pc = "result" /\ Free(c, tx[c].key)
    BY DEF HistoryInv, Acts, RecordResult
  <1>2. tx[c].key \in Keys /\ tx[c].op = "outcome"
    BY <1>1 DEF WritesWell
  <1>3. GoesOn(c, [tx[c] EXCEPT !.pc = "ensure", !.locks = {tx[c].key}])
    BY <1>1, <1>2, LockGoesOn
  <1> QED BY <1>3, MoveStep DEF RecordResult, tableVarsOfHistory

LEMMA RequestOutcomeStep ==
    ASSUME HistoryInv, NEW c \in Clients, NEW k \in Keys, NEW outcome \in Outcomes,
           RequestOutcome(c, k, outcome)
    PROVE  HistoryInv'
  <1> DEFINE row == [run[k] EXCEPT !.status = outcome]
             t == [Closed EXCEPT !.pc = "result", !.op = "outcome", !.key = k, !.row = row]
  <1>1. /\ Move(c, t) /\ UNCHANGED <<run, audited, flow, events, told, collided>>
        /\ run[k] # NoRun
    BY DEF RequestOutcome, tableVarsOfHistory
  <1>2. run[k] \in RunRow
    BY DEF HistoryInv, HistoryTypes
  <1>3. row \in RunRow /\ row.payload = run[k].payload /\ row.status \in Outcomes
    BY <1>2 DEF RunRow
  <1> HIDE DEF row
  <1>4. GoesOn(c, t)
    BY <1>1, <1>3, OpenGoesOn
  <1> QED BY <1>1, <1>4, MoveStep

LEMMA DecideApprovalStep ==
    ASSUME HistoryInv, NEW c \in Clients, DecideApproval(c) PROVE HistoryInv'
  <1> DEFINE t == [Closed EXCEPT !.pc = "ensure", !.op = "decision"]
             u == [Closed EXCEPT !.pc = "ensure", !.op = "decision", !.key = "none",
                                 !.row = NoRun]
  <1>1. Closed \in Transaction /\ NoRun \in RunRow
    BY ClosedGoesOn DEF GoesOn, NoRun, RunRow
  <1>2. Closed.key = "none" /\ Closed.row = NoRun
    BY DEF Closed
  <1>3. t = u
    BY <1>1, <1>2 DEF Transaction
  <1>4. GoesOn(c, u)
    BY <1>1, OpenGoesOn
  <1> QED BY <1>3, <1>4, MoveStep DEF DecideApproval, tableVarsOfHistory

LEMMA TransitionRunStep ==
    ASSUME HistoryInv, NEW c \in Clients, TransitionRun(c) PROVE HistoryInv'
  <1> DEFINE Row(k) == [run[k] EXCEPT !.status = "decided"]
             L(k) == tx[c].locks \cup {k}
             t(k) == [tx[c] EXCEPT !.pc = "commit", !.key = k, !.row = Row(k),
                                   !.locks = L(k)]
  <1>1. PICK k \in Keys : /\ Free(c, k)
                          /\ k \in RunKeys => run[k] # NoRun
                          /\ Move(c, [tx[c] EXCEPT !.pc = "commit", !.key = k,
                                  !.row = [run[k] EXCEPT !.status = "decided"],
                                  !.locks = @ \cup {k}])
    BY HistoryAssumption DEF TransitionRun, Keys
  <1>2. /\ tx[c] \in Transaction /\ WritesWell(tx[c]) /\ NumbersWell(tx[c])
        /\ ReadsWell(tx[c]) /\ tx[c].pc = "transition" /\ run[k] \in RunRow
    BY DEF HistoryInv, HistoryTypes, Acts, TransitionRun
  <1>3. Row(k) \in RunRow /\ Row(k).payload = run[k].payload /\ Row(k).status = "decided"
    BY <1>2 DEF RunRow
  <1>4. /\ L(k) \in SUBSET (Keys \cup {"flow"}) /\ k \in L(k)
        /\ tx[c].locks \subseteq L(k)
        /\ \A d \in Clients : d # c => L(k) \cap tx[d].locks = {}
    BY <1>1, FreeLock
  <1>5. Move(c, t(k))
    BY <1>1, <1>2 DEF Transaction
  <1> HIDE DEF Row, L
  <1>6. /\ t(k) \in Transaction
        /\ t(k).pc = "commit" /\ t(k).seq = tx[c].seq /\ t(k).locks = L(k)
        /\ t(k).op = tx[c].op /\ t(k).key = k /\ t(k).row = Row(k)
        /\ t(k).loaded = tx[c].loaded
    BY <1>2, <1>3, <1>4 DEF Transaction
  <1> HIDE DEF t
  <1>7. WritesWell(t(k))
    BY <1>1, <1>2, <1>3, <1>4, <1>6 DEF WritesWell
  <1>8. NumbersWell(t(k))
    BY <1>2, <1>4, <1>6 DEF NumbersWell
  <1>9. ReadsWell(t(k))
    BY <1>2, <1>6 DEF ReadsWell
  <1>10. GoesOn(c, t(k))
    BY <1>4, <1>6, <1>7, <1>8, <1>9 DEF GoesOn, Acts
  <1> QED BY <1>5, <1>10, MoveStep DEF TransitionRun, tableVarsOfHistory

\* What a commit does to the rows of the action runs.
LEMMA CommitWrites ==
    ASSUME HistoryInv, NEW c \in Clients, CommitTx(c)
    PROVE  /\ tx[c].key \in Keys
           /\ tx[c].row \in RunRow /\ tx[c].row # NoRun
           /\ run'[tx[c].key] = tx[c].row
           /\ \A j \in Keys : j # tx[c].key => run'[j] = run[j]
           /\ tx[c].op = "request" => /\ tx[c].key \in RunKeys
                                      /\ run[tx[c].key] = NoRun
                                      /\ tx[c].row.payload \in RunPayloads
           /\ tx[c].op # "request" => /\ tx[c].row.payload = run[tx[c].key].payload
                                      /\ tx[c].key \in RunKeys => run[tx[c].key] # NoRun
           /\ tx[c].key \in tx[c].locks \/ run[tx[c].key] # NoRun
           /\ tx[c].op \in {"request", "outcome", "decision"}
  <1>1. tx[c] \in Transaction /\ WritesWell(tx[c]) /\ tx[c].pc = "commit"
    BY DEF HistoryInv, HistoryTypes, Acts, CommitTx
  <1>2. tx[c].row \in RunRow /\ tx[c].op \in {"request", "outcome", "decision"}
    BY <1>1 DEF Transaction, WritesWell
  <1>3. /\ tx[c].key \in Keys /\ tx[c].row.status # "absent"
        /\ tx[c].op = "request" => /\ tx[c].key \in RunKeys
                                   /\ run[tx[c].key] = NoRun
                                   /\ tx[c].row.payload \in RunPayloads
        /\ tx[c].op # "request" => /\ tx[c].row.payload = run[tx[c].key].payload
                                   /\ tx[c].key \in RunKeys => run[tx[c].key] # NoRun
        /\ tx[c].key \in tx[c].locks \/ run[tx[c].key] # NoRun
    BY <1>1, <1>2 DEF WritesWell, Keys, Outcomes
  <1>4. tx[c].row # NoRun
    BY <1>3 DEF NoRun
  <1>5. /\ run'[tx[c].key] = tx[c].row
        /\ \A j \in Keys : j # tx[c].key => run'[j] = run[j]
    BY <1>3 DEF CommitTx, HistoryInv, HistoryTypes
  <1> QED BY <1>2, <1>3, <1>4, <1>5

\* What it does to the timeline: the new event is the latest, and the state of
\* the run is the new one unless that is the one that was read.
LEMMA CommitTells ==
    ASSUME HistoryInv, NEW c \in Clients, CommitTx(c), tx[c].seq # 0
    PROVE  \E e : /\ events' = events \cup {e} /\ e \notin events
                  /\ e.seq = Cardinality(events) + 1 /\ Cardinality(events) \in Nat
                  /\ \A d \in events : d.seq \in 1 .. Cardinality(events)
                  /\ flow'.began = flow.began
                  /\ \/ flow'.state = e.state
                     \/ flow'.state = flow.state /\ e.state = tx[c].loaded
  <1>1. tx[c].seq = Cardinality(events) + 1 /\ Cardinality(events) \in Nat
    BY LatestCounts DEF HistoryInv, Acts, NumbersWell
  <1>2. PICK st : st = StateSet(tx[c])
    OBVIOUS
  <1>3. PICK e : e = [seq |-> tx[c].seq, state |-> st]
    OBVIOUS
  <1>4. e.seq = Cardinality(events) + 1 /\ e.state = st
    BY <1>1, <1>3
  <1>5. /\ events' = events \cup {e}
        /\ flow' = [flow EXCEPT !.exists = TRUE, !.state = Flushed(tx[c])]
    BY <1>2, <1>3 DEF CommitTx
  <1>6. flow'.began = flow.began /\ flow'.state = Flushed(tx[c])
    BY <1>5 DEF HistoryInv, HistoryTypes
  <1>7. \A d \in events : d.seq \in 1 .. Cardinality(events)
    BY DEF HistoryInv, TimelineIsComplete
  <1>8. e \notin events
    BY <1>1, <1>4, <1>7
  <1> QED BY <1>1, <1>2, <1>4, <1>5, <1>6, <1>7, <1>8 DEF Flushed

\* What a transaction loaded stays explained.
LEMMA CommitExplains ==
    ASSUME HistoryInv, NEW c \in Clients, CommitTx(c), NEW t, ReadsWell(t)
    PROVE  ReadsWell(t)'
  <1>1. CASE tx[c].seq = 0
    <2>1. flow' = flow /\ events' = events
      BY <1>1 DEF CommitTx
    <2> QED BY <2>1 DEF ReadsWell, WasBefore
  <1>2. CASE tx[c].seq # 0
    <2>1. PICK e : /\ events' = events \cup {e} /\ e \notin events
                   /\ e.seq = Cardinality(events) + 1 /\ Cardinality(events) \in Nat
                   /\ \A d \in events : d.seq \in 1 .. Cardinality(events)
                   /\ flow'.began = flow.began
                   /\ \/ flow'.state = e.state
                      \/ flow'.state = flow.state /\ e.state = tx[c].loaded
      BY <1>2, CommitTells
    <2>2. \A d \in events : d.seq < e.seq /\ d \in events'
      BY <2>1
    <2>3. CASE flow'.state = flow.state
      BY <2>1, <2>3 DEF ReadsWell, WasBefore
    <2>4. CASE flow'.state = e.state
      <3> SUFFICES ASSUME t.pc \in {"create", "update", "number", "append", "transition", "commit"}
                   PROVE  \E d \in events' : /\ d.state = flow'.state
                                             /\ \/ t.loaded = flow'.began
                                                \/ \E m \in events' : m.seq < d.seq /\ m.state = t.loaded
        BY DEF ReadsWell, WasBefore
      <3>1. t.loaded = flow.began \/ \E m \in events : m.state = t.loaded
        BY DEF ReadsWell, WasBefore, HistoryInv, StateIsTold
      <3> QED BY <2>1, <2>2, <2>4, <3>1
    <2> QED BY <2>1, <2>3, <2>4
  <1> QED BY <1>1, <1>2

LEMMA CommitNumbers ==
    ASSUME HistoryInv, NEW c \in Clients, CommitTx(c)
    PROVE  /\ IsFiniteSet(events')
           /\ TimelineIsComplete' /\ StateIsTold'
           /\ tx[c].seq = 0 => events' = events
  <1>1. /\ tx[c] \in Transaction /\ ReadsWell(tx[c]) /\ tx[c].pc = "commit"
        /\ collided' = collided
    BY DEF HistoryInv, HistoryTypes, Acts, CommitTx
  <1>2. CASE tx[c].seq = 0
    BY <1>1, <1>2 DEF CommitTx, HistoryInv, TimelineIsComplete, StateIsTold, WasBefore
  <1>3. CASE tx[c].seq # 0
    <2>1. PICK e : /\ events' = events \cup {e} /\ e \notin events
                   /\ e.seq = Cardinality(events) + 1 /\ Cardinality(events) \in Nat
                   /\ \A d \in events : d.seq \in 1 .. Cardinality(events)
                   /\ flow'.began = flow.began
                   /\ \/ flow'.state = e.state
                      \/ flow'.state = flow.state /\ e.state = tx[c].loaded
      BY <1>3, CommitTells
    <2> DEFINE N == Cardinality(events)
    <2>3. {d.seq : d \in events} = 1 .. N /\ IsFiniteSet(events) /\ ~collided
      BY DEF HistoryInv, TimelineIsComplete
    <2>7. IsFiniteSet(events') /\ Cardinality(events') = N + 1
      BY <2>1, <2>3, FS_AddElement
    <2>4. N \in Nat /\ e.seq = N + 1 /\ \A d \in events : d.seq < e.seq /\ d \in events'
      BY <2>1
    <2> HIDE DEF N
    <2>8. {d.seq : d \in events'} = 1 .. N + 1
      <3>1. {d.seq : d \in events'} = {d.seq : d \in events} \cup {e.seq}
        BY <2>1
      <3>2. 1 .. N + 1 = (1 .. N) \cup {N + 1}
        BY <2>4
      <3> QED BY <2>3, <2>4, <3>1, <3>2
    <2>9. ASSUME NEW f \in events', f.seq = N + 1
          PROVE  \/ flow'.state = f.state
                 \/ \E d \in events' : /\ d.seq < f.seq /\ d.state = flow'.state
                                       /\ WasBefore(f.state, d.seq)'
      <3>1. f = e
        BY <2>1, <2>4, <2>9
      <3>2. CASE flow'.state = flow.state /\ e.state = tx[c].loaded
        <4>1. CASE tx[c].loaded = flow.state
          BY <3>1, <3>2, <4>1
        <4>2. CASE tx[c].loaded # flow.state
          <5>1. PICK d \in events : d.state = flow.state /\ WasBefore(tx[c].loaded, d.seq)
            BY <1>1, <4>2 DEF ReadsWell
          <5>2. WasBefore(e.state, d.seq)'
            BY <2>1, <3>2, <5>1 DEF WasBefore
          <5> QED BY <2>4, <3>1, <3>2, <5>1, <5>2
        <4> QED BY <4>1, <4>2
      <3> QED BY <2>1, <3>1, <3>2
    <2>10. TimelineIsComplete'
      BY <1>1, <2>3, <2>7, <2>8, <2>9 DEF TimelineIsComplete
    <2>11. StateIsTold'
      BY <2>1 DEF HistoryInv, StateIsTold
    <2> QED BY <1>3, <2>7, <2>10, <2>11
  <1> QED BY <1>2, <1>3

LEMMA CommitTxStep ==
    ASSUME HistoryInv, NEW c \in Clients, CommitTx(c) PROVE HistoryInv'
  <1> DEFINE k == tx[c].key
  <1>1. /\ tx' \in [Clients -> Transaction]
        /\ tx'[c] = Closed
        /\ \A d \in Clients : d # c => tx'[d] = tx[d]
    BY ClosedGoesOn DEF HistoryInv, HistoryTypes, CommitTx, Move, GoesOn
  <1>2. /\ k \in Keys
        /\ tx[c].row \in RunRow /\ tx[c].row # NoRun
        /\ run'[k] = tx[c].row
        /\ \A j \in Keys : j # k => run'[j] = run[j]
        /\ tx[c].op = "request" => /\ k \in RunKeys
                                   /\ run[k] = NoRun
                                   /\ tx[c].row.payload \in RunPayloads
        /\ tx[c].op # "request" => /\ tx[c].row.payload = run[k].payload
                                   /\ k \in RunKeys => run[k] # NoRun
        /\ k \in tx[c].locks \/ run[k] # NoRun
        /\ tx[c].op \in {"request", "outcome", "decision"}
    BY CommitWrites
  <1>3. RunKeys \subseteq Keys
    BY DEF Keys
  <1>4. \A j \in Keys : run[j] # NoRun =>
           run'[j] # NoRun /\ run'[j].payload = run[j].payload
    BY <1>2
  <1>5. HistoryTypes'
    <2>1. run' \in [Keys -> RunRow]
      BY <1>2 DEF CommitTx, HistoryInv, HistoryTypes
    <2>2. audited' \in [Keys -> Nat]
      BY <1>2 DEF CommitTx, HistoryInv, HistoryTypes
    <2>3. told' \subseteq [key : RunKeys, payload : RunPayloads]
      BY <1>2 DEF CommitTx, HistoryInv, HistoryTypes
    <2>4. flow' \in [exists : BOOLEAN, state : FlowStates, began : FlowStates]
      <3>1. StateSet(tx[c]) \in FlowStates
        BY DEF StateSet, FlowStates
      <3>2. Flushed(tx[c]) \in FlowStates
        BY <3>1 DEF Flushed, HistoryInv, HistoryTypes
      <3>3. flow' = flow \/ flow' = [flow EXCEPT !.exists = TRUE, !.state = Flushed(tx[c])]
        BY DEF CommitTx
      <3> QED BY <3>2, <3>3 DEF HistoryInv, HistoryTypes
    <2> QED BY <1>1, <2>1, <2>2, <2>3, <2>4 DEF HistoryTypes
  <1>6. ASSUME NEW d \in Clients PROVE Acts(tx[d])'
    <2>1. CASE d = c
      <3>1. /\ Closed.pc = "idle" /\ Closed.op = "none" /\ Closed.seq = 0
        BY DEF Closed
      <3> QED BY <1>1, <2>1, <3>1 DEF Acts, WritesWell, NumbersWell, ReadsWell
    <2>2. CASE d # c
      <3>1. /\ tx'[d] = tx[d] /\ WritesWell(tx[d]) /\ NumbersWell(tx[d]) /\ ReadsWell(tx[d])
            /\ tx[c].locks \cap tx[d].locks = {}
        BY <1>1, <2>2 DEF HistoryInv, Acts, LocksAreExclusive
      <3>2. tx[d].op = "request" /\ tx[d].pc # "insert" => run'[tx[d].key] = NoRun
        <4> SUFFICES ASSUME tx[d].op = "request", tx[d].pc # "insert"
                     PROVE  run'[tx[d].key] = NoRun
          OBVIOUS
        <4>1. tx[d].key \in RunKeys /\ tx[d].key \in tx[d].locks /\ run[tx[d].key] = NoRun
          BY <3>1 DEF WritesWell
        <4>2. tx[d].key # k
          BY <1>2, <3>1, <4>1
        <4> QED BY <1>2, <1>3, <4>1, <4>2
      <3>3. tx[d].op = "decision" /\ tx[d].pc = "commit" =>
               /\ tx[d].key \in RunKeys => run'[tx[d].key] # NoRun
               /\ tx[d].row.payload = run'[tx[d].key].payload
        <4> SUFFICES ASSUME tx[d].op = "decision", tx[d].pc = "commit"
                     PROVE  /\ tx[d].key \in RunKeys => run'[tx[d].key] # NoRun
                            /\ tx[d].row.payload = run'[tx[d].key].payload
          OBVIOUS
        <4>1. /\ tx[d].key \in Keys /\ tx[d].key \in tx[d].locks
              /\ tx[d].key \in RunKeys => run[tx[d].key] # NoRun
              /\ tx[d].row.payload = run[tx[d].key].payload
          BY <3>1 DEF WritesWell
        <4>2. CASE tx[d].key # k
          BY <1>2, <4>1, <4>2
        <4>3. CASE tx[d].key = k
          <5>1. run[k] # NoRun
            BY <1>2, <3>1, <4>1, <4>3
          <5> QED BY <1>2, <1>4, <4>1, <4>3, <5>1
        <4> QED BY <4>2, <4>3
      <3>4. WritesWell(tx[d])'
        BY <1>4, <3>1, <3>2, <3>3 DEF WritesWell
      <3>5. NumbersWell(tx[d])'
        <4>1. CASE tx[c].seq = 0
          BY <3>1, <4>1, CommitNumbers DEF NumbersWell
        <4>2. CASE tx[c].seq # 0
          <5>1. "flow" \in tx[c].locks
            BY <4>2 DEF HistoryInv, Acts, NumbersWell
          <5>2. "flow" \notin tx[d].locks
            BY <3>1, <5>1
          <5> QED BY <3>1, <5>2 DEF NumbersWell
        <4> QED BY <4>1, <4>2
      <3>6. ReadsWell(tx[d])'
        <4>1. PICK t : t = tx[d]
          OBVIOUS
        <4>2. ReadsWell(t)'
          BY <3>1, <4>1, CommitExplains
        <4>3. t = tx'[d]
          BY <3>1, <4>1
        <4> QED BY <4>2, <4>3 DEF ReadsWell, WasBefore
      <3> QED BY <3>4, <3>5, <3>6 DEF Acts
    <2> QED BY <2>1, <2>2
  <1>7. LocksAreExclusive'
    <2>1. Closed.locks = {}
      BY DEF Closed
    <2> QED BY <1>1, <2>1 DEF HistoryInv, LocksAreExclusive
  <1>8. RepliesNameRuns' /\ \A reply \in told' : run'[reply.key].payload = reply.payload
    <2> SUFFICES ASSUME NEW reply \in told'
                 PROVE  run'[reply.key] # NoRun /\ run'[reply.key].payload = reply.payload
      BY DEF RepliesNameRuns
    <2>1. CASE reply \in told
      <3>1. /\ run[reply.key] # NoRun /\ run[reply.key].payload = reply.payload
            /\ reply.key \in Keys
        BY <1>3, <2>1 DEF HistoryInv, HistoryTypes, RepliesNameRuns, RunsAreIdempotent
      <3> QED BY <1>4, <3>1
    <2>2. CASE reply \notin told
      <3>1. reply.key = k /\ reply.payload = tx[c].row.payload
        BY <2>2 DEF CommitTx
      <3> QED BY <1>2, <3>1
    <2> QED BY <2>1, <2>2
  <1>9. \A j \in RunKeys : audited'[j] = IF run'[j] = NoRun THEN 0 ELSE 1
    <2> SUFFICES ASSUME NEW j \in RunKeys
                 PROVE  audited'[j] = IF run'[j] = NoRun THEN 0 ELSE 1
      OBVIOUS
    <2>1. audited[j] = (IF run[j] = NoRun THEN 0 ELSE 1) /\ j \in Keys
      BY <1>3 DEF HistoryInv, RunsAreIdempotent
    <2>2. CASE tx[c].op = "request"
      <3>1. audited' = [audited EXCEPT ![k] = @ + 1] /\ audited \in [Keys -> Nat]
        BY <2>2 DEF CommitTx, HistoryInv, HistoryTypes
      <3>2. CASE j = k
        BY <1>2, <2>1, <2>2, <3>1, <3>2
      <3>3. CASE j # k
        BY <1>2, <2>1, <3>1, <3>3
      <3> QED BY <3>2, <3>3
    <2>3. CASE tx[c].op # "request"
      <3>1. audited' = audited
        BY <2>3 DEF CommitTx
      <3> QED BY <1>2, <2>1, <2>3, <3>1
    <2> QED BY <2>2, <2>3
  <1>10. IsFiniteSet(events)' /\ TimelineIsComplete' /\ StateIsTold'
    BY CommitNumbers
  <1> QED BY <1>5, <1>6, <1>7, <1>8, <1>9, <1>10 DEF HistoryInv, RunsAreIdempotent

LEMMA HistoryStep == HistoryInv /\ [HistoryNext]_historyVars => HistoryInv'
  <1> SUFFICES ASSUME HistoryInv, [HistoryNext]_historyVars PROVE HistoryInv'
    OBVIOUS
  <1>1. ASSUME NEW c \in Clients, Rollback(c) PROVE HistoryInv'
    BY <1>1, ClosedGoesOn, MoveStep DEF Rollback, tableVarsOfHistory
  <1>2. CASE UNCHANGED historyVars
    BY <1>2 DEF historyVars, HistoryInv, HistoryTypes, Acts, WritesWell, NumbersWell,
       ReadsWell, WasBefore, StateIsTold, LocksAreExclusive, RepliesNameRuns,
       RunsAreIdempotent, TimelineIsComplete
  <1> QED BY <1>1, <1>2, RequestRunStep, RequestOutcomeStep, DecideApprovalStep,
             InsertRunStep, RecordResultStep, TransitionRunStep, EnsureFlowStep,
             CreateFlowStep, UpdateFlowStep, NumberEventStep, AppendEventStep,
             CommitTxStep
          DEF HistoryNext

LEMMA HistoryInvariant == HistorySpec => []HistoryInv
  <1>1. HistoryInit => HistoryInv
    <2> SUFFICES ASSUME HistoryInit PROVE HistoryInv
      OBVIOUS
    <2>1. \A c \in Clients : tx[c] = Closed
      BY DEF HistoryInit
    <2>2. Closed \in Transaction /\ Acts(Closed)
      BY ClosedGoesOn DEF GoesOn
    <2>3. NoRun \in RunRow
      BY DEF NoRun, RunRow
    <2>4. HistoryTypes
      BY <2>2, <2>3 DEF HistoryInit, HistoryTypes, FlowStates
    <2>5. LocksAreExclusive /\ RepliesNameRuns /\ RunsAreIdempotent
      BY <2>1 DEF HistoryInit, LocksAreExclusive, RepliesNameRuns, RunsAreIdempotent,
         Closed, Keys
    <2>6. IsFiniteSet(events) /\ Cardinality(events) = 0
      BY FS_EmptySet DEF HistoryInit
    <2>7. TimelineIsComplete /\ StateIsTold
      BY <2>6 DEF HistoryInit, TimelineIsComplete, StateIsTold
    <2> QED BY <2>1, <2>2, <2>4, <2>5, <2>6, <2>7 DEF HistoryInv
  <1> QED BY <1>1, HistoryStep, PTL DEF HistorySpec

\* However requests with one idempotency key race, everybody who was told of a
\* run was told of the one on record, and it was audited once: the unique
\* constraint behind record_demo_action_run makes the loser read the winner's row,
\* and the writers of an existing run never change what was asked.
THEOREM RunsIdempotent == HistorySpec => []RunsAreIdempotent
  BY HistoryInvariant, PTL DEF HistoryInv

\* The timeline of a workflow has no gap and no operation fails on a sequence
\* number: the flush of the run row in record_workflow_action_run and its
\* siblings, before the numbers are read, holds its lock until the commit.  The
\* state of the run is the one its latest event tells, unless that event tells
\* again a state the run had been in, and then it is the state of an event in
\* between: the flush leaves out a state equal to the one read before the lock.
THEOREM TimelineComplete == HistorySpec => []TimelineIsComplete
  BY HistoryInvariant, PTL DEF HistoryInv

-----------------------------------------------------------------------------
(* Model invocations and agent runs *)

InvocationRow == [ask : CallAsks \cup {"none"},
                  status : {"absent", "requested"} \cup Finished,
                  audits : Nat, usage : Nat]
RunStepRow == [type : {"context", "model", "proposal"},
               status : {"completed", "failed", "blocked", "deferred"}]
AgentRunRow == [ask : CallAsks \cup {"none"},
                status : {"absent", "requested", "failed", "blocked", "deferred",
                          "dry_run", "recorded", "created"},
                steps : Seq(RunStepRow), invoked : BOOLEAN, action : BOOLEAN,
                usage : Nat]
CallerState == [pc : {"idle", "insert", "context", "model", "prepare", "call",
                      "invoked", "proposal", "commit"},
                key : AskKeys \cup {"none"}, ask : CallAsks \cup {"none"},
                open : BOOLEAN, inv : InvocationRow, run : AgentRunRow]

CallTypes ==
    /\ invocation \in [AskKeys -> InvocationRow]
    /\ agentRun \in [AgentKeys -> AgentRunRow]
    /\ caller \in [Callers -> CallerState]
    /\ calls \in [AskKeys -> Nat]
    /\ answers \subseteq [key : AskKeys, ask : CallAsks]

WholeInvocation(row) ==
    /\ row.audits = IF row.status \in Finished THEN 1 ELSE 0
    /\ row.usage = IF row.status \in {"completed", "failed"} THEN 1 ELSE 0

WholeRun(r, row) ==
    LET last == r.steps[Len(r.steps)].status
    IN  /\ r.status # "requested"
        /\ r.invoked = (row.status \in Finished)
        /\ r.action = (r.status = "created")
        /\ r.usage = IF r.steps = <<>> THEN 0 ELSE 1
        /\ r.steps # <<>> =>
              IF r.status \in {"dry_run", "recorded", "created"}
              THEN last = "completed" /\ Len(r.steps) = 3
              ELSE last = r.status

\* The request of state q has inserted the row of its key.
Owns(q) == /\ q.pc \notin {"idle", "insert"}
           /\ q.pc = "prepare" => q.key \in AgentKeys

\* A direct invocation: its row is on record before the provider is called.
DirectCall(q) ==
    /\ q.pc \in {"idle", "prepare", "call", "commit"}
    /\ q.pc = "prepare" => q.inv = NoInvocation
    /\ q.pc \in {"call", "commit"} =>
          /\ invocation[q.key].status # "absent"
          /\ invocation[q.key].ask = q.ask
          /\ q.inv.ask = q.ask
    /\ q.pc = "call" => q.inv.status = "requested" /\ calls[q.key] = 0
    /\ q.pc = "commit" => q.inv.status \in Finished

\* What an agent run has done when it is at q.pc.
RunProgress(q) ==
    /\ q.pc = "context" => q.run.steps = <<>> /\ q.run.usage = 0
    /\ q.pc \in {"model", "prepare", "call", "invoked"} => Len(q.run.steps) = 1
    /\ q.pc \in {"context", "model", "prepare"} => q.inv = NoInvocation
    /\ q.pc \in {"context", "model", "prepare", "call", "invoked"} => q.run.invoked = FALSE
    /\ q.pc = "call" => q.inv.status = "requested"
    /\ q.pc = "invoked" => q.inv.status \in Finished
    /\ q.pc = "proposal" => /\ Len(q.run.steps) = 2
                            /\ q.run.invoked = TRUE
                            /\ q.inv.status = "completed"
    /\ q.pc # "commit" => q.run.action = FALSE
    /\ q.pc = "commit" => /\ WholeRun(q.run, q.inv)
                          /\ q.run.status # "absent"
                          /\ q.inv.status # "requested"

\* The transaction of an agent run: open, and nothing of it on record.
EmbeddedCall(q) ==
    q.pc \notin {"idle", "insert"} =>
        /\ q.open = TRUE
        /\ agentRun[q.key].status = "absent"
        /\ q.run.ask = q.ask
        /\ RunProgress(q)

CallProgress(q) ==
    /\ q.pc # "idle" => q.key \in AskKeys /\ q.ask \in CallAsks
    /\ q.pc = "insert" => q.inv = NoInvocation
    /\ q.key \in CallKeys => DirectCall(q)
    /\ q.key \in AgentKeys => EmbeddedCall(q)
    /\ WholeInvocation(q.inv)

OneOwner ==
    \A c, d \in Callers :
        Owns(caller[c]) /\ Owns(caller[d]) /\ caller[c].key = caller[d].key => c = d

CallRows ==
    /\ \A k \in CallKeys :
          calls[k] <= 1 /\ (invocation[k].status = "absent" => calls[k] = 0)
    /\ \A k \in AgentKeys :
          agentRun[k].status = "absent" => invocation[k].status = "absent"

AnswersMatch == \A a \in answers : Known(a.key) /\ OnRecord(a.key).ask = a.ask

CallsInv ==
    /\ CallTypes
    /\ \A c \in Callers : CallProgress(caller[c])
    /\ OneOwner
    /\ CallRows
    /\ AnswersMatch
    /\ \A k \in AskKeys : WholeInvocation(invocation[k])
    /\ \A k \in AgentKeys : WholeRun(agentRun[k], invocation[k])

\* Request c may go on in state q.
SoleOwner(c, q) ==
    Owns(q) => \A d \in Callers : d # c /\ Owns(caller[d]) => caller[d].key # q.key
MayTurn(c, q) == q \in CallerState /\ CallProgress(q) /\ SoleOwner(c, q)

\* The state of the requests after one of them turned.
LEMMA TurnFacts ==
    ASSUME CallsInv, NEW c \in Callers, NEW q \in CallerState, SoleOwner(c, q),
           Turn(c, q)
    PROVE  /\ caller' \in [Callers -> CallerState]
           /\ caller'[c] = q
           /\ \A d \in Callers : d # c => caller'[d] = caller[d]
           /\ OneOwner'
  <1>1. /\ caller' \in [Callers -> CallerState]
        /\ caller'[c] = q
        /\ \A d \in Callers : d # c => caller'[d] = caller[d]
    BY DEF CallsInv, CallTypes, Turn
  <1>2. OneOwner'
    <2> SUFFICES ASSUME NEW a \in Callers, NEW b \in Callers, a # b,
                        Owns(caller'[a]), Owns(caller'[b]), caller'[a].key = caller'[b].key
                 PROVE  FALSE
      BY DEF OneOwner, Owns
    <2>1. CASE a = c
      BY <1>1, <2>1 DEF SoleOwner
    <2>2. CASE b = c
      BY <1>1, <2>2 DEF SoleOwner
    <2>3. CASE a # c /\ b # c
      BY <1>1, <2>3 DEF CallsInv, OneOwner
    <2> QED BY <2>1, <2>2, <2>3
  <1> QED BY <1>1, <1>2

\* A step that only moves one request.
LEMMA TurnStep ==
    ASSUME CallsInv, NEW c \in Callers, NEW q, MayTurn(c, q), Turn(c, q),
           UNCHANGED callRows
    PROVE  CallsInv'
  <1>1. /\ caller' \in [Callers -> CallerState]
        /\ caller'[c] = q
        /\ \A d \in Callers : d # c => caller'[d] = caller[d]
        /\ OneOwner'
    BY TurnFacts DEF MayTurn
  <1>2. UNCHANGED <<invocation, agentRun, calls, answers>>
    BY DEF callRows
  <1>3. ASSUME NEW d \in Callers PROVE CallProgress(caller[d])'
    <2>1. CallProgress(caller'[d])
      BY <1>1 DEF CallsInv, MayTurn
    <2> QED BY <1>2, <2>1 DEF CallProgress, DirectCall, EmbeddedCall, RunProgress
  <1>4. CallTypes' /\ CallRows' /\ AnswersMatch'
    BY <1>1, <1>2 DEF CallsInv, CallTypes, CallRows, AnswersMatch, Known, OnRecord
  <1>5. /\ \A k \in AskKeys : WholeInvocation(invocation[k])'
        /\ \A k \in AgentKeys : WholeRun(agentRun[k], invocation[k])'
    BY <1>2 DEF CallsInv
  <1> QED BY <1>1, <1>3, <1>4, <1>5 DEF CallsInv

LEMMA NobodyTurns == ASSUME NEW c PROVE MayTurn(c, NoCaller)
  <1>1. NoInvocation \in InvocationRow /\ WholeInvocation(NoInvocation)
    BY DEF NoInvocation, InvocationRow, WholeInvocation, Finished
  <1>2. NoAgentRun \in AgentRunRow
    BY DEF NoAgentRun, AgentRunRow
  <1>3. NoCaller \in CallerState
    BY <1>1, <1>2 DEF NoCaller, CallerState
  <1>4. NoCaller.pc = "idle" /\ NoCaller.inv = NoInvocation
    BY DEF NoCaller
  <1> QED BY <1>1, <1>3, <1>4 DEF MayTurn, SoleOwner, CallProgress, DirectCall, EmbeddedCall, Owns

\* What append_step makes of run r.
IsStepped(r, t, status) ==
    /\ t \in AgentRunRow
    /\ t.ask = r.ask /\ t.invoked = r.invoked /\ t.action = r.action
    /\ Len(t.steps) = Len(r.steps) + 1
    /\ t.steps # <<>>
    /\ t.steps[Len(t.steps)].status = status

LEMMA SteppedRow ==
    ASSUME NEW r \in AgentRunRow, NEW type \in {"context", "model", "proposal"},
           NEW status \in {"completed", "failed", "blocked", "deferred"}
    PROVE  IsStepped(r, Stepped(r, type, status), status)
  <1> DEFINE e == [type |-> type, status |-> status]
             s == Append(r.steps, e)
  <1>1. r.steps \in Seq(RunStepRow)
    BY DEF AgentRunRow
  <1>2. e \in RunStepRow /\ e.status = status
    BY DEF RunStepRow
  <1> HIDE DEF e
  <1>3. /\ s \in Seq(RunStepRow) /\ Len(s) = Len(r.steps) + 1
        /\ s[Len(r.steps) + 1] = e /\ s # <<>>
    BY <1>1, <1>2
  <1>4. Stepped(r, type, status) = [r EXCEPT !.steps = s]
    BY DEF Stepped, AgentRunRow, e
  <1> HIDE DEF s
  <1>5. /\ Stepped(r, type, status) \in AgentRunRow
        /\ Stepped(r, type, status).ask = r.ask
        /\ Stepped(r, type, status).invoked = r.invoked
        /\ Stepped(r, type, status).action = r.action
        /\ Stepped(r, type, status).steps = s
    BY <1>3, <1>4 DEF AgentRunRow
  <1> QED BY <1>2, <1>3, <1>5 DEF IsStepped

LEMMA OwnerTurns ==
    ASSUME CallsInv, NEW c \in Callers, Owns(caller[c]), NEW q \in CallerState,
           q.key = caller[c].key, CallProgress(q)
    PROVE  MayTurn(c, q)
  BY DEF CallsInv, OneOwner, MayTurn, SoleOwner

\* A request of an agent run that is executing.
LEMMA Executing ==
    ASSUME CallsInv, NEW c \in Callers,
           \/ caller[c].pc \in {"insert", "context", "model", "invoked", "proposal"}
           \/ caller[c].pc \in {"prepare", "call", "commit"} /\ caller[c].key \in AgentKeys
    PROVE  /\ caller[c] \in CallerState
           /\ caller[c].key \in AgentKeys /\ caller[c].key \in AskKeys
           /\ caller[c].ask \in CallAsks
           /\ caller[c].run \in AgentRunRow /\ caller[c].inv \in InvocationRow
           /\ WholeInvocation(caller[c].inv)
           /\ caller[c].pc = "insert" => caller[c].inv = NoInvocation
           /\ caller[c].pc # "insert" =>
                 /\ Owns(caller[c])
                 /\ caller[c].open = TRUE
                 /\ agentRun[caller[c].key].status = "absent"
                 /\ caller[c].run.ask = caller[c].ask
                 /\ RunProgress(caller[c])
  <1>1. caller[c] \in CallerState /\ CallProgress(caller[c])
    BY DEF CallsInv, CallTypes
  <1>2. /\ caller[c].key \in AskKeys /\ caller[c].ask \in CallAsks
        /\ WholeInvocation(caller[c].inv)
        /\ caller[c].pc = "insert" => caller[c].inv = NoInvocation
    BY <1>1 DEF CallProgress
  <1>3. caller[c].key \in AgentKeys
    BY <1>1, <1>2 DEF CallProgress, DirectCall, AskKeys
  <1>4. EmbeddedCall(caller[c])
    BY <1>1, <1>3 DEF CallProgress
  <1> QED BY <1>1, <1>2, <1>3, <1>4 DEF EmbeddedCall, CallerState, Owns

\* How run r of request c has to end, with status s and usage u.
EndsWell(c, r, s, u) ==
    /\ r \in AgentRunRow /\ r.ask = caller[c].ask
    /\ s \in {"failed", "blocked", "deferred", "dry_run", "recorded", "created"}
    /\ caller[c].inv.status # "requested"
    /\ caller[c].inv.status \in Finished => r.invoked = TRUE
    /\ caller[c].inv.status \notin Finished => r.invoked = FALSE
    /\ s = "created" => r.action = TRUE
    /\ s # "created" => r.action = FALSE
    /\ r.steps = <<>> => u = 0
    /\ r.steps # <<>> =>
          /\ u = 1
          /\ s \in {"dry_run", "recorded", "created"} =>
                r.steps[Len(r.steps)].status = "completed" /\ Len(r.steps) = 3
          /\ s \notin {"dry_run", "recorded", "created"} =>
                r.steps[Len(r.steps)].status = s

LEMMA EndedTurns ==
    ASSUME CallsInv, NEW c \in Callers,
           caller[c].pc \in {"context", "model", "invoked", "proposal"},
           NEW r, NEW s, NEW u, EndsWell(c, r, s, u)
    PROVE  MayTurn(c, Ended(c, r, s, u))
  <1> DEFINE e == [r EXCEPT !.status = s, !.usage = u]
             q == [caller[c] EXCEPT !.pc = "commit", !.run = e]
  <1>1. /\ caller[c] \in CallerState /\ caller[c].key \in AgentKeys
        /\ caller[c].key \in AskKeys /\ caller[c].ask \in CallAsks
        /\ WholeInvocation(caller[c].inv)
        /\ Owns(caller[c]) /\ caller[c].open = TRUE
        /\ agentRun[caller[c].key].status = "absent"
    BY Executing
  <1>0. u \in Nat /\ s \notin {"absent", "requested"}
    BY DEF EndsWell
  <1>2. /\ e \in AgentRunRow
        /\ e.ask = r.ask /\ e.status = s /\ e.usage = u /\ e.steps = r.steps
        /\ e.invoked = r.invoked /\ e.action = r.action
    BY <1>0 DEF AgentRunRow, EndsWell
  <1> HIDE DEF e
  <1>3. WholeRun(e, caller[c].inv)
    <2>1. e.status # "requested" /\ e.usage = IF e.steps = <<>> THEN 0 ELSE 1
      BY <1>0, <1>2 DEF EndsWell
    <2>2. e.invoked = (caller[c].inv.status \in Finished)
      <3>1. CASE caller[c].inv.status \in Finished
        <4>1. e.invoked = TRUE
          BY <1>2, <3>1 DEF EndsWell
        <4> QED BY <3>1, <4>1, Zenon
      <3>2. CASE caller[c].inv.status \notin Finished
        <4>1. e.invoked = FALSE
          BY <1>2, <3>2 DEF EndsWell
        <4>2. (caller[c].inv.status \in Finished) = FALSE
          BY <3>2
        <4> QED BY <4>1, <4>2
      <3> QED BY <3>1, <3>2
    <2>3. e.action = (e.status = "created")
      BY <1>2 DEF EndsWell
    <2>4. e.steps # <<>> =>
              IF e.status \in {"dry_run", "recorded", "created"}
              THEN e.steps[Len(e.steps)].status = "completed" /\ Len(e.steps) = 3
              ELSE e.steps[Len(e.steps)].status = e.status
      BY <1>2 DEF EndsWell
    <2> QED BY <2>1, <2>2, <2>3, <2>4 DEF WholeRun
  <1>4. /\ q \in CallerState
        /\ q.pc = "commit" /\ q.key = caller[c].key /\ q.ask = caller[c].ask
        /\ q.open = caller[c].open /\ q.inv = caller[c].inv /\ q.run = e
    BY <1>1, <1>2 DEF CallerState
  <1>5. Ended(c, r, s, u) = q
    BY DEF Ended, e
  <1> HIDE DEF q
  <1>6. RunProgress(q)
    BY <1>0, <1>2, <1>3, <1>4 DEF RunProgress, EndsWell
  <1>7. EmbeddedCall(q)
    BY <1>1, <1>2, <1>4, <1>6 DEF EmbeddedCall, EndsWell
  <1>8. CallProgress(q)
    BY <1>1, <1>4, <1>7, ModelCallsAssumption DEF CallProgress
  <1> QED BY <1>1, <1>4, <1>5, <1>8, OwnerTurns

\* A run that goes on at p with r.
LEMMA RunTurns ==
    ASSUME CallsInv, NEW c \in Callers,
           caller[c].pc \in {"context", "model", "invoked"},
           NEW p \in {"model", "prepare", "proposal"},
           NEW r \in AgentRunRow, r.ask = caller[c].ask, r.action = FALSE,
           p # "proposal" => /\ Len(r.steps) = 1 /\ r.invoked = FALSE
                             /\ caller[c].inv = NoInvocation,
           p = "proposal" => /\ Len(r.steps) = 2 /\ r.invoked = TRUE
                             /\ caller[c].inv.status = "completed"
    PROVE  MayTurn(c, [caller[c] EXCEPT !.pc = p, !.run = r])
  <1> DEFINE q == [caller[c] EXCEPT !.pc = p, !.run = r]
  <1>1. /\ caller[c] \in CallerState /\ caller[c].key \in AgentKeys
        /\ caller[c].key \in AskKeys /\ caller[c].ask \in CallAsks
        /\ WholeInvocation(caller[c].inv)
        /\ Owns(caller[c]) /\ caller[c].open = TRUE
        /\ agentRun[caller[c].key].status = "absent"
    BY Executing
  <1>2. /\ q \in CallerState
        /\ q.pc = p /\ q.key = caller[c].key /\ q.ask = caller[c].ask
        /\ q.open = caller[c].open /\ q.inv = caller[c].inv /\ q.run = r
    BY <1>1 DEF CallerState
  <1> HIDE DEF q
  <1>3. RunProgress(q)
    BY <1>2 DEF RunProgress
  <1>4. EmbeddedCall(q)
    BY <1>1, <1>2, <1>3 DEF EmbeddedCall
  <1>5. CallProgress(q)
    BY <1>1, <1>2, <1>4, ModelCallsAssumption DEF CallProgress
  <1>6. MayTurn(c, q)
    BY <1>1, <1>2, <1>5, OwnerTurns
  <1> QED BY <1>6 DEF q

LEMMA AnswerStep ==
    ASSUME CallsInv, NEW c \in Callers, NEW k \in AskKeys, NEW ask \in CallAsks,
           Known(k), AnswerFromRecord(c, k, ask)
    PROVE  CallsInv'
  <1>1. /\ caller' \in [Callers -> CallerState]
        /\ caller'[c] = NoCaller
        /\ \A d \in Callers : d # c => caller'[d] = caller[d]
        /\ OneOwner'
    BY NobodyTurns, TurnFacts DEF AnswerFromRecord, MayTurn
  <1>2. /\ UNCHANGED <<invocation, agentRun, calls>>
        /\ \/ answers' = answers
           \/ /\ OnRecord(k).ask = ask
              /\ answers' = answers \cup {[key |-> k, ask |-> ask]}
    BY DEF AnswerFromRecord
  <1>3. ASSUME NEW d \in Callers PROVE CallProgress(caller[d])'
    <2>1. CallProgress(caller'[d])
      BY <1>1, NobodyTurns DEF CallsInv, MayTurn
    <2> QED BY <1>2, <2>1 DEF CallProgress, DirectCall, EmbeddedCall, RunProgress
  <1>4. CallTypes' /\ CallRows'
    BY <1>1, <1>2 DEF CallsInv, CallTypes, CallRows
  <1>5. AnswersMatch'
    <2>1. \A a \in answers' : Known(a.key) /\ OnRecord(a.key).ask = a.ask
      BY <1>2 DEF CallsInv, AnswersMatch
    <2> QED BY <1>2, <2>1 DEF AnswersMatch, Known, OnRecord
  <1>6. /\ \A j \in AskKeys : WholeInvocation(invocation[j])'
        /\ \A j \in AgentKeys : WholeRun(agentRun[j], invocation[j])'
    BY <1>2 DEF CallsInv
  <1> QED BY <1>1, <1>3, <1>4, <1>5, <1>6 DEF CallsInv

LEMMA ReceiveStep ==
    ASSUME CallsInv, NEW c \in Callers, NEW k \in AskKeys, NEW ask \in CallAsks,
           Receive(c, k, ask)
    PROVE  CallsInv'
  <1> DEFINE p == IF k \in AgentKeys THEN "insert" ELSE "prepare"
             q == [NoCaller EXCEPT !.key = k, !.ask = ask, !.pc = p]
  <1>1. CASE Known(k)
    BY <1>1, AnswerStep DEF Receive
  <1>2. CASE ~Known(k)
    <2>1. Turn(c, q) /\ UNCHANGED callRows
      BY <1>2 DEF Receive
    <2>2. NoCaller \in CallerState /\ WholeInvocation(NoCaller.inv)
      BY NobodyTurns DEF MayTurn, CallProgress
    <2>3. NoCaller.inv = NoInvocation
      BY DEF NoCaller
    <2>4. p \in {"insert", "prepare"} /\ (p = "insert" <=> k \in AgentKeys)
      OBVIOUS
    <2> HIDE DEF p
    <2>5. /\ q \in CallerState
          /\ q.pc = p /\ q.key = k /\ q.ask = ask /\ q.inv = NoCaller.inv
      BY <2>2, <2>4 DEF CallerState
    <2> HIDE DEF q
    <2>6. MayTurn(c, q)
      BY <2>2, <2>3, <2>4, <2>5, ModelCallsAssumption
         DEF MayTurn, SoleOwner, CallProgress, DirectCall, EmbeddedCall, Owns
    <2> QED BY <2>1, <2>6, TurnStep
  <1> QED BY <1>1, <1>2

LEMMA InsertAgentRunStep ==
    ASSUME CallsInv, NEW c \in Callers, InsertAgentRun(c) PROVE CallsInv'
  <1> DEFINE r == [NoAgentRun EXCEPT !.ask = caller[c].ask, !.status = "requested"]
             q == [caller[c] EXCEPT !.pc = "context", !.open = TRUE, !.run = r]
  <1>1. /\ caller[c] \in CallerState
        /\ caller[c].key \in AgentKeys /\ caller[c].key \in AskKeys
        /\ caller[c].ask \in CallAsks
        /\ WholeInvocation(caller[c].inv) /\ caller[c].inv = NoInvocation
    BY Executing DEF InsertAgentRun
  <1>2. CASE Known(caller[c].key)
    BY <1>2, NobodyTurns, TurnStep DEF InsertAgentRun
  <1>3. CASE ~Known(caller[c].key)
    <2>1. Turn(c, q) /\ UNCHANGED callRows
      BY <1>3 DEF InsertAgentRun
    <2>2. /\ r \in AgentRunRow
          /\ r.ask = caller[c].ask /\ r.steps = <<>> /\ r.usage = 0
          /\ r.invoked = FALSE /\ r.action = FALSE
      <3>1. NoAgentRun \in AgentRunRow
        BY DEF NoAgentRun, AgentRunRow
      <3>2. /\ NoAgentRun.steps = <<>> /\ NoAgentRun.usage = 0
            /\ NoAgentRun.invoked = FALSE /\ NoAgentRun.action = FALSE
        BY DEF NoAgentRun
      <3> QED BY <1>1, <3>1, <3>2 DEF AgentRunRow
    <2> HIDE DEF r
    <2>3. /\ q \in CallerState
          /\ q.pc = "context" /\ q.key = caller[c].key /\ q.ask = caller[c].ask
          /\ q.open = TRUE /\ q.inv = caller[c].inv /\ q.run = r
      BY <1>1, <2>2 DEF CallerState
    <2>5. RunProgress(q)
      BY <1>1, <2>2, <2>3 DEF RunProgress
    <2>6. EmbeddedCall(q)
      BY <1>3, <1>1, <2>2, <2>3, <2>5 DEF EmbeddedCall, Known, OnRecord
    <2>7. CallProgress(q)
      BY <1>1, <2>3, <2>6, ModelCallsAssumption DEF CallProgress
    <2>8. ASSUME NEW d \in Callers, d # c, Owns(caller[d]), caller[d].key = caller[c].key
          PROVE  FALSE
      <3>1. caller[d].open = TRUE
        BY <1>1, <2>8, Executing DEF Owns, CallerState, CallsInv, CallTypes
      <3> QED BY <2>8, <3>1 DEF InsertAgentRun, MayInsert
    <2>9. MayTurn(c, q)
      BY <2>3, <2>7, <2>8 DEF MayTurn, SoleOwner
    <2> QED BY <2>1, <2>9, TurnStep
  <1> QED BY <1>2, <1>3

LEMMA ContextSteps ==
    ASSUME CallsInv, NEW c \in Callers,
           ExecutionDisabled(c) \/ \E granted \in BOOLEAN : ReadContext(c, granted)
    PROVE  CallsInv'
  <1> DEFINE r(status) == Stepped(caller[c].run, "context", status)
  <1>1. /\ caller[c].pc = "context"
        /\ caller[c] \in CallerState /\ caller[c].run \in AgentRunRow
        /\ caller[c].run.ask = caller[c].ask
        /\ RunProgress(caller[c])
    BY Executing DEF ExecutionDisabled, ReadContext
  <1>2. /\ caller[c].run.steps = <<>> /\ caller[c].inv = NoInvocation
        /\ caller[c].run.invoked = FALSE /\ caller[c].run.action = FALSE
        /\ caller[c].inv.status = "absent" /\ "absent" \notin Finished
        /\ Len(caller[c].run.steps) = 0
    BY <1>1 DEF RunProgress, NoInvocation, Finished
  <1>3. /\ IsStepped(caller[c].run, r("completed"), "completed")
        /\ IsStepped(caller[c].run, r("failed"), "failed")
    BY <1>1, SteppedRow
  <1> HIDE DEF r
  <1>4. CASE ExecutionDisabled(c)
    <2>1. EndsWell(c, caller[c].run, "deferred", 0)
      BY <1>1, <1>2 DEF EndsWell
    <2>2. MayTurn(c, Ended(c, caller[c].run, "deferred", 0))
      BY <1>1, <2>1, EndedTurns
    <2> QED BY <1>4, <2>2, TurnStep DEF ExecutionDisabled
  <1>5. CASE ReadContext(c, TRUE)
    <2>1. Turn(c, [caller[c] EXCEPT !.pc = "model", !.run = r("completed")])
      BY <1>1, <1>5 DEF ReadContext, r
    <2>2. /\ r("completed") \in AgentRunRow /\ r("completed").ask = caller[c].ask
          /\ r("completed").invoked = FALSE /\ r("completed").action = FALSE
          /\ Len(r("completed").steps) = 1
      BY <1>1, <1>2, <1>3 DEF IsStepped
    <2>3. MayTurn(c, [caller[c] EXCEPT !.pc = "model", !.run = r("completed")])
      BY <1>1, <1>2, <2>2, RunTurns
    <2> QED BY <1>5, <2>1, <2>3, TurnStep DEF ReadContext
  <1>6. CASE ReadContext(c, FALSE)
    <2>1. Turn(c, Ended(c, r("failed"), "failed", 1))
      BY <1>6 DEF ReadContext, r
    <2>2. EndsWell(c, r("failed"), "failed", 1)
      BY <1>1, <1>2, <1>3 DEF EndsWell, IsStepped
    <2>3. MayTurn(c, Ended(c, r("failed"), "failed", 1))
      BY <1>1, <2>2, EndedTurns
    <2> QED BY <1>6, <2>1, <2>3, TurnStep DEF ReadContext
  <1> QED BY <1>4, <1>5, <1>6

LEMMA RouteStep ==
    ASSUME CallsInv, NEW c \in Callers, NEW verdict \in {"allowed", "blocked", "failed"},
           RouteInvocation(c, verdict)
    PROVE  CallsInv'
  <1> DEFINE r == Stepped(caller[c].run, "model", verdict)
  <1>1. /\ caller[c].pc = "model"
        /\ caller[c] \in CallerState /\ caller[c].run \in AgentRunRow
        /\ caller[c].run.ask = caller[c].ask
        /\ RunProgress(caller[c])
    BY Executing DEF RouteInvocation
  <1>2. /\ Len(caller[c].run.steps) = 1 /\ caller[c].inv = NoInvocation
        /\ caller[c].run.invoked = FALSE /\ caller[c].run.action = FALSE
        /\ caller[c].inv.status = "absent" /\ "absent" \notin Finished
    BY <1>1 DEF RunProgress, NoInvocation, Finished
  <1>3. CASE verdict = "allowed"
    <2>1. Turn(c, [caller[c] EXCEPT !.pc = "prepare", !.run = caller[c].run])
      BY <1>1, <1>3 DEF RouteInvocation, Turn, CallerState
    <2>2. MayTurn(c, [caller[c] EXCEPT !.pc = "prepare", !.run = caller[c].run])
      BY <1>1, <1>2, RunTurns
    <2> QED BY <2>1, <2>2, TurnStep DEF RouteInvocation
  <1>4. CASE verdict # "allowed"
    <2>1. Turn(c, Ended(c, r, verdict, 1))
      BY <1>4 DEF RouteInvocation
    <2>2. IsStepped(caller[c].run, r, verdict)
      BY <1>1, <1>4, SteppedRow
    <2> HIDE DEF r
    <2>3. EndsWell(c, r, verdict, 1)
      BY <1>1, <1>2, <1>4, <2>2 DEF EndsWell, IsStepped
    <2>4. MayTurn(c, Ended(c, r, verdict, 1))
      BY <1>1, <2>3, EndedTurns
    <2> QED BY <2>1, <2>4, TurnStep DEF RouteInvocation
  <1> QED BY <1>3, <1>4

LEMMA TakeOutcomeStep ==
    ASSUME CallsInv, NEW c \in Callers, TakeOutcome(c) PROVE CallsInv'
  <1> DEFINE outcome == caller[c].inv.status
             i == [caller[c].run EXCEPT !.invoked = TRUE]
             r == Stepped(i, "model", outcome)
  <1>1. /\ caller[c].pc = "invoked"
        /\ caller[c] \in CallerState /\ caller[c].run \in AgentRunRow
        /\ caller[c].run.ask = caller[c].ask
        /\ RunProgress(caller[c])
    BY Executing DEF TakeOutcome
  <1>2. /\ Len(caller[c].run.steps) = 1 /\ caller[c].run.action = FALSE
        /\ outcome \in Finished /\ outcome \in {"completed", "failed", "deferred"}
    BY <1>1 DEF RunProgress, Finished
  <1>3. /\ i \in AgentRunRow /\ i.ask = caller[c].ask /\ i.invoked = TRUE
        /\ i.action = FALSE /\ Len(i.steps) = 1
    BY <1>1, <1>2 DEF AgentRunRow
  <1> HIDE DEF i
  <1>4. IsStepped(i, r, outcome)
    BY <1>2, <1>3, SteppedRow
  <1>5. /\ r \in AgentRunRow /\ r.ask = caller[c].ask /\ r.invoked = TRUE
        /\ r.action = FALSE /\ Len(r.steps) = 2 /\ r.steps # <<>>
        /\ r.steps[Len(r.steps)].status = outcome
    BY <1>3, <1>4 DEF IsStepped
  <1>6. Turn(c, IF outcome = "completed" THEN [caller[c] EXCEPT !.pc = "proposal", !.run = r]
                                         ELSE Ended(c, r, outcome, 1))
    BY DEF TakeOutcome, i
  <1> HIDE DEF r
  <1>7. CASE outcome = "completed"
    BY <1>1, <1>5, <1>6, <1>7, RunTurns, TurnStep DEF TakeOutcome
  <1>8. CASE outcome # "completed"
    <2>1. EndsWell(c, r, outcome, 1)
      BY <1>2, <1>5, <1>8 DEF EndsWell
    <2>2. MayTurn(c, Ended(c, r, outcome, 1))
      BY <1>1, <2>1, EndedTurns
    <2> QED BY <1>6, <1>8, <2>2, TurnStep DEF TakeOutcome
  <1> QED BY <1>7, <1>8

LEMMA ProposalSteps ==
    ASSUME CallsInv, NEW c \in Callers,
           \/ \E verdict \in {"blocked", "failed"} : RefuseProposal(c, verdict)
           \/ \E status \in {"dry_run", "recorded", "created"} : AcceptProposal(c, status)
    PROVE  CallsInv'
  <1>1. /\ caller[c].pc = "proposal"
        /\ caller[c] \in CallerState /\ caller[c].run \in AgentRunRow
        /\ caller[c].run.ask = caller[c].ask
        /\ RunProgress(caller[c])
    BY Executing DEF RefuseProposal, AcceptProposal
  <1>2. /\ Len(caller[c].run.steps) = 2 /\ caller[c].run.action = FALSE
        /\ caller[c].run.invoked = TRUE
        /\ caller[c].inv.status = "completed" /\ "completed" \in Finished
    BY <1>1 DEF RunProgress, Finished
  <1>3. ASSUME NEW verdict \in {"blocked", "failed"}, RefuseProposal(c, verdict)
        PROVE  CallsInv'
    <2> DEFINE r == Stepped(caller[c].run, "proposal", verdict)
    <2>1. Turn(c, Ended(c, r, verdict, 1)) /\ UNCHANGED callRows
      BY <1>3 DEF RefuseProposal
    <2>2. IsStepped(caller[c].run, r, verdict)
      BY <1>1, SteppedRow
    <2> HIDE DEF r
    <2>3. EndsWell(c, r, verdict, 1)
      BY <1>1, <1>2, <2>2 DEF EndsWell, IsStepped
    <2>4. MayTurn(c, Ended(c, r, verdict, 1))
      BY <1>1, <2>3, EndedTurns
    <2> QED BY <2>1, <2>4, TurnStep
  <1>4. ASSUME NEW status \in {"dry_run", "recorded", "created"}, AcceptProposal(c, status)
        PROVE  CallsInv'
    <2> DEFINE i == [caller[c].run EXCEPT !.action = (status = "created")]
               r == Stepped(i, "proposal", "completed")
    <2>1. Turn(c, Ended(c, r, status, 1)) /\ UNCHANGED callRows
      BY <1>4 DEF AcceptProposal
    <2>2. /\ i \in AgentRunRow /\ i.ask = caller[c].ask /\ i.invoked = TRUE
          /\ i.steps = caller[c].run.steps
          /\ status = "created" => i.action = TRUE
          /\ status # "created" => i.action = FALSE
      BY <1>1, <1>2 DEF AgentRunRow
    <2> HIDE DEF i
    <2>3. IsStepped(i, r, "completed")
      BY <2>2, SteppedRow
    <2> HIDE DEF r
    <2>4. EndsWell(c, r, status, 1)
      BY <1>2, <2>2, <2>3 DEF EndsWell, IsStepped
    <2>5. MayTurn(c, Ended(c, r, status, 1))
      BY <1>1, <2>4, EndedTurns
    <2> QED BY <2>1, <2>5, TurnStep
  <1> QED BY <1>3, <1>4

\* The request of a direct invocation at its insert, its call or its commit.
LEMMA Direct ==
    ASSUME CallsInv, NEW c \in Callers, caller[c].pc \in {"prepare", "call", "commit"},
           caller[c].key \notin AgentKeys
    PROVE  /\ caller[c] \in CallerState /\ caller[c].inv \in InvocationRow
           /\ caller[c].key \in CallKeys /\ caller[c].key \in AskKeys
           /\ caller[c].ask \in CallAsks
           /\ DirectCall(caller[c]) /\ WholeInvocation(caller[c].inv)
           /\ caller[c].pc # "prepare" => Owns(caller[c])
  BY DEF CallsInv, CallTypes, CallProgress, CallerState, AskKeys, Owns

\* Who owns the key of a direct invocation has its row on record.
LEMMA OwnedIsKnown ==
    ASSUME CallsInv, NEW d \in Callers, Owns(caller[d]), caller[d].key \in CallKeys
    PROVE  invocation[caller[d].key].status # "absent" /\ Known(caller[d].key)
  <1>1. /\ DirectCall(caller[d]) /\ caller[d].key \notin AgentKeys
        /\ caller[d].pc \in {"call", "commit"}
    BY ModelCallsAssumption DEF CallsInv, CallProgress, DirectCall, Owns
  <1> QED BY <1>1 DEF DirectCall, Known, OnRecord

LEMMA PrepareStep ==
    ASSUME CallsInv, NEW c \in Callers, PrepareInvocation(c) PROVE CallsInv'
  <1> DEFINE k == caller[c].key
             row == [NoInvocation EXCEPT !.ask = caller[c].ask, !.status = "requested"]
  <1>1. caller[c].pc = "prepare" /\ caller[c] \in CallerState /\ caller[c].ask \in CallAsks
    BY DEF PrepareInvocation, CallsInv, CallTypes, CallProgress
  <1>2. /\ row \in InvocationRow /\ row.ask = caller[c].ask /\ row.status = "requested"
        /\ WholeInvocation(row)
    <2>1. NoInvocation \in InvocationRow /\ NoInvocation.audits = 0 /\ NoInvocation.usage = 0
      BY DEF NoInvocation, InvocationRow
    <2>2. /\ row \in InvocationRow /\ row.ask = caller[c].ask /\ row.status = "requested"
          /\ row.audits = 0 /\ row.usage = 0
      BY <1>1, <2>1 DEF InvocationRow
    <2> HIDE DEF row
    <2> QED BY <2>2 DEF WholeInvocation, Finished
  <1> HIDE DEF row
  <1>3. CASE k \in AgentKeys
    <2> DEFINE q == [caller[c] EXCEPT !.pc = "call", !.inv = row, !.open = TRUE]
    <2>1. k \notin CallKeys
      BY <1>3, ModelCallsAssumption
    <2>2. Turn(c, q) /\ UNCHANGED callRows
      BY <1>3, <2>1 DEF PrepareInvocation, CommitsBeforeCall, callRows, row
    <2>3. /\ caller[c].key \in AskKeys /\ Owns(caller[c])
          /\ agentRun[caller[c].key].status = "absent"
          /\ caller[c].run.ask = caller[c].ask /\ RunProgress(caller[c])
      BY <1>1, <1>3, Executing
    <2>4. /\ q \in CallerState
          /\ q.pc = "call" /\ q.key = k /\ q.ask = caller[c].ask
          /\ q.open = TRUE /\ q.inv = row /\ q.run = caller[c].run
      BY <1>1, <1>2 DEF CallerState
    <2> HIDE DEF q
    <2>5. RunProgress(q)
      BY <1>1, <1>2, <2>3, <2>4 DEF RunProgress
    <2>6. EmbeddedCall(q)
      BY <2>3, <2>4, <2>5 DEF EmbeddedCall
    <2>7. CallProgress(q)
      BY <1>1, <1>2, <2>1, <2>3, <2>4, <2>6 DEF CallProgress
    <2> QED BY <2>2, <2>3, <2>4, <2>7, OwnerTurns, TurnStep
  <1>4. CASE k \notin AgentKeys
    <2> DEFINE q == [caller[c] EXCEPT !.pc = "call", !.inv = row, !.open = FALSE]
    <2>1. k \in CallKeys /\ k \in AskKeys
      BY <1>1, <1>4, Direct
    <2>2. CASE Known(k)
      BY <1>1, <2>1, <2>2, AnswerStep DEF PrepareInvocation
    <2>3. CASE ~Known(k)
      <3>1. /\ Turn(c, q)
            /\ invocation' = [invocation EXCEPT ![k] = row]
            /\ UNCHANGED <<agentRun, calls, answers>>
        BY <1>4, <2>1, <2>3 DEF PrepareInvocation, CommitsBeforeCall, row
      <3>2. /\ q \in CallerState
            /\ q.pc = "call" /\ q.key = k /\ q.ask = caller[c].ask /\ q.inv = row
        BY <1>1, <1>2 DEF CallerState
      <3> HIDE DEF q
      <3>3. invocation[k].status = "absent"
        BY <1>4, <2>3 DEF Known, OnRecord
      <3>4. ASSUME NEW d \in Callers, Owns(caller[d]) PROVE caller[d].key # k
        BY <2>1, <3>3, <3>4, OwnedIsKnown
      <3>5. /\ caller' \in [Callers -> CallerState]
            /\ caller'[c] = q
            /\ \A d \in Callers : d # c => caller'[d] = caller[d]
            /\ OneOwner'
        BY <3>1, <3>2, <3>4, TurnFacts DEF SoleOwner
      <3>6. /\ invocation' \in [AskKeys -> InvocationRow]
            /\ invocation'[k] = row
            /\ \A j \in AskKeys : j # k => invocation'[j] = invocation[j]
        BY <1>2, <2>1, <3>1 DEF CallsInv, CallTypes
      <3>7. ASSUME NEW d \in Callers PROVE CallProgress(caller[d])'
        <4>1. CASE d = c
          <5>1. calls[k] = 0
            BY <2>1, <3>3 DEF CallsInv, CallRows
          <5>2. DirectCall(caller[d])'
            BY <1>2, <3>1, <3>2, <3>5, <3>6, <4>1, <5>1 DEF DirectCall
          <5> QED BY <1>1, <1>2, <1>4, <2>1, <3>2, <3>5, <4>1, <5>2 DEF CallProgress
        <4>2. CASE d # c
          <5>1. CallProgress(caller[d]) /\ caller'[d] = caller[d]
            BY <3>5, <4>2 DEF CallsInv
          <5>2. caller[d].key \in AgentKeys => EmbeddedCall(caller[d])'
            BY <3>1, <5>1 DEF CallProgress, EmbeddedCall, RunProgress
          <5>3. caller[d].key \in CallKeys => DirectCall(caller[d])'
            <6> SUFFICES ASSUME caller[d].key \in CallKeys PROVE DirectCall(caller[d])'
              OBVIOUS
            <6>1. DirectCall(caller[d]) /\ caller[d].key \in AskKeys
              BY <5>1 DEF CallProgress, AskKeys
            <6>2. caller[d].pc \in {"call", "commit"} => caller[d].key # k
              BY <3>4 DEF Owns
            <6> QED BY <3>1, <3>6, <5>1, <6>1, <6>2 DEF DirectCall
          <5> QED BY <5>1, <5>2, <5>3 DEF CallProgress
        <4> QED BY <4>1, <4>2
      <3>8. CallTypes' /\ CallRows'
        BY <1>2, <1>4, <3>1, <3>5, <3>6 DEF CallsInv, CallTypes, CallRows, AskKeys
      <3>9. AnswersMatch'
        <4> SUFFICES ASSUME NEW a \in answers PROVE (Known(a.key) /\ OnRecord(a.key).ask = a.ask)'
          BY <3>1 DEF AnswersMatch
        <4>1. Known(a.key) /\ OnRecord(a.key).ask = a.ask /\ a.key \in AskKeys
          BY DEF CallsInv, AnswersMatch, CallTypes
        <4>2. a.key # k
          BY <2>3, <4>1
        <4> QED BY <3>1, <3>6, <4>1, <4>2 DEF Known, OnRecord
      <3>10. \A j \in AskKeys : WholeInvocation(invocation'[j])
        BY <1>2, <3>6 DEF CallsInv
      <3>11. \A j \in AgentKeys : WholeRun(agentRun[j], invocation'[j])
        BY <1>4, <3>6 DEF CallsInv, AskKeys
      <3> QED BY <3>1, <3>5, <3>7, <3>8, <3>9, <3>10, <3>11 DEF CallsInv
    <2> QED BY <2>2, <2>3
  <1> QED BY <1>3, <1>4

\* The outcome of a call is whole.
LEMMA OutcomeRow ==
    ASSUME NEW row \in InvocationRow, NEW outcome \in Finished
    PROVE  LET o == [row EXCEPT !.status = outcome, !.audits = 1,
                                !.usage = IF outcome = "deferred" THEN 0 ELSE 1]
           IN  /\ o \in InvocationRow /\ o.ask = row.ask /\ o.status = outcome
               /\ WholeInvocation(o)
  <1> DEFINE u == IF outcome = "deferred" THEN 0 ELSE 1
             o == [row EXCEPT !.status = outcome, !.audits = 1, !.usage = u]
  <1>1. u \in Nat /\ (outcome \in {"completed", "failed"} => u = 1)
                   /\ (outcome \notin {"completed", "failed"} => u = 0)
    BY DEF Finished
  <1> HIDE DEF u
  <1>2. /\ o \in InvocationRow /\ o.ask = row.ask /\ o.status = outcome
        /\ o.audits = 1 /\ o.usage = u
    BY <1>1 DEF InvocationRow
  <1> HIDE DEF o
  <1>3. WholeInvocation(o)
    BY <1>1, <1>2 DEF WholeInvocation
  <1> QED BY <1>2, <1>3 DEF o, u

LEMMA CallRuntimeStep ==
    ASSUME CallsInv, NEW c \in Callers, NEW outcome \in Finished, CallRuntime(c, outcome)
    PROVE  CallsInv'
  <1> DEFINE k == caller[c].key
             o == [caller[c].inv EXCEPT !.status = outcome, !.audits = 1,
                                        !.usage = IF outcome = "deferred" THEN 0 ELSE 1]
             p == IF k \in AgentKeys THEN "invoked" ELSE "commit"
             q == [caller[c] EXCEPT !.pc = p, !.inv = o]
  <1>1. /\ caller[c].pc = "call" /\ caller[c] \in CallerState
        /\ k \in AskKeys /\ caller[c].ask \in CallAsks
        /\ caller[c].inv \in InvocationRow /\ Owns(caller[c])
    BY DEF CallRuntime, CallsInv, CallTypes, CallProgress, CallerState, Owns
  <1>2. /\ o \in InvocationRow /\ o.ask = caller[c].inv.ask /\ o.status = outcome
        /\ WholeInvocation(o)
    BY <1>1, OutcomeRow
  <1>3. /\ Turn(c, q)
        /\ calls' = calls \/ calls' = [calls EXCEPT ![k] = @ + 1]
        /\ UNCHANGED <<invocation, agentRun, answers>>
    <2>1. Turn(c, q)
      BY <1>1 DEF CallRuntime, CallerState
    <2> QED BY <2>1 DEF CallRuntime
  <1>4. p \in {"invoked", "commit"} /\ (p = "invoked" <=> k \in AgentKeys)
    OBVIOUS
  <1> HIDE DEF o, p
  <1>5. /\ q \in CallerState
        /\ q.pc = p /\ q.key = k /\ q.ask = caller[c].ask /\ q.open = caller[c].open
        /\ q.inv = o /\ q.run = caller[c].run
    BY <1>1, <1>2, <1>4 DEF CallerState
  <1> HIDE DEF q
  <1>6. \A d \in Callers : d # c /\ Owns(caller[d]) => caller[d].key # k
    BY <1>1 DEF CallsInv, OneOwner
  <1>7. /\ caller' \in [Callers -> CallerState]
        /\ caller'[c] = q
        /\ \A d \in Callers : d # c => caller'[d] = caller[d]
        /\ OneOwner'
    BY <1>3, <1>5, <1>6, TurnFacts DEF SoleOwner
  <1>8. /\ calls' \in [AskKeys -> Nat]
        /\ calls'[k] <= calls[k] + 1
        /\ \A j \in AskKeys : j # k => calls'[j] = calls[j]
    <2>1. calls \in [AskKeys -> Nat]
      BY DEF CallsInv, CallTypes
    <2> QED BY <1>1, <1>3, <2>1
  <1>9. ASSUME NEW d \in Callers PROVE CallProgress(caller[d])'
    <2>1. CASE d = c
      <3>1. CASE k \in AgentKeys
        <4>1. /\ caller[c].open = TRUE /\ agentRun[k].status = "absent"
              /\ caller[c].run.ask = caller[c].ask /\ RunProgress(caller[c])
          BY <1>1, <3>1, Executing
        <4>2. RunProgress(q)
          BY <1>1, <1>2, <1>4, <1>5, <3>1, <4>1 DEF RunProgress
        <4>3. EmbeddedCall(q)
          BY <1>5, <4>1, <4>2 DEF EmbeddedCall
        <4>4. CallProgress(q)
          BY <1>1, <1>2, <1>4, <1>5, <3>1, <4>3, ModelCallsAssumption DEF CallProgress
        <4> QED BY <1>3, <1>5, <1>7, <2>1, <3>1, <4>4, ModelCallsAssumption
                DEF CallProgress, EmbeddedCall, RunProgress
      <3>2. CASE k \notin AgentKeys
        <4>1. DirectCall(caller[c]) /\ k \in CallKeys
          BY <1>1, <3>2, Direct
        <4>2. DirectCall(caller[d])'
          BY <1>1, <1>2, <1>3, <1>4, <1>5, <1>7, <2>1, <3>2, <4>1 DEF DirectCall
        <4> QED BY <1>1, <1>2, <1>4, <1>5, <1>7, <2>1, <3>2, <4>2 DEF CallProgress
      <3> QED BY <3>1, <3>2
    <2>2. CASE d # c
      <3>1. CallProgress(caller[d]) /\ caller'[d] = caller[d]
        BY <1>7, <2>2 DEF CallsInv
      <3>2. caller[d].key \in AgentKeys => EmbeddedCall(caller[d])'
        BY <1>3, <3>1 DEF CallProgress, EmbeddedCall, RunProgress
      <3>3. caller[d].key \in CallKeys => DirectCall(caller[d])'
        <4> SUFFICES ASSUME caller[d].key \in CallKeys PROVE DirectCall(caller[d])'
          OBVIOUS
        <4>1. DirectCall(caller[d]) /\ caller[d].key \in AskKeys
          BY <3>1 DEF CallProgress, AskKeys
        <4>2. caller[d].pc = "call" => caller[d].key # k
          BY <1>6, <2>2 DEF Owns
        <4> QED BY <1>3, <1>8, <3>1, <4>1, <4>2 DEF DirectCall
      <3> QED BY <3>1, <3>2, <3>3 DEF CallProgress
    <2> QED BY <2>1, <2>2
  <1>10. CallTypes' /\ AnswersMatch'
    BY <1>3, <1>7, <1>8 DEF CallsInv, CallTypes, AnswersMatch, Known, OnRecord
  <1>11. CallRows'
    <2>1. k \in CallKeys => calls[k] = 0 /\ invocation[k].status # "absent"
      BY <1>1, Direct, ModelCallsAssumption DEF DirectCall
    <2>2. calls[k] \in Nat /\ calls'[k] \in Nat
      BY <1>1, <1>8 DEF CallsInv, CallTypes
    <2>3. ASSUME NEW j \in CallKeys
          PROVE  calls'[j] <= 1 /\ (invocation[j].status = "absent" => calls'[j] = 0)
      <3>1. calls[j] <= 1 /\ (invocation[j].status = "absent" => calls[j] = 0) /\ j \in AskKeys
        BY DEF CallsInv, CallRows, AskKeys
      <3>2. CASE j = k
        BY <1>8, <2>1, <2>2, <3>2
      <3>3. CASE j # k
        BY <1>8, <3>1, <3>3
      <3> QED BY <3>2, <3>3
    <2> QED BY <1>3, <2>3 DEF CallsInv, CallRows
  <1>12. /\ \A j \in AskKeys : WholeInvocation(invocation[j])'
         /\ \A j \in AgentKeys : WholeRun(agentRun[j], invocation[j])'
    BY <1>3 DEF CallsInv
  <1> QED BY <1>7, <1>9, <1>10, <1>11, <1>12 DEF CallsInv

LEMMA CommitCallStep ==
    ASSUME CallsInv, NEW c \in Callers, CommitCall(c) PROVE CallsInv'
  <1> DEFINE k == caller[c].key
  <1>1. /\ caller[c].pc = "commit" /\ caller[c] \in CallerState
        /\ k \in AskKeys /\ caller[c].ask \in CallAsks /\ Owns(caller[c])
        /\ caller[c].inv \in InvocationRow /\ caller[c].run \in AgentRunRow
        /\ WholeInvocation(caller[c].inv)
    BY DEF CommitCall, CallsInv, CallTypes, CallProgress, CallerState, Owns
  <1>2. /\ caller' \in [Callers -> CallerState]
        /\ caller'[c] = NoCaller
        /\ \A d \in Callers : d # c => caller'[d] = caller[d]
        /\ OneOwner'
    BY NobodyTurns, TurnFacts DEF CommitCall, MayTurn
  <1>3. \A d \in Callers : d # c /\ Owns(caller[d]) => caller[d].key # k
    BY <1>1 DEF CallsInv, OneOwner
  <1>4. /\ calls' = calls
        /\ answers' = answers \cup {[key |-> k, ask |-> caller[c].ask]}
        /\ caller[c].inv = NoInvocation => invocation' = invocation
        /\ caller[c].inv # NoInvocation =>
              invocation' = [invocation EXCEPT ![k] = caller[c].inv]
        /\ k \in AgentKeys => agentRun' = [agentRun EXCEPT ![k] = caller[c].run]
        /\ k \notin AgentKeys => agentRun' = agentRun
    BY DEF CommitCall
  <1>5. /\ invocation' \in [AskKeys -> InvocationRow]
        /\ \A j \in AskKeys : j # k => invocation'[j] = invocation[j]
        /\ caller[c].inv # NoInvocation => invocation'[k] = caller[c].inv
        /\ caller[c].inv = NoInvocation => invocation'[k] = invocation[k]
    BY <1>1, <1>4 DEF CallsInv, CallTypes
  <1>6. /\ agentRun' \in [AgentKeys -> AgentRunRow]
        /\ \A j \in AgentKeys : j # k => agentRun'[j] = agentRun[j]
        /\ k \in AgentKeys => agentRun'[k] = caller[c].run
    BY <1>1, <1>4 DEF CallsInv, CallTypes
  <1>7. k \in AgentKeys => /\ agentRun[k].status = "absent"
                           /\ invocation[k].status = "absent"
                           /\ caller[c].run.ask = caller[c].ask
                           /\ caller[c].run.status # "absent"
                           /\ WholeRun(caller[c].run, caller[c].inv)
    BY <1>1, Executing DEF RunProgress, CallsInv, CallRows
  <1>8. k \notin AgentKeys =>
           /\ k \in CallKeys
           /\ invocation[k].status # "absent" /\ invocation[k].ask = caller[c].ask
           /\ caller[c].inv.ask = caller[c].ask
           /\ caller[c].inv.status \in Finished
           /\ caller[c].inv # NoInvocation
    BY <1>1, Direct DEF DirectCall, Finished, NoInvocation
  <1>9. ASSUME NEW d \in Callers PROVE CallProgress(caller[d])'
    <2>1. CASE d = c
      <3>1. NoCaller.pc = "idle" /\ WholeInvocation(NoCaller.inv)
        BY NobodyTurns DEF MayTurn, CallProgress, NoCaller
      <3> QED BY <1>2, <2>1, <3>1 DEF CallProgress, DirectCall, EmbeddedCall
    <2>2. CASE d # c
      <3>1. CallProgress(caller[d]) /\ caller'[d] = caller[d]
        BY <1>2, <2>2 DEF CallsInv
      <3>2. caller[d].key \in AgentKeys => EmbeddedCall(caller[d])'
        <4> SUFFICES ASSUME caller[d].key \in AgentKeys, caller[d].pc \notin {"idle", "insert"}
                     PROVE  EmbeddedCall(caller[d])'
          BY <3>1 DEF EmbeddedCall
        <4>1. EmbeddedCall(caller[d])
          BY <3>1 DEF CallProgress
        <4>2. caller[d].key # k
          BY <1>3, <2>2 DEF Owns
        <4> QED BY <1>6, <3>1, <4>1, <4>2 DEF EmbeddedCall, RunProgress
      <3>3. caller[d].key \in CallKeys => DirectCall(caller[d])'
        <4> SUFFICES ASSUME caller[d].key \in CallKeys PROVE DirectCall(caller[d])'
          OBVIOUS
        <4>1. DirectCall(caller[d]) /\ caller[d].key \in AskKeys
          BY <3>1 DEF CallProgress, AskKeys
        <4>2. caller[d].pc \in {"call", "commit"} => caller[d].key # k
          BY <1>3, <2>2 DEF Owns
        <4> QED BY <1>4, <1>5, <3>1, <4>1, <4>2 DEF DirectCall
      <3> QED BY <3>1, <3>2, <3>3 DEF CallProgress
    <2> QED BY <2>1, <2>2
  <1>10. CallTypes'
    BY <1>1, <1>2, <1>4, <1>5, <1>6 DEF CallsInv, CallTypes
  <1>11. CallRows'
    <2>1. ASSUME NEW j \in CallKeys
          PROVE  calls[j] <= 1 /\ (invocation'[j].status = "absent" => calls[j] = 0)
      <3>1. /\ calls[j] <= 1 /\ (invocation[j].status = "absent" => calls[j] = 0)
            /\ j \in AskKeys /\ j \notin AgentKeys
        BY ModelCallsAssumption DEF CallsInv, CallRows, AskKeys
      <3> QED BY <1>5, <1>8, <3>1 DEF Finished
    <2>2. ASSUME NEW j \in AgentKeys, agentRun'[j].status = "absent"
          PROVE  invocation'[j].status = "absent"
      <3>1. j # k
        BY <1>6, <1>7, <2>2
      <3> QED BY <1>5, <1>6, <2>2, <3>1 DEF CallsInv, CallRows, AskKeys
    <2> QED BY <1>4, <2>1, <2>2 DEF CallRows
  <1>12. AnswersMatch'
    <2> SUFFICES ASSUME NEW a \in answers'
                 PROVE  (Known(a.key) /\ OnRecord(a.key).ask = a.ask)'
      BY DEF AnswersMatch
    <2>1. CASE a.key = k /\ a.ask = caller[c].ask
      <3>1. CASE k \in AgentKeys
        BY <1>6, <1>7, <2>1, <3>1 DEF Known, OnRecord
      <3>2. CASE k \notin AgentKeys
        BY <1>5, <1>8, <2>1, <3>2 DEF Known, OnRecord, Finished
      <3> QED BY <3>1, <3>2
    <2>2. CASE ~(a.key = k /\ a.ask = caller[c].ask)
      <3>1. a \in answers
        BY <1>4, <2>2
      <3>2. Known(a.key) /\ OnRecord(a.key).ask = a.ask /\ a.key \in AskKeys
        BY <3>1 DEF CallsInv, AnswersMatch, CallTypes
      <3>3. a.key # k
        BY <1>7, <1>8, <2>2, <3>2 DEF Known, OnRecord
      <3> QED BY <1>5, <1>6, <3>2, <3>3 DEF Known, OnRecord, AskKeys
    <2> QED BY <2>1, <2>2
  <1>13. \A j \in AskKeys : WholeInvocation(invocation'[j])
    <2> SUFFICES ASSUME NEW j \in AskKeys PROVE WholeInvocation(invocation'[j])
      OBVIOUS
    <2>1. WholeInvocation(invocation[j])
      BY DEF CallsInv
    <2> QED BY <1>1, <1>5, <2>1
  <1>14. \A j \in AgentKeys : WholeRun(agentRun'[j], invocation'[j])
    <2> SUFFICES ASSUME NEW j \in AgentKeys PROVE WholeRun(agentRun'[j], invocation'[j])
      OBVIOUS
    <2>1. CASE j = k
      <3>1. WholeRun(caller[c].run, caller[c].inv)
        BY <1>7, <2>1
      <3>2. invocation'[k].status = caller[c].inv.status
        BY <1>5, <1>7, <2>1 DEF NoInvocation
      <3>3. WholeRun(caller[c].run, invocation'[k])
        BY <3>1, <3>2 DEF WholeRun
      <3> QED BY <1>6, <2>1, <3>3
    <2>2. CASE j # k
      BY <1>5, <1>6, <2>2 DEF CallsInv, AskKeys
    <2> QED BY <2>1, <2>2
  <1> QED BY <1>2, <1>9, <1>10, <1>11, <1>12, <1>13, <1>14 DEF CallsInv

LEMMA CallsStep == CallsInv /\ [ModelCallsNext]_callVars => CallsInv'
  <1> SUFFICES ASSUME CallsInv, [ModelCallsNext]_callVars PROVE CallsInv'
    OBVIOUS
  <1>1. ASSUME NEW c \in Callers, CallBreaks(c) PROVE CallsInv'
    BY <1>1, NobodyTurns, TurnStep DEF CallBreaks
  <1>2. CASE UNCHANGED callVars
    <2>1. \A c \in Callers : CallProgress(caller[c])'
      BY <1>2 DEF callVars, CallsInv, CallProgress, DirectCall, EmbeddedCall, RunProgress
    <2>2. CallTypes' /\ OneOwner' /\ CallRows' /\ AnswersMatch'
      BY <1>2 DEF callVars, CallsInv, CallTypes, OneOwner, Owns, CallRows, AnswersMatch,
         Known, OnRecord
    <2> QED BY <1>2, <2>1, <2>2 DEF callVars, CallsInv
  <1> QED BY <1>1, <1>2, ReceiveStep, InsertAgentRunStep, ContextSteps, RouteStep,
             PrepareStep, CallRuntimeStep, TakeOutcomeStep, ProposalSteps, CommitCallStep
          DEF ModelCallsNext

LEMMA CallsInvariant == ModelCallsSpec => []CallsInv
  <1>1. ModelCallsInit => CallsInv
    <2> SUFFICES ASSUME ModelCallsInit PROVE CallsInv
      OBVIOUS
    <2>1. NoCaller \in CallerState /\ CallProgress(NoCaller) /\ NoCaller.pc = "idle"
      BY NobodyTurns DEF MayTurn, NoCaller
    <2>2. /\ NoInvocation \in InvocationRow /\ WholeInvocation(NoInvocation)
          /\ NoInvocation.status = "absent"
      BY DEF NoInvocation, InvocationRow, WholeInvocation, Finished
    <2>3. NoAgentRun \in AgentRunRow /\ WholeRun(NoAgentRun, NoInvocation)
      <3>1. /\ NoAgentRun.status = "absent" /\ NoAgentRun.steps = <<>>
            /\ NoAgentRun.invoked = FALSE /\ NoAgentRun.action = FALSE
            /\ NoAgentRun.usage = 0
        BY DEF NoAgentRun
      <3>2. (NoInvocation.status \in Finished) = FALSE /\ ("absent" = "created") = FALSE
        BY DEF NoInvocation, Finished
      <3>3. NoAgentRun \in AgentRunRow
        BY DEF NoAgentRun, AgentRunRow
      <3> QED BY <3>1, <3>2, <3>3 DEF WholeRun
    <2>4. CallTypes /\ CallRows /\ AnswersMatch
      BY <2>1, <2>2, <2>3 DEF ModelCallsInit, CallTypes, CallRows, AnswersMatch, AskKeys
    <2>5. OneOwner /\ \A c \in Callers : CallProgress(caller[c])
      BY <2>1 DEF ModelCallsInit, OneOwner, Owns
    <2> QED BY <2>2, <2>3, <2>4, <2>5 DEF ModelCallsInit, CallsInv, AskKeys
  <1> QED BY <1>1, CallsStep, PTL DEF ModelCallsSpec

\* However deliveries of one key race, repeat and die, the provider is called
\* for a direct invocation at most once, and for an agent run never beside
\* another call for it nor after it is on record: invoke_model commits the row
\* of the key before it calls, start_agent_run holds its row uncommitted until
\* the run has ended.
THEOREM CallsAreSingle == ModelCallsSpec => []AtMostOneCall
  <1>1. CallsInv => AtMostOneCall
    <2> SUFFICES ASSUME CallsInv PROVE AtMostOneCall
      OBVIOUS
    <2>1. \A k \in CallKeys : calls[k] <= 1
      BY DEF CallsInv, CallRows
    <2>2. ASSUME NEW c \in Callers, caller[c].pc \in {"call", "invoked", "proposal"}
          PROVE  /\ Owns(caller[c])
                 /\ caller[c].key \in AgentKeys => ~Known(caller[c].key)
      BY <2>2, Executing DEF Owns, Known, OnRecord
    <2>3. ASSUME NEW c \in Callers, NEW d \in Callers, c # d,
                 caller[c].pc \in {"call", "invoked", "proposal"},
                 caller[d].pc \in {"call", "invoked", "proposal"}
          PROVE  caller[d].key # caller[c].key
      BY <2>2, <2>3 DEF CallsInv, OneOwner
    <2>4. \A a \in answers : OnRecord(a.key).ask = a.ask
      BY DEF CallsInv, AnswersMatch
    <2> QED BY <2>1, <2>2, <2>3, <2>4 DEF AtMostOneCall
  <1> QED BY <1>1, CallsInvariant, PTL

\* A record is never half there: an invocation is audited and metered if and
\* only if its outcome is known, and an agent run on record has ended the way
\* its last step says, with the invocation it names, since _execute_agent_run
\* commits all of it at once.
THEOREM RecordsWhole == ModelCallsSpec => []RecordsAreWhole
  <1>1. CallsInv => RecordsAreWhole
    BY DEF CallsInv, RecordsAreWhole, WholeInvocation, WholeRun
  <1> QED BY <1>1, CallsInvariant, PTL

-----------------------------------------------------------------------------
(* Exports of source batches *)

ArtifactRow == [ask : ArtifactAsks \cup {<<Nil, Nil>>}, evidence : Nat, at : Nat]
ExportRow == [key : ExportKeys \cup {Nil}, ask : ExportAsks \cup {Nil}, evidence : Nat,
              decision : DecisionAsks \cup {Nil}, artifact : ArtifactRow]
HandlerState ==
    [pc : {"idle", "insert", "request", "fence_decision", "decide", "fence_artifact",
           "put", "write", "serve"},
     export : Exports \cup {Nil}, row : ExportRow, holds : BOOLEAN]

ExportTypes ==
    /\ evidence \in Nat /\ attempts \in Nat
    /\ export \in [Exports -> ExportRow]
    /\ trail \in [Exports -> [ExportOps -> Nat]]
    /\ object \in [StorageKeys -> ArtifactRow]
    /\ handler \in [Handlers -> HandlerState]
    /\ confirmed = [op \in ExportOps |-> confirmed[op]]
    /\ served \subseteq [export : Exports, artifact : ArtifactRow]
    /\ puts \in [Exports -> Nat]

\* What an operation has made of its row by the time it commits; once done, it
\* is done for good.
Done(row, op) == CASE op = "request" -> row # NoExport
                   [] op = "decide"  -> row.decision # Nil
                   [] op = "write"   -> row.artifact # NoArtifact

\* The transaction of state q: who commits holds the row, whose transition is
\* still open, and the artifact it made is the one that was approved; lost says
\* that some transaction died after its fence.
HandlerInv(q, lost) ==
    /\ q.pc # "idle" => q.export \in Exports
    /\ q.pc \in {"request", "decide", "write"} => q.holds = TRUE
    /\ q.pc \in {"idle", "insert", "fence_decision", "fence_artifact", "serve"} => q.holds = FALSE
    /\ q.pc = "put" /\ q.holds = FALSE => lost = TRUE
    /\ q.pc \in {"insert", "request"} =>
          /\ q.row.key \in ExportKeys /\ q.row.ask \in ExportAsks
          /\ q.row.decision = Nil /\ q.row.artifact = NoArtifact
    /\ q.pc = "request" => export[q.export] = NoExport
    /\ q.pc \in {"fence_decision", "decide"} =>
          export[q.export] # NoExport /\ q.row.decision \in DecisionAsks
    /\ q.pc = "decide" => export[q.export].decision = Nil
    /\ q.pc \in {"fence_artifact", "put", "write"} =>
          /\ export[q.export].decision \in Approving
          /\ q.row.artifact.evidence = export[q.export].evidence
          /\ q.row.artifact.ask \in ArtifactAsks
          /\ q.row.artifact # NoArtifact
    /\ q.pc \in {"put", "write"} /\ q.holds = TRUE => export[q.export].artifact = NoArtifact
    /\ q.pc = "write" /\ lost = FALSE =>
          object[<<q.export, q.row.artifact.ask[1]>>] = q.row.artifact
    /\ q.pc = "serve" => /\ export[q.export].artifact # NoArtifact
                         /\ q.row.artifact = export[q.export].artifact

OneHolder ==
    \A g, h \in Handlers :
        /\ handler[g].holds = TRUE /\ handler[h].holds = TRUE
        /\ handler[g].export = handler[h].export
        => g = h

RecordedArtifacts ==
    \A e \in Exports : export[e].artifact # NoArtifact =>
        /\ export[e].decision \in Approving
        /\ export[e].artifact.evidence = export[e].evidence
        /\ export[e].artifact.ask \in ArtifactAsks
        /\ disturbed = FALSE =>
              object[<<e, export[e].artifact.ask[1]>>] = export[e].artifact

Trails ==
    \A e \in Exports : \A op \in ExportOps :
        /\ Done(export[e], op) => trail[e][op] = 1
        /\ ~Done(export[e], op) => trail[e][op] = 0

PutsAreSingle ==
    disturbed = FALSE => \A e \in Exports :
        /\ puts[e] <= 1
        /\ export[e].artifact = NoArtifact
              /\ (\A h \in Handlers : handler[h].pc = "write" => handler[h].export # e)
              => puts[e] = 0

RepliesMatch ==
    /\ \A op \in ExportOps : \A reply \in confirmed[op] :
          /\ reply[1] \in Exports
          /\ Done(export[reply[1]], op) /\ AskIn(export[reply[1]], op) = reply[2]
    /\ \A s \in served : /\ export[s.export].artifact # NoArtifact
                         /\ s.artifact = export[s.export].artifact

ExportInv ==
    /\ ExportTypes /\ disturbed \in BOOLEAN
    /\ \A h \in Handlers : HandlerInv(handler[h], disturbed)
    /\ OneHolder
    /\ RecordedArtifacts
    /\ Trails
    /\ PutsAreSingle
    /\ RepliesMatch

\* Handler h may go on in state q, if it is alone on the row it then holds.
Alone(h, q) ==
    q.holds = TRUE =>
        \A g \in Handlers : g # h /\ handler[g].holds = TRUE => handler[g].export # q.export

LEMMA NoExportFacts ==
    /\ NoArtifact \in ArtifactRow /\ NoExport \in ExportRow /\ NoHandler \in HandlerState
    /\ NoHandler.pc = "idle" /\ NoHandler.holds = FALSE
    /\ NoExport.decision = Nil /\ NoExport.artifact = NoArtifact /\ NoExport.key = Nil
    /\ \A lost : HandlerInv(NoHandler, lost)
    /\ \A h : Alone(h, NoHandler)
  <1>1. NoArtifact \in ArtifactRow
    BY DEF NoArtifact, ArtifactRow
  <1>2. NoExport \in ExportRow
    BY <1>1 DEF NoExport, ExportRow
  <1>3. NoHandler \in HandlerState
    BY <1>2 DEF NoHandler, HandlerState
  <1>4. NoHandler.pc = "idle" /\ NoHandler.holds = FALSE
    BY DEF NoHandler
  <1>5. NoExport.decision = Nil /\ NoExport.artifact = NoArtifact /\ NoExport.key = Nil
    BY DEF NoExport
  <1> QED BY <1>1, <1>2, <1>3, <1>4, <1>5 DEF HandlerInv, Alone

LEMMA BecomesFacts ==
    ASSUME ExportInv, NEW h \in Handlers, NEW q \in HandlerState, Alone(h, q),
           Becomes(h, q)
    PROVE  /\ handler' \in [Handlers -> HandlerState]
           /\ handler'[h] = q
           /\ \A g \in Handlers : g # h => handler'[g] = handler[g]
           /\ OneHolder'
  <1>1. /\ handler' \in [Handlers -> HandlerState]
        /\ handler'[h] = q
        /\ \A g \in Handlers : g # h => handler'[g] = handler[g]
    BY DEF ExportInv, ExportTypes, Becomes
  <1>2. OneHolder'
    <2> SUFFICES ASSUME NEW a \in Handlers, NEW b \in Handlers, a # b,
                        handler'[a].holds = TRUE, handler'[b].holds = TRUE,
                        handler'[a].export = handler'[b].export
                 PROVE  FALSE
      BY DEF OneHolder
    <2>1. CASE a = h
      BY <1>1, <2>1 DEF Alone
    <2>2. CASE b = h
      BY <1>1, <2>2 DEF Alone
    <2>3. CASE a # h /\ b # h
      BY <1>1, <2>3 DEF ExportInv, OneHolder
    <2> QED BY <2>1, <2>2, <2>3
  <1> QED BY <1>1, <1>2

\* Replies stay true while the rows do.
KeepsReplies ==
    /\ confirmed' = [op \in ExportOps |-> confirmed'[op]]
    /\ served' \subseteq [export : Exports, artifact : ArtifactRow]
    /\ RepliesMatch'

\* A step that leaves the rows and the object store as they are.
LEMMA HandlerStep ==
    ASSUME ExportInv, NEW h \in Handlers, NEW q \in HandlerState, Alone(h, q),
           Becomes(h, q), HandlerInv(q, disturbed'),
           UNCHANGED <<export, trail, object, puts>>,
           evidence' \in Nat, attempts' \in Nat, disturbed' \in BOOLEAN,
           disturbed = TRUE => disturbed' = TRUE,
           handler[h].pc = "write" => disturbed' = TRUE,
           KeepsReplies
    PROVE  ExportInv'
  <1>1. /\ handler' \in [Handlers -> HandlerState]
        /\ handler'[h] = q
        /\ \A g \in Handlers : g # h => handler'[g] = handler[g]
        /\ OneHolder'
    BY BecomesFacts
  <1>2. ASSUME NEW g \in Handlers PROVE HandlerInv(handler[g], disturbed)'
    <2>1. HandlerInv(handler'[g], disturbed')
      <3>1. CASE g = h
        BY <1>1, <3>1
      <3>2. CASE g # h
        <4>1. handler'[g] = handler[g] /\ HandlerInv(handler[g], disturbed)
          BY <1>1, <3>2 DEF ExportInv
        <4> QED BY <4>1 DEF HandlerInv, ExportInv
      <3> QED BY <3>1, <3>2
    <2> QED BY <2>1 DEF HandlerInv
  <1>3. ExportTypes'
    BY <1>1 DEF ExportInv, ExportTypes, KeepsReplies
  <1>4. RecordedArtifacts' /\ Trails'
    BY DEF ExportInv, RecordedArtifacts, Trails
  <1>5. PutsAreSingle'
    <2> SUFFICES ASSUME disturbed' = FALSE, NEW e \in Exports
                 PROVE  /\ puts[e] <= 1
                        /\ export[e].artifact = NoArtifact
                              /\ (\A g \in Handlers : handler'[g].pc = "write"
                                                         => handler'[g].export # e)
                              => puts[e] = 0
      BY DEF PutsAreSingle
    <2>1. disturbed = FALSE /\ handler[h].pc # "write"
      BY DEF ExportInv
    <2> QED BY <1>1, <2>1 DEF ExportInv, PutsAreSingle
  <1> QED BY <1>1, <1>2, <1>3, <1>4, <1>5 DEF ExportInv, KeepsReplies

LEMMA KeptReplies ==
    ASSUME ExportInv, UNCHANGED <<export, confirmed, served>> PROVE KeepsReplies
  BY DEF ExportInv, ExportTypes, RepliesMatch, KeepsReplies

\* A step that only moves one handler.
LEMMA OnlyBecomes ==
    ASSUME ExportInv, NEW h \in Handlers, NEW q \in HandlerState, Alone(h, q),
           HandlerInv(q, disturbed), Becomes(h, q), UNCHANGED exportRows,
           handler[h].pc # "write"
    PROVE  ExportInv'
  <1>1. UNCHANGED <<evidence, export, trail, object, attempts, confirmed, served, puts,
                    disturbed>>
    BY DEF exportRows
  <1>2. /\ HandlerInv(q, disturbed')
        /\ evidence' \in Nat /\ attempts' \in Nat /\ disturbed' \in BOOLEAN
    BY <1>1 DEF ExportInv, ExportTypes
  <1>3. KeepsReplies
    BY <1>1, KeptReplies
  <1> QED BY <1>1, <1>2, <1>3, HandlerStep

LEMMA AnswerAskStep ==
    ASSUME ExportInv, NEW h \in Handlers, NEW e \in Exports, NEW op \in ExportOps, NEW ask,
           Done(export[e], op), AnswerAsk(h, e, op, ask), handler[h].pc # "write"
    PROVE  ExportInv'
  <1>1. /\ Becomes(h, NoHandler)
        /\ UNCHANGED <<evidence, export, trail, object, attempts, served, puts, disturbed>>
    BY DEF AnswerAsk
  <1>2. /\ \A o \in ExportOps : \A reply \in confirmed'[o] :
              reply \in confirmed[o] \/ (o = op /\ reply = <<e, ask>> /\ AskIn(export[e], op) = ask)
        /\ confirmed' = [o \in ExportOps |-> confirmed'[o]]
    BY DEF AnswerAsk, ExportInv, ExportTypes
  <1>3. RepliesMatch'
    <2>1. \A o \in ExportOps : \A reply \in confirmed'[o] :
            /\ reply[1] \in Exports
            /\ Done(export[reply[1]], o) /\ AskIn(export[reply[1]], o) = reply[2]
      <3> SUFFICES ASSUME NEW o \in ExportOps, NEW reply \in confirmed'[o]
                   PROVE  /\ reply[1] \in Exports
                          /\ Done(export[reply[1]], o) /\ AskIn(export[reply[1]], o) = reply[2]
        OBVIOUS
      <3>1. CASE reply \in confirmed[o]
        BY <3>1 DEF ExportInv, RepliesMatch
      <3>2. CASE o = op /\ reply = <<e, ask>> /\ AskIn(export[e], op) = ask
        BY <3>2
      <3> QED BY <1>2, <3>1, <3>2
    <2> QED BY <1>1, <2>1 DEF ExportInv, RepliesMatch
  <1>4. KeepsReplies
    BY <1>1, <1>2, <1>3 DEF KeepsReplies, ExportInv, ExportTypes
  <1>5. /\ evidence' \in Nat /\ attempts' \in Nat /\ disturbed' \in BOOLEAN
        /\ HandlerInv(NoHandler, disturbed')
    BY <1>1, NoExportFacts DEF ExportInv, ExportTypes
  <1> QED BY <1>1, <1>4, <1>5, NoExportFacts, HandlerStep

LEMMA RecordEvidenceStep == ASSUME ExportInv, RecordEvidence PROVE ExportInv'
  <1>1. /\ evidence' \in Nat
        /\ UNCHANGED <<export, trail, object, handler, attempts, confirmed, served, puts,
                       disturbed>>
    BY DEF RecordEvidence
  <1>2. \A h \in Handlers : HandlerInv(handler[h], disturbed)'
    BY <1>1 DEF ExportInv, HandlerInv
  <1> QED BY <1>1, <1>2 DEF ExportInv, ExportTypes, OneHolder, RecordedArtifacts, Trails,
             PutsAreSingle, RepliesMatch

LEMMA AskForExportStep ==
    ASSUME ExportInv, NEW h \in Handlers, NEW e \in Exports, NEW k \in ExportKeys,
           NEW ask \in ExportAsks, AskForExport(h, e, k, ask)
    PROVE  ExportInv'
  <1> DEFINE r == [NoExport EXCEPT !.key = k, !.ask = ask, !.evidence = evidence]
             q == [NoHandler EXCEPT !.pc = "insert", !.export = e, !.row = r]
  <1>0. handler[h].pc = "idle"
    BY DEF AskForExport
  <1>1. CASE WithKey(k) # {}
    <2>1. PICK x \in WithKey(k) : AnswerAsk(h, x, "request", ask)
      BY <1>1 DEF AskForExport
    <2>2. x \in Exports /\ Done(export[x], "request")
      BY <2>1, NoExportFacts, ExportAssumption DEF WithKey, Done, Nil
    <2> QED BY <1>0, <2>1, <2>2, AnswerAskStep DEF ExportOps
  <1>2. CASE WithKey(k) = {}
    <2>1. Becomes(h, q) /\ UNCHANGED exportRows
      BY <1>2 DEF AskForExport
    <2>2. evidence \in Nat
      BY DEF ExportInv, ExportTypes
    <2>3. /\ r \in ExportRow /\ r.key = k /\ r.ask = ask
          /\ r.decision = Nil /\ r.artifact = NoArtifact
      BY <2>2, NoExportFacts DEF ExportRow
    <2> HIDE DEF r
    <2>4. /\ q \in HandlerState
          /\ q.pc = "insert" /\ q.export = e /\ q.row = r /\ q.holds = FALSE
      BY <2>3, NoExportFacts DEF HandlerState
    <2> HIDE DEF q
    <2>5. HandlerInv(q, disturbed) /\ Alone(h, q)
      BY <2>3, <2>4 DEF HandlerInv, Alone
    <2> QED BY <1>0, <2>1, <2>4, <2>5, OnlyBecomes
  <1> QED BY <1>1, <1>2

LEMMA InsertExportStep ==
    ASSUME ExportInv, NEW h \in Handlers, InsertExport(h) PROVE ExportInv'
  <1> DEFINE e == handler[h].export
             row == handler[h].row
             q == [handler[h] EXCEPT !.pc = "request", !.holds = TRUE]
             raced == IF WithKey(row.key) # {} THEN WithKey(row.key)
                      ELSE {x \in {e} : export[x] # NoExport}
  <1>1. /\ handler[h].pc = "insert" /\ handler[h] \in HandlerState
        /\ HandlerInv(handler[h], disturbed)
    BY DEF InsertExport, ExportInv, ExportTypes
  <1>2. /\ e \in Exports /\ row.key \in ExportKeys /\ row.ask \in ExportAsks
        /\ row.decision = Nil /\ row.artifact = NoArtifact
    BY <1>1 DEF HandlerInv
  <1>3. CASE raced # {}
    <2>1. PICK x \in raced : AnswerAsk(h, x, "request", row.ask)
      BY <1>3 DEF InsertExport
    <2>2. x \in Exports /\ Done(export[x], "request")
      BY <1>2, <2>1, NoExportFacts, ExportAssumption DEF WithKey, Done, Nil
    <2> QED BY <1>1, <2>1, <2>2, AnswerAskStep DEF ExportOps
  <1>4. CASE raced = {}
    <2>1. Becomes(h, q) /\ UNCHANGED exportRows
      BY <1>4 DEF InsertExport
    <2>2. export[e] = NoExport
      BY <1>4
    <2>3. \A g \in Handlers \ {h} : handler[g].holds => handler[g].export # e
      BY DEF InsertExport
    <2>4. /\ q \in HandlerState
          /\ q.pc = "request" /\ q.export = e /\ q.row = row /\ q.holds = TRUE
      BY <1>1 DEF HandlerState
    <2> HIDE DEF q
    <2>5. HandlerInv(q, disturbed) /\ Alone(h, q)
      BY <1>2, <2>2, <2>3, <2>4 DEF HandlerInv, Alone
    <2> QED BY <1>1, <2>1, <2>4, <2>5, OnlyBecomes
  <1> QED BY <1>3, <1>4

LEMMA ReadForDecisionStep ==
    ASSUME ExportInv, NEW h \in Handlers, NEW e \in Exports, NEW ask \in DecisionAsks,
           ReadForDecision(h, e, ask)
    PROVE  ExportInv'
  <1> DEFINE r == [export[e] EXCEPT !.decision = ask]
             q == [NoHandler EXCEPT !.pc = "fence_decision", !.export = e, !.row = r]
  <1>1. handler[h].pc = "idle" /\ export[e] # NoExport /\ export[e] \in ExportRow
    BY DEF ReadForDecision, ExportInv, ExportTypes
  <1>2. CASE export[e].decision # Nil
    BY <1>1, <1>2, AnswerAskStep DEF ReadForDecision, Done, ExportOps
  <1>3. CASE export[e].decision = Nil
    <2>1. Becomes(h, q) /\ UNCHANGED exportRows
      BY <1>3 DEF ReadForDecision
    <2>2. r \in ExportRow /\ r.decision = ask
      BY <1>1 DEF ExportRow
    <2> HIDE DEF r
    <2>3. /\ q \in HandlerState
          /\ q.pc = "fence_decision" /\ q.export = e /\ q.row = r /\ q.holds = FALSE
      BY <2>2, NoExportFacts DEF HandlerState
    <2> HIDE DEF q
    <2>4. HandlerInv(q, disturbed) /\ Alone(h, q)
      BY <1>1, <2>2, <2>3 DEF HandlerInv, Alone
    <2> QED BY <1>1, <2>1, <2>3, <2>4, OnlyBecomes
  <1> QED BY <1>2, <1>3

\* The row a fence tested is held by nobody else.
LEMMA FreeRow ==
    ASSUME ExportInv, NEW h \in Handlers, NEW e, RowFree(h, e), NEW q, q.export = e
    PROVE  Alone(h, q)
  BY DEF RowFree, Alone

LEMMA FenceDecisionStep ==
    ASSUME ExportInv, NEW h \in Handlers, FenceDecision(h) PROVE ExportInv'
  <1> DEFINE e == handler[h].export
             q == [handler[h] EXCEPT !.pc = "decide", !.holds = TRUE]
  <1>1. /\ handler[h].pc = "fence_decision" /\ handler[h] \in HandlerState
        /\ HandlerInv(handler[h], disturbed) /\ RowFree(h, e)
    BY DEF FenceDecision, ExportInv, ExportTypes
  <1>2. e \in Exports /\ export[e] # NoExport /\ handler[h].row.decision \in DecisionAsks
    BY <1>1 DEF HandlerInv
  <1>3. CASE Undecided(e)
    <2>1. Becomes(h, q) /\ UNCHANGED exportRows
      BY <1>3 DEF FenceDecision
    <2>2. /\ q \in HandlerState
          /\ q.pc = "decide" /\ q.export = e /\ q.row = handler[h].row /\ q.holds = TRUE
      BY <1>1 DEF HandlerState
    <2> HIDE DEF q
    <2>3. HandlerInv(q, disturbed) /\ Alone(h, q)
      BY <1>1, <1>2, <1>3, <2>2, FreeRow DEF HandlerInv, Undecided
    <2> QED BY <1>1, <2>1, <2>2, <2>3, OnlyBecomes
  <1>4. CASE ~Undecided(e)
    BY <1>1, <1>2, <1>4, AnswerAskStep DEF FenceDecision, Undecided, Done, ExportOps
  <1> QED BY <1>3, <1>4

LEMMA ReadForArtifactStep ==
    ASSUME ExportInv, NEW h \in Handlers, NEW e \in Exports, NEW ask \in ArtifactAsks,
           ReadForArtifact(h, e, ask)
    PROVE  ExportInv'
  <1> DEFINE a == [ask |-> ask, evidence |-> evidence, at |-> attempts + 1]
             r == [export[e] EXCEPT !.artifact = a]
             q == [NoHandler EXCEPT !.pc = "fence_artifact", !.export = e, !.row = r]
  <1>1. handler[h].pc = "idle" /\ export[e] # NoExport /\ export[e] \in ExportRow
    BY DEF ReadForArtifact, ExportInv, ExportTypes
  <1>2. CASE export[e].artifact # NoArtifact
    BY <1>1, <1>2, AnswerAskStep DEF ReadForArtifact, Done, ExportOps
  <1>3. CASE export[e].artifact = NoArtifact
    <2>1. /\ export[e].decision \in Approving /\ evidence = export[e].evidence
          /\ attempts' = attempts + 1
          /\ Becomes(h, q)
          /\ UNCHANGED <<evidence, export, trail, object, confirmed, served, puts, disturbed>>
      BY <1>3 DEF ReadForArtifact, EvidenceUnchanged
    <2>2. evidence \in Nat /\ attempts \in Nat /\ disturbed \in BOOLEAN
      BY DEF ExportInv, ExportTypes
    <2>3. /\ a \in ArtifactRow /\ a.ask = ask /\ a.evidence = evidence
          /\ a # NoArtifact
      <3>1. a \in ArtifactRow /\ a.ask = ask /\ a.evidence = evidence
        BY <2>2 DEF ArtifactRow
      <3>2. a.at # 0 /\ NoArtifact.at = 0
        BY <2>2 DEF NoArtifact
      <3> QED BY <3>1, <3>2
    <2> HIDE DEF a
    <2>4. r \in ExportRow /\ r.artifact = a
      BY <1>1, <2>3 DEF ExportRow
    <2> HIDE DEF r
    <2>5. /\ q \in HandlerState
          /\ q.pc = "fence_artifact" /\ q.export = e /\ q.row = r /\ q.holds = FALSE
      BY <2>4, NoExportFacts DEF HandlerState
    <2> HIDE DEF q
    <2>6. HandlerInv(q, disturbed) /\ Alone(h, q)
      BY <2>1, <2>3, <2>4, <2>5 DEF HandlerInv, Alone
    <2>7. KeepsReplies
      BY <2>1, KeptReplies
    <2>8. /\ evidence' \in Nat /\ attempts' \in Nat /\ disturbed' \in BOOLEAN
          /\ HandlerInv(q, disturbed')
      BY <2>1, <2>2, <2>6
    <2> QED BY <1>1, <2>1, <2>5, <2>6, <2>7, <2>8, HandlerStep
  <1> QED BY <1>2, <1>3

LEMMA FenceArtifactStep ==
    ASSUME ExportInv, NEW h \in Handlers, FenceArtifact(h) PROVE ExportInv'
  <1> DEFINE e == handler[h].export
             q == [handler[h] EXCEPT !.pc = "put", !.holds = TRUE]
  <1>1. /\ handler[h].pc = "fence_artifact" /\ handler[h] \in HandlerState
        /\ HandlerInv(handler[h], disturbed) /\ RowFree(h, e)
    BY DEF FenceArtifact, ExportInv, ExportTypes
  <1>2. /\ e \in Exports
        /\ export[e].decision \in Approving
        /\ handler[h].row.artifact.evidence = export[e].evidence
        /\ handler[h].row.artifact.ask \in ArtifactAsks
        /\ handler[h].row.artifact # NoArtifact
    BY <1>1 DEF HandlerInv
  <1>3. CASE NotWritten(e)
    <2>1. Becomes(h, q) /\ UNCHANGED exportRows
      BY <1>3 DEF FenceArtifact
    <2>2. /\ q \in HandlerState
          /\ q.pc = "put" /\ q.export = e /\ q.row = handler[h].row /\ q.holds = TRUE
      BY <1>1 DEF HandlerState
    <2> HIDE DEF q
    <2>3. HandlerInv(q, disturbed) /\ Alone(h, q)
      BY <1>1, <1>2, <1>3, <2>2, FreeRow DEF HandlerInv, NotWritten
    <2> QED BY <1>1, <2>1, <2>2, <2>3, OnlyBecomes
  <1>4. CASE ~NotWritten(e)
    BY <1>1, <1>2, <1>4, AnswerAskStep DEF FenceArtifact, NotWritten, Done, ExportOps
  <1> QED BY <1>3, <1>4

LEMMA RequestEnds ==
    ASSUME ExportInv, NEW h \in Handlers, RequestFails(h) PROVE ExportInv'
  <1>1. /\ Becomes(h, NoHandler)
        /\ UNCHANGED <<evidence, export, trail, object, attempts, confirmed, served, puts>>
    BY DEF RequestFails
  <1>2. /\ disturbed' \in BOOLEAN /\ (disturbed = TRUE => disturbed' = TRUE)
        /\ handler[h].pc = "write" => disturbed' = TRUE
    BY DEF RequestFails, ExportInv
  <1>3. KeepsReplies /\ evidence' \in Nat /\ attempts' \in Nat
    BY <1>1, KeptReplies DEF ExportInv, ExportTypes
  <1>4. HandlerInv(NoHandler, disturbed') /\ Alone(h, NoHandler) /\ NoHandler \in HandlerState
    BY NoExportFacts
  <1> QED BY <1>1, <1>2, <1>3, <1>4, HandlerStep

LEMMA ConnectionLostStep ==
    ASSUME ExportInv, NEW h \in Handlers, ConnectionLost(h) PROVE ExportInv'
  <1> DEFINE q == [handler[h] EXCEPT !.holds = FALSE]
  <1>1. /\ handler[h].pc = "put" /\ handler[h] \in HandlerState
        /\ HandlerInv(handler[h], disturbed)
        /\ Becomes(h, q) /\ disturbed' = TRUE
        /\ UNCHANGED <<evidence, export, trail, object, attempts, confirmed, served, puts>>
    BY DEF ConnectionLost, ExportInv, ExportTypes
  <1>2. /\ q \in HandlerState
        /\ q.pc = "put" /\ q.export = handler[h].export /\ q.row = handler[h].row
        /\ q.holds = FALSE
    BY <1>1 DEF HandlerState
  <1> HIDE DEF q
  <1>3. HandlerInv(q, TRUE) /\ Alone(h, q)
    BY <1>1, <1>2 DEF HandlerInv, Alone
  <1>4. KeepsReplies /\ evidence' \in Nat /\ attempts' \in Nat /\ disturbed' \in BOOLEAN
    BY <1>1, KeptReplies DEF ExportInv, ExportTypes
  <1> QED BY <1>1, <1>2, <1>3, <1>4, HandlerStep

LEMMA OpenArtifactStep ==
    ASSUME ExportInv, NEW h \in Handlers, NEW e \in Exports, OpenArtifact(h, e)
    PROVE  ExportInv'
  <1> DEFINE q == [NoHandler EXCEPT !.pc = "serve", !.export = e, !.row = export[e]]
  <1>1. /\ handler[h].pc = "idle" /\ export[e] \in ExportRow
        /\ export[e].artifact # NoArtifact
        /\ Becomes(h, q) /\ UNCHANGED exportRows
    BY DEF OpenArtifact, ExportInv, ExportTypes
  <1>2. /\ q \in HandlerState
        /\ q.pc = "serve" /\ q.export = e /\ q.row = export[e] /\ q.holds = FALSE
    BY <1>1, NoExportFacts DEF HandlerState
  <1> HIDE DEF q
  <1>3. HandlerInv(q, disturbed) /\ Alone(h, q)
    BY <1>1, <1>2 DEF HandlerInv, Alone
  <1> QED BY <1>1, <1>2, <1>3, OnlyBecomes

LEMMA ServeArtifactStep ==
    ASSUME ExportInv, NEW h \in Handlers, ServeArtifact(h) PROVE ExportInv'
  <1> DEFINE e == handler[h].export
             a == handler[h].row.artifact
             s == [export |-> e, artifact |-> a]
  <1>1. /\ handler[h].pc = "serve" /\ handler[h] \in HandlerState
        /\ HandlerInv(handler[h], disturbed)
        /\ Becomes(h, NoHandler)
        /\ UNCHANGED <<evidence, export, trail, object, attempts, confirmed, puts, disturbed>>
    BY DEF ServeArtifact, ExportInv, ExportTypes
  <1>2. /\ e \in Exports /\ a \in ArtifactRow
        /\ export[e].artifact # NoArtifact /\ a = export[e].artifact
    BY <1>1 DEF HandlerInv, HandlerState, ExportRow
  <1>3. served' = served \/ served' = served \cup {s}
    BY DEF ServeArtifact, DigestMatches
  <1>4. s \in [export : Exports, artifact : ArtifactRow] /\ s.export = e /\ s.artifact = a
    BY <1>2
  <1> HIDE DEF s
  <1>5. KeepsReplies
    <2>1. /\ served' \subseteq [export : Exports, artifact : ArtifactRow]
          /\ confirmed' = [op \in ExportOps |-> confirmed'[op]]
      BY <1>1, <1>3, <1>4 DEF ExportInv, ExportTypes
    <2>2. \A t \in served' : /\ export[t.export].artifact # NoArtifact
                             /\ t.artifact = export[t.export].artifact
      BY <1>2, <1>3, <1>4 DEF ExportInv, RepliesMatch
    <2>3. RepliesMatch'
      BY <1>1, <2>2 DEF ExportInv, RepliesMatch
    <2> QED BY <2>1, <2>3 DEF KeepsReplies
  <1>6. /\ evidence' \in Nat /\ attempts' \in Nat /\ disturbed' \in BOOLEAN
        /\ HandlerInv(NoHandler, disturbed') /\ Alone(h, NoHandler) /\ NoHandler \in HandlerState
    BY <1>1, NoExportFacts DEF ExportInv, ExportTypes
  <1> QED BY <1>1, <1>5, <1>6, HandlerStep

\* A put after the connection was lost may replace anything; one before it has
\* the row to itself.
LEMMA PutArtifactStep ==
    ASSUME ExportInv, NEW h \in Handlers, PutArtifact(h) PROVE ExportInv'
  <1> DEFINE e == handler[h].export
             a == handler[h].row.artifact
             key == <<e, a.ask[1]>>
             q == IF handler[h].holds THEN [handler[h] EXCEPT !.pc = "write"] ELSE NoHandler
  <1>1. /\ handler[h].pc = "put" /\ handler[h] \in HandlerState
        /\ HandlerInv(handler[h], disturbed)
        /\ object' = [object EXCEPT ![key] = a]
        /\ puts' = [puts EXCEPT ![e] = @ + 1]
        /\ Becomes(h, q)
        /\ UNCHANGED <<evidence, export, trail, attempts, confirmed, served, disturbed>>
    BY DEF PutArtifact, ExportInv, ExportTypes
  <1>2. /\ e \in Exports /\ a \in ArtifactRow
        /\ export[e].decision \in Approving
        /\ a.evidence = export[e].evidence
        /\ a.ask \in ArtifactAsks /\ a # NoArtifact
        /\ handler[h].holds = FALSE => disturbed = TRUE
        /\ handler[h].holds = TRUE => export[e].artifact = NoArtifact
    BY <1>1 DEF HandlerInv, HandlerState, ExportRow
  <1>3. key \in StorageKeys
    BY <1>2 DEF StorageKeys
  <1>4. /\ object' \in [StorageKeys -> ArtifactRow] /\ object'[key] = a
        /\ \A s \in StorageKeys : s # key => object'[s] = object[s]
    BY <1>1, <1>2, <1>3 DEF ExportInv, ExportTypes
  <1>5. /\ puts' \in [Exports -> Nat] /\ puts'[e] = puts[e] + 1
        /\ \A x \in Exports : x # e => puts'[x] = puts[x]
    BY <1>1, <1>2 DEF ExportInv, ExportTypes
  <1>6. /\ q \in HandlerState
        /\ handler[h].holds = FALSE => q = NoHandler
        /\ handler[h].holds = TRUE => /\ q.pc = "write" /\ q.export = e
                                      /\ q.row = handler[h].row /\ q.holds = TRUE
        /\ handler[h].holds \in BOOLEAN
    BY <1>1, NoExportFacts DEF HandlerState
  <1> HIDE DEF q, key
  <1>7. Alone(h, q)
    BY <1>1, <1>6, NoExportFacts DEF Alone, ExportInv, OneHolder
  <1>8. /\ handler' \in [Handlers -> HandlerState]
        /\ handler'[h] = q
        /\ \A g \in Handlers : g # h => handler'[g] = handler[g]
        /\ OneHolder'
    BY <1>1, <1>6, <1>7, BecomesFacts
  <1>9. ASSUME disturbed = FALSE, NEW x \in Exports, x # e, NEW ask \in ArtifactAsks
        PROVE  object'[<<x, ask[1]>>] = object[<<x, ask[1]>>]
    <2>1. <<x, ask[1]>> \in StorageKeys /\ <<x, ask[1]>> # key
      BY <1>9 DEF StorageKeys, key
    <2> QED BY <1>4, <2>1
  <1>10. ASSUME NEW g \in Handlers PROVE HandlerInv(handler[g], disturbed)'
    <2>1. CASE g # h
      <3>1. /\ HandlerInv(handler[g], disturbed) /\ handler'[g] = handler[g]
            /\ export' = export /\ disturbed' = disturbed
        BY <1>1, <1>8, <2>1 DEF ExportInv
      <3>2. ASSUME handler[g].pc = "write", disturbed = FALSE
            PROVE  handler[g].export # e /\ handler[g].export \in Exports
                     /\ handler[g].row.artifact.ask \in ArtifactAsks
        <4>1. handler[h].holds = TRUE
          BY <1>2, <1>6, <3>2
        <4> QED BY <2>1, <3>1, <3>2, <4>1 DEF HandlerInv, ExportInv, OneHolder
      <3> QED BY <1>9, <3>1, <3>2 DEF HandlerInv
    <2>2. CASE g = h /\ handler[h].holds = FALSE
      BY <1>6, <1>8, <2>2, NoExportFacts DEF HandlerInv
    <2>3. CASE g = h /\ handler[h].holds = TRUE
      <3>1. /\ handler'[h].pc = "write" /\ handler'[h].export = e
            /\ handler'[h].row.artifact = a /\ handler'[h].holds = TRUE
        BY <1>6, <1>8, <2>3
      <3>2. object'[<<e, a.ask[1]>>] = a
        BY <1>4 DEF key
      <3> QED BY <1>1, <1>2, <2>3, <3>1, <3>2 DEF HandlerInv
    <2> QED BY <1>6, <2>1, <2>2, <2>3
  <1>11. ExportTypes' /\ Trails' /\ RepliesMatch'
    BY <1>1, <1>4, <1>5, <1>8 DEF ExportInv, ExportTypes, Trails, RepliesMatch
  <1>12. RecordedArtifacts'
    <2> SUFFICES ASSUME NEW x \in Exports, export[x].artifact # NoArtifact
                 PROVE  /\ export[x].decision \in Approving
                        /\ export[x].artifact.evidence = export[x].evidence
                        /\ export[x].artifact.ask \in ArtifactAsks
                        /\ disturbed = FALSE =>
                              object'[<<x, export[x].artifact.ask[1]>>] = export[x].artifact
      BY <1>1 DEF RecordedArtifacts
    <2>1. /\ export[x].decision \in Approving
          /\ export[x].artifact.evidence = export[x].evidence
          /\ export[x].artifact.ask \in ArtifactAsks
          /\ disturbed = FALSE =>
                object[<<x, export[x].artifact.ask[1]>>] = export[x].artifact
      BY DEF ExportInv, RecordedArtifacts
    <2>2. ASSUME disturbed = FALSE PROVE x # e
      BY <1>2, <1>6, <2>2
    <2> QED BY <1>9, <2>1, <2>2
  <1>13. PutsAreSingle'
    <2> SUFFICES ASSUME disturbed = FALSE, NEW x \in Exports
                 PROVE  /\ puts'[x] <= 1
                        /\ export[x].artifact = NoArtifact
                              /\ (\A g \in Handlers : handler'[g].pc = "write"
                                                         => handler'[g].export # x)
                              => puts'[x] = 0
      BY <1>1 DEF PutsAreSingle
    <2>1. handler[h].holds = TRUE
      BY <1>2, <1>6
    <2>2. \A g \in Handlers : handler[g].pc = "write" => handler[g].export # e
      BY <1>1, <2>1 DEF ExportInv, OneHolder, HandlerInv
    <2>3. CASE x = e
      BY <1>2, <1>5, <1>6, <1>8, <2>1, <2>2, <2>3 DEF ExportInv, PutsAreSingle
    <2>4. CASE x # e
      BY <1>1, <1>5, <1>8, <2>4 DEF ExportInv, PutsAreSingle
    <2> QED BY <2>3, <2>4
  <1>14. disturbed' \in BOOLEAN
    BY <1>1 DEF ExportInv
  <1> QED BY <1>8, <1>10, <1>11, <1>12, <1>13, <1>14 DEF ExportInv

\* What a commit makes of a row: the transition of op, and no other.
Advances(old, new, op) ==
    /\ new \in ExportRow
    /\ ~Done(old, op) /\ Done(new, op)
    /\ \A o \in ExportOps \ {op} : /\ Done(new, o) <=> Done(old, o)
                                   /\ Done(old, o) => AskIn(new, o) = AskIn(old, o)

\* The row with the columns that a commit of operation op sets.
Written(old, row, op) ==
    CASE op = "request" -> row
      [] op = "decide"  -> [old EXCEPT !.decision = row.decision]
      [] op = "write"   -> [old EXCEPT !.artifact = row.artifact]

\* The commit of operation op with the columns of row makes new of the old row
\* of export e.
Settles(e, old, row, op, new) ==
    /\ Advances(old, new, op)
    /\ AskIn(new, op) = AskIn(row, op)
    /\ op = "request" => old = NoExport /\ new.artifact = NoArtifact
    /\ op = "decide" => /\ old # NoExport /\ old.decision = Nil
                        /\ new.decision \in DecisionAsks /\ new.artifact = old.artifact
    /\ op = "write" => /\ old.artifact = NoArtifact /\ new.artifact # NoArtifact
                       /\ new.decision = old.decision /\ new.evidence = old.evidence
                       /\ new.decision \in Approving
                       /\ new.artifact.evidence = new.evidence
                       /\ new.artifact.ask \in ArtifactAsks
                       /\ disturbed = FALSE =>
                             object[<<e, new.artifact.ask[1]>>] = new.artifact

\* The commit of handler h finds the row as its fence left it.
LEMMA CommitAdvances ==
    ASSUME ExportInv, NEW h \in Handlers, NEW op \in ExportOps, op = handler[h].pc,
           NEW e, e = handler[h].export, NEW row, row = handler[h].row,
           NEW new, new = Written(export[e], row, op)
    PROVE  /\ e \in Exports /\ handler[h].holds = TRUE
           /\ Settles(e, export[e], row, op, new)
  <1>1. /\ handler[h] \in HandlerState /\ HandlerInv(handler[h], disturbed)
        /\ export \in [Exports -> ExportRow] /\ row \in ExportRow
    BY DEF ExportInv, ExportTypes, HandlerState
  <1>2. e \in Exports /\ handler[h].holds = TRUE /\ export[e] \in ExportRow
    BY <1>1 DEF HandlerInv, ExportOps
  <1>3. CASE op = "request"
    <2>1. /\ new = row /\ export[e] = NoExport /\ row.key \in ExportKeys
          /\ row.decision = Nil /\ row.artifact = NoArtifact
      BY <1>1, <1>3 DEF HandlerInv, Written
    <2>2. row # NoExport
      BY <2>1, NoExportFacts, ExportAssumption DEF Nil
    <2>3. Advances(export[e], new, "request")
      BY <1>1, <2>1, <2>2, NoExportFacts DEF Advances, Done, ExportOps
    <2> QED BY <1>2, <1>3, <2>1, <2>3 DEF Settles
  <1>4. CASE op = "decide"
    <2>1. /\ export[e] # NoExport /\ export[e].decision = Nil /\ row.decision \in DecisionAsks
          /\ new = [export[e] EXCEPT !.decision = row.decision]
      BY <1>1, <1>4 DEF HandlerInv, Written
    <2>2. /\ new \in ExportRow /\ new.decision = row.decision /\ new.ask = export[e].ask
          /\ new.artifact = export[e].artifact
      BY <1>2, <2>1 DEF ExportRow
    <2>3. new.decision # Nil /\ new # NoExport
      BY <2>1, <2>2, NoExportFacts, ExportAssumption DEF Nil
    <2>4. Advances(export[e], new, "decide")
      BY <2>1, <2>2, <2>3 DEF Advances, Done, AskIn, ExportOps
    <2>5. AskIn(new, "decide") = AskIn(row, "decide")
      BY <2>2 DEF AskIn
    <2> QED BY <1>2, <1>4, <2>1, <2>2, <2>4, <2>5 DEF Settles
  <1>5. CASE op = "write"
    <2>1. /\ export[e].artifact = NoArtifact /\ row.artifact # NoArtifact
          /\ export[e].decision \in Approving
          /\ row.artifact.evidence = export[e].evidence
          /\ row.artifact.ask \in ArtifactAsks
          /\ disturbed = FALSE => object[<<e, row.artifact.ask[1]>>] = row.artifact
          /\ new = [export[e] EXCEPT !.artifact = row.artifact]
      BY <1>1, <1>2, <1>5 DEF HandlerInv, Written
    <2>2. /\ new \in ExportRow /\ new.artifact = row.artifact /\ new.ask = export[e].ask
          /\ new.decision = export[e].decision /\ new.evidence = export[e].evidence
      BY <1>1, <1>2, <2>1 DEF ExportRow
    <2>3. new # NoExport /\ export[e] # NoExport
      BY <2>1, <2>2, NoExportFacts, ExportAssumption DEF Nil
    <2>4. Advances(export[e], new, "write")
      BY <2>1, <2>2, <2>3 DEF Advances, Done, AskIn, ExportOps
    <2>5. AskIn(new, "write") = AskIn(row, "write")
      BY <2>2 DEF AskIn
    <2> QED BY <1>2, <1>5, <2>1, <2>2, <2>4, <2>5 DEF Settles
  <1> QED BY <1>2, <1>3, <1>4, <1>5 DEF ExportOps

LEMMA CommitExportStep ==
    ASSUME ExportInv, NEW h \in Handlers, CommitExport(h) PROVE ExportInv'
  <1>0. PICK e, row, op, new : /\ e = handler[h].export /\ row = handler[h].row
                               /\ op = handler[h].pc /\ new = Written(export[e], row, op)
    OBVIOUS
  <1>1. /\ op \in ExportOps
        /\ export' = [export EXCEPT ![e] = new]
        /\ trail' = [trail EXCEPT ![e][op] = @ + 1]
        /\ confirmed' = [confirmed EXCEPT ![op] = @ \cup {<<e, AskIn(row, op)>>}]
        /\ Becomes(h, NoHandler)
        /\ UNCHANGED <<evidence, object, attempts, served, puts, disturbed>>
    BY <1>0 DEF CommitExport, Written
  <1>2. /\ e \in Exports /\ handler[h].holds = TRUE
        /\ Settles(e, export[e], row, op, new)
    BY <1>0, <1>1, CommitAdvances
  <1>3. /\ export' \in [Exports -> ExportRow] /\ export'[e] = new
        /\ \A x \in Exports : x # e => export'[x] = export[x]
    BY <1>1, <1>2 DEF Settles, Advances, ExportInv, ExportTypes
  <1>4. /\ handler' \in [Handlers -> HandlerState]
        /\ handler'[h] = NoHandler
        /\ \A g \in Handlers : g # h => handler'[g] = handler[g]
        /\ OneHolder'
    BY <1>1, NoExportFacts, BecomesFacts
  <1>5. /\ trail' \in [Exports -> [ExportOps -> Nat]]
        /\ trail'[e][op] = trail[e][op] + 1
        /\ \A o \in ExportOps : o # op => trail'[e][o] = trail[e][o]
        /\ \A x \in Exports : x # e => trail'[x] = trail[x]
    BY <1>1, <1>2 DEF ExportInv, ExportTypes
  <1>6. /\ confirmed' = [o \in ExportOps |-> confirmed'[o]]
        /\ \A o \in ExportOps : \A reply \in confirmed'[o] :
              reply \in confirmed[o] \/ (o = op /\ reply = <<e, AskIn(row, op)>>)
    BY <1>1 DEF ExportInv, ExportTypes
  <1>7. ExportTypes' /\ disturbed' \in BOOLEAN
    BY <1>1, <1>3, <1>4, <1>5, <1>6 DEF ExportInv, ExportTypes
  <1>8. Trails'
    <2> SUFFICES ASSUME NEW x \in Exports, NEW o \in ExportOps
                 PROVE  /\ Done(export'[x], o) => trail'[x][o] = 1
                        /\ ~Done(export'[x], o) => trail'[x][o] = 0
      BY DEF Trails, Done
    <2>1. /\ Done(export[x], o) => trail[x][o] = 1
          /\ ~Done(export[x], o) => trail[x][o] = 0
      BY DEF ExportInv, Trails
    <2>2. CASE x # e
      BY <1>3, <1>5, <2>1, <2>2
    <2>3. CASE x = e /\ o = op
      BY <1>2, <1>3, <1>5, <2>1, <2>3 DEF Settles, Advances
    <2>4. CASE x = e /\ o # op
      BY <1>2, <1>3, <1>5, <2>1, <2>4 DEF Settles, Advances
    <2> QED BY <2>2, <2>3, <2>4
  <1>9. RepliesMatch'
    <2>1. ASSUME NEW o \in ExportOps, NEW reply \in confirmed'[o]
          PROVE  /\ reply[1] \in Exports
                 /\ Done(export'[reply[1]], o) /\ AskIn(export'[reply[1]], o) = reply[2]
      <3>1. CASE reply \in confirmed[o]
        <4>1. /\ reply[1] \in Exports
              /\ Done(export[reply[1]], o) /\ AskIn(export[reply[1]], o) = reply[2]
          BY <3>1 DEF ExportInv, RepliesMatch
        <4>2. CASE reply[1] # e
          BY <1>3, <4>1, <4>2
        <4>3. CASE reply[1] = e
          <5>1. o # op
            BY <1>2, <4>1, <4>3 DEF Settles, Advances
          <5> QED BY <1>2, <1>3, <4>1, <4>3, <5>1 DEF Settles, Advances
        <4> QED BY <4>2, <4>3
      <3>2. CASE o = op /\ reply = <<e, AskIn(row, op)>>
        BY <1>2, <1>3, <3>2 DEF Settles, Advances
      <3> QED BY <1>6, <2>1, <3>1, <3>2
    <2>2. ASSUME NEW s \in served
          PROVE  /\ export'[s.export].artifact # NoArtifact
                 /\ s.artifact = export'[s.export].artifact
      <3>1. /\ s.export \in Exports /\ export[s.export].artifact # NoArtifact
            /\ s.artifact = export[s.export].artifact
        BY DEF ExportInv, ExportTypes, RepliesMatch
      <3> QED BY <1>1, <1>2, <1>3, <3>1, NoExportFacts DEF Settles, ExportOps
    <2> QED BY <1>1, <2>1, <2>2 DEF RepliesMatch, Done, AskIn
  <1>10. RecordedArtifacts'
    <2> SUFFICES ASSUME NEW x \in Exports, export'[x].artifact # NoArtifact
                 PROVE  /\ export'[x].decision \in Approving
                        /\ export'[x].artifact.evidence = export'[x].evidence
                        /\ export'[x].artifact.ask \in ArtifactAsks
                        /\ disturbed = FALSE =>
                             object[<<x, export'[x].artifact.ask[1]>>] = export'[x].artifact
      BY <1>1 DEF RecordedArtifacts
    <2>1. CASE x # e
      BY <1>3, <2>1 DEF ExportInv, RecordedArtifacts
    <2>2. CASE x = e
      <3>1. op = "decide" => Nil \notin Approving
        BY ExportAssumption DEF Nil
      <3> QED BY <1>1, <1>2, <1>3, <2>2, <3>1 DEF Settles, ExportInv,
                 RecordedArtifacts, ExportOps
    <2> QED BY <2>1, <2>2
  <1>11. PutsAreSingle'
    <2> SUFFICES ASSUME disturbed = FALSE, NEW x \in Exports
                 PROVE  /\ puts[x] <= 1
                        /\ export'[x].artifact = NoArtifact
                              /\ (\A g \in Handlers : handler'[g].pc = "write"
                                                         => handler'[g].export # x)
                              => puts[x] = 0
      BY <1>1 DEF PutsAreSingle
    <2>1. puts[x] <= 1
      BY DEF ExportInv, PutsAreSingle
    <2>2. ASSUME export'[x].artifact = NoArtifact,
                 \A g \in Handlers : handler'[g].pc = "write" => handler'[g].export # x
          PROVE  puts[x] = 0
      <3>1. export[x].artifact = NoArtifact
        BY <1>1, <1>2, <1>3, <2>2, NoExportFacts DEF Settles, ExportOps
      <3>2. \A g \in Handlers : handler[g].pc = "write" => handler[g].export # x
        BY <1>0, <1>2, <1>3, <1>4, <2>2 DEF Settles
      <3> QED BY <3>1, <3>2 DEF ExportInv, PutsAreSingle
    <2> QED BY <2>1, <2>2
  <1>12. ASSUME NEW g \in Handlers PROVE HandlerInv(handler[g], disturbed)'
    <2>1. CASE g = h
      BY <1>4, <2>1, NoExportFacts DEF HandlerInv
    <2>2. CASE g # h
      <3>1. /\ HandlerInv(handler[g], disturbed) /\ handler'[g] = handler[g]
            /\ object' = object /\ disturbed' = disturbed
        BY <1>1, <1>4, <2>2 DEF ExportInv
      <3>2. handler[g].holds = TRUE => handler[g].export # e
        BY <1>0, <1>2, <2>2 DEF ExportInv, OneHolder
      <3>3. CASE handler[g].export # e
        BY <1>3, <3>1, <3>3 DEF HandlerInv
      <3>4. CASE handler[g].export = e
        <4>1. handler[g].holds # TRUE
          BY <3>2, <3>4
        <4>2. Nil \notin Approving
          BY ExportAssumption DEF Nil
        <4>3. CASE op = "request"
          BY <1>2, <1>3, <3>1, <3>4, <4>1, <4>2, <4>3, NoExportFacts
             DEF Settles, HandlerInv
        <4>4. CASE op = "decide"
          <5>1. new # NoExport
            BY <1>2, <4>4, NoExportFacts DEF Settles, Advances, Done
          <5> QED BY <1>2, <1>3, <3>1, <3>4, <4>1, <4>2, <4>4, <5>1
                 DEF Settles, HandlerInv
        <4>5. CASE op = "write"
          <5>1. new # NoExport
            BY <1>2, <4>5, NoExportFacts DEF Settles, Advances, Done
          <5>2. /\ export[e].artifact = NoArtifact
                /\ new.decision = export[e].decision /\ new.evidence = export[e].evidence
            BY <1>2, <4>5 DEF Settles
          <5>3. handler[g].pc \notin {"request", "decide", "write", "serve"}
            BY <3>1, <3>4, <4>1, <5>2 DEF HandlerInv
          <5>4. handler'[g].export = e /\ handler'[g].holds # TRUE
            BY <3>1, <3>4, <4>1
          <5> QED BY <1>3, <3>1, <3>4, <5>1, <5>2, <5>3, <5>4 DEF HandlerInv
        <4> QED BY <1>1, <4>3, <4>4, <4>5 DEF ExportOps
      <3> QED BY <3>3, <3>4
    <2> QED BY <2>1, <2>2
  <1> QED BY <1>4, <1>7, <1>8, <1>9, <1>10, <1>11, <1>12 DEF ExportInv

LEMMA ExportStep == ExportInv /\ [ExportNext]_exportVars => ExportInv'
  <1> SUFFICES ASSUME ExportInv, [ExportNext]_exportVars PROVE ExportInv'
    OBVIOUS
  <1>1. CASE UNCHANGED exportVars
    <2>1. \A h \in Handlers : HandlerInv(handler[h], disturbed)'
      BY <1>1 DEF exportVars, ExportInv, HandlerInv
    <2> QED BY <1>1, <2>1 DEF exportVars, ExportInv, ExportTypes, OneHolder,
               RecordedArtifacts, Trails, PutsAreSingle, RepliesMatch
  <1> QED BY <1>1, RecordEvidenceStep, AskForExportStep, InsertExportStep,
             ReadForDecisionStep, FenceDecisionStep, ReadForArtifactStep, FenceArtifactStep,
             PutArtifactStep, CommitExportStep, ConnectionLostStep, RequestEnds,
             OpenArtifactStep, ServeArtifactStep
          DEF ExportNext

LEMMA ExportInvariant == ExportSpec => []ExportInv
  <1>1. ExportInit => ExportInv
    <2> SUFFICES ASSUME ExportInit PROVE ExportInv
      OBVIOUS
    <2>1. ExportTypes /\ disturbed \in BOOLEAN
      BY NoExportFacts DEF ExportInit, ExportTypes
    <2>2. \A h \in Handlers : HandlerInv(handler[h], disturbed)
      BY NoExportFacts DEF ExportInit
    <2>3. OneHolder /\ RecordedArtifacts /\ PutsAreSingle /\ RepliesMatch
      BY NoExportFacts DEF ExportInit, OneHolder, RecordedArtifacts, PutsAreSingle,
         RepliesMatch
    <2>4. Trails
      BY NoExportFacts DEF ExportInit, Trails, Done, ExportOps
    <2> QED BY <2>1, <2>2, <2>3, <2>4 DEF ExportInv
  <1> QED BY <1>1, ExportStep, PTL DEF ExportSpec

\* Whoever races for it, an export is requested, decided and written once, and
\* a client is told only of the ask on record: the insert, decide and
\* materialize transactions test the row again as they lock it, and hold it
\* until they commit.
THEOREM TransitionsOnce == ExportSpec => []TransitionsHappenOnce
  <1>1. ExportInv => TransitionsHappenOnce
    <2> SUFFICES ASSUME ExportInv PROVE TransitionsHappenOnce
      OBVIOUS
    <2>1. ASSUME NEW e \in Exports
          PROVE  /\ trail[e]["request"] = IF export[e] = NoExport THEN 0 ELSE 1
                 /\ trail[e]["decide"] = IF export[e].decision = Nil THEN 0 ELSE 1
                 /\ trail[e]["write"] = IF export[e].artifact = NoArtifact THEN 0 ELSE 1
      BY DEF ExportInv, Trails, Done, ExportOps
    <2>2. ~disturbed => \A e \in Exports : puts[e] <= 1
      BY DEF ExportInv, PutsAreSingle
    <2>3. \A op \in ExportOps : \A reply \in confirmed[op] :
             AskIn(export[reply[1]], op) = reply[2]
      BY DEF ExportInv, RepliesMatch
    <2> QED BY <2>1, <2>2, <2>3 DEF TransitionsHappenOnce
  <1> QED BY <1>1, ExportInvariant, PTL

\* What leaves the platform is what was approved: materialize writes the
\* evidence its approvers were shown, for an export they approved, and a reader
\* gets the recorded artifact or nothing, whatever a thread that lost its
\* transaction puts in its place.
THEOREM ApprovedArtifacts == ExportSpec => []ArtifactIsAsApproved
  <1>1. ExportInv => ArtifactIsAsApproved
    BY DEF ExportInv, RecordedArtifacts, RepliesMatch, ArtifactIsAsApproved
  <1> QED BY <1>1, ExportInvariant, PTL
=============================================================================
