----------------------- MODULE SourceIngestion_proofs -----------------------
(***************************************************************************)
(* Proofs about SourceIngestion for every value of its constants: any      *)
(* number of requests, bindings, dispatchers, attempts, crashes and leases *)
(* that expire under a running holder.                                     *)
(***************************************************************************)
EXTENDS IngestionRefinement, FiniteSetTheorems, TLAPS

-----------------------------------------------------------------------------
(* The inductive invariant *)

\* A row carries a token only while it is claimed, and one that was issued.
RowSound(r) ==
    /\ row[r].token <= tokens[r]
    /\ row[r].status # "dispatching" => row[r].token = 0

\* Between two dead letters the attempts rise, all but the last are retried,
\* and nothing follows a completion.
Rising(h) ==
    /\ \A i \in 1 .. Len(h) - 1 :
          /\ h[i].outcome = "retried" => h[i].number < h[i + 1].number
          /\ h[i].outcome # "completed"
    /\ \A i \in 1 .. Len(h) :
          h[i].outcome = "retried" => h[i].number < MaxAttempts

Ends(h, outcome) == Len(h) > 0 /\ h[Len(h)].outcome = outcome

\* The attempts on record against the row: a retried attempt is no later than
\* the count of the row, and earlier while another one runs.
Recorded(r) ==
    /\ Rising(timeline[r])
    /\ row[r].status = "absent" => Len(timeline[r]) = 0
    /\ row[r].status = "completed" <=> Ends(timeline[r], "completed")
    /\ row[r].status = "failed" => Ends(timeline[r], "dead_lettered")
    /\ Ends(timeline[r], "retried") =>
          /\ timeline[r][Len(timeline[r])].number <= row[r].attempts
          /\ row[r].status = "dispatching" =>
                timeline[r][Len(timeline[r])].number < row[r].attempts

\* The audit events against the row.
Audited(r) ==
    /\ audit[r]["requested"] = IF row[r].status = "absent" THEN 0 ELSE 1
    /\ audit[r]["completed"] = IF row[r].status = "completed" THEN 1 ELSE 0
    /\ audit[r]["cancelled"] = IF row[r].status = "cancelled" THEN 1 ELSE 0
    /\ audit[r]["failed"] =
          audit[r]["requeued"] + IF row[r].status = "failed" THEN 1 ELSE 0

Consistent(r) == RowSound(r) /\ Recorded(r) /\ Audited(r)
RequestInv == \A r \in Requests : Consistent(r)

\* The object name carries the digest of this payload.
Named(k, e) ==
    \E r \in Requests, b \in Bindings :
        k = [request |-> r, binding |-> b, digest |-> e]

Stored(k) == \E o \in objects : o.key = k

\* Of an incremental source, every object holds what its name says, and the
\* object of every batch is there.
StoreInv ==
    /\ IsFiniteSet(batches)
    /\ Incremental =>
          /\ \A o \in objects : Named(o.key, o.envelope)
          /\ \A x \in batches : Named(x.key, x.envelope) /\ Stored(x.key)

\* A claim some pass still has: its token was issued, and while it is the
\* current one its attempt is the one the row counts.
GoodClaim(c) ==
    /\ c \in Claims
    /\ 0 < c.token
    /\ c.token <= tokens[c.request]
    /\ row[c.request].status # "absent"
    /\ row[c.request].token = c.token => c.attempt = row[c.request].attempts

\* What an extraction starts from is the checkpoint of its revision: it is
\* still the current one, or has been passed.
Based(x) ==
    Incremental =>
        /\ x.revision <= checkpoint[x.binding].revision
        /\ x.revision = checkpoint[x.binding].revision
              => x.from = checkpoint[x.binding].cursor

\* What a read brought back.
Fetched(x) ==
    /\ x \in Result
    /\ Based(x)
    /\ IF Incremental THEN Named(x.key, x.envelope) /\ x.to \in Cursors
       ELSE x.from = 0 /\ x.to = 0 /\ Cursors # {}

Busy == {"validate", "extract", "read", "store", "commit", "failure"}
Extracting == {"extract", "read", "store"}

\* The bindings of a request are divided into those left and those extracted,
\* each of which has one result.
Gathered(v) ==
    LET r == v.job.request
    IN  IF row[r].stage = "extract"
        THEN /\ v.left \cup {x.binding : x \in v.results} = Selections[r]
             /\ \A x \in v.results : x.binding \notin v.left
             /\ \A x, y \in v.results : x.binding = y.binding => x = y
        ELSE v.results = {}

\* What a dispatcher's pass may rely on.
Sound(v) ==
    /\ IsFiniteSet(v.results)
    /\ \A c \in v.todo : GoodClaim(c)
    /\ v.pc \in Busy => GoodClaim(v.job)
    /\ v.pc \in Extracting => row[v.job.request].stage = "extract"
    /\ v.pc \in Extracting \cup {"commit"} => Gathered(v)
    /\ v.pc = "validate" => v.results = {} /\ v.left = {}
    /\ v.pc = "commit" => v.left = {}
    /\ v.pc = "read" => v.hand \in Prepared /\ Based(v.hand)
    /\ v.pc = "store" => Fetched(v.hand)
    /\ v.pc \in {"read", "store"} => v.hand.binding \in v.left
    /\ \A x \in v.results : Fetched(x) /\ (Incremental => Stored(x.key))

WorkInv == \A w \in Workers : Sound(work[w])

IngestionInv ==
    TypeOK /\ RequestInv /\ ExtractionIsAllOrNothing /\ StoreInv /\ WorkInv

-----------------------------------------------------------------------------
(* The types of a pass *)

LEMMA WorkFields ==
    ASSUME TypeOK, NEW w \in Workers
    PROVE  /\ work[w] \in Work
           /\ work[w].pc \in Steps
           /\ work[w].todo \in SUBSET Claims
           /\ work[w].job \in Claims \cup {NoClaim}
           /\ work[w].left \in SUBSET Bindings
           /\ work[w].hand \in Prepared \cup Result \cup {Nothing}
           /\ work[w].results \in SUBSET Result
           /\ work[w].permanent \in BOOLEAN
  BY DEF TypeOK, Work

LEMMA IdleFields ==
    Idle \in Work /\ Idle.pc = "idle" /\ Idle.todo = {} /\ Idle.results = {}
  BY DEF Idle, Start, Work, Steps

LEMMA RowFields ==
    ASSUME TypeOK, NEW r \in Requests
    PROVE  /\ row[r] \in Rows
           /\ row[r].status \in Statuses
           /\ row[r].stage \in Stages
           /\ row[r].attempts \in Nat
           /\ row[r].token \in Nat
           /\ row[r].live \in BOOLEAN
           /\ row[r].due \in BOOLEAN
           /\ tokens[r] \in Nat
           /\ timeline[r] \in Seq(Attempt)
           /\ audit[r] \in [Events -> Nat]
  BY DEF TypeOK, Rows

LEMMA LastAttempt ==
    ASSUME NEW h \in Seq(Attempt), Len(h) > 0
    PROVE  h[Len(h)] \in Attempt /\ h[Len(h)].number \in Nat
  <1>1. Len(h) \in 1 .. Len(h)
    OBVIOUS
  <1>2. h[Len(h)] \in Attempt
    BY <1>1
  <1> QED BY <1>2 DEF Attempt

-----------------------------------------------------------------------------
(* What no step takes away from another pass *)

\* Tokens are issued upwards, a claim that is not replaced keeps its attempt,
\* a submitted request its stage; a checkpoint that moves moves on; an object
\* once stored is there.
Kept ==
    /\ connector' = connector
    /\ \A r \in Requests :
          /\ tokens[r] <= tokens'[r]
          /\ row[r].status # "absent" =>
                row'[r].status # "absent" /\ row'[r].stage = row[r].stage
          /\ \A t \in Nat :
                0 < t /\ t <= tokens[r] /\ row'[r].token = t =>
                    row[r].token = t /\ row'[r].attempts = row[r].attempts
    /\ \A b \in Bindings :
          \/ checkpoint'[b] = checkpoint[b]
          \/ checkpoint'[b].revision > checkpoint[b].revision
    /\ \A k : Stored(k) => Stored(k)'

LEMMA ClaimStays ==
    ASSUME TypeOK, TypeOK', Kept, NEW c, GoodClaim(c)
    PROVE  GoodClaim(c)'
  <1>1. c.request \in Requests /\ c.token \in Nat
    BY DEF GoodClaim, Claims
  <1>2. tokens[c.request] \in Nat /\ tokens'[c.request] \in Nat
    BY <1>1 DEF TypeOK
  <1> QED BY <1>1, <1>2 DEF GoodClaim, Kept

LEMMA BasedStays ==
    ASSUME TypeOK, TypeOK', Kept, NEW x, x.binding \in Bindings,
           x.revision \in Nat, Based(x)
    PROVE  Based(x)'
  <1>1. /\ checkpoint[x.binding].revision \in Nat
        /\ checkpoint'[x.binding].revision \in Nat
    BY DEF TypeOK
  <1> QED BY <1>1 DEF Based, Kept, Incremental

LEMMA FetchedStays ==
    ASSUME TypeOK, TypeOK', Kept, NEW x, Fetched(x)
    PROVE  Fetched(x)'
  <1>1. x.binding \in Bindings /\ x.revision \in Nat
    BY DEF Fetched, Result
  <1>2. Based(x)'
    BY <1>1, BasedStays DEF Fetched
  <1> QED BY <1>2 DEF Fetched, Kept, Incremental, Named

LEMMA SoundStays ==
    ASSUME TypeOK, TypeOK', Kept, NEW v \in Work, Sound(v)
    PROVE  Sound(v)'
  <1>1. \A c \in v.todo : GoodClaim(c)'
    BY ClaimStays DEF Sound
  <1>2. v.pc \in Busy => GoodClaim(v.job)'
    BY ClaimStays DEF Sound
  <1>3. ASSUME v.pc \in Busy
        PROVE  v.job.request \in Requests /\ row'[v.job.request].stage = row[v.job.request].stage
    BY <1>3 DEF Sound, GoodClaim, Claims, Kept
  <1>4. v.pc \in Extracting => row'[v.job.request].stage = "extract"
    BY <1>3 DEF Sound, Extracting, Busy
  <1>5. v.pc \in Extracting \cup {"commit"} => Gathered(v)'
    BY <1>3 DEF Sound, Extracting, Busy, Gathered
  <1>6. v.pc = "read" => v.hand \in Prepared /\ Based(v.hand)'
    BY BasedStays DEF Sound, Prepared
  <1>7. v.pc = "store" => Fetched(v.hand)'
    BY FetchedStays DEF Sound
  <1>8. \A x \in v.results : Fetched(x)'
    BY FetchedStays DEF Sound
  <1>9. \A x \in v.results : Incremental' => Stored(x.key)'
    BY DEF Sound, Kept, Incremental
  <1> QED BY <1>1, <1>2, <1>4, <1>5, <1>6, <1>7, <1>8, <1>9 DEF Sound

\* One pass moves and the others keep what they rely on.
LEMMA PassMoves ==
    ASSUME IngestionInv, TypeOK', Kept, NEW w \in Workers, NEW v \in Work,
           Goto(w, v), Sound(v)'
    PROVE  WorkInv'
  <1>1. \A u \in Workers : work'[u] = IF u = w THEN v ELSE work[u]
    BY DEF Goto, IngestionInv, TypeOK
  <1> SUFFICES ASSUME NEW u \in Workers PROVE Sound(work[u])'
    BY DEF WorkInv
  <1>2. CASE u = w
    BY <1>1, <1>2 DEF Sound, Gathered
  <1>3. CASE u # w
    <2>1. PICK x \in Work : x = work[u]
      BY WorkFields DEF IngestionInv
    <2>2. Sound(x)
      BY <2>1 DEF IngestionInv, WorkInv
    <2>3. Sound(x)'
      BY <2>1, <2>2, SoundStays DEF IngestionInv
    <2>4. work'[u] = x
      BY <1>1, <1>3, <2>1
    <2> QED BY <2>3, <2>4 DEF Sound, Gathered
  <1> QED BY <1>2, <1>3

LEMMA NoPassMoves ==
    ASSUME IngestionInv, TypeOK', Kept, UNCHANGED work
    PROVE  WorkInv'
  <1> SUFFICES ASSUME NEW u \in Workers PROVE Sound(work[u])'
    BY DEF WorkInv
  <1>1. PICK x \in Work : x = work[u]
    BY WorkFields DEF IngestionInv
  <1>2. Sound(x)
    BY <1>1 DEF IngestionInv, WorkInv
  <1>3. Sound(x)'
    BY <1>1, <1>2, SoundStays DEF IngestionInv
  <1> QED BY <1>1, <1>3 DEF Sound, Gathered

-----------------------------------------------------------------------------
(* What a step leaves alone *)

LEMMA ConsistentFrame ==
    ASSUME NEW q \in Requests, Consistent(q),
           row'[q] = row[q], tokens'[q] = tokens[q],
           timeline'[q] = timeline[q], audit'[q] = audit[q]
    PROVE  Consistent(q)'
  BY DEF Consistent, RowSound, Recorded, Audited, Ends

Extracted(r) == row[r].status = "completed" /\ row[r].stage = "extract"

LEMMA BatchesFrame ==
    ASSUME ExtractionIsAllOrNothing, UNCHANGED batches,
           \A q \in Requests : Extracted(q)' = Extracted(q)
    PROVE  ExtractionIsAllOrNothing'
  BY DEF ExtractionIsAllOrNothing, Extracted, BatchesOf

LEMMA StoreFrame ==
    ASSUME StoreInv, UNCHANGED <<connector, batches, objects>>
    PROVE  StoreInv'
  BY DEF StoreInv, Incremental, Named, Stored

LEMMA InitInv == Init => IngestionInv
  <1> SUFFICES ASSUME Init PROVE IngestionInv
    OBVIOUS
  <1> USE IngestionAssumption DEF Init
  <1>1. /\ Absent \in Rows
        /\ Absent.status = "absent" /\ Absent.token = 0
    BY DEF Absent, Rows, Statuses, Stages
  <1>2. Idle \in Work /\ Idle.pc = "idle" /\ Idle.todo = {} /\ Idle.results = {}
    BY IdleFields
  <1>3. TypeOK
    BY <1>1, <1>2 DEF TypeOK
  <1>4. ASSUME NEW r \in Requests PROVE Consistent(r)
    BY <1>1 DEF Consistent, RowSound, Recorded, Audited, Rising, Ends, Events
  <1>5. ExtractionIsAllOrNothing
    BY <1>1 DEF ExtractionIsAllOrNothing, BatchesOf
  <1>6. IsFiniteSet({})
    BY FS_EmptySet
  <1>7. StoreInv
    BY <1>6 DEF StoreInv
  <1>8. WorkInv
    BY <1>2, <1>6 DEF WorkInv, Sound, Busy, Extracting
  <1> QED BY <1>3, <1>4, <1>5, <1>7, <1>8 DEF IngestionInv, RequestInv

\* An operator or the clock rewrites one row that is not completed.
LEMMA OneRow ==
    ASSUME IngestionInv, NEW r \in Requests, NEW n \in Rows,
           row' = [row EXCEPT ![r] = n],
           UNCHANGED <<tokens, timeline, storeVars, work, connector, crashes>>,
           stalls' \in 0 .. MaxStalls,
           audit' \in [Requests -> [Events -> Nat]],
           \A q \in Requests \ {r} : audit'[q] = audit[q],
           Consistent(r)',
           row[r].status # "completed", n.status # "completed",
           row[r].status # "absent" => n.status # "absent" /\ n.stage = row[r].stage,
           n.token # 0 => n.token = row[r].token /\ n.attempts = row[r].attempts
    PROVE  IngestionInv'
  <1>1. \A q \in Requests : row'[q] = IF q = r THEN n ELSE row[q]
    BY DEF IngestionInv, TypeOK
  <1>2. TypeOK'
    BY DEF IngestionInv, TypeOK, storeVars
  <1>3. RequestInv'
    <2> SUFFICES ASSUME NEW q \in Requests PROVE Consistent(q)'
      BY DEF RequestInv
    <2>1. CASE q # r
      BY <1>1, <2>1, ConsistentFrame DEF IngestionInv, RequestInv
    <2> QED BY <2>1
  <1>4. ExtractionIsAllOrNothing'
    BY <1>1, BatchesFrame DEF IngestionInv, Extracted, storeVars
  <1>5. StoreInv'
    BY StoreFrame DEF IngestionInv, storeVars
  <1>6. Kept
    BY <1>1 DEF Kept, storeVars, Stored, IngestionInv, TypeOK
  <1>7. WorkInv'
    BY <1>2, <1>6, NoPassMoves
  <1> QED BY <1>2, <1>3, <1>4, <1>5, <1>7 DEF IngestionInv

LEMMA RecordEffect ==
    ASSUME TypeOK, NEW r \in Requests, NEW event \in Events, Record(r, event)
    PROVE  /\ audit' \in [Requests -> [Events -> Nat]]
           /\ \A q \in Requests \ {r} : audit'[q] = audit[q]
           /\ \A e \in Events :
                 audit'[r][e] = IF e = event THEN audit[r][e] + 1 ELSE audit[r][e]
  BY DEF Record, TypeOK

LEMMA OperatorStep ==
    ASSUME IngestionInv, NEW r \in Requests, Operator(r)
    PROVE  IngestionInv'
  <1> USE DEF IngestionInv
  <1>0. Consistent(r) /\ row[r] \in Rows /\ audit[r] \in [Events -> Nat]
    BY RowFields DEF RequestInv
  <1>1. ASSUME NEW stage \in Stages, Submit(r, stage)
        PROVE  IngestionInv'
    <2> DEFINE n == [Absent EXCEPT !.status = "pending", !.stage = stage, !.due = TRUE]
    <2>1. n \in Rows /\ n.status = "pending" /\ n.token = 0
      BY DEF Absent, Rows, Statuses, Stages
    <2>2. row' = [row EXCEPT ![r] = n] /\ row[r].status = "absent"
      BY <1>1 DEF Submit
    <2> HIDE DEF n
    <2>3. row'[r] = n
      BY <2>2 DEF TypeOK
    <2>4. /\ audit' \in [Requests -> [Events -> Nat]]
          /\ \A q \in Requests \ {r} : audit'[q] = audit[q]
          /\ \A e \in Events :
                audit'[r][e] = IF e = "requested" THEN audit[r][e] + 1 ELSE audit[r][e]
      BY <1>1, RecordEffect DEF Submit, Events
    <2>5. Audited(r)'
      BY <1>0, <2>1, <2>2, <2>3, <2>4 DEF Consistent, Audited, Events
    <2>6. RowSound(r)' /\ Recorded(r)'
      <3>1. timeline'[r] = timeline[r] /\ tokens'[r] = tokens[r] /\ tokens[r] \in Nat
        BY <1>1, RowFields DEF Submit
      <3>2. Rising(timeline[r]) /\ Len(timeline[r]) = 0
        BY <1>0, <2>2 DEF Consistent, Recorded
      <3>3. RowSound(r)'
        BY <2>1, <2>3, <3>1 DEF RowSound
      <3> QED BY <2>1, <2>3, <3>1, <3>2, <3>3 DEF Recorded, Ends
    <2> QED BY <1>1, <2>1, <2>2, <2>4, <2>5, <2>6, OneRow
            DEF Submit, envVars, Consistent, TypeOK
  <1>2. ASSUME Cancel(r)
        PROVE  IngestionInv'
    <2> DEFINE n == [row[r] EXCEPT !.status = "cancelled"]
    <2>1. /\ n \in Rows /\ n.status = "cancelled" /\ n.token = row[r].token
          /\ n.attempts = row[r].attempts /\ n.stage = row[r].stage
      BY <1>0 DEF Rows, Statuses
    <2>2. row' = [row EXCEPT ![r] = n] /\ row[r].status = "pending"
      BY <1>2 DEF Cancel, MayCancel
    <2> HIDE DEF n
    <2>3. row'[r] = n
      BY <2>2 DEF TypeOK
    <2>4. /\ audit' \in [Requests -> [Events -> Nat]]
          /\ \A q \in Requests \ {r} : audit'[q] = audit[q]
          /\ \A e \in Events :
                audit'[r][e] = IF e = "cancelled" THEN audit[r][e] + 1 ELSE audit[r][e]
      BY <1>2, RecordEffect DEF Cancel, Events
    <2>5. Audited(r)'
      BY <1>0, <2>1, <2>2, <2>3, <2>4 DEF Consistent, Audited, Events
    <2>6. RowSound(r)' /\ Recorded(r)'
      BY <1>0, <1>2, <2>1, <2>2, <2>3 DEF Consistent, RowSound, Recorded, Cancel, Ends, TypeOK
    <2> QED BY <1>2, <2>1, <2>2, <2>4, <2>5, <2>6, OneRow
            DEF Cancel, envVars, Consistent, TypeOK
  <1>3. ASSUME Requeue(r)
        PROVE  IngestionInv'
    <2> DEFINE n == [row[r] EXCEPT !.status = "pending", !.attempts = 0, !.due = TRUE]
    <2>1. /\ n \in Rows /\ n.status = "pending" /\ n.token = row[r].token
          /\ n.stage = row[r].stage
      BY <1>0 DEF Rows, Statuses
    <2>2. row' = [row EXCEPT ![r] = n] /\ row[r].status = "failed" /\ row[r].token = 0
      BY <1>0, <1>3 DEF Requeue, Consistent, RowSound
    <2> HIDE DEF n
    <2>3. row'[r] = n
      BY <2>2 DEF TypeOK
    <2>4. /\ audit' \in [Requests -> [Events -> Nat]]
          /\ \A q \in Requests \ {r} : audit'[q] = audit[q]
          /\ \A e \in Events :
                audit'[r][e] = IF e = "requeued" THEN audit[r][e] + 1 ELSE audit[r][e]
      BY <1>3, RecordEffect DEF Requeue, Events
    <2>5. Audited(r)'
      BY <1>0, <2>1, <2>2, <2>3, <2>4 DEF Consistent, Audited, Events
    <2>6. RowSound(r)' /\ Recorded(r)'
      BY <1>0, <1>3, <2>1, <2>2, <2>3 DEF Consistent, RowSound, Recorded, Requeue, Ends, TypeOK
    <2> QED BY <1>3, <2>1, <2>2, <2>4, <2>5, <2>6, OneRow
            DEF Requeue, envVars, Consistent, TypeOK
  <1> QED BY <1>1, <1>2, <1>3 DEF Operator

LEMMA ClockStep ==
    ASSUME IngestionInv, NEW r \in Requests, Clock(r)
    PROVE  IngestionInv'
  <1> USE DEF IngestionInv
  <1>0. Consistent(r) /\ row[r] \in Rows
    BY RowFields DEF RequestInv
  <1>1. ASSUME NEW n \in Rows, row' = [row EXCEPT ![r] = n],
               n.status = row[r].status, n.stage = row[r].stage,
               n.token = row[r].token, n.attempts = row[r].attempts,
               row[r].status \in {"pending", "dispatching"},
               UNCHANGED <<tokens, timeline, audit, storeVars, work, connector, crashes>>,
               stalls' \in 0 .. MaxStalls
        PROVE  IngestionInv'
    <2>1. row'[r] = n
      BY <1>1 DEF TypeOK
    <2>2. Consistent(r)'
      BY <1>0, <1>1, <2>1 DEF Consistent, RowSound, Recorded, Audited, Ends
    <2> QED BY <1>1, <2>2, OneRow DEF TypeOK
  <1>2. ASSUME LeaseExpires(r)
        PROVE  IngestionInv'
    <2> DEFINE n == [row[r] EXCEPT !.live = FALSE]
    <2>1. /\ n \in Rows /\ n.status = row[r].status /\ n.token = row[r].token
          /\ n.attempts = row[r].attempts /\ n.stage = row[r].stage
      BY <1>0 DEF Rows
    <2>2. stalls' \in 0 .. MaxStalls
      BY <1>2, IngestionAssumption DEF LeaseExpires, TypeOK
    <2>3. row' = [row EXCEPT ![r] = n]
      BY <1>2 DEF LeaseExpires
    <2> HIDE DEF n
    <2> QED BY <1>1, <1>2, <2>1, <2>2, <2>3 DEF LeaseExpires
  <1>3. ASSUME RetryDue(r)
        PROVE  IngestionInv'
    <2> DEFINE n == [row[r] EXCEPT !.due = TRUE]
    <2>1. /\ n \in Rows /\ n.status = row[r].status /\ n.token = row[r].token
          /\ n.attempts = row[r].attempts /\ n.stage = row[r].stage
      BY <1>0 DEF Rows
    <2>2. row' = [row EXCEPT ![r] = n]
      BY <1>3 DEF RetryDue
    <2> HIDE DEF n
    <2> QED BY <1>1, <1>3, <2>1, <2>2 DEF RetryDue, envVars, TypeOK
  <1> QED BY <1>2, <1>3 DEF Clock

-----------------------------------------------------------------------------
(* Steps of a pass that write nothing shared *)

LEMMA NothingShared ==
    ASSUME IngestionInv, UNCHANGED <<requestVars, storeVars, connector>>
    PROVE  Kept /\ RequestInv' /\ ExtractionIsAllOrNothing' /\ StoreInv'
  <1> USE DEF IngestionInv, requestVars, storeVars
  <1>1. \A q \in Requests : Consistent(q)'
    BY ConsistentFrame DEF RequestInv
  <1>2. ExtractionIsAllOrNothing'
    BY BatchesFrame DEF Extracted
  <1>3. StoreInv'
    BY StoreFrame
  <1>4. Kept
    BY DEF Kept, Stored, TypeOK
  <1> QED BY <1>1, <1>2, <1>3, <1>4 DEF RequestInv

LEMMA QuietPass ==
    ASSUME IngestionInv, NEW w \in Workers, NEW v \in Work, Goto(w, v), Sound(v),
           UNCHANGED <<requestVars, storeVars, connector, stalls>>,
           crashes' \in 0 .. MaxCrashes
    PROVE  IngestionInv'
  <1>1. TypeOK'
    BY DEF IngestionInv, TypeOK, Goto, requestVars, storeVars
  <1>2. Kept /\ RequestInv' /\ ExtractionIsAllOrNothing' /\ StoreInv'
    BY NothingShared
  <1>3. Sound(v)'
    BY <1>1, <1>2, SoundStays DEF IngestionInv
  <1>4. WorkInv'
    BY <1>1, <1>2, <1>3, PassMoves
  <1> QED BY <1>1, <1>2, <1>4 DEF IngestionInv

\* A pass between two extractions has to account for its claims alone.
LEMMA PlainSound ==
    ASSUME NEW v, v.results = {},
           v.pc \in {"idle", "next", "failure", "validate"},
           v.pc = "validate" => v.left = {},
           \A c \in v.todo : GoodClaim(c),
           v.pc \in {"failure", "validate"} => GoodClaim(v.job)
    PROVE  Sound(v)
  <1>1. IsFiniteSet({})
    BY FS_EmptySet
  <1> QED BY <1>1 DEF Sound, Busy, Extracting

LEMMA FailFields ==
    ASSUME TypeOK, NEW w \in Workers, NEW permanent \in BOOLEAN,
           Fail(w, permanent)
    PROVE  \E v \in Work :
              /\ Goto(w, v)
              /\ v.pc = "failure"
              /\ v.todo = work[w].todo
              /\ v.job = work[w].job
              /\ v.results = {}
  <1> DEFINE v == [work[w] EXCEPT !.pc = "failure", !.permanent = permanent,
                                  !.left = {}, !.hand = Nothing, !.results = {}]
  <1>1. work[w] \in Work
    BY WorkFields
  <1>2. /\ v \in Work
        /\ v.pc = "failure"
        /\ v.todo = work[w].todo
        /\ v.job = work[w].job
        /\ v.results = {}
    BY <1>1 DEF Work, Steps
  <1>3. Goto(w, v)
    BY DEF Fail
  <1> QED BY <1>2, <1>3

LEMMA FailStep ==
    ASSUME IngestionInv, NEW w \in Workers, NEW permanent \in BOOLEAN,
           Fail(w, permanent), work[w].pc \in Busy,
           UNCHANGED <<requestVars, storeVars, envVars>>
    PROVE  IngestionInv'
  <1>1. PICK v \in Work :
            /\ Goto(w, v)
            /\ v.pc = "failure"
            /\ v.todo = work[w].todo
            /\ v.job = work[w].job
            /\ v.results = {}
    BY FailFields DEF IngestionInv
  <1>2. Sound(work[w])
    BY DEF IngestionInv, WorkInv
  <1>3. Sound(v)
    BY <1>1, <1>2, PlainSound DEF Sound
  <1> QED BY <1>1, <1>3, QuietPass DEF envVars, IngestionInv, TypeOK

LEMMA StartStep ==
    ASSUME IngestionInv, NEW w \in Workers,
           NEW pc \in {"idle", "next", "failure", "validate"},
           NEW todo \in SUBSET Claims, NEW job \in Claims \cup {NoClaim},
           Goto(w, Start(pc, todo, job)),
           \A c \in todo : GoodClaim(c),
           pc \in {"failure", "validate"} => GoodClaim(job),
           UNCHANGED <<requestVars, storeVars, connector, stalls>>,
           crashes' \in 0 .. MaxCrashes
    PROVE  IngestionInv'
  <1> DEFINE v == Start(pc, todo, job)
  <1>1. /\ v \in Work /\ v.pc = pc /\ v.todo = todo /\ v.job = job
        /\ v.left = {} /\ v.results = {}
    <2>1. pc \in Steps
      BY DEF Steps
    <2> QED BY <2>1 DEF Start, Work
  <1> HIDE DEF v
  <1>2. Sound(v)
    BY <1>1, PlainSound
  <1>3. Goto(w, v)
    BY DEF v
  <1> QED BY <1>1, <1>2, <1>3, QuietPass

LEMMA TakeStep ==
    ASSUME IngestionInv, NEW w \in Workers, Take(w)
    PROVE  IngestionInv'
  <1>1. Sound(work[w]) /\ work[w].todo \in SUBSET Claims
    BY WorkFields DEF IngestionInv, WorkInv
  <1>2. /\ UNCHANGED <<requestVars, storeVars, connector, stalls>>
        /\ crashes' \in 0 .. MaxCrashes
    BY DEF Take, envVars, IngestionInv, TypeOK
  <1>3. CASE Goto(w, Idle)
    <2>1. Goto(w, Start("idle", {}, NoClaim))
      BY <1>3 DEF Idle
    <2> QED BY <1>2, <2>1, StartStep
  <1>4. ASSUME NEW c \in work[w].todo,
               Goto(w, Start(IF c.attempt > MaxAttempts THEN "failure"
                                                        ELSE "validate",
                             work[w].todo \ {c}, c))
        PROVE  IngestionInv'
    <2>1. PICK pc \in {"failure", "validate"} :
              pc = IF c.attempt > MaxAttempts THEN "failure" ELSE "validate"
      OBVIOUS
    <2>2. Goto(w, Start(pc, work[w].todo \ {c}, c))
      BY <1>4, <2>1
    <2>3. GoodClaim(c) /\ \A d \in work[w].todo \ {c} : GoodClaim(d)
      BY <1>1 DEF Sound
    <2> QED BY <1>1, <1>2, <2>2, <2>3, StartStep
  <1> QED BY <1>3, <1>4 DEF Take

LEMMA PassEndsStep ==
    ASSUME IngestionInv, NEW w \in Workers, PassEnds(w)
    PROVE  IngestionInv'
  <1>1. /\ UNCHANGED <<requestVars, storeVars, connector, stalls>>
        /\ crashes' \in 0 .. MaxCrashes
    BY IngestionAssumption DEF PassEnds, IngestionInv, TypeOK
  <1>2. Goto(w, Start("idle", {}, NoClaim))
    BY DEF PassEnds, Idle
  <1> QED BY <1>1, <1>2, StartStep

LEMMA ValidateStep ==
    ASSUME IngestionInv, NEW w \in Workers, Validate(w)
    PROVE  IngestionInv'
  <1> DEFINE r == work[w].job.request
  <1>1. /\ Sound(work[w]) /\ work[w] \in Work /\ work[w].pc = "validate"
        /\ GoodClaim(work[w].job) /\ r \in Requests
        /\ work[w].results = {} /\ work[w].left = {}
    BY WorkFields DEF IngestionInv, WorkInv, Validate, Sound, Busy, GoodClaim, Claims
  <1>2. UNCHANGED <<requestVars, storeVars, envVars>>
    BY DEF Validate
  <1>3. ASSUME NEW permanent \in BOOLEAN, Fail(w, permanent)
        PROVE  IngestionInv'
    BY <1>1, <1>2, <1>3, FailStep DEF Busy
  <1>4. ASSUME row[r].stage = "extract",
               Goto(w, [work[w] EXCEPT !.pc = "extract", !.left = Selections[r]])
        PROVE  IngestionInv'
    <2> DEFINE v == [work[w] EXCEPT !.pc = "extract", !.left = Selections[r]]
    <2>1. Selections[r] \in SUBSET Bindings
      BY <1>1, IngestionAssumption
    <2>2. /\ v \in Work /\ v.pc = "extract" /\ v.todo = work[w].todo
          /\ v.job = work[w].job /\ v.left = Selections[r] /\ v.results = {}
      BY <1>1, <2>1 DEF Work, Steps
    <2> HIDE DEF v
    <2>3. Sound(v)
      BY <1>1, <1>4, <2>2, FS_EmptySet DEF Sound, Gathered, Extracting, Busy
    <2>4. Goto(w, v)
      BY <1>4 DEF v
    <2> QED BY <1>2, <2>2, <2>3, <2>4, QuietPass DEF envVars, IngestionInv, TypeOK
  <1>5. ASSUME row[r].stage = "validate",
               Goto(w, [work[w] EXCEPT !.pc = "commit"])
        PROVE  IngestionInv'
    <2> DEFINE v == [work[w] EXCEPT !.pc = "commit"]
    <2>1. /\ v \in Work /\ v.pc = "commit" /\ v.todo = work[w].todo
          /\ v.job = work[w].job /\ v.left = {} /\ v.results = {}
      BY <1>1 DEF Work, Steps
    <2> HIDE DEF v
    <2>2. Sound(v)
      BY <1>1, <1>5, <2>1, FS_EmptySet DEF Sound, Gathered, Extracting, Busy
    <2>3. Goto(w, v)
      BY <1>5 DEF v
    <2> QED BY <1>2, <2>1, <2>2, <2>3, QuietPass DEF envVars, IngestionInv, TypeOK
  <1> QED BY <1>3, <1>4, <1>5 DEF Validate, Job

-----------------------------------------------------------------------------
(* Extraction *)

LEMMA GenerationType ==
    ASSUME StoreInv, NEW r, NEW b
    PROVE  Generation(r, b) \in Nat
  <1>1. {x \in batches : x.request = r /\ x.binding = b} \in SUBSET batches
    OBVIOUS
  <1>2. IsFiniteSet({x \in batches : x.request = r /\ x.binding = b})
    BY <1>1, FS_Subset DEF StoreInv
  <1> QED BY <1>2, FS_CardinalityType DEF Generation

LEMMA PrepareStep ==
    ASSUME IngestionInv, NEW w \in Workers, Prepare(w)
    PROVE  IngestionInv'
  <1>1. Sound(work[w]) /\ work[w] \in Work /\ work[w].pc = "extract"
    BY WorkFields DEF IngestionInv, WorkInv, Prepare
  <1>2. UNCHANGED <<requestVars, storeVars, envVars>>
    BY DEF Prepare
  <1>3. ASSUME NEW permanent \in BOOLEAN, Fail(w, permanent)
        PROVE  IngestionInv'
    BY <1>1, <1>2, <1>3, FailStep DEF Busy
  <1>4. ASSUME NEW b \in work[w].left,
               Goto(w, [work[w] EXCEPT
                 !.pc = "read",
                 !.hand = [binding |-> b, revision |-> checkpoint[b].revision,
                           from |-> checkpoint[b].cursor,
                           generation |-> Generation(Job(w).request, b)]])
        PROVE  IngestionInv'
    <2>1. PICK h : h = [binding |-> b, revision |-> checkpoint[b].revision,
                        from |-> checkpoint[b].cursor,
                        generation |-> Generation(Job(w).request, b)]
      OBVIOUS
    <2>2. b \in Bindings
      BY <1>1, <1>4 DEF Work
    <2>3. /\ checkpoint[b].revision \in Nat
          /\ checkpoint[b].cursor \in Nat
          /\ Generation(Job(w).request, b) \in Nat
      BY <2>2, GenerationType DEF IngestionInv, TypeOK
    <2>4. h \in Prepared /\ h.binding = b /\ Based(h)
      BY <2>1, <2>2, <2>3 DEF Prepared, Based
    <2>5. PICK v : v = [work[w] EXCEPT !.pc = "read", !.hand = h]
      OBVIOUS
    <2>6. /\ v \in Work /\ v.pc = "read" /\ v.todo = work[w].todo
          /\ v.job = work[w].job /\ v.left = work[w].left
          /\ v.hand = h /\ v.results = work[w].results
      BY <1>1, <2>4, <2>5 DEF Work, Steps
    <2>7. Sound(v)
      <3>1. Gathered(v)
        BY <1>1, <2>6 DEF Sound, Gathered, Extracting
      <3> QED BY <1>1, <1>4, <2>4, <2>6, <3>1 DEF Sound, Extracting, Busy
    <2>8. Goto(w, v)
      BY <1>4, <2>1, <2>5
    <2> QED BY <1>2, <2>6, <2>7, <2>8, QuietPass DEF envVars, IngestionInv, TypeOK
  <1> QED BY <1>3, <1>4 DEF Prepare

LEMMA ResultFields ==
    ASSUME NEW b \in Bindings, NEW n \in Nat, NEW from \in Nat, NEW to \in Nat,
           NEW k \in Key, NEW e \in Envelope, NEW x,
           x = [binding |-> b, revision |-> n, from |-> from, to |-> to,
                key |-> k, envelope |-> e]
    PROVE  /\ x \in Result /\ x.binding = b /\ x.revision = n /\ x.from = from
           /\ x.to = to /\ x.key = k /\ x.envelope = e
  BY DEF Result

\* What the connector answers to a read.
Answer(r, h, rows, to) ==
    CASE connector = "postgres" -> PostgresRead(r, h, rows)
      [] connector = "s3" -> S3Read(r, h, rows, to)
      [] connector = "rest" -> RestRead(r, h, rows, to)

\* It is a result of the binding that was prepared.
LEMMA ReadBringsResult ==
    ASSUME TypeOK, NEW r \in Requests, NEW h \in Prepared, Based(h),
           NEW rows \in Contents, NEW to \in Cursors, NEW x,
           x = Answer(r, h, rows, to)
    PROVE  Fetched(x) /\ x.binding = h.binding
  <1>1. /\ h.binding \in Bindings /\ h.revision \in Nat /\ h.from \in Nat
        /\ h.generation \in Nat
    BY DEF Prepared
  <1>2. to \in Nat
    BY IngestionAssumption
  <1>3. connector \in {"postgres", "s3", "rest"}
    BY IngestionAssumption DEF TypeOK
  <1>4. CASE connector = "postgres"
    <2>1. x = PostgresRead(r, h, rows)
      BY <1>4 DEF Answer
    <2>2. PostgresKey(r, h) \in Key /\ PostgresEnvelope(rows) \in Envelope
      BY <1>1 DEF PostgresKey, PostgresEnvelope, Key, Envelope
    <2>3. /\ x \in Result /\ x.binding = h.binding /\ x.from = 0 /\ x.to = 0
      BY <1>1, <2>1, <2>2, ResultFields DEF PostgresRead
    <2> QED BY <1>4, <2>3 DEF Fetched, Based, Incremental
  <1>5. ASSUME NEW e \in Envelope, connector # "postgres",
               x = [binding |-> h.binding, revision |-> h.revision, from |-> h.from,
                    to |-> to, key |-> DigestKey(r, h, e), envelope |-> e]
        PROVE  Fetched(x) /\ x.binding = h.binding
    <2>1. /\ DigestKey(r, h, e) \in Key
          /\ Named(DigestKey(r, h, e), e)
      BY <1>1 DEF DigestKey, Key, Named
    <2>2. /\ x \in Result /\ x.binding = h.binding /\ x.from = h.from /\ x.to = to
          /\ x.revision = h.revision /\ x.key = DigestKey(r, h, e) /\ x.envelope = e
      BY <1>1, <1>2, <1>5, <2>1, ResultFields
    <2>3. Based(x)
      BY <2>2 DEF Based
    <2> QED BY <1>5, <2>1, <2>2, <2>3 DEF Fetched, Incremental
  <1>6. CASE connector = "s3"
    <2>1. S3Envelope(rows, to) \in Envelope
      BY <1>2 DEF S3Envelope, Envelope
    <2> QED BY <1>5, <1>6, <2>1 DEF S3Read, Answer
  <1>7. CASE connector = "rest"
    <2>1. RestEnvelope(h, rows) \in Envelope
      BY <1>1 DEF RestEnvelope, Envelope
    <2> QED BY <1>5, <1>7, <2>1 DEF RestRead, Answer
  <1> QED BY <1>3, <1>4, <1>6, <1>7

LEMMA ReadSourceStep ==
    ASSUME IngestionInv, NEW w \in Workers, ReadSource(w)
    PROVE  IngestionInv'
  <1>1. /\ Sound(work[w]) /\ work[w] \in Work /\ work[w].pc = "read"
        /\ work[w].hand \in Prepared /\ Based(work[w].hand)
        /\ work[w].hand.binding \in work[w].left
        /\ work[w].job.request \in Requests
    BY WorkFields DEF IngestionInv, WorkInv, ReadSource, Sound, Busy, GoodClaim, Claims
  <1>2. UNCHANGED <<requestVars, storeVars, envVars>>
    BY DEF ReadSource
  <1>3. ASSUME NEW permanent \in BOOLEAN, Fail(w, permanent)
        PROVE  IngestionInv'
    BY <1>1, <1>2, <1>3, FailStep DEF Busy
  <1>4. ASSUME NEW rows \in Contents, NEW to \in Cursors, NEW x,
               x = Answer(work[w].job.request, work[w].hand, rows, to),
               Goto(w, [work[w] EXCEPT !.pc = "store", !.hand = x])
        PROVE  IngestionInv'
    <2>2. Fetched(x) /\ x.binding = work[w].hand.binding
      BY <1>1, <1>4, ReadBringsResult DEF IngestionInv
    <2>3. PICK v : v = [work[w] EXCEPT !.pc = "store", !.hand = x]
      OBVIOUS
    <2>4. /\ v \in Work /\ v.pc = "store" /\ v.todo = work[w].todo
          /\ v.job = work[w].job /\ v.left = work[w].left
          /\ v.hand = x /\ v.results = work[w].results
      BY <1>1, <2>2, <2>3 DEF Work, Steps, Fetched
    <2>5. Sound(v)
      <3>1. Gathered(v)
        BY <1>1, <2>4 DEF Sound, Gathered, Extracting
      <3> QED BY <1>1, <2>2, <2>4, <3>1 DEF Sound, Extracting, Busy
    <2>6. Goto(w, v)
      BY <1>4, <2>3
    <2> QED BY <1>2, <2>4, <2>5, <2>6, QuietPass DEF envVars, IngestionInv, TypeOK
  <1> QED BY <1>3, <1>4 DEF ReadSource, Job, Answer

\* The bindings of a request stay divided when one of those left is extracted.
LEMMA OneGathered ==
    ASSUME NEW v, NEW u, Gathered(v), row[v.job.request].stage = "extract",
           NEW h, h.binding \in v.left, u.job = v.job,
           u.left = v.left \ {h.binding}, u.results = v.results \cup {h}
    PROVE  Gathered(u)
  <1> DEFINE r == v.job.request
             bs == {x.binding : x \in v.results}
  <1>1. /\ v.left \cup bs = Selections[r]
        /\ \A x \in v.results : x.binding \notin v.left
        /\ \A x, y \in v.results : x.binding = y.binding => x = y
    BY DEF Gathered
  <1>2. {x.binding : x \in u.results} = bs \cup {h.binding}
    OBVIOUS
  <1> HIDE DEF bs
  <1>3. u.left \cup {x.binding : x \in u.results} = Selections[r]
    BY <1>1, <1>2
  <1>4. \A x \in u.results : x.binding \notin u.left
    BY <1>1
  <1>5. \A x, y \in u.results : x.binding = y.binding => x = y
    BY <1>1
  <1> QED BY <1>3, <1>4, <1>5 DEF Gathered

LEMMA StoreObjectStep ==
    ASSUME IngestionInv, NEW w \in Workers, StoreObject(w)
    PROVE  IngestionInv'
  <1>1. /\ Sound(work[w]) /\ work[w] \in Work /\ work[w].pc = "store"
        /\ Fetched(work[w].hand)
        /\ work[w].hand.binding \in work[w].left
        /\ row[work[w].job.request].stage = "extract"
        /\ Gathered(work[w])
    BY WorkFields DEF IngestionInv, WorkInv, StoreObject, Sound, Extracting
  <1>2. UNCHANGED <<requestVars, checkpoint, batches, envVars>>
    BY DEF StoreObject
  <1>3. CASE UNCHANGED objects /\ Fail(w, FALSE)
    BY <1>1, <1>2, <1>3, FailStep DEF Busy, storeVars
  <1>4. ASSUME objects' = Put(work[w].hand.key, work[w].hand.envelope),
               Goto(w, [work[w] EXCEPT
                   !.pc = IF work[w].left \ {work[w].hand.binding} = {}
                          THEN "commit" ELSE "extract",
                   !.left = work[w].left \ {work[w].hand.binding},
                   !.hand = Nothing,
                   !.results = @ \cup {work[w].hand}])
        PROVE  IngestionInv'
    <2>1. PICK h : h = work[w].hand
      OBVIOUS
    <2>2. PICK pc \in {"commit", "extract"} :
              pc = IF work[w].left \ {h.binding} = {} THEN "commit" ELSE "extract"
      OBVIOUS
    <2>3. PICK v : v = [work[w] EXCEPT !.pc = pc, !.left = work[w].left \ {h.binding},
                            !.hand = Nothing, !.results = work[w].results \cup {h}]
      OBVIOUS
    <2>4. /\ Fetched(h) /\ h \in Result /\ h.key \in Key /\ h.envelope \in Envelope
          /\ h.binding \in work[w].left
      BY <1>1, <2>1 DEF Fetched, Result
    <2>5. /\ v \in Work /\ v.pc = pc /\ v.todo = work[w].todo /\ v.job = work[w].job
          /\ v.left = work[w].left \ {h.binding} /\ v.results = work[w].results \cup {h}
      BY <1>1, <2>2, <2>3, <2>4 DEF Work, Steps
    <2>6. Goto(w, v)
      BY <1>4, <2>1, <2>2, <2>3
    <2>7. \A o : o \in objects' <=>
              \/ o \in objects /\ o.key # h.key
              \/ o = [key |-> h.key, envelope |-> h.envelope]
      BY <1>4, <2>1 DEF Put
    <2>8. TypeOK'
      <3>1. objects' \subseteq Object
        BY <2>4, <2>7 DEF Object, IngestionInv, TypeOK
      <3> QED BY <1>2, <2>5, <2>6, <3>1
              DEF IngestionInv, TypeOK, Goto, requestVars, envVars
    <2>9. Stored(h.key)'
      <3>1. PICK o : o = [key |-> h.key, envelope |-> h.envelope]
        OBVIOUS
      <3>2. o \in objects' /\ o.key = h.key
        BY <2>7, <3>1
      <3> QED BY <3>2 DEF Stored
    <2>10. \A k : Stored(k) => Stored(k)'
      BY <2>7, <2>9 DEF Stored
    <2>11. Kept
      BY <1>2, <2>10 DEF Kept, requestVars, envVars, IngestionInv, TypeOK
    <2>12. RequestInv'
      BY <1>2, ConsistentFrame DEF RequestInv, IngestionInv, requestVars
    <2>13. ExtractionIsAllOrNothing'
      BY <1>2, BatchesFrame DEF IngestionInv, Extracted, requestVars
    <2>14. StoreInv'
      <3>1. Incremental' = Incremental
        BY <1>2 DEF Incremental, envVars
      <3>2. Incremental => \A o \in objects' : Named(o.key, o.envelope)
        BY <2>4, <2>7 DEF IngestionInv, StoreInv, Fetched
      <3>3. Incremental => \A x \in batches : Named(x.key, x.envelope) /\ Stored(x.key)'
        BY <2>10 DEF IngestionInv, StoreInv
      <3> QED BY <1>2, <3>1, <3>2, <3>3 DEF IngestionInv, StoreInv, Named
    <2>15. Sound(v)'
      <3>1. \A c \in v.todo : GoodClaim(c)'
        BY <1>1, <2>5, <2>8, <2>11, ClaimStays DEF Sound, IngestionInv
      <3>2. GoodClaim(v.job)'
        BY <1>1, <2>5, <2>8, <2>11, ClaimStays DEF Sound, IngestionInv, Busy
      <3>3. IsFiniteSet(v.results)
        BY <1>1, <2>5, FS_AddElement DEF Sound
      <3>4. \A x \in v.results : Fetched(x)
        BY <1>1, <2>4, <2>5 DEF Sound
      <3>5. \A x \in v.results : Fetched(x)'
        BY <2>8, <2>11, <3>4, FetchedStays DEF IngestionInv
      <3>6. \A x \in v.results : Incremental' => Stored(x.key)'
        BY <1>1, <1>2, <2>5, <2>9, <2>10 DEF Sound, Incremental, envVars
      <3>7. Gathered(v)
        BY <1>1, <2>4, <2>5, OneGathered
      <3>8. row'[v.job.request].stage = "extract" /\ Gathered(v)'
        BY <1>1, <1>2, <2>5, <3>7 DEF Gathered, requestVars
      <3>9. v.pc = "commit" => v.left = {}
        BY <2>2, <2>5
      <3> QED BY <2>5, <3>1, <3>2, <3>3, <3>5, <3>6, <3>8, <3>9 DEF Sound
    <2>16. WorkInv'
      BY <2>5, <2>6, <2>8, <2>11, <2>15, PassMoves
    <2> QED BY <2>8, <2>12, <2>13, <2>14, <2>16 DEF IngestionInv
  <1> QED BY <1>3, <1>4 DEF StoreObject

-----------------------------------------------------------------------------
(* Claiming *)

LEMMA ClaimedRow ==
    ASSUME TypeOK, NEW r \in Requests, NEW n,
           n = [row[r] EXCEPT !.status = "dispatching", !.attempts = @ + 1,
                    !.token = NewToken(r), !.live = TRUE, !.due = FALSE]
    PROVE  /\ n \in Rows
           /\ n.status = "dispatching"
           /\ n.stage = row[r].stage
           /\ n.attempts = row[r].attempts + 1
           /\ n.token = tokens[r] + 1
  <1>1. row[r] \in Rows /\ row[r].attempts \in Nat /\ tokens[r] \in Nat
    BY RowFields
  <1>2. PICK a, t \in Nat : a = row[r].attempts + 1 /\ t = tokens[r] + 1
    BY <1>1
  <1>3. n = [row[r] EXCEPT !.status = "dispatching", !.attempts = a,
                 !.token = t, !.live = TRUE, !.due = FALSE]
    BY <1>2 DEF NewToken
  <1>4. /\ n \in Rows
        /\ n.status = "dispatching"
        /\ n.stage = row[r].stage
        /\ n.attempts = a
        /\ n.token = t
    BY <1>1, <1>3 DEF Rows, Statuses
  <1> QED BY <1>2, <1>4

LEMMA ClaimStep ==
    ASSUME IngestionInv, NEW w \in Workers, Claim(w)
    PROVE  IngestionInv'
  <1> USE DEF IngestionInv
  <1>1. PICK S \in SUBSET {r \in Requests : Claimable(r)} :
            /\ row' = [r \in Requests |-> IF r \in S
                         THEN [row[r] EXCEPT !.status = "dispatching",
                                  !.attempts = @ + 1, !.token = NewToken(r),
                                  !.live = TRUE, !.due = FALSE]
                         ELSE row[r]]
            /\ tokens' = [r \in Requests |-> IF r \in S THEN tokens[r] + 1
                                                        ELSE tokens[r]]
            /\ Goto(w, Start("next",
                    {[request |-> r, token |-> NewToken(r),
                      attempt |-> row[r].attempts + 1] : r \in S}, NoClaim))
    BY DEF Claim
  <1>2. UNCHANGED <<timeline, audit, storeVars, envVars>>
    BY DEF Claim
  <1>3. ASSUME NEW q \in Requests
        PROVE  /\ q \in S => /\ row'[q] \in Rows
                             /\ row'[q].status = "dispatching"
                             /\ row'[q].stage = row[q].stage
                             /\ row'[q].attempts = row[q].attempts + 1
                             /\ row'[q].token = tokens[q] + 1
                             /\ tokens'[q] = tokens[q] + 1
                             /\ row[q].status \in {"pending", "dispatching"}
               /\ q \notin S => row'[q] = row[q] /\ tokens'[q] = tokens[q]
    <2>1. CASE q \in S
      <3>1. PICK n : n = [row[q] EXCEPT !.status = "dispatching", !.attempts = @ + 1,
                              !.token = NewToken(q), !.live = TRUE, !.due = FALSE]
        OBVIOUS
      <3>2. row'[q] = n /\ tokens'[q] = tokens[q] + 1
        BY <1>1, <2>1, <3>1
      <3>3. row[q].status \in {"pending", "dispatching"}
        BY <2>1 DEF Claimable
      <3>4. /\ n \in Rows
            /\ n.status = "dispatching"
            /\ n.stage = row[q].stage
            /\ n.attempts = row[q].attempts + 1
            /\ n.token = tokens[q] + 1
        BY <3>1, ClaimedRow
      <3> HIDE <3>1
      <3> QED BY <2>1, <3>2, <3>3, <3>4
    <2>2. CASE q \notin S
      BY <1>1, <2>2
    <2> QED BY <2>1, <2>2
  <1>4. PICK todo : todo = {[request |-> r, token |-> NewToken(r),
                             attempt |-> row[r].attempts + 1] : r \in S}
    OBVIOUS
  <1>5. \A r \in S : row[r].attempts + 1 \in Nat /\ NewToken(r) \in Nat
    BY RowFields DEF NewToken
  <1>6. \A c \in todo : \E r \in S :
            c \in Claims /\ c.request = r /\ c.token = tokens[r] + 1
                         /\ c.attempt = row[r].attempts + 1
    BY <1>4, <1>5 DEF Claims, NewToken
  <1>7. PICK v : v = Start("next", todo, NoClaim)
    OBVIOUS
  <1>8. /\ v \in Work /\ v.pc = "next" /\ v.todo = todo /\ v.results = {}
        /\ Goto(w, v)
    <2>1. "next" \in Steps /\ todo \in SUBSET Claims /\ NoClaim \in Claims \cup {NoClaim}
      BY <1>6 DEF Steps
    <2>2. Goto(w, v)
      BY <1>1, <1>4, <1>7
    <2> QED BY <1>7, <2>1, <2>2 DEF Start, Work
  <1>9. TypeOK'
    <2>1. row' \in [Requests -> Rows]
      <3>1. \A q \in Requests : row'[q] \in Rows
        BY <1>3, RowFields
      <3> QED BY <1>1, <3>1
    <2>2. tokens' \in [Requests -> Nat]
      <3>1. \A q \in Requests : tokens'[q] \in Nat
        BY <1>3, RowFields
      <3> QED BY <1>1, <3>1
    <2> QED BY <1>2, <1>8, <2>1, <2>2 DEF TypeOK, Goto, storeVars, envVars
  <1>10. RequestInv'
    <2> SUFFICES ASSUME NEW q \in Requests PROVE Consistent(q)'
      BY DEF RequestInv
    <2>1. Consistent(q) /\ tokens[q] \in Nat /\ row[q].attempts \in Nat
      BY RowFields DEF RequestInv
    <2>2. CASE q \notin S
      BY <1>2, <1>3, <2>1, <2>2, ConsistentFrame
    <2>3. CASE q \in S
      <3>1. RowSound(q)'
        BY <1>3, <2>1, <2>3 DEF RowSound
      <3>2. Audited(q)'
        BY <1>2, <1>3, <2>1, <2>3 DEF Consistent, Audited
      <3>3. Ends(timeline[q], "retried") =>
                timeline[q][Len(timeline[q])].number \in Nat
        BY RowFields, LastAttempt DEF Ends
      <3>4. Recorded(q)'
        BY <1>2, <1>3, <2>1, <2>3, <3>3 DEF Consistent, Recorded, Ends
      <3> QED BY <3>1, <3>2, <3>4 DEF Consistent
    <2> QED BY <2>2, <2>3
  <1>11. ExtractionIsAllOrNothing'
    BY <1>2, <1>3, BatchesFrame DEF Extracted, storeVars
  <1>12. StoreInv'
    BY <1>2, StoreFrame DEF storeVars, envVars
  <1>13. Kept
    <2>1. \A r \in Requests : tokens[r] \in Nat
      BY RowFields
    <2> QED BY <1>2, <1>3, <2>1 DEF Kept, Stored, storeVars, envVars
  <1>14. Sound(v)'
    <2>1. ASSUME NEW c \in todo PROVE GoodClaim(c)'
      <3>1. PICK r \in S : c \in Claims /\ c.request = r /\ c.token = tokens[r] + 1
                                        /\ c.attempt = row[r].attempts + 1
        BY <1>6
      <3>2. tokens[r] \in Nat
        BY RowFields
      <3> QED BY <1>3, <3>1, <3>2 DEF GoodClaim
    <2>2. IsFiniteSet({})
      BY FS_EmptySet
    <2> QED BY <1>8, <2>1, <2>2 DEF Sound, Busy, Extracting
  <1>15. WorkInv'
    BY <1>8, <1>9, <1>13, <1>14, PassMoves
  <1> QED BY <1>9, <1>10, <1>11, <1>12, <1>15

-----------------------------------------------------------------------------
(* Finishing a request *)

LEMMA CommitNothingStep ==
    ASSUME IngestionInv, NEW w \in Workers, CommitNothing(w)
    PROVE  IngestionInv'
  <1>1. /\ Sound(work[w]) /\ work[w].todo \in SUBSET Claims
        /\ work[w].pc = "commit"
        /\ UNCHANGED <<requestVars, storeVars, envVars>>
    BY WorkFields DEF IngestionInv, WorkInv, CommitNothing
  <1>2. ASSUME NEW permanent \in BOOLEAN, Fail(w, permanent)
        PROVE  IngestionInv'
    BY <1>1, <1>2, FailStep DEF Busy
  <1>3. ASSUME Continue(w)
        PROVE  IngestionInv'
    BY <1>1, <1>3, StartStep DEF Continue, Sound, envVars, IngestionInv, TypeOK
  <1> QED BY <1>2, <1>3 DEF CommitNothing

\* One more attempt on record.
LEMMA OneMoreAttempt ==
    ASSUME NEW h \in Seq(Attempt), NEW e \in Attempt, NEW g, g = Append(h, e),
           Rising(h), ~Ends(h, "completed"),
           Ends(h, "retried") => h[Len(h)].number < e.number,
           e.outcome = "retried" => e.number < MaxAttempts
    PROVE  g \in Seq(Attempt) /\ Len(g) > 0 /\ g[Len(g)] = e /\ Rising(g)
  <1>1. /\ g \in Seq(Attempt)
        /\ Len(g) = Len(h) + 1 /\ Len(h) \in Nat
        /\ g[Len(h) + 1] = e
        /\ \A i \in 1 .. Len(h) : g[i] = h[i]
    OBVIOUS
  <1>2. ASSUME NEW i \in 1 .. Len(g) - 1
        PROVE  /\ g[i].outcome = "retried" => g[i].number < g[i + 1].number
               /\ g[i].outcome # "completed"
    <2>1. i \in 1 .. Len(h) /\ g[i] = h[i]
      BY <1>1
    <2>2. CASE i = Len(h)
      BY <1>1, <2>1, <2>2 DEF Ends
    <2>3. CASE i # Len(h)
      <3>1. i \in 1 .. Len(h) - 1 /\ i + 1 \in 1 .. Len(h)
        BY <1>1, <2>1, <2>3
      <3>2. g[i + 1] = h[i + 1]
        BY <1>1, <3>1
      <3> QED BY <2>1, <3>1, <3>2 DEF Rising
    <2> QED BY <2>2, <2>3
  <1>3. ASSUME NEW i \in 1 .. Len(g), g[i].outcome = "retried"
        PROVE  g[i].number < MaxAttempts
    <2>1. CASE i = Len(g)
      BY <1>1, <1>3, <2>1
    <2>2. CASE i # Len(g)
      <3>1. i \in 1 .. Len(h)
        BY <1>1, <2>2
      <3> QED BY <1>1, <1>3, <3>1 DEF Rising
    <2> QED BY <2>1, <2>2
  <1>4. Rising(g)
    BY <1>2, <1>3 DEF Rising
  <1> QED BY <1>1, <1>4

\* The holder of the claim writes the row, the attempt and the audit event.
Settles(r, n, outcome) ==
    /\ row' = [row EXCEPT ![r] = n]
    /\ n \in Rows
    /\ n.token = 0
    /\ n.stage = row[r].stage
    /\ n.attempts = row[r].attempts
    /\ Told(r, row[r].attempts, outcome)
    /\ row[r].status = "dispatching"
    /\ UNCHANGED tokens
    /\ \/ /\ outcome = "completed"
          /\ n.status = "completed"
          /\ Record(r, "completed")
       \/ /\ outcome = "dead_lettered"
          /\ n.status = "failed"
          /\ Record(r, "failed")
       \/ /\ outcome = "retried"
          /\ n.status = "pending"
          /\ row[r].attempts < MaxAttempts
          /\ UNCHANGED audit

LEMMA SettledRequest ==
    ASSUME IngestionInv, NEW r \in Requests, NEW n, NEW outcome \in Outcomes,
           Settles(r, n, outcome)
    PROVE  /\ row' \in [Requests -> Rows]
           /\ tokens' \in [Requests -> Nat]
           /\ timeline' \in [Requests -> Seq(Attempt)]
           /\ audit' \in [Requests -> [Events -> Nat]]
           /\ \A q \in Requests : row'[q] = IF q = r THEN n ELSE row[q]
           /\ RequestInv'
  <1> USE DEF IngestionInv
  <1>1. /\ Consistent(r) /\ row[r].attempts \in Nat /\ timeline[r] \in Seq(Attempt)
        /\ audit[r] \in [Events -> Nat] /\ tokens[r] \in Nat
    BY RowFields DEF RequestInv
  <1>2. /\ row' \in [Requests -> Rows]
        /\ \A q \in Requests : row'[q] = IF q = r THEN n ELSE row[q]
    BY DEF Settles, TypeOK
  <1>3. PICK g : g = Append(timeline[r], [number |-> row[r].attempts, outcome |-> outcome])
    OBVIOUS
  <1>4. /\ g \in Seq(Attempt) /\ Len(g) > 0 /\ Rising(g)
        /\ g[Len(g)].outcome = outcome
        /\ g[Len(g)].number = row[r].attempts
    <2>1. /\ Rising(timeline[r]) /\ ~Ends(timeline[r], "completed")
          /\ Ends(timeline[r], "retried") =>
                timeline[r][Len(timeline[r])].number < row[r].attempts
      BY <1>1 DEF Consistent, Recorded, Settles
    <2>2. outcome = "retried" => row[r].attempts < MaxAttempts
      BY DEF Settles
    <2>3. PICK h \in Seq(Attempt), a \in Nat : h = timeline[r] /\ a = row[r].attempts
      BY <1>1
    <2>4. /\ Rising(h) /\ ~Ends(h, "completed")
          /\ Ends(h, "retried") => h[Len(h)].number < a
          /\ outcome = "retried" => a < MaxAttempts
      BY <2>1, <2>2, <2>3
    <2>5. PICK e : e = [number |-> a, outcome |-> outcome]
      OBVIOUS
    <2>6. e \in Attempt /\ e.number = a /\ e.outcome = outcome
      BY <2>5 DEF Attempt
    <2>7. g = Append(h, e)
      BY <1>3, <2>3, <2>5
    <2>8. g \in Seq(Attempt) /\ Len(g) > 0 /\ g[Len(g)] = e /\ Rising(g)
      BY <2>4, <2>6, <2>7, OneMoreAttempt
    <2> QED BY <2>3, <2>6, <2>8
  <1>5. /\ timeline' \in [Requests -> Seq(Attempt)]
        /\ \A q \in Requests : timeline'[q] = IF q = r THEN g ELSE timeline[q]
    <2>1. timeline' = [timeline EXCEPT ![r] = g]
      BY <1>3 DEF Settles, Told
    <2> QED BY <1>4, <2>1 DEF TypeOK
  <1>6. /\ audit' \in [Requests -> [Events -> Nat]]
        /\ \A q \in Requests \ {r} : audit'[q] = audit[q]
        /\ Audited(r)'
    <2>1. CASE outcome = "completed" /\ n.status = "completed" /\ Record(r, "completed")
      <3>1. /\ audit' \in [Requests -> [Events -> Nat]]
            /\ \A q \in Requests \ {r} : audit'[q] = audit[q]
            /\ \A e \in Events :
                  audit'[r][e] = IF e = "completed" THEN audit[r][e] + 1 ELSE audit[r][e]
        BY <2>1, RecordEffect DEF Events
      <3> QED BY <1>1, <1>2, <2>1, <3>1 DEF Settles, Consistent, Audited, Events
    <2>2. CASE outcome = "dead_lettered" /\ n.status = "failed" /\ Record(r, "failed")
      <3>1. /\ audit' \in [Requests -> [Events -> Nat]]
            /\ \A q \in Requests \ {r} : audit'[q] = audit[q]
            /\ \A e \in Events :
                  audit'[r][e] = IF e = "failed" THEN audit[r][e] + 1 ELSE audit[r][e]
        BY <2>2, RecordEffect DEF Events
      <3> QED BY <1>1, <1>2, <2>2, <3>1 DEF Settles, Consistent, Audited, Events
    <2>3. CASE outcome = "retried" /\ n.status = "pending" /\ UNCHANGED audit
      BY <1>1, <1>2, <2>3 DEF Settles, Consistent, Audited, Events, TypeOK
    <2> QED BY <2>1, <2>2, <2>3 DEF Settles
  <1>7. tokens' \in [Requests -> Nat] /\ tokens' = tokens
    BY DEF Settles, TypeOK
  <1>8. RowSound(r)'
    BY <1>1, <1>2, <1>7 DEF Settles, RowSound
  <1>9. Recorded(r)'
    <2>1. row'[r] = n /\ timeline'[r] = g
      BY <1>2, <1>5
    <2> QED BY <1>1, <1>4, <2>1 DEF Settles, Recorded, Ends
  <1>10. RequestInv'
    <2> SUFFICES ASSUME NEW q \in Requests PROVE Consistent(q)'
      BY DEF RequestInv
    <2>1. CASE q = r
      BY <1>6, <1>8, <1>9, <2>1 DEF Consistent
    <2>2. CASE q # r
      BY <1>2, <1>5, <1>6, <1>7, <2>2, ConsistentFrame DEF RequestInv
    <2> QED BY <2>1, <2>2
  <1> QED BY <1>2, <1>5, <1>6, <1>7, <1>10

\* Whoever settles a request leaves the claims of every pass as they were.
LEMMA SettledKeeps ==
    ASSUME IngestionInv, NEW r \in Requests, NEW n, NEW outcome \in Outcomes,
           Settles(r, n, outcome), connector' = connector, objects' = objects,
           \A b \in Bindings :
              \/ checkpoint'[b] = checkpoint[b]
              \/ checkpoint'[b].revision > checkpoint[b].revision
    PROVE  Kept
  <1>1. \A q \in Requests : row'[q] = IF q = r THEN n ELSE row[q]
    BY SettledRequest
  <1>2. n.status # "absent" /\ n.stage = row[r].stage /\ n.token = 0 /\ tokens' = tokens
    BY DEF Settles
  <1>3. \A q \in Requests : tokens[q] \in Nat
    BY RowFields DEF IngestionInv
  <1> QED BY <1>1, <1>2, <1>3 DEF Kept, Stored

\* A pass that has put its request behind it.
LEMMA PassContinues ==
    ASSUME IngestionInv, TypeOK', Kept, NEW w \in Workers, NEW v \in Work,
           Goto(w, v), v.results = {}, v.pc \in {"next", "failure"},
           v.todo = work[w].todo,
           v.pc = "failure" => v.job = work[w].job,
           work[w].pc \in Busy
    PROVE  WorkInv'
  <1>1. Sound(work[w])
    BY DEF IngestionInv, WorkInv
  <1>2. \A c \in v.todo : GoodClaim(c)'
    BY <1>1, ClaimStays DEF Sound, IngestionInv
  <1>3. v.pc = "failure" => GoodClaim(v.job)'
    BY <1>1, ClaimStays DEF Sound, IngestionInv
  <1>4. IsFiniteSet({})
    BY FS_EmptySet
  <1>5. Sound(v)'
    BY <1>2, <1>3, <1>4 DEF Sound, Busy, Extracting
  <1> QED BY <1>5, PassMoves

LEMMA ContinueFields ==
    ASSUME TypeOK, NEW w \in Workers, Continue(w)
    PROVE  \E v \in Work :
              /\ Goto(w, v)
              /\ v.pc = "next"
              /\ v.todo = work[w].todo
              /\ v.results = {}
  <1>1. PICK todo \in SUBSET Claims : todo = work[w].todo
    BY WorkFields
  <1>2. PICK v : v = Start("next", todo, NoClaim)
    OBVIOUS
  <1>3. v \in Work /\ v.pc = "next" /\ v.todo = todo /\ v.results = {}
    BY <1>2 DEF Start, Work, Steps
  <1>4. Goto(w, v)
    BY <1>1, <1>2 DEF Continue
  <1> QED BY <1>1, <1>3, <1>4

LEMMA FinalizeFailureStep ==
    ASSUME IngestionInv, NEW w \in Workers, FinalizeFailure(w)
    PROVE  IngestionInv'
  <1> DEFINE r == work[w].job.request
  <1>1. /\ Sound(work[w]) /\ work[w].pc = "failure" /\ work[w].pc \in Busy
        /\ GoodClaim(work[w].job) /\ r \in Requests
        /\ UNCHANGED <<tokens, storeVars, envVars>>
    BY DEF IngestionInv, WorkInv, FinalizeFailure, Sound, Busy, GoodClaim, Claims
  <1>2. PICK v \in Work :
            /\ Goto(w, v)
            /\ v.pc = "next"
            /\ v.todo = work[w].todo
            /\ v.results = {}
    BY ContinueFields DEF FinalizeFailure, IngestionInv
  <1>3. CASE ~HoldsClaim(w)
    <2>1. UNCHANGED <<row, timeline, audit>>
      BY <1>3 DEF FinalizeFailure
    <2>2. Sound(v)
      BY <1>1, <1>2, PlainSound DEF Sound
    <2> QED BY <1>1, <1>2, <2>1, <2>2, QuietPass
            DEF requestVars, envVars, IngestionInv, TypeOK
  <1>4. CASE HoldsClaim(w)
    <2>1. PICK d \in BOOLEAN : d = DeadLetter(w)
      BY WorkFields DEF DeadLetter, Exhausted, IngestionInv
    <2>2. PICK st \in {"failed", "pending"} : st = IF d THEN "failed" ELSE "pending"
      OBVIOUS
    <2>3. PICK outcome \in {"dead_lettered", "retried"} :
              outcome = IF d THEN "dead_lettered" ELSE "retried"
      OBVIOUS
    <2>4. PICK n : n = [row[r] EXCEPT !.status = st, !.token = 0, !.live = FALSE, !.due = d]
      OBVIOUS
    <2>5. /\ n \in Rows /\ n.status = st /\ n.token = 0 /\ n.stage = row[r].stage
          /\ n.attempts = row[r].attempts
      <3>1. row[r] \in Rows
        BY <1>1, RowFields DEF IngestionInv
      <3> QED BY <2>4, <3>1 DEF Rows, Statuses
    <2>6. /\ row[r].status = "dispatching"
          /\ work[w].job.attempt = row[r].attempts
      BY <1>1, <1>4 DEF HoldsClaim, Job, GoodClaim
    <2>7. RetryOrDeadLetter(w)
      BY <1>4 DEF FinalizeFailure
    <2>8. /\ row' = [row EXCEPT ![r] = n]
          /\ Told(r, row[r].attempts, outcome)
      BY <2>1, <2>2, <2>3, <2>4, <2>6, <2>7 DEF RetryOrDeadLetter, Job, FailureStatus
    <2>9. IF d THEN Record(r, "failed") ELSE UNCHANGED audit
      BY <2>1, <2>7 DEF RetryOrDeadLetter, Job
    <2>10. ~d => row[r].attempts < MaxAttempts
      <3>1. row[r].attempts \in Nat /\ MaxAttempts \in Nat
        BY <1>1, RowFields, IngestionAssumption DEF IngestionInv
      <3>2. ~d => ~Exhausted(w)
        BY <2>1, Zenon DEF DeadLetter
      <3>3. ~Exhausted(w) => row[r].attempts < MaxAttempts
        BY <2>6, <3>1 DEF Exhausted, Job
      <3> QED BY <3>2, <3>3
    <2>11. Settles(r, n, outcome)
      BY <1>1, <2>2, <2>3, <2>5, <2>6, <2>8, <2>9, <2>10 DEF Settles
    <2>12. outcome \in Outcomes
      BY DEF Outcomes
    <2>13. /\ row' \in [Requests -> Rows] /\ tokens' \in [Requests -> Nat]
           /\ timeline' \in [Requests -> Seq(Attempt)]
           /\ audit' \in [Requests -> [Events -> Nat]]
           /\ \A q \in Requests : row'[q] = IF q = r THEN n ELSE row[q]
           /\ RequestInv'
      BY <1>1, <2>11, <2>12, SettledRequest
    <2>14. TypeOK'
      BY <1>1, <1>2, <2>13 DEF IngestionInv, TypeOK, Goto, storeVars, envVars
    <2>15. Kept
      BY <1>1, <2>11, <2>12, SettledKeeps DEF storeVars, envVars
    <2>16. ExtractionIsAllOrNothing'
      <3>1. \A q \in Requests : Extracted(q)' = Extracted(q)
        BY <2>2, <2>5, <2>6, <2>13 DEF Extracted
      <3> QED BY <1>1, <3>1, BatchesFrame DEF IngestionInv, storeVars
    <2>17. StoreInv'
      BY <1>1, StoreFrame DEF IngestionInv, storeVars, envVars
    <2>18. WorkInv'
      BY <1>1, <1>2, <2>14, <2>15, PassContinues
    <2> QED BY <2>13, <2>14, <2>16, <2>17, <2>18 DEF IngestionInv
  <1> QED BY <1>3, <1>4

\* The batch that a result becomes.
LEMMA BatchFields ==
    ASSUME TypeOK, NEW r \in Requests, NEW x, Fetched(x)
    PROVE  /\ BatchOf(r, x) \in Batch
           /\ BatchOf(r, x).request = r
           /\ BatchOf(r, x).binding = x.binding
           /\ BatchOf(r, x).key = x.key
           /\ BatchOf(r, x).envelope = x.envelope
           /\ BatchOf(r, x).from = x.from
           /\ BatchOf(r, x).to = x.to
           /\ BatchOf(r, x).revision = IF Incremental THEN x.revision + 1 ELSE 0
  <1>1. /\ x.binding \in Bindings /\ x.revision \in Nat /\ x.from \in Nat
        /\ x.to \in Nat /\ x.key \in Key /\ x.envelope \in Envelope
    BY DEF Fetched, Result
  <1>2. PICK n \in Nat : n = IF Incremental THEN x.revision + 1 ELSE 0
    BY <1>1
  <1>3. BatchOf(r, x) = [request |-> r, binding |-> x.binding, revision |-> n,
                         from |-> x.from, to |-> x.to, key |-> x.key,
                         envelope |-> x.envelope]
    BY <1>2 DEF BatchOf
  <1> QED BY <1>1, <1>2, <1>3 DEF Batch

LEMMA FiniteBatches ==
    ASSUME NEW R, IsFiniteSet(R), NEW r
    PROVE  IsFiniteSet({BatchOf(r, x) : x \in R})
  <1> DEFINE f == [x \in R |-> BatchOf(r, x)]
             T == {BatchOf(r, x) : x \in R}
  <1>1. f \in [R -> T] /\ \A t \in T : \E x \in R : f[x] = t
    OBVIOUS
  <1>2. f \in Surjection(R, T)
    BY <1>1 DEF Surjection
  <1> HIDE DEF f, T
  <1>3. IsFiniteSet(T)
    BY <1>2, FS_Surjection
  <1> QED BY <1>3 DEF T

\* The checkpoints move on by one, to where a result of the binding ended.
LEMMA AdvancedFields ==
    ASSUME TypeOK, NEW R, \A x \in R : Fetched(x), NEW b \in Bindings
    PROVE  /\ Advanced(R)[b] \in [revision : Nat, cursor : Nat]
           /\ IF Incremental /\ \E x \in R : x.binding = b
              THEN /\ Advanced(R)[b].revision = checkpoint[b].revision + 1
                   /\ \E x \in R : x.binding = b /\ Advanced(R)[b].cursor = x.to
              ELSE Advanced(R)[b] = checkpoint[b]
  <1>1. checkpoint[b] \in [revision : Nat, cursor : Nat] /\ checkpoint[b].revision \in Nat
    BY DEF TypeOK
  <1>2. CASE Incremental /\ \E x \in R : x.binding = b
    <2>1. PICK y : y = CHOOSE x \in R : x.binding = b
      OBVIOUS
    <2>2. y \in R /\ y.binding = b
      BY <1>2, <2>1
    <2>3. y.to \in Nat
      BY <2>2 DEF Fetched, Result
    <2>4. Advanced(R)[b] = [revision |-> checkpoint[b].revision + 1, cursor |-> y.to]
      BY <1>2, <2>1 DEF Advanced
    <2> QED BY <1>1, <1>2, <2>2, <2>3, <2>4
  <1>3. CASE ~(Incremental /\ \E x \in R : x.binding = b)
    BY <1>1, <1>3 DEF Advanced
  <1> QED BY <1>2, <1>3

\* What the fenced transaction of a completion of r with the results R does.
Completes(r, n, R) ==
    /\ Settles(r, n, "completed")
    /\ n.status = "completed"
    /\ batches' = batches \cup {BatchOf(r, x) : x \in R}
    /\ checkpoint' = Advanced(R)
    /\ UNCHANGED <<objects, connector, crashes, stalls>>
    /\ IsFiniteSet(R)
    /\ \A x \in R : Fetched(x) /\ ~Conflicts(x) /\ (Incremental => Stored(x.key))
    /\ IF row[r].stage = "extract"
       THEN /\ {x.binding : x \in R} = Selections[r]
            /\ \A x, y \in R : x.binding = y.binding => x = y
       ELSE R = {}

LEMMA CommitCompletes ==
    ASSUME IngestionInv, NEW w \in Workers, Commit(w)
    PROVE  /\ work[w].job.request \in Requests
           /\ \E n : Completes(work[w].job.request, n, work[w].results)
  <1> DEFINE r == work[w].job.request
             R == work[w].results
  <1>1. /\ Sound(work[w]) /\ work[w].pc = "commit"
        /\ GoodClaim(work[w].job) /\ r \in Requests
        /\ Gathered(work[w]) /\ work[w].left = {}
        /\ IsFiniteSet(R) /\ \A x \in R : Fetched(x) /\ (Incremental => Stored(x.key))
        /\ UNCHANGED <<tokens, objects, envVars>>
        /\ Complete(w)
    BY DEF IngestionInv, WorkInv, Commit, Sound, Busy, GoodClaim, Claims
  <1>2. PICK n : n = [row[r] EXCEPT !.status = "completed", !.token = 0, !.live = FALSE]
    OBVIOUS
  <1>3. /\ n \in Rows /\ n.status = "completed" /\ n.token = 0 /\ n.stage = row[r].stage
        /\ n.attempts = row[r].attempts
    <2>1. row[r] \in Rows
      BY <1>1, RowFields DEF IngestionInv
    <2> QED BY <1>2, <2>1 DEF Rows, Statuses
  <1>4. /\ row[r].status = "dispatching"
        /\ work[w].job.attempt = row[r].attempts
    BY <1>1 DEF Complete, MayComplete, HoldsClaim, Job, GoodClaim
  <1>5. /\ row' = [row EXCEPT ![r] = n]
        /\ Told(r, row[r].attempts, "completed")
        /\ Record(r, "completed")
        /\ batches' = batches \cup {BatchOf(r, x) : x \in R}
        /\ checkpoint' = Advanced(R)
        /\ \A x \in R : ~Conflicts(x)
    BY <1>1, <1>2, <1>4 DEF Complete, Job
  <1>6. Settles(r, n, "completed")
    BY <1>1, <1>3, <1>4, <1>5 DEF Settles
  <1>7. IF row[r].stage = "extract"
        THEN /\ {x.binding : x \in R} = Selections[r]
             /\ \A x, y \in R : x.binding = y.binding => x = y
        ELSE R = {}
    BY <1>1 DEF Gathered
  <1> HIDE DEF r, R
  <1>8. Completes(r, n, R)
    BY <1>1, <1>3, <1>5, <1>6, <1>7 DEF Completes, envVars
  <1> QED BY <1>1, <1>8 DEF r, R

LEMMA CompletedExtraction ==
    ASSUME IngestionInv, NEW r \in Requests, NEW n, NEW R, Completes(r, n, R)
    PROVE  ExtractionIsAllOrNothing'
  <1> USE DEF IngestionInv
  <1>1. \A q \in Requests : row'[q] = IF q = r THEN n ELSE row[q]
    BY SettledRequest DEF Completes, Outcomes
  <1>2. row[r].status = "dispatching" /\ n.status = "completed" /\ n.stage = row[r].stage
    BY DEF Completes, Settles
  <1>3. \A x \in R : BatchOf(r, x).request = r /\ BatchOf(r, x).binding = x.binding
    BY BatchFields DEF Completes
  <1>4. batches' = batches \cup {BatchOf(r, x) : x \in R}
    BY DEF Completes
  <1>5. ASSUME NEW q \in Requests, q # r
        PROVE  BatchesOf(q)' = BatchesOf(q)
    BY <1>3, <1>4, <1>5 DEF BatchesOf
  <1>6. BatchesOf(r)' = {BatchOf(r, x) : x \in R}
    <2>1. BatchesOf(r) = {}
      BY <1>2 DEF ExtractionIsAllOrNothing
    <2> QED BY <1>3, <1>4, <2>1 DEF BatchesOf
  <1>7. ASSUME row[r].stage = "extract"
        PROVE  /\ {x.binding : x \in BatchesOf(r)'} = Selections[r]
               /\ \A x, y \in BatchesOf(r)' : x.binding = y.binding => x = y
    <2>1. /\ {x.binding : x \in R} = Selections[r]
          /\ \A x, y \in R : x.binding = y.binding => x = y
      BY <1>7 DEF Completes
    <2>2. {x.binding : x \in BatchesOf(r)'} = {x.binding : x \in R}
      BY <1>3, <1>6
    <2>3. ASSUME NEW x \in BatchesOf(r)', NEW y \in BatchesOf(r)', x.binding = y.binding
          PROVE  x = y
      <3>1. PICK a \in R : x = BatchOf(r, a)
        BY <1>6
      <3>2. PICK b \in R : y = BatchOf(r, b)
        BY <1>6
      <3>3. a = b
        BY <1>3, <2>1, <2>3, <3>1, <3>2
      <3> QED BY <3>1, <3>2, <3>3
    <2> QED BY <2>1, <2>2, <2>3
  <1>8. row[r].stage # "extract" => BatchesOf(r)' = {}
    BY <1>6 DEF Completes
  <1> SUFFICES ASSUME NEW q \in Requests
               PROVE  IF row'[q].status = "completed" /\ row'[q].stage = "extract"
                      THEN /\ {x.binding : x \in BatchesOf(q)'} = Selections[q]
                           /\ \A x, y \in BatchesOf(q)' : x.binding = y.binding => x = y
                      ELSE BatchesOf(q)' = {}
    BY DEF ExtractionIsAllOrNothing
  <1>9. CASE q = r
    BY <1>1, <1>2, <1>7, <1>8, <1>9
  <1>10. CASE q # r
    BY <1>1, <1>5, <1>10 DEF ExtractionIsAllOrNothing
  <1> QED BY <1>9, <1>10

LEMMA CommitStep ==
    ASSUME IngestionInv, NEW w \in Workers, Commit(w)
    PROVE  IngestionInv'
  <1> DEFINE r == work[w].job.request
             R == work[w].results
  <1>1. work[w].pc = "commit" /\ work[w].pc \in Busy
    BY DEF Commit, Busy
  <1>2. r \in Requests /\ \E n : Completes(r, n, R)
    BY CommitCompletes
  <1>3. PICK v \in Work :
            /\ Goto(w, v)
            /\ v.pc \in {"next", "failure"}
            /\ v.todo = work[w].todo
            /\ v.pc = "failure" => v.job = work[w].job
            /\ v.results = {}
    <2>1. CASE Continue(w)
      BY <2>1, ContinueFields DEF IngestionInv
    <2>2. CASE Fail(w, FALSE)
      BY <2>2, FailFields DEF IngestionInv
    <2> QED BY <2>1, <2>2 DEF Commit
  <1> HIDE DEF r, R
  <1>4. PICK n : Completes(r, n, R)
    BY <1>2
  <1>5. Settles(r, n, "completed") /\ "completed" \in Outcomes
    BY <1>4 DEF Completes, Outcomes
  <1>6. /\ row' \in [Requests -> Rows] /\ tokens' \in [Requests -> Nat]
        /\ timeline' \in [Requests -> Seq(Attempt)]
        /\ audit' \in [Requests -> [Events -> Nat]]
        /\ RequestInv'
    BY <1>2, <1>5, SettledRequest
  <1>7. /\ checkpoint' \in [Bindings -> [revision : Nat, cursor : Nat]]
        /\ \A b \in Bindings :
              \/ checkpoint'[b] = checkpoint[b]
              \/ checkpoint'[b].revision > checkpoint[b].revision
    <2>1. checkpoint' = Advanced(R) /\ \A x \in R : Fetched(x)
      BY <1>4 DEF Completes
    <2>2. \A b \in Bindings : checkpoint[b].revision \in Nat
      BY DEF IngestionInv, TypeOK
    <2>3. \A b \in Bindings :
              /\ checkpoint'[b] \in [revision : Nat, cursor : Nat]
              /\ \/ checkpoint'[b] = checkpoint[b]
                 \/ checkpoint'[b].revision > checkpoint[b].revision
      BY <2>1, <2>2, AdvancedFields DEF IngestionInv
    <2>4. checkpoint' = [b \in Bindings |-> checkpoint'[b]]
      BY <2>1 DEF Advanced
    <2> QED BY <2>3, <2>4
  <1>8. \A x \in R : BatchOf(r, x) \in Batch /\ BatchOf(r, x).key = x.key
                                             /\ BatchOf(r, x).envelope = x.envelope
    BY <1>2, <1>4, BatchFields DEF Completes, IngestionInv
  <1>9. TypeOK'
    <2>1. batches' \subseteq Batch
      BY <1>4, <1>8 DEF Completes, IngestionInv, TypeOK
    <2> QED BY <1>3, <1>4, <1>6, <1>7, <2>1
            DEF Completes, IngestionInv, TypeOK, Goto
  <1>10. Kept
    BY <1>2, <1>4, <1>5, <1>7, SettledKeeps DEF Completes
  <1>11. StoreInv'
    <2>1. IsFiniteSet(batches')
      <3>1. IsFiniteSet({BatchOf(r, x) : x \in R})
        BY <1>4, FiniteBatches DEF Completes
      <3> QED BY <1>4, <3>1, FS_Union DEF Completes, IngestionInv, StoreInv
    <2>2. \A k : Stored(k)' = Stored(k)
      BY <1>4 DEF Completes, Stored
    <2>3. Incremental' = Incremental
      BY <1>4 DEF Completes, Incremental
    <2>4. ASSUME Incremental, NEW x \in batches'
          PROVE  Named(x.key, x.envelope) /\ Stored(x.key)
      <3>1. CASE x \in batches
        BY <2>4, <3>1 DEF IngestionInv, StoreInv
      <3>2. ASSUME NEW y \in R, x = BatchOf(r, y)
            PROVE  Named(x.key, x.envelope) /\ Stored(x.key)
        BY <1>4, <1>8, <2>4, <3>2 DEF Completes, Fetched
      <3> QED BY <1>4, <2>4, <3>1, <3>2 DEF Completes
    <2>5. objects' = objects
      BY <1>4 DEF Completes
    <2> QED BY <2>1, <2>2, <2>3, <2>4, <2>5 DEF IngestionInv, StoreInv, Named
  <1>12. WorkInv'
    BY <1>1, <1>3, <1>9, <1>10, PassContinues
  <1>13. ExtractionIsAllOrNothing'
    BY <1>2, <1>4, CompletedExtraction
  <1> QED BY <1>6, <1>9, <1>11, <1>12, <1>13 DEF IngestionInv

-----------------------------------------------------------------------------
(* Results *)

LEMMA NextInv == IngestionInv /\ [Next]_vars => IngestionInv'
  <1> SUFFICES ASSUME IngestionInv, [Next]_vars PROVE IngestionInv'
    OBVIOUS
  <1>1. ASSUME NEW r \in Requests, Operator(r) PROVE IngestionInv'
    BY <1>1, OperatorStep
  <1>2. ASSUME NEW r \in Requests, Clock(r) PROVE IngestionInv'
    BY <1>2, ClockStep
  <1>3. ASSUME NEW w \in Workers, Dispatcher(w) PROVE IngestionInv'
    BY <1>3, ClaimStep, TakeStep, ValidateStep, PrepareStep, ReadSourceStep,
       StoreObjectStep, CommitStep, CommitNothingStep, FinalizeFailureStep
       DEF Dispatcher
  <1>4. ASSUME NEW w \in Workers, PassEnds(w) PROVE IngestionInv'
    BY <1>4, PassEndsStep
  <1>5. ASSUME UNCHANGED vars PROVE IngestionInv'
    <2>1. /\ UNCHANGED <<requestVars, storeVars, connector>>
          /\ UNCHANGED <<work, crashes, stalls>>
      BY <1>5 DEF vars, requestVars, storeVars
    <2>2. TypeOK'
      BY <2>1 DEF IngestionInv, TypeOK, requestVars, storeVars
    <2>3. Kept /\ RequestInv' /\ ExtractionIsAllOrNothing' /\ StoreInv'
      BY <2>1, NothingShared
    <2>4. WorkInv'
      BY <2>1, <2>2, <2>3, NoPassMoves
    <2> QED BY <2>2, <2>3, <2>4 DEF IngestionInv
  <1> QED BY <1>1, <1>2, <1>3, <1>4, <1>5 DEF Next

\* The rows, their attempts, the batches and objects, and what every dispatcher
\* holds agree in every reachable state: the induction behind all results below.
THEOREM IngestionInvariant == Spec => []IngestionInv
  BY InitInv, NextInv, PTL DEF Spec

\* Every reachable state of the ingestion outbox is well-typed.
THEOREM IngestionTypes == Spec => []TypeOK
  <1>1. IngestionInv => TypeOK
    BY DEF IngestionInv
  <1> QED BY <1>1, IngestionInvariant, PTL

\* A completed extraction has exactly one batch for each of its bindings and
\* no other request has any, whatever crashed, expired or was taken over.
THEOREM ExtractionAllOrNothing == Spec => []ExtractionIsAllOrNothing
  <1>1. IngestionInv => ExtractionIsAllOrNothing
    BY DEF IngestionInv
  <1> QED BY <1>1, IngestionInvariant, PTL

\* The row, the attempts on record and the audit events of a request tell one
\* story: a dispatcher whose claim was taken over adds to none of them.
THEOREM HistoryTruthful == Spec => []HistoryIsTruthful
  <1>1. IngestionInv => HistoryIsTruthful
    BY DEF IngestionInv, RequestInv, Consistent, Recorded, Audited, Rising, Ends,
       HistoryIsTruthful
  <1> QED BY <1>1, IngestionInvariant, PTL

\* Of the sources whose objects are named by their digest, the object of
\* every recorded batch holds the payload that the batch records.
THEOREM ObjectsMatch ==
    ASSUME "postgres" \notin Connectors
    PROVE  Spec => []RecordedObjectsMatch
  <1>1. ASSUME IngestionInv, NEW x \in batches
        PROVE  {o.envelope : o \in {p \in objects : p.key = x.key}} = {x.envelope}
    <2>1. Incremental
      BY <1>1 DEF IngestionInv, TypeOK, Incremental
    <2>2. Named(x.key, x.envelope)
      BY <1>1, <2>1 DEF IngestionInv, StoreInv
    <2>3. PICK o \in objects : o.key = x.key
      BY <1>1, <2>1 DEF IngestionInv, StoreInv, Stored
    <2>4. \A p \in objects : p.key = x.key => p.envelope = x.envelope
      <3> SUFFICES ASSUME NEW p \in objects, p.key = x.key
                   PROVE  p.envelope = x.envelope
        OBVIOUS
      <3>1. Named(x.key, p.envelope)
        BY <1>1, <2>1 DEF IngestionInv, StoreInv
      <3>2. PICK r1 \in Requests, b1 \in Bindings :
                x.key = [request |-> r1, binding |-> b1, digest |-> p.envelope]
        BY <3>1 DEF Named
      <3>3. PICK r2 \in Requests, b2 \in Bindings :
                x.key = [request |-> r2, binding |-> b2, digest |-> x.envelope]
        BY <2>2 DEF Named
      <3>4. x.key.digest = p.envelope
        BY <3>2
      <3>5. x.key.digest = x.envelope
        BY <3>3
      <3> QED BY <3>4, <3>5
    <2> QED BY <2>3, <2>4
  <1>2. IngestionInv => RecordedObjectsMatch
    BY <1>1 DEF RecordedObjectsMatch
  <1> QED BY <1>2, IngestionInvariant, PTL

-----------------------------------------------------------------------------
(* The ledger *)

States == [r \in Requests |-> StateOf(r)]
Positions == [b \in Bindings |-> [count |-> checkpoint[b].revision,
                                  at |-> checkpoint[b].cursor]]
Entries == {EntryOf(x) : x \in batches}

\* What the ledger calls the status of a row.
Standing(status) ==
    CASE status \in {"pending", "dispatching"} -> "open"
      [] status = "completed" -> "done"
      [] status \in {"absent", "failed", "cancelled"} -> status

LEMMA RowOnly ==
    ASSUME TypeOK, NEW r \in Requests, NEW n \in Rows,
           row' = [row EXCEPT ![r] = n]
    PROVE  /\ States' = [States EXCEPT ![r] = [stage |-> n.stage,
                                               is |-> Standing(n.status)]]
           /\ States[r] = [stage |-> row[r].stage, is |-> Standing(row[r].status)]
  <1>1. \A q \in Requests : row'[q] = IF q = r THEN n ELSE row[q]
    BY DEF TypeOK
  <1>2. \A q \in Requests : StateOf(q)' = IF q = r THEN [stage |-> n.stage,
                                                         is |-> Standing(n.status)]
                                          ELSE StateOf(q)
    BY <1>1 DEF StateOf, Standing
  <1>3. StateOf(r) = [stage |-> row[r].stage, is |-> Standing(row[r].status)]
    BY DEF StateOf, Standing
  <1> QED BY <1>2, <1>3 DEF States

\* A row that keeps its stage and moves from one standing to another.
LEMMA RowMoves ==
    ASSUME TypeOK, NEW r \in Requests, NEW n \in Rows,
           row' = [row EXCEPT ![r] = n], n.stage = row[r].stage,
           NEW before, NEW after,
           before = Standing(row[r].status), after = Standing(n.status),
           UNCHANGED <<batches, checkpoint>>
    PROVE  /\ Ledger!Move(r, before, after)
           /\ Positions' = Positions
           /\ Entries' = Entries
           /\ before = after => States' = States
  <1>1. /\ States' = [States EXCEPT ![r] = [stage |-> n.stage, is |-> after]]
        /\ States[r] = [stage |-> n.stage, is |-> before]
    BY RowOnly
  <1>2. States \in [Requests -> {StateOf(q) : q \in Requests}]
    BY DEF States
  <1>3. States[r].is = before /\ States' = [States EXCEPT ![r].is = after]
    <2>1. States[r].is = before
      BY <1>1
    <2>2. [States[r] EXCEPT !.is = after] = [stage |-> n.stage, is |-> after]
      BY <1>1
    <2>3. States' = [States EXCEPT ![r] = [States[r] EXCEPT !.is = after]]
      BY <1>1, <2>2
    <2> QED BY <2>1, <2>3
  <1>4. Ledger!Move(r, before, after)
    BY <1>3 DEF Ledger!Move, States
  <1>5. before = after => States' = States
    BY <1>1, <1>2
  <1>6. Positions' = Positions /\ Entries' = Entries
    BY DEF Positions, Entries, EntryOf
  <1> QED BY <1>4, <1>5, <1>6

LEMMA NoMove ==
    ASSUME UNCHANGED batches, UNCHANGED checkpoint, States' = States
    PROVE  Positions' = Positions /\ Entries' = Entries /\ States' = States
  BY DEF Positions, Entries, EntryOf

\* What no step of the ledger shows.
Stutters ==
    /\ connector' = connector
    /\ States' = States
    /\ Positions' = Positions
    /\ Entries' = Entries

LEMMA OperatorLedger ==
    ASSUME IngestionInv, NEW r \in Requests, Operator(r)
    PROVE  Ledger!LedgerNext
  <1>0. row[r] \in Rows /\ TypeOK
    BY RowFields DEF IngestionInv
  <1>1. Incremental' = Incremental
    BY DEF Operator, Submit, Cancel, Requeue, envVars, Incremental
  <1>2. ASSUME NEW stage \in Stages, Submit(r, stage)
        PROVE  Ledger!LedgerNext
    <2>1. PICK n : n = [Absent EXCEPT !.status = "pending", !.stage = stage, !.due = TRUE]
      OBVIOUS
    <2>2. n \in Rows /\ n.status = "pending" /\ n.stage = stage
      BY <2>1 DEF Absent, Rows, Statuses, Stages
    <2>3. row' = [row EXCEPT ![r] = n] /\ row[r].status = "absent"
      BY <1>2, <2>1 DEF Submit
    <2>4. /\ States' = [States EXCEPT ![r] = [stage |-> stage, is |-> "open"]]
          /\ States[r].is = "absent"
      <3>1. /\ States' = [States EXCEPT ![r] = [stage |-> n.stage,
                                                is |-> Standing(n.status)]]
            /\ States[r] = [stage |-> row[r].stage, is |-> Standing(row[r].status)]
        BY <1>0, <2>2, <2>3, RowOnly
      <3>2. Standing(n.status) = "open" /\ Standing(row[r].status) = "absent"
        BY <2>2, <2>3 DEF Standing
      <3>3. [stage |-> n.stage, is |-> Standing(n.status)] = [stage |-> stage, is |-> "open"]
        BY <2>2, <3>2
      <3>4. States[r].is = "absent"
        BY <3>1, <3>2
      <3> QED BY <3>1, <3>3, <3>4
    <2>5. Positions' = Positions /\ Entries' = Entries
      BY <1>2 DEF Submit, storeVars, Positions, Entries, EntryOf
    <2>6. Ledger!Open(r, stage)
      BY <2>4, <2>5 DEF Ledger!Open, States, Positions, Entries
    <2> QED BY <1>1, <2>6 DEF Ledger!LedgerNext, Stages
  <1>3. ASSUME Cancel(r)
        PROVE  Ledger!LedgerNext
    <2>1. PICK n : n = [row[r] EXCEPT !.status = "cancelled"]
      OBVIOUS
    <2>2. n \in Rows /\ n.status = "cancelled" /\ n.stage = row[r].stage
      BY <1>0, <2>1 DEF Rows, Statuses
    <2>3. row' = [row EXCEPT ![r] = n] /\ row[r].status = "pending"
      BY <1>3, <2>1 DEF Cancel, MayCancel
    <2>4. /\ Standing(row[r].status) = "open" /\ Standing(n.status) = "cancelled"
          /\ UNCHANGED <<batches, checkpoint>>
      BY <1>3, <2>2, <2>3 DEF Standing, Cancel, storeVars
    <2>5. /\ Ledger!Move(r, "open", "cancelled")
          /\ Positions' = Positions /\ Entries' = Entries
      BY <1>0, <2>2, <2>3, <2>4, RowMoves
    <2>6. Ledger!Withdraw(r)
      BY <2>5 DEF Ledger!Withdraw, Positions, Entries
    <2> QED BY <1>1, <2>6 DEF Ledger!LedgerNext
  <1>4. ASSUME Requeue(r)
        PROVE  Ledger!LedgerNext
    <2>1. PICK n : n = [row[r] EXCEPT !.status = "pending", !.attempts = 0, !.due = TRUE]
      OBVIOUS
    <2>2. n \in Rows /\ n.status = "pending" /\ n.stage = row[r].stage
      BY <1>0, <2>1 DEF Rows, Statuses
    <2>3. row' = [row EXCEPT ![r] = n] /\ row[r].status = "failed"
      BY <1>4, <2>1 DEF Requeue
    <2>4. /\ Standing(row[r].status) = "failed" /\ Standing(n.status) = "open"
          /\ UNCHANGED <<batches, checkpoint>>
      BY <1>4, <2>2, <2>3 DEF Standing, Requeue, storeVars
    <2>5. /\ Ledger!Move(r, "failed", "open")
          /\ Positions' = Positions /\ Entries' = Entries
      BY <1>0, <2>2, <2>3, <2>4, RowMoves
    <2>6. Ledger!Reopen(r)
      BY <2>5 DEF Ledger!Reopen, Positions, Entries
    <2> QED BY <1>1, <2>6 DEF Ledger!LedgerNext
  <1> QED BY <1>2, <1>3, <1>4 DEF Operator

LEMMA ClockLedger ==
    ASSUME IngestionInv, NEW r \in Requests, Clock(r)
    PROVE  Stutters
  <1>1. \A q \in Requests : row'[q].status = row[q].status /\ row'[q].stage = row[q].stage
    <2>1. row[r] \in Rows /\ row \in [Requests -> Rows]
      BY DEF IngestionInv, TypeOK
    <2>2. CASE LeaseExpires(r)
      <3>1. PICK n : n = [row[r] EXCEPT !.live = FALSE]
        OBVIOUS
      <3>2. n.status = row[r].status /\ n.stage = row[r].stage
        BY <2>1, <3>1 DEF Rows
      <3>3. row' = [row EXCEPT ![r] = n]
        BY <2>2, <3>1 DEF LeaseExpires
      <3> HIDE <3>1
      <3> QED BY <2>1, <3>2, <3>3
    <2>3. CASE RetryDue(r)
      <3>1. PICK n : n = [row[r] EXCEPT !.due = TRUE]
        OBVIOUS
      <3>2. n.status = row[r].status /\ n.stage = row[r].stage
        BY <2>1, <3>1 DEF Rows
      <3>3. row' = [row EXCEPT ![r] = n]
        BY <2>3, <3>1 DEF RetryDue
      <3> HIDE <3>1
      <3> QED BY <2>1, <3>2, <3>3
    <2> QED BY <2>2, <2>3 DEF Clock
  <1>2. UNCHANGED <<batches, checkpoint, connector>>
    BY DEF Clock, LeaseExpires, RetryDue, storeVars, envVars
  <1>3. States' = States
    BY <1>1 DEF States, StateOf
  <1> QED BY <1>2, <1>3, NoMove DEF Stutters

LEMMA ClaimLedger ==
    ASSUME IngestionInv, NEW w \in Workers, Claim(w)
    PROVE  Stutters
  <1>1. PICK S \in SUBSET {r \in Requests : Claimable(r)} :
            row' = [r \in Requests |-> IF r \in S
                      THEN [row[r] EXCEPT !.status = "dispatching",
                               !.attempts = @ + 1, !.token = NewToken(r),
                               !.live = TRUE, !.due = FALSE]
                      ELSE row[r]]
    BY DEF Claim
  <1>2. ASSUME NEW q \in Requests PROVE StateOf(q)' = StateOf(q)
    <2>1. CASE q \in S
      <3>1. PICK n : n = [row[q] EXCEPT !.status = "dispatching", !.attempts = @ + 1,
                              !.token = NewToken(q), !.live = TRUE, !.due = FALSE]
        OBVIOUS
      <3>2. row'[q] = n
        BY <1>1, <2>1, <3>1
      <3>3. row[q].status \in {"pending", "dispatching"}
        BY <2>1 DEF Claimable
      <3>4. n.status = "dispatching" /\ n.stage = row[q].stage
        BY <3>1, ClaimedRow DEF IngestionInv
      <3> HIDE <3>1
      <3> QED BY <3>2, <3>3, <3>4 DEF StateOf
    <2>2. CASE q \notin S
      <3>1. row'[q] = row[q]
        BY <1>1, <2>2
      <3> QED BY <3>1 DEF StateOf
    <2> QED BY <2>1, <2>2
  <1>3. States' = States
    BY <1>2 DEF States
  <1>4. UNCHANGED <<batches, checkpoint, connector>>
    BY DEF Claim, storeVars, envVars
  <1> QED BY <1>3, <1>4, NoMove DEF Stutters

LEMMA FailureLedger ==
    ASSUME IngestionInv, NEW w \in Workers, FinalizeFailure(w)
    PROVE  Ledger!LedgerNext \/ Stutters
  <1> DEFINE r == work[w].job.request
  <1>1. /\ Sound(work[w]) /\ r \in Requests /\ TypeOK /\ row[r] \in Rows
        /\ UNCHANGED <<batches, checkpoint, connector>>
    BY RowFields DEF IngestionInv, WorkInv, FinalizeFailure, Sound, Busy, GoodClaim,
       Claims, storeVars, envVars
  <1>2. CASE ~HoldsClaim(w)
    <2>1. row' = row
      BY <1>2 DEF FinalizeFailure
    <2>2. States' = States
      BY <2>1 DEF States, StateOf
    <2> QED BY <1>1, <2>2, NoMove DEF Stutters
  <1>3. CASE HoldsClaim(w)
    <2>1. PICK d \in BOOLEAN : d = DeadLetter(w)
      BY WorkFields DEF DeadLetter, Exhausted, IngestionInv
    <2>2. PICK st \in {"failed", "pending"} : st = IF d THEN "failed" ELSE "pending"
      OBVIOUS
    <2>3. PICK n : n = [row[r] EXCEPT !.status = st, !.token = 0, !.live = FALSE, !.due = d]
      OBVIOUS
    <2>4. n \in Rows /\ n.status = st /\ n.stage = row[r].stage
      BY <1>1, <2>3 DEF Rows, Statuses
    <2>5. row' = [row EXCEPT ![r] = n] /\ row[r].status = "dispatching"
      BY <1>3, <2>1, <2>2, <2>3
         DEF FinalizeFailure, RetryOrDeadLetter, Job, FailureStatus, HoldsClaim
    <2>6. /\ Standing(row[r].status) = "open"
          /\ Standing(n.status) = IF st = "failed" THEN "failed" ELSE "open"
      BY <2>4, <2>5 DEF Standing
    <2> HIDE DEF r
    <2>7. CASE st = "failed"
      <3>1. /\ Ledger!Move(r, "open", "failed")
            /\ Positions' = Positions /\ Entries' = Entries
        BY <1>1, <2>4, <2>5, <2>6, <2>7, RowMoves
      <3>2. Ledger!GiveUp(r)
        BY <3>1 DEF Ledger!GiveUp, Positions, Entries
      <3>3. Incremental' = Incremental
        BY <1>1 DEF Incremental
      <3> QED BY <1>1, <3>2, <3>3 DEF Ledger!LedgerNext
    <2>8. CASE st = "pending"
      BY <1>1, <2>4, <2>5, <2>6, <2>8, RowMoves DEF Stutters
    <2> QED BY <2>7, <2>8
  <1> QED BY <1>2, <1>3

LEMMA ValidationLedger ==
    ASSUME IngestionInv, NEW r \in Requests, NEW n, Completes(r, n, {}),
           row[r].stage = "validate"
    PROVE  Ledger!LedgerNext
  <1>1. /\ TypeOK /\ n \in Rows /\ row' = [row EXCEPT ![r] = n]
        /\ n.stage = row[r].stage /\ n.status = "completed"
        /\ row[r].status = "dispatching"
        /\ batches' = batches /\ checkpoint' = Advanced({}) /\ connector' = connector
    BY DEF IngestionInv, Completes, Settles
  <1>2. checkpoint' = checkpoint
    BY <1>1 DEF Advanced, TypeOK
  <1>3. Standing(row[r].status) = "open" /\ Standing(n.status) = "done"
    BY <1>1 DEF Standing
  <1>4. /\ Ledger!Move(r, "open", "done")
        /\ Positions' = Positions /\ Entries' = Entries
    BY <1>1, <1>2, <1>3, RowMoves
  <1>5. States[r].stage = "validate"
    BY DEF States, StateOf
  <1>6. Ledger!CloseValidation(r)
    BY <1>4, <1>5 DEF Ledger!CloseValidation, States, Positions, Entries
  <1>7. Incremental' = Incremental
    BY <1>1 DEF Incremental
  <1> QED BY <1>6, <1>7 DEF Ledger!LedgerNext

\* The batch of a result is the entry the ledger expects: of a source read
\* from mark to mark, the next one, from where the last had ended.
LEMMA BatchIsEntry ==
    ASSUME IngestionInv, NEW r \in Requests, NEW x, Fetched(x), ~Conflicts(x),
           NEW to, Incremental => to = x.to
    PROVE  EntryOf(BatchOf(r, x))
               = Ledger!Entry(r, x.binding, x.envelope.rows, to)
  <1>1. x.binding \in Bindings
    BY DEF Fetched, Result
  <1>2. /\ BatchOf(r, x).request = r
        /\ BatchOf(r, x).binding = x.binding
        /\ BatchOf(r, x).envelope = x.envelope
        /\ BatchOf(r, x).from = x.from
        /\ BatchOf(r, x).to = x.to
        /\ BatchOf(r, x).revision = IF Incremental THEN x.revision + 1 ELSE 0
    BY BatchFields DEF IngestionInv
  <1>3. EntryOf(BatchOf(r, x)) =
            [request |-> r, binding |-> x.binding,
             number |-> IF Incremental THEN x.revision + 1 ELSE 0,
             from |-> x.from, to |-> x.to, payload |-> x.envelope.rows]
    BY <1>2 DEF EntryOf
  <1>4. CASE Incremental
    <2>1. x.revision = checkpoint[x.binding].revision
      BY <1>4 DEF Conflicts
    <2>2. x.from = checkpoint[x.binding].cursor
      BY <1>4, <2>1 DEF Fetched, Based
    <2> QED BY <1>1, <1>3, <1>4, <2>1, <2>2 DEF Ledger!Entry
  <1>5. CASE ~Incremental
    <2>1. x.from = 0 /\ x.to = 0
      BY <1>5 DEF Fetched
    <2> QED BY <1>3, <1>5, <2>1 DEF Ledger!Entry
  <1> QED BY <1>4, <1>5

LEMMA ExtractionLedger ==
    ASSUME IngestionInv, NEW r \in Requests, NEW n, NEW R, Completes(r, n, R),
           row[r].stage = "extract"
    PROVE  Ledger!LedgerNext
  <1>1. /\ TypeOK /\ n \in Rows /\ row' = [row EXCEPT ![r] = n]
        /\ n.stage = row[r].stage /\ n.status = "completed"
        /\ row[r].status = "dispatching"
        /\ batches' = batches \cup {BatchOf(r, x) : x \in R}
        /\ checkpoint' = Advanced(R) /\ connector' = connector
        /\ {x.binding : x \in R} = Selections[r]
    BY DEF IngestionInv, Completes, Settles
  <1>2. /\ \A x \in R : Fetched(x) /\ ~Conflicts(x)
        /\ \A x, y \in R : x.binding = y.binding => x = y
    BY DEF Completes
  <1> DEFINE The(b) == CHOOSE x \in R : x.binding = b
  <1>3. \A b \in Selections[r] : The(b) \in R /\ The(b).binding = b
    BY <1>1
  <1>4. \A x \in R : x.binding \in Selections[r] /\ The(x.binding) = x
    <2> SUFFICES ASSUME NEW x \in R
                 PROVE  x.binding \in Selections[r] /\ The(x.binding) = x
      OBVIOUS
    <2>1. x.binding \in Selections[r]
      BY <1>1
    <2>2. The(x.binding) \in R /\ The(x.binding).binding = x.binding
      BY <1>3, <2>1
    <2> HIDE DEF The
    <2> QED BY <1>2, <2>1, <2>2
  <1> HIDE DEF The
  <1>5. Selections[r] # {} /\ Selections[r] \subseteq Bindings
    BY IngestionAssumption
  <1>6. \A x \in R : /\ x.envelope.rows \in Contents
                     /\ Incremental => x.to \in Cursors
                     /\ Cursors # {}
    BY <1>2 DEF Fetched, Result, Envelope
  <1>7. PICK c : c \in Cursors
    BY <1>3, <1>5, <1>6
  <1> DEFINE payload == [b \in Selections[r] |-> The(b).envelope.rows]
             to == [b \in Selections[r] |-> IF Incremental THEN The(b).to ELSE c]
  <1>8. payload \in [Selections[r] -> Contents] /\ to \in [Selections[r] -> Cursors]
    BY <1>3, <1>6, <1>7
  <1>9. \A x \in R : /\ payload[x.binding] = x.envelope.rows
                     /\ Incremental => to[x.binding] = x.to
    BY <1>4
  <1>10. \A b \in Selections[r] : Incremental => to[b] = The(b).to
    OBVIOUS
  <1> HIDE DEF payload, to
  <1>11. Entries' = Entries \cup
             {Ledger!Entry(r, b, payload[b], to[b]) : b \in Selections[r]}
    <2>1. \A x \in R : EntryOf(BatchOf(r, x))
              = Ledger!Entry(r, x.binding, payload[x.binding], to[x.binding])
      <3> SUFFICES ASSUME NEW x \in R
                   PROVE  EntryOf(BatchOf(r, x))
                              = Ledger!Entry(r, x.binding, payload[x.binding], to[x.binding])
        OBVIOUS
      <3>1. /\ payload[x.binding] = x.envelope.rows
            /\ Incremental => to[x.binding] = x.to
            /\ Fetched(x) /\ ~Conflicts(x)
        BY <1>2, <1>9
      <3>2. EntryOf(BatchOf(r, x))
                = Ledger!Entry(r, x.binding, x.envelope.rows, to[x.binding])
        BY <3>1, BatchIsEntry
      <3> QED BY <3>1, <3>2
    <2>2. Entries' = {EntryOf(x) : x \in batches'}
      BY DEF Entries, EntryOf
    <2>3. {EntryOf(x) : x \in batches'}
              = Entries \cup {EntryOf(BatchOf(r, x)) : x \in R}
      BY <1>1 DEF Entries
    <2>4. {EntryOf(BatchOf(r, x)) : x \in R}
              = {Ledger!Entry(r, b, payload[b], to[b]) : b \in Selections[r]}
      BY <1>3, <1>4, <2>1
    <2> QED BY <2>2, <2>3, <2>4
  <1>12. Positions' = [b \in Bindings |->
             IF Incremental /\ b \in Selections[r]
             THEN [count |-> Positions[b].count + 1, at |-> to[b]]
             ELSE Positions[b]]
    <2>1. Positions' = [b \in Bindings |-> [count |-> checkpoint'[b].revision,
                                            at |-> checkpoint'[b].cursor]]
      BY DEF Positions
    <2>2. ASSUME NEW b \in Bindings
          PROVE  [count |-> checkpoint'[b].revision, at |-> checkpoint'[b].cursor]
                     = IF Incremental /\ b \in Selections[r]
                       THEN [count |-> Positions[b].count + 1, at |-> to[b]]
                       ELSE Positions[b]
      <3>1. /\ Positions[b] = [count |-> checkpoint[b].revision, at |-> checkpoint[b].cursor]
            /\ Positions[b].count = checkpoint[b].revision
        BY DEF Positions
      <3>2. IF Incremental /\ \E x \in R : x.binding = b
            THEN /\ checkpoint'[b].revision = checkpoint[b].revision + 1
                 /\ \E x \in R : x.binding = b /\ checkpoint'[b].cursor = x.to
            ELSE checkpoint'[b] = checkpoint[b]
        BY <1>1, <1>2, AdvancedFields
      <3>3. b \in Selections[r] <=> \E x \in R : x.binding = b
        BY <1>1
      <3>4. CASE Incremental /\ b \in Selections[r]
        <4>1. PICK x \in R : x.binding = b /\ checkpoint'[b].cursor = x.to
          BY <3>2, <3>3, <3>4
        <4>2. to[b] = x.to
          BY <1>9, <3>4, <4>1
        <4>3. checkpoint'[b].revision = checkpoint[b].revision + 1
          BY <3>2, <3>3, <3>4
        <4> QED BY <3>1, <3>4, <4>1, <4>2, <4>3
      <3>5. CASE ~(Incremental /\ b \in Selections[r])
        BY <3>1, <3>2, <3>3, <3>5
      <3> QED BY <3>4, <3>5
    <2> QED BY <2>1, <2>2
  <1>13. Ledger!Move(r, "open", "done")
    <2>1. Standing(row[r].status) = "open" /\ Standing(n.status) = "done"
      BY <1>1 DEF Standing
    <2>2. /\ States' = [States EXCEPT ![r] = [stage |-> n.stage, is |-> "done"]]
          /\ States[r] = [stage |-> n.stage, is |-> "open"]
      BY <1>1, <2>1, RowOnly
    <2>3. [States[r] EXCEPT !.is = "done"] = [stage |-> n.stage, is |-> "done"]
      BY <2>2
    <2>4. States' = [States EXCEPT ![r] = [States[r] EXCEPT !.is = "done"]]
      BY <2>2, <2>3
    <2> QED BY <2>2, <2>4 DEF Ledger!Move, States
  <1>14. States[r].stage = "extract"
    BY DEF States, StateOf
  <1>15. Ledger!CloseExtraction(r)
    BY <1>8, <1>11, <1>12, <1>13, <1>14
       DEF Ledger!CloseExtraction, States, Positions, Entries
  <1>16. Incremental' = Incremental
    BY <1>1 DEF Incremental
  <1> QED BY <1>15, <1>16 DEF Ledger!LedgerNext

LEMMA LedgerStep ==
    ASSUME IngestionInv, Next
    PROVE  Ledger!LedgerNext \/ Stutters
  <1>1. ASSUME NEW r \in Requests, Operator(r)
        PROVE  Ledger!LedgerNext
    BY <1>1, OperatorLedger
  <1>2. ASSUME NEW r \in Requests, Clock(r)
        PROVE  Stutters
    BY <1>2, ClockLedger
  <1>3. ASSUME UNCHANGED <<row, batches, checkpoint, connector>>
        PROVE  Stutters
    <2>1. States' = States
      BY <1>3 DEF States, StateOf
    <2> QED BY <1>3, <2>1, NoMove DEF Stutters
  <1>4. ASSUME NEW w \in Workers,
               \/ Take(w) \/ Validate(w) \/ Prepare(w) \/ ReadSource(w)
               \/ StoreObject(w) \/ CommitNothing(w) \/ PassEnds(w)
        PROVE  Stutters
    BY <1>3, <1>4 DEF Take, Validate, Prepare, ReadSource, StoreObject,
       CommitNothing, PassEnds, requestVars, storeVars, envVars
  <1>5. ASSUME NEW w \in Workers, Commit(w)
        PROVE  Ledger!LedgerNext
    <2>0. PICK r \in Requests : \E n, R : Completes(r, n, R)
      BY <1>5, CommitCompletes
    <2>1. PICK n, R : Completes(r, n, R)
      BY <2>0
    <2>2. row[r].stage \in Stages
      BY RowFields DEF IngestionInv
    <2>3. CASE row[r].stage = "extract"
      BY <2>1, <2>3, ExtractionLedger
    <2>4. CASE row[r].stage = "validate"
      <3>1. R = {}
        BY <2>1, <2>4 DEF Completes
      <3> QED BY <2>1, <2>4, <3>1, ValidationLedger
    <2> QED BY <2>2, <2>3, <2>4 DEF Stages
  <1>6. ASSUME NEW w \in Workers, Claim(w)
        PROVE  Stutters
    BY <1>6, ClaimLedger
  <1>7. ASSUME NEW w \in Workers, FinalizeFailure(w)
        PROVE  Ledger!LedgerNext \/ Stutters
    BY <1>7, FailureLedger
  <1> QED BY <1>1, <1>2, <1>4, <1>5, <1>6, <1>7 DEF Next, Dispatcher

\* Source ingestion keeps its ledger: dispatchers that race, stall, die and
\* retry add to it as if every extraction ran alone and all at once.
THEOREM LedgerKept == Spec => KeepsLedger
  <1>1. Init => Ledger!LedgerInit
    <2> SUFFICES ASSUME Init PROVE Ledger!LedgerInit
      OBVIOUS
    <2>1. \A r \in Requests : StateOf(r) = [stage |-> "validate", is |-> "absent"]
      BY DEF Init, Absent, StateOf
    <2>2. \A b \in Bindings : checkpoint[b].revision = 0 /\ checkpoint[b].cursor = 0
      BY DEF Init
    <2>3. {EntryOf(x) : x \in batches} = {}
      BY DEF Init
    <2>4. Incremental \in BOOLEAN
      BY DEF Incremental
    <2> QED BY <2>1, <2>2, <2>3, <2>4 DEF Ledger!LedgerInit
  <1>2. IngestionInv /\ [Next]_vars => [Ledger!LedgerNext]_(Ledger!ledgerVars)
    <2>1. ASSUME Stutters PROVE UNCHANGED Ledger!ledgerVars
      BY <2>1 DEF Stutters, Ledger!ledgerVars, States, Positions, Entries, Incremental
    <2>2. ASSUME IngestionInv, Next
          PROVE  [Ledger!LedgerNext]_(Ledger!ledgerVars)
      BY <2>1, <2>2, LedgerStep
    <2>3. ASSUME UNCHANGED vars
          PROVE  UNCHANGED Ledger!ledgerVars
      BY <2>3 DEF vars, Ledger!ledgerVars, StateOf, EntryOf, Incremental
    <2> QED BY <2>2, <2>3
  <1> QED BY <1>1, <1>2, IngestionInvariant, PTL DEF Spec, KeepsLedger,
                                                    Ledger!LedgerSpec
=============================================================================
