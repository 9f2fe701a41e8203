-------------------------- MODULE SourceIngestion --------------------------
(***************************************************************************)
(* The governed source-ingestion outbox: requests to validate or extract   *)
(* bound source resources, and the dispatchers that execute them.          *)
(*                                                                         *)
(*   - A request is a row that doubles as its outbox entry.  A dispatcher  *)
(*     claims due rows under a lease and a claim token, and only the       *)
(*     holder of the token may complete, retry or dead-letter the row.     *)
(*   - An extraction renews the lease in a short transaction per binding,  *)
(*     reads the source and stores the payload object with no transaction  *)
(*     open, and records every batch together with the completion in one   *)
(*     fenced transaction.                                                 *)
(*   - S3 and REST extractions continue from the checkpoint of the binding *)
(*     and advance it by compare-and-swap in that same transaction.  Their *)
(*     objects are named by the digest of the payload; the objects of a    *)
(*     PostgreSQL extraction are named by request, binding and generation. *)
(*                                                                         *)
(* A transaction whose writes are guarded by the token is one step: the    *)
(* clock is read before it, but an expiry nobody acted on in between can   *)
(* as well be placed after it.  Time is abstracted: a lease may expire and *)
(* a retry fall due at any moment.  What a source answers, and whether the *)
(* bindings of a request pass their gates (fresh fingerprint, executed     *)
(* credential lease, approved egress), is chosen anew at every check.      *)
(***************************************************************************)
EXTENDS Naturals, FiniteSets, Sequences

CONSTANTS
    Connectors,   \* the connectors that are configured
    Requests,     \* request ids
    Bindings,     \* active source bindings of the connector
    Selections,   \* request -> the set of bindings it names
    Workers,      \* running dispatchers
    Contents,     \* what a read of the source may return
    Cursors,      \* continuations a source may hand out; 0 is "no cursor yet"
    BatchSize,    \* source_ingestion_batch_size
    MaxAttempts,  \* source_ingestion_max_attempts
    MaxCrashes,   \* bound: dispatcher passes that end early
    MaxStalls,    \* bound: leases that expire while their holder still runs
    MaxRequeues   \* bound: requeues of one request

ASSUME IngestionAssumption ==
    /\ Connectors \subseteq {"postgres", "s3", "rest"}
    /\ Selections \in [Requests -> (SUBSET Bindings) \ {{}}]
    /\ Cursors \subseteq Nat
    /\ BatchSize \in Nat \ {0}
    /\ MaxAttempts \in Nat \ {0}
    /\ MaxCrashes \in Nat
    /\ MaxStalls \in Nat
    /\ MaxRequeues \in Nat

VARIABLES
    connector,   \* the connector of the requests and bindings, which is fixed
    row,         \* request -> its row
    tokens,      \* request -> claim tokens issued so far
    timeline,    \* request -> the attempts recorded in its evidence
    audit,       \* request -> lifecycle audit events by type
    checkpoint,  \* binding -> source_checkpoint_revision and cursor
    batches,     \* rows of connector_source_extraction_batches
    objects,     \* payload objects in the object store
    work,        \* worker -> what its dispatcher pass is doing
    crashes,     \* passes that ended early
    stalls       \* leases that expired under a running holder

requestVars == <<row, tokens, timeline, audit>>
storeVars == <<checkpoint, batches, objects>>
envVars == <<connector, crashes, stalls>>
vars == <<connector, row, tokens, timeline, audit, checkpoint, batches,
          objects, work, crashes, stalls>>

-----------------------------------------------------------------------------
(* Data *)

Incremental == connector # "postgres"

Statuses == {"absent", "pending", "dispatching", "completed", "failed",
             "cancelled"}
Stages == {"validate", "extract"}
Rows == [status : Statuses, stage : Stages, attempts : Nat, token : Nat,
         live : BOOLEAN, due : BOOLEAN]

Events == {"requested", "completed", "failed", "requeued", "cancelled"}
Outcomes == {"completed", "retried", "dead_lettered"}
Attempt == [number : Nat, outcome : Outcomes]

\* The name and the payload of an object.  mark is what else the payload
\* binds: the generation of a REST page, the inventory digest of an S3 batch.
Envelope == [rows : Contents, mark : Nat]
Key == [request : Requests, binding : Bindings, generation : Nat]
           \cup [request : Requests, binding : Bindings, digest : Envelope]
Object == [key : Key, envelope : Envelope]

\* What the extraction of one binding starts from, and what it brought back.
Prepared == [binding : Bindings, revision : Nat, from : Nat, generation : Nat]
Result == [binding : Bindings, revision : Nat, from : Nat, to : Nat,
           key : Key, envelope : Envelope]
Batch == [request : Requests, binding : Bindings, revision : Nat, from : Nat,
          to : Nat, key : Key, envelope : Envelope]

Claims == [request : Requests, token : Nat, attempt : Nat]
NoClaim == [request |-> "none", token |-> 0, attempt |-> 0]
Nothing == [binding |-> "none"]
Steps == {"idle", "next", "validate", "extract", "read", "store", "commit",
          "failure"}

\* A pass over the claimed requests: the claims left to process, the one in
\* hand, its bindings left to extract, the extraction in hand, its results.
Work == [pc : Steps, todo : SUBSET Claims, job : Claims \cup {NoClaim},
         left : SUBSET Bindings, hand : Prepared \cup Result \cup {Nothing},
         results : SUBSET Result, permanent : BOOLEAN]

Start(pc, todo, job) ==
    [pc |-> pc, todo |-> todo, job |-> job, left |-> {}, hand |-> Nothing,
     results |-> {}, permanent |-> FALSE]
Idle == Start("idle", {}, NoClaim)

TypeOK ==
    /\ connector \in Connectors
    /\ row \in [Requests -> Rows]
    /\ tokens \in [Requests -> Nat]
    /\ timeline \in [Requests -> Seq(Attempt)]
    /\ audit \in [Requests -> [Events -> Nat]]
    /\ checkpoint \in [Bindings -> [revision : Nat, cursor : Nat]]
    /\ batches \subseteq Batch
    /\ objects \subseteq Object
    /\ work \in [Workers -> Work]
    /\ crashes \in 0 .. MaxCrashes
    /\ stalls \in 0 .. MaxStalls

Absent == [status |-> "absent", stage |-> "validate", attempts |-> 0,
           token |-> 0, live |-> FALSE, due |-> FALSE]

Init ==
    /\ connector \in Connectors
    /\ row = [r \in Requests |-> Absent]
    /\ tokens = [r \in Requests |-> 0]
    /\ timeline = [r \in Requests |-> <<>>]
    /\ audit = [r \in Requests |-> [e \in Events |-> 0]]
    /\ checkpoint = [b \in Bindings |-> [revision |-> 0, cursor |-> 0]]
    /\ batches = {}
    /\ objects = {}
    /\ work = [w \in Workers |-> Idle]
    /\ crashes = 0
    /\ stalls = 0

Goto(w, x) == work' = [work EXCEPT ![w] = x]
Record(r, event) == audit' = [audit EXCEPT ![r][event] = @ + 1]

-----------------------------------------------------------------------------
(* Operators: submit, cancel, requeue *)

\* A new request whose bindings all passed the gates.  Row and audit event
\* share one savepoint under the unique request id, so a racing duplicate
\* loses both; the same ask again, or another under a used id, writes nothing.
Submit(r, stage) ==
    /\ row[r].status = "absent"
    /\ row' = [row EXCEPT ![r] = [Absent EXCEPT !.status = "pending",
                                                !.stage = stage, !.due = TRUE]]
    /\ Record(r, "requested")
    /\ UNCHANGED <<tokens, timeline, storeVars, work, envVars>>

\* The update is fenced on the status; any other status is a conflict or a
\* replay, which write nothing.
MayCancel(r) == row[r].status = "pending"

Cancel(r) ==
    /\ MayCancel(r)
    /\ row' = [row EXCEPT ![r].status = "cancelled"]
    /\ Record(r, "cancelled")
    /\ UNCHANGED <<tokens, timeline, storeVars, work, envVars>>

\* Re-dispatch of a dead-lettered request.  The stored ask (operator, reason
\* and idempotency key) is only compared while the row is pending again, and
\* that comparison writes nothing.
Requeue(r) ==
    /\ row[r].status = "failed"
    /\ audit[r]["requeued"] < MaxRequeues
    /\ row' = [row EXCEPT ![r] = [@ EXCEPT !.status = "pending",
                                           !.attempts = 0, !.due = TRUE]]
    /\ Record(r, "requeued")
    /\ UNCHANGED <<tokens, timeline, storeVars, work, envVars>>

-----------------------------------------------------------------------------
(* The clock *)

\* A worker still has the current claim of the request in its pass.
Attended(r) ==
    \E w \in Workers : \E c \in work[w].todo \cup {work[w].job} :
        c.request = r /\ c.token = row[r].token

\* The claim timeout passes, under a running holder at most MaxStalls times.
LeaseExpires(r) ==
    /\ row[r].status = "dispatching" /\ row[r].live
    /\ Attended(r) => stalls < MaxStalls
    /\ stalls' = IF Attended(r) THEN stalls + 1 ELSE stalls
    /\ row' = [row EXCEPT ![r].live = FALSE]
    /\ UNCHANGED <<tokens, timeline, audit, storeVars, work, connector,
                   crashes>>

\* The backoff, or the provider's Retry-After floor, has passed.
RetryDue(r) ==
    /\ row[r].status = "pending" /\ ~row[r].due
    /\ row' = [row EXCEPT ![r].due = TRUE]
    /\ UNCHANGED <<tokens, timeline, audit, storeVars, work, envVars>>

-----------------------------------------------------------------------------
(* Claiming *)

\* Fault: a claim is never taken over, however old its lease.
ClaimablePendingOnly(r) == row[r].status = "pending" /\ row[r].due

Claimable(r) ==
    \/ row[r].status = "pending" /\ row[r].due
    \/ row[r].status = "dispatching" /\ ~row[r].live

NewToken(r) == tokens[r] + 1

\* One transaction; rows locked by another claimer are skipped, so any
\* non-empty choice of claimable rows up to the batch size may be taken.
Claim(w) ==
    /\ work[w].pc = "idle"
    /\ \E S \in (SUBSET {r \in Requests : Claimable(r)}) \ {{}} :
        /\ Cardinality(S) <= BatchSize
        /\ row' = [r \in Requests |-> IF r \in S
                     THEN [row[r] EXCEPT !.status = "dispatching",
                              !.attempts = @ + 1, !.token = NewToken(r),
                              !.live = TRUE, !.due = FALSE]
                     ELSE row[r]]
        /\ tokens' = [r \in Requests |-> IF r \in S THEN tokens[r] + 1
                                                    ELSE tokens[r]]
        /\ Goto(w, Start("next",
                {[request |-> r, token |-> NewToken(r),
                  attempt |-> row[r].attempts + 1] : r \in S}, NoClaim))
    /\ UNCHANGED <<timeline, audit, storeVars, envVars>>

\* The next claimed request of the pass.  One reclaimed past its final
\* attempt is dead-lettered without another read.
Take(w) ==
    /\ work[w].pc = "next"
    /\ \/ /\ work[w].todo = {}
          /\ Goto(w, Idle)
       \/ \E c \in work[w].todo :
            Goto(w, Start(IF c.attempt > MaxAttempts THEN "failure"
                                                     ELSE "validate",
                          work[w].todo \ {c}, c))
    /\ UNCHANGED <<requestVars, storeVars, envVars>>

-----------------------------------------------------------------------------
(* Processing one request *)

Job(w) == work[w].job
Fail(w, permanent) ==
    Goto(w, [work[w] EXCEPT !.pc = "failure", !.permanent = permanent,
                            !.left = {}, !.hand = Nothing, !.results = {}])
Continue(w) == Goto(w, Start("next", work[w].todo, NoClaim))

\* Fault: any claim will do.
HoldsAnyClaim(w) == row[Job(w).request].status = "dispatching"

\* The fence of every write: the row still carries the token of this claim.
HoldsClaim(w) ==
    /\ row[Job(w).request].status = "dispatching"
    /\ row[Job(w).request].token = Job(w).token

\* The validation stage: pinned fingerprints against current observations.
Validate(w) ==
    /\ work[w].pc = "validate"
    /\ \/ \E permanent \in BOOLEAN : Fail(w, permanent)
       \/ /\ row[Job(w).request].stage = "extract"
          /\ Goto(w, [work[w] EXCEPT !.pc = "extract",
                                     !.left = Selections[Job(w).request]])
       \/ /\ row[Job(w).request].stage = "validate"
          /\ Goto(w, [work[w] EXCEPT !.pc = "commit"])
    /\ UNCHANGED <<requestVars, storeVars, envVars>>

\* The batches already recorded for a binding of the request.
Generation(r, b) ==
    Cardinality({x \in batches : x.request = r /\ x.binding = b})

\* The next binding in its own short transaction: renew the lease or stop,
\* evaluate the gates, note the checkpoint to continue from.
Prepare(w) ==
    /\ work[w].pc = "extract"
    /\ \E b \in work[w].left :
        \/ /\ HoldsClaim(w) /\ row[Job(w).request].live
           /\ Goto(w, [work[w] EXCEPT
                !.pc = "read",
                !.hand = [binding |-> b, revision |-> checkpoint[b].revision,
                          from |-> checkpoint[b].cursor,
                          generation |-> Generation(Job(w).request, b)]])
        \/ \E permanent \in BOOLEAN :
            /\ permanent => HoldsClaim(w) /\ row[Job(w).request].live
            /\ Fail(w, permanent)
    /\ UNCHANGED <<requestVars, storeVars, envVars>>

\* Fault: a REST object is named by its generation.
MutableKey(r, h, e) ==
    [request |-> r, binding |-> h.binding, generation |-> h.generation]

PostgresKey(r, h) ==
    [request |-> r, binding |-> h.binding, generation |-> h.generation]
DigestKey(r, h, e) == [request |-> r, binding |-> h.binding, digest |-> e]

PostgresEnvelope(rows) == [rows |-> rows, mark |-> 0]
S3Envelope(rows, to) == [rows |-> rows, mark |-> to]
RestEnvelope(h, rows) == [rows |-> rows, mark |-> h.revision + 1]

\* What a read brings back: the payload, the name it is stored under and the
\* continuation.  A table is read from the start each time and has none.
PostgresRead(r, h, rows) ==
    [binding |-> h.binding, revision |-> 0, from |-> 0, to |-> 0,
     key |-> PostgresKey(r, h), envelope |-> PostgresEnvelope(rows)]
S3Read(r, h, rows, to) ==
    [binding |-> h.binding, revision |-> h.revision, from |-> h.from, to |-> to,
     key |-> DigestKey(r, h, S3Envelope(rows, to)),
     envelope |-> S3Envelope(rows, to)]
RestRead(r, h, rows, to) ==
    [binding |-> h.binding, revision |-> h.revision, from |-> h.from, to |-> to,
     key |-> DigestKey(r, h, RestEnvelope(h, rows)),
     envelope |-> RestEnvelope(h, rows)]

\* The source is read with no transaction open; it answers, or fails in a way
\* that is worth a retry or not.
ReadSource(w) ==
    /\ work[w].pc = "read"
    /\ \/ \E rows \in Contents, to \in Cursors :
            LET r == Job(w).request
                h == work[w].hand
            IN  Goto(w, [work[w] EXCEPT
                  !.pc = "store",
                  !.hand = CASE connector = "postgres" -> PostgresRead(r, h, rows)
                             [] connector = "s3" -> S3Read(r, h, rows, to)
                             [] connector = "rest" -> RestRead(r, h, rows, to)])
       \/ \E permanent \in BOOLEAN : Fail(w, permanent)
    /\ UNCHANGED <<requestVars, storeVars, envVars>>

\* The object store: the last write under a key stands.
Put(key, envelope) ==
    {o \in objects : o.key # key} \cup {[key |-> key, envelope |-> envelope]}

\* A batch of an incremental source carries the revision it advanced to.
BatchOf(r, x) ==
    [request |-> r, binding |-> x.binding,
     revision |-> IF Incremental THEN x.revision + 1 ELSE 0,
     from |-> x.from, to |-> x.to, key |-> x.key, envelope |-> x.envelope]

\* Fault: every batch is recorded as soon as its object is stored.
StoreAndRecord(w) ==
    /\ work[w].pc = "store"
    /\ objects' = Put(work[w].hand.key, work[w].hand.envelope)
    /\ batches' = batches \cup {BatchOf(Job(w).request, work[w].hand)}
    /\ LET left == work[w].left \ {work[w].hand.binding}
       IN  Goto(w, [work[w] EXCEPT
              !.pc = IF left = {} THEN "commit" ELSE "extract",
              !.left = left, !.hand = Nothing,
              !.results = @ \cup {work[w].hand}])
    /\ UNCHANGED <<requestVars, checkpoint, envVars>>

\* The payload is stored, still with no transaction open and no fence.
StoreObject(w) ==
    /\ work[w].pc = "store"
    /\ \/ /\ objects' = Put(work[w].hand.key, work[w].hand.envelope)
          /\ LET left == work[w].left \ {work[w].hand.binding}
             IN  Goto(w, [work[w] EXCEPT
                    !.pc = IF left = {} THEN "commit" ELSE "extract",
                    !.left = left, !.hand = Nothing,
                    !.results = @ \cup {work[w].hand}])
       \/ /\ UNCHANGED objects
          /\ Fail(w, FALSE)
    /\ UNCHANGED <<requestVars, checkpoint, batches, envVars>>

-----------------------------------------------------------------------------
(* Finishing one request *)

Told(r, n, outcome) ==
    timeline' = [timeline EXCEPT
        ![r] = Append(@, [number |-> n, outcome |-> outcome])]

\* Fault: the checkpoint is set without comparing its revision.
NeverConflicts(x) == FALSE

\* Another request advanced the binding since this one was prepared.
Conflicts(x) == Incremental /\ checkpoint[x.binding].revision # x.revision

\* The checkpoints after the batches of the results are committed.
Advanced(results) ==
    [b \in Bindings |->
        IF Incremental /\ \E x \in results : x.binding = b
        THEN [revision |-> checkpoint[b].revision + 1,
              cursor |-> (CHOOSE x \in results : x.binding = b).to]
        ELSE checkpoint[b]]

\* A completion that records batches also needs an unexpired lease.
MayComplete(w) ==
    /\ HoldsClaim(w)
    /\ row[Job(w).request].stage = "extract" => row[Job(w).request].live

\* The fenced transaction: the completion, the attempt, every batch, every
\* checkpoint and the audit event, or nothing.
Complete(w) ==
    LET r == Job(w).request
    IN  /\ MayComplete(w)
        /\ \A x \in work[w].results : ~Conflicts(x)
        /\ row' = [row EXCEPT ![r] = [@ EXCEPT !.status = "completed",
                                               !.token = 0, !.live = FALSE]]
        /\ Told(r, Job(w).attempt, "completed")
        /\ batches' = batches \cup {BatchOf(r, x) : x \in work[w].results}
        /\ checkpoint' = Advanced(work[w].results)
        /\ Record(r, "completed")

\* The commit succeeds; its acknowledgement may still be lost, which an S3 or
\* REST extraction takes for a failure.
Commit(w) ==
    /\ work[w].pc = "commit"
    /\ Complete(w)
    /\ \/ Continue(w)
       \/ /\ Incremental /\ row[Job(w).request].stage = "extract"
          /\ Fail(w, FALSE)
    /\ UNCHANGED <<tokens, objects, envVars>>

\* Nothing is committed: a validation lost its claim; an extraction lost its
\* claim or its lease, met another checkpoint, or had its grants withdrawn.
CommitNothing(w) ==
    /\ work[w].pc = "commit"
    /\ \/ /\ row[Job(w).request].stage = "validate" /\ ~MayComplete(w)
          /\ Continue(w)
       \/ /\ row[Job(w).request].stage = "extract"
          /\ \/ ~MayComplete(w)
             \/ Incremental
          /\ \E permanent \in BOOLEAN :
                /\ permanent => MayComplete(w)
                /\ Fail(w, permanent)
    /\ UNCHANGED <<requestVars, storeVars, envVars>>

Exhausted(w) == Job(w).attempt >= MaxAttempts
DeadLetter(w) == work[w].permanent \/ Exhausted(w)

FailureStatus(w) == IF DeadLetter(w) THEN "failed" ELSE "pending"

\* Retry later or dead-letter, with the attempt recorded in the same write.
RetryOrDeadLetter(w) ==
    LET r == Job(w).request
    IN  /\ row' = [row EXCEPT ![r] = [@ EXCEPT !.status = FailureStatus(w),
              !.token = 0, !.live = FALSE, !.due = DeadLetter(w)]]
        /\ Told(r, Job(w).attempt,
                IF DeadLetter(w) THEN "dead_lettered" ELSE "retried")
        /\ IF DeadLetter(w) THEN Record(r, "failed") ELSE UNCHANGED audit

\* The failure is recorded only by the holder of the claim.
FinalizeFailure(w) ==
    /\ work[w].pc = "failure"
    /\ IF HoldsClaim(w) THEN RetryOrDeadLetter(w)
                        ELSE UNCHANGED <<row, timeline, audit>>
    /\ Continue(w)
    /\ UNCHANGED <<tokens, storeVars, envVars>>

\* The pass ends early: the process dies, or an exception nobody handles
\* leaves run_once.  Its claims stay until their leases expire.
PassEnds(w) ==
    /\ work[w].pc # "idle"
    /\ crashes < MaxCrashes
    /\ crashes' = crashes + 1
    /\ Goto(w, Idle)
    /\ UNCHANGED <<requestVars, storeVars, connector, stalls>>

-----------------------------------------------------------------------------
(* Specification *)

Operator(r) ==
    \/ \E stage \in Stages : Submit(r, stage)
    \/ Cancel(r)
    \/ Requeue(r)

Clock(r) == LeaseExpires(r) \/ RetryDue(r)

Dispatcher(w) ==
    \/ Claim(w) \/ Take(w) \/ Validate(w) \/ Prepare(w) \/ ReadSource(w)
    \/ StoreObject(w) \/ Commit(w) \/ CommitNothing(w) \/ FinalizeFailure(w)

Next ==
    \/ \E r \in Requests : Operator(r) \/ Clock(r)
    \/ \E w \in Workers : Dispatcher(w) \/ PassEnds(w)

Spec == Init /\ [][Next]_vars

\* The dispatch loop polls for ever, time passes, and a claim whose holder is
\* gone runs out.
Fairness ==
    /\ \A w \in Workers : WF_vars(Dispatcher(w))
    /\ \A r \in Requests : WF_vars(RetryDue(r))
    /\ \A r \in Requests : WF_vars(LeaseExpires(r) /\ stalls' = stalls)

FairSpec == Spec /\ Fairness

-----------------------------------------------------------------------------
(* Properties *)

BatchesOf(r) == {x \in batches : x.request = r}

\* A completed extraction has recorded exactly one batch for every binding it
\* names, and no other request has recorded any: _finalize_success records
\* all the batches with the completion, whatever expired, crashed or was
\* taken over before.
ExtractionIsAllOrNothing ==
    \A r \in Requests :
        IF row[r].status = "completed" /\ row[r].stage = "extract"
        THEN /\ {x.binding : x \in BatchesOf(r)} = Selections[r]
             /\ \A x, y \in BatchesOf(r) : x.binding = y.binding => x = y
        ELSE BatchesOf(r) = {}

\* The object a recorded batch points to holds the payload whose digest the
\* batch records, whoever else is still writing to the store: what
\* reconcile_request_batches reports as a clean match.
RecordedObjectsMatch ==
    \A x \in batches :
        {o.envelope : o \in {p \in objects : p.key = x.key}} = {x.envelope}

\* The row, the attempts on record and the audit events tell one story: a
\* fenced loser adds nothing to any of them.  Between two dead letters the
\* attempts have rising numbers, only one before the last is retried, and a
\* completion comes last and once; the last entry says how the request stands.
\* Every transition is audited once: all dead letters but the standing one
\* were requeued.
HistoryIsTruthful ==
    \A r \in Requests :
        LET h == timeline[r]
        IN  /\ \A i \in 1 .. Len(h) - 1 :
                  /\ h[i].outcome = "retried" => h[i].number < h[i + 1].number
                  /\ h[i].outcome # "completed"
            /\ \A i \in 1 .. Len(h) :
                  h[i].outcome = "retried" => h[i].number < MaxAttempts
            /\ row[r].status = "completed" <=>
                  Len(h) > 0 /\ h[Len(h)].outcome = "completed"
            /\ row[r].status = "failed" =>
                  Len(h) > 0 /\ h[Len(h)].outcome = "dead_lettered"
            /\ audit[r]["requested"] = IF row[r].status = "absent" THEN 0 ELSE 1
            /\ audit[r]["completed"] = IF row[r].status = "completed" THEN 1 ELSE 0
            /\ audit[r]["cancelled"] = IF row[r].status = "cancelled" THEN 1 ELSE 0
            /\ audit[r]["failed"] =
                  audit[r]["requeued"] + IF row[r].status = "failed" THEN 1 ELSE 0

\* Every submitted request is completed, dead-lettered or cancelled in the
\* end, and so is a requeued one: no request stays claimed for ever.
EveryRequestSettles ==
    \A r \in Requests :
        row[r].status \in {"pending", "dispatching"} ~>
            row[r].status \in {"completed", "failed", "cancelled"}

============================================================================
