----------------------------- MODULE BatchExport -----------------------------
(***************************************************************************)
(* Exports of the batch envelopes of one ingestion request: asked for,     *)
(* decided, written to the object store and read back.  Every operation is *)
(* one READ COMMITTED transaction.  A decision and a materialisation read  *)
(* the row and later pass a fence, an UPDATE that tests the row again as   *)
(* it locks it; the artifact is put between the fence and the commit.      *)
(*                                                                         *)
(* The evidence of a request is its recorded batches: none until it        *)
(* completes, then all.  Its version stands for the envelope checksum; an  *)
(* artifact carries the moment of its generation, so that no two attempts  *)
(* have one digest.  The approval record, which the same transactions      *)
(* create and decide, and the audit event of a read are left out.          *)
(***************************************************************************)
EXTENDS Naturals, FiniteSets

CONSTANTS
    Exports,        \* ids of export requests
    ExportKeys,     \* their idempotency keys
    ExportAsks,     \* what may be asked: reason, owner, approval
    DecisionAsks,   \* decisions, each with its actor and note
    Approving,      \* the asks among them that approve
    ArtifactAsks,   \* materialisations: id and idempotency key
    Handlers,       \* threads that handle requests
    MaxArtifacts    \* bound: attempts to materialise

ASSUME ExportAssumption ==
    /\ Approving \subseteq DecisionAsks
    /\ "none" \notin ExportKeys \cup DecisionAsks
    /\ MaxArtifacts \in Nat

VARIABLES
    evidence,   \* version of the batches on record
    export,     \* id -> row of connector_source_batch_export_requests
    trail,      \* id -> its audit events, counted by operation
    object,     \* storage key -> what the object store has there
    handler,    \* thread -> its transaction
    attempts,   \* history: artifacts generated
    confirmed,  \* operation -> replies: an export that carries what was asked
    served,     \* artifacts handed to a reader
    puts,       \* history: export -> writes to the object store
    disturbed   \* history: a transaction died after its fence

exportVars == <<evidence, export, trail, object, handler, attempts, confirmed,
                served, puts, disturbed>>
exportRows == <<evidence, export, trail, object, attempts, confirmed, served,
                puts, disturbed>>

Nil == "none"
NoArtifact == [ask |-> <<Nil, Nil>>, evidence |-> 0, at |-> 0]
NoExport == [key |-> Nil, ask |-> Nil, evidence |-> 0, decision |-> Nil,
             artifact |-> NoArtifact]
NoHandler == [pc |-> "idle", export |-> Nil, row |-> NoExport, holds |-> FALSE]
ExportOps == {"request", "decide", "write"}
StorageKeys == Exports \X {m[1] : m \in ArtifactAsks}

ExportInit ==
    /\ evidence = 0
    /\ export = [e \in Exports |-> NoExport]
    /\ trail = [e \in Exports |-> [op \in ExportOps |-> 0]]
    /\ object = [s \in StorageKeys |-> NoArtifact]
    /\ handler = [h \in Handlers |-> NoHandler]
    /\ attempts = 0
    /\ confirmed = [op \in ExportOps |-> {}]
    /\ served = {}
    /\ puts = [e \in Exports |-> 0]
    /\ disturbed = FALSE

Becomes(h, state) == handler' = [handler EXCEPT ![h] = state]

\* The ask a row carries for one of the three operations on an export.
AskIn(row, op) ==
    CASE op = "request" -> row.ask
      [] op = "decide"  -> row.decision
      [] op = "write"   -> row.artifact.ask

\* What is on record is confirmed to the client that asked for the same;
\* another ask is a conflict.
AnswerAsk(h, e, op, ask) ==
    /\ confirmed' = IF AskIn(export[e], op) = ask
                    THEN [confirmed EXCEPT ![op] = @ \cup {<<e, ask>>}] ELSE confirmed
    /\ Becomes(h, NoHandler)
    /\ UNCHANGED <<evidence, export, trail, object, attempts, served, puts, disturbed>>

\* The row is not locked by another transaction.
RowFree(h, e) == \A g \in Handlers \ {h} : ~(handler[g].holds /\ handler[g].export = e)

\* The ingestion request completes.
RecordEvidence ==
    /\ evidence = 0 /\ evidence' = 1
    /\ UNCHANGED <<export, trail, object, handler, attempts, confirmed, served, puts, disturbed>>

-----------------------------------------------------------------------------
(* Request: record_connector_source_batch_export_request *)

WithKey(k) == {e \in Exports : export[e].key = k}

AskForExport(h, e, k, ask) ==
    /\ handler[h].pc = "idle"
    /\ IF WithKey(k) # {} THEN \E x \in WithKey(k) : AnswerAsk(h, x, "request", ask)
       ELSE /\ export[e] = NoExport
            /\ Becomes(h, [NoHandler EXCEPT !.pc = "insert", !.export = e,
                  !.row = [NoExport EXCEPT !.key = k, !.ask = ask,
                                           !.evidence = evidence]])
            /\ UNCHANGED exportRows

\* The insert waits for an open one with the same id or key, and a unique
\* violation is answered with the row that took the key or, failing that,
\* the id.
InsertExport(h) ==
    /\ handler[h].pc = "insert"
    /\ LET e == handler[h].export
           row == handler[h].row
           raced == IF WithKey(row.key) # {} THEN WithKey(row.key)
                    ELSE {x \in {e} : export[x] # NoExport}
       IN  /\ \A g \in Handlers \ {h} : handler[g].holds =>
                 handler[g].export # e /\ handler[g].row.key # row.key
           /\ IF raced # {} THEN \E x \in raced : AnswerAsk(h, x, "request", row.ask)
              ELSE /\ Becomes(h, [handler[h] EXCEPT !.pc = "request", !.holds = TRUE])
                   /\ UNCHANGED exportRows

-----------------------------------------------------------------------------
(* Decision: decide_connector_source_batch_export_request *)

ReadForDecision(h, e, ask) ==
    /\ handler[h].pc = "idle" /\ export[e] # NoExport
    /\ IF export[e].decision # Nil THEN AnswerAsk(h, e, "decide", ask)
       ELSE /\ Becomes(h, [NoHandler EXCEPT !.pc = "fence_decision", !.export = e,
                              !.row = [export[e] EXCEPT !.decision = ask]])
            /\ UNCHANGED exportRows

\* WHERE decision IS NULL
Undecided(e) == export[e].decision = Nil

FenceDecision(h) ==
    /\ handler[h].pc = "fence_decision" /\ RowFree(h, handler[h].export)
    /\ IF Undecided(handler[h].export)
       THEN /\ Becomes(h, [handler[h] EXCEPT !.pc = "decide", !.holds = TRUE])
            /\ UNCHANGED exportRows
       ELSE AnswerAsk(h, handler[h].export, "decide", handler[h].row.decision)

-----------------------------------------------------------------------------
(* Artifact: materialize_connector_source_batch_export_request *)

EvidenceUnchanged(e) == evidence = export[e].evidence

ReadForArtifact(h, e, ask) ==
    /\ handler[h].pc = "idle" /\ export[e] # NoExport
    /\ IF export[e].artifact # NoArtifact THEN AnswerAsk(h, e, "write", ask)
       ELSE /\ export[e].decision \in Approving /\ EvidenceUnchanged(e)
            /\ attempts < MaxArtifacts
            /\ attempts' = attempts + 1
            /\ Becomes(h, [NoHandler EXCEPT !.pc = "fence_artifact", !.export = e,
                  !.row = [export[e] EXCEPT !.artifact =
                     [ask |-> ask, evidence |-> evidence, at |-> attempts + 1]]])
            /\ UNCHANGED <<evidence, export, trail, object, confirmed, served, puts, disturbed>>

\* Fault: the update does not test the artifact again.
AnyArtifact(e) == TRUE

\* WHERE storage_status = 'not_written' AND materialization_id IS NULL
NotWritten(e) == export[e].artifact = NoArtifact

FenceArtifact(h) ==
    /\ handler[h].pc = "fence_artifact" /\ RowFree(h, handler[h].export)
    /\ IF NotWritten(handler[h].export)
       THEN /\ Becomes(h, [handler[h] EXCEPT !.pc = "put", !.holds = TRUE])
            /\ UNCHANGED exportRows
       ELSE AnswerAsk(h, handler[h].export, "write", handler[h].row.artifact.ask)

\* put_json, in the open transaction; one that is gone is noticed after it.
PutArtifact(h) ==
    /\ handler[h].pc = "put"
    /\ LET e == handler[h].export
           artifact == handler[h].row.artifact
       IN  /\ object' = [object EXCEPT ![<<e, artifact.ask[1]>>] = artifact]
           /\ puts' = [puts EXCEPT ![e] = @ + 1]
    /\ Becomes(h, IF handler[h].holds THEN [handler[h] EXCEPT !.pc = "write"]
                  ELSE NoHandler)
    /\ UNCHANGED <<evidence, export, trail, attempts, confirmed, served, disturbed>>

-----------------------------------------------------------------------------
(* The end of a transaction *)

\* The columns an operation sets, with its audit event.
CommitExport(h) ==
    /\ handler[h].pc \in ExportOps
    /\ LET e == handler[h].export
           row == handler[h].row
           op == handler[h].pc
       IN  /\ export' = [export EXCEPT ![e] =
                 CASE op = "request" -> row
                   [] op = "decide"  -> [@ EXCEPT !.decision = row.decision]
                   [] op = "write"   -> [@ EXCEPT !.artifact = row.artifact]]
           /\ trail' = [trail EXCEPT ![e][op] = @ + 1]
           /\ confirmed' = [confirmed EXCEPT ![op] = @ \cup {<<e, AskIn(row, op)>>}]
    /\ Becomes(h, NoHandler)
    /\ UNCHANGED <<evidence, object, attempts, served, puts, disturbed>>

\* The server drops the transaction; the thread still has its put ahead.
ConnectionLost(h) ==
    /\ handler[h].pc = "put" /\ handler[h].holds
    /\ Becomes(h, [handler[h] EXCEPT !.holds = FALSE])
    /\ disturbed' = TRUE
    /\ UNCHANGED <<evidence, export, trail, object, attempts, confirmed, served, puts>>

\* The request fails or its process dies: the transaction is rolled back, an
\* object that was put stays.
RequestFails(h) ==
    /\ handler[h].pc # "idle"
    /\ Becomes(h, NoHandler)
    /\ disturbed' = (disturbed \/ handler[h].pc = "write")
    /\ UNCHANGED <<evidence, export, trail, object, attempts, confirmed, served, puts>>

-----------------------------------------------------------------------------
(* Read back: read_connector_source_batch_export_artifact *)

OpenArtifact(h, e) ==
    /\ handler[h].pc = "idle" /\ export[e].artifact # NoArtifact
    /\ Becomes(h, [NoHandler EXCEPT !.pc = "serve", !.export = e, !.row = export[e]])
    /\ UNCHANGED exportRows

\* Fault: what is stored is taken for what was recorded.
AnyDigest(artifact, stored) == TRUE

DigestMatches(artifact, stored) == stored = artifact

ServeArtifact(h) ==
    /\ handler[h].pc = "serve"
    /\ LET artifact == handler[h].row.artifact
           stored == object[<<handler[h].export, artifact.ask[1]>>]
       IN  served' = IF DigestMatches(artifact, stored)
                     THEN served \cup {[export |-> handler[h].export, artifact |-> stored]}
                     ELSE served
    /\ Becomes(h, NoHandler)
    /\ UNCHANGED <<evidence, export, trail, object, attempts, confirmed, puts, disturbed>>

ExportNext ==
    \/ RecordEvidence
    \/ \E h \in Handlers :
        \/ InsertExport(h) \/ FenceDecision(h) \/ FenceArtifact(h) \/ PutArtifact(h)
        \/ CommitExport(h) \/ ConnectionLost(h) \/ RequestFails(h) \/ ServeArtifact(h)
        \/ \E e \in Exports :
            \/ \E k \in ExportKeys, ask \in ExportAsks : AskForExport(h, e, k, ask)
            \/ \E ask \in DecisionAsks : ReadForDecision(h, e, ask)
            \/ \E ask \in ArtifactAsks : ReadForArtifact(h, e, ask)
            \/ OpenArtifact(h, e)

ExportSpec == ExportInit /\ [][ExportNext]_exportVars

-----------------------------------------------------------------------------
\* What leaves the platform is what was approved: a recorded artifact belongs
\* to an approved export and holds the evidence its approvers were shown, and
\* a reader gets the recorded artifact, byte for byte, or nothing - though a
\* thread that lost its transaction may put another one over it.
ArtifactIsAsApproved ==
    /\ \A e \in Exports : export[e].artifact # NoArtifact =>
          /\ export[e].decision \in Approving
          /\ export[e].artifact.evidence = export[e].evidence
          /\ ~disturbed => object[<<e, export[e].artifact.ask[1]>>] = export[e].artifact
    /\ \A s \in served : s.artifact = export[s.export].artifact

\* An export is requested, decided and written once, whoever races: one audit
\* event per transition on the row, one write to the object store unless a
\* transaction died after its fence, and nobody is told of an ask that is not
\* the one on record.
TransitionsHappenOnce ==
    /\ \A e \in Exports :
          /\ trail[e]["request"] = IF export[e] = NoExport THEN 0 ELSE 1
          /\ trail[e]["decide"] = IF export[e].decision = Nil THEN 0 ELSE 1
          /\ trail[e]["write"] = IF export[e].artifact = NoArtifact THEN 0 ELSE 1
          /\ ~disturbed => puts[e] <= 1
    /\ \A op \in ExportOps : \A reply \in confirmed[op] :
          AskIn(export[reply[1]], op) = reply[2]
=============================================================================
