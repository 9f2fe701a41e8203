------------------------------ MODULE LiveSync ------------------------------
(***************************************************************************)
(* Live synchronisation of one connector run.  An attempt claims the last  *)
(* batch checkpoint of the run, executes the batches after it and releases *)
(* the claim: a workflow at a tick of the schedule does, and an operator   *)
(* who calls the same operations through the API, which may overlap.  The  *)
(* activities run in threads; one whose heartbeat or reply is lost is      *)
(* started again while the first may still be at work.  A claim, an        *)
(* execution and a release are one READ COMMITTED transaction each.        *)
(*                                                                         *)
(* The credential lease, the manifest, the egress policy and the source    *)
(* may refuse an execution or fail a batch at any time.  The proposals of  *)
(* a batch are written with its checkpoint and stand for it; the content   *)
(* of a row is left out.                                                   *)
(***************************************************************************)
EXTENDS Naturals, FiniteSets, FiniteSetsExt

CONSTANTS
    MaxSyncAttempts, \* bound: attempts at the run
    Threads,        \* activity threads of the workers
    SourceRows,     \* rows of the source
    RejectedRows,   \* rows that the field mappings reject
    BatchRows,      \* batch size of the plan
    RowLimits,      \* row limits of the plan, capped by the tenant's quota
    MaxDispatches   \* bound: dispatch requests

ASSUME LiveSyncAssumption ==
    /\ MaxSyncAttempts \in Nat
    /\ SourceRows \in Nat /\ BatchRows \in Nat \ {0} /\ MaxDispatches \in Nat
    /\ RejectedRows \subseteq 1 .. SourceRows /\ RowLimits \subseteq Nat \ {0}

VARIABLES
    syncRun,     \* row of connector_runs: status and last execution
    dispatching, \* dispatch requests that have read the run and not committed
    dispatches,  \* dispatch requests so far
    batches,     \* sync_batch rows of connector_sync_checkpoints
    executed,    \* executions with a sync_execution checkpoint
    metered,     \* execution -> rows in its usage event
    claim,       \* attempt -> row of connector_sync_checkpoint_claims
    tick,        \* attempt -> step of its workflow
    thread       \* thread -> activity it runs

syncVars == <<syncRun, dispatching, dispatches, batches, executed, metered,
              claim, tick, thread>>

Attempts == 1 .. MaxSyncAttempts
NoAttempt == 0

NoBatch == [index |-> 0, to |-> 0, total |-> 0, seq |-> 0]
NoClaim == [status |-> "none", on |-> 0, lapsed |-> FALSE]
Unused == [pc |-> "idle", attempt |-> NoAttempt, seed |-> 0, base |-> NoBatch,
           at |-> NoBatch, new |-> {}, limit |-> 0, renewed |-> FALSE,
           stale |-> NoAttempt, outcome |-> "none"]

\* record_demo_connector_run has recorded the run as a scheduled sync.
SyncInit ==
    /\ syncRun = [status |-> "scheduled", exec |-> NoAttempt]
    /\ dispatching = 0
    /\ dispatches = 0
    /\ batches = {}
    /\ executed = {}
    /\ metered = [a \in Attempts |-> 0]
    /\ claim = [a \in Attempts |-> NoClaim]
    /\ tick = [a \in Attempts |-> "waiting"]
    /\ thread = [t \in Threads |-> Unused]

Runs(t, w) == thread' = [thread EXCEPT ![t] = w]
Goes(a, stage) == tick' = [tick EXCEPT ![a] = stage]

\* The answer of an activity moves only the workflow that waits for it.
Answers(a, stage, next) ==
    tick' = IF tick[a] = stage THEN [tick EXCEPT ![a] = next] ELSE tick

\* get_latest_connector_sync_checkpoint: the highest sequence.
LatestBatch ==
    IF batches = {} THEN NoBatch
    ELSE CHOOSE b \in batches : \A c \in batches : c.seq <= b.seq

-----------------------------------------------------------------------------
(* dispatch_demo_connector_sync *)

BeginDispatch ==
    /\ dispatches < MaxDispatches
    /\ syncRun.status = "scheduled"
    /\ dispatching' = dispatching + 1
    /\ dispatches' = dispatches + 1
    /\ UNCHANGED <<syncRun, batches, executed, metered, claim, tick, thread>>

\* The row and its summary are written whole, from what was read before.
CommitDispatch ==
    /\ dispatching > 0
    /\ syncRun' = [status |-> "dispatched", exec |-> NoAttempt]
    /\ dispatching' = dispatching - 1
    /\ UNCHANGED <<dispatches, batches, executed, metered, claim, tick, thread>>

-----------------------------------------------------------------------------
(* claim_connector_sync_checkpoint, renewal and release *)

\* list_scheduled_live_sync_candidates; attempts are numbered as they start.
ListCandidate(a) ==
    /\ tick[a] = "waiting" /\ \A b \in 1 .. a - 1 : tick[b] # "waiting"
    /\ syncRun.status \in {"dispatched", "failed"}
    /\ Goes(a, "claim")
    /\ UNCHANGED <<syncRun, dispatching, dispatches, batches, executed, metered,
                   claim, thread>>

ActiveOn(k) == {a \in Attempts : claim[a].status = "claimed" /\ claim[a].on = k}

\* A fresh run needs no claim and a claim of the attempt is answered again; an
\* active one is a conflict.  A lapsed one is to be expired and replaced.
BeginClaim(t, a) ==
    /\ tick[a] = "claim" /\ thread[t].pc = "idle"
    /\ LET k == LatestBatch.index
       IN  IF batches = {} THEN Goes(a, "fresh") /\ UNCHANGED thread
           ELSE IF claim[a].on = k THEN Goes(a, "claimed") /\ UNCHANGED thread
           ELSE IF \E b \in ActiveOn(k) : ~claim[b].lapsed
                THEN Goes(a, "done") /\ UNCHANGED thread
           ELSE \E stale \in IF ActiveOn(k) = {} THEN {NoAttempt} ELSE ActiveOn(k) :
                    /\ Runs(t, [Unused EXCEPT !.pc = "claiming", !.attempt = a,
                                   !.base = LatestBatch, !.stale = stale])
                    /\ UNCHANGED tick
    /\ UNCHANGED <<syncRun, dispatching, dispatches, batches, executed, metered,
                   claim>>

\* A claim row that an open execution has renewed is locked.
ClaimFree(a) == \A u \in Threads : thread[u].renewed => thread[u].attempt # a

\* Commit of the expiry and of the claim, under the unique constraints on the
\* claim id and on the active claim of a checkpoint.  The loser rolls back.
CommitClaim(t) ==
    /\ thread[t].pc = "claiming"
    /\ LET a == thread[t].attempt
           stale == thread[t].stale
           k == thread[t].base.index
       IN  /\ stale # NoAttempt => ClaimFree(stale)
           /\ IF ActiveOn(k) \ {stale} = {} /\ claim[a] = NoClaim
              THEN /\ claim' = [b \in Attempts |->
                         IF b = a THEN [status |-> "claimed", on |-> k, lapsed |-> FALSE]
                         ELSE IF b = stale THEN [claim[b] EXCEPT !.status = "expired"]
                         ELSE claim[b]]
                   /\ Answers(a, "claim", "claimed")
              ELSE UNCHANGED <<claim, tick>>
    /\ Runs(t, Unused)
    /\ UNCHANGED <<syncRun, dispatching, dispatches, batches, executed, metered>>

LeaseLapses(a) ==
    /\ claim[a].status = "claimed" /\ ~claim[a].lapsed
    /\ claim' = [claim EXCEPT ![a].lapsed = TRUE]
    /\ UNCHANGED <<syncRun, dispatching, dispatches, batches, executed, metered,
                   tick, thread>>

\* Only a claim that is still active is released.
ReleaseClaim(a) ==
    /\ tick[a] = "release" /\ ClaimFree(a)
    /\ claim' = IF claim[a].status = "claimed"
                THEN [claim EXCEPT ![a].status = "released"] ELSE claim
    /\ Goes(a, "done")
    /\ UNCHANGED <<syncRun, dispatching, dispatches, batches, executed, metered,
                   thread>>

\* Where the workflow goes after the execution, or when its retries are spent.
AfterExecution(a) == IF tick[a] = "claimed" THEN "release" ELSE "done"

GiveUp(a) ==
    /\ tick[a] \in {"fresh", "claimed"}
    /\ Goes(a, AfterExecution(a))
    /\ UNCHANGED <<syncRun, dispatching, dispatches, batches, executed, metered,
                   claim, thread>>

-----------------------------------------------------------------------------
(* execute_demo_connector_sync *)

\* Fault: a resumed execution is metered from the first row.
SeedOfNothing == 0

\* _live_sync_resume_records_seed, read before the attempt.
ResumeSeed == LatestBatch.total

\* An execution on record is answered again; another one bars this one unless
\* it failed; the run must be dispatched or failed.
Replays(a) == syncRun.exec = a
Executable(a) ==
    /\ syncRun.exec # NoAttempt => syncRun.status = "failed"
    /\ syncRun.status \in {"dispatched", "failed"}

\* A claim whose lease is about to end is renewed in the same transaction.
MayRenew(a) ==
    IF tick[a] # "claimed" THEN {FALSE}
    ELSE IF claim[a].lapsed THEN {TRUE} ELSE BOOLEAN

Blocked(t, a) ==
    /\ Answers(a, tick[a], AfterExecution(a))
    /\ Runs(t, Unused)

\* The checks before the plan, which may be refused or fail.
BeginExecution(t, a) ==
    /\ tick[a] \in {"fresh", "claimed"} /\ thread[t].pc = "idle"
    /\ \E renew \in MayRenew(a) :
        /\ renew => claim[a].status = "claimed" /\ ClaimFree(a)
        /\ IF Replays(a) \/ ~Executable(a)
           THEN /\ Blocked(t, a)
                /\ claim' = IF renew THEN [claim EXCEPT ![a].lapsed = FALSE] ELSE claim
           ELSE \E outcome \in {"none", "failed", "blocked"}, limit \in RowLimits :
                    /\ Runs(t, [Unused EXCEPT
                           !.pc = IF outcome = "none" THEN "planned" ELSE "persist",
                           !.attempt = a, !.seed = ResumeSeed, !.limit = limit,
                           !.renewed = renew, !.outcome = outcome])
                    /\ UNCHANGED <<claim, tick>>
    /\ UNCHANGED <<syncRun, dispatching, dispatches, batches, executed, metered>>

\* _validate_live_sync_resume_claim, on the latest checkpoint.
HoldsClaim(t) ==
    LET c == claim[thread[t].attempt]
    IN  /\ c.status = "claimed" /\ c.on = LatestBatch.index
        /\ c.lapsed => thread[t].renewed

\* The claim that the transaction renewed, once it commits.
Renewed(t) ==
    IF thread[t].renewed THEN [claim EXCEPT ![thread[t].attempt].lapsed = FALSE]
    ELSE claim

\* The latest checkpoint is read again; a run with batches needs the claim.
Resume(t) ==
    /\ thread[t].pc = "planned"
    /\ IF batches # {} /\ ~HoldsClaim(t)
       THEN claim' = Renewed(t) /\ Blocked(t, thread[t].attempt)
       ELSE /\ Runs(t, [thread[t] EXCEPT !.pc = "looping", !.base = LatestBatch,
                  !.at = [LatestBatch EXCEPT !.seq = Cardinality(batches)
                                                     + Cardinality(executed)]])
            /\ UNCHANGED <<claim, tick>>
    /\ UNCHANGED <<syncRun, dispatching, dispatches, batches, executed, metered>>

Accepted(from, to) == Cardinality((from + 1) .. to \ RejectedRows)

\* Fault: the execution is part of the identity of a batch checkpoint.
BatchNeverTaken(i) == FALSE

\* The unique constraint on the checkpoint id of a batch.
BatchTaken(i) == \E b \in batches : b.index = i

\* One batch: the source is read, then the checkpoint is inserted, which waits
\* for a competitor and fails the transaction when that one has committed.
ReadBatch(t) ==
    /\ thread[t].pc = "looping" /\ thread[t].at.to < thread[t].limit
    /\ LET w == thread[t]
           size == Min({BatchRows, w.limit - w.at.to})
           to == Min({w.at.to + size, SourceRows})
           b == [index |-> w.at.index + 1, to |-> to,
                 total |-> w.at.total + Accepted(w.at.to, to), seq |-> w.at.seq + 1]
       IN  IF BatchTaken(b.index) THEN Runs(t, Unused)
           ELSE /\ \A u \in Threads \ {t} : \A c \in thread[u].new : c.index # b.index
                /\ \E exhausted \in IF to - w.at.to < size THEN {TRUE}
                                    ELSE {FALSE, to = SourceRows} :
                     Runs(t, [w EXCEPT !.at = b, !.new = @ \cup {b},
                        !.pc = IF exhausted THEN "persist" ELSE "looping",
                        !.outcome = IF exhausted THEN "completed" ELSE "none"])
    /\ UNCHANGED <<syncRun, dispatching, dispatches, batches, executed, metered,
                   claim, tick>>

\* The row limit is reached, or the lease, the source or a bound ends the loop.
EndLoop(t) ==
    /\ thread[t].pc = "looping"
    /\ Runs(t, [thread[t] EXCEPT !.pc = "persist",
           !.outcome = IF thread[t].at.to >= thread[t].limit THEN "completed"
                       ELSE "failed"])
    /\ UNCHANGED <<syncRun, dispatching, dispatches, batches, executed, metered,
                   claim, tick>>

\* _persist_sync_execution_outcome and the commit of the whole execution.  An
\* execution id that has a checkpoint already fails the transaction.
PersistOutcome(t) ==
    /\ thread[t].pc = "persist"
    /\ LET w == thread[t]
           a == w.attempt
       IN  IF a \in executed THEN UNCHANGED <<syncRun, batches, executed, metered,
                                              claim, tick>>
           ELSE /\ batches' = batches \cup w.new
                /\ executed' = executed \cup {a}
                /\ syncRun' = [status |-> w.outcome, exec |-> a]
                /\ metered' = IF w.at.total > w.seed
                              THEN [metered EXCEPT ![a] = w.at.total - w.seed]
                              ELSE metered
                /\ claim' = Renewed(t)
                /\ IF tick[a] \in {"fresh", "claimed"}
                   THEN Goes(a, AfterExecution(a)) ELSE UNCHANGED tick
    /\ Runs(t, Unused)
    /\ UNCHANGED <<dispatching, dispatches>>

\* The activity fails or its worker dies: the transaction is rolled back.
ThreadDies(t) ==
    /\ thread[t].pc # "idle"
    /\ Runs(t, Unused)
    /\ UNCHANGED <<syncRun, dispatching, dispatches, batches, executed, metered,
                   claim, tick>>

SyncNext ==
    \/ BeginDispatch \/ CommitDispatch
    \/ \E a \in Attempts :
        \/ ListCandidate(a) \/ LeaseLapses(a) \/ ReleaseClaim(a) \/ GiveUp(a)
        \/ \E t \in Threads : BeginClaim(t, a) \/ BeginExecution(t, a)
    \/ \E t \in Threads :
        \/ CommitClaim(t) \/ Resume(t) \/ ReadBatch(t) \/ EndLoop(t)
        \/ PersistOutcome(t) \/ ThreadDies(t)

SyncSpec == SyncInit /\ [][SyncNext]_syncVars

-----------------------------------------------------------------------------
\* However executions of a run overlap, die, are retried and lose their claim,
\* the committed batches cover the source without gap or overlap, the highest
\* sequence is the furthest batch, and what the executions metered together is
\* each accepted row of those batches once.
RowsAreMeteredOnce ==
    /\ {b.index : b \in batches} = 1 .. Cardinality(batches)
    /\ \A b \in batches : b.to <= LatestBatch.to /\ b.total = Accepted(0, b.to)
    /\ MapThenSumSet(LAMBDA a : metered[a], Attempts) = Accepted(0, LatestBatch.to)
=============================================================================
