---------------------------- MODULE UsageMetering ----------------------------
(***************************************************************************)
(* The usage journal and the period totals that are billed.  A request is  *)
(* journalled before its handler runs and is folded into the total of its  *)
(* bucket later, by the projectors of the API replicas.  A domain event is *)
(* journalled and added to its total in the transaction of its source,     *)
(* which may be tried again.  Transactions are READ COMMITTED.             *)
(*                                                                         *)
(* A client that loses its connection at the commit does not learn the     *)
(* outcome, and the commit may still land later.  Requests and domain      *)
(* events have metrics, hence buckets, of their own.                       *)
(***************************************************************************)
EXTENDS Naturals, FiniteSets, FiniteSetsExt

CONSTANTS
    Requests,       \* authenticated requests, one admission event each
    Charges,        \* domain events with a source identity
    Tries,          \* transactions that record a charge
    Projectors,     \* projection loops
    BucketOf,       \* event -> tenant, metric and period of its total
    Quantity,       \* event -> metered quantity
    ProjectionBatch \* batch size of a projection

ASSUME UsageAssumption ==
    /\ IsFiniteSet(Requests \cup Charges) /\ Requests \cap Charges = {}
    /\ "none" \notin Charges /\ ProjectionBatch \in Nat \ {0}
    /\ \A e \in Requests \cup Charges : Quantity[e] \in Nat \ {0}

VARIABLES
    journal,     \* event -> row of tenant_usage_events
    ledger,      \* bucket -> quantity in tenant_usage
    failureMode, \* fixed: usage_metering_failure_mode
    request,     \* request -> progress through its admission
    dangling,    \* requests whose commit is still under way without them
    charging,    \* try -> the charge it has inserted, or None
    projector    \* projector -> its transaction

usageVars == <<journal, ledger, failureMode, request, dangling, charging, projector>>

Journalled == Requests \cup Charges
Buckets == {BucketOf[e] : e \in Journalled}
None == "none"
NoBatchYet == [pc |-> "idle", seen |-> {}, took |-> {}]

UsageInit ==
    /\ journal = [e \in Journalled |-> "absent"]
    /\ ledger = [b \in Buckets |-> 0]
    /\ failureMode \in {"open", "closed"}
    /\ request = [r \in Requests |-> "arrived"]
    /\ dangling = {}
    /\ charging = [t \in Tries |-> None]
    /\ projector = [p \in Projectors |-> NoBatchYet]

Advance(r, pc) == request' = [request EXCEPT ![r] = pc]

\* add_tenant_usage: the totals with the quantities of some events added.
Added(taken) ==
    [b \in Buckets |-> ledger[b] + MapThenSumSet(LAMBDA e : Quantity[e],
                                       {e \in taken : BucketOf[e] = b})]

-----------------------------------------------------------------------------
(* Admission of a request: RequestUsageAdmissionRecorder.record *)

Admit(r) ==
    /\ request[r] = "arrived"
    /\ journal' = [journal EXCEPT ![r] = "pending"]
    /\ Advance(r, "served")
    /\ UNCHANGED <<ledger, failureMode, dangling, charging, projector>>

\* The append fails, before the server had the commit or after.
AppendBreaks(r, late) ==
    /\ request[r] = "arrived"
    /\ dangling' = IF late THEN dangling \cup {r} ELSE dangling
    /\ Advance(r, "reconcile")
    /\ UNCHANGED <<journal, ledger, failureMode, charging, projector>>

LateCommit(r) ==
    /\ r \in dangling
    /\ journal' \in {journal, [journal EXCEPT ![r] = "pending"]}
    /\ dangling' = dangling \ {r}
    /\ UNCHANGED <<ledger, failureMode, request, charging, projector>>

\* Fault: an append that may have reached the server is taken as recorded.
TrustTheServer(r) == r \in dangling \/ journal[r] # "absent"

\* _event_exists_with_same_payload; a read that fails finds nothing.
EventExists(r) == journal[r] # "absent"

\* Without the event the request is refused, or served when the deployment
\* prefers that to refusing.
Reconcile(r) ==
    /\ request[r] = "reconcile"
    /\ \E found \in {FALSE, EventExists(r)} :
          Advance(r, IF found \/ failureMode = "open" THEN "served" ELSE "refused")
    /\ UNCHANGED <<journal, ledger, failureMode, dangling, charging, projector>>

-----------------------------------------------------------------------------
(* A charge in the transaction of its source: append_tenant_usage_event *)

\* Fault: an identity that another transaction has used is not noticed.
ChargedUnnoticed(e) == TRUE

\* The unique constraint on the source identity of an event.
Uncharged(e) == journal[e] = "absent"

\* The insert waits for another try that holds the identity.  One that is
\* taken is a no-op or, with another payload, an error.
InsertCharge(t, e) ==
    /\ charging[t] = None
    /\ \A u \in Tries : charging[u] # e
    /\ Uncharged(e)
    /\ charging' = [charging EXCEPT ![t] = e]
    /\ UNCHANGED <<journal, ledger, failureMode, request, dangling, projector>>

CommitCharge(t) ==
    /\ charging[t] # None
    /\ journal' = [journal EXCEPT ![charging[t]] = "projected"]
    /\ ledger' = Added({charging[t]})
    /\ charging' = [charging EXCEPT ![t] = None]
    /\ UNCHANGED <<failureMode, request, dangling, projector>>

ChargeFails(t) ==
    /\ charging[t] # None
    /\ charging' = [charging EXCEPT ![t] = None]
    /\ UNCHANGED <<journal, ledger, failureMode, request, dangling, projector>>

-----------------------------------------------------------------------------
(* project_pending_tenant_usage_events *)

\* The snapshot of the claiming statement.
LookForPending(p) ==
    /\ projector[p].pc = "idle"
    /\ LET seen == {e \in Journalled : journal[e] = "pending"}
       IN  /\ seen # {}
           /\ projector' = [projector EXCEPT ![p] =
                               [pc |-> "claim", seen |-> seen, took |-> {}]]
    /\ UNCHANGED <<journal, ledger, failureMode, request, dangling, charging>>

\* Fault: the claim trusts its snapshot.
SeenPending(p, e) == e \in projector[p].seen

\* A row is checked again once its lock is held; locked rows are skipped.
Claimable(p, e) ==
    /\ e \in projector[p].seen
    /\ journal[e] = "pending"
    /\ \A q \in Projectors : e \notin projector[q].took

\* At most a batch is locked and marked; which rows is left open.
ClaimEvents(p) ==
    /\ projector[p].pc = "claim"
    /\ LET free == {e \in Journalled : Claimable(p, e)}
       IN  \E took \in kSubset(Min({ProjectionBatch, Cardinality(free)}), free) :
              projector' = [projector EXCEPT ![p] =
                               [pc |-> "fold", seen |-> {}, took |-> took]]
    /\ UNCHANGED <<journal, ledger, failureMode, request, dangling, charging>>

\* The totals are added to and the marks become visible in one commit.
CommitProjection(p) ==
    /\ projector[p].pc = "fold"
    /\ journal' = [e \in Journalled |->
                      IF e \in projector[p].took THEN "projected" ELSE journal[e]]
    /\ ledger' = Added(projector[p].took)
    /\ projector' = [projector EXCEPT ![p] = NoBatchYet]
    /\ UNCHANGED <<failureMode, request, dangling, charging>>

ProjectionFails(p) ==
    /\ projector[p].pc # "idle"
    /\ projector' = [projector EXCEPT ![p] = NoBatchYet]
    /\ UNCHANGED <<journal, ledger, failureMode, request, dangling, charging>>

UsageNext ==
    \/ \E r \in Requests :
        \/ Admit(r) \/ LateCommit(r) \/ Reconcile(r)
        \/ \E late \in BOOLEAN : AppendBreaks(r, late)
    \/ \E t \in Tries :
        \/ \E e \in Charges : InsertCharge(t, e)
        \/ CommitCharge(t) \/ ChargeFails(t)
    \/ \E p \in Projectors :
        \/ LookForPending(p) \/ ClaimEvents(p)
        \/ CommitProjection(p) \/ ProjectionFails(p)

UsageSpec == UsageInit /\ [][UsageNext]_usageVars

-----------------------------------------------------------------------------
\* However appends break, charges are retried and projectors meet or die, the
\* total of a bucket is exactly what its projected events add up to, each once,
\* and a deployment that fails closed serves no request that it does not bill.
UsageIsExact ==
    /\ \A b \in Buckets :
          ledger[b] = MapThenSumSet(LAMBDA e : Quantity[e],
              {e \in Journalled : BucketOf[e] = b /\ journal[e] = "projected"})
    /\ failureMode = "closed" =>
          \A r \in Requests : request[r] = "served" => journal[r] # "absent"
=============================================================================
