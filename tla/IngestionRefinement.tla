------------------------ MODULE IngestionRefinement ------------------------
(***************************************************************************)
(* SourceIngestion keeps IngestionLedger, whatever the connector.          *)
(***************************************************************************)
EXTENDS SourceIngestion

\* Pending and claimed requests are open alike.
StateOf(r) ==
    [stage |-> row[r].stage,
     is |-> CASE row[r].status \in {"pending", "dispatching"} -> "open"
              [] row[r].status = "completed" -> "done"
              [] row[r].status \in {"absent", "failed", "cancelled"} ->
                     row[r].status]

EntryOf(x) ==
    [request |-> x.request, binding |-> x.binding, number |-> x.revision,
     from |-> x.from, to |-> x.to, payload |-> x.envelope.rows]

Ledger == INSTANCE IngestionLedger WITH
    Payloads <- Contents,
    Marks <- Cursors,
    chained <- Incremental,
    state <- [r \in Requests |-> StateOf(r)],
    mark <- [b \in Bindings |-> [count |-> checkpoint[b].revision,
                                 at |-> checkpoint[b].cursor]],
    ledger <- {EntryOf(x) : x \in batches}

\* Dispatchers that race, stall, die and retry together write the ledger as if
\* every extraction ran alone and all at once.
KeepsLedger == Ledger!LedgerSpec
=============================================================================
