--------------------------- MODULE IngestionLedger ---------------------------
(***************************************************************************)
(* What source ingestion promises, without claims, leases, workers or      *)
(* stores: a request is open until it is done, given up or cancelled, and  *)
(* an extraction that is done has added one entry for each of its bindings *)
(* to the ledger, all at once and each from where the ledger of that       *)
(* binding had ended.  A source that is read whole each time has no mark.  *)
(***************************************************************************)
EXTENDS Naturals

CONSTANTS Requests, Bindings, Selections, Payloads, Marks

VARIABLES
    chained, \* whether the source is read from mark to mark
    state,   \* request -> its stage and whether it is open
    mark,    \* binding -> entries so far and where the last one ended
    ledger   \* the entries

ledgerVars == <<chained, state, mark, ledger>>

LedgerInit ==
    /\ chained \in BOOLEAN
    /\ state = [r \in Requests |-> [stage |-> "validate", is |-> "absent"]]
    /\ mark = [b \in Bindings |-> [count |-> 0, at |-> 0]]
    /\ ledger = {}

Open(r, stage) ==
    /\ state[r].is = "absent"
    /\ state' = [state EXCEPT ![r] = [stage |-> stage, is |-> "open"]]
    /\ UNCHANGED <<mark, ledger>>

Move(r, before, after) ==
    /\ state[r].is = before
    /\ state' = [state EXCEPT ![r].is = after]

CloseValidation(r) ==
    /\ state[r].stage = "validate"
    /\ Move(r, "open", "done")
    /\ UNCHANGED <<mark, ledger>>

Entry(r, b, payload, to) ==
    IF chained
    THEN [request |-> r, binding |-> b, number |-> mark[b].count + 1,
          from |-> mark[b].at, to |-> to, payload |-> payload]
    ELSE [request |-> r, binding |-> b, number |-> 0, from |-> 0, to |-> 0,
          payload |-> payload]

CloseExtraction(r) ==
    /\ state[r].stage = "extract"
    /\ Move(r, "open", "done")
    /\ \E payload \in [Selections[r] -> Payloads],
          to \in [Selections[r] -> Marks] :
        /\ ledger' = ledger \cup
              {Entry(r, b, payload[b], to[b]) : b \in Selections[r]}
        /\ mark' = [b \in Bindings |->
              IF chained /\ b \in Selections[r]
              THEN [count |-> mark[b].count + 1, at |-> to[b]]
              ELSE mark[b]]

GiveUp(r) == Move(r, "open", "failed") /\ UNCHANGED <<mark, ledger>>
Reopen(r) == Move(r, "failed", "open") /\ UNCHANGED <<mark, ledger>>
Withdraw(r) == Move(r, "open", "cancelled") /\ UNCHANGED <<mark, ledger>>

LedgerNext ==
    /\ \E r \in Requests :
        \/ \E stage \in {"validate", "extract"} : Open(r, stage)
        \/ CloseValidation(r) \/ CloseExtraction(r)
        \/ GiveUp(r) \/ Reopen(r) \/ Withdraw(r)
    /\ UNCHANGED chained

LedgerSpec == LedgerInit /\ [][LedgerNext]_ledgerVars
=============================================================================
