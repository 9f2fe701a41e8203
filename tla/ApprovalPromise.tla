--------------------------- MODULE ApprovalPromise ---------------------------
(***************************************************************************)
(* What the approval service promises, without transactions, claims or     *)
(* signals: an approval is decided once, the decision alone takes effect,  *)
(* and it is reported delivered only when it did, unless the work that     *)
(* waited for it was cancelled.                                            *)
(***************************************************************************)
CONSTANTS Approvals, Requests, None, Cancelled

VARIABLES decided, effect, outcome

promiseVars == <<decided, effect, outcome>>

PromiseInit ==
    /\ decided = [a \in Approvals |-> None]
    /\ effect = [a \in Approvals |-> None]
    /\ outcome = [a \in Approvals |-> "open"]

Decide(a, req) ==
    /\ decided[a] = None
    /\ decided' = [decided EXCEPT ![a] = req]
    /\ UNCHANGED <<effect, outcome>>

TakeEffect(a) ==
    /\ decided[a] # None
    /\ effect[a] = None
    /\ effect' = [effect EXCEPT ![a] = decided[a]]
    /\ UNCHANGED <<decided, outcome>>

Cancel(a) ==
    /\ effect' = [effect EXCEPT ![a] = Cancelled]
    /\ UNCHANGED <<decided, outcome>>

Settle(a, o) ==
    /\ decided[a] # None
    /\ outcome[a] = "open"
    /\ o = "delivered" => effect[a] \in {decided[a], Cancelled}
    /\ outcome' = [outcome EXCEPT ![a] = o]
    /\ UNCHANGED <<decided, effect>>

PromiseNext ==
    \E a \in Approvals :
        \/ \E req \in Requests : Decide(a, req)
        \/ TakeEffect(a)
        \/ Cancel(a)
        \/ \E o \in {"delivered", "dead_letter"} : Settle(a, o)

PromiseSpec == PromiseInit /\ [][PromiseNext]_promiseVars
=============================================================================
