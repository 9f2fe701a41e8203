------------------------- MODULE ApprovalRefinement -------------------------
(***************************************************************************)
(* ApprovalDelivery keeps ApprovalPromise when every approval has a        *)
(* workflow of its own, decisions go through the outbox and nobody uses    *)
(* the boolean signal contract.                                            *)
(***************************************************************************)
EXTENDS ApprovalDelivery

\* The deployment the outbox was built for.
OwnWorkflows ==
    /\ OutboxEnabled = TRUE
    /\ LegacySenders = FALSE
    /\ \A a, b \in Approvals : WorkflowOf[a] = WorkflowOf[b] => a = b

\* What the workflow of an approval does with it.
EffectOf(a) ==
    IF wf[WorkflowOf[a]].status = "cancelled" THEN [decision |-> "cancelled"]
    ELSE IF Effective(WorkflowOf[a]) = NoEvent THEN NoDecision
    ELSE Effective(WorkflowOf[a]).req

OutcomeOf(a) ==
    IF HasRow(a) /\ RowStatus(a) \in Terminal THEN RowStatus(a) ELSE "open"

Promise == INSTANCE ApprovalPromise WITH
    None <- NoDecision,
    Cancelled <- [decision |-> "cancelled"],
    decided <- record,
    effect <- [a \in Approvals |-> EffectOf(a)],
    outcome <- [a \in Approvals |-> OutcomeOf(a)]

\* Handlers, crashing workers, leases, retries and late signals together
\* decide an approval once, let only that decision take effect and report it
\* delivered only when it did.
KeepsPromise == Promise!PromiseSpec
=============================================================================
