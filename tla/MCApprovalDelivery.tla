------------------------- MODULE MCApprovalDelivery -------------------------
(***************************************************************************)
(* Finite instances of ApprovalDelivery.                                   *)
(***************************************************************************)
EXTENDS ApprovalRefinement, TLC

CONSTANTS a1, a2, f1, f2, w1, w2, h1, h2, alice, bob

\* One workflow per approval, or one that all approvals share.
OwnWorkflow == [a \in Approvals |-> IF a = a1 THEN f1 ELSE f2]
SharedWorkflow == [a \in Approvals |-> f1]

\* alice asked for every approval and may not decide it herself.
AskedByAlice == [a \in Approvals |-> alice]
MayAllDecide == [a \in Approvals |-> Actors]

ApproveOrReject == {"approve", "reject"}
RejectOnly == {"reject"}

Symmetry == Permutations({w1, w2}) \cup Permutations({h1, h2})
=============================================================================
