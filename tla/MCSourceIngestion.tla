------------------------- MODULE MCSourceIngestion -------------------------
(***************************************************************************)
(* Finite instances of SourceIngestion.                                    *)
(***************************************************************************)
EXTENDS IngestionRefinement, TLC

CONSTANTS q1, q2, b1, b2, w1, w2

\* One request over one binding, or over two.
OneBinding == [r \in Requests |-> {b1}]
TwoBindings == [r \in Requests |-> {b1, b2}]

\* Two requests that share a binding, the first with another one as well.
Overlapping == q1 :> {b1, b2} @@ q2 :> {b1}

Symmetry == Permutations(Workers)
============================================================================
