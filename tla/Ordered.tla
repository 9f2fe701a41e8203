------------------------------- MODULE Ordered -------------------------------
(***************************************************************************)
(* The order in which a source hands out its items when it sorts by a key. *)
(***************************************************************************)
EXTENDS Naturals, FiniteSets

\* The numbers of a finite set, the smallest first.
Ascending(S) ==
    CHOOSE s \in [1 .. Cardinality(S) -> S] :
        \A i, j \in 1 .. Cardinality(S) : i < j => s[i] < s[j]
=============================================================================
