--------------------------- MODULE MCSourceReads ---------------------------
(***************************************************************************)
(* Finite instances of the three source readers.  They share nothing, so   *)
(* one behaviour exercises one of them.                                    *)
(***************************************************************************)
EXTENDS S3Inventory, RestTraversal, TableRead, TLC

CONSTANTS v1, v2, v3

VARIABLE part

allVars == <<inventoryVars, traversalVars, tableVars, part>>

\* v1 and v2 are the same content under two ETags.
SameContentTwice == v1 :> "c" @@ v2 :> "c" @@ v3 :> "d"
Sizes == "c" :> 1 @@ "d" :> 2

\* An exact conversion; one that falls short of its key, which is then read
\* again; one that is the same text for all of them, past all but the last.
Exact == [k \in PrimaryKeys |-> k]
SomeConversions == {Exact, [k \in PrimaryKeys |-> k - 1], [k \in PrimaryKeys |-> 3]}

Init ==
    /\ part \in {"s3", "rest", "table"}
    /\ InventoryInit
    /\ TraversalInit
    /\ TableInit
    /\ part # "table" => table = [k \in PrimaryKeys |-> 0] /\ rendered = Exact
    /\ part # "s3" => bucket = Nowhere

Next ==
    /\ \/ part = "s3" /\ InventoryNext /\ UNCHANGED <<traversalVars, tableVars>>
       \/ part = "rest" /\ TraversalNext /\ UNCHANGED <<inventoryVars, tableVars>>
       \/ part = "table" /\ TableNext /\ UNCHANGED <<inventoryVars, traversalVars>>
    /\ UNCHANGED part

Spec == Init /\ [][Next]_allVars
FairSpec == Spec /\ (part = "s3" => InventoryFairness)
=============================================================================
