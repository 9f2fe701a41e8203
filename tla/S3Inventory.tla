----------------------------- MODULE S3Inventory -----------------------------
(***************************************************************************)
(* Incremental reads of an S3 prefix.  The checkpoint of the binding is an *)
(* inventory of the objects recorded so far.  A read lists the prefix,     *)
(* compares the listing with the inventory and emits records: an absence   *)
(* for an object that is gone, the content of one that is new or changed.  *)
(* It stops at its record or byte limit and the next read goes on from the *)
(* inventory it left.  The bucket changes all the while, also between the  *)
(* keys of a listing, and reads may race for the checkpoint.               *)
(***************************************************************************)
EXTENDS Naturals, Sequences, FiniteSets, Ordered

CONSTANTS
    ObjectKeys,   \* keys below the prefix, numbers in listing order
    Versions,     \* versions an object may have: what an ETag tells apart
    ContentOf,    \* version -> its content
    SizeOf,       \* content -> its encoded size
    Readers,      \* extractions that may run
    MaxObjects,   \* profile.max_objects
    MaxRecords,   \* limits.max_records
    MaxRecordBytes, \* limits.max_bytes
    MaxChanges,   \* bound: changes of the bucket
    MaxBreaks     \* bound: reads that fail for reasons of their own

ASSUME InventoryAssumption ==
    /\ ObjectKeys \in SUBSET (Nat \ {0}) /\ IsFiniteSet(ObjectKeys)
    /\ "absent" \notin Versions
    /\ \A v \in Versions : ContentOf[v] # "absent" /\ SizeOf[ContentOf[v]] \in Nat
    /\ MaxObjects \in Nat /\ MaxRecords \in Nat \ {0}
    /\ MaxRecordBytes \in Nat /\ MaxChanges \in Nat /\ MaxBreaks \in Nat

VARIABLES
    bucket,     \* key -> current version, or "absent"
    inventory,  \* key -> version on record, or "absent": the checkpoint
    mirror,     \* history: key -> content after all records on record
    reader,     \* reader -> its read
    changes, breaks

bucketVars == <<bucket, changes>>
recordVars == <<inventory, mirror>>
inventoryVars == <<bucket, inventory, mirror, reader, changes, breaks>>

Here(f) == {k \in ObjectKeys : f[k] # "absent"}
Nowhere == [k \in ObjectKeys |-> "absent"]
Content(v) == IF v = "absent" THEN "absent" ELSE ContentOf[v]

\* current: the checkpoint revision is still the one the read was prepared
\* with; listing: keys still to list; todo: keys still to compare; next: the
\* inventory the read would leave;
\* gone (history): keys that were absent at some time of the listing.
NoRead == [pc |-> "idle", current |-> TRUE, listing |-> {}, listed |-> Nowhere,
           todo |-> <<>>, next |-> Nowhere, records |-> <<>>, bytes |-> 0,
           gone |-> {}]

InventoryInit ==
    /\ bucket \in [ObjectKeys -> Versions \cup {"absent"}]
    /\ inventory = Nowhere /\ mirror = Nowhere
    /\ reader = [x \in Readers |-> NoRead]
    /\ changes = 0 /\ breaks = 0

Set(x, s) == reader' = [reader EXCEPT ![x] = s]
Give(x) == Set(x, NoRead)

\* Somebody writes or deletes an object.
Change(k, v) ==
    /\ changes < MaxChanges /\ v # bucket[k]
    /\ bucket' = [bucket EXCEPT ![k] = v]
    /\ changes' = changes + 1
    /\ reader' = [x \in Readers |->
          IF v = "absent" /\ reader[x].pc = "list"
          THEN [reader[x] EXCEPT !.gone = @ \cup {k}] ELSE reader[x]]
    /\ UNCHANGED <<recordVars, breaks>>

\* The extraction is prepared: the inventory and its revision as they are now.
StartListing(x) ==
    /\ reader[x].pc = "idle"
    /\ Set(x, [NoRead EXCEPT !.pc = "list", !.listing = ObjectKeys,
                             !.next = inventory,
                             !.gone = ObjectKeys \ Here(bucket)])
    /\ UNCHANGED <<bucketVars, recordVars, breaks>>

Smallest(S) == CHOOSE k \in S : \A j \in S : k <= j

\* Fault: a listing that reaches the limit stops there.
StopAtLimit(x) ==
    \/ reader[x].listing = {}
    \/ Cardinality(Here(reader[x].listed)) >= MaxObjects

ListingEnds(x) == reader[x].listing = {}

\* The listing reaches the next key; one object too many fails the read.
ListNext(x) ==
    /\ reader[x].pc = "list" /\ ~ListingEnds(x)
    /\ LET k == Smallest(reader[x].listing)
           listed == [reader[x].listed EXCEPT ![k] = bucket[k]]
       IN  IF Cardinality(Here(listed)) > MaxObjects THEN Give(x)
           ELSE Set(x, [reader[x] EXCEPT !.listing = @ \ {k}, !.listed = listed])
    /\ UNCHANGED <<bucketVars, recordVars, breaks>>

\* The listing is complete: absences first, then the objects listed.
ListingDone(x) ==
    /\ reader[x].pc = "list" /\ ListingEnds(x)
    /\ LET old == Here(reader[x].next)
           now == Here(reader[x].listed)
       IN  Set(x, [reader[x] EXCEPT !.pc = "read",
                                    !.todo = Ascending(old \ now) \o Ascending(now)])
    /\ UNCHANGED <<bucketVars, recordVars, breaks>>

Full(x, size) ==
    \/ Len(reader[x].records) >= MaxRecords
    \/ reader[x].bytes + size > MaxRecordBytes

Emit(x, k, content, size) ==
    Set(x, [reader[x] EXCEPT
        !.todo = Tail(@), !.bytes = @ + size,
        !.records = Append(@, [key |-> k, content |-> content]),
        !.next[k] = reader[x].listed[k]])

\* Fault: a full batch drops the object and goes on.
SkipWhenFull(x) == Set(x, [reader[x] EXCEPT !.todo = Tail(@),
                             !.next[Head(reader[x].todo)] =
                                reader[x].listed[Head(reader[x].todo)]])

\* Fault: a batch that is full fails the read.
FailWhenFull(x) == Give(x)

\* The rest is left to the next read (has_more of the batch).
WhenFull(x) == Set(x, [reader[x] EXCEPT !.todo = <<>>])

\* The next key: unchanged, gone, too large, out of budget, replaced since it
\* was listed (If-Match fails the read), new validator of the same content, or
\* new content.
CompareNext(x) ==
    /\ reader[x].pc = "read" /\ reader[x].todo # <<>>
    /\ LET k == Head(reader[x].todo)
           was == reader[x].next[k]
           now == reader[x].listed[k]
       IN  IF now = "absent"
           THEN IF Full(x, 1) THEN WhenFull(x) ELSE Emit(x, k, "absent", 1)
           ELSE IF now = was THEN Set(x, [reader[x] EXCEPT !.todo = Tail(@)])
           ELSE IF SizeOf[ContentOf[now]] > MaxRecordBytes THEN Give(x)
           ELSE IF Full(x, SizeOf[ContentOf[now]]) THEN WhenFull(x)
           ELSE IF bucket[k] # now THEN Give(x)
           ELSE IF Content(was) = ContentOf[now]
           THEN Set(x, [reader[x] EXCEPT !.todo = Tail(@), !.next[k] = now])
           ELSE Emit(x, k, ContentOf[now], SizeOf[ContentOf[now]])
    /\ UNCHANGED <<bucketVars, recordVars, breaks>>

SameRevision(x) == reader[x].current

\* The batch and the inventory are recorded together, if nobody else was
\* faster; otherwise the read is given up.
CommitRead(x) ==
    /\ reader[x].pc = "read" /\ reader[x].todo = <<>>
    /\ IF SameRevision(x)
       THEN /\ inventory' = reader[x].next
            /\ mirror' = [k \in ObjectKeys |->
                 LET S == {i \in 1 .. Len(reader[x].records) :
                             reader[x].records[i].key = k}
                 IN  IF S = {} THEN mirror[k]
                     ELSE reader[x].records[CHOOSE i \in S : TRUE].content]
            /\ reader' = [y \in Readers |->
                 IF y = x THEN NoRead ELSE [reader[y] EXCEPT !.current = FALSE]]
       ELSE UNCHANGED recordVars /\ Give(x)
    /\ UNCHANGED <<bucketVars, breaks>>

\* The deadline, the network, or the process: nothing was recorded.
ReadBreaks(x) ==
    /\ reader[x].pc # "idle" /\ breaks < MaxBreaks
    /\ breaks' = breaks + 1
    /\ Give(x)
    /\ UNCHANGED <<bucketVars, recordVars>>

ReaderStep(x) ==
    StartListing(x) \/ ListNext(x) \/ ListingDone(x) \/ CompareNext(x) \/ CommitRead(x)

InventoryNext ==
    \/ \E k \in ObjectKeys, v \in Versions \cup {"absent"} : Change(k, v)
    \/ \E x \in Readers : ReaderStep(x) \/ ReadBreaks(x)

InventorySpec == InventoryInit /\ [][InventoryNext]_inventoryVars

\* Extractions keep being requested and run.
InventoryFairness == \A x \in Readers : WF_inventoryVars(ReaderStep(x))

\* Whoever applies the recorded batches in order has exactly the contents the
\* inventory claims: limits, skipped validators, concurrent changes and lost
\* races never let the checkpoint run ahead of the records or fall behind.
RecordsAddUp == \A k \in ObjectKeys : mirror[k] = Content(inventory[k])

\* An absence is only reported of an object that really was absent at some
\* moment of the listing ("a truncated enumeration can never justify
\* absence/deletion", connector_s3_source.py).
AbsencesAreReal ==
    \A x \in Readers : \A i \in 1 .. Len(reader[x].records) :
        reader[x].records[i].content = "absent" =>
            reader[x].records[i].key \in reader[x].gone

Affordable ==
    /\ Cardinality(Here(bucket)) <= MaxObjects
    /\ \A k \in Here(bucket) : SizeOf[Content(bucket[k])] <= MaxRecordBytes

\* When the bucket comes to rest within the limits, the records catch up with
\* it, however little fits in one batch and whatever was read before.
MirrorCatchesUp ==
    <>[]Affordable => <>[](\A k \in ObjectKeys : mirror[k] = Content(bucket[k]))
=============================================================================
