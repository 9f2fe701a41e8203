------------------------ MODULE SourceReaders_proofs ------------------------
(***************************************************************************)
(* Proofs about the source readers for every value of their constants: the *)
(* inventory of an S3 prefix (any objects, versions, limits and readers),  *)
(* the traversal of a paged REST source (any window, ceiling and order of  *)
(* continuations) and the bounded read of a table (any keys, page size and *)
(* limits, and any edits between the pages).                               *)
(***************************************************************************)
EXTENDS S3Inventory, RestTraversal, TableRead, Induction_proofs, SequenceTheorems,
        FunctionTheorems, TLAPS

-----------------------------------------------------------------------------
(* The inventory of a prefix *)

Listed == [ObjectKeys -> Versions \cup {"absent"}]
Contents == {ContentOf[v] : v \in Versions} \cup {"absent"}
Read == [pc : {"idle", "list", "read"}, current : BOOLEAN,
         listing : SUBSET ObjectKeys, listed : Listed, todo : Seq(ObjectKeys),
         next : Listed, records : Seq([key : ObjectKeys, content : Contents]),
         bytes : Nat, gone : SUBSET ObjectKeys]

InventoryTypes ==
    /\ bucket \in Listed /\ inventory \in Listed
    /\ reader \in [Readers -> Read]

\* Every record of a read is of what was listed, which its inventory says too.
Recorded(r, e) == e.content = Content(r.listed[e.key]) /\ r.next[e.key] = r.listed[e.key]
RecordsInv(r) == \A i \in 1 .. Len(r.records) : Recorded(r, r.records[i])

\* Where a read has no record its inventory has the content on record, unless
\* another read has been committed since.
HasRecord(r, k) == \E i \in 1 .. Len(r.records) : r.records[i].key = k
BasisInv(r) ==
    r.current => \A k \in ObjectKeys :
                    HasRecord(r, k) \/ Content(r.next[k]) = Content(inventory[k])

\* A key that was listed as absent, or is absent while the listing goes on, has
\* been absent during the listing.
GoneInv(r) ==
    /\ \A k \in ObjectKeys \ r.listing : r.listed[k] = "absent" => k \in r.gone
    /\ r.pc = "list" => \A k \in ObjectKeys : bucket[k] = "absent" => k \in r.gone

ReadInv(r) ==
    /\ r.pc # "read" => r.records = <<>>
    /\ r.pc = "read" => r.listing = {}
    /\ r.pc # "idle" => RecordsInv(r) /\ BasisInv(r) /\ GoneInv(r)

InventoryInv == InventoryTypes /\ RecordsAddUp /\ \A x \in Readers : ReadInv(reader[x])

LEMMA NothingRead ==
    /\ Nowhere \in Listed /\ NoRead \in Read /\ NoRead.pc = "idle"
    /\ NoRead.records = <<>> /\ NoRead.todo = <<>> /\ ReadInv(NoRead)
  <1>1. Nowhere \in Listed
    BY DEF Nowhere, Listed
  <1>2. NoRead \in Read /\ NoRead.pc = "idle" /\ NoRead.records = <<>> /\ NoRead.todo = <<>>
    BY <1>1 DEF NoRead, Read
  <1> QED BY <1>1, <1>2 DEF ReadInv

\* Absence is the content of an absent object and of no other.
LEMMA ContentTells ==
    ASSUME NEW v \in Versions \cup {"absent"}
    PROVE  /\ Content(v) \in Contents
           /\ Content(v) = "absent" <=> v = "absent"
           /\ v # "absent" => Content(v) = ContentOf[v] /\ v \in Versions
  BY InventoryAssumption DEF Content, Contents

\* One read goes on; nothing is recorded.
LEMMA ReadGoesOn ==
    ASSUME InventoryInv, NEW x \in Readers, NEW w \in Read, ReadInv(w),
           reader' = [reader EXCEPT ![x] = w],
           UNCHANGED <<bucket, inventory, mirror>>
    PROVE  InventoryInv'
  <1>1. InventoryTypes'
    BY DEF InventoryInv, InventoryTypes
  <1>2. RecordsAddUp'
    BY DEF InventoryInv, RecordsAddUp
  <1>3. ASSUME NEW y \in Readers
        PROVE  ReadInv(reader[y])'
    <2>1. ReadInv(reader'[y])
      BY DEF InventoryInv, InventoryTypes
    <2> QED BY <2>1 DEF ReadInv, BasisInv, GoneInv
  <1> QED BY <1>1, <1>2, <1>3 DEF InventoryInv

LEMMA GivenUp ==
    ASSUME InventoryInv, NEW x \in Readers, Give(x), UNCHANGED <<bucket, inventory, mirror>>
    PROVE  InventoryInv'
  BY NothingRead, ReadGoesOn DEF Give, Set

\* The prefix is listed: while it is, the listing sees one key after another.
LEMMA ListingSteps ==
    ASSUME InventoryInv, NEW x \in Readers,
           StartListing(x) \/ ListNext(x) \/ ListingDone(x)
    PROVE  InventoryInv'
  <1>0. /\ UNCHANGED <<bucket, inventory, mirror>>
        /\ bucket \in Listed /\ inventory \in Listed
    BY DEF StartListing, ListNext, ListingDone, InventoryInv, InventoryTypes,
           bucketVars, recordVars
  <1>1. PICK r : r = reader[x]
    OBVIOUS
  <1>2. r \in Read /\ ReadInv(r)
    BY <1>1 DEF InventoryInv, InventoryTypes
  <1>3. CASE StartListing(x)
    <2>1. PICK w : w = [NoRead EXCEPT !.pc = "list", !.listing = ObjectKeys,
                             !.next = inventory, !.gone = ObjectKeys \ Here(bucket)]
      OBVIOUS
    <2>2. /\ w \in Read /\ w.pc = "list" /\ w.listing = ObjectKeys /\ w.next = inventory
          /\ w.gone = ObjectKeys \ Here(bucket) /\ w.records = <<>>
      BY <1>0, <2>1, NothingRead DEF Read
    <2>3. ReadInv(w)
      BY <2>2 DEF ReadInv, RecordsInv, BasisInv, GoneInv, Here
    <2>4. reader' = [reader EXCEPT ![x] = w]
      BY <1>3, <2>1 DEF StartListing, Set
    <2> QED BY <1>0, <2>2, <2>3, <2>4, ReadGoesOn
  <1>4. CASE ListNext(x)
    <2>1. r.pc = "list" /\ r.listing # {} /\ r.listing \in SUBSET ObjectKeys
      BY <1>1, <1>2, <1>4 DEF ListNext, ListingEnds, Read
    <2>2. PICK k : k = Smallest(r.listing)
      OBVIOUS
    <2>3. k \in r.listing
      <3>1. \E m \in r.listing : \A j \in r.listing : m <= j
        BY <2>1, SmallestOf, InventoryAssumption
      <3> QED BY <2>2, <3>1 DEF Smallest
    <2>4. PICK listed : listed = [r.listed EXCEPT ![k] = bucket[k]]
      OBVIOUS
    <2>5. listed \in Listed /\ listed[k] = bucket[k]
          /\ \A j \in ObjectKeys : j # k => listed[j] = r.listed[j]
      BY <1>0, <1>2, <2>1, <2>3, <2>4 DEF Listed, Read
    <2>6. CASE Cardinality(Here(listed)) > MaxObjects
      <3>1. Give(x)
        BY <1>1, <1>4, <2>2, <2>4, <2>6 DEF ListNext
      <3> QED BY <1>0, <3>1, GivenUp
    <2>7. CASE ~(Cardinality(Here(listed)) > MaxObjects)
      <3>1. PICK w : w = [r EXCEPT !.listing = @ \ {k}, !.listed = listed]
        OBVIOUS
      <3>2. /\ w \in Read /\ w.pc = "list" /\ w.listing = r.listing \ {k}
            /\ w.listed = listed /\ w.gone = r.gone /\ w.records = r.records
            /\ w.next = r.next /\ w.current = r.current
        BY <1>2, <2>1, <2>5, <3>1 DEF Read
      <3>3. r.records = <<>> /\ BasisInv(r) /\ GoneInv(r)
        BY <1>2, <2>1 DEF ReadInv
      <3>4. BasisInv(w)
        BY <3>2, <3>3 DEF BasisInv, HasRecord
      <3>5. GoneInv(w)
        BY <2>1, <2>3, <2>5, <3>2, <3>3 DEF GoneInv
      <3>6. ReadInv(w)
        BY <3>2, <3>3, <3>4, <3>5 DEF ReadInv, RecordsInv
      <3>7. reader' = [reader EXCEPT ![x] = w]
        BY <1>1, <1>4, <2>2, <2>4, <2>7, <3>1 DEF ListNext, Set
      <3> QED BY <1>0, <3>2, <3>6, <3>7, ReadGoesOn
    <2> QED BY <2>6, <2>7
  <1>5. CASE ListingDone(x)
    <2>1. r.pc = "list" /\ r.listing = {}
      BY <1>1, <1>5 DEF ListingDone, ListingEnds
    <2>2. PICK old : old = Here(r.next)
      OBVIOUS
    <2>3. PICK now : now = Here(r.listed)
      OBVIOUS
    <2>4. PICK todo : todo = Ascending(old \ now) \o Ascending(now)
      OBVIOUS
    <2>5. todo \in Seq(ObjectKeys)
      <3>1. old \ now \in SUBSET ObjectKeys /\ now \in SUBSET ObjectKeys
        BY <2>2, <2>3 DEF Here
      <3>2. ASSUME NEW S \in SUBSET ObjectKeys
            PROVE  Ascending(S) \in Seq(ObjectKeys)
        <4>1. S \in SUBSET Nat /\ IsFiniteSet(S)
          BY FS_Subset, InventoryAssumption
        <4>2. Cardinality(S) \in Nat /\ Ascending(S) \in [1 .. Cardinality(S) -> S]
          BY <4>1, AscendingLists
        <4>3. Ascending(S) \in [1 .. Cardinality(S) -> ObjectKeys]
          BY <4>2
        <4> QED BY <4>2, <4>3
      <3>3. Ascending(old \ now) \in Seq(ObjectKeys) /\ Ascending(now) \in Seq(ObjectKeys)
        BY <3>1, <3>2
      <3> QED BY <2>4, <3>3
    <2>6. PICK w : w = [r EXCEPT !.pc = "read", !.todo = todo]
      OBVIOUS
    <2>7. /\ w \in Read /\ w.pc = "read" /\ w.listing = r.listing
          /\ w.listed = r.listed /\ w.gone = r.gone /\ w.records = r.records
          /\ w.next = r.next /\ w.current = r.current
      BY <1>2, <2>5, <2>6 DEF Read
    <2>8. r.records = <<>> /\ RecordsInv(r) /\ BasisInv(r) /\ GoneInv(r)
      BY <1>2, <2>1 DEF ReadInv
    <2>9. ReadInv(w)
      BY <2>1, <2>7, <2>8 DEF ReadInv, RecordsInv, Recorded, BasisInv, HasRecord, GoneInv
    <2>10. reader' = [reader EXCEPT ![x] = w]
      BY <1>1, <1>5, <2>2, <2>3, <2>4, <2>6 DEF ListingDone, Set
    <2> QED BY <1>0, <2>7, <2>9, <2>10, ReadGoesOn
  <1> QED BY <1>3, <1>4, <1>5

\* The inventory of a read takes over what was listed of a key: with a record,
\* or because the content is the same.
LEMMA KeyTakenOver ==
    ASSUME NEW r \in Read, r.pc = "read", ReadInv(r), NEW k \in ObjectKeys,
           NEW w \in Read, w.pc = "read", w.listing = r.listing, w.listed = r.listed,
           w.gone = r.gone, w.current = r.current,
           w.next = [r.next EXCEPT ![k] = r.listed[k]],
           \/ w.records = r.records /\ Content(r.next[k]) = Content(r.listed[k])
           \/ w.records = Append(r.records,
                                 [key |-> k, content |-> Content(r.listed[k])])
    PROVE  ReadInv(w)
  <1>1. r.listing = {} /\ RecordsInv(r) /\ BasisInv(r) /\ GoneInv(r)
    BY DEF ReadInv
  <1>2. r.next \in Listed /\ r.listed \in Listed
    BY DEF Read
  <1>3. /\ w.next[k] = r.listed[k]
        /\ \A j \in ObjectKeys : j # k => w.next[j] = r.next[j]
    BY <1>2 DEF Listed
  <1>4. ASSUME NEW e \in [key : ObjectKeys, content : Contents], Recorded(r, e)
        PROVE  Recorded(w, e)
    BY <1>3, <1>4 DEF Recorded
  <1>5. r.records \in Seq([key : ObjectKeys, content : Contents])
    BY DEF Read
  <1>6. ASSUME NEW i \in 1 .. Len(r.records)
         PROVE  Recorded(w, r.records[i])
    <2>1. PICK e : e = r.records[i]
      OBVIOUS
    <2>2. e \in [key : ObjectKeys, content : Contents]
      BY <1>5, <2>1, ElementOfSeq
    <2>3. Recorded(r, e)
      BY <1>1, <2>1 DEF RecordsInv
    <2> QED BY <1>4, <2>1, <2>2, <2>3
  <1>7. CASE w.records = r.records /\ Content(r.next[k]) = Content(r.listed[k])
    <2>1. RecordsInv(w)
      BY <1>7, <1>6 DEF RecordsInv
    <2>2. BasisInv(w)
      BY <1>1, <1>3, <1>7 DEF BasisInv, HasRecord
    <2> QED BY <1>1, <2>1, <2>2 DEF ReadInv, GoneInv
  <1>8. CASE w.records = Append(r.records, [key |-> k, content |-> Content(r.listed[k])])
    <2>1. PICK e : e = [key |-> k, content |-> Content(r.listed[k])]
      OBVIOUS
    <2>2. /\ e \in [key : ObjectKeys, content : Contents] /\ e.key = k
          /\ e.content = Content(r.listed[k])
      BY <1>2, <2>1, ContentTells DEF Listed
    <2>3. /\ Len(w.records) = Len(r.records) + 1 /\ Len(r.records) \in Nat
          /\ w.records[Len(r.records) + 1] = e
          /\ \A i \in 1 .. Len(r.records) : w.records[i] = r.records[i]
      BY <1>5, <1>8, <2>1, <2>2
    <2>4. RecordsInv(w)
      <3> SUFFICES ASSUME NEW i \in 1 .. Len(w.records)
                   PROVE  Recorded(w, w.records[i])
        BY DEF RecordsInv
      <3>1. CASE i = Len(r.records) + 1
        BY <1>3, <2>2, <2>3, <3>1 DEF Recorded
      <3>2. CASE i # Len(r.records) + 1
        <4>1. i \in 1 .. Len(r.records)
          BY <2>3, <3>2
        <4> QED BY <1>6, <2>3, <4>1
      <3> QED BY <3>1, <3>2
    <2>5. BasisInv(w)
      <3>1. \A j : HasRecord(r, j) => HasRecord(w, j)
        BY <2>3 DEF HasRecord
      <3>2. HasRecord(w, k)
        BY <2>2, <2>3 DEF HasRecord
      <3> QED BY <1>1, <1>3, <3>1, <3>2 DEF BasisInv
    <2> QED BY <1>1, <2>4, <2>5 DEF ReadInv, GoneInv
  <1> QED BY <1>7, <1>8

\* The next key is compared with what was listed.
LEMMA ComparisonStep ==
    ASSUME InventoryInv, NEW x \in Readers, CompareNext(x)
    PROVE  InventoryInv'
  <1>0. UNCHANGED <<bucket, inventory, mirror>>
    BY DEF CompareNext, bucketVars, recordVars
  <1>1. PICK r : r = reader[x]
    OBVIOUS
  <1>2. r \in Read /\ ReadInv(r) /\ r.pc = "read" /\ r.todo # <<>>
    BY <1>1 DEF InventoryInv, InventoryTypes, CompareNext
  <1>3. PICK k : k = Head(r.todo)
    OBVIOUS
  <1>4. k \in ObjectKeys /\ Tail(r.todo) \in Seq(ObjectKeys)
    BY <1>2, <1>3, HeadTailProperties DEF Read
  <1>5. PICK was : was = r.next[k]
    OBVIOUS
  <1>6. PICK now : now = r.listed[k]
    OBVIOUS
  <1>7. /\ was \in Versions \cup {"absent"} /\ now \in Versions \cup {"absent"}
        /\ r.next \in Listed /\ r.listed \in Listed /\ r.bytes \in Nat
        /\ r.records \in Seq([key : ObjectKeys, content : Contents])
    BY <1>2, <1>4, <1>5, <1>6 DEF Read, Listed
  <1>8. Content(now) \in Contents
        /\ (now # "absent" => Content(now) = ContentOf[now] /\ now \in Versions)
        /\ (now = "absent" => Content(now) = "absent")
    BY <1>7, ContentTells
  <1>9. ASSUME Give(x)
        PROVE  InventoryInv'
    BY <1>0, <1>9, GivenUp
  <1>10. ASSUME NEW todo \in Seq(ObjectKeys), reader' = [reader EXCEPT ![x] = [r EXCEPT !.todo = todo]]
         PROVE  InventoryInv'
    <2>1. PICK w : w = [r EXCEPT !.todo = todo]
      OBVIOUS
    <2>2. /\ w \in Read /\ w.pc = r.pc /\ w.listing = r.listing
          /\ w.listed = r.listed /\ w.gone = r.gone /\ w.records = r.records
          /\ w.next = r.next /\ w.current = r.current
      BY <1>2, <2>1 DEF Read
    <2>3. ReadInv(w)
      BY <1>2, <2>2 DEF ReadInv, RecordsInv, Recorded, BasisInv, HasRecord, GoneInv
    <2> QED BY <1>0, <1>10, <2>1, <2>2, <2>3, ReadGoesOn
  <1>11. ASSUME NEW size \in Nat, Emit(x, k, Content(now), size)
         PROVE  InventoryInv'
    <2>1. PICK e : e = [key |-> k, content |-> Content(now)]
      OBVIOUS
    <2>2. e \in [key : ObjectKeys, content : Contents]
      BY <1>4, <1>8, <2>1
    <2>3. PICK records : records = Append(r.records, e)
      OBVIOUS
    <2>4. records \in Seq([key : ObjectKeys, content : Contents])
      BY <1>7, <2>2, <2>3
    <2>5. PICK next : next = [r.next EXCEPT ![k] = now]
      OBVIOUS
    <2>6. next \in Listed
      BY <1>7, <2>5 DEF Listed
    <2>7. PICK bytes : bytes = r.bytes + size
      OBVIOUS
    <2>8. bytes \in Nat
      BY <1>7, <2>7
    <2>9. PICK w : w = [r EXCEPT !.todo = Tail(r.todo), !.bytes = bytes,
                                 !.records = records, !.next = next]
      OBVIOUS
    <2>10. /\ w \in Read /\ w.pc = "read" /\ w.listing = r.listing
           /\ w.listed = r.listed /\ w.gone = r.gone /\ w.records = records
           /\ w.next = next /\ w.current = r.current
      BY <1>2, <1>4, <2>4, <2>6, <2>8, <2>9 DEF Read
    <2>11. ReadInv(w)
      BY <1>2, <1>4, <1>6, <2>1, <2>3, <2>5, <2>10, KeyTakenOver
    <2>12. reader' = [reader EXCEPT ![x] = w]
      BY <1>1, <1>2, <1>6, <1>11, <2>1, <2>3, <2>5, <2>7, <2>9 DEF Emit, Set, Read
    <2> QED BY <1>0, <2>10, <2>11, <2>12, ReadGoesOn
  <1>12. ASSUME Content(was) = Content(now),
                Set(x, [r EXCEPT !.todo = Tail(@), !.next[k] = now])
         PROVE  InventoryInv'
    <2>1. PICK next : next = [r.next EXCEPT ![k] = now]
      OBVIOUS
    <2>2. next \in Listed
      BY <1>7, <2>1 DEF Listed
    <2>3. PICK w : w = [r EXCEPT !.todo = Tail(r.todo), !.next = next]
      OBVIOUS
    <2>4. /\ w \in Read /\ w.pc = "read" /\ w.listing = r.listing
          /\ w.listed = r.listed /\ w.gone = r.gone /\ w.records = r.records
          /\ w.next = next /\ w.current = r.current
      BY <1>2, <1>4, <2>2, <2>3 DEF Read
    <2>5. ReadInv(w)
      BY <1>2, <1>4, <1>5, <1>6, <1>12, <2>1, <2>4, KeyTakenOver
    <2>6. reader' = [reader EXCEPT ![x] = w]
      BY <1>2, <1>12, <2>1, <2>3 DEF Set, Read
    <2> QED BY <1>0, <2>4, <2>5, <2>6, ReadGoesOn
  <1>13. <<>> \in Seq(ObjectKeys)
    OBVIOUS
  <1>14. ASSUME WhenFull(x)
         PROVE  InventoryInv'
    BY <1>1, <1>10, <1>13, <1>14 DEF WhenFull, Set
  <1>15. CASE now = "absent"
    <2>1. WhenFull(x) \/ Emit(x, k, "absent", 1)
      BY <1>1, <1>3, <1>6, <1>15 DEF CompareNext
    <2> QED BY <1>8, <1>11, <1>14, <1>15, <2>1
  <1>16. CASE now # "absent"
    <2>1. \/ Set(x, [r EXCEPT !.todo = Tail(@)])
          \/ Give(x) \/ WhenFull(x)
          \/ /\ Content(was) = ContentOf[now]
             /\ Set(x, [r EXCEPT !.todo = Tail(@), !.next[k] = now])
          \/ Emit(x, k, ContentOf[now], SizeOf[ContentOf[now]])
      BY <1>1, <1>3, <1>5, <1>6, <1>16 DEF CompareNext
    <2>2. SizeOf[ContentOf[now]] \in Nat
      BY <1>8, <1>16, InventoryAssumption
    <2>3. CASE Set(x, [r EXCEPT !.todo = Tail(@)])
      BY <1>2, <1>4, <1>10, <2>3 DEF Set, Read
    <2> QED BY <1>8, <1>9, <1>11, <1>12, <1>14, <1>16, <2>1, <2>2, <2>3
  <1> QED BY <1>15, <1>16

\* The batch and the inventory are recorded.
LEMMA CommitStep ==
    ASSUME InventoryInv, NEW x \in Readers, CommitRead(x)
    PROVE  InventoryInv'
  <1>1. PICK r : r = reader[x]
    OBVIOUS
  <1>2. /\ r \in Read /\ ReadInv(r) /\ r.pc = "read" /\ bucket' = bucket
        /\ bucket \in Listed /\ inventory \in Listed
    BY <1>1 DEF InventoryInv, InventoryTypes, CommitRead, bucketVars
  <1>3. CASE ~r.current
    BY <1>1, <1>2, <1>3, GivenUp DEF CommitRead, SameRevision, recordVars
  <1>4. CASE r.current
    <2>1. /\ inventory' = r.next
          /\ mirror' = [k \in ObjectKeys |->
               LET S == {i \in 1 .. Len(reader[x].records) : reader[x].records[i].key = k}
               IN  IF S = {} THEN mirror[k]
                   ELSE reader[x].records[CHOOSE i \in S : TRUE].content]
          /\ reader' = [y \in Readers |->
               IF y = x THEN NoRead ELSE [reader[y] EXCEPT !.current = FALSE]]
      BY <1>1, <1>4 DEF CommitRead, SameRevision
    <2>2. RecordsInv(r) /\ BasisInv(r)
      BY <1>2 DEF ReadInv
    <2>3. RecordsAddUp'
      <3> SUFFICES ASSUME NEW k \in ObjectKeys
                   PROVE  mirror'[k] = Content(r.next[k])
        BY <2>1 DEF RecordsAddUp
      <3>0. PICK S : S = {i \in 1 .. Len(reader[x].records) : reader[x].records[i].key = k}
        OBVIOUS
      <3>1. S = {i \in 1 .. Len(r.records) : r.records[i].key = k}
        BY <1>1, <3>0
      <3>2. mirror'[k] = IF S = {} THEN mirror[k]
                         ELSE r.records[CHOOSE i \in S : TRUE].content
        <4>1. mirror'[k] = IF S = {} THEN mirror[k]
                           ELSE reader[x].records[CHOOSE i \in S : TRUE].content
          BY <2>1, <3>0
        <4> QED BY <1>1, <4>1
      <3>3. CASE S = {}
        <4>1. ~HasRecord(r, k)
          BY <3>1, <3>3 DEF HasRecord
        <4>2. Content(r.next[k]) = Content(inventory[k])
          BY <1>4, <2>2, <4>1 DEF BasisInv
        <4> QED BY <3>2, <3>3, <4>2 DEF InventoryInv, RecordsAddUp
      <3>4. CASE S # {}
        <4>1. PICK i : i = CHOOSE j \in S : TRUE
          OBVIOUS
        <4>2. i \in S
          BY <3>4, <4>1
        <4>3. r.records[i].content = Content(r.next[k])
          BY <2>2, <3>1, <4>2 DEF RecordsInv, Recorded
        <4> QED BY <3>2, <3>4, <4>1, <4>3
      <3> QED BY <3>3, <3>4
    <2>4. ASSUME NEW y \in Readers
          PROVE  reader'[y] \in Read /\ ReadInv(reader[y])'
      <3>1. CASE y = x
        <4>1. reader'[y] = NoRead
          BY <2>1, <3>1
        <4> QED BY <4>1, NothingRead DEF ReadInv
      <3>2. CASE y # x
        <4>1. PICK s : s = reader[y]
          OBVIOUS
        <4>2. s \in Read /\ ReadInv(s)
          BY <4>1 DEF InventoryInv, InventoryTypes
        <4>3. PICK w : w = [s EXCEPT !.current = FALSE]
          OBVIOUS
        <4>4. /\ w \in Read /\ w.pc = s.pc /\ w.listing = s.listing
              /\ w.listed = s.listed /\ w.gone = s.gone /\ w.records = s.records
              /\ w.next = s.next
          BY <4>2, <4>3 DEF Read
        <4>5. ~w.current
          BY <4>2, <4>3 DEF Read
        <4>6. reader'[y] = w
          BY <2>1, <3>2, <4>1, <4>3
        <4>7. w.pc # "idle" => RecordsInv(w)
          BY <4>2, <4>4 DEF ReadInv, RecordsInv, Recorded
        <4>8. BasisInv(w)'
          BY <4>5 DEF BasisInv
        <4>9. w.pc # "idle" => GoneInv(w)'
          BY <1>2, <4>2, <4>4 DEF ReadInv, GoneInv
        <4>10. ReadInv(w)'
          BY <4>2, <4>4, <4>7, <4>8, <4>9 DEF ReadInv
        <4> QED BY <4>4, <4>6, <4>10
      <3> QED BY <3>1, <3>2
    <2>5. InventoryTypes'
      <3>1. r.next \in Listed
        BY <1>2 DEF Read
      <3>2. reader' = [y \in Readers |-> reader'[y]]
        BY <2>1
      <3>3. reader' \in [Readers -> Read]
        BY <2>4, <3>2
      <3> QED BY <1>2, <2>1, <3>1, <3>3 DEF InventoryTypes
    <2> QED BY <2>3, <2>4, <2>5 DEF InventoryInv
  <1> QED BY <1>3, <1>4

\* An object is written or deleted.
LEMMA ChangeStep ==
    ASSUME InventoryInv, NEW k \in ObjectKeys, NEW v \in Versions \cup {"absent"},
           Change(k, v)
    PROVE  InventoryInv'
  <1>1. /\ bucket' = [bucket EXCEPT ![k] = v] /\ UNCHANGED <<inventory, mirror>>
        /\ reader' = [x \in Readers |->
              IF v = "absent" /\ reader[x].pc = "list"
              THEN [reader[x] EXCEPT !.gone = @ \cup {k}] ELSE reader[x]]
        /\ bucket \in Listed /\ inventory \in Listed
    BY DEF Change, recordVars, InventoryInv, InventoryTypes
  <1>2. /\ bucket' \in Listed /\ bucket'[k] = v
        /\ \A j \in ObjectKeys : j # k => bucket'[j] = bucket[j]
    BY <1>1 DEF Listed
  <1>3. ASSUME NEW x \in Readers
        PROVE  reader'[x] \in Read /\ ReadInv(reader[x])'
    <2>1. PICK r : r = reader[x]
      OBVIOUS
    <2>2. r \in Read /\ ReadInv(r)
      BY <2>1 DEF InventoryInv, InventoryTypes
    <2>3. PICK w : w = reader'[x]
      OBVIOUS
    <2>4. w = IF v = "absent" /\ r.pc = "list" THEN [r EXCEPT !.gone = @ \cup {k}] ELSE r
      BY <1>1, <2>1, <2>3
    <2>5. /\ w \in Read /\ w.pc = r.pc /\ w.listing = r.listing
          /\ w.listed = r.listed /\ w.records = r.records
          /\ w.next = r.next /\ w.current = r.current
          /\ w.gone = IF v = "absent" /\ r.pc = "list" THEN r.gone \cup {k} ELSE r.gone
      BY <2>2, <2>4 DEF Read
    <2>6. w.pc # "idle" => GoneInv(w)'
      BY <1>2, <2>2, <2>5 DEF ReadInv, GoneInv
    <2>7. w.pc # "idle" => RecordsInv(w) /\ BasisInv(w)'
      BY <1>1, <2>2, <2>5 DEF ReadInv, RecordsInv, Recorded, BasisInv, HasRecord
    <2>8. ReadInv(w)'
      BY <2>2, <2>5, <2>6, <2>7 DEF ReadInv
    <2> QED BY <2>3, <2>5, <2>8
  <1>4. InventoryTypes'
    <2>1. reader' = [x \in Readers |-> reader'[x]]
      BY <1>1
    <2> QED BY <1>1, <1>2, <1>3, <2>1 DEF InventoryTypes
  <1>5. RecordsAddUp'
    BY <1>1 DEF InventoryInv, RecordsAddUp
  <1> QED BY <1>3, <1>4, <1>5 DEF InventoryInv

LEMMA InventoryInvariant == InventorySpec => []InventoryInv
  <1>1. InventoryInit => InventoryInv
    <2> SUFFICES ASSUME InventoryInit PROVE InventoryInv
      OBVIOUS
    <2>1. InventoryTypes
      BY NothingRead DEF InventoryInit, InventoryTypes, Listed
    <2>2. RecordsAddUp
      BY DEF InventoryInit, RecordsAddUp, Nowhere, Content
    <2> QED BY <2>1, <2>2, NothingRead DEF InventoryInit, InventoryInv
  <1>2. InventoryInv /\ [InventoryNext]_inventoryVars => InventoryInv'
    <2> SUFFICES ASSUME InventoryInv, [InventoryNext]_inventoryVars
                 PROVE  InventoryInv'
      OBVIOUS
    <2>1. ASSUME NEW k \in ObjectKeys, NEW v \in Versions \cup {"absent"}, Change(k, v)
          PROVE  InventoryInv'
      BY <2>1, ChangeStep
    <2>2. ASSUME NEW x \in Readers, StartListing(x) \/ ListNext(x) \/ ListingDone(x)
          PROVE  InventoryInv'
      BY <2>2, ListingSteps
    <2>3. ASSUME NEW x \in Readers, CompareNext(x)
          PROVE  InventoryInv'
      BY <2>3, ComparisonStep
    <2>4. ASSUME NEW x \in Readers, CommitRead(x)
          PROVE  InventoryInv'
      BY <2>4, CommitStep
    <2>5. ASSUME NEW x \in Readers, ReadBreaks(x)
          PROVE  InventoryInv'
      BY <2>5, GivenUp DEF ReadBreaks, bucketVars, recordVars
    <2>6. CASE UNCHANGED inventoryVars
      <3>1. UNCHANGED <<bucket, inventory, mirror, reader>>
        BY <2>6 DEF inventoryVars
      <3> QED BY <3>1 DEF InventoryInv, InventoryTypes, RecordsAddUp, ReadInv, BasisInv, GoneInv
    <2> QED BY <2>1, <2>2, <2>3, <2>4, <2>5, <2>6 DEF InventoryNext, ReaderStep
  <1> QED BY <1>1, <1>2, PTL DEF InventorySpec

\* Whatever the objects, limits and readers: the recorded batches, applied in
\* order, give the contents that the inventory of the checkpoint claims
\* (the bounded reads of connector_s3_source.py and the revision check of the
\* commit).
THEOREM RecordsAlwaysAddUp == InventorySpec => []RecordsAddUp
  <1>1. InventoryInv => RecordsAddUp
    BY DEF InventoryInv
  <1> QED BY <1>1, InventoryInvariant, PTL

\* ... and an absence is only reported of an object that was absent at some
\* moment of the listing the record comes from.
THEOREM AbsencesReal == InventorySpec => []AbsencesAreReal
  <1>1. InventoryInv => AbsencesAreReal
    <2> SUFFICES ASSUME InventoryInv, NEW x \in Readers,
                        NEW i \in 1 .. Len(reader[x].records),
                        reader[x].records[i].content = "absent"
                 PROVE  reader[x].records[i].key \in reader[x].gone
      BY DEF AbsencesAreReal
    <2>1. PICK r : r = reader[x]
      OBVIOUS
    <2>2. r \in Read /\ ReadInv(r)
      BY <2>1 DEF InventoryInv, InventoryTypes
    <2>3. PICK k : k = r.records[i].key
      OBVIOUS
    <2>4. r.records \in Seq([key : ObjectKeys, content : Contents]) /\ i \in 1 .. Len(r.records)
      BY <2>1, <2>2 DEF Read
    <2>5. k \in ObjectKeys
      <3>1. r.records[i] \in [key : ObjectKeys, content : Contents]
        BY <2>4, ElementOfSeq
      <3> QED BY <2>3, <3>1
    <2>6. r.records # <<>>
      BY <2>4
    <2>7. r.listing = {} /\ RecordsInv(r) /\ GoneInv(r)
      BY <2>2, <2>6 DEF ReadInv
    <2>8. r.listed[k] \in Versions \cup {"absent"}
      BY <2>2, <2>5 DEF Read, Listed
    <2>9. Content(r.listed[k]) = "absent"
      BY <2>1, <2>3, <2>4, <2>7 DEF RecordsInv, Recorded
    <2>10. r.listed[k] = "absent"
      BY <2>8, <2>9, ContentTells
    <2>11. k \in r.gone
      BY <2>5, <2>7, <2>10 DEF GoneInv
    <2> QED BY <2>1, <2>3, <2>11
  <1> QED BY <1>1, InventoryInvariant, PTL

-----------------------------------------------------------------------------
(* The traversal of a paged source *)

Stages == Terminal \cup {"not_started", "in_progress"}

TraversalTypes ==
    /\ saved \in [cursor : Continuations \cup {"none"}, pages : Nat,
                  traversal : Stages, visited : Seq(Continuations)]
    /\ handed \in Seq(Continuations)

\* The checkpoint remembers the tail of what the source has handed out: as much
\* as the window holds.
Remembers(v, h) ==
    /\ Len(v) = IF Len(h) < Window THEN Len(h) ELSE Window
    /\ \A i \in 1 .. Len(v) : v[i] = h[Len(h) - Len(v) + i]

\* No continuation occurs twice within the window.
NoCircle(h) == \A i, j \in 1 .. Len(h) : i < j /\ h[i] = h[j] => j - i > Window

CheckpointInv ==
    /\ saved.traversal = "not_started" => saved = NotStarted
    /\ saved.traversal = "in_progress" => saved.cursor # "none" /\ saved.pages < MaxPages
    /\ saved.pages <= MaxPages

TraversalInv ==
    TraversalTypes /\ Remembers(saved.visited, handed) /\ NoCircle(handed) /\ CheckpointInv

\* A continuation that is not among those remembered closes no circle.
LEMMA NewContinuation ==
    ASSUME NEW v \in Seq(Continuations), NEW h \in Seq(Continuations),
           NEW c \in Continuations, Remembers(v, h), NoCircle(h),
           c \notin Range(v)
    PROVE  NoCircle(Append(h, c))
  <1>1. PICK g : g = Append(h, c)
    OBVIOUS
  <1>2. /\ Len(g) = Len(h) + 1 /\ Len(h) \in Nat /\ Len(v) \in Nat
        /\ g[Len(h) + 1] = c /\ \A i \in 1 .. Len(h) : g[i] = h[i]
    BY <1>1
  <1>3. \A i \in 1 .. Len(v) : v[i] # c
    BY DEF Range
  <1>4. ASSUME NEW i \in 1 .. Len(h), h[i] = c
        PROVE  Len(h) + 1 - i > Window
    <2>1. CASE i > Len(h) - Len(v)
      <3>1. PICK k : k = i - (Len(h) - Len(v))
        OBVIOUS
      <3>2. k \in 1 .. Len(v) /\ Len(h) - Len(v) + k = i
        BY <1>2, <2>1, <3>1
      <3>3. v[k] = h[i]
        BY <3>2 DEF Remembers
      <3> QED BY <1>3, <1>4, <3>2, <3>3
    <2>2. CASE i <= Len(h) - Len(v)
      <3>1. Len(v) = Window
        BY <1>2, <2>2, TraversalAssumption DEF Remembers
      <3> QED BY <1>2, <2>2, <3>1, TraversalAssumption
    <2> QED BY <1>2, <2>1, <2>2
  <1>5. ASSUME NEW i \in 1 .. Len(g), NEW j \in 1 .. Len(g), i < j, g[i] = g[j]
        PROVE  j - i > Window
    <2>1. CASE j = Len(h) + 1
      <3>1. i \in 1 .. Len(h) /\ h[i] = c
        BY <1>2, <1>5, <2>1
      <3> QED BY <1>4, <2>1, <3>1
    <2>2. CASE j # Len(h) + 1
      <3>1. i \in 1 .. Len(h) /\ j \in 1 .. Len(h) /\ h[i] = h[j]
        BY <1>2, <1>5, <2>2
      <3> QED BY <1>5, <3>1 DEF NoCircle
    <2> QED BY <2>1, <2>2
  <1>6. NoCircle(g)
    BY <1>5 DEF NoCircle
  <1> QED BY <1>1, <1>6

\* Remember keeps the tail.
LEMMA TailIsKept ==
    ASSUME TraversalTypes, Remembers(saved.visited, handed), NEW c \in Continuations
    PROVE  /\ Remember(c) \in Seq(Continuations)
           /\ Remembers(Remember(c), Append(handed, c))
  <1>1. PICK v : v = saved.visited
    OBVIOUS
  <1>2. PICK h : h = handed
    OBVIOUS
  <1>3. v \in Seq(Continuations) /\ h \in Seq(Continuations) /\ Remembers(v, h)
    BY <1>1, <1>2 DEF TraversalTypes
  <1>4. PICK all : all = Append(v, c)
    OBVIOUS
  <1>5. PICK g : g = Append(h, c)
    OBVIOUS
  <1>6. PICK m : m = IF Len(all) > Window THEN Len(all) - Window + 1 ELSE 1
    OBVIOUS
  <1>7. PICK s : s = SubSeq(all, m, Len(all))
    OBVIOUS
  <1>8. Remember(c) = s
    BY <1>1, <1>4, <1>6, <1>7 DEF Remember
  <1>9. /\ all \in Seq(Continuations) /\ Len(all) = Len(v) + 1 /\ Len(v) \in Nat
        /\ all[Len(v) + 1] = c /\ \A i \in 1 .. Len(v) : all[i] = v[i]
    BY <1>3, <1>4
  <1>10. /\ g \in Seq(Continuations) /\ Len(g) = Len(h) + 1 /\ Len(h) \in Nat
         /\ g[Len(h) + 1] = c /\ \A i \in 1 .. Len(h) : g[i] = h[i]
    BY <1>3, <1>5
  <1>11. Len(v) = IF Len(h) < Window THEN Len(h) ELSE Window
    BY <1>3 DEF Remembers
  <1>12. Window \in Nat /\ Window > 0
    BY TraversalAssumption
  <1>13. m \in 1 .. Len(all) /\ m = IF Len(v) = Window THEN 2 ELSE 1
    BY <1>6, <1>9, <1>10, <1>11, <1>12
  <1>14. /\ s \in Seq(Continuations) /\ Len(s) = Len(all) - m + 1
         /\ \A i \in 1 .. Len(all) - m + 1 : s[i] = all[m + i - 1]
    <2>1. m \in Int /\ Len(all) \in Int /\ \A i \in m .. Len(all) : all[i] \in Continuations
      BY <1>9, <1>13
    <2>2. /\ s \in Seq(Continuations)
          /\ Len(s) = IF m <= Len(all) THEN Len(all) - m + 1 ELSE 0
          /\ \A i \in 1 .. Len(all) - m + 1 : s[i] = all[m + i - 1]
      BY <1>7, <2>1, SubSeqProperties
    <2> QED BY <1>9, <1>13, <2>2
  <1>15. Len(s) = IF Len(g) < Window THEN Len(g) ELSE Window
    <2>1. Len(s) = Len(v) + 2 - m
      BY <1>9, <1>13, <1>14
    <2>2. Len(g) = Len(h) + 1 /\ Len(h) \in Nat /\ Len(v) \in Nat
      BY <1>9, <1>10
    <2>3. m = IF Len(v) = Window THEN 2 ELSE 1
      BY <1>13
    <2>4. CASE Len(h) < Window
      <3>1. Len(v) = Len(h) /\ Len(v) # Window
        BY <1>11, <1>12, <2>2, <2>4
      <3>2. m = 1
        BY <2>3, <3>1
      <3>3. Len(s) = Len(h) + 1
        BY <2>1, <2>2, <3>1, <3>2
      <3> QED BY <1>12, <2>2, <2>4, <3>3
    <2>5. CASE ~(Len(h) < Window)
      BY <1>11, <1>12, <2>1, <2>2, <2>3, <2>5
    <2> QED BY <2>4, <2>5
  <1>16. ASSUME NEW i \in 1 .. Len(s)
         PROVE  s[i] = g[Len(g) - Len(s) + i]
    <2>1. PICK k : k = m + i - 1
      OBVIOUS
    <2>2. s[i] = all[k] /\ k \in 1 .. Len(all) /\ Len(g) - Len(s) + i = Len(h) - Len(v) + k
      <3>1. Len(s) = Len(all) - m + 1 /\ Len(all) \in Nat /\ m \in 1 .. Len(all)
        BY <1>9, <1>13, <1>14
      <3>2. i \in 1 .. Len(all) - m + 1
        BY <3>1
      <3>3. k \in 1 .. Len(all)
        BY <2>1, <3>1, <3>2
      <3>4. s[i] = all[k]
        BY <1>14, <2>1, <3>2
      <3>5. Len(g) = Len(h) + 1 /\ Len(h) \in Nat /\ Len(v) \in Nat /\ Len(all) = Len(v) + 1
        BY <1>9, <1>10
      <3>6. Len(g) - Len(s) + i = Len(h) - Len(v) + k
        BY <2>1, <3>1, <3>2, <3>5
      <3> QED BY <3>3, <3>4, <3>6
    <2>3. CASE k = Len(v) + 1
      <3>1. Len(h) - Len(v) + k = Len(h) + 1
        BY <1>9, <1>10, <2>3
      <3> QED BY <1>9, <1>10, <2>2, <2>3, <3>1
    <2>4. CASE k # Len(v) + 1
      <3>1. k \in 1 .. Len(v)
        BY <1>9, <2>2, <2>4
      <3>2. all[k] = v[k] /\ v[k] = h[Len(h) - Len(v) + k]
        BY <1>3, <1>9, <3>1 DEF Remembers
      <3>3. PICK l : l = Len(h) - Len(v) + k
        OBVIOUS
      <3>4. l \in 1 .. Len(h)
        BY <1>9, <1>10, <1>11, <1>12, <3>1, <3>3
      <3>5. g[l] = h[l]
        BY <1>10, <3>4
      <3> QED BY <2>2, <3>2, <3>3, <3>5
    <2> QED BY <2>3, <2>4
  <1>17. Remembers(s, g)
    BY <1>15, <1>16 DEF Remembers
  <1>18. Append(handed, c) = g
    BY <1>2, <1>5
  <1> QED BY <1>8, <1>14, <1>17, <1>18

LEMMA TraversalStep == TraversalInv /\ [TraversalNext]_traversalVars => TraversalInv'
  <1> SUFFICES ASSUME TraversalInv, [TraversalNext]_traversalVars
               PROVE  TraversalInv'
    OBVIOUS
  <1> USE DEF TraversalInv
  <1>0. /\ MaxPages \in Nat /\ MaxPages > 0 /\ Window \in Nat
        /\ saved.pages \in Nat /\ saved.visited \in Seq(Continuations)
    BY TraversalAssumption DEF TraversalTypes
  <1>1. CASE UNCHANGED <<saved, handed>>
    BY <1>1 DEF TraversalTypes, CheckpointInv
  <1>2. ASSUME Readable
        PROVE  saved.pages < MaxPages
    <2>1. saved.traversal \in {"not_started", "in_progress"}
      BY <1>2 DEF Readable, TraversalTypes, Stages
    <2> QED BY <1>0, <2>1 DEF CheckpointInv, NotStarted
  <1>3. ASSUME NEW c \in Continuations, MorePages(c), ~Repeated(c)
        PROVE  TraversalInv'
    <2>0. saved.pages < MaxPages
      BY <1>2, <1>3 DEF MorePages
    <2>1. /\ handed' = Append(handed, c)
          /\ saved' =
                 IF saved.pages + 1 >= MaxPages
                 THEN [cursor |-> "none", pages |-> saved.pages + 1,
                       traversal |-> "page_limit_reached", visited |-> Remember(c)]
                 ELSE [cursor |-> c, pages |-> saved.pages + 1,
                       traversal |-> "in_progress", visited |-> Remember(c)]
      BY <1>3 DEF MorePages
    <2>2. Remember(c) \in Seq(Continuations) /\ Remembers(Remember(c), Append(handed, c))
      BY TailIsKept
    <2>3. /\ saved'.visited = Remember(c) /\ saved'.pages = saved.pages + 1
          /\ saved'.cursor \in {c, "none"} /\ saved'.traversal \in {"page_limit_reached", "in_progress"}
          /\ saved'.traversal = "in_progress" => saved'.cursor = c /\ ~(saved.pages + 1 >= MaxPages)
          /\ saved' \in [cursor : Continuations \cup {"none"}, pages : Nat,
                         traversal : Stages, visited : Seq(Continuations)]
      BY <1>0, <2>1, <2>2 DEF Stages, Terminal
    <2>4. TraversalTypes'
      BY <2>1, <2>3 DEF TraversalTypes
    <2>5. CheckpointInv'
      BY <1>0, <2>0, <2>3, TraversalAssumption DEF CheckpointInv
    <2>6. NoCircle(handed)'
      <3>1. c \notin Range(saved.visited) /\ handed \in Seq(Continuations)
        BY <1>3 DEF Repeated, TraversalTypes
      <3>2. NoCircle(Append(handed, c))
        BY <1>0, <3>1, NewContinuation
      <3> QED BY <2>1, <3>2
    <2>7. Remembers(saved.visited, handed)'
      BY <2>1, <2>2, <2>3
    <2> QED BY <2>4, <2>5, <2>6, <2>7
  <1>4. CASE LastPage
    <2>1. /\ saved' = [cursor |-> "none", pages |-> saved.pages + 1,
                       traversal |-> "complete", visited |-> saved.visited]
          /\ handed' = handed /\ saved.pages < MaxPages
      BY <1>2, <1>4 DEF LastPage
    <2>2. TraversalTypes'
      BY <1>0, <2>1 DEF TraversalTypes, Stages, Terminal
    <2>3. CheckpointInv'
      BY <1>0, <2>1 DEF CheckpointInv
    <2> QED BY <2>1, <2>2, <2>3
  <1> QED BY <1>1, <1>3, <1>4
          DEF TraversalNext, traversalVars, RefuseCheckpoint, Refuse, PageFails, MorePages

\* However long the window, the ceiling and the source, whose continuations may
\* come in any order: no circle shorter than the window is read a second time,
\* and every checkpoint that a page leaves is one the next request can load
\* (_load_state and the visited cursors of connector_rest_ingestion.py).
THEOREM WindowSound == TraversalSpec => []WindowIsSound
  <1>1. TraversalInit => TraversalInv
    <2> SUFFICES ASSUME TraversalInit PROVE TraversalInv
      OBVIOUS
    <2>1. /\ saved = NotStarted /\ handed = <<>> /\ NotStarted.visited = <<>>
          /\ Len(<<>>) = 0
      BY DEF TraversalInit, NotStarted
    <2>2. TraversalTypes
      BY <2>1 DEF TraversalTypes, NotStarted, Stages
    <2>3. Remembers(<<>>, <<>>) /\ NoCircle(<<>>)
      BY <2>1, TraversalAssumption DEF Remembers, NoCircle
    <2>4. CheckpointInv
      BY <2>1, TraversalAssumption DEF CheckpointInv, NotStarted
    <2> QED BY <2>1, <2>2, <2>3, <2>4 DEF TraversalInv
  <1>2. TraversalInv => WindowIsSound
    <2> SUFFICES ASSUME TraversalInv PROVE WindowIsSound
      OBVIOUS
    <2>1. Len(saved.visited) <= Window
      <3>1. Len(handed) \in Nat /\ Window \in Nat
        BY TraversalAssumption DEF TraversalInv, TraversalTypes
      <3> QED BY <3>1 DEF TraversalInv, Remembers
    <2>2. Loads(saved)
      <3>1. saved.traversal \in Stages
        BY DEF TraversalInv, TraversalTypes
      <3> QED BY <2>1, <3>1 DEF TraversalInv, CheckpointInv, Loads, Stages
    <2> QED BY <2>2 DEF TraversalInv, WindowIsSound, NoCircle, CheckpointInv
  <1> QED BY <1>1, <1>2, TraversalStep, PTL DEF TraversalSpec

-----------------------------------------------------------------------------
(* The bounded read of a table *)

Row == {x \in [key : PrimaryKeys, cell : Nat, size : Nat] : x.cell = rendered[x.key]}
TableReading == [pc : {"idle", "fetch", "examine", "probe", "done"}, ordering : Ordering,
                 rows : Seq(Row), bytes : Nat, page : Seq(Row),
                 full : BOOLEAN, truncated : BOOLEAN]

TableTypes ==
    /\ table \in [PrimaryKeys -> Nat]
    /\ rendered \in [PrimaryKeys -> Nat]
    /\ read \in TableReading
    /\ stable \in SUBSET Present

\* The keys of rows, and what lies beyond them.
KeysOf(q) == {q[i].key : i \in 1 .. Len(q)}
Beyond(k, q) == \A i \in 1 .. Len(q) : q[i].key < k
Distinct(q) == \A i, j \in 1 .. Len(q) : i < j => q[i].key # q[j].key
Climbs(q) == \A i, j \in 1 .. Len(q) : i < j => q[i].key < q[j].key

\* The rows read and those of the page still to be examined.
Taken(r) == r.rows \o r.page

\* What a read has of the rows that have stood since it began: all of them, in
\* the order of the key up to where it has come; in the heap's order, unless it
\* has more rows than it may admit.
Covers(r) ==
    /\ r.pc \in {"fetch", "examine"} /\ r.ordering = "primary_key" =>
          \A k \in stable :
             k \in KeysOf(Taken(r)) \/ ((r.pc = "fetch" \/ r.full) /\ Beyond(k, Taken(r)))
    /\ r.pc = "fetch" /\ r.ordering = "none" => r.rows = <<>>
    /\ r.pc = "examine" /\ r.ordering = "none" =>
          \A k \in stable : k \in KeysOf(Taken(r)) \/ Len(Taken(r)) > MaxRows
    /\ r.pc = "probe" => stable \subseteq KeysOf(r.rows)
    /\ r.pc = "done" =>
          /\ ~r.truncated => stable \subseteq KeysOf(r.rows)
          /\ r.ordering = "primary_key" =>
                \A k \in stable : k \in KeysOf(r.rows) \/ Beyond(k, r.rows)

Orderly(r) ==
    /\ Distinct(Taken(r))
    /\ r.ordering = "primary_key" => Climbs(Taken(r))

\* No watermark with a value of its own has limited the read: the conversion
\* keeps the order, or the first page is not used up.
Trusted(r) ==
    \/ KeepsOrder \/ r.ordering = "none"
    \/ Len(Taken(r)) < PageSize
    \/ r.pc = "examine" /\ Len(Taken(r)) = PageSize

\* Whatever the conversion: a read that goes on has used up a whole page.
Paged(r) ==
    /\ r.pc # "examine" => r.page = <<>>
    /\ Len(r.rows) <= MaxRows
    /\ r.ordering = "primary_key" /\ r.pc = "fetch" =>
          r.rows = <<>> \/ Len(r.rows) >= PageSize
    /\ r.ordering = "primary_key" /\ r.pc = "examine" =>
          /\ r.full => Len(Taken(r)) >= PageSize
          /\ Len(Taken(r)) <= PageSize \/ Len(r.rows) >= PageSize

TableInv ==
    /\ TableTypes
    /\ Paged(read)
    /\ Trusted(read) => Orderly(read) /\ Covers(read)

\* Joining rows.
LEMMA Joined ==
    ASSUME NEW s \in Seq(Row), NEW t \in Seq(Row)
    PROVE  /\ s \o t \in Seq(Row) /\ Len(s) \in Nat /\ Len(t) \in Nat
           /\ Len(s \o t) = Len(s) + Len(t)
           /\ \A i \in 1 .. Len(s) : (s \o t)[i] = s[i]
           /\ \A i \in 1 .. Len(t) : (s \o t)[Len(s) + i] = t[i]
           /\ s \o <<>> = s
  <1>1. Len(s) \in Nat /\ Len(t) \in Nat
    BY LenProperties
  <1>2. /\ s \o t \in Seq(Row) /\ Len(s \o t) = Len(s) + Len(t)
        /\ \A i \in 1 .. Len(s) + Len(t) : (s \o t)[i] =
                     IF i <= Len(s) THEN s[i] ELSE t[i - Len(s)]
    BY ConcatProperties
  <1>3. \A i \in 1 .. Len(s) : (s \o t)[i] = s[i]
    BY <1>1, <1>2
  <1>4. ASSUME NEW i \in 1 .. Len(t)
        PROVE  (s \o t)[Len(s) + i] = t[i]
    <2>1. PICK j : j = Len(s) + i
      OBVIOUS
    <2>2. j \in 1 .. Len(s) + Len(t) /\ ~(j <= Len(s)) /\ j - Len(s) = i
      BY <1>1, <2>1
    <2> QED BY <1>2, <2>1, <2>2
  <1>5. s \o <<>> = s
    BY ConcatEmptySeq
  <1> QED BY <1>1, <1>2, <1>3, <1>4, <1>5

LEMMA TakenLength ==
    ASSUME NEW r \in TableReading
    PROVE  /\ r.rows \in Seq(Row) /\ r.page \in Seq(Row) /\ Taken(r) \in Seq(Row)
           /\ Len(r.rows) \in Nat /\ Len(r.page) \in Nat
           /\ Len(Taken(r)) = Len(r.rows) + Len(r.page)
           /\ r.page = <<>> => Taken(r) = r.rows
           /\ r.rows = <<>> => Len(r.rows) = 0 /\ Taken(r) = r.page
  <1>1. r.rows \in Seq(Row) /\ r.page \in Seq(Row)
    BY DEF TableReading
  <1>2. r.rows = <<>> => Len(r.rows) = 0
    BY <1>1, EmptySeq
  <1>3. r.rows = <<>> => r.rows \o r.page = r.page
    BY <1>1, ConcatEmptySeq
  <1> QED BY <1>1, <1>2, <1>3, Joined DEF Taken

\* Examining a row moves it from the page to the rows.
LEMMA RowMoves ==
    ASSUME NEW s \in Seq(Row), NEW t \in Seq(Row), t # <<>>
    PROVE  /\ Head(t) \in Row /\ Tail(t) \in Seq(Row)
           /\ Append(s, Head(t)) \in Seq(Row) /\ Len(Append(s, Head(t))) = Len(s) + 1
           /\ Append(s, Head(t)) \o Tail(t) = s \o t
  <1>1. PICK h : h = Head(t)
    OBVIOUS
  <1>2. PICK u : u = Tail(t)
    OBVIOUS
  <1>3. h \in Row /\ u \in Seq(Row)
    BY <1>1, <1>2, HeadTailProperties
  <1>4. t = <<h>> \o u
    BY <1>1, <1>2
  <1>5. Append(s, h) = s \o <<h>> /\ Append(s, h) \in Seq(Row) /\ Len(Append(s, h)) = Len(s) + 1
    BY <1>3
  <1>6. (s \o <<h>>) \o u = s \o (<<h>> \o u)
    <2>1. <<h>> \in Seq(Row)
      BY <1>3
    <2> QED BY <1>3, <2>1, ConcatAssociative
  <1> QED BY <1>1, <1>2, <1>3, <1>4, <1>5, <1>6

\* A page holds the first keys of a listing, with their rows.
LEMMA PageOf ==
    ASSUME TableTypes, NEW s \in Seq(PrimaryKeys), NEW n \in Nat
    PROVE  /\ RowsOf(FirstOf(s, n)) \in Seq(Row)
           /\ Len(RowsOf(FirstOf(s, n))) = IF Len(s) < n THEN Len(s) ELSE n
           /\ Len(FirstOf(s, n)) = Len(RowsOf(FirstOf(s, n)))
           /\ \A i \in 1 .. Len(RowsOf(FirstOf(s, n))) :
                 RowsOf(FirstOf(s, n))[i].key = s[i]
  <1>1. PICK m : m = IF Len(s) < n THEN Len(s) ELSE n
    OBVIOUS
  <1>2. m \in Nat /\ m <= Len(s) /\ Len(s) \in Nat
    BY <1>1, LenProperties
  <1>3. PICK p : p = SubSeq(s, 1, m)
    OBVIOUS
  <1>4. FirstOf(s, n) = p
    BY <1>1, <1>3 DEF FirstOf
  <1>5. /\ p \in Seq(PrimaryKeys) /\ Len(p) = m
        /\ \A i \in 1 .. m : p[i] = s[i]
    <2>1. \A i \in 1 .. m : s[i] \in PrimaryKeys
      BY <1>2, ElementOfSeq
    <2>2. /\ p \in Seq(PrimaryKeys) /\ Len(p) = IF 1 <= m THEN m - 1 + 1 ELSE 0
          /\ \A i \in 1 .. m - 1 + 1 : p[i] = s[1 + i - 1]
      BY <1>2, <1>3, <2>1, SubSeqProperties
    <2>3. Len(p) = m
      BY <1>2, <2>2
    <2>4. ASSUME NEW i \in 1 .. m
          PROVE  p[i] = s[i]
      <3>1. i \in 1 .. m - 1 + 1 /\ 1 + i - 1 = i
        BY <1>2
      <3> QED BY <2>2, <3>1
    <2> QED BY <2>2, <2>3, <2>4
  <1>6. PICK r : r = RowsOf(p)
    OBVIOUS
  <1>7. r = [i \in 1 .. m |-> [key |-> p[i], cell |-> rendered[p[i]], size |-> table[p[i]]]]
    BY <1>5, <1>6 DEF RowsOf
  <1>8. ASSUME NEW i \in 1 .. m
        PROVE  r[i] \in Row /\ r[i].key = s[i]
    <2>1. p[i] \in PrimaryKeys /\ p[i] = s[i]
      BY <1>5, ElementOfSeq
    <2> QED BY <1>7, <2>1 DEF Row, TableTypes
  <1>9. r \in Seq(Row) /\ Len(r) = m
    <2>1. r \in [1 .. m -> Row]
      BY <1>7, <1>8
    <2> QED BY <1>2, <2>1
  <1> QED BY <1>1, <1>4, <1>5, <1>6, <1>8, <1>9

\* The last key read, and what is beyond it.
LEMMA LastKeyIsLast ==
    ASSUME TableInv, Trusted(read), read.ordering = "primary_key"
    PROVE  /\ LastKey \in Nat
           /\ \A k \in PrimaryKeys : Beyond(k, read.rows) <=> k > LastKey
           /\ Climbs(read.rows)
  <1>1. PICK rows : rows = read.rows
    OBVIOUS
  <1>2. PICK page : page = read.page
    OBVIOUS
  <1>3. rows \in Seq(Row) /\ page \in Seq(Row) /\ Climbs(rows \o page)
    BY <1>1, <1>2 DEF TableInv, TableTypes, TableReading, Orderly, Taken
  <1>4. Len(rows) \in Nat /\ \A i \in 1 .. Len(rows) : rows[i] \in Row /\ rows[i].key \in Nat
    <2>1. Len(rows) \in Nat
      BY <1>3, LenProperties
    <2>2. \A i \in 1 .. Len(rows) : rows[i] \in Row
      BY <1>3, ElementOfSeq
    <2> QED BY <2>1, <2>2, TableAssumption DEF Row
  <1>5. Climbs(rows)
    <2>1. /\ Len(rows \o page) = Len(rows) + Len(page) /\ Len(page) \in Nat
          /\ \A i \in 1 .. Len(rows) : (rows \o page)[i] = rows[i]
      BY <1>3, Joined
    <2> QED BY <1>3, <1>4, <2>1 DEF Climbs
  <1>6. CASE rows = <<>>
    <2>1. Len(rows) = 0 /\ LastKey = 0
      BY <1>1, <1>6 DEF LastKey
    <2>2. ASSUME NEW k \in PrimaryKeys
          PROVE  k > 0 /\ Beyond(k, rows)
      <3>1. k \in Nat /\ k # 0
        BY TableAssumption
      <3>2. k > 0
        BY <3>1
      <3> QED BY <2>1, <3>2 DEF Beyond
    <2> QED BY <1>1, <1>5, <2>1, <2>2
  <1>7. CASE rows # <<>>
    <2>1. PICK n : n = Len(rows)
      OBVIOUS
    <2>2. n \in 1 .. Len(rows)
      BY <1>3, <1>7, <2>1, EmptySeq
    <2>3. LastKey = rows[n].key /\ rows[n].key \in Nat
      BY <1>1, <1>4, <1>7, <2>1, <2>2 DEF LastKey, Last
    <2>4. ASSUME NEW i \in 1 .. Len(rows)
          PROVE  rows[i].key <= rows[n].key
      <3>1. CASE i = n
        BY <1>4, <2>2, <3>1
      <3>2. CASE i # n
        <4>1. i < n
          BY <2>1, <2>2, <3>2
        <4> QED BY <1>4, <1>5, <2>2, <4>1 DEF Climbs
      <3> QED BY <3>1, <3>2
    <2>5. ASSUME NEW k \in PrimaryKeys
          PROVE  Beyond(k, rows) <=> k > rows[n].key
      <3>1. k \in Nat
        BY TableAssumption
      <3>2. ASSUME k > rows[n].key, NEW i \in 1 .. Len(rows)
            PROVE  rows[i].key < k
        BY <1>4, <2>3, <2>4, <3>1, <3>2
      <3>3. ASSUME Beyond(k, rows)
            PROVE  rows[n].key < k
        BY <2>2, <3>3 DEF Beyond
      <3> QED BY <2>3, <3>1, <3>2, <3>3 DEF Beyond
    <2> QED BY <1>1, <1>5, <2>3, <2>5
  <1> QED BY <1>6, <1>7

\* The next page starts where the rows end, unless a converted key misleads it.
LEMMA WatermarkIsLastKey ==
    ASSUME TableInv, Trusted(read), read.ordering = "primary_key", read.pc = "fetch"
    PROVE  \A k \in PrimaryKeys : k > Watermark <=> k > LastKey
  <1>1. CASE read.rows = <<>>
    BY <1>1 DEF Watermark, LastKey
  <1>2. CASE read.rows # <<>>
    <2>1. PICK rows : rows = read.rows
      OBVIOUS
    <2>2. PICK n : n = Len(rows)
      OBVIOUS
    <2>3. rows \in Seq(Row)
      BY <2>1 DEF TableInv, TableTypes, TableReading
    <2>4. n \in 1 .. Len(rows)
      BY <1>2, <2>1, <2>2, <2>3, EmptySeq
    <2>5. rows[n] \in Row
      BY <2>3, <2>4, ElementOfSeq
    <2>6. rows[n].key \in PrimaryKeys /\ rows[n].cell = rendered[rows[n].key]
      BY <2>5 DEF Row
    <2>7. Watermark = rows[n].cell /\ LastKey = rows[n].key
      BY <1>2, <2>1, <2>2 DEF Watermark, LastKey, Last
    <2>8. KeepsOrder
      <3>1. read.page = <<>> /\ Len(read.rows) >= PageSize /\ read \in TableReading
        BY <1>2 DEF TableInv, TableTypes, Paged
      <3>2. Taken(read) = read.rows /\ Len(read.rows) \in Nat
        BY <3>1, TakenLength
      <3>3. ~(Len(Taken(read)) < PageSize)
        BY <3>1, <3>2, TableAssumption
      <3> QED BY <3>3 DEF Trusted
    <2> QED BY <2>6, <2>7, <2>8 DEF KeepsOrder
  <1> QED BY <1>1, <1>2

LEMMA KeysJoin ==
    ASSUME NEW s \in Seq(Row), NEW t \in Seq(Row)
    PROVE  /\ \A k : k \in KeysOf(s \o t) <=> k \in KeysOf(s) \/ k \in KeysOf(t)
           /\ \A k : Beyond(k, s \o t) <=> Beyond(k, s) /\ Beyond(k, t)
  <1>1. PICK q : q = s \o t
    OBVIOUS
  <1>2. /\ q \in Seq(Row) /\ Len(s) \in Nat /\ Len(t) \in Nat
        /\ Len(q) = Len(s) + Len(t)
        /\ \A i \in 1 .. Len(s) : q[i] = s[i]
        /\ \A i \in 1 .. Len(t) : q[Len(s) + i] = t[i]
    BY <1>1, Joined
  <1>3. ASSUME NEW i \in 1 .. Len(q)
        PROVE  \/ i \in 1 .. Len(s) /\ q[i] = s[i]
               \/ \E j \in 1 .. Len(t) : q[i] = t[j]
    <2>1. CASE i <= Len(s)
      BY <1>2, <2>1
    <2>2. CASE i > Len(s)
      <3>1. PICK j : j = i - Len(s)
        OBVIOUS
      <3>2. j \in 1 .. Len(t) /\ Len(s) + j = i
        BY <1>2, <2>2, <3>1
      <3> QED BY <1>2, <3>2
    <2> QED BY <1>2, <2>1, <2>2
  <1>4. /\ \A i \in 1 .. Len(s) : \E j \in 1 .. Len(q) : q[j] = s[i]
        /\ \A i \in 1 .. Len(t) : \E j \in 1 .. Len(q) : q[j] = t[i]
    <2>1. ASSUME NEW i \in 1 .. Len(s)
          PROVE  \E j \in 1 .. Len(q) : q[j] = s[i]
      <3>1. i \in 1 .. Len(q) /\ q[i] = s[i]
        BY <1>2
      <3> QED BY <3>1
    <2>2. ASSUME NEW i \in 1 .. Len(t)
          PROVE  \E j \in 1 .. Len(q) : q[j] = t[i]
      <3>1. Len(s) + i \in 1 .. Len(q) /\ q[Len(s) + i] = t[i]
        BY <1>2
      <3> QED BY <3>1
    <2> QED BY <2>1, <2>2
  <1>5. \A k : k \in KeysOf(q) <=> k \in KeysOf(s) \/ k \in KeysOf(t)
    <2>1. ASSUME NEW k, k \in KeysOf(q)
          PROVE  k \in KeysOf(s) \/ k \in KeysOf(t)
      <3>1. PICK i \in 1 .. Len(q) : k = q[i].key
        BY <2>1 DEF KeysOf
      <3> QED BY <1>3, <3>1 DEF KeysOf
    <2>2. ASSUME NEW k, k \in KeysOf(s)
          PROVE  k \in KeysOf(q)
      <3>1. PICK i \in 1 .. Len(s) : k = s[i].key
        BY <2>2 DEF KeysOf
      <3>2. PICK j \in 1 .. Len(q) : q[j] = s[i]
        BY <1>4
      <3> QED BY <3>1, <3>2 DEF KeysOf
    <2>3. ASSUME NEW k, k \in KeysOf(t)
          PROVE  k \in KeysOf(q)
      <3>1. PICK i \in 1 .. Len(t) : k = t[i].key
        BY <2>3 DEF KeysOf
      <3>2. PICK j \in 1 .. Len(q) : q[j] = t[i]
        BY <1>4
      <3> QED BY <3>1, <3>2 DEF KeysOf
    <2> QED BY <2>1, <2>2, <2>3
  <1>6. ASSUME NEW k
        PROVE  Beyond(k, q) <=> Beyond(k, s) /\ Beyond(k, t)
    <2>1. ASSUME Beyond(k, s), Beyond(k, t), NEW i \in 1 .. Len(q)
          PROVE  q[i].key < k
      BY <1>3, <2>1 DEF Beyond
    <2>2. ASSUME Beyond(k, q), NEW i \in 1 .. Len(s)
          PROVE  s[i].key < k
      <3>1. PICK j \in 1 .. Len(q) : q[j] = s[i]
        BY <1>4
      <3> QED BY <2>2, <3>1 DEF Beyond
    <2>3. ASSUME Beyond(k, q), NEW i \in 1 .. Len(t)
          PROVE  t[i].key < k
      <3>1. PICK j \in 1 .. Len(q) : q[j] = t[i]
        BY <1>4
      <3> QED BY <2>3, <3>1 DEF Beyond
    <2> QED BY <2>1, <2>2, <2>3 DEF Beyond
  <1> QED BY <1>1, <1>5, <1>6

LEMMA ClimbsJoin ==
    ASSUME NEW s \in Seq(Row), NEW t \in Seq(Row), Climbs(s), Climbs(t),
           \A j \in 1 .. Len(t) : Beyond(t[j].key, s)
    PROVE  Climbs(s \o t)
  <1>1. PICK q : q = s \o t
    OBVIOUS
  <1>2. /\ q \in Seq(Row) /\ Len(s) \in Nat /\ Len(t) \in Nat
        /\ Len(q) = Len(s) + Len(t)
        /\ \A i \in 1 .. Len(s) : q[i] = s[i]
        /\ \A i \in 1 .. Len(t) : q[Len(s) + i] = t[i]
    BY <1>1, Joined
  <1>3. ASSUME NEW i \in 1 .. Len(q), ~(i <= Len(s))
        PROVE  i - Len(s) \in 1 .. Len(t) /\ q[i] = t[i - Len(s)]
    <2>1. PICK j : j = i - Len(s)
      OBVIOUS
    <2>2. j \in 1 .. Len(t) /\ Len(s) + j = i
      BY <1>2, <1>3, <2>1
    <2> QED BY <1>2, <2>1, <2>2
  <1>4. ASSUME NEW i \in 1 .. Len(q), NEW j \in 1 .. Len(q), i < j
        PROVE  q[i].key < q[j].key
    <2>1. CASE j <= Len(s)
      <3>1. i \in 1 .. Len(s) /\ j \in 1 .. Len(s)
        BY <1>2, <1>4, <2>1
      <3> QED BY <1>2, <1>4, <3>1 DEF Climbs
    <2>2. CASE i <= Len(s) /\ ~(j <= Len(s))
      <3>1. i \in 1 .. Len(s) /\ q[i] = s[i]
        BY <1>2, <2>2
      <3>2. PICK m \in 1 .. Len(t) : q[j] = t[m]
        BY <1>3, <2>2
      <3> QED BY <3>1, <3>2 DEF Beyond
    <2>3. CASE ~(i <= Len(s)) /\ ~(j <= Len(s))
      <3>1. PICK l : l = i - Len(s)
        OBVIOUS
      <3>2. PICK m : m = j - Len(s)
        OBVIOUS
      <3>3. /\ l \in 1 .. Len(t) /\ q[i] = t[l] /\ m \in 1 .. Len(t) /\ q[j] = t[m]
        BY <1>3, <2>3, <3>1, <3>2
      <3>4. l < m
        BY <1>2, <1>4, <3>1, <3>2
      <3> QED BY <3>3, <3>4 DEF Climbs
    <2> QED BY <1>2, <1>4, <2>1, <2>2, <2>3
  <1> QED BY <1>1, <1>4 DEF Climbs

LEMMA ClimbingIsDistinct ==
    ASSUME NEW q \in Seq(Row), Climbs(q)
    PROVE  Distinct(q)
  <1>1. \A i \in 1 .. Len(q) : q[i].key \in Nat
    <2>1. \A i \in 1 .. Len(q) : q[i] \in Row
      BY ElementOfSeq
    <2> QED BY <2>1, TableAssumption DEF Row
  <1> QED BY <1>1 DEF Climbs, Distinct

\* A prefix of distinct or climbing rows is so too.
LEMMA PrefixIsOrderly ==
    ASSUME NEW s \in Seq(Row), NEW t \in Seq(Row)
    PROVE  /\ Distinct(s \o t) => Distinct(s)
           /\ Climbs(s \o t) => Climbs(s)
  <1>1. PICK q : q = s \o t
    OBVIOUS
  <1>2. /\ Len(s) \in Nat /\ Len(t) \in Nat /\ Len(q) = Len(s) + Len(t)
        /\ \A i \in 1 .. Len(s) : q[i] = s[i]
    BY <1>1, Joined
  <1>3. \A i \in 1 .. Len(s) : i \in 1 .. Len(q)
    BY <1>2
  <1> QED BY <1>1, <1>2, <1>3 DEF Distinct, Climbs

\* The next page in the order of the key.
LEMMA OrderedPage ==
    ASSUME TableInv, read.pc = "fetch", read.ordering = "primary_key",
           NEW P, P = RowsOf(FirstOf(AfterWatermark, PageSize))
    PROVE  /\ P \in Seq(Row) /\ Len(FirstOf(AfterWatermark, PageSize)) = Len(P)
           /\ Len(P) \in Nat /\ Len(P) <= PageSize
           /\ Trusted(read) =>
                 /\ Climbs(read.rows \o P)
                 /\ \A k \in stable : \/ k \in KeysOf(read.rows \o P)
                                      \/ Len(P) = PageSize /\ Beyond(k, read.rows \o P)
  <1>1. PICK rows : rows = read.rows
    OBVIOUS
  <1>2. PICK S : S = {k \in Present : k > Watermark}
    OBVIOUS
  <1>3. PICK s : s = Ascending(S)
    OBVIOUS
  <1>4. S \in SUBSET PrimaryKeys /\ S \in SUBSET Nat /\ IsFiniteSet(S)
    BY <1>2, FS_Subset, TableAssumption DEF Present
  <1>5. /\ Cardinality(S) \in Nat /\ s \in [1 .. Cardinality(S) -> S]
        /\ Rises(s, Cardinality(S))
        /\ \A x \in S : \E i \in 1 .. Cardinality(S) : s[i] = x
    BY <1>3, <1>4, AscendingLists
  <1>6. s \in Seq(PrimaryKeys) /\ Len(s) = Cardinality(S)
    <2>1. s \in [1 .. Cardinality(S) -> PrimaryKeys]
      BY <1>4, <1>5
    <2> QED BY <1>5, <2>1
  <1>7. AfterWatermark = s
    BY <1>2, <1>3 DEF AfterWatermark
  <1>8. PageSize \in Nat /\ PageSize > 0
    BY TableAssumption
  <1>9. /\ P \in Seq(Row) /\ Len(P) = IF Len(s) < PageSize THEN Len(s) ELSE PageSize
        /\ Len(FirstOf(s, PageSize)) = Len(P)
        /\ \A i \in 1 .. Len(P) : P[i].key = s[i]
    BY <1>6, <1>7, <1>8, PageOf DEF TableInv
  <1>10. Len(P) \in Nat /\ Len(s) \in Nat /\ Len(P) <= Len(s) /\ Len(P) <= PageSize
    BY <1>5, <1>6, <1>8, <1>9
  <1>11. rows \in Seq(Row)
    BY <1>1 DEF TableInv, TableTypes, TableReading
  <1>12. ASSUME Trusted(read)
         PROVE  /\ Climbs(rows \o P)
                /\ \A k \in stable : \/ k \in KeysOf(rows \o P)
                                     \/ Len(P) = PageSize /\ Beyond(k, rows \o P)
    <2>1. /\ Climbs(rows) /\ \A k \in PrimaryKeys : Beyond(k, rows) <=> k > Watermark
      BY <1>1, <1>12, LastKeyIsLast, WatermarkIsLastKey
    <2>2. \A i \in 1 .. Len(P) : i \in 1 .. Cardinality(S) /\ s[i] \in S
      BY <1>5, <1>6, <1>10
    <2>3. Climbs(P)
      BY <1>9, <1>5, <2>2 DEF Climbs, Rises
    <2>4. \A i \in 1 .. Len(P) : Beyond(P[i].key, rows)
      BY <1>2, <1>4, <1>9, <2>1, <2>2
    <2>5. Climbs(rows \o P)
      BY <1>9, <1>11, <2>1, <2>3, <2>4, ClimbsJoin
    <2>6. ASSUME NEW k \in stable
           PROVE  \/ k \in KeysOf(rows \o P)
                  \/ Len(P) = PageSize /\ Beyond(k, rows \o P)
      <3>1. k \in Present /\ k \in PrimaryKeys
        BY DEF TableInv, TableTypes, Present
      <3>2. read.page = <<>> /\ Taken(read) = rows
        BY <1>1, <1>11, Joined DEF TableInv, Paged, Taken
      <3>3. k \in KeysOf(rows) \/ Beyond(k, rows)
        BY <1>12, <3>2 DEF TableInv, Covers
      <3>4. CASE k \in KeysOf(rows)
        BY <1>9, <1>11, <3>4, KeysJoin
      <3>5. CASE Beyond(k, rows)
        <4>1. k \in S
          BY <1>2, <2>1, <3>1, <3>5
        <4>2. PICK i \in 1 .. Cardinality(S) : s[i] = k
          BY <1>5, <4>1
        <4>3. CASE i <= Len(P)
          <5>1. i \in 1 .. Len(P)
            BY <1>10, <4>3
          <5>2. k \in KeysOf(P)
            BY <1>9, <4>2, <5>1 DEF KeysOf
          <5> QED BY <1>9, <1>11, <5>2, KeysJoin
        <4>4. CASE i > Len(P)
          <5>1. Len(P) = PageSize
            BY <1>5, <1>6, <1>8, <1>9, <1>10, <4>4
          <5>2. ASSUME NEW j \in 1 .. Len(P)
                PROVE  P[j].key < k
            <6>1. j < i /\ j \in 1 .. Cardinality(S)
              BY <1>5, <1>10, <2>2, <4>4
            <6>2. s[j] < s[i]
              BY <6>1 , <1>5 DEF Rises
            <6> QED BY <1>9, <4>2, <6>2
          <5>3. Beyond(k, P)
            BY <5>2 DEF Beyond
          <5> QED BY <1>9, <1>11, <3>5, <5>1, <5>3, KeysJoin
        <4> QED BY <1>5, <1>10, <4>3, <4>4
      <3> QED BY <3>3, <3>4, <3>5
    <2> QED BY <2>5, <2>6
  <1> QED BY <1>1, <1>7, <1>9, <1>10, <1>12

\* The one page of a table read in the order of its heap.
LEMMA HeapPage ==
    ASSUME TableInv, NEW heap \in SetToSeqs(Present),
           NEW P, P = RowsOf(FirstOf(heap, MaxRows + 1))
    PROVE  /\ P \in Seq(Row) /\ Distinct(P)
           /\ \A k \in stable : k \in KeysOf(P) \/ Len(P) > MaxRows
  <1>1. PICK n : n = Cardinality(Present)
    OBVIOUS
  <1>2. IsFiniteSet(Present) /\ n \in Nat /\ Present \in SUBSET PrimaryKeys
    BY <1>1, FS_Subset, FS_CardinalityType, TableAssumption DEF Present
  <1>3. /\ heap \in [1 .. n -> Present]
        /\ \A i, j \in 1 .. n : i # j => heap[i] # heap[j]
    BY <1>1 DEF SetToSeqs
  <1>4. \A k \in Present : \E i \in 1 .. n : heap[i] = k
    <2>1. heap \in Injection(1 .. n, Present)
      BY <1>3 DEF Injection, IsInjective
    <2>2. Cardinality(1 .. n) = Cardinality(Present)
      <3>1. Cardinality(1 .. n) = IF 1 > n THEN 0 ELSE n - 1 + 1
        BY <1>2, FS_Interval
      <3> QED BY <1>1, <1>2, <3>1
    <2>3. heap \in Surjection(1 .. n, Present)
      BY <1>2, <2>1, <2>2, FS_Injection
    <2> QED BY <2>3 DEF Surjection
  <1>5. heap \in Seq(PrimaryKeys) /\ Len(heap) = n
    <2>1. heap \in [1 .. n -> PrimaryKeys]
      BY <1>2, <1>3
    <2> QED BY <1>2, <2>1
  <1>6. MaxRows + 1 \in Nat /\ MaxRows \in Nat
    BY TableAssumption
  <1>7. /\ P \in Seq(Row) /\ Len(P) = IF Len(heap) < MaxRows + 1 THEN Len(heap) ELSE MaxRows + 1
        /\ \A i \in 1 .. Len(P) : P[i].key = heap[i]
    <2>1. PICK m : m = MaxRows + 1
      OBVIOUS
    <2>2. /\ P \in Seq(Row) /\ Len(P) = IF Len(heap) < m THEN Len(heap) ELSE m
          /\ \A i \in 1 .. Len(P) : P[i].key = heap[i]
      BY <1>5, <1>6, <2>1, PageOf DEF TableInv
    <2> QED BY <2>1, <2>2
  <1>8. Len(P) \in Nat /\ Len(P) <= n
    BY <1>2, <1>5, <1>6, <1>7
  <1>9. \A i \in 1 .. Len(P) : i \in 1 .. n
    BY <1>2, <1>8
  <1>10. Distinct(P)
    BY <1>3, <1>7, <1>9 DEF Distinct
  <1>11. ASSUME NEW k \in stable, ~(Len(P) > MaxRows)
         PROVE  k \in KeysOf(P)
    <2>1. k \in Present
      BY DEF TableInv, TableTypes
    <2>2. PICK i \in 1 .. n : heap[i] = k
      BY <1>4, <2>1
    <2>3. Len(P) = n
      BY <1>2, <1>5, <1>6, <1>7, <1>11
    <2> QED BY <1>7, <2>2, <2>3 DEF KeysOf
  <1> QED BY <1>7, <1>10, <1>11

\* A step of the read keeps the invariant when the read it leaves does.
LEMMA ReadStep ==
    ASSUME TableInv, NEW w \in TableReading, read' = w, Paged(w),
           Trusted(w) => Orderly(w) /\ Covers(w),
           UNCHANGED <<table, rendered, stable>>
    PROVE  TableInv'
  <1>1. TableTypes'
    BY DEF TableInv, TableTypes, Present, TableReading, Row
  <1>2. Trusted(w)' => Trusted(w)
    BY DEF Trusted, KeepsOrder
  <1>3. Covers(w) => Covers(w)'
    BY DEF Covers
  <1> QED BY <1>1, <1>2, <1>3 DEF TableInv

LEMMA FetchStep ==
    ASSUME TableInv, FetchPage
    PROVE  TableInv'
  <1>1. PICK r : r = read
    OBVIOUS
  <1>2. /\ r \in TableReading /\ r.pc = "fetch" /\ UNCHANGED <<table, rendered, stable>>
        /\ Paged(r) /\ r.rows \in Seq(Row) /\ r.page = <<>>
        /\ Trusted(r) => Orderly(r) /\ Covers(r)
        /\ Len(r.rows) \in Nat /\ Taken(r) = r.rows
    <2>1. /\ r \in TableReading /\ r.pc = "fetch" /\ UNCHANGED <<table, rendered, stable>>
          /\ Paged(r) /\ (Trusted(r) => Orderly(r) /\ Covers(r))
      BY <1>1 DEF TableInv, TableTypes, FetchPage
    <2> QED BY <2>1, TakenLength DEF Paged
  <1>3. CASE r.ordering = "primary_key"
    <2>1. PICK page : page = FirstOf(AfterWatermark, PageSize)
      OBVIOUS
    <2>2. PICK P : P = RowsOf(page)
      OBVIOUS
    <2>3. /\ P \in Seq(Row) /\ Len(page) = Len(P) /\ Len(P) \in Nat /\ Len(P) <= PageSize
          /\ Trusted(r) =>
                /\ Climbs(r.rows \o P)
                /\ \A k \in stable : \/ k \in KeysOf(r.rows \o P)
                                     \/ Len(P) = PageSize /\ Beyond(k, r.rows \o P)
      BY <1>1, <1>2, <1>3, <2>1, <2>2, OrderedPage
    <2>4. PICK pc : pc = IF page = <<>> THEN "probe" ELSE "examine"
      OBVIOUS
    <2>5. PICK full \in BOOLEAN : full <=> Len(page) = PageSize
      OBVIOUS
    <2>6. PICK w : w = [r EXCEPT !.pc = pc, !.page = P, !.full = full]
      OBVIOUS
    <2>7. /\ w \in TableReading /\ w.pc = pc /\ w.page = P /\ w.rows = r.rows
          /\ w.ordering = r.ordering
      BY <1>2, <2>3, <2>4, <2>5, <2>6 DEF TableReading
    <2>8. w.full <=> Len(P) = PageSize
      <3>1. w.full = full
        BY <1>2, <2>6 DEF TableReading
      <3> QED BY <2>3, <2>5, <3>1
    <2>9. read' = w
      <3>1. full = (Len(page) = PageSize)
        BY <2>5
      <3> QED BY <1>1, <1>2, <1>3, <2>1, <2>2, <2>4, <2>6, <3>1 DEF FetchPage
    <2>10. page = <<>> => P = <<>>
      BY <2>3, EmptySeq
    <2>11. /\ Len(Taken(w)) = Len(r.rows) + Len(P) /\ (r.rows = <<>> => Len(r.rows) = 0)
           /\ r.rows = <<>> \/ Len(r.rows) >= PageSize
           /\ w.pc = "probe" => Len(P) = 0 /\ w.page = <<>>
           /\ w.pc # "probe" => w.pc = "examine" /\ Len(P) > 0
      <3>1. Len(<<>>) = 0 /\ (page # <<>> => P # <<>>)
        BY <2>2, <2>3, EmptySeq
      <3>2. P # <<>> => Len(P) > 0
        BY <2>3, EmptySeq
      <3> QED BY <1>2, <1>3, <2>4, <2>7, <2>10, <3>1, <3>2, TakenLength DEF Paged
    <2>12. Paged(w)
      <3>1. w.full => Len(Taken(w)) >= PageSize
        BY <1>2, <2>3, <2>8, <2>11, TableAssumption
      <3>2. Len(Taken(w)) <= PageSize \/ Len(w.rows) >= PageSize
        BY <1>2, <2>3, <2>7, <2>11, TableAssumption
      <3> QED BY <1>2, <2>7, <2>11, <3>1, <3>2 DEF Paged
    <2>13. ASSUME Trusted(w)
           PROVE  Trusted(r)
      <3>1. CASE Len(Taken(w)) < PageSize
        <4>1. Len(r.rows) < PageSize
          BY <1>2, <2>3, <2>11, <3>1, TableAssumption
        <4> QED BY <1>2, <4>1 DEF Trusted
      <3>2. CASE w.pc = "examine" /\ Len(Taken(w)) = PageSize
        <4>1. Len(r.rows) < PageSize
          <5>1. Len(P) > 0
            BY <2>11, <3>2
          <5> QED BY <1>2, <2>3, <2>11, <3>2, <5>1, TableAssumption
        <4> QED BY <1>2, <4>1 DEF Trusted
      <3> QED BY <1>3, <2>7, <2>13, <3>1, <3>2 DEF Trusted
    <2>14. Trusted(w) => Orderly(w)
      <3>1. r.rows \o P \in Seq(Row)
        BY <1>2, <2>3, Joined
      <3>2. Trusted(w) => Climbs(r.rows \o P) /\ Distinct(r.rows \o P)
        BY <2>3, <2>13, <3>1, ClimbingIsDistinct
      <3> QED BY <2>7, <3>2 DEF Orderly, Taken
    <2>15. ASSUME Trusted(w)
           PROVE  Covers(w)
      <3>1. CASE page = <<>>
        <4>1. P = <<>> /\ w.pc = "probe" /\ Len(P) # PageSize
          <5>1. Len(<<>>) = 0
            BY EmptySeq
          <5> QED BY <2>4, <2>7, <2>10, <3>1, <5>1, TableAssumption
        <4>2. r.rows \o P = r.rows
          BY <1>2, <4>1, Joined
        <4>3. stable \subseteq KeysOf(w.rows)
          BY <2>3, <2>7, <2>13, <2>15, <4>1, <4>2
        <4> QED BY <4>1, <4>3 DEF Covers
      <3>2. CASE page # <<>>
        <4>1. w.pc = "examine" /\ w.ordering = "primary_key" /\ Taken(w) = r.rows \o P
          BY <1>3, <2>4, <2>7, <3>2 DEF Taken
        <4> QED BY <2>3, <2>8, <2>13, <2>15, <4>1 DEF Covers
      <3> QED BY <3>1, <3>2
    <2> QED BY <1>2, <2>7, <2>9, <2>12, <2>14, <2>15, ReadStep
  <1>4. CASE r.ordering = "none"
    <2>1. PICK heap \in SetToSeqs(Present) :
              read' = [r EXCEPT !.pc = "examine", !.page = RowsOf(FirstOf(heap, MaxRows + 1))]
      BY <1>1, <1>4 DEF FetchPage
    <2>2. PICK P : P = RowsOf(FirstOf(heap, MaxRows + 1))
      OBVIOUS
    <2>3. /\ P \in Seq(Row) /\ Distinct(P)
          /\ \A k \in stable : k \in KeysOf(P) \/ Len(P) > MaxRows
      BY <2>2, HeapPage
    <2>4. PICK w : w = [r EXCEPT !.pc = "examine", !.page = P]
      OBVIOUS
    <2>5. /\ w \in TableReading /\ w.pc = "examine" /\ w.page = P /\ w.rows = r.rows
          /\ w.ordering = "none"
      BY <1>2, <1>4, <2>3, <2>4 DEF TableReading
    <2>6. r.rows = <<>>
      BY <1>2, <1>4 DEF Covers, Trusted
    <2>7. Taken(w) = P
      BY <2>3, <2>5, <2>6, ConcatEmptySeq DEF Taken
    <2>8. Orderly(w) /\ Paged(w)
      BY <1>2, <2>3, <2>5, <2>7 DEF Orderly, Paged
    <2>9. Covers(w)
      BY <2>3, <2>5, <2>7 DEF Covers
    <2> QED BY <1>2, <2>1, <2>2, <2>4, <2>5, <2>8, <2>9, ReadStep
  <1> QED BY <1>2, <1>3, <1>4 DEF TableReading, Ordering

LEMMA ExamineStep ==
    ASSUME TableInv, NEW late \in BOOLEAN, ExamineRow(late)
    PROVE  TableInv'
  <1>1. PICK r : r = read
    OBVIOUS
  <1>2. /\ r \in TableReading /\ r.pc = "examine" /\ UNCHANGED <<table, rendered, stable>>
        /\ Paged(r) /\ r.rows \in Seq(Row) /\ r.page \in Seq(Row)
        /\ Trusted(r) => Orderly(r) /\ Covers(r)
        /\ r.page # <<>> /\ r.bytes \in Nat
        /\ Len(r.rows) \in Nat /\ Len(Taken(r)) \in Nat
    <2>1. /\ r \in TableReading /\ r.pc = "examine" /\ UNCHANGED <<table, rendered, stable>>
          /\ Paged(r) /\ (Trusted(r) => Orderly(r) /\ Covers(r))
          /\ r.page # <<>>
      BY <1>1 DEF TableInv, TableTypes, ExamineRow
    <2>2. r.bytes \in Nat
      BY <2>1 DEF TableReading
    <2>3. PICK t : t = Taken(r)
      OBVIOUS
    <2>4. /\ r.rows \in Seq(Row) /\ r.page \in Seq(Row) /\ t \in Seq(Row)
          /\ Len(r.rows) \in Nat
      BY <2>1, <2>3, TakenLength
    <2>5. Len(t) \in Nat
      BY <2>4, LenProperties
    <2> QED BY <2>1, <2>2, <2>3, <2>4, <2>5
  <1>3. PICK row : row = Head(r.page)
    OBVIOUS
  <1>4. CASE Refuses(row, late)
    <2>1. PICK w : w = [r EXCEPT !.pc = "done", !.truncated = TRUE, !.page = <<>>]
      OBVIOUS
    <2>2. <<>> \in Seq(Row)
      BY EmptySeq
    <2>3. /\ w \in TableReading /\ w.pc = "done" /\ w.page = <<>> /\ w.rows = r.rows
          /\ w.ordering = r.ordering
      BY <1>2, <2>1, <2>2 DEF TableReading
    <2>4. w.truncated
      BY <1>2, <2>1 DEF TableReading
    <2>5. read' = w
      BY <1>1, <1>3, <1>4, <2>1 DEF ExamineRow
    <2>6. Taken(w) = r.rows
      BY <1>2, <2>3, Joined DEF Taken
    <2>7. Paged(w)
      BY <1>2, <2>3 DEF Paged
    <2>8. Trusted(w) => Trusted(r) /\ Orderly(r) /\ Covers(r)
      <3>1. ASSUME Len(r.rows) < PageSize, r.ordering = "primary_key"
            PROVE  Len(Taken(r)) < PageSize \/ Len(Taken(r)) = PageSize
        BY <1>2, <3>1, TableAssumption DEF Paged
      <3>2. r.ordering \in {"primary_key", "none"}
        BY <1>2 DEF TableReading, Ordering
      <3>3. Trusted(w) => Trusted(r)
        BY <1>2, <2>3, <2>6, <3>1, <3>2 DEF Trusted
      <3> QED BY <1>2, <3>3
    <2>9. Trusted(w) => Orderly(w)
      <3>1. Trusted(w) => Distinct(r.rows) /\ (r.ordering = "primary_key" => Climbs(r.rows))
        BY <1>2, <2>8, PrefixIsOrderly DEF Orderly, Taken
      <3> QED BY <2>3, <2>6, <3>1 DEF Orderly
    <2>10. ASSUME Trusted(w), r.ordering = "primary_key", NEW k \in stable
          PROVE  k \in KeysOf(r.rows) \/ Beyond(k, r.rows)
      <3>1. k \in KeysOf(r.rows \o r.page) \/ Beyond(k, r.rows \o r.page)
        BY <1>2, <2>10, <2>8 DEF Covers, Taken
      <3>2. CASE Beyond(k, r.rows \o r.page)
        BY <1>2, <3>2, KeysJoin
      <3>3. CASE k \in KeysOf(r.page)
        <4>1. PICK j \in 1 .. Len(r.page) : k = r.page[j].key
          BY <3>3 DEF KeysOf
        <4>2. PICK q : q = r.rows \o r.page
          OBVIOUS
        <4>3. /\ Len(r.rows) \in Nat /\ Len(r.page) \in Nat
              /\ Len(q) = Len(r.rows) + Len(r.page)
              /\ \A i \in 1 .. Len(r.rows) : q[i] = r.rows[i]
              /\ q[Len(r.rows) + j] = r.page[j]
          BY <1>2, <4>2, Joined
        <4>4. ASSUME NEW i \in 1 .. Len(r.rows)
              PROVE  r.rows[i].key < k
          <5>1. PICK m : m = Len(r.rows) + j
            OBVIOUS
          <5>2. i \in 1 .. Len(q) /\ m \in 1 .. Len(q) /\ i < m
            <6>1. PICK n \in Nat : n = Len(r.rows)
              BY <4>3
            <6>2. PICK l \in Nat : l = Len(r.page)
              BY <4>3
            <6>3. i \in 1 .. n /\ j \in 1 .. l /\ m = n + j /\ Len(q) = n + l
              BY <4>3, <5>1, <6>1, <6>2
            <6>4. i \in 1 .. n + l /\ m \in 1 .. n + l /\ i < m
              BY <6>3
            <6> QED BY <6>3, <6>4
          <5>3. q[i].key < q[m].key
            BY <1>2, <2>10, <2>8, <4>2, <5>2 DEF Orderly, Climbs, Taken
          <5> QED BY <4>1, <4>3, <5>1, <5>3
        <4> QED BY <4>4 DEF Beyond
      <3> QED BY <1>2, <3>1, <3>2, <3>3, KeysJoin
    <2>11. Trusted(w) => Covers(w)
      BY <2>3, <2>4, <2>10 DEF Covers
    <2> QED BY <1>2, <2>3, <2>5, <2>7, <2>11, <2>9, ReadStep
  <1>5. CASE ~Refuses(row, late)
    <2>1. PICK rows : rows = Append(r.rows, row)
      OBVIOUS
    <2>2. /\ row \in Row /\ Tail(r.page) \in Seq(Row) /\ rows \in Seq(Row)
          /\ Len(rows) = Len(r.rows) + 1 /\ rows \o Tail(r.page) = r.rows \o r.page
      BY <1>2, <1>3, <2>1, RowMoves
    <2>3. PICK bytes : bytes = r.bytes + row.size
      OBVIOUS
    <2>4. bytes \in Nat
      <3>1. row.size \in Nat
        BY <2>2 DEF Row
      <3> QED BY <1>2, <2>3, <3>1
    <2>5. PICK w : w = [r EXCEPT !.rows = rows, !.bytes = bytes, !.page = Tail(r.page)]
      OBVIOUS
    <2>6. /\ w \in TableReading /\ w.pc = "examine" /\ w.page = Tail(r.page) /\ w.rows = rows
          /\ w.ordering = r.ordering
      BY <1>2, <2>2, <2>4, <2>5 DEF TableReading
    <2>7. w.full <=> r.full
      BY <1>2, <2>5 DEF TableReading
    <2>8. read' = w
      BY <1>1, <1>2, <1>3, <1>5, <2>1, <2>3, <2>5 DEF ExamineRow, TableReading
    <2>9. Taken(w) = Taken(r)
      BY <2>2, <2>6 DEF Taken
    <2>10. Len(rows) <= MaxRows
      <3>1. ~(Len(r.rows) >= MaxRows)
        BY <1>1, <1>5 DEF Refuses
      <3>2. Len(r.rows) \in Nat /\ MaxRows \in Nat
        BY <1>2, LenProperties, TableAssumption
      <3> QED BY <2>2, <3>1, <3>2
    <2>11. Paged(w)
      <3>1. Len(r.rows) >= PageSize => Len(rows) >= PageSize
        BY <1>2, <2>2, TableAssumption
      <3> QED BY <1>2, <2>6, <2>7, <2>9, <2>10, <3>1 DEF Paged
    <2>12. Trusted(w) => Orderly(w) /\ Covers(w)
      <3>1. Trusted(w) => Trusted(r)
        BY <1>2, <2>6, <2>9 DEF Trusted
      <3>2. Orderly(r) => Orderly(w)
        BY <2>6, <2>9 DEF Orderly
      <3>3. Covers(r) => Covers(w)
        BY <1>2, <2>6, <2>7, <2>9 DEF Covers
      <3> QED BY <1>2, <3>1, <3>2, <3>3
    <2> QED BY <1>2, <2>6, <2>8, <2>11, <2>12, ReadStep
  <1> QED BY <1>4, <1>5

LEMMA PageEnds ==
    ASSUME TableInv, EndOfPage
    PROVE  TableInv'
  <1>1. PICK r : r = read
    OBVIOUS
  <1>2. /\ r \in TableReading /\ r.pc = "examine" /\ UNCHANGED <<table, rendered, stable>>
        /\ Paged(r) /\ (Trusted(r) => Orderly(r) /\ Covers(r))
        /\ r.rows \in Seq(Row) /\ r.page = <<>>
    BY <1>1 DEF TableInv, TableTypes, TableReading, EndOfPage
  <1>3. PICK pc : pc = IF r.ordering = "none" THEN "done"
                       ELSE IF r.full THEN "fetch" ELSE "probe"
    OBVIOUS
  <1>4. PICK w : w = [r EXCEPT !.pc = pc]
    OBVIOUS
  <1>5. /\ w \in TableReading /\ w.pc = pc /\ w.page = r.page /\ w.rows = r.rows
        /\ w.ordering = r.ordering
    BY <1>2, <1>3, <1>4 DEF TableReading
  <1>6. read' = w
    BY <1>1, <1>3, <1>4 DEF EndOfPage
  <1>7. Taken(r) = r.rows /\ Taken(w) = r.rows
    BY <1>2, <1>5, Joined DEF Taken
  <1>8. Orderly(r) => Orderly(w)
    BY <1>5, <1>7 DEF Orderly
  <1>9. r.ordering \in {"primary_key", "none"}
    BY <1>2 DEF TableReading, Ordering
  <1>10. Paged(w)
    BY <1>2, <1>3, <1>5, <1>7, <1>9 DEF Paged
  <1>11. ASSUME Trusted(w), KeepsOrder \/ r.ordering = "none" \/ ~r.full
         PROVE  Trusted(r) /\ Orderly(r) /\ Covers(r)
    <2>1. w.pc # "examine"
      BY <1>3, <1>5
    <2>2. Trusted(r)
      BY <1>5, <1>7, <1>11, <2>1 DEF Trusted
    <2> QED BY <1>2, <2>2
  <1>12. CASE r.ordering = "none"
    <2>1. Trusted(r) /\ Orderly(r) /\ Covers(r)
      BY <1>2, <1>12 DEF Trusted
    <2>2. ~(Len(r.rows) > MaxRows)
      <3>1. Len(r.rows) \in Nat /\ MaxRows \in Nat /\ Len(r.rows) <= MaxRows
        BY <1>2, LenProperties, TableAssumption DEF Paged
      <3> QED BY <3>1
    <2>3. stable \subseteq KeysOf(r.rows)
      BY <1>2, <1>7, <1>12, <2>2, <2>1 DEF Covers
    <2>4. w.pc = "done" /\ w.ordering = "none"
      BY <1>3, <1>5, <1>12
    <2>5. Covers(w)
      BY <1>5, <2>3, <2>4 DEF Covers
    <2> QED BY <1>2, <1>5, <1>6, <1>8, <1>10, <2>5, <2>1, ReadStep
  <1>13. CASE r.ordering = "primary_key" /\ r.full
    <2>1. w.pc = "fetch" /\ w.ordering = "primary_key"
      BY <1>3, <1>5, <1>13
    <2>2. Trusted(w) => Trusted(r) /\ Orderly(r) /\ Covers(r)
      <3>1. Len(r.rows) \in Nat /\ Len(r.rows) >= PageSize
        BY <1>2, <1>7, <1>13, LenProperties DEF Paged
      <3>2. ~(Len(Taken(w)) < PageSize)
        BY <1>7, <3>1, TableAssumption
      <3>3. Trusted(w) => KeepsOrder
        BY <1>13, <2>1, <3>2 DEF Trusted
      <3> QED BY <1>11, <3>3
    <2>3. Trusted(w) => Covers(w)
      <3>1. Covers(r) => \A k \in stable : k \in KeysOf(r.rows) \/ Beyond(k, r.rows)
        BY <1>2, <1>7, <1>13 DEF Covers
      <3> QED BY <1>7, <2>1, <2>2, <3>1 DEF Covers
    <2> QED BY <1>2, <1>5, <1>6, <1>8, <1>10, <2>2, <2>3, ReadStep
  <1>14. CASE r.ordering = "primary_key" /\ ~r.full
    <2>1. w.pc = "probe" /\ w.ordering = "primary_key"
      BY <1>3, <1>5, <1>14
    <2>2. Trusted(w) => Orderly(r) /\ Covers(r)
      BY <1>14, <1>11
    <2>3. Trusted(w) => Covers(w)
      <3>1. Covers(r) => stable \subseteq KeysOf(r.rows)
        BY <1>2, <1>7, <1>14 DEF Covers
      <3> QED BY <1>5, <2>1, <2>2, <3>1 DEF Covers
    <2> QED BY <1>2, <1>5, <1>6, <1>8, <1>10, <2>2, <2>3, ReadStep
  <1> QED BY <1>9, <1>12, <1>13, <1>14

LEMMA ProbeStep ==
    ASSUME TableInv, Probe
    PROVE  TableInv'
  <1>1. PICK r : r = read
    OBVIOUS
  <1>2. /\ r \in TableReading /\ r.pc = "probe" /\ UNCHANGED <<table, rendered, stable>>
        /\ Paged(r) /\ (Trusted(r) => Orderly(r) /\ Covers(r))
    BY <1>1 DEF TableInv, TableTypes, Probe
  <1>3. PICK truncated \in BOOLEAN : read' = [r EXCEPT !.pc = "done", !.truncated = truncated]
    BY <1>1 DEF Probe
  <1>4. PICK w : w = [r EXCEPT !.pc = "done", !.truncated = truncated]
    OBVIOUS
  <1>5. /\ w \in TableReading /\ w.pc = "done" /\ w.page = r.page /\ w.rows = r.rows
        /\ w.ordering = r.ordering
    BY <1>2, <1>3, <1>4 DEF TableReading
  <1>6. Paged(w) /\ (Orderly(r) => Orderly(w)) /\ (Trusted(w) => Trusted(r))
    BY <1>2, <1>5 DEF Paged, Orderly, Trusted, Taken
  <1>7. Covers(r) => stable \subseteq KeysOf(w.rows)
    BY <1>2, <1>5 DEF Covers
  <1>8. Covers(r) => Covers(w)
    BY <1>5, <1>7 DEF Covers
  <1> QED BY <1>2, <1>3, <1>4, <1>5, <1>6, <1>8, ReadStep

LEMMA NewReads ==
    ASSUME NEW ordering \in Ordering, NEW pc \in {"idle", "fetch"},
           NEW w, w = [NewRead(ordering) EXCEPT !.pc = pc]
    PROVE  /\ w \in TableReading /\ w.rows = <<>> /\ w.page = <<>> /\ w.pc = pc
           /\ Paged(w) /\ Orderly(w) /\ Taken(w) = <<>> /\ \A k : Beyond(k, <<>>)
  <1>1. <<>> \in Seq(Row) /\ Len(<<>>) = 0
    BY EmptySeq
  <1>2. w \in TableReading /\ w.rows = <<>> /\ w.page = <<>> /\ w.pc = pc
    BY <1>1 DEF NewRead, TableReading
  <1>3. Taken(w) = <<>>
    BY <1>1, <1>2, ConcatEmptySeq DEF Taken
  <1>4. Distinct(<<>>) /\ Climbs(<<>>) /\ \A k : Beyond(k, <<>>)
    BY <1>1 DEF Distinct, Climbs, Beyond
  <1>5. Paged(w)
    BY <1>1, <1>2, TableAssumption DEF Paged
  <1> QED BY <1>2, <1>3, <1>4, <1>5 DEF Orderly

LEMMA StartStep ==
    ASSUME TableInv, NEW ordering \in Ordering, StartRead(ordering)
    PROVE  TableInv'
  <1>1. PICK w : w = [NewRead(ordering) EXCEPT !.pc = "fetch"]
    OBVIOUS
  <1>2. w = NewRead(ordering)
    BY <1>1 DEF NewRead
  <1>3. /\ w \in TableReading /\ w.rows = <<>> /\ w.page = <<>> /\ w.pc = "fetch"
        /\ Paged(w) /\ Orderly(w) /\ Taken(w) = <<>> /\ \A k : Beyond(k, <<>>)
    BY <1>1, NewReads
  <1>4. read' = w /\ stable' = Present /\ UNCHANGED <<table, rendered>>
    BY <1>2 DEF StartRead
  <1>5. TableTypes'
    BY <1>3, <1>4 DEF TableInv, TableTypes, Present, TableReading, Row
  <1>6. Covers(w)'
    BY <1>3 DEF Covers
  <1> QED BY <1>3, <1>4, <1>5, <1>6 DEF TableInv

\* A read that is given up leaves nothing.
LEMMA FailStep ==
    ASSUME TableInv, ReadFails
    PROVE  TableInv'
  <1>1. "none" \in Ordering
    BY DEF Ordering
  <1>2. PICK w : w = IdleRead
    OBVIOUS
  <1>3. w \in TableReading /\ w.pc = "idle" /\ Paged(w) /\ Orderly(w)
    BY <1>1, <1>2, NewReads DEF IdleRead
  <1>4. read' = w /\ stable' = {} /\ UNCHANGED <<table, rendered>>
    BY <1>2 DEF ReadFails
  <1>5. TableTypes'
    BY <1>3, <1>4 DEF TableInv, TableTypes, Present, TableReading, Row
  <1>6. Covers(w)'
    BY <1>3 DEF Covers
  <1> QED BY <1>3, <1>4, <1>5, <1>6 DEF TableInv

LEMMA EditStep ==
    ASSUME TableInv, NEW k \in PrimaryKeys, NEW size \in RowSizes \cup {0}, Edit(k, size)
    PROVE  TableInv'
  <1>1. /\ table' = [table EXCEPT ![k] = size] /\ stable' = stable \ {k}
        /\ UNCHANGED <<rendered, read>>
        /\ table \in [PrimaryKeys -> Nat] /\ size \in Nat
    BY TableAssumption DEF Edit, TableInv, TableTypes
  <1>2. stable' \in SUBSET Present'
    BY <1>1 DEF TableInv, TableTypes, Present
  <1>3. TableTypes'
    BY <1>1, <1>2 DEF TableInv, TableTypes, TableReading, Row
  <1>4. stable' \subseteq stable
    BY <1>1
  <1>5. Trusted(read)' => Trusted(read)
    BY <1>1 DEF Trusted, KeepsOrder, Taken
  <1>6. Covers(read) => Covers(read)'
    BY <1>1, <1>4 DEF Covers, Taken
  <1>7. Paged(read)' /\ (Orderly(read) => Orderly(read)')
    BY <1>1 DEF TableInv, Paged, Orderly, Taken
  <1> QED BY <1>3, <1>5, <1>6, <1>7 DEF TableInv

LEMMA TableInvariant == TableSpec => []TableInv
  <1>1. TableInit => TableInv
    <2> SUFFICES ASSUME TableInit PROVE TableInv
      OBVIOUS
    <2>1. "none" \in Ordering
      BY DEF Ordering
    <2>2. PICK w : w = IdleRead
      OBVIOUS
    <2>3. w \in TableReading /\ w.pc = "idle" /\ Paged(w) /\ Orderly(w)
      BY <2>1, <2>2, NewReads DEF IdleRead
    <2>4. /\ read = w /\ stable = {} /\ table \in [PrimaryKeys -> Nat]
          /\ rendered \in [PrimaryKeys -> Nat]
      <3>1. read = w /\ stable = {}
        BY <2>2 DEF TableInit
      <3>2. rendered \in [PrimaryKeys -> Nat]
        BY TableAssumption DEF TableInit
      <3>3. table \in [PrimaryKeys -> Nat]
        <4>1. RowSizes \cup {0} \subseteq Nat
          BY TableAssumption
        <4> QED BY <4>1 DEF TableInit
      <3> QED BY <3>1, <3>2, <3>3
    <2>5. Covers(w)
      BY <2>3 DEF Covers
    <2> QED BY <2>3, <2>4, <2>5 DEF TableInv, TableTypes
  <1>2. TableInv /\ [TableNext]_tableVars => TableInv'
    <2> SUFFICES ASSUME TableInv, [TableNext]_tableVars
                 PROVE  TableInv'
      OBVIOUS
    <2>1. CASE UNCHANGED tableVars
      <3>1. UNCHANGED <<table, rendered, read, stable>>
        BY <2>1 DEF tableVars
      <3>2. TableTypes'
        BY <3>1 DEF TableInv, TableTypes, Present, TableReading, Row
      <3>3. Trusted(read)' => Trusted(read)
        BY <3>1 DEF Trusted, KeepsOrder, Taken
      <3>4. Covers(read) => Covers(read)'
        BY <3>1 DEF Covers, Taken
      <3>5. Paged(read)' /\ (Orderly(read) => Orderly(read)')
        BY <3>1 DEF TableInv, Paged, Orderly, Taken
      <3> QED BY <3>2, <3>3, <3>4, <3>5 DEF TableInv
    <2> QED BY <2>1, EditStep, StartStep, FetchStep, ExamineStep, PageEnds, ProbeStep,
               FailStep
            DEF TableNext
  <1> QED BY <1>1, <1>2, PTL DEF TableSpec

\* Distinct keys are as many as the rows.
LEMMA DistinctCount ==
    ASSUME NEW q \in Seq(Row), Distinct(q)
    PROVE  Cardinality(KeysOf(q)) = Len(q)
  <1>1. PICK n : n = Len(q)
    OBVIOUS
  <1>2. n \in Nat
    BY <1>1, LenProperties
  <1>3. PICK f : f = [i \in 1 .. n |-> q[i].key]
    OBVIOUS
  <1>4. f \in [1 .. n -> KeysOf(q)] /\ \A t \in KeysOf(q) : \E i \in 1 .. n : f[i] = t
    BY <1>1, <1>3 DEF KeysOf
  <1>5. ASSUME NEW i \in 1 .. n, NEW j \in 1 .. n, f[i] = f[j]
        PROVE  i = j
    <2>1. q[i].key = q[j].key
      BY <1>3, <1>5
    <2>2. ~(i < j) /\ ~(j < i)
      BY <1>1, <2>1 DEF Distinct
    <2> QED BY <1>2, <2>2
  <1>6. f \in Bijection(1 .. n, KeysOf(q))
    BY <1>4, <1>5, Fun_IsBij
  <1>7. ExistsBijection(1 .. n, KeysOf(q))
    BY <1>6, Fun_ExistsBij
  <1> QED BY <1>1, <1>2, <1>7, FS_CountingElements

\* Whatever the table, the limits and what other sessions do between the pages:
\* a finished read has no row twice, and every row that stood all the while was
\* read, up to the last key when the batch says it is truncated and altogether
\* when it does not (_read_bounded of the PostgreSQL source).  So it is for any
\* key whose JSON form compares like the key, and for every key as long as the
\* read ends within its first page; with other keys a later page may start
\* anywhere, and rows are lost or read twice without a word.
THEOREM NothingLostSilently == TableSpec => []NothingIsLostSilently
  <1>1. TableInv => NothingIsLostSilently
    <2> SUFFICES ASSUME TableInv, read.pc = "done",
                        \/ KeepsOrder \/ read.ordering = "none"
                        \/ Len(read.rows) < PageSize
                 PROVE  /\ Cardinality(ReadKeys) = Len(read.rows)
                        /\ ~read.truncated => stable \subseteq ReadKeys
                        /\ read.ordering = "primary_key" =>
                              {k \in stable : k <= LastKey} \subseteq ReadKeys
      BY DEF NothingIsLostSilently
    <2>1. Taken(read) = read.rows
      BY TakenLength DEF TableInv, TableTypes, Paged
    <2>2. Trusted(read) /\ Orderly(read) /\ Covers(read)
      BY <2>1 DEF TableInv, Trusted
    <2>3. ReadKeys = KeysOf(read.rows)
      BY DEF ReadKeys, KeysOf
    <2>4. read.rows \in Seq(Row)
      BY DEF TableInv, TableTypes, TableReading
    <2>5. Distinct(read.rows)
      BY <2>1, <2>2 DEF Orderly
    <2>6. Cardinality(ReadKeys) = Len(read.rows)
      BY <2>3, <2>4, <2>5, DistinctCount
    <2>7. ASSUME read.ordering = "primary_key", NEW k \in stable, k <= LastKey
          PROVE  k \in ReadKeys
      <3>1. k \in PrimaryKeys /\ k \in Nat
        BY TableAssumption DEF TableInv, TableTypes, Present
      <3>2. LastKey \in Nat /\ (Beyond(k, read.rows) <=> k > LastKey)
        BY <2>7, <2>2, <3>1, LastKeyIsLast
      <3>3. k \in KeysOf(read.rows) \/ Beyond(k, read.rows)
        BY <2>7, <2>2 DEF Covers
      <3> QED BY <2>3, <2>7, <3>1, <3>2, <3>3
    <2>8. ~read.truncated => stable \subseteq ReadKeys
      BY <2>3, <2>2 DEF Covers
    <2> QED BY <2>6, <2>7, <2>8
  <1> QED BY <1>1, TableInvariant, PTL
=============================================================================
