------------------------------ MODULE TableRead ------------------------------
(***************************************************************************)
(* The bounded read of one PostgreSQL table by _read_bounded: keyset paging*)
(* over a single-column primary key, each page a statement with a snapshot *)
(* of its own, while other sessions insert, delete and resize rows.  The   *)
(* read stops at a row, byte or time limit and says whether it left        *)
(* anything out.  A table without such a key is read by one statement.     *)
(* The next page starts after the last row's key as JSON has it, which the *)
(* database compares with the keys: where that value stands among them is  *)
(* rendered, and depends on the type of the column.                        *)
(***************************************************************************)
EXTENDS Naturals, Sequences, FiniteSets, SequencesExt, Ordered

CONSTANTS
    PrimaryKeys,  \* key values, in the order of the key
    RowSizes,     \* encoded sizes a row may have
    Conversions,  \* for each type of key column, where _json_primitive of a
                  \* key stands among the keys
    PageSize,     \* limits.page_size
    MaxRows,      \* limits.max_rows
    MaxBytes,     \* limits.max_bytes
    MaxEdits      \* bound: changes made to the table

ASSUME TableAssumption ==
    /\ PrimaryKeys \in SUBSET (Nat \ {0}) /\ IsFiniteSet(PrimaryKeys)
    /\ RowSizes \subseteq Nat
    /\ Conversions \subseteq [PrimaryKeys -> Nat]
    /\ PageSize \in Nat \ {0} /\ MaxRows \in Nat \ {0} /\ MaxBytes \in Nat \ {0}
    /\ MaxEdits \in Nat

VARIABLES
    table,     \* key -> size of its row, 0 when there is none
    rendered,  \* the conversion of this table's keys
    edits,     \* changes so far
    read,      \* the read in progress
    stable     \* history: keys with an unchanged row since the read began

tableVars == <<table, rendered, edits, read, stable>>

Present == {k \in PrimaryKeys : table[k] > 0}
Ordering == {"primary_key", "none"}

\* page: rows fetched and not yet examined; full: the page was a full one.
NewRead(ordering) ==
    [pc |-> "fetch", ordering |-> ordering, rows |-> <<>>, bytes |-> 0,
     page |-> <<>>, full |-> FALSE, truncated |-> FALSE]

IdleRead == [NewRead("none") EXCEPT !.pc = "idle"]

TableInit ==
    /\ table \in [PrimaryKeys -> RowSizes \cup {0}]
    /\ rendered \in Conversions
    /\ edits = 0
    /\ read = IdleRead
    /\ stable = {}

\* Another session inserts, deletes or rewrites a row.
Edit(k, size) ==
    /\ edits < MaxEdits /\ size # table[k]
    /\ table' = [table EXCEPT ![k] = size]
    /\ edits' = edits + 1
    /\ stable' = stable \ {k}
    /\ UNCHANGED <<rendered, read>>

StartRead(ordering) ==
    /\ read.pc = "idle"
    /\ read' = NewRead(ordering)
    /\ stable' = Present
    /\ UNCHANGED <<table, rendered, edits>>

\* The converted key of the last row taken; every key is above it at the start.
Watermark ==
    IF read.rows = <<>> THEN 0 ELSE Last(read.rows).cell

\* _row_to_dict: the batch holds the cells, the keys are the database's.
RowsOf(keys) ==
    [i \in 1 .. Len(keys) |->
        [key |-> keys[i], cell |-> rendered[keys[i]], size |-> table[keys[i]]]]
FirstOf(s, n) == SubSeq(s, 1, IF Len(s) < n THEN Len(s) ELSE n)

\* Fault: the page starts at the watermark instead of after it.
FromWatermark == Ascending({k \in Present : k >= Watermark})

AfterWatermark == Ascending({k \in Present : k > Watermark})

\* ORDER BY the key with LIMIT page_size, or one statement with LIMIT
\* max_rows + 1 in whatever order the heap has.
FetchPage ==
    /\ read.pc = "fetch"
    /\ \/ /\ read.ordering = "primary_key"
          /\ LET page == FirstOf(AfterWatermark, PageSize)
             IN  read' = [read EXCEPT
                    !.pc = IF page = <<>> THEN "probe" ELSE "examine",
                    !.page = RowsOf(page), !.full = Len(page) = PageSize]
       \/ /\ read.ordering = "none"
          /\ \E heap \in SetToSeqs(Present) :
                read' = [read EXCEPT
                    !.pc = "examine",
                    !.page = RowsOf(FirstOf(heap, MaxRows + 1))]
    /\ UNCHANGED <<table, rendered, edits, stable>>

\* _cap_gate: a row that is too large, the limits, the clock.
Refuses(row, late) ==
    \/ row.size > MaxBytes \/ late
    \/ Len(read.rows) >= MaxRows
    \/ read.rows # <<>> /\ read.bytes + row.size > MaxBytes

\* One fetched row is admitted or ends the read.
ExamineRow(late) ==
    /\ read.pc = "examine" /\ read.page # <<>>
    /\ LET row == Head(read.page)
       IN  read' =
             IF Refuses(row, late)
             THEN [read EXCEPT !.pc = "done", !.truncated = TRUE, !.page = <<>>]
             ELSE [read EXCEPT !.rows = Append(@, row), !.bytes = @ + row.size,
                               !.page = Tail(@)]
    /\ UNCHANGED <<table, rendered, edits, stable>>

\* The page is used up: a full one is followed by another.
EndOfPage ==
    /\ read.pc = "examine" /\ read.page = <<>>
    /\ read' = [read EXCEPT !.pc = IF read.ordering = "none" THEN "done"
                                   ELSE IF read.full THEN "fetch" ELSE "probe"]
    /\ UNCHANGED <<table, rendered, edits, stable>>

\* A batch of exactly max_rows asks once more whether anything follows.
Probe ==
    /\ read.pc = "probe"
    /\ read' = [read EXCEPT
          !.pc = "done",
          !.truncated = Len(read.rows) >= MaxRows /\ AfterWatermark # <<>>]
    /\ UNCHANGED <<table, rendered, edits, stable>>

\* A page's statement or the probe's fails: the database refuses to compare
\* the key with the watermark's text, or the connection is lost.  The read is
\* given up with the rows it has, and the request may be tried again.
ReadFails ==
    /\ read.pc = "fetch" \/ (read.pc = "probe" /\ Len(read.rows) >= MaxRows)
    /\ read' = IdleRead
    /\ stable' = {}
    /\ UNCHANGED <<table, rendered, edits>>

TableNext ==
    \/ \E k \in PrimaryKeys, size \in RowSizes \cup {0} : Edit(k, size)
    \/ \E ordering \in Ordering : StartRead(ordering)
    \/ FetchPage
    \/ \E late \in BOOLEAN : ExamineRow(late)
    \/ EndOfPage
    \/ Probe
    \/ ReadFails

TableSpec == TableInit /\ [][TableNext]_tableVars

ReadKeys == {read.rows[i].key : i \in 1 .. Len(read.rows)}
LastKey == IF read.rows = <<>> THEN 0 ELSE Last(read.rows).key

\* JSON's value of a key compares with the keys as the key does: numbers, text,
\* and what str() writes for a uuid, a date or a decimal.  It does not for a
\* bytea key, whose text only tells its length, nor for a real, which the
\* shortest decimal does not equal.
KeepsOrder == \A j, k \in PrimaryKeys : j > rendered[k] <=> j > k

\* A finished read never loses a row silently: no row occurs twice, every row
\* that stood unchanged during the whole read was read unless the batch says
\* it is truncated, and up to the last key read even then.  Pages have different
\* snapshots, so this is about rows coming and going between them.  It holds of
\* every table when the read ends within its first page, which no watermark
\* limits; past that page it needs a key whose conversion keeps the order.
NothingIsLostSilently ==
    read.pc = "done" /\ (KeepsOrder \/ read.ordering = "none" \/ Len(read.rows) < PageSize) =>
        /\ Cardinality(ReadKeys) = Len(read.rows)
        /\ ~read.truncated => stable \subseteq ReadKeys
        /\ read.ordering = "primary_key" =>
              {k \in stable : k <= LastKey} \subseteq ReadKeys
=============================================================================
