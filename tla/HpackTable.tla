----------------------------- MODULE HpackTable -----------------------------
(***************************************************************************)
(* The header tables of common.h, shared by the encoder (hpack.cc) and the *)
(* decoder (unpack.h): TableEntry, the static table with its lookups, and  *)
(* the operations of struct DynamicTable.                                  *)
(*                                                                         *)
(* Strings are opaque: a name or a value is an element of a set, and all   *)
(* the code can tell of it is its length and, for names, its place in the  *)
(* order of strcmp, which the binary search of the static table relies on. *)
(***************************************************************************)
EXTENDS Integers, Sequences, SequencesExt

CONSTANTS
    Name, Value,   \* the header names and values (strings without NUL bytes)
    NameLen,       \* length() of each name
    ValueLen,      \* length() of each value
    NameRank,      \* strcmp(a, b) < 0 is NameRank[a] < NameRank[b]
    StaticTable,   \* static_table: a sequence of entries
    UIntRange      \* unsigned arithmetic is modulo this (2^32 in the build)

Entry == [name : Name, value : Value]

\* What get() and get_name() answer for an index outside both tables.  The
\* value is a formatted message; one constant stands for all of them.
InvalidEntry == [name |-> "invalid table index", value |-> "invalid table index"]

ASSUME TableAssumption ==
    /\ NameLen \in [Name -> Nat]
    /\ ValueLen \in [Value -> Nat]
    /\ NameRank \in [Name -> Nat]
    /\ StaticTable \in Seq(Entry)
    /\ UIntRange \in Nat \ {0}
    /\ InvalidEntry \in Entry
    /\ InvalidEntry \notin ToSet(StaticTable)

\* TableEntry::size().
EntrySize(e) == 32 + NameLen[e.name] + ValueLen[e.value]

\* Indices 1 .. DynamicTableStart - 1 are static.
DynamicTableStart == Len(StaticTable) + 1

-----------------------------------------------------------------------------
(* The static table.                                                       *)

\* std::lower_bound over the names: where it ends when the range that is left
\* has len of them, from first.  The search halves the range whether or not the
\* table is sorted.
SearchFrom(name) ==
    LET N == Len(StaticTable)
        search[len \in 0 .. N] ==
            [first \in 1 .. N + 1 - len |->
                LET half == len \div 2
                    mid  == first + half
                IN  IF len = 0 THEN first
                    ELSE IF NameRank[StaticTable[mid].name] < NameRank[name]
                         THEN search[len - half - 1][mid + 1]
                         ELSE search[half][first]]
    IN  search

LowerBound(name) == SearchFrom(name)[Len(StaticTable)][1]

\* find_first_static, as a 1-based index, 0 for nullptr.
FindFirstStatic(name) ==
    LET p == LowerBound(name)
    IN  IF p \in DOMAIN StaticTable /\ StaticTable[p].name = name THEN p ELSE 0

\* find_static(name, value): walk the entries of that name from the first.
FindStatic(e) ==
    LET p == FindFirstStatic(e.name)
        hits == {q \in p .. Len(StaticTable) :
                    /\ StaticTable[q].value = e.value
                    /\ \A r \in p .. q : StaticTable[r].name = e.name}
    IN  IF p = 0 \/ hits = {} THEN 0 ELSE Min(hits)

-----------------------------------------------------------------------------
(* The dynamic table: a deque with the newest entry first, and its size.   *)

EmptyTable == [table |-> << >>, size |-> 0]

Table == [table : Seq(Entry), size : Nat]

\* Ledger(es)[k] is the number of bytes of the k newest entries.
Ledger(es) ==
    LET sum[k \in 0 .. Len(es)] ==
            IF k = 0 THEN 0 ELSE sum[k - 1] + EntrySize(es[k])
    IN  sum

Bytes(es) == Ledger(es)[Len(es)]

\* Mutation: the entry goes to the back of the deque.
PushBack(t, e) == [table |-> Append(t.table, e),
                   size  |-> (t.size + EntrySize(e)) % UIntRange]

\* DynamicTable::push: no eviction, the size wraps.
Push(t, e) == [table |-> << e >> \o t.table,
               size  |-> (t.size + EntrySize(e)) % UIntRange]

\* Mutation: size is a signed number.
SizeAfterSigned(t, k) == t.size - (Bytes(t.table) - Ledger(t.table)[k])

\* The value of size when all but the k newest entries have been popped.
SizeAfter(t, k) == (t.size - (Bytes(t.table) - Ledger(t.table)[k])) % UIntRange

\* Mutation: it pops until there is room to spare.
StopsBelow(t, max) == {k \in 0 .. Len(t.table) : k = 0 \/ SizeAfter(t, k) < max}

\* DynamicTable::shrink pops from the back and stops at the first length at
\* which the size is within the budget, or at the empty table.
StopsAt(t, max) == {k \in 0 .. Len(t.table) : k = 0 \/ SizeAfter(t, k) <= max}

\* Mutation: an if in place of the while.
ShrinkOnce(t, max) ==
    IF t.size > max /\ t.table # << >>
    THEN [table |-> Front(t.table), size |-> SizeAfter(t, Len(t.table) - 1)]
    ELSE t

\* Mutation: entries are popped and not accounted for.
ShrinkUncounted(t, max) ==
    [t EXCEPT !.table = SubSeq(@, 1, Max(StopsAt(t, max)))]

Shrink(t, max) ==
    LET kept == Max(StopsAt(t, max))
    IN  [table |-> SubSeq(t.table, 1, kept), size |-> SizeAfter(t, kept)]

\* The first position of the deque that passes the test, as a wire index.
DynamicIndex(pos) == IF pos = 0 THEN 0 ELSE DynamicTableStart + pos - 1

\* Mutation: the search stops one entry short of the end.
FindShort(t, e) ==
    IF FindStatic(e) # 0
    THEN FindStatic(e)
    ELSE DynamicIndex(SelectInSubSeq(t.table, 1, Len(t.table) - 1, LAMBDA x : x = e))

\* DynamicTable::find(name, value): the static table wins.
Find(t, e) ==
    IF FindStatic(e) # 0
    THEN FindStatic(e)
    ELSE DynamicIndex(SelectInSeq(t.table, LAMBDA x : x = e))

\* DynamicTable::find(name).
FindName(t, name) ==
    IF FindFirstStatic(name) # 0
    THEN FindFirstStatic(name)
    ELSE DynamicIndex(SelectInSeq(t.table, LAMBDA x : x.name = name))

\* The indices that denote an entry, given the entries of the dynamic table.
ValidIndex(es) == 1 .. Len(StaticTable) + Len(es)

\* DynamicTable::get, and get_name as its name field.
Get(es, i) ==
    IF i \in DOMAIN StaticTable THEN StaticTable[i]
    ELSE IF i \in ValidIndex(es) THEN es[i - DynamicTableStart + 1]
    ELSE InvalidEntry
=============================================================================
