----------------------------- MODULE TableSearch -----------------------------
(***************************************************************************)
(* The searches of the sorted tables, one action per turn of their loops:  *)
(* find_first_static() and find_static() of common.h in the static table,  *)
(* find_code() of unpack.h in huff_decode_table.  All begin with           *)
(* std::lower_bound, modelled as libstdc++ has it.                         *)
(*                                                                         *)
(* A window is the 32 bits that a code is searched in.  It is kept as its  *)
(* first 30 bits and the last 2, for the width of TLC's integers.          *)
(***************************************************************************)
EXTENDS HpackTable, CommonTables

CONSTANTS
    Entries,       \* the headers that are searched in the static table
    Searched       \* the octets whose codes are searched

ASSUME SearchAssumption ==
    /\ Entries \subseteq Entry
    /\ StaticTable = static_table
    /\ Searched \subseteq 0 .. 255

Code(c) == huff_codes[c + 1]
CodeLen(c) == huff_lengths[c + 1]

\* What can follow a code in a window: zeros, ones, and all between them.
Windows(c) ==
    LET free  == 2 ^ (30 - CodeLen(c))
    IN  { << Code(c) * free, 0 >>, << Code(c) * free + free - 1, 3 >> }

\* code >= 0xfffffffc.
IsEos(window) == window[1] = 2 ^ 30 - 1

\* The calls, of find_static() with or without a value, and of find_code().
Tasks ==
         [find : {"name", "header"}, key : Entries]
    \cup [find : {"code"}, key : UNION {Windows(c) : c \in Searched}]

VARIABLES
    task,          \* the call
    start, count,  \* of lower_bound: the range that is left
    stage,         \* "search", "walk", "done"
    result         \* the index found, 0 for none; beyond the table: undefined

searchVars == << task, start, count, stage, result >>

Size == IF task.find = "code" THEN Len(huff_decode_table) ELSE Len(StaticTable)

SearchInit ==
    /\ task \in {t \in Tasks : t.find = "code" => ~ IsEos(t.key)}
    /\ start = 1
    /\ count = Size
    /\ stage = "search"
    /\ result = 0

\* HuffTableEntry::operator <, and strcmp.
Below(i) ==
    IF task.find = "code"
    THEN \/ huff_decode_table[i].msb_code < task.key[1]
         \/ huff_decode_table[i].msb_code = task.key[1] /\ task.key[2] > 0
    ELSE NameRank[StaticTable[i].name] < NameRank[task.key.name]

\* Mutation: the lower half is left with the entry in the middle.
NarrowInclusive ==
    /\ stage = "search" /\ count > 0
    /\ LET half == count \div 2
       IN  IF Below(start + half)
           THEN start' = start + half + 1 /\ count' = count - half
           ELSE start' = start /\ count' = half
    /\ UNCHANGED << task, stage, result >>

Narrow ==
    /\ stage = "search" /\ count > 0
    /\ LET half == count \div 2
       IN  IF Below(start + half)
           THEN start' = start + half + 1 /\ count' = count - half - 1
           ELSE start' = start /\ count' = half
    /\ UNCHANGED << task, stage, result >>

Found == stage = "search" /\ count = 0

\* Mutation: no step back.
CodeFoundAbove ==
    /\ Found /\ task.find = "code"
    /\ stage' = "done"
    /\ result' = start
    /\ UNCHANGED << task, start, count >>

\* One step back from an entry that is above the window.  At the end of the
\* array there is none: whatever is there is compared.
CodeFound ==
    /\ Found /\ task.find = "code"
    /\ stage' = "done"
    /\ IF start > Size
       THEN result' \in {start - 1, start}
       ELSE result' = IF huff_decode_table[start].msb_code > task.key[1] THEN start - 1 ELSE start
    /\ UNCHANGED << task, start, count >>

SameName(i) == i <= Size /\ StaticTable[i].name = task.key.name

\* find_first_static() has ended.
NameFound ==
    /\ Found /\ task.find # "code"
    /\ IF SameName(start) /\ task.find = "header"
       THEN stage' = "walk" /\ UNCHANGED result
       ELSE stage' = "done" /\ result' = IF SameName(start) THEN start ELSE 0
    /\ UNCHANGED << task, start, count >>

\* Mutation: the name is not compared again.
WalkOn ==
    /\ stage = "walk"
    /\ IF StaticTable[start].value = task.key.value
       THEN stage' = "done" /\ result' = start /\ UNCHANGED start
       ELSE /\ start' = start + 1
            /\ stage' = IF start < Size THEN "walk" ELSE "done"
            /\ UNCHANGED result
    /\ UNCHANGED << task, count >>

\* The loop of find_static().
Walk ==
    /\ stage = "walk"
    /\ IF StaticTable[start].value = task.key.value
       THEN stage' = "done" /\ result' = start /\ UNCHANGED start
       ELSE /\ start' = start + 1
            /\ stage' = IF SameName(start + 1) THEN "walk" ELSE "done"
            /\ UNCHANGED result
    /\ UNCHANGED << task, count >>

SearchEnded == stage = "done" /\ UNCHANGED searchVars

SearchNext == Narrow \/ CodeFound \/ NameFound \/ Walk \/ SearchEnded

SearchSpec == SearchInit /\ [][SearchNext]_searchVars

-----------------------------------------------------------------------------

\* Types; no entry outside its table is compared on the way, and lower_bound
\* takes no more turns than the table's size has bits.
SearchTypeOK ==
    /\ task \in Tasks
    /\ start \in 1 .. Size + 1 /\ count \in 0 .. Size /\ start + count <= Size + 1
    /\ stage = "walk" => start <= Size
    /\ result \in 0 .. Size + 1

\* Whatever octet a window begins with the code of, and whatever follows, that
\* octet is found: each code is in huff_decode_table, shifted by its length in
\* huff_lengths, and no other is between the two.  But above the last code,
\* that of 0x16, the search leaves the table (unpack.h:2-12).
FindsCode ==
    (task.find = "code" /\ stage = "done") =>
        \A c \in Searched : task.key \in Windows(c) =>
            IF c = 22 /\ task.key[2] > 0 THEN result >= Size
            ELSE huff_decode_table[result] = [msb_code |-> Code(c) * 2 ^ (30 - CodeLen(c)), value |-> c]

\* The loops compute what HpackTable says: the first entry of the name and
\* value, or of the name (common.h:694-734).
LookupComputed ==
    (task.find # "code" /\ stage = "done") =>
        result = IF task.find = "name" THEN FindFirstStatic(task.key.name) ELSE FindStatic(task.key)

\* They do so on the real static table, and all that is in the table is found,
\* but for "accept", which is out of order (common.h:643-644, 694-734).
FindsStatic ==
    /\ LookupComputed
    /\ (task.find # "code" /\ stage = "done") =>
          LET hits == {i \in DOMAIN StaticTable :
                          /\ StaticTable[i].name = task.key.name
                          /\ task.find = "name" \/ StaticTable[i] = task.key}
          IN  result = IF hits = {} \/ task.key.name = "accept" THEN 0 ELSE Min(hits)
=============================================================================
