-------------------------------- MODULE Hpack --------------------------------
(***************************************************************************)
(* The encoder: the loop of main() in hpack.cc, one action per arm of its  *)
(* if-chain, for one input line each.  Pushing the header and shrinking    *)
(* the table are part of the arm that decides to push.                     *)
(***************************************************************************)
EXTENDS HpackTable

CONSTANTS
    Header,            \* the headers the input lines hold
    MaxDynamicSize,    \* max_dynamic_size (4096)
    MaxHeaders         \* bound: the number of input lines

ASSUME HpackAssumption ==
    /\ Header \subseteq Entry
    /\ MaxDynamicSize \in Nat
    /\ 2 * MaxDynamicSize < UIntRange
    /\ MaxHeaders \in Nat

VARIABLES
    sent,              \* the headers of the lines handled so far
    out,               \* the instructions written to stdout so far
    encTable           \* dyn_table

hpackVars == << sent, out, encTable >>

\* The forms of instruction are those of the abstract encoder.
Std == INSTANCE StdEncoder WITH
    SizeLimit <- MaxDynamicSize, Sizes <- {}, MaxInstructions <- MaxHeaders,
    stdTable <- encTable.table, stdMax <- MaxDynamicSize

HpackInit ==
    /\ sent = << >>
    /\ out = << >>
    /\ encTable = EmptyTable

\* Mutation: the threshold is above the budget.
OversizedLate(h) == EntrySize(h) > (3 * MaxDynamicSize) \div 2

\* A header this large is not worth emptying the table for.
Oversized(h) == EntrySize(h) > (3 * MaxDynamicSize) \div 4

WriteLine(h, instr) ==
    /\ Len(sent) < MaxHeaders
    /\ sent' = Append(sent, h)
    /\ out' = Append(out, instr)

PushAndShrink(h) == encTable' = Shrink(Push(encTable, h), MaxDynamicSize)

EncodeOversizedNamed(h) ==
    /\ Oversized(h)
    /\ FindName(encTable, h.name) # 0
    /\ WriteLine(h, Std!NamedByIndex(FALSE, FindName(encTable, h.name), h.value))
    /\ UNCHANGED encTable

EncodeOversizedLiteral(h) ==
    /\ Oversized(h)
    /\ FindName(encTable, h.name) = 0
    /\ WriteLine(h, Std!Literal(FALSE, h))
    /\ UNCHANGED encTable

\* Mutation: 0 for "not found" is taken for an index.
EncodeIndexedAlways(h) ==
    /\ ~ Oversized(h)
    /\ WriteLine(h, Std!Indexed(Find(encTable, h)))
    /\ UNCHANGED encTable

EncodeIndexed(h) ==
    /\ ~ Oversized(h)
    /\ Find(encTable, h) # 0
    /\ WriteLine(h, Std!Indexed(Find(encTable, h)))
    /\ UNCHANGED encTable

EncodeNamed(h) ==
    /\ ~ Oversized(h)
    /\ Find(encTable, h) = 0
    /\ FindName(encTable, h.name) # 0
    /\ WriteLine(h, Std!NamedByIndex(TRUE, FindName(encTable, h.name), h.value))
    /\ PushAndShrink(h)

EncodeLiteral(h) ==
    /\ ~ Oversized(h)
    /\ Find(encTable, h) = 0
    /\ FindName(encTable, h.name) = 0
    /\ WriteLine(h, Std!Literal(TRUE, h))
    /\ PushAndShrink(h)

EncodeLine(h) ==
    \/ EncodeOversizedNamed(h)
    \/ EncodeOversizedLiteral(h)
    \/ EncodeIndexed(h)
    \/ EncodeNamed(h)
    \/ EncodeLiteral(h)

HpackNext == \E h \in Header : EncodeLine(h)

HpackSpec == HpackInit /\ [][HpackNext]_hpackVars
=============================================================================
