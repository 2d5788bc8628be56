----------------------------- MODULE StdEncoder -----------------------------
(***************************************************************************)
(* What an HPACK encoder promises: any encoder that follows the standard,  *)
(* with the choices the standard leaves open left open.  It is the         *)
(* abstract specification of the encoder of hpack.cc (module Hpack), and   *)
(* it stands for the encoders whose output run_tests.py feeds to hunpack:  *)
(* the implementations behind hpack-test-case and nghttp2 (ng_hpack.cc).   *)
(*                                                                         *)
(* Besides its table the encoder keeps what it was given (sent) and what   *)
(* it wrote (out), a sequence of instructions.                             *)
(***************************************************************************)
EXTENDS StdTable

CONSTANTS
    Header,        \* the header fields given to the encoder
    SizeLimit,     \* the largest table size the decoder allows (4096)
    Sizes,         \* the sizes the encoder may change its table to
    MaxInstructions   \* bound: the number of instructions of a run

ASSUME HeaderAssumption ==
    /\ Header \subseteq Entry
    /\ SizeLimit \in Nat
    /\ SizeLimit < UIntRange
    /\ Sizes \subseteq 0 .. SizeLimit
    /\ MaxInstructions \in Nat

VARIABLES
    sent,          \* the headers encoded so far
    out,           \* the instructions written so far
    stdTable,      \* the entries of the dynamic table, newest first
    stdMax         \* the maximum size of the dynamic table

stdVars == << sent, out, stdTable, stdMax >>

-----------------------------------------------------------------------------
(* The instructions, one for each form unpack() tells apart by the leading *)
(* bits.  push says whether the decoder adds the header to its table.      *)

Indexed(i)            == [op |-> "indexed", index |-> i]
NamedByIndex(push, i, value)  ==
    [op |-> "named", push |-> push, index |-> i, value |-> value]
Literal(push, e)      == [op |-> "literal", push |-> push, header |-> e]
Resize(max)           == [op |-> "resize", max |-> max]

Instruction ==
         [op : {"indexed"}, index : Nat \ {0}]
    \cup [op : {"named"}, push : BOOLEAN, index : Nat \ {0}, value : Value]
    \cup [op : {"literal"}, push : BOOLEAN, header : Entry]
    \cup [op : {"resize"}, max : 0 .. UIntRange - 1]

-----------------------------------------------------------------------------

StdInit ==
    /\ sent = << >>
    /\ out = << >>
    /\ stdTable = << >>
    /\ stdMax = SizeLimit

Write(h, instr) ==
    /\ Len(out) < MaxInstructions
    /\ sent' = Append(sent, h)
    /\ out' = Append(out, instr)

MaybeInsert(push, h) ==
    /\ stdTable' = IF push THEN Insert(stdTable, h, stdMax) ELSE stdTable
    /\ UNCHANGED stdMax

\* The index of an entry equal to the header.
StdIndexed(h) ==
    \E i \in ValidIndex(stdTable) :
        /\ Get(stdTable, i) = h
        /\ Write(h, Indexed(i))
        /\ MaybeInsert(FALSE, h)

\* The index of an entry with the header's name, and the value spelled out.
StdNamed(h) ==
    \E i \in ValidIndex(stdTable), push \in BOOLEAN :
        /\ Get(stdTable, i).name = h.name
        /\ Write(h, NamedByIndex(push, i, h.value))
        /\ MaybeInsert(push, h)

\* Both spelled out.
StdLiteral(h) ==
    \E push \in BOOLEAN :
        /\ Write(h, Literal(push, h))
        /\ MaybeInsert(push, h)

\* A dynamic table size update.
StdResize(max) ==
    /\ Len(out) < MaxInstructions
    /\ out' = Append(out, Resize(max))
    /\ stdMax' = max
    /\ stdTable' = Fit(stdTable, max)
    /\ UNCHANGED sent

StdEncode(h) == StdIndexed(h) \/ StdNamed(h) \/ StdLiteral(h)

StdNext ==
    \/ \E h \in Header : StdEncode(h)
    \/ \E max \in Sizes : StdResize(max)

StdSpec == StdInit /\ [][StdNext]_stdVars
=============================================================================
