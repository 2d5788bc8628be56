------------------------------- MODULE Unpack -------------------------------
(***************************************************************************)
(* The decoder: class UnpackState of unpack.h.  unpack() is a loop over    *)
(* the buffer; each action below is one turn of it, on the instruction at  *)
(* the front.  feed() is called by the owner, who composes this module.    *)
(*                                                                         *)
(* A push is not followed by a shrink: only a table size update evicts.    *)
(***************************************************************************)
EXTENDS HpackTable

VARIABLES
    buffer,            \* what was fed and is not unpacked yet
    decTable,          \* dyn_table
    maxDynamicSize,    \* max_dynamic_size
    decoded            \* the headers handed to the callback so far

unpackVars == << buffer, decTable, maxDynamicSize, decoded >>

UnpackInit(max) ==
    /\ buffer = << >>
    /\ decTable = EmptyTable
    /\ maxDynamicSize = max
    /\ decoded = << >>

Feed(data) ==
    /\ buffer' = buffer \o data
    /\ UNCHANGED << decTable, maxDynamicSize, decoded >>

\* The callback comes before the push.
Deliver(e, push) ==
    /\ decoded' = Append(decoded, e)
    /\ decTable' = IF push THEN Push(decTable, e) ELSE decTable
    /\ UNCHANGED maxDynamicSize

Consume(op) ==
    /\ buffer # << >>
    /\ Head(buffer).op = op
    /\ buffer' = Tail(buffer)

\* Mutation: push = false is missing from the arm.
UnpackIndexedPushes ==
    /\ Consume("indexed")
    /\ Deliver(Get(decTable.table, Head(buffer).index), TRUE)

UnpackIndexed ==
    /\ Consume("indexed")
    /\ Deliver(Get(decTable.table, Head(buffer).index), FALSE)

UnpackNamed ==
    /\ Consume("named")
    /\ Deliver([name  |-> Get(decTable.table, Head(buffer).index).name,
                value |-> Head(buffer).value],
               Head(buffer).push)

\* Mutation: push = false is missing from the arm.
UnpackLiteralPushes ==
    /\ Consume("literal")
    /\ Deliver(Head(buffer).header, TRUE)

UnpackLiteral ==
    /\ Consume("literal")
    /\ Deliver(Head(buffer).header, Head(buffer).push)

\* Mutation: shrink() is commented out, as it is after push().
UnpackResizeKeeps ==
    /\ Consume("resize")
    /\ maxDynamicSize' = Head(buffer).max
    /\ UNCHANGED << decTable, decoded >>

\* Mutation: a break in place of the continue.
UnpackResizeBreaks ==
    /\ buffer # << >>
    /\ Head(buffer).op = "resize"
    /\ buffer' = << >>
    /\ maxDynamicSize' = Head(buffer).max
    /\ decTable' = Shrink(decTable, maxDynamicSize')
    /\ UNCHANGED decoded

UnpackResize ==
    /\ Consume("resize")
    /\ maxDynamicSize' = Head(buffer).max
    /\ decTable' = Shrink(decTable, maxDynamicSize')
    /\ UNCHANGED decoded

UnpackNext == UnpackIndexed \/ UnpackNamed \/ UnpackLiteral \/ UnpackResize
=============================================================================
