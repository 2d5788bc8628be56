------------------------------- MODULE Session -------------------------------
(***************************************************************************)
(* Any standard encoder, and hunpack reading what it wrote.  hunpack reads *)
(* its whole input before it unpacks any of it, as run_tests.py does with  *)
(* the concatenated wire data of a test case.                              *)
(***************************************************************************)
EXTENDS StdEncoder, Unpack

VARIABLES
    fed,     \* read_fully() has seen the end of the input and fed it
    hist     \* history variable: hist[k + 1] is the encoder's table, and
             \* the number of headers encoded, after k instructions

sessionVars == << stdVars, unpackVars, fed, hist >>

Moment(es, headers) == [table |-> es, count |-> Len(headers)]

SessionInit ==
    /\ StdInit
    /\ UnpackInit(SizeLimit)
    /\ fed = FALSE
    /\ hist = << Moment(<< >>, << >>) >>

EncoderStep ==
    /\ ~ fed
    /\ StdNext
    /\ hist' = Append(hist, Moment(stdTable', sent'))
    /\ UNCHANGED << unpackVars, fed >>

\* hunpack: state.feed(read_fully(stdin)).
ReadFully ==
    /\ ~ fed
    /\ fed' = TRUE
    /\ Feed(out)
    /\ UNCHANGED << stdVars, hist >>

DecoderStep ==
    /\ UnpackNext
    /\ UNCHANGED << stdVars, fed, hist >>

\* Both programs have returned from main.
Exited ==
    /\ fed
    /\ buffer = << >>
    /\ UNCHANGED sessionVars

SessionNext == EncoderStep \/ ReadFully \/ DecoderStep \/ Exited

SessionSpec == SessionInit /\ [][SessionNext]_sessionVars

\* The end of the input arrives, and unpack() is a loop that nothing blocks.
SessionFairSpec ==
    SessionSpec /\ WF_sessionVars(ReadFully) /\ WF_sessionVars(DecoderStep)

-----------------------------------------------------------------------------

SessionTypeOK ==
    /\ sent \in Seq(Header)
    /\ out \in Seq(Instruction)
    /\ stdTable \in Seq(Entry)
    /\ stdMax \in 0 .. SizeLimit
    /\ buffer \in Seq(Instruction)
    /\ decTable \in Table
    /\ maxDynamicSize \in 0 .. UIntRange - 1
    /\ decoded \in Seq(Entry)
    /\ fed \in BOOLEAN
    /\ hist \in Seq([table : Seq(Entry), count : Nat])

\* The number of instructions the decoder has carried out.
Position == IF fed THEN Len(out) - Len(buffer) ELSE 0

\* The decoder never evicts on a push and the encoder does, so their tables
\* differ in length.  Yet whatever the encoder's table held when it wrote the
\* next instruction, the decoder's table holds at the same indices.
Synchronised == IsPrefix(hist[Position + 1].table, decTable.table)

\* size is the number of bytes of the table, modulo the width of unsigned,
\* however many entries were pushed and evicted (common.h:767-774, 792-795).
DecoderAccounting == decTable.size = Bytes(decTable.table) % UIntRange

\* A table size update, be it to the size the table has, leaves no more than it
\* allows, unless size has wrapped around since it was last exact (unpack.h:129-133).
UpdateEvicts ==
    [][ (/\ buffer # << >> /\ Head(buffer).op = "resize"
         /\ buffer' = Tail(buffer)
         /\ Bytes(decTable.table) < UIntRange)
            => Bytes(decTable'.table) <= Head(buffer).max ]_sessionVars

\* Everything hunpack prints is what the encoder was given, in that order:
\* check_unpack of run_tests.py.
Delivery == INSTANCE Delivery WITH received <- decoded
DeliversHeaders == Delivery!Spec

\* hunpack gets to the end of its input and has printed every header.
AllDelivered == <>[](fed /\ buffer = << >> /\ decoded = sent)
=============================================================================
