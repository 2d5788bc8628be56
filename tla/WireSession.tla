----------------------------- MODULE WireSession -----------------------------
(***************************************************************************)
(* A session down to the octets: any standard encoder, and hunpack, which  *)
(* is given all it wrote or, when the writer or the transport failed, only *)
(* the beginning of it.                                                    *)
(***************************************************************************)
EXTENDS StdEncoder, Wire

CONSTANT
    Ways        \* how the encoder may spell an instruction

ASSUME WaysAssumption == Ways \subseteq Spelling

\* Every index fits an unsigned: an entry takes at least 32 bytes of the table.
ASSUME IndexAssumption == Len(StaticTable) + SizeLimit < UIntRange

VARIABLES
    pieces,        \* the octets of each instruction written
    fed,           \* hunpack has read its input and fed it
    cut,           \* which was not all of the octets
    hist           \* history variable, as in Session

wireSessionVars == << stdVars, wireVars, pieces, fed, cut, hist >>

Moment(es, headers) == [table |-> es, count |-> Len(headers)]

WireSessionInit ==
    /\ StdInit
    /\ WireInit(SizeLimit)
    /\ pieces = << >>
    /\ fed = FALSE
    /\ cut = FALSE
    /\ hist = << Moment(<< >>, << >>) >>

EncoderWrites ==
    /\ ~ fed
    /\ StdNext
    /\ \E s \in Ways : pieces' = Append(pieces, InstructionOctets(Last(out'), s))
    /\ hist' = Append(hist, Moment(stdTable', sent'))
    /\ UNCHANGED << wireVars, fed, cut >>

\* state.feed(read_fully(stdin)).
ReadFully ==
    /\ ~ fed
    /\ fed' = TRUE
    /\ LET all == FlattenSeq(pieces)
       IN  \E k \in 0 .. Len(all) : Feed(SubSeq(all, 1, k)) /\ cut' = (k < Len(all))
    /\ UNCHANGED << stdVars, pieces, hist, aborted >>

DecoderTurn ==
    /\ Turn
    /\ UNCHANGED << stdVars, pieces, fed, cut, hist >>

\* hunpack has returned from main, or was aborted.
Ended ==
    /\ fed
    /\ aborted \/ buffer = << >>
    /\ UNCHANGED wireSessionVars

WireSessionNext == EncoderWrites \/ ReadFully \/ DecoderTurn \/ Ended

WireSessionSpec == WireSessionInit /\ [][WireSessionNext]_wireSessionVars

-----------------------------------------------------------------------------

\* The texts that the encoder was given, and those of the tables.
Known(field) == {e[field] : e \in Header \cup ToSet(StaticTable) \cup {InvalidEntry}}
KnownEntry == [name : Known("name"), value : Known("value")]

\* Types.  What is printed is made of whole texts that are known, even where
\* the input ends inside an instruction: no part of a string, and none that
\* begins or ends an octet off (unpack.h:82-97).
WireTypeOK ==
    /\ pieces \in Seq(Seq(Octet)) /\ Len(pieces) = Len(out)
    /\ buffer \in Seq(Octet)
    /\ decTable \in Table
    /\ maxDynamicSize \in UInt
    /\ decoded \in Seq(KnownEntry)
    /\ aborted \in BOOLEAN /\ fed \in BOOLEAN /\ cut \in BOOLEAN

\* The instructions that are left, if what is left are their octets.
LeftFrom(k) == SubSeq(pieces, k + 1, Len(pieces))
Left == {k \in 0 .. Len(out) : buffer = FlattenSeq(LeftFrom(k))}

\* A string of the k-th instruction is in Huffman code that may overrun.
OverrunIn(k) ==
    \E s \in Spelling :
        pieces[k] = InstructionOctets(out[k], s) /\ CodedTexts(out[k], s) \cap Overrun # {}

\* Between two turns the decoder stands where one instruction ends and another
\* begins: no turn reads an octet too many or too few, whatever the forms and
\* lengths.  Unless the input was cut short an assertion fails only at a string
\* with the last Huffman code of the table (unpack.h:46, 84, 89, 116-163).
InStep ==
    (fed /\ ~ cut) =>
        /\ Left # {}
        /\ aborted => \E k \in Left : k < Len(out) /\ OverrunIn(k + 1)

\* hunpack, given octets, does what it does in Session, given instructions.
\* A session whose octets are cut short is one that has not fed them yet.
Given == fed /\ ~ cut
Session == INSTANCE Session WITH
    fed            <- Given,
    buffer         <- IF Given THEN SubSeq(out, Min(Left) + 1, Len(out)) ELSE << >>,
    decTable       <- IF cut THEN EmptyTable ELSE decTable,
    maxDynamicSize <- IF cut THEN SizeLimit ELSE maxDynamicSize,
    decoded        <- IF cut THEN << >> ELSE decoded
ImplementsSession == Session!SessionSpec

\* Wherever the input ends, hunpack prints a beginning of the headers, and at
\* most the last of them is wrong: an integer that is cut short is taken for a
\* smaller one, while a string that is cut short is never printed at all
\* (unpack.h:71, 84, 89).
CutKeepsPrefix ==
    /\ Len(decoded) <= Len(sent)
    /\ IsPrefix(IF cut /\ ~ aborted /\ decoded # << >> THEN Front(decoded) ELSE decoded, sent)
=============================================================================
